------------------------ MODULE WriteDurabilityProofs ------------------------
(***************************************************************************)
(* Proofs, for any sets of writes and keys, that the durability protocol   *)
(* of WriteDurability keeps its promises.                                  *)
(***************************************************************************)
EXTENDS WriteDurability, TLAPS

(* Issuing, and forgetting what a delete had taken over, never un-issues a *)
(* write: the two steps that change claims keep the set of issued writes.  *)
LEMMA IssueKeepsIssued ==
    ASSUME TypeOK, NEW t \in Tx, NEW absorbed \in SUBSET issued, Issue(t, absorbed)
    PROVE  issued' = issued \cup {t}
<1>1. \A u \in Tx : u # t => claims'[u] = claims[u]
  BY DEF Issue, TypeOK
<1>2. t \in claims'[t]
  BY DEF Issue, TypeOK
<1> QED
  BY <1>1, <1>2 DEF issued

LEMMA CrashKeepsIssued ==
    ASSUME TypeOK, NEW landed \in SUBSET saving, Crash(landed)
    PROVE  issued' = issued
BY DEF Crash, TypeOK, issued

LEMMA SameClaimsSameIssued ==
    ASSUME claims' = claims
    PROVE  issued' = issued
BY DEF issued

(* A group whose members are issued claims at least the members' own rows. *)
LEMMA MembersAreClaimed ==
    ASSUME TypeOK, NEW S \in SUBSET issued
    PROVE  S \subseteq Claimed(S)
BY DEF issued, Claimed, TypeOK

(* Type correctness is inductive on its own: every handler of the queue    *)
(* and of the store leaves well-typed durable state.                       *)
LEMMA TypeStep ==
    ASSUME TypeOK, [Next]_vars
    PROVE  TypeOK'
<1> USE DEF TypeOK
<1>1. ASSUME NEW t \in Tx, NEW absorbed \in SUBSET issued, Issue(t, absorbed)
      PROVE  TypeOK'
  <2>1. {t} \cup Claimed(absorbed) \subseteq Tx
    BY DEF Claimed, issued
  <2>2. claims' \in [Tx -> SUBSET Tx]
    BY <1>1, <2>1 DEF Issue
  <2> QED
    BY <1>1, <2>2 DEF Issue, ledger
<1>2. ASSUME NEW t \in Tx, Persist(t) PROVE TypeOK'
  BY <1>2 DEF Persist, groups, ledger
<1>3. ASSUME NEW t \in Tx, PersistFail(t) PROVE TypeOK'
  BY <1>3 DEF PersistFail, groups, ledger
<1>4. ASSUME NEW k \in Key, NEW S \in SUBSET issued, Mint(k, S) PROVE TypeOK'
  BY <1>4 DEF Mint, storage, ledger, issued
<1>5. ASSUME NEW k \in Key, Seal(k) PROVE TypeOK'
  <2>1. sources' \in [Key -> SUBSET Tx]
    BY <1>5 DEF Seal
  <2> QED
    BY <1>5, <2>1 DEF Seal, groups, ledger
<1>6. ASSUME NEW k \in Key, Dispatch(k) PROVE TypeOK'
  BY <1>6 DEF Dispatch, storage, groups
<1>7. ASSUME NEW k \in Key, ServerAccept(k) PROVE TypeOK'
  BY <1>7 DEF ServerAccept, storage, groups
<1>8. ASSUME NEW k \in Key, ServerReject(k) PROVE TypeOK'
  BY <1>8 DEF ServerReject, storage, groups
<1>9. ASSUME NEW k \in Key, Remove(k) PROVE TypeOK'
  BY <1>9 DEF Remove, storage, groups, ledger
<1>10. ASSUME NEW S \in SUBSET journal, Release(S) PROVE TypeOK'
  BY <1>10 DEF Release, groups, ledger
<1>11. ASSUME NEW landed \in SUBSET saving, Crash(landed) PROVE TypeOK'
  BY <1>11 DEF Crash, ledger
<1>12. CASE UNCHANGED vars
  BY <1>12 DEF vars, storage, groups, ledger
<1> QED
  BY <1>1, <1>2, <1>3, <1>4, <1>5, <1>6, <1>7, <1>8, <1>9, <1>10, <1>11, <1>12
     DEF Next

(* The durable state stays well typed.                                     *)
THEOREM TypeCorrect == Spec => []TypeOK
<1>1. Init => TypeOK
  BY DEF Init, TypeOK
<1> QED
  BY <1>1, TypeStep, PTL DEF Spec
-----------------------------------------------------------------------------
(* Steps that leave the rows, the groups and the seals alone keep the     *)
(* three parts of the invariant that speak of them.                       *)
LEMMA RowsUntouched ==
    ASSUME OneHome, GroupsClaimTheirRows, SealsAreDisjoint,
           UNCHANGED <<saving, journal, claims, members, sources, sealed>>
    PROVE  OneHome' /\ GroupsClaimTheirRows' /\ SealsAreDisjoint'
BY DEF OneHome, GroupsClaimTheirRows, SealsAreDisjoint, issued

(* Every step keeps each write in one home.                               *)
LEMMA DurabilityStep ==
    ASSUME DurabilityInv, [Next]_vars
    PROVE  DurabilityInv'
<1>1. TypeOK /\ OneHome /\ GroupsClaimTheirRows /\ SealsAreDisjoint /\ OnlySealedTravels
  BY DEF DurabilityInv
<1>2. TypeOK'
  BY <1>1, TypeStep
<1> SUFFICES OneHome' /\ GroupsClaimTheirRows' /\ SealsAreDisjoint' /\ OnlySealedTravels'
  BY <1>2 DEF DurabilityInv
<1> USE DEF OneHome, GroupsClaimTheirRows, SealsAreDisjoint, OnlySealedTravels
<1>3. ASSUME NEW t \in Tx, NEW absorbed \in SUBSET issued, Issue(t, absorbed)
      PROVE  OneHome' /\ GroupsClaimTheirRows' /\ SealsAreDisjoint' /\ OnlySealedTravels'
  <2>1. issued' = issued \cup {t} /\ t \notin issued
    BY <1>1, <1>3, IssueKeepsIssued DEF Issue
  <2>2. OneHome'
    BY <1>1, <1>3, <2>1 DEF Issue
  <2>3. GroupsClaimTheirRows'
    BY <1>1, <1>3, <2>1 DEF Issue
  <2> QED
    BY <1>1, <1>3, <2>2, <2>3 DEF Issue, ledger
<1>4. ASSUME NEW t \in Tx, Persist(t)
      PROVE  OneHome' /\ GroupsClaimTheirRows' /\ SealsAreDisjoint' /\ OnlySealedTravels'
  BY <1>1, <1>4, SameClaimsSameIssued DEF Persist, groups, ledger
<1>5. ASSUME NEW t \in Tx, PersistFail(t)
      PROVE  OneHome' /\ GroupsClaimTheirRows' /\ SealsAreDisjoint' /\ OnlySealedTravels'
  BY <1>1, <1>5, SameClaimsSameIssued DEF PersistFail, groups, ledger
<1>6. ASSUME NEW k \in Key, NEW S \in SUBSET issued, Mint(k, S)
      PROVE  OneHome' /\ GroupsClaimTheirRows' /\ SealsAreDisjoint' /\ OnlySealedTravels'
  <2>1. issued' = issued
    BY <1>6, SameClaimsSameIssued DEF Mint
  <2>2. k \notin sealed
    BY <1>1, <1>6 DEF Mint
  <2> QED
    BY <1>1, <1>6, <2>1, <2>2 DEF Mint, storage, ledger, TypeOK
<1>7. ASSUME NEW k \in Key, Seal(k)
      PROVE  OneHome' /\ GroupsClaimTheirRows' /\ SealsAreDisjoint' /\ OnlySealedTravels'
  <2> DEFINE rows == Claimed(members[k])
  <2>1. issued' = issued
    BY <1>7, SameClaimsSameIssued DEF Seal, groups
  <2>2. members[k] \subseteq rows
    BY <1>1, MembersAreClaimed
  <2>3. /\ rows \subseteq journal /\ k \notin sealed
        /\ journal' = journal \ rows /\ saving' = saving
        /\ sealed' = sealed \cup {k} /\ members' = members
        /\ sources'[k] = rows
        /\ \A l \in Key : l # k => sources'[l] = sources[l]
    BY <1>1, <1>7 DEF Seal, groups, TypeOK
  <2> HIDE DEF rows
  <2>4. OneHome'
    BY <1>1, <2>1, <2>3 DEF TypeOK
  <2>5. GroupsClaimTheirRows'
    BY <1>1, <1>7, <2>1, <2>2, <2>3 DEF Seal, TypeOK
  <2>6. \A l \in sealed : l # k /\ sources'[l] = sources[l] /\ sources[l] \cap rows = {}
    BY <1>1, <2>3 DEF TypeOK
  <2>7. SealsAreDisjoint'
    BY <1>1, <2>3, <2>6
  <2> QED
    BY <1>1, <1>7, <2>4, <2>5, <2>7 DEF Seal, ledger
<1>8. ASSUME NEW k \in Key, Dispatch(k)
      PROVE  OneHome' /\ GroupsClaimTheirRows' /\ SealsAreDisjoint' /\ OnlySealedTravels'
  BY <1>1, <1>8, RowsUntouched DEF Dispatch, storage, groups
<1>9. ASSUME NEW k \in Key, ServerAccept(k)
      PROVE  OneHome' /\ GroupsClaimTheirRows' /\ SealsAreDisjoint' /\ OnlySealedTravels'
  BY <1>1, <1>9, RowsUntouched DEF ServerAccept, storage, groups
<1>10. ASSUME NEW k \in Key, ServerReject(k)
      PROVE  OneHome' /\ GroupsClaimTheirRows' /\ SealsAreDisjoint' /\ OnlySealedTravels'
  BY <1>1, <1>10, RowsUntouched DEF ServerReject, storage, groups
<1>11. ASSUME NEW k \in Key, Remove(k)
      PROVE  OneHome' /\ GroupsClaimTheirRows' /\ SealsAreDisjoint' /\ OnlySealedTravels'
  BY <1>1, <1>11, RowsUntouched DEF Remove, storage, groups, ledger
<1>12. ASSUME NEW S \in SUBSET journal, Release(S)
      PROVE  OneHome' /\ GroupsClaimTheirRows' /\ SealsAreDisjoint' /\ OnlySealedTravels'
  BY <1>1, <1>12, SameClaimsSameIssued DEF Release, groups, ledger
<1>13. ASSUME NEW landed \in SUBSET saving, Crash(landed)
      PROVE  OneHome' /\ GroupsClaimTheirRows' /\ SealsAreDisjoint' /\ OnlySealedTravels'
  <2>1. issued' = issued
    BY <1>1, <1>13, CrashKeepsIssued
  <2> QED
    BY <1>1, <1>13, <2>1 DEF Crash, ledger
<1>14. CASE UNCHANGED vars
  BY <1>1, <1>14, RowsUntouched DEF vars, storage, groups, ledger
<1> QED
  BY <1>3, <1>4, <1>5, <1>6, <1>7, <1>8, <1>9, <1>10, <1>11, <1>12, <1>13, <1>14
     DEF Next

(* The inductive invariant holds of every behaviour.                       *)
THEOREM DurabilityInvariant == Spec => []DurabilityInv
<1>1. Init => DurabilityInv
  BY DEF Init, DurabilityInv, TypeOK, OneHome, GroupsClaimTheirRows,
         SealsAreDisjoint, OnlySealedTravels, issued
<1> QED
  BY <1>1, DurabilityStep, PTL DEF Spec

(* No write is applied under two keys: two accepted keys were both sealed, *)
(* so the journal rows they consumed, and hence their members, are         *)
(* disjoint.                                                               *)
THEOREM WritesApplyOnce == Spec => []ExactlyOnce
<1>1. DurabilityInv => ExactlyOnce
  BY DEF DurabilityInv, GroupsClaimTheirRows, SealsAreDisjoint,
         OnlySealedTravels, ExactlyOnce
<1> QED
  BY <1>1, DurabilityInvariant, PTL
-----------------------------------------------------------------------------
(* Each step that deletes journal rows either seals or releases them.      *)
LEMMA HandoffStep ==
    ASSUME TypeOK, NoMissingHandoff, [Next]_vars
    PROVE  NoMissingHandoff'
<1> USE DEF NoMissingHandoff
<1>1. ASSUME NEW k \in Key, Seal(k) PROVE NoMissingHandoff'
  <2> DEFINE rows == Claimed(members[k])
  <2>1. /\ journal' = journal \ rows /\ saved' = saved /\ released' = released
        /\ sealed' = sealed \cup {k} /\ k \notin sealed
        /\ sources'[k] = rows
        /\ \A l \in sealed : sources'[l] = sources[l]
    BY <1>1 DEF Seal, TypeOK
  <2> HIDE DEF rows
  <2> QED
    BY <2>1
<1>2. ASSUME NEW S \in SUBSET journal, Release(S) PROVE NoMissingHandoff'
  BY <1>2 DEF Release
<1>3. ASSUME NEW t \in Tx, Persist(t) PROVE NoMissingHandoff'
  BY <1>3 DEF Persist
<1>4. ASSUME NEW landed \in SUBSET saving, Crash(landed) PROVE NoMissingHandoff'
  BY <1>4 DEF Crash
<1>5. ASSUME UNCHANGED <<journal, saved, released, sources, sealed>>
      PROVE  NoMissingHandoff'
  BY <1>5
<1> QED
  BY <1>1, <1>2, <1>3, <1>4, <1>5
     DEF Next, vars, storage, Issue, PersistFail, Mint, Dispatch, ServerAccept,
         ServerReject, Remove

(* A journalled write always has its row, a sealed envelope or a settled   *)
(* outcome: the seal's single storage transaction leaves no gap that a     *)
(* crash could fall into.                                                  *)
THEOREM HandoffIsNeverMissing == Spec => []NoMissingHandoff
<1>1. Init => NoMissingHandoff
  BY DEF Init, NoMissingHandoff
<1> QED
  BY <1>1, HandoffStep, TypeCorrect, PTL DEF Spec

(* A sealed envelope is in storage until the server has decided it:        *)
(* removal waits for the verdict, and a verdict is never withdrawn.        *)
THEOREM UndecidedStaysDurable == Spec => []UndecidedIsDurable
<1>1. Init => UndecidedIsDurable
  BY DEF Init, UndecidedIsDurable
<1>2. UndecidedIsDurable /\ [Next]_vars => UndecidedIsDurable'
  <2> USE DEF UndecidedIsDurable, decided
  <2>1. ASSUME UndecidedIsDurable, NEW k \in Key, Seal(k) PROVE UndecidedIsDurable'
    BY <2>1 DEF Seal, ledger
  <2>2. ASSUME UndecidedIsDurable, NEW k \in Key, ServerAccept(k) PROVE UndecidedIsDurable'
    BY <2>2 DEF ServerAccept
  <2>3. ASSUME UndecidedIsDurable, NEW k \in Key, ServerReject(k) PROVE UndecidedIsDurable'
    BY <2>3 DEF ServerReject
  <2>4. ASSUME UndecidedIsDurable, NEW k \in Key, Remove(k) PROVE UndecidedIsDurable'
    BY <2>4 DEF Remove, ledger
  <2>5. ASSUME UndecidedIsDurable, UNCHANGED <<sealed, outbox, accepted, rejected>>
        PROVE  UndecidedIsDurable'
    BY <2>5
  <2> QED
    BY <2>1, <2>2, <2>3, <2>4, <2>5
       DEF Next, vars, ledger, Issue, Persist, PersistFail, Mint, Dispatch,
           Release, Crash
<1> QED
  BY <1>1, <1>2, PTL DEF Spec
=============================================================================
