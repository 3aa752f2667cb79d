--------------------------- MODULE WriteDurability ---------------------------
(***************************************************************************)
(* What the local client promises about one browser's durable writes.      *)
(*                                                                         *)
(* A write is journalled before it may leave the client.  To send writes   *)
(* the client mints an idempotency key for a group of them and SEALS the   *)
(* group: one storage transaction checks that every journal row of the     *)
(* group still exists, stores the commit envelope and deletes the rows     *)
(* (Database.sealTransactionRecord).  Only a sealed envelope is sent, any  *)
(* number of times, always under its own key; it leaves the outbox once    *)
(* the server has decided it.  A crash, or a second tab that loaded the    *)
(* same journal, forgets keys that were minted but not sealed and may mint *)
(* new ones for the same rows.                                             *)
(*                                                                         *)
(* The module keeps what recovery depends on and leaves out queues, rows,  *)
(* timers and callers; MutationQueue implements it.                        *)
(***************************************************************************)
CONSTANTS Tx,    \* identities of the writes a client makes
          Key    \* idempotency keys

VARIABLES
    saving,    \* writes whose journal save is under way
    journal,   \* writes with a pending_mutation row in storage
    saved,     \* writes that ever had one (history)
    released,  \* rows removed because their write settled (history)
    claims,    \* [Tx -> SUBSET Tx]: sourceMutationIds, {} before the write exists
    members,   \* [Key -> SUBSET Tx]: the writes grouped under a key
    sources,   \* [Key -> SUBSET Tx]: the journal rows its seal consumed
    sealed,    \* keys that were ever promoted to the outbox (history)
    outbox,    \* keys whose commit_envelope is in storage
    wire,      \* keys of which the server may receive a copy
    accepted,  \* keys the server has applied, each once
    rejected   \* keys the server has refused for good

storage == <<saving, journal, saved, released>>
groups  == <<claims, members>>
ledger  == <<wire, accepted, rejected>>
vars    == <<storage, groups, sources, sealed, outbox, ledger>>

issued     == {t \in Tx : t \in claims[t]}
decided    == accepted \cup rejected
Claimed(S) == UNION {claims[t] : t \in S}

TypeOK ==
    /\ saving \subseteq Tx /\ journal \subseteq Tx
    /\ saved \subseteq Tx /\ released \subseteq Tx
    /\ claims \in [Tx -> SUBSET Tx]
    /\ members \in [Key -> SUBSET Tx]
    /\ sources \in [Key -> SUBSET Tx]
    /\ sealed \subseteq Key /\ outbox \subseteq Key
    /\ wire \subseteq Key /\ accepted \subseteq Key /\ rejected \subseteq Key

Init ==
    /\ saving = {} /\ journal = {} /\ saved = {} /\ released = {}
    /\ claims = [t \in Tx |-> {}]
    /\ members = [k \in Key |-> {}]
    /\ sources = [k \in Key |-> {}]
    /\ sealed = {} /\ outbox = {}
    /\ wire = {} /\ accepted = {} /\ rejected = {}

(* A write enters the client and its journal row starts to be saved.  A    *)
(* delete also takes over the rows of the updates it supersedes.           *)
Issue(t, absorbed) ==
    /\ t \notin issued
    /\ absorbed \subseteq issued
    /\ saving' = saving \cup {t}
    /\ claims' = [claims EXCEPT ![t] = {t} \cup Claimed(absorbed)]
    /\ UNCHANGED <<journal, saved, released, members, sources, sealed, outbox, ledger>>

(* The journal save of a write lands.                                      *)
Persist(t) ==
    /\ t \in saving
    /\ saving' = saving \ {t}
    /\ journal' = journal \cup {t}
    /\ saved' = saved \cup {t}
    /\ UNCHANGED <<released, groups, sources, sealed, outbox, ledger>>

(* It fails: the write was never durable and is reported as failed.        *)
PersistFail(t) ==
    /\ t \in saving
    /\ saving' = saving \ {t}
    /\ UNCHANGED <<journal, saved, released, groups, sources, sealed, outbox, ledger>>

(* A key is minted for a group of writes, in memory only.                  *)
Mint(k, S) ==
    /\ members[k] = {}
    /\ S # {} /\ S \subseteq issued
    /\ members' = [members EXCEPT ![k] = S]
    /\ UNCHANGED <<storage, claims, sources, sealed, outbox, ledger>>

(* Mutant: the group is sealed without checking that its rows exist.       *)
SealUnchecked(k) ==
    /\ members[k] # {} /\ k \notin sealed
    /\ sealed' = sealed \cup {k}
    /\ outbox' = outbox \cup {k}
    /\ sources' = [sources EXCEPT ![k] = Claimed(members[k])]
    /\ journal' = journal \ Claimed(members[k])
    /\ UNCHANGED <<saving, saved, released, groups, ledger>>

(* Mutant: the seal leaves the journal rows where they are.                *)
SealKeepsRows(k) ==
    /\ members[k] # {} /\ k \notin sealed
    /\ Claimed(members[k]) \subseteq journal
    /\ sealed' = sealed \cup {k}
    /\ outbox' = outbox \cup {k}
    /\ sources' = [sources EXCEPT ![k] = Claimed(members[k])]
    /\ UNCHANGED <<storage, groups, ledger>>

(* Mutant: the envelope does not record the rows a delete took over.       *)
SealForgetsAbsorbed(k) ==
    /\ members[k] # {} /\ k \notin sealed
    /\ Claimed(members[k]) \subseteq journal
    /\ sealed' = sealed \cup {k}
    /\ outbox' = outbox \cup {k}
    /\ sources' = [sources EXCEPT ![k] = members[k]]
    /\ journal' = journal \ Claimed(members[k])
    /\ UNCHANGED <<saving, saved, released, groups, ledger>>

(* The group's envelope replaces the journal rows it claims, in one        *)
(* storage transaction that aborts when one of the rows is gone.           *)
Seal(k) ==
    /\ members[k] # {} /\ k \notin sealed
    /\ Claimed(members[k]) \subseteq journal
    /\ sealed' = sealed \cup {k}
    /\ outbox' = outbox \cup {k}
    /\ sources' = [sources EXCEPT ![k] = Claimed(members[k])]
    /\ journal' = journal \ Claimed(members[k])
    /\ UNCHANGED <<saving, saved, released, groups, ledger>>

(* A sealed envelope is sent, or sent again, under its key.                *)
Dispatch(k) ==
    /\ k \in sealed
    /\ wire' = wire \cup {k}
    /\ UNCHANGED <<storage, groups, sources, sealed, outbox, accepted, rejected>>

(* The server keeps one verdict per key; a copy that arrives later is      *)
(* answered from it.                                                       *)
ServerAccept(k) ==
    /\ k \in wire \ decided
    /\ accepted' = accepted \cup {k}
    /\ UNCHANGED <<storage, groups, sources, sealed, outbox, wire, rejected>>

ServerReject(k) ==
    /\ k \in wire \ decided
    /\ rejected' = rejected \cup {k}
    /\ UNCHANGED <<storage, groups, sources, sealed, outbox, wire, accepted>>

(* Mutant: an envelope is cleaned up as soon as it was sent.               *)
RemoveOnSend(k) ==
    /\ k \in outbox \cap wire
    /\ outbox' = outbox \ {k}
    /\ UNCHANGED <<storage, groups, sources, sealed, ledger>>

(* The client learnt the verdict and cleans up the envelope.               *)
Remove(k) ==
    /\ k \in outbox \cap decided
    /\ outbox' = outbox \ {k}
    /\ UNCHANGED <<storage, groups, sources, sealed, ledger>>

(* Journal rows of settled writes are deleted.  Storage runs requests in   *)
(* order, so a row is never deleted before its own save.                   *)
Release(S) ==
    /\ S # {} /\ S \subseteq journal \ saving
    /\ journal' = journal \ S
    /\ released' = released \cup S
    /\ UNCHANGED <<saving, saved, groups, sources, sealed, outbox, ledger>>

(* The process dies.  Saves under way land or not; what a delete had taken *)
(* over is forgotten, because a journal row names only its own write.      *)
Crash(landed) ==
    /\ landed \subseteq saving
    /\ saving' = {}
    /\ journal' = journal \cup landed
    /\ saved' = saved \cup landed
    /\ claims' = [t \in Tx |-> IF t \in issued THEN {t} ELSE {}]
    /\ UNCHANGED <<released, members, sources, sealed, outbox, ledger>>

Next ==
    \/ \E t \in Tx : \/ \E absorbed \in SUBSET issued : Issue(t, absorbed)
                     \/ Persist(t)
                     \/ PersistFail(t)
    \/ \E k \in Key : \/ \E S \in SUBSET issued : Mint(k, S)
                      \/ Seal(k)
                      \/ Dispatch(k)
                      \/ ServerAccept(k)
                      \/ ServerReject(k)
                      \/ Remove(k)
    \/ \E S \in SUBSET journal : Release(S)
    \/ \E landed \in SUBSET saving : Crash(landed)

Spec == Init /\ [][Next]_vars
-----------------------------------------------------------------------------
(* No write is applied under two keys, whatever is resent, crashes, or is  *)
(* restored by a second tab: the journal row is the claim on the write.    *)
ExactlyOnce ==
    \A k, l \in accepted : k # l => members[k] \cap members[l] = {}

(* A journalled write is never between two stools: until it settles it has *)
(* its journal row or belongs to a sealed envelope.                        *)
NoMissingHandoff ==
    \A t \in saved : \/ t \in journal
                     \/ t \in released
                     \/ \E k \in sealed : t \in sources[k]

(* A sealed envelope stays in storage until the server has decided it, so  *)
(* a restart can always resend what is still in doubt.                     *)
UndecidedIsDurable == \A k \in sealed : k \in outbox \/ k \in decided
-----------------------------------------------------------------------------
(* The strengthening that makes ExactlyOnce inductive.  A write is in at     *)
(* most one of three places: its save is under way, it has its journal row,  *)
(* or a sealed envelope consumed the row, and a consumed row never returns.  *)
OneHome ==
    /\ saving \cup journal \subseteq issued
    /\ saving \cap journal = {}
    /\ \A k \in sealed : /\ sources[k] \subseteq issued
                        /\ sources[k] \cap (saving \cup journal) = {}

GroupsClaimTheirRows ==
    /\ \A k \in Key : members[k] \subseteq issued
    /\ \A k \in sealed : members[k] # {} /\ members[k] \subseteq sources[k]

SealsAreDisjoint ==
    \A k, l \in sealed : k # l => sources[k] \cap sources[l] = {}

OnlySealedTravels == wire \subseteq sealed /\ accepted \subseteq wire

DurabilityInv ==
    /\ TypeOK
    /\ OneHome
    /\ GroupsClaimTheirRows
    /\ SealsAreDisjoint
    /\ OnlySealedTravels
=============================================================================
