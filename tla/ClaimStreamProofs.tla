-------------------------- MODULE ClaimStreamProofs --------------------------
(***************************************************************************)
(* The claims of any number of participants, whatever the connection, the  *)
(* heartbeats and the server do: the indexes a claim is kept in agree, a   *)
(* lost lease is never silent, and a revoked handle does not keep its      *)
(* lease.                                                                  *)
(*                                                                         *)
(* IndexesAgree is not inductive: that a claim becomes active only while   *)
(* it is one of the stream's own needs to be known from the moment it is   *)
(* requested, which HandlesKnown adds.                                     *)
(*                                                                         *)
(* NoSilentLoss and RevokedIsReleased are about the frames on the wire. A  *)
(* grant may be on its way while the lease is already gone, so StreamInv   *)
(* says what the wire holds: whatever says that a claim holds its lease is *)
(* true or followed by the loss (GrantTold), a request is made once and    *)
(* ahead of its abandon (Asked), nothing is on a closed connection (Dark)  *)
(* and no claim is twice in the line (LineOK).                             *)
(***************************************************************************)
EXTENDS ClaimStream, SequenceTheorems, TLAPS

(* A claim is known to the stream from its request to its end.             *)
HandlesKnown ==
    \A c \in Claim : /\ call[c] = "idle" => c \notin own \cup ended \cup revoked
                     /\ call[c] # "idle" /\ c \notin ended => c \in own

(* Inductive: what every index of a claim says about its end.              *)
ClaimInv == /\ call \in [Claim -> Calls] /\ own \subseteq Claim
            /\ IndexesAgree /\ HandlesKnown

(* What the invariant says and reads: the local indexes only.              *)
indexes == <<call, own, ended, revoked, active, running>>

(* A step that leaves the indexes alone keeps the invariant.               *)
LEMMA IndexesUnchanged ==
    ASSUME ClaimInv, UNCHANGED indexes
    PROVE  ClaimInv'
  BY DEF ClaimInv, indexes, IndexesAgree, InUse, HandlesKnown

(* A handle is revoked by a caller that gives up, fails or releases.       *)
LEMMA RevokeKeepsInv ==
    ASSUME ClaimInv, NEW c \in Claim, NEW v \in {"failed", "released"},
           call[c] # "idle", call' = [call EXCEPT ![c] = v], Revoke(c)
    PROVE  ClaimInv'
<1>1. call' \in [Claim -> Calls] /\ \A d \in Claim : call'[d] = IF d = c THEN v ELSE call[d]
  BY DEF ClaimInv, Calls
<1>2. CASE c \in revoked
  <2>1. c \notin own /\ c \notin active /\ UNCHANGED <<own, ended, revoked, active, running>>
    BY <1>2 DEF ClaimInv, IndexesAgree, Revoke
  <2>2. QED
    BY <1>1, <2>1 DEF ClaimInv, IndexesAgree, InUse, HandlesKnown
<1>3. CASE c \notin revoked
  <2>1. /\ revoked' = revoked \cup {c} /\ ended' = ended \cup {c} /\ own' = own \ {c}
        /\ active' = active \ {c}
        /\ running' = IF c \in active THEN running \ {c} ELSE running
    BY <1>3 DEF Revoke, EndLifetime
  <2>2. QED
    BY <1>1, <2>1 DEF ClaimInv, IndexesAgree, InUse, HandlesKnown
<1>4. QED
  BY <1>2, <1>3

(* The stream ends a handle by itself: a loss, a refusal or the disposal.  *)
LEMMA EndKeepsInv ==
    ASSUME ClaimInv, NEW c \in Claim, call' = call, revoked' = revoked, own' = own \ {c},
           IF c \in own THEN EndLifetime(c) ELSE UNCHANGED <<ended, active, running>>
    PROVE  ClaimInv'
<1>1. CASE c \in own
  BY <1>1 DEF ClaimInv, EndLifetime, IndexesAgree, InUse, HandlesKnown
<1>2. CASE c \notin own
  BY <1>2 DEF ClaimInv, IndexesAgree, InUse, HandlesKnown
<1>3. QED
  BY <1>1, <1>2

(* An answer that the lease is not held ends the handle in every index.    *)
LEMMA AckNotHeldKeepsInv ==
    ASSUME ClaimInv, NEW c \in Claim, AckNotHeld(c)
    PROVE  ClaimInv'
<1>1. /\ own' = own \ {c} /\ call' = call /\ revoked' = revoked
  BY DEF AckNotHeld
<1>2. CASE c \in own
  <2>1. ended' = ended \cup {c} /\ active' = active \ {c}
    BY <1>2 DEF AckNotHeld, ClaimInv, IndexesAgree
  <2>2. running' = IF c \in active THEN running \ {c} ELSE running
    BY <1>2 DEF AckNotHeld, StoppedByListener, OnLost, ClaimInv, IndexesAgree
  <2>3. QED
    BY <1>1, <1>2, <2>1, <2>2, EndKeepsInv DEF EndLifetime
<1>3. CASE c \notin own
  <2>1. UNCHANGED <<ended, active, running>>
    BY <1>3 DEF AckNotHeld, StoppedByListener, OnLost, ClaimInv, IndexesAgree
  <2>2. QED
    BY <1>1, <1>3, <2>1, EndKeepsInv
<1>4. QED
  BY <1>2, <1>3

(* Every step of a claim, of its socket and of the server keeps it.        *)
LEMMA StepKeepsClaimInv ==
    ASSUME ClaimInv, [Next]_vars
    PROVE  ClaimInv'
<1>1. CASE UNCHANGED vars
  BY <1>1, IndexesUnchanged DEF vars, local, indexes
<1>2. SUFFICES ASSUME NEW c \in Claim,
                      \/ ServerReceive(c) \/ Expire(c)
                      \/ Request(c, TRUE) \/ Request(c, FALSE) \/ GiveUp(c)
                      \/ Return(c) \/ LoadFails(c) \/ Commit(c) \/ Release(c)
                      \/ Tick(c) \/ AckTimeout(c) \/ ManualBeat(c)
                      \/ Receive(c) \/ Disconnect(c) \/ Connect(c) \/ Dispose(c)
               PROVE  ClaimInv'
  BY <1>1 DEF Next
<1>3. CASE ServerReceive(c) \/ Expire(c)
  BY <1>3, IndexesUnchanged DEF ServerReceive, Expire, local, indexes
<1>4. CASE \E queue \in BOOLEAN : Request(c, queue)
  <2>1. /\ call[c] = "idle" /\ call' = [call EXCEPT ![c] = "waiting"]
        /\ own' = own \cup {c} /\ UNCHANGED <<ended, revoked, active, running>>
    BY <1>4 DEF Request
  <2>2. QED
    BY <2>1 DEF ClaimInv, Calls, IndexesAgree, InUse, HandlesKnown
<1>5. CASE GiveUp(c)
  BY <1>5, RevokeKeepsInv DEF GiveUp
<1>6. CASE Return(c)
  <2>1. /\ call[c] = "granted" /\ call' = [call EXCEPT ![c] = "held"]
        /\ UNCHANGED <<own, ended, revoked>>
        /\ Activate(c)
    BY <1>6 DEF Return
  <2>2. CASE c \in ended
    BY <2>1, <2>2 DEF Activate, ClaimInv, Calls, IndexesAgree, InUse, HandlesKnown
  <2>3. CASE c \notin ended
    BY <2>1, <2>3 DEF Activate, ClaimInv, Calls, IndexesAgree, InUse, HandlesKnown
  <2>4. QED
    BY <2>2, <2>3
<1>7. CASE LoadFails(c) \/ Commit(c)
  <2>1. /\ \/ call[c] = "granted" /\ call' = [call EXCEPT ![c] = "failed"]
           \/ call[c] = "held" /\ call' = [call EXCEPT ![c] = "committed"]
        /\ UNCHANGED <<own, ended, revoked, active, running>>
    BY <1>7 DEF LoadFails, Commit
  <2>2. QED
    BY <2>1 DEF ClaimInv, Calls, IndexesAgree, InUse, HandlesKnown
<1>8. CASE Release(c)
  <2>1. CASE c \in active
    BY <1>8, <2>1, RevokeKeepsInv DEF Release
  <2>2. CASE c \notin active
    BY <1>8, <2>2 DEF Release, ClaimInv, Calls, IndexesAgree, InUse, HandlesKnown
  <2>3. QED
    BY <2>1, <2>2
<1>9. CASE Tick(c) \/ AckTimeout(c) \/ ManualBeat(c) \/ Disconnect(c) \/ Connect(c)
  BY <1>9, IndexesUnchanged
     DEF Tick, AckTimeout, ManualBeat, Disconnect, Connect, local, indexes
<1>10. CASE Dispose(c)
  BY <1>10, EndKeepsInv DEF Dispose
<1>11. CASE Receive(c)
  <2>1. CASE call[c] = "waiting" /\ call' = [call EXCEPT ![c] = "failed"] /\ Revoke(c)
    BY <2>1, RevokeKeepsInv
  <2>2. CASE UNCHANGED indexes
    BY <2>2, IndexesUnchanged
  <2>3. CASE /\ call' = IF call[c] = "waiting" THEN [call EXCEPT ![c] = "granted"] ELSE call
             /\ UNCHANGED <<own, ended, revoked, active, running>>
    BY <2>3 DEF ClaimInv, Calls, IndexesAgree, InUse, HandlesKnown
  <2>4. CASE Refused(c)
    <3>1. CASE call[c] = "waiting"
      BY <2>1, <2>4, <3>1 DEF Refused
    <3>2. CASE call[c] # "waiting"
      BY <2>4, <3>2, EndKeepsInv DEF Refused
    <3>3. QED
      BY <3>1, <3>2
  <2>5. CASE \E status : HeartbeatAck(c, status)
    <3>1. CASE AckNotHeld(c)
      BY <3>1, AckNotHeldKeepsInv
    <3>2. CASE UNCHANGED indexes
      BY <2>2, <3>2
    <3>3. QED
      BY <2>5, <3>1, <3>2 DEF HeartbeatAck, AckHeld, indexes
  <2>6. QED
    BY <1>11, <2>1, <2>2, <2>3, <2>4, <2>5 DEF Receive, indexes
<1>12. QED
  BY <1>2, <1>3, <1>4, <1>5, <1>6, <1>7, <1>8, <1>9, <1>10, <1>11

(* For any number of claims, no loss, refusal, release, reconnect or       *)
(* disposal leaves the stream's handles, the surface's active claims and   *)
(* the running heartbeat loops at odds about which claims are alive.       *)
THEOREM IndexesAlwaysAgree == Spec => []IndexesAgree
<1>1. Init => ClaimInv
  BY DEF Init, ClaimInv, Calls, IndexesAgree, InUse, HandlesKnown
<1>2. ClaimInv /\ [Next]_vars => ClaimInv'
  BY StepKeepsClaimInv
<1>3. ClaimInv => IndexesAgree
  BY DEF ClaimInv
<1>4. QED
  BY <1>1, <1>2, <1>3, PTL DEF Spec

-----------------------------------------------------------------------------
(* The frames on a connection and the line at the server are sequences:    *)
(* what the provers need to know of them.                                  *)

(* A frame sent is the last one.                                           *)
LEMMA AppendFacts ==
    ASSUME NEW S, NEW s \in Seq(S), NEW f \in S
    PROVE  /\ Append(s, f) \in Seq(S) /\ Len(Append(s, f)) = Len(s) + 1
           /\ \A i \in 1..Len(s) : Append(s, f)[i] = s[i]
           /\ Append(s, f)[Len(s) + 1] = f
  OBVIOUS

(* What is on the wire after a frame is sent.                              *)
LEMMA AppendRange ==
    ASSUME NEW S, NEW s \in Seq(S), NEW f \in S
    PROVE  Range(Append(s, f)) = Range(s) \cup {f}
<1>1. /\ Len(Append(s, f)) = Len(s) + 1 /\ Len(s) \in Nat
      /\ \A i \in 1..Len(s) : Append(s, f)[i] = s[i]
      /\ Append(s, f)[Len(s) + 1] = f
      /\ DOMAIN s = 1..Len(s) /\ DOMAIN Append(s, f) = 1..(Len(s)+1)
  OBVIOUS
<1>2. QED
  BY <1>1 DEF Range

(* Receiving takes the first frame off.                                    *)
LEMMA TailFacts ==
    ASSUME NEW S, NEW s \in Seq(S), s # <<>>
    PROVE  /\ Head(s) = s[1] /\ Head(s) \in S /\ Tail(s) \in Seq(S)
           /\ Len(s) \in Nat /\ Len(s) > 0 /\ Len(Tail(s)) = Len(s) - 1
           /\ \A i \in 1..(Len(s) - 1) : Tail(s)[i] = s[i + 1]
  OBVIOUS

(* What is on the wire is the first frame and the rest.                    *)
LEMMA TailRange ==
    ASSUME NEW S, NEW s \in Seq(S), s # <<>>
    PROVE  Range(s) = {Head(s)} \cup Range(Tail(s))
<1>1. /\ Head(s) = s[1] 
      /\ Len(s) \in Nat /\ Len(s) > 0
      /\ \A i \in 1..(Len(s) - 1) : Tail(s)[i] = s[i + 1]
      /\ DOMAIN s = 1..Len(s) /\ DOMAIN Tail(s) = 1..(Len(s) - 1)
  OBVIOUS
<1> DEFINE t == Tail(s) n == Len(s)
<1> HIDE DEF t, n
<1>2. \A x \in Range(s) : x = Head(s) \/ x \in Range(t)
  <2> SUFFICES ASSUME NEW i \in 1..n PROVE s[i] = Head(s) \/ s[i] \in Range(t)
    BY <1>1 DEF Range, n
  <2>1. CASE i = 1
    BY <1>1, <2>1
  <2>2. CASE i # 1
    <3>1. i - 1 \in 1..(n - 1) /\ t[i - 1] = s[i]
      BY <1>1, <2>2 DEF t, n
    <3>2. QED
      BY <1>1, <3>1 DEF Range, t, n
  <2>3. QED
    BY <2>1, <2>2
<1>3. \A x \in Range(t) : x \in Range(s)
  <2> SUFFICES ASSUME NEW i \in 1..(n - 1) PROVE t[i] \in Range(s)
    BY <1>1 DEF Range, t, n
  <2>1. i + 1 \in 1..n /\ t[i] = s[i + 1]
    BY <1>1 DEF t, n
  <2>2. QED
    BY <1>1, <2>1 DEF Range, n
<1>4. Head(s) \in Range(s)
  BY <1>1 DEF Range
<1>5. QED
  BY <1>2, <1>3, <1>4 DEF t

(* Taking one place out of a line moves the ones behind it up.             *)
LEMMA RemoveFacts ==
    ASSUME NEW S, NEW s \in Seq(S), NEW i \in 1..Len(s)
    PROVE  /\ RemoveAt(s, i) \in Seq(S) /\ Len(RemoveAt(s, i)) = Len(s) - 1
           /\ \A k \in 1..(Len(s) - 1) : RemoveAt(s, i)[k] = IF k < i THEN s[k] ELSE s[k + 1]
<1> DEFINE a == SubSeq(s, 1, i - 1)
           b == SubSeq(s, i + 1, Len(s))
<1>1. Len(s) \in Nat /\ s \in [1..Len(s) -> S]
  OBVIOUS
<1>2. a \in Seq(S) /\ Len(a) = i - 1 /\ \A k \in 1..(i - 1) : a[k] = s[k]
  <2>1. i - 1 \in Int /\ \A k \in 1..(i - 1) : s[k] \in S
    BY <1>1
  <2>2. /\ a \in Seq(S) /\ Len(a) = IF 1 <= i - 1 THEN i - 1 - 1 + 1 ELSE 0
        /\ \A k \in 1..(i - 1 - 1 + 1) : a[k] = s[1 + k - 1]
    BY <2>1, SubSeqProperties
  <2> HIDE DEF a
  <2>3. QED
    BY <1>1, <2>2
<1>3. b \in Seq(S) /\ Len(b) = Len(s) - i /\ \A k \in 1..(Len(s) - i) : b[k] = s[i + k]
  <2>1. i + 1 \in Int /\ Len(s) \in Int /\ \A k \in (i + 1)..Len(s) : s[k] \in S
    BY <1>1
  <2>2. /\ b \in Seq(S) /\ Len(b) = IF i + 1 <= Len(s) THEN Len(s) - (i + 1) + 1 ELSE 0
        /\ \A k \in 1..(Len(s) - (i + 1) + 1) : b[k] = s[(i + 1) + k - 1]
    BY <2>1, SubSeqProperties
  <2> HIDE DEF b
  <2> DEFINE n == Len(s) l == Len(b)
  <2>6. n \in Nat /\ i \in 1..n /\ l = IF i + 1 <= n THEN n - (i + 1) + 1 ELSE 0
    BY <1>1, <2>2, Zenon
  <2> HIDE DEF n, l
  <2>7. l = n - i
    BY <2>6
  <2>3. Len(b) = Len(s) - i
    BY <2>7 DEF n, l
  <2>4. ASSUME NEW k \in 1..(Len(s) - i) PROVE b[k] = s[i + k]
    <3>1. k \in 1..(Len(s) - (i + 1) + 1) /\ (i + 1) + k - 1 = i + k
      BY <1>1
    <3>2. QED
      BY <2>2, <3>1
  <2>5. QED
    BY <2>2, <2>3, <2>4
<1> HIDE DEF a, b
<1>4. /\ a \o b \in Seq(S) /\ Len(a \o b) = Len(a) + Len(b)
      /\ \A k \in 1..(Len(a) + Len(b)) : (a \o b)[k] = IF k <= Len(a) THEN a[k] ELSE b[k - Len(a)]
  BY <1>2, <1>3, ConcatProperties
<1>5. RemoveAt(s, i) = a \o b
  BY DEF RemoveAt, a, b
<1> DEFINE r == RemoveAt(s, i)
<1> HIDE DEF r
<1>6. ASSUME NEW k \in 1..(Len(s) - 1)
      PROVE  r[k] = IF k < i THEN s[k] ELSE s[k + 1]
  <2>1. k \in 1..(Len(a) + Len(b)) /\ (k <= Len(a) <=> k < i)
    BY <1>1, <1>2, <1>3
  <2>2. CASE k < i
    BY <1>2, <1>4, <1>5, <2>1, <2>2 DEF r
  <2>3. CASE ~(k < i)
    <3>1. k - Len(a) \in 1..(Len(s) - i) /\ i + (k - Len(a)) = k + 1
      BY <1>1, <1>2, <2>3
    <3>2. QED
      <4>1. r[k] = b[k - Len(a)]
        BY <1>4, <1>5, <2>1, <2>3 DEF r
      <4>2. b[k - Len(a)] = s[i + (k - Len(a))]
        BY <1>3, <3>1
      <4>3. QED
        BY <2>3, <3>1, <4>1, <4>2
  <2>4. QED
    BY <2>2, <2>3
<1>7. r \in Seq(S) /\ Len(r) = Len(s) - 1
  <2>1. r \in Seq(S) /\ Len(r) = (i - 1) + (Len(s) - i)
    BY <1>2, <1>3, <1>4, <1>5 DEF r
  <2> DEFINE n == Len(s)
  <2>2. n \in Nat /\ Len(r) = (i - 1) + (n - i)
    BY <1>1, <2>1
  <2> HIDE DEF n
  <2>3. (i - 1) + (n - i) = n - 1
    BY <2>2
  <2>4. QED
    BY <2>1, <2>2, <2>3 DEF n
<1>8. QED
  BY <1>6, <1>7 DEF r

(* No element twice.                                                       *)
Distinct(s) == \A i, j \in 1..Len(s) : s[i] = s[j] => i = j

(* The head of a line without repetitions is in it once.                   *)
LEMMA TailDistinct ==
    ASSUME NEW S, NEW s \in Seq(S), s # <<>>, Distinct(s)
    PROVE  Distinct(Tail(s)) /\ Head(s) \notin Range(Tail(s))
<1> DEFINE t == Tail(s)
           n == Len(s)
<1>1. /\ Head(s) = s[1] /\ n \in Nat /\ n > 0 /\ Len(t) = n - 1
      /\ \A i \in 1..(n - 1) : t[i] = s[i + 1]
      /\ DOMAIN t = 1..(n - 1)
  BY TailFacts
<1>2. \A i, j \in 1..n : s[i] = s[j] => i = j
  BY DEF Distinct
<1> HIDE DEF t, n
<1>3. \A i \in 1..(n - 1) : t[i] # s[1]
  <2> SUFFICES ASSUME NEW i \in 1..(n - 1), s[i + 1] = s[1]
               PROVE  FALSE
    BY <1>1
  <2>1. i + 1 \in 1..n /\ 1 \in 1..n /\ i + 1 # 1
    BY <1>1
  <2>2. QED
    BY <1>2, <2>1
<1>4. ASSUME NEW i \in 1..(n - 1), NEW j \in 1..(n - 1), t[i] = t[j]
      PROVE  i = j
  <2>1. i + 1 \in 1..n /\ j + 1 \in 1..n /\ s[i + 1] = s[j + 1]
    BY <1>1, <1>4
  <2>2. i + 1 = j + 1
    BY <1>2, <2>1
  <2>3. QED
    BY <1>1, <2>2
<1>5. QED
  BY <1>1, <1>3, <1>4 DEF Distinct, Range, t

(* Queueing who is not in line keeps the line without repetitions.         *)
LEMMA AppendDistinct ==
    ASSUME NEW S, NEW s \in Seq(S), NEW e \in S, Distinct(s), e \notin Range(s)
    PROVE  Distinct(Append(s, e))
<1> DEFINE t == Append(s, e)
           n == Len(s)
<1>1. /\ n \in Nat /\ Len(t) = n + 1 /\ t[n + 1] = e /\ \A i \in 1..n : t[i] = s[i]
      /\ DOMAIN s = 1..n
  BY AppendFacts
<1>2. /\ \A i, j \in 1..n : s[i] = s[j] => i = j
      /\ \A i \in 1..n : s[i] # e
  BY <1>1 DEF Distinct, Range
<1> HIDE DEF t, n
<1>3. \A i, j \in 1..(n + 1) : t[i] = t[j] => i = j
  <2> SUFFICES ASSUME NEW i \in 1..(n + 1), NEW j \in 1..(n + 1), t[i] = t[j]
               PROVE  i = j
    OBVIOUS
  <2>1. (i = n + 1 \/ i \in 1..n) /\ (j = n + 1 \/ j \in 1..n)
    BY <1>1
  <2>2. QED
    BY <1>1, <1>2, <2>1
<1>4. QED
  BY <1>1, <1>3 DEF Distinct, t

(* Leaving such a line leaves it for good.                                 *)
LEMMA RemoveDistinct ==
    ASSUME NEW S, NEW s \in Seq(S), NEW i \in 1..Len(s), Distinct(s)
    PROVE  /\ Distinct(RemoveAt(s, i))
           /\ Range(RemoveAt(s, i)) = Range(s) \ {s[i]}
<1> DEFINE t == RemoveAt(s, i)
           n == Len(s)
           at(k) == IF k < i THEN k ELSE k + 1
<1>1. /\ n \in Nat /\ i \in 1..n /\ Len(t) = n - 1 /\ t \in Seq(S)
      /\ \A k \in 1..(n - 1) : t[k] = IF k < i THEN s[k] ELSE s[k + 1]
  BY RemoveFacts
<1>2. DOMAIN s = 1..n /\ DOMAIN t = 1..(n - 1)
  BY <1>1
<1>3. \A k, l \in 1..n : s[k] = s[l] => k = l
  BY DEF Distinct
<1> HIDE DEF t, n
<1>4. /\ \A k \in 1..(n - 1) : at(k) \in 1..n /\ at(k) # i /\ t[k] = s[at(k)]
      /\ \A k, l \in 1..(n - 1) : at(k) = at(l) => k = l
  <2>1. ASSUME NEW k \in 1..(n - 1)
        PROVE  at(k) \in 1..n /\ at(k) # i /\ t[k] = s[at(k)]
    <3>1. t[k] = s[at(k)]
      BY <1>1
    <3>2. at(k) \in 1..n /\ at(k) # i
      BY <1>1
    <3>3. QED
      BY <3>1, <3>2
  <2>2. ASSUME NEW k \in 1..(n - 1), NEW l \in 1..(n - 1), at(k) = at(l)
        PROVE  k = l
    BY <1>1, <2>2
  <2>3. QED
    BY <2>1, <2>2
<1>5. \A l \in 1..n : l # i => \E k \in 1..(n - 1) : at(k) = l
  <2> SUFFICES ASSUME NEW l \in 1..n, l # i
               PROVE  \E k \in 1..(n - 1) : at(k) = l
    OBVIOUS
  <2>1. CASE l < i
    <3>1. l \in 1..(n - 1) /\ at(l) = l
      BY <1>1, <2>1
    <3>2. QED
      BY <3>1
  <2>2. CASE ~(l < i)
    <3>1. l - 1 \in 1..(n - 1) /\ at(l - 1) = l
      BY <1>1, <2>2
    <3>2. QED
      BY <3>1
  <2>3. QED
    BY <2>1, <2>2
<1> HIDE DEF at
<1>6. \A k, l \in 1..(n - 1) : t[k] = t[l] => k = l
  BY <1>3, <1>4
<1>7. Range(t) = Range(s) \ {s[i]}
  <2>1. \A x \in Range(t) : x \in Range(s) /\ x # s[i]
    BY <1>1, <1>2, <1>3, <1>4 DEF Range
  <2>2. \A x \in Range(s) : x # s[i] => x \in Range(t)
    BY <1>2, <1>4, <1>5 DEF Range
  <2>3. QED
    BY <2>1, <2>2
<1>8. QED
  BY <1>1, <1>6, <1>7 DEF Distinct, t

-----------------------------------------------------------------------------
(* What is on a connection.                                                *)

(* The frames that say the lease is held, and the ones that ask for it.    *)
Held   == {"acquired", "granted", "ack_held"}
Begins == {"begin", "begin_queue"}

(* Whatever says that the lease is held is followed by its loss.           *)
LossFollows(s) ==
    \A i \in 1..Len(s) : s[i] \in Held => \E j \in (i + 1)..Len(s) : s[j] = "lost"

(* A request is never behind another frame.                                *)
BeginsFirst(s) == \A i \in 1..Len(s) : s[i] \in Begins => i = 1

(* The server may announce the loss, or anything that does not claim the   *)
(* lease.                                                                  *)
LEMMA LossFollowsSent ==
    ASSUME NEW s \in Seq(DownFrames), NEW f \in DownFrames,
           f = "lost" \/ (f \notin Held /\ LossFollows(s))
    PROVE  LossFollows(Append(s, f))
<1> DEFINE t == Append(s, f)
           n == Len(s)
<1>1. n \in Nat /\ Len(t) = n + 1 /\ t[n + 1] = f /\ \A i \in 1..n : t[i] = s[i]
  BY AppendFacts
<1>2. f \notin Held
  BY DEF Held
<1>3. f # "lost" => \A i \in 1..n : s[i] \in Held => \E j \in (i + 1)..n : s[j] = "lost"
  BY DEF LossFollows
<1> HIDE DEF t, n
<1>4. ASSUME NEW i \in 1..(n + 1), t[i] \in Held
      PROVE  \E j \in (i + 1)..(n + 1) : t[j] = "lost"
  <2>1. i \in 1..n /\ s[i] \in Held
    BY <1>1, <1>2, <1>4
  <2>2. CASE f = "lost"
    <3>1. n + 1 \in (i + 1)..(n + 1) /\ t[n + 1] = "lost"
      BY <1>1, <2>1, <2>2
    <3>2. QED
      BY <3>1
  <2>3. CASE f # "lost"
    <3>1. PICK j \in (i + 1)..n : s[j] = "lost"
      BY <1>3, <2>1, <2>3
    <3>2. j \in (i + 1)..(n + 1) /\ j \in 1..n
      BY <1>1
    <3>3. QED
      BY <1>1, <3>1, <3>2
  <2>4. QED
    BY <2>2, <2>3
<1>5. QED
  BY <1>1, <1>4 DEF LossFollows, t

(* A grant taken from the wire that is no longer true has its loss behind  *)
(* it.                                                                     *)
LEMMA LossFollowsReceived ==
    ASSUME NEW s \in Seq(DownFrames), s # <<>>, LossFollows(s)
    PROVE  /\ LossFollows(Tail(s))
           /\ Head(s) \in Held => "lost" \in Range(Tail(s))
<1> DEFINE t == Tail(s)
           n == Len(s)
<1>1. /\ Head(s) = s[1] /\ n \in Nat /\ n > 0 /\ Len(t) = n - 1
      /\ \A i \in 1..(n - 1) : t[i] = s[i + 1]
      /\ DOMAIN t = 1..(n - 1)
  BY TailFacts
<1>2. \A i \in 1..n : s[i] \in Held => \E j \in (i + 1)..n : s[j] = "lost"
  BY DEF LossFollows
<1> HIDE DEF t, n
<1>3. ASSUME NEW i \in 1..n, s[i] \in Held
      PROVE  \E k \in 1..(n - 1) : k >= i /\ t[k] = "lost"
  <2>1. PICK j \in (i + 1)..n : s[j] = "lost"
    BY <1>2, <1>3
  <2>2. j - 1 \in 1..(n - 1) /\ j - 1 >= i /\ t[j - 1] = "lost"
    BY <1>1, <2>1
  <2>3. QED
    BY <2>2
<1>4. ASSUME NEW i \in 1..(n - 1), t[i] \in Held
      PROVE  \E k \in (i + 1)..(n - 1) : t[k] = "lost"
  <2>1. i + 1 \in 1..n /\ s[i + 1] \in Held
    BY <1>1, <1>4
  <2>2. PICK k \in 1..(n - 1) : k >= i + 1 /\ t[k] = "lost"
    BY <1>3, <2>1
  <2>3. k \in (i + 1)..(n - 1)
    BY <1>1, <2>2
  <2>4. QED
    BY <2>2, <2>3
<1>5. ASSUME Head(s) \in Held
      PROVE  "lost" \in Range(t)
  <2>1. 1 \in 1..n /\ s[1] \in Held
    BY <1>1, <1>5
  <2>2. QED
    BY <1>1, <1>3, <2>1 DEF Range
<1>6. QED
  BY <1>1, <1>4, <1>5 DEF LossFollows, t

(* An empty wire.                                                          *)
LEMMA NothingFollows == LossFollows(<<>>) /\ BeginsFirst(<<>>) /\ Range(<<>>) = {}
  BY DEF LossFollows, BeginsFirst, Range

(* Only requests have to be first.                                         *)
LEMMA BeginsFirstSent ==
    ASSUME NEW s \in Seq(UpFrames), NEW f \in UpFrames, BeginsFirst(s),
           f \notin Begins \/ s = <<>>
    PROVE  BeginsFirst(Append(s, f))
<1> DEFINE t == Append(s, f)
           n == Len(s)
<1>1. n \in Nat /\ Len(t) = n + 1 /\ t[n + 1] = f /\ \A i \in 1..n : t[i] = s[i]
  BY AppendFacts
<1>2. /\ \A i \in 1..n : s[i] \in Begins => i = 1
      /\ s = <<>> => n = 0
  BY DEF BeginsFirst
<1> HIDE DEF t, n
<1>3. ASSUME NEW i \in 1..(n + 1), t[i] \in Begins
      PROVE  i = 1
  <2>1. i = n + 1 \/ i \in 1..n
    BY <1>1
  <2>2. QED
    BY <1>1, <1>2, <1>3, <2>1
<1>4. QED
  BY <1>1, <1>3 DEF BeginsFirst, t

(* A request is taken at once or never.                                    *)
LEMMA BeginsFirstReceived ==
    ASSUME NEW s \in Seq(UpFrames), s # <<>>, BeginsFirst(s)
    PROVE  BeginsFirst(Tail(s)) /\ Begins \cap Range(Tail(s)) = {}
<1> DEFINE t == Tail(s)
           n == Len(s)
<1>1. /\ n \in Nat /\ n > 0 /\ Len(t) = n - 1
      /\ \A i \in 1..(n - 1) : t[i] = s[i + 1]
      /\ DOMAIN t = 1..(n - 1)
  BY TailFacts
<1>2. \A i \in 1..n : s[i] \in Begins => i = 1
  BY DEF BeginsFirst
<1> HIDE DEF t, n
<1>3. ASSUME NEW i \in 1..(n - 1)
      PROVE  t[i] \notin Begins
  <2>1. i + 1 \in 1..n /\ i + 1 # 1 /\ t[i] = s[i + 1]
    BY <1>1
  <2>2. QED
    BY <1>2, <2>1
<1>4. QED
  BY <1>1, <1>3 DEF BeginsFirst, Range, t

-----------------------------------------------------------------------------
(* The inductive invariant of one claim.                                   *)

(* The claim is awaited or in use.                                         *)
Live(c) == call[c] \in {"waiting", "granted", "held"} /\ c \notin ended

(* The holder is about to find out: NoSilentLoss without the lease.        *)
Alerted(c) ==
    \/ ~link[c] \/ c \in missed
    \/ "lost" \in Range(down[c])
    \/ beat[c] # "none" /\ ("heartbeat" \in Range(up[c])
                            \/ Range(down[c]) \cap {"ack_lost", "ack_queued"} # {})

(* Whatever says that c holds its lease is true, or its loss follows.      *)
GrantTold(c) == Live(c) => holder = c \/ LossFollows(down[c])

(* NoSilentLoss, from the grant on.                                        *)
LossTold(c) == call[c] \in {"granted", "held"} /\ c \notin ended => holder = c \/ Alerted(c)

(* Nothing anywhere knows of a claim that was not requested yet.           *)
Untouched(c) ==
    call[c] = "idle" => up[c] = <<>> /\ down[c] = <<>> /\ ~AtServer(c) /\ c \notin abandons

(* A closed connection carries nothing.                                    *)
Dark(c) == ~link[c] => up[c] = <<>> /\ down[c] = <<>>

(* A request is the first frame of its connection, is made once, and is    *)
(* followed by the abandon of a handle revoked since.                      *)
Asked(c) ==
    /\ BeginsFirst(up[c])
    /\ Begins \cap Range(up[c]) # {} =>
         ~AtServer(c) /\ (c \in revoked => "abandon" \in Range(up[c]))

(* Only a revoked handle is abandoned, and it has ended.                   *)
Revoking(c) == (AbandonUnderWay(c) => c \in revoked) /\ (c \in revoked => c \in ended)

(* RevokedIsReleased, of one claim.                                        *)
Released(c) == c \in revoked /\ AtServer(c) => AbandonUnderWay(c) \/ c \in lostAbandon

(* All of it.                                                              *)
Claimed(c) == /\ GrantTold(c) /\ LossTold(c) /\ Untouched(c) /\ Dark(c)
              /\ Asked(c) /\ Revoking(c) /\ Released(c)

(* The line of the server has every claim at most once.                    *)
LineOK == Distinct(line) /\ holder \notin Range(line)

(* The inductive invariant.                                                *)
StreamInv == TypeOK /\ ClaimInv /\ LineOK /\ \A c \in Claim : Claimed(c)

(* Without takes a claim out of the line.                                  *)
LEMMA WithoutIs ==
    ASSUME line \in Seq(Claim), Distinct(line), NEW c
    PROVE  /\ Without(c) \in Seq(Claim) /\ Distinct(Without(c))
           /\ Range(Without(c)) = Range(line) \ {c}
<1>1. CASE c \in Range(line)
  <2> DEFINE i == CHOOSE i \in 1..Len(line) : line[i] = c
  <2>1. i \in 1..Len(line) /\ line[i] = c
    <3>1. \E k \in 1..Len(line) : line[k] = c
      BY <1>1 DEF Range
    <3>2. QED
      BY <3>1
  <2>2. Without(c) = RemoveAt(line, i)
    BY <1>1 DEF Without
  <2> HIDE DEF i
  <2>3. QED
    BY <2>1, <2>2, RemoveFacts, RemoveDistinct
<1>2. CASE c \notin Range(line)
  BY <1>2 DEF Without
<1>3. QED
  BY <1>1, <1>2

(* Sent appends on an open connection and does nothing on a closed one.    *)
LEMMA SentIs ==
    ASSUME NEW to \in [Claim -> Seq(DownFrames)], NEW c \in Claim, NEW f \in DownFrames
    PROVE  /\ Sent(to, c, f) \in [Claim -> Seq(DownFrames)]
           /\ \A d \in Claim : Sent(to, c, f)[d] = IF d = c /\ link[c] THEN Append(to[d], f)
                                                   ELSE to[d]
  BY AppendFacts DEF Sent

(* The lease goes to the head of the line.                                 *)
LEMMA PromoteIs ==
    ASSUME line \in Seq(Claim), Distinct(line), NEW to \in [Claim -> Seq(DownFrames)],
           Promote(line, to)
    PROVE  /\ holder' \in Claim \cup {NoClaim} /\ line' \in Seq(Claim)
           /\ LineOK'
           /\ down' \in [Claim -> Seq(DownFrames)]
           /\ \A d \in Claim : AtServer(d)' <=> d \in Range(line)
           /\ \A d \in Claim : \/ down'[d] = to[d]
                               \/ link[d] /\ holder' = d /\ down'[d] = Append(to[d], "granted")
<1> USE NothingFollows
<1>1. CASE line = <<>>
  <2>1. holder' = NoClaim /\ line' = <<>> /\ down' = to
    BY <1>1 DEF Promote
  <2>2. Distinct(line') /\ Range(line) = {} /\ Range(line') = {}
    BY <1>1, <2>1 DEF Distinct
  <2>3. \A d \in Claim : NoClaim # d
    BY ClaimAssumption
  <2>4. QED
    BY <2>1, <2>2, <2>3 DEF LineOK, AtServer
<1>2. CASE line # <<>>
  <2> DEFINE h == Head(line)
  <2>1. holder' = h /\ line' = Tail(line) /\ down' = Sent(to, h, "granted")
    BY <1>2 DEF Promote
  <2>2. h \in Claim /\ Tail(line) \in Seq(Claim)
    BY <1>2, TailFacts
  <2>3. Distinct(Tail(line)) /\ h \notin Range(Tail(line))
    BY <1>2, TailDistinct
  <2>4. Range(line) = {h} \cup Range(Tail(line))
    BY <1>2, TailRange
  <2>5. "granted" \in DownFrames
    BY DEF DownFrames
  <2> HIDE DEF h
  <2>6. /\ down' \in [Claim -> Seq(DownFrames)]
        /\ \A d \in Claim : down'[d] = IF d = h /\ link[h] THEN Append(to[d], "granted") ELSE to[d]
    BY <2>1, <2>2, <2>5, SentIs
  <2>7. QED
    BY <2>1, <2>2, <2>3, <2>4, <2>6 DEF LineOK, AtServer
<1>3. QED
  BY <1>1, <1>2

(* What the server may send to d: what says that d holds is true.          *)
ServerMove(d) ==
    \/ down'[d] = down[d]
    \/ \E f \in DownFrames : /\ link[d] /\ down'[d] = Append(down[d], f)
                             /\ f \in Held => holder' = d

(* The answers that end a handle.                                          *)
Losing == {"ack_lost", "ack_queued"}

(* What the server sends keeps every claim informed: a lease that is taken *)
(* away is announced, or the claim is not connected or not in use.         *)
LEMMA FedKeeps ==
    ASSUME TypeOK, NEW d \in Claim, Claimed(d),
           call'[d] = call[d] \/ call'[d] = "committed",
           UNCHANGED <<link, ended, beat, missed>>,
           ServerMove(d),
           holder = d => \/ holder' = d \/ ~Live(d)' \/ ~link[d]
                         \/ down'[d] = Append(down[d], "lost"),
           "heartbeat" \in Range(up[d]) =>
               \/ "heartbeat" \in Range(up'[d]) \/ holder' = d
               \/ Range(down'[d]) \cap Losing # {}
    PROVE  GrantTold(d)' /\ LossTold(d)'
<1>1. down[d] \in Seq(DownFrames) /\ "lost" \in DownFrames
  BY DEF TypeOK, DownFrames
<1>2. SUFFICES ASSUME Live(d)', holder' # d
               PROVE  LossFollows(down'[d]) /\ (call[d] \in {"granted", "held"} => Alerted(d)')
  BY DEF GrantTold, LossTold, Live
<1>3. Live(d) /\ (d \in missed' <=> d \in missed) /\ beat'[d] = beat[d] /\ link'[d] = link[d]
  BY <1>2 DEF Live
<1>4. CASE down'[d] = Append(down[d], "lost")
  <2>1. LossFollows(down'[d]) /\ "lost" \in Range(down'[d])
    BY <1>1, <1>4, LossFollowsSent, AppendRange
  <2>2. QED
    BY <2>1 DEF Alerted
<1>5. CASE down'[d] # Append(down[d], "lost") /\ holder = d
  <2>1. ~link[d] /\ down[d] = <<>> /\ down'[d] = down[d]
    BY <1>2, <1>5 DEF Claimed, Dark, ServerMove
  <2>2. QED
    BY <1>3, <2>1, NothingFollows DEF Alerted
<1>6. CASE down'[d] # Append(down[d], "lost") /\ holder # d
  <2>1. LossFollows(down[d]) /\ (call[d] \in {"granted", "held"} => Alerted(d))
    BY <1>3, <1>6 DEF Claimed, GrantTold, LossTold, Live
  <2>2. LossFollows(down'[d]) /\ Range(down[d]) \subseteq Range(down'[d])
    <3>1. CASE down'[d] = down[d]
      BY <2>1, <3>1
    <3>2. CASE down'[d] # down[d]
      <4>1. PICK f \in DownFrames : down'[d] = Append(down[d], f) /\ f \notin Held
        BY <1>2, <3>2 DEF ServerMove
      <4>2. QED
        BY <1>1, <2>1, <4>1, LossFollowsSent, AppendRange
    <3>3. QED
      BY <3>1, <3>2
  <2>3. Alerted(d) => Alerted(d)'
    BY <1>2, <1>3, <2>2 DEF Alerted, Losing
  <2>4. QED
    BY <2>1, <2>2, <2>3
<1>7. QED
  BY <1>4, <1>5, <1>6

(* A step of the server elsewhere, or on the connection of d.              *)
LEMMA ServedKeeps ==
    ASSUME TypeOK, NEW d \in Claim, Claimed(d),
           call'[d] = call[d] \/ (call[d] # "idle" /\ call'[d] = "committed"),
           UNCHANGED <<link, ended, revoked, abandons, beat, missed, lostAbandon>>,
           up'[d] = up[d], ServerMove(d), AtServer(d)' => AtServer(d),
           holder = d => \/ holder' = d \/ ~Live(d)' \/ ~link[d]
                         \/ down'[d] = Append(down[d], "lost"),
           call[d] = "idle" => down'[d] = down[d]
    PROVE  Claimed(d)'
<1>1. GrantTold(d)' /\ LossTold(d)'
  BY FedKeeps
<1>2. AbandonUnderWay(d)' <=> AbandonUnderWay(d)
  BY DEF AbandonUnderWay
<1>3. Untouched(d)'
  BY DEF Claimed, Untouched
<1>4. Dark(d)'
  BY DEF Claimed, Dark, ServerMove
<1>5. Asked(d)'
  BY DEF Claimed, Asked
<1>6. Revoking(d)' /\ Released(d)'
  BY <1>2 DEF Claimed, Revoking, Released
<1>7. QED
  BY <1>1, <1>3, <1>4, <1>5, <1>6 DEF Claimed

(* What a frame that the server consumes leaves on the connection.         *)
LEMMA ConsumedKeeps ==
    ASSUME TypeOK, NEW c \in Claim, Claimed(c), up[c] # <<>>, up'[c] = Tail(up[c]),
           UNCHANGED <<call, link, ended, revoked, abandons, beat, missed, lostAbandon>>,
           ServerMove(c),
           AtServer(c)' => AtServer(c) \/ Head(up[c]) \in Begins,
           Head(up[c]) = "abandon" => ~AtServer(c)',
           holder = c => \/ holder' = c \/ ~Live(c)' \/ ~link[c]
                         \/ down'[c] = Append(down[c], "lost"),
           Head(up[c]) = "heartbeat" =>
               holder' = c \/ Range(down'[c]) \cap Losing # {}
    PROVE  Claimed(c)'
<1>1. up[c] \in Seq(UpFrames) /\ link[c] /\ call[c] # "idle"
  BY DEF TypeOK, Claimed, Dark, Untouched
<1>2. Range(up[c]) = {Head(up[c])} \cup Range(up'[c])
  BY <1>1, TailRange
<1>3. BeginsFirst(up'[c]) /\ Begins \cap Range(up'[c]) = {}
  BY <1>1, BeginsFirstReceived DEF Claimed, Asked
<1>4. GrantTold(c)' /\ LossTold(c)'
  BY <1>2, FedKeeps
<1>5. Untouched(c)' /\ Dark(c)' /\ Asked(c)'
  BY <1>1, <1>3 DEF Untouched, Dark, Asked
<1>6. Revoking(c)'
  BY <1>2 DEF Claimed, Revoking, AbandonUnderWay
<1>7. Released(c)'
  <2> SUFFICES ASSUME c \in revoked, AtServer(c)', c \notin lostAbandon, c \notin abandons
               PROVE  "abandon" \in Range(up'[c])
    BY DEF Released, AbandonUnderWay
  <2>1. Head(up[c]) # "abandon"
    OBVIOUS
  <2>2. CASE AtServer(c)
    BY <1>2, <2>1, <2>2 DEF Claimed, Released, AbandonUnderWay
  <2>3. CASE Head(up[c]) \in Begins
    BY <1>2, <2>1, <2>3 DEF Claimed, Asked
  <2>4. QED
    BY <2>2, <2>3
<1>8. QED
  BY <1>4, <1>5, <1>6, <1>7 DEF Claimed

(* What the server and its frames are.                                     *)
ServerTypes == /\ holder \in Claim \cup {NoClaim} /\ line \in Seq(Claim)
               /\ down \in [Claim -> Seq(DownFrames)]

(* What a step of the server has to establish.                             *)
ServerGood == ServerTypes /\ LineOK /\ \A d \in Claim : Claimed(d)

(* A lease that ends goes to the head of the line: the claim that had it   *)
(* was told, is not live any more, or is not connected.                    *)
LEMMA HandedOn ==
    ASSUME StreamInv, NEW c \in Claim, holder = c, NEW to \in [Claim -> Seq(DownFrames)],
           Promote(line, to),
           \A d \in Claim : d # c => to[d] = down[d],
           to[c] = down[c] \/ (link[c] /\ to[c] = Append(down[c], "lost"))
    PROVE  /\ ServerTypes' /\ LineOK'
           /\ \A d \in Claim : ServerMove(d) /\ (AtServer(d)' => AtServer(d))
           /\ \A d \in Claim : ~AtServer(d) => down'[d] = down[d]
           /\ ~AtServer(c)' /\ down'[c] = to[c]
<1>1. line \in Seq(Claim) /\ Distinct(line) /\ c \notin Range(line)
  BY DEF StreamInv, TypeOK, LineOK
<1>2. /\ ServerTypes' /\ LineOK'
      /\ \A d \in Claim : AtServer(d)' <=> d \in Range(line)
      /\ \A d \in Claim : \/ down'[d] = to[d]
                          \/ link[d] /\ holder' = d /\ down'[d] = Append(to[d], "granted")
  BY <1>1, PromoteIs DEF ServerTypes
<1>3. ~AtServer(c)' /\ holder' # c /\ down'[c] = to[c]
  BY <1>1, <1>2 DEF AtServer
<1>4. "lost" \in DownFrames /\ "lost" \notin Held /\ "granted" \in DownFrames
  BY DEF DownFrames, Held
<1>5. ASSUME NEW d \in Claim
      PROVE  ServerMove(d) /\ (AtServer(d)' => AtServer(d)) /\ (~AtServer(d) => down'[d] = down[d])
  <2>1. CASE d = c
    BY <1>3, <1>4, <2>1 DEF ServerMove, AtServer
  <2>2. CASE d # c
    BY <1>2, <1>4, <2>2 DEF ServerMove, AtServer
  <2>3. QED
    BY <2>1, <2>2
<1>6. QED
  BY <1>2, <1>3, <1>5

(* A lease or a slot that expires keeps every claim informed.              *)
LEMMA ExpireServed ==
    ASSUME StreamInv, NEW c \in Claim, Expire(c)
    PROVE  ServerGood'
<1> DEFINE to == Sent(down, c, "lost")
<1>1. /\ TypeOK /\ down \in [Claim -> Seq(DownFrames)] /\ line \in Seq(Claim) /\ LineOK
      /\ "lost" \in DownFrames /\ "lost" \notin Held
      /\ UNCHANGED <<call, link, up, ended, revoked, abandons, beat, missed, lostAbandon>>
  BY DEF StreamInv, TypeOK, DownFrames, Held, Expire, local, beats, notes
<1>2. /\ to \in [Claim -> Seq(DownFrames)]
      /\ \A d \in Claim : to[d] = IF d = c /\ link[c] THEN Append(down[d], "lost") ELSE down[d]
  BY <1>1, SentIs
<1> HIDE DEF to
<1>3. CASE holder = c /\ Promote(line, to)
  <2>1. /\ ServerTypes' /\ LineOK'
        /\ \A d \in Claim : ServerMove(d) /\ (AtServer(d)' => AtServer(d))
        /\ \A d \in Claim : ~AtServer(d) => down'[d] = down[d]
        /\ down'[c] = to[c]
    BY <1>2, <1>3, HandedOn
  <2>2. ASSUME NEW d \in Claim PROVE Claimed(d)'
    <3>1. Claimed(d) /\ (call[d] = "idle" => down'[d] = down[d])
      BY <2>1 DEF StreamInv, Claimed, Untouched
    <3>2. holder = d => ~link[d] \/ down'[d] = Append(down[d], "lost")
      BY <1>2, <1>3, <2>1
    <3>3. QED
      BY <1>1, <2>1, <3>1, <3>2, ServedKeeps
  <2>3. QED
    BY <2>1, <2>2 DEF ServerGood
<1>4. CASE /\ c \in Range(line) /\ line' = Without(c) /\ down' = to /\ UNCHANGED holder
  <2>1. line' \in Seq(Claim) /\ Distinct(line') /\ Range(line') = Range(line) \ {c}
    BY <1>1, <1>4, WithoutIs DEF LineOK
  <2>2. ServerTypes' /\ LineOK'
    BY <1>1, <1>2, <1>4, <2>1 DEF ServerTypes, LineOK, TypeOK
  <2>3. ASSUME NEW d \in Claim PROVE Claimed(d)'
    <3>1. AtServer(d)' => AtServer(d)
      BY <1>4, <2>1 DEF AtServer
    <3>2. ServerMove(d)
      BY <1>1, <1>2, <1>4 DEF ServerMove
    <3>3. Claimed(d) /\ (call[d] = "idle" => down'[d] = down[d])
      BY <1>2, <1>4 DEF StreamInv, Claimed, Untouched, AtServer
    <3>4. QED
      BY <1>1, <1>4, <3>1, <3>2, <3>3, ServedKeeps
  <2>4. QED
    BY <2>2, <2>3 DEF ServerGood
<1>5. QED
  BY <1>3, <1>4 DEF Expire, to

(* A commit hands the lease on; its claim is no longer in use.             *)
LEMMA CommitServed ==
    ASSUME StreamInv, NEW c \in Claim, Commit(c)
    PROVE  ServerGood'
<1>1. /\ TypeOK /\ down \in [Claim -> Seq(DownFrames)] /\ call \in [Claim -> Calls]
      /\ UNCHANGED <<link, up, ended, revoked, abandons, beat, missed, lostAbandon>>
      /\ call[c] = "held" /\ call' = [call EXCEPT ![c] = "committed"]
      /\ holder = c /\ Promote(line, down)
  BY DEF StreamInv, TypeOK, Commit, beats, notes
<1>2. /\ ServerTypes' /\ LineOK'
      /\ \A d \in Claim : ServerMove(d) /\ (AtServer(d)' => AtServer(d))
      /\ \A d \in Claim : ~AtServer(d) => down'[d] = down[d]
  BY <1>1, HandedOn
<1>3. ASSUME NEW d \in Claim PROVE Claimed(d)'
  <2>1. Claimed(d) /\ (call[d] = "idle" => down'[d] = down[d])
    BY <1>2 DEF StreamInv, Claimed, Untouched
  <2>2. call'[d] = call[d] \/ (call[d] # "idle" /\ call'[d] = "committed")
    BY <1>1
  <2>3. holder = d => ~Live(d)'
    BY <1>1 DEF Live
  <2>4. QED
    BY <1>1, <1>2, <2>1, <2>2, <2>3, ServedKeeps
<1>4. QED
  BY <1>2, <1>3 DEF ServerGood

(* Each frame the server takes: request, heartbeat or abandon.             *)
LEMMA ServerReceiveServed ==
    ASSUME StreamInv, NEW c \in Claim, ServerReceive(c)
    PROVE  ServerGood' /\ up' \in [Claim -> Seq(UpFrames)]
<1>1. /\ TypeOK /\ down \in [Claim -> Seq(DownFrames)] /\ line \in Seq(Claim) /\ LineOK
      /\ holder \in Claim \cup {NoClaim} /\ up \in [Claim -> Seq(UpFrames)]
      /\ UNCHANGED <<call, link, ended, revoked, abandons, beat, missed, lostAbandon>>
      /\ up[c] # <<>> /\ up' = [up EXCEPT ![c] = Tail(@)]
      /\ Claimed(c)
  BY DEF StreamInv, TypeOK, ServerReceive, local, beats, notes
<1>2. /\ up[c] \in Seq(UpFrames) /\ Tail(up[c]) \in Seq(UpFrames) /\ Head(up[c]) \in Range(up[c])
      /\ \A d \in Claim : up'[d] = IF d = c THEN Tail(up[c]) ELSE up[d]
      /\ up' \in [Claim -> Seq(UpFrames)] /\ link[c]
  BY <1>1, TailFacts, TailRange DEF Claimed, Dark
<1> DEFINE h == Head(up[c])
<1>3. ASSUME NEW f \in DownFrames, down' = Sent(down, c, f)
      PROVE  /\ down' \in [Claim -> Seq(DownFrames)] /\ down'[c] = Append(down[c], f)
             /\ \A d \in Claim : d # c => down'[d] = down[d]
             /\ Range(down'[c]) = Range(down[c]) \cup {f}
  <2>1. /\ down' \in [Claim -> Seq(DownFrames)]
        /\ \A d \in Claim : down'[d] = IF d = c /\ link[c] THEN Append(down[d], f) ELSE down[d]
    BY <1>1, <1>3, SentIs
  <2>2. down'[c] = Append(down[c], f) /\ down[c] \in Seq(DownFrames)
    BY <1>1, <1>2, <2>1
  <2>3. Range(Append(down[c], f)) = Range(down[c]) \cup {f}
    BY <2>2, AppendRange
  <2>4. QED
    BY <2>1, <2>2, <2>3
<1>4. CASE h \in Begins /\ Begin(c, h = "begin_queue")
  <2>1. ~AtServer(c)
    BY <1>1, <1>2, <1>4 DEF Claimed, Asked
  <2>2. PICK f \in {"acquired", "queued", "rejected"} :
          /\ down' = Sent(down, c, f)
          /\ \/ f = "acquired" /\ holder = NoClaim /\ holder' = c /\ line' = line
             \/ f = "queued" /\ holder' = holder /\ line' = Append(line, c)
             \/ f = "rejected" /\ holder' = holder /\ line' = line
    BY <1>4 DEF Begin
  <2>3. f \in DownFrames /\ (f \in Held => f = "acquired")
    BY DEF DownFrames, Held
  <2>4. /\ down' \in [Claim -> Seq(DownFrames)] /\ down'[c] = Append(down[c], f)
        /\ \A d \in Claim : d # c => down'[d] = down[d]
    BY <1>3, <2>2, <2>3
  <2>5. /\ line' \in Seq(Claim) /\ Distinct(line')
        /\ \/ Range(line') = Range(line)
           \/ Range(line') = Range(line) \cup {c} /\ holder' = holder
    <3>1. Distinct(line) /\ c \notin Range(line)
      BY <1>1, <2>1 DEF LineOK, AtServer
    <3>2. /\ Append(line, c) \in Seq(Claim) /\ Distinct(Append(line, c))
          /\ Range(Append(line, c)) = Range(line) \cup {c}
      BY <1>1, <3>1, AppendDistinct, AppendRange
    <3>3. QED
      BY <1>1, <2>2, <3>1, <3>2
  <2>6. holder' = holder \/ (holder = NoClaim /\ holder' = c /\ Range(line') = Range(line))
    BY <2>2
  <2>7. ServerTypes' /\ LineOK'
    BY <1>1, <2>1, <2>4, <2>5, <2>6 DEF ServerTypes, LineOK, AtServer
  <2>8. \A d \in Claim : d # c => (AtServer(d)' <=> AtServer(d)) /\ (holder = d => holder' = d)
    BY <2>5, <2>6, ClaimAssumption DEF AtServer
  <2>9. Claimed(c)'
    <3>1. ServerMove(c) /\ holder # c
      BY <1>2, <2>1, <2>2, <2>3, <2>4 DEF ServerMove, AtServer
    <3>2. h # "abandon" /\ h # "heartbeat"
      BY <1>4 DEF Begins
    <3>3. QED
      BY <1>1, <1>2, <1>4, <3>1, <3>2, ConsumedKeeps
  <2>10. ASSUME NEW d \in Claim, d # c PROVE Claimed(d)'
    BY <1>1, <1>2, <2>4, <2>8, <2>10, ServedKeeps DEF StreamInv, ServerMove
  <2>11. QED
    BY <1>2, <2>7, <2>9, <2>10 DEF ServerGood
<1>5. CASE h = "heartbeat" /\ Heartbeat(c)
  <2> DEFINE f == IF holder = c THEN "ack_held"
                  ELSE IF c \in Range(line) THEN "ack_queued" ELSE "ack_lost"
  <2>1. down' = Sent(down, c, f) /\ UNCHANGED <<holder, line>>
    BY <1>5 DEF Heartbeat
  <2>2. /\ f \in DownFrames /\ (f \in Held => holder = c) /\ (holder # c => f \in Losing)
    BY DEF DownFrames, Acks, Held, Losing
  <2> HIDE DEF f
  <2>3. /\ down' \in [Claim -> Seq(DownFrames)] /\ down'[c] = Append(down[c], f)
        /\ \A d \in Claim : d # c => down'[d] = down[d]
        /\ f \in Range(down'[c])
    BY <1>3, <2>1, <2>2
  <2>4. ServerTypes' /\ LineOK' /\ \A d \in Claim : AtServer(d)' <=> AtServer(d)
    BY <1>1, <2>1, <2>3 DEF ServerTypes, LineOK, AtServer
  <2>5. Claimed(c)'
    <3>1. ServerMove(c) /\ (holder' = c \/ Range(down'[c]) \cap Losing # {})
      BY <1>2, <2>1, <2>2, <2>3 DEF ServerMove
    <3>2. QED
      BY <1>1, <1>2, <1>5, <2>1, <2>4, <3>1, ConsumedKeeps
  <2>6. ASSUME NEW d \in Claim, d # c PROVE Claimed(d)'
    BY <1>1, <1>2, <2>1, <2>3, <2>4, <2>6, ServedKeeps DEF StreamInv, ServerMove
  <2>7. QED
    BY <1>2, <2>4, <2>5, <2>6 DEF ServerGood
<1>6. CASE h = "abandon" /\ Abandon(c)
  <2>1. c \in revoked /\ c \in ended /\ ~Live(c)'
    BY <1>1, <1>2, <1>6 DEF Claimed, Revoking, AbandonUnderWay, Live
  <2>2. CASE holder = c
    <3>1. Promote(line, down)
      BY <1>6, <2>2 DEF Abandon
    <3>2. /\ ServerTypes' /\ LineOK'
          /\ \A d \in Claim : ServerMove(d) /\ (AtServer(d)' => AtServer(d))
          /\ \A d \in Claim : ~AtServer(d) => down'[d] = down[d]
          /\ ~AtServer(c)'
      BY <1>1, <2>2, <3>1, HandedOn
    <3>3. Claimed(c)'
      BY <1>1, <1>2, <1>6, <2>1, <3>2, ConsumedKeeps
    <3>4. ASSUME NEW d \in Claim, d # c PROVE Claimed(d)'
      <4>1. Claimed(d) /\ (call[d] = "idle" => down'[d] = down[d])
        BY <3>2 DEF StreamInv, Claimed, Untouched
      <4>2. QED
        BY <1>1, <1>2, <2>2, <3>2, <3>4, <4>1, ServedKeeps
    <3>5. QED
      BY <1>2, <3>2, <3>3, <3>4 DEF ServerGood
  <2>3. CASE holder # c
    <3>1. line' = Without(c) /\ UNCHANGED <<holder, down>>
      BY <1>6, <2>3 DEF Abandon
    <3>2. line' \in Seq(Claim) /\ Distinct(line') /\ Range(line') = Range(line) \ {c}
      BY <1>1, <3>1, WithoutIs DEF LineOK
    <3>3. /\ ServerTypes' /\ LineOK' /\ ~AtServer(c)'
          /\ \A d \in Claim : AtServer(d)' => AtServer(d)
      BY <1>1, <2>3, <3>1, <3>2 DEF ServerTypes, LineOK, AtServer
    <3>4. \A d \in Claim : ServerMove(d)
      BY <3>1 DEF ServerMove
    <3>5. Claimed(c)'
      BY <1>1, <1>2, <1>6, <2>1, <3>3, <3>4, ConsumedKeeps
    <3>6. ASSUME NEW d \in Claim, d # c PROVE Claimed(d)'
      BY <1>1, <1>2, <3>1, <3>3, <3>4, <3>6, ServedKeeps DEF StreamInv
    <3>7. QED
      BY <1>2, <3>3, <3>5, <3>6 DEF ServerGood
  <2>4. QED
    BY <2>2, <2>3
<1>7. QED
  BY <1>4, <1>5, <1>6 DEF ServerReceive, Begins

-----------------------------------------------------------------------------
(* The client: a step of c touches nothing of another claim.               *)

(* The step leaves d alone.                                                *)
SameAt(d) ==
    /\ call'[d] = call[d] /\ link'[d] = link[d] /\ up'[d] = up[d] /\ down'[d] = down[d]
    /\ beat'[d] = beat[d]
    /\ d \in ended' <=> d \in ended
    /\ d \in revoked' <=> d \in revoked
    /\ d \in abandons' <=> d \in abandons
    /\ d \in missed' <=> d \in missed
    /\ d \in lostAbandon' <=> d \in lostAbandon

(* What a step of the client has to establish.                             *)
ClaimsGood == LineOK /\ \A d \in Claim : Claimed(d)

(* A step that leaves d alone keeps what is known of it.                   *)
LEMMA SameKeeps ==
    ASSUME NEW d \in Claim, Claimed(d), UNCHANGED <<holder, line>>, SameAt(d)
    PROVE  Claimed(d)'
<1>1. /\ AtServer(d)' <=> AtServer(d)
      /\ AbandonUnderWay(d)' <=> AbandonUnderWay(d)
  BY DEF AtServer, AbandonUnderWay, SameAt
<1>2. GrantTold(d)' /\ LossTold(d)'
  BY DEF Claimed, GrantTold, LossTold, Live, Alerted, SameAt
<1>3. Untouched(d)' /\ Dark(d)' /\ Asked(d)' /\ Revoking(d)' /\ Released(d)'
  BY <1>1 DEF Claimed, SameAt, Untouched, Dark, Asked, Revoking, Released
<1>4. QED
  BY <1>2, <1>3 DEF Claimed

(* A step of the client concerns one claim.                                *)
LEMMA OnlyHere ==
    ASSUME StreamInv, NEW c \in Claim, UNCHANGED <<holder, line>>,
           \A d \in Claim : d # c => SameAt(d), Claimed(c)'
    PROVE  ClaimsGood'
  BY SameKeeps DEF StreamInv, LineOK, ClaimsGood

(* A step that leaves all of them alone.                                   *)
LEMMA NothingHere ==
    ASSUME StreamInv, UNCHANGED <<holder, line>>, \A d \in Claim : SameAt(d)
    PROVE  ClaimsGood'
  BY SameKeeps DEF StreamInv, LineOK, ClaimsGood

(* A handle is revoked: its abandon is sent behind what it asked for.      *)
LEMMA RevokeHere ==
    ASSUME StreamInv, NEW c \in Claim, call[c] # "idle",
           call'[c] \in {"failed", "released"}, Revoke(c),
           UNCHANGED <<holder, line, link, beat, missed, lostAbandon>>,
           down'[c] = down[c] \/ down[c] # <<>>
    PROVE  Claimed(c)' /\ up' \in [Claim -> Seq(UpFrames)]
<1>1. /\ Claimed(c) /\ up \in [Claim -> Seq(UpFrames)] /\ "abandon" \in UpFrames
      /\ "abandon" \notin Begins /\ (AtServer(c)' <=> AtServer(c))
  BY DEF StreamInv, TypeOK, UpFrames, Begins, AtServer
<1>2. GrantTold(c)' /\ LossTold(c)' /\ Untouched(c)'
  BY DEF GrantTold, LossTold, Untouched, Live
<1>3. CASE c \in revoked
  <2>1. UNCHANGED <<revoked, ended, up, abandons>>
    BY <1>3 DEF Revoke
  <2>2. QED
    BY <1>1, <1>2, <2>1
       DEF Claimed, Dark, Asked, Revoking, Released, AbandonUnderWay
<1>4. CASE c \notin revoked
  <2>1. revoked' = revoked \cup {c} /\ ended' = ended \cup {c} /\ SendAbandon(c)
    BY <1>4 DEF Revoke, EndLifetime
  <2>2. CASE link[c]
    <3>1. up' = [up EXCEPT ![c] = Append(@, "abandon")] /\ abandons' = abandons
      BY <2>1, <2>2 DEF SendAbandon
    <3>2. /\ up'[c] = Append(up[c], "abandon") /\ up[c] \in Seq(UpFrames)
          /\ up' \in [Claim -> Seq(UpFrames)]
      BY <1>1, <3>1, AppendFacts
    <3>3. BeginsFirst(up'[c]) /\ Range(up'[c]) = Range(up[c]) \cup {"abandon"}
      BY <1>1, <3>2, BeginsFirstSent, AppendRange DEF Claimed, Asked
    <3>4. Dark(c)' /\ Asked(c)' /\ Revoking(c)' /\ Released(c)'
      BY <1>1, <2>1, <2>2, <3>3
         DEF Claimed, Dark, Asked, Revoking, Released, AbandonUnderWay, Begins
    <3>5. QED
      BY <1>2, <3>2, <3>4 DEF Claimed
  <2>3. CASE ~link[c]
    <3>1. abandons' = abandons \cup {c} /\ up' = up
      BY <2>1, <2>3 DEF SendAbandon
    <3>2. up[c] = <<>> /\ down[c] = <<>> /\ down'[c] = <<>>
      BY <1>1, <2>3 DEF Claimed, Dark
    <3>3. Dark(c)' /\ Asked(c)' /\ Revoking(c)' /\ Released(c)'
      BY <1>1, <2>1, <3>1, <3>2, NothingFollows
         DEF Claimed, Dark, Asked, Revoking, Released, AbandonUnderWay, Begins
    <3>4. QED
      BY <1>1, <1>2, <3>1, <3>3 DEF Claimed
  <2>4. QED
    BY <2>2, <2>3
<1>5. QED
  BY <1>3, <1>4

(* Revoking one handle leaves the others alone.                            *)
LEMMA RevokeElsewhere ==
    ASSUME NEW c \in Claim, Revoke(c), up \in [Claim -> Seq(UpFrames)],
           NEW d \in Claim, d # c
    PROVE  /\ up'[d] = up[d]
           /\ d \in ended' <=> d \in ended
           /\ d \in revoked' <=> d \in revoked
           /\ d \in abandons' <=> d \in abandons
<1>1. CASE c \in revoked
  BY <1>1 DEF Revoke
<1>2. CASE c \notin revoked
  BY <1>2 DEF Revoke, EndLifetime, SendAbandon
<1>3. QED
  BY <1>1, <1>2

(* The first frame of a connection.                                        *)
LEMMA FirstFrame ==
    ASSUME NEW f
    PROVE  BeginsFirst(<<f>>) /\ Range(<<f>>) = {f} /\ Append(<<>>, f) = <<f>>
<1>1. DOMAIN <<f>> = 1..1 /\ Len(<<f>>) = 1 /\ <<f>>[1] = f /\ Append(<<>>, f) = <<f>>
  OBVIOUS
<1>2. \A i \in 1..1 : i = 1
  OBVIOUS
<1>3. BeginsFirst(<<f>>)
  BY <1>1, <1>2 DEF BeginsFirst
<1>4. Range(<<f>>) = {f}
  BY <1>1, <1>2 DEF Range
<1>5. QED
  BY <1>1, <1>3, <1>4

(* claim(): the request is the first frame, or is not sent at all.         *)
LEMMA RequestHere ==
    ASSUME StreamInv, NEW c \in Claim, NEW queue, Request(c, queue)
    PROVE  ClaimsGood' /\ up' \in [Claim -> Seq(UpFrames)]
<1> DEFINE b == IF queue THEN "begin_queue" ELSE "begin"
<1>1. /\ call[c] = "idle" /\ call' = [call EXCEPT ![c] = "waiting"]
      /\ up' = IF link[c] THEN [up EXCEPT ![c] = Append(@, b)] ELSE up
      /\ UNCHANGED <<holder, line, link, down, ended, revoked, abandons, beat, missed, lostAbandon>>
  BY DEF Request, server, beats, notes
<1>2. /\ up \in [Claim -> Seq(UpFrames)] /\ call \in [Claim -> Calls] /\ b \in UpFrames
      /\ b \in Begins /\ b # "abandon"
  BY DEF StreamInv, TypeOK, UpFrames, Begins
<1> HIDE DEF b
<1>3. /\ up[c] = <<>> /\ down[c] = <<>> /\ ~AtServer(c) /\ c \notin abandons /\ c \notin revoked
      /\ c \notin ended /\ Claimed(c)
  BY <1>1 DEF StreamInv, Claimed, Untouched, ClaimInv, HandlesKnown
<1>4. \A d \in Claim : d # c => SameAt(d)
  BY <1>1, <1>2 DEF SameAt
<1>5. /\ up' \in [Claim -> Seq(UpFrames)]
      /\ up'[c] = IF link[c] THEN Append(up[c], b) ELSE <<>>
  BY <1>1, <1>2, <1>3, AppendFacts
<1>6. BeginsFirst(up'[c]) /\ "abandon" \notin Range(up'[c])
  <2>1. CASE link[c]
    <3>1. up'[c] = <<b>>
      BY <1>3, <1>5, <2>1, FirstFrame
    <3>2. QED
      BY <1>2, <3>1, FirstFrame
  <2>2. CASE ~link[c]
    BY <1>5, <2>2, NothingFollows
  <2>3. QED
    BY <2>1, <2>2
<1>7. ~AtServer(c)' /\ call'[c] = "waiting" /\ down'[c] = <<>>
  BY <1>1, <1>2, <1>3 DEF AtServer
<1>8. Claimed(c)'
  BY <1>1, <1>3, <1>5, <1>6, <1>7, NothingFollows
     DEF Claimed, GrantTold, LossTold, Untouched, Dark, Asked, Revoking, Released,
         AbandonUnderWay
<1>9. QED
  BY <1>1, <1>4, <1>5, <1>8, OnlyHere

(* A wait that fails, and a release: the caller changes and the handle is  *)
(* revoked.                                                                *)
LEMMA GiveUpHere ==
    ASSUME StreamInv, NEW c \in Claim, call[c] # "idle",
           NEW v \in {"failed", "released"}, call' = [call EXCEPT ![c] = v], Revoke(c),
           UNCHANGED <<holder, line, link, beat, missed, lostAbandon>>,
           down' = down \/ (down[c] # <<>> /\ down' = [down EXCEPT ![c] = Tail(@)])
    PROVE  ClaimsGood' /\ up' \in [Claim -> Seq(UpFrames)]
<1>1. /\ call \in [Claim -> Calls] /\ down \in [Claim -> Seq(DownFrames)]
      /\ up \in [Claim -> Seq(UpFrames)]
  BY DEF StreamInv, TypeOK
<1>2. call'[c] \in {"failed", "released"} /\ (down'[c] = down[c] \/ down[c] # <<>>)
  BY <1>1
<1>3. Claimed(c)' /\ up' \in [Claim -> Seq(UpFrames)]
  BY <1>2, RevokeHere
<1>4. ASSUME NEW d \in Claim, d # c PROVE SameAt(d)
  <2>1. /\ up'[d] = up[d] /\ (d \in ended' <=> d \in ended)
        /\ (d \in revoked' <=> d \in revoked) /\ (d \in abandons' <=> d \in abandons)
    BY <1>1, <1>4, RevokeElsewhere
  <2>2. call'[d] = call[d] /\ down'[d] = down[d]
    BY <1>1, <1>4
  <2>3. QED
    BY <2>1, <2>2 DEF SameAt
<1>5. QED
  BY <1>3, <1>4, OnlyHere

(* A step that only moves on the caller: granted to held, or to its end.   *)
LEMMA CallerHere ==
    ASSUME StreamInv, NEW c \in Claim,
           NEW v \in {"held", "failed", "released"}, call' = [call EXCEPT ![c] = v],
           call[c] # "idle", v = "held" => call[c] = "granted",
           UNCHANGED <<holder, line, link, up, down, ended, revoked, abandons, beat, missed,
                       lostAbandon>>
    PROVE  ClaimsGood'
<1>1. call \in [Claim -> Calls] /\ Claimed(c)
  BY DEF StreamInv, TypeOK
<1>2. \A d \in Claim : d # c => SameAt(d)
  BY <1>1 DEF SameAt
<1>3. call'[c] = v /\ (AtServer(c)' <=> AtServer(c)) /\ (Alerted(c)' <=> Alerted(c))
      /\ (AbandonUnderWay(c)' <=> AbandonUnderWay(c))
  BY <1>1 DEF AtServer, Alerted, AbandonUnderWay
<1>4. Claimed(c)'
  BY <1>1, <1>3
     DEF Claimed, GrantTold, LossTold, Live, Untouched, Dark, Asked, Revoking, Released
<1>5. QED
  BY <1>2, <1>4, OnlyHere

(* A heartbeat of the loop or of the caller.                               *)
LEMMA BeatHere ==
    ASSUME StreamInv, NEW c \in Claim, NEW who \in {"loop", "caller"}, SendHeartbeat(c, who),
           link[c], call[c] # "idle",
           UNCHANGED <<holder, line, link, down, call, ended, revoked, abandons, missed,
                       lostAbandon>>
    PROVE  ClaimsGood' /\ up' \in [Claim -> Seq(UpFrames)]
<1>1. /\ up \in [Claim -> Seq(UpFrames)] /\ beat \in [Claim -> {"none", "loop", "caller", "recheck"}]
      /\ Claimed(c) /\ "heartbeat" \in UpFrames /\ "heartbeat" \notin Begins
  BY DEF StreamInv, TypeOK, UpFrames, Begins
<1>2. /\ beat' = [beat EXCEPT ![c] = who] /\ up' = [up EXCEPT ![c] = Append(@, "heartbeat")]
  BY DEF SendHeartbeat
<1>3. /\ up'[c] = Append(up[c], "heartbeat") /\ up[c] \in Seq(UpFrames)
      /\ up' \in [Claim -> Seq(UpFrames)] /\ beat'[c] # "none"
  BY <1>1, <1>2, AppendFacts
<1>4. BeginsFirst(up'[c]) /\ Range(up'[c]) = Range(up[c]) \cup {"heartbeat"}
  BY <1>1, <1>3, BeginsFirstSent, AppendRange DEF Claimed, Asked
<1>5. \A d \in Claim : d # c => SameAt(d)
  BY <1>1, <1>2 DEF SameAt
<1>6. (AtServer(c)' <=> AtServer(c)) /\ Alerted(c)' /\ (AbandonUnderWay(c)' <=> AbandonUnderWay(c))
  BY <1>3, <1>4 DEF AtServer, Alerted, AbandonUnderWay
<1>7. Claimed(c)'
  BY <1>1, <1>4, <1>6
     DEF Claimed, GrantTold, LossTold, Live, Untouched, Dark, Asked, Revoking, Released
<1>8. QED
  BY <1>3, <1>5, <1>7, OnlyHere

(* A heartbeat given up is noted as missed.                                *)
LEMMA AckTimeoutHere ==
    ASSUME StreamInv, NEW c \in Claim, AckTimeout(c)
    PROVE  ClaimsGood'
<1>1. /\ missed' = missed \cup {c} /\ beat' = [beat EXCEPT ![c] = "none"]
      /\ UNCHANGED <<holder, line, link, up, down, call, ended, revoked, abandons, lostAbandon>>
  BY DEF AckTimeout, server, wires, local
<1>2. beat \in [Claim -> {"none", "loop", "caller", "recheck"}] /\ Claimed(c)
  BY DEF StreamInv, TypeOK
<1>3. \A d \in Claim : d # c => SameAt(d)
  BY <1>1, <1>2 DEF SameAt
<1>4. (AtServer(c)' <=> AtServer(c)) /\ Alerted(c)' /\ (AbandonUnderWay(c)' <=> AbandonUnderWay(c))
  BY <1>1 DEF AtServer, Alerted, AbandonUnderWay
<1>5. Claimed(c)'
  BY <1>1, <1>2, <1>4
     DEF Claimed, GrantTold, LossTold, Live, Untouched, Dark, Asked, Revoking, Released
<1>6. QED
  BY <1>1, <1>3, <1>5, OnlyHere

(* A frame is taken from the connection and the handle is not revoked.     *)
LEMMA TakenHere ==
    ASSUME StreamInv, NEW c \in Claim, down[c] # <<>>, down' = [down EXCEPT ![c] = Tail(@)],
           UNCHANGED <<holder, line, link, up, revoked, abandons, lostAbandon>>,
           call' = call \/ (call[c] = "waiting" /\ call' = [call EXCEPT ![c] = "granted"]),
           c \in ended => c \in ended',
           \A d \in Claim : d # c => /\ beat'[d] = beat[d] /\ (d \in ended' <=> d \in ended)
                                     /\ (d \in missed' <=> d \in missed),
           LossTold(c)'
    PROVE  ClaimsGood'
<1>1. /\ call \in [Claim -> Calls] /\ down \in [Claim -> Seq(DownFrames)] /\ Claimed(c)
  BY DEF StreamInv, TypeOK
<1>2. /\ down'[c] = Tail(down[c]) /\ down[c] \in Seq(DownFrames)
      /\ call[c] # "idle" /\ link[c]
      /\ call'[c] = call[c] \/ (call[c] = "waiting" /\ call'[c] = "granted")
  BY <1>1 DEF Claimed, Untouched, Dark
<1>3. \A d \in Claim : d # c => SameAt(d)
  BY <1>1 DEF SameAt
<1>4. (AtServer(c)' <=> AtServer(c)) /\ (AbandonUnderWay(c)' <=> AbandonUnderWay(c))
  BY DEF AtServer, AbandonUnderWay
<1>5. GrantTold(c)'
  BY <1>1, <1>2, LossFollowsReceived DEF Claimed, GrantTold, Live
<1>6. Untouched(c)' /\ Dark(c)' /\ Asked(c)' /\ Revoking(c)' /\ Released(c)'
  BY <1>1, <1>2, <1>4 DEF Claimed, Untouched, Dark, Asked, Revoking, Released
<1>7. Claimed(c)'
  BY <1>5, <1>6 DEF Claimed
<1>8. QED
  BY <1>3, <1>7, OnlyHere

(* Each frame the client takes. A grant that is no longer true is followed *)
(* by its loss; an answer other than held ends the handle.                 *)
LEMMA ReceiveHere ==
    ASSUME StreamInv, NEW c \in Claim, Receive(c)
    PROVE  ClaimsGood' /\ up' \in [Claim -> Seq(UpFrames)]
<1> DEFINE frame == Head(down[c])
<1>1. /\ down[c] # <<>> /\ down' = [down EXCEPT ![c] = Tail(@)]
      /\ UNCHANGED <<holder, line, link>>
      /\ call \in [Claim -> Calls] /\ down \in [Claim -> Seq(DownFrames)] /\ Claimed(c)
      /\ beat \in [Claim -> {"none", "loop", "caller", "recheck"}]
      /\ up \in [Claim -> Seq(UpFrames)]
  BY DEF Receive, server, StreamInv, TypeOK
<1>2. /\ down'[c] = Tail(down[c]) /\ down[c] \in Seq(DownFrames)
      /\ Range(down[c]) = {frame} \cup Range(down'[c])
      /\ call[c] # "idle"
  BY <1>1, TailRange DEF Claimed, Untouched
<1>3. c \notin ended => c \in own
  BY <1>2 DEF StreamInv, ClaimInv, HandlesKnown
<1>4. Live(c) /\ holder # c /\ frame \in Held => "lost" \in Range(down'[c])
  BY <1>1, <1>2, LossFollowsReceived DEF Claimed, GrantTold
<1> HIDE DEF frame
<1>5. CASE frame \in {"acquired", "granted"} /\
           /\ call' = IF call[c] = "waiting" THEN [call EXCEPT ![c] = "granted"] ELSE call
           /\ UNCHANGED <<own, ended, revoked, abandons, active, running, up, beats, notes>>
  <2>1. UNCHANGED <<ended, revoked, abandons, up, beat, missed, lostAbandon>> /\ frame \in Held
    BY <1>5 DEF beats, notes, Held
  <2>2. call' = call \/ (call[c] = "waiting" /\ call' = [call EXCEPT ![c] = "granted"])
    BY <1>5
  <2>3. LossTold(c)'
    <3> SUFFICES ASSUME c \notin ended, holder # c, call'[c] \in {"granted", "held"}
                 PROVE  "lost" \in Range(down'[c])
      BY <1>1, <2>1 DEF LossTold, Alerted
    <3>1. Live(c)
      BY <1>1, <2>2 DEF Live
    <3>2. QED
      BY <1>4, <2>1, <3>1
  <2>4. QED
    BY <1>1, <2>1, <2>2, <2>3, TakenHere
<1>6. CASE frame = "queued" /\ UNCHANGED <<call, own, ended, revoked, abandons, active, running, up>>
                            /\ UNCHANGED <<beats, notes>>
  <2>1. UNCHANGED <<ended, revoked, abandons, up, beat, missed, lostAbandon>>
    BY <1>6 DEF beats, notes
  <2>2. LossTold(c)'
    BY <1>1, <1>2, <1>6, <2>1 DEF Claimed, LossTold, Alerted
  <2>3. QED
    BY <1>1, <1>6, <2>1, <2>2, TakenHere
<1>7. CASE /\ call[c] = "waiting" /\ call' = [call EXCEPT ![c] = "failed"] /\ Revoke(c)
           /\ UNCHANGED <<beats, notes>>
  BY <1>1, <1>2, <1>7, GiveUpHere DEF beats, notes
<1>8. CASE Refused(c) /\ call[c] # "waiting" /\ UNCHANGED <<beats, notes>>
  <2>1. /\ UNCHANGED <<call, revoked, up, abandons>>
        /\ IF c \in own THEN EndLifetime(c) ELSE UNCHANGED <<ended, active, running>>
    BY <1>8 DEF Refused
  <2>2. c \in ended' /\ \A d \in Claim : d # c => (d \in ended' <=> d \in ended)
    BY <1>3, <2>1 DEF EndLifetime
  <2>3. LossTold(c)'
    BY <2>2 DEF LossTold
  <2>4. UNCHANGED <<beat, missed, lostAbandon>>
    BY <1>8 DEF beats, notes
  <2>5. QED
    BY <1>1, <2>1, <2>2, <2>3, <2>4, TakenHere
<1>9. CASE frame \in Acks /\ HeartbeatAck(c, frame)
  <2>0. frame \in {"ack_held"} \cup Losing
    BY <1>9 DEF Acks, Losing
  <2>1. CASE beat[c] = "none"
    <3>1. /\ missed' = IF frame = "ack_held" THEN missed ELSE missed \cup {c}
          /\ UNCHANGED <<beat, call, ended, revoked, abandons, up, lostAbandon>>
      BY <1>9, <2>1 DEF HeartbeatAck, beats
    <3>2. LossTold(c)'
      BY <1>1, <1>2, <2>0, <2>1, <3>1 DEF Claimed, LossTold, Alerted, Losing
    <3>3. QED
      BY <1>1, <3>1, <3>2, TakenHere
  <2>2. CASE beat[c] # "none" /\ frame = "ack_held"
    <3>1. /\ beat' = [beat EXCEPT ![c] = "none"]
          /\ UNCHANGED <<call, ended, revoked, abandons, up, missed, lostAbandon>>
      BY <1>9, <2>2 DEF HeartbeatAck, AckHeld, notes
    <3>2. LossTold(c)'
      <4>1. frame \in Held
        BY <2>2 DEF Held
      <4>2. QED
        BY <1>1, <1>4, <3>1, <4>1 DEF LossTold, Live, Alerted
    <3>3. QED
      BY <1>1, <3>1, <3>2, TakenHere
  <2>3. CASE beat[c] # "none" /\ frame # "ack_held"
    <3>1. /\ beat' = [beat EXCEPT ![c] = "none"] /\ ended' = ended \cup (own \cap {c})
          /\ UNCHANGED <<call, revoked, abandons, up, missed, lostAbandon>>
      BY <1>9, <2>3 DEF HeartbeatAck, AckNotHeld, notes
    <3>2. c \in ended' /\ LossTold(c)'
      BY <1>3, <3>1 DEF LossTold
    <3>3. \A d \in Claim : d # c => beat'[d] = beat[d] /\ (d \in ended' <=> d \in ended)
      BY <1>1, <3>1
    <3>4. QED
      BY <1>1, <3>1, <3>2, <3>3, TakenHere
  <2>4. QED
    BY <2>1, <2>2, <2>3
<1>10. QED
  <2>1. \/ frame \in {"acquired", "granted"} /\
           /\ call' = IF call[c] = "waiting" THEN [call EXCEPT ![c] = "granted"] ELSE call
           /\ UNCHANGED <<own, ended, revoked, abandons, active, running, up, beats, notes>>
        \/ /\ frame = "queued"
           /\ \/ UNCHANGED <<call, own, ended, revoked, abandons, active, running, up>>
              \/ /\ call[c] = "waiting"
                 /\ call' = [call EXCEPT ![c] = "failed"]
                 /\ Revoke(c)
           /\ UNCHANGED <<beats, notes>>
        \/ Refused(c) /\ UNCHANGED <<beats, notes>>
        \/ frame \in Acks /\ HeartbeatAck(c, frame)
    BY DEF Receive, frame, Acks
  <2>2. Refused(c) /\ call[c] = "waiting" =>
          call' = [call EXCEPT ![c] = "failed"] /\ Revoke(c)
    BY DEF Refused
  <2>3. QED
    BY <1>5, <1>6, <1>7, <1>8, <1>9, <2>1, <2>2

(* The connection of c is cut.                                             *)
LEMMA SeveredHere ==
    ASSUME StreamInv, NEW c \in Claim, Severed(c),
           UNCHANGED <<holder, line, call, revoked, abandons, missed>>,
           c \in ended => c \in ended',
           \A d \in Claim : d # c => (d \in ended' <=> d \in ended)
    PROVE  ClaimsGood' /\ up' \in [Claim -> Seq(UpFrames)]
<1>1. /\ up \in [Claim -> Seq(UpFrames)] /\ down \in [Claim -> Seq(DownFrames)]
      /\ link \in [Claim -> BOOLEAN] /\ Claimed(c)
      /\ beat \in [Claim -> {"none", "loop", "caller", "recheck"}]
  BY DEF StreamInv, TypeOK
<1>2. /\ link'[c] = FALSE /\ up'[c] = <<>> /\ down'[c] = <<>>
      /\ up' \in [Claim -> Seq(UpFrames)]
      /\ \A d \in Claim : d # c => SameAt(d)
      /\ "abandon" \in Range(up[c]) => c \in lostAbandon'
      /\ c \in lostAbandon => c \in lostAbandon'
  BY <1>1 DEF Severed, SameAt
<1>3. /\ AtServer(c)' <=> AtServer(c)
      /\ AbandonUnderWay(c)' <=> c \in abandons
  BY <1>2, NothingFollows DEF AtServer, AbandonUnderWay
<1>4. GrantTold(c)' /\ LossTold(c)' /\ Untouched(c)' /\ Dark(c)' /\ Asked(c)'
  BY <1>1, <1>2, <1>3, NothingFollows
     DEF Claimed, GrantTold, LossTold, Live, Alerted, Untouched, Dark, Asked
<1>5. Revoking(c)' /\ Released(c)'
  BY <1>1, <1>2, <1>3 DEF Claimed, Revoking, Released, AbandonUnderWay
<1>6. Claimed(c)'
  BY <1>4, <1>5 DEF Claimed
<1>7. QED
  BY <1>2, <1>6, OnlyHere

(* A connection that is back carries the kept abandon and then a           *)
(* heartbeat, so that every handle is checked.                             *)
LEMMA ConnectHere ==
    ASSUME StreamInv, NEW c \in Claim, Connect(c)
    PROVE  ClaimsGood' /\ up' \in [Claim -> Seq(UpFrames)]
<1> DEFINE a == IF c \in abandons THEN <<"abandon">> ELSE <<>>
           h == IF c \in own THEN <<"heartbeat">> ELSE <<>>
<1>1. /\ ~link[c] /\ link' = [link EXCEPT ![c] = TRUE] /\ up' = [up EXCEPT ![c] = a \o h]
      /\ abandons' = abandons \ {c}
      /\ beat' = [beat EXCEPT ![c] = IF c \in own THEN "recheck" ELSE "none"]
      /\ UNCHANGED <<holder, line, down, call, ended, revoked, missed, lostAbandon>>
  BY DEF Connect, server, notes
<1>2. /\ up \in [Claim -> Seq(UpFrames)] /\ Claimed(c) /\ down[c] = <<>> /\ up[c] = <<>>
      /\ link \in [Claim -> BOOLEAN]
      /\ beat \in [Claim -> {"none", "loop", "caller", "recheck"}]
  BY <1>1 DEF StreamInv, TypeOK, Claimed, Dark
<1>3. /\ a \o h \in Seq(UpFrames) /\ BeginsFirst(a \o h) /\ Begins \cap Range(a \o h) = {}
      /\ "abandon" \in Range(a \o h) <=> c \in abandons
      /\ c \in own => "heartbeat" \in Range(a \o h)
      /\ c \notin own /\ c \notin abandons => a \o h = <<>>
  <2>1. {"abandon", "heartbeat"} \subseteq UpFrames
    BY DEF UpFrames
  <2>2. CASE c \in abandons /\ c \in own
    <3> DEFINE s == a \o h
    <3>1. /\ a \in Seq(UpFrames) /\ Len(a) = 1 /\ a[1] = "abandon"
          /\ h \in Seq(UpFrames) /\ Len(h) = 1 /\ h[1] = "heartbeat"
      BY <2>1, <2>2
    <3> HIDE DEF a, h
    <3>2. /\ s \in Seq(UpFrames) /\ Len(s) = 2 /\ DOMAIN s = 1..2
          /\ s[1] = "abandon" /\ s[2] = "heartbeat"
      BY <3>1, ConcatProperties
    <3>3. \A i \in 1..2 : i = 1 \/ i = 2
      OBVIOUS
    <3> HIDE DEF s
    <3>4. Range(s) = {"abandon", "heartbeat"}
      BY <3>2, <3>3 DEF Range
    <3>5. BeginsFirst(s)
      BY <3>2, <3>3 DEF BeginsFirst, Begins
    <3>6. QED
      BY <2>2, <3>2, <3>4, <3>5 DEF Begins, s
  <2>3. CASE c \in abandons /\ c \notin own
    <3>1. a \o h = <<"abandon">> /\ a \o h \in Seq(UpFrames)
      BY <2>1, <2>3
    <3>2. QED
      BY <2>3, <3>1, FirstFrame DEF Begins
  <2>4. CASE c \notin abandons /\ c \in own
    <3>1. a \o h = <<"heartbeat">> /\ a \o h \in Seq(UpFrames)
      BY <2>1, <2>4
    <3>2. QED
      BY <2>4, <3>1, FirstFrame DEF Begins
  <2>5. CASE c \notin abandons /\ c \notin own
    <3>1. a \o h = <<>> /\ a \o h \in Seq(UpFrames)
      BY <2>5
    <3>2. QED
      BY <2>5, <3>1, NothingFollows
  <2>6. QED
    BY <2>2, <2>3, <2>4, <2>5
<1> HIDE DEF a, h
<1>4. /\ up'[c] = a \o h /\ link'[c] = TRUE /\ down'[c] = <<>>
      /\ c \in own => beat'[c] = "recheck"
      /\ up' \in [Claim -> Seq(UpFrames)]
      /\ \A d \in Claim : d # c => SameAt(d)
  BY <1>1, <1>2, <1>3 DEF SameAt
<1>5. /\ AtServer(c)' <=> AtServer(c)
      /\ AbandonUnderWay(c)' <=> c \in abandons
      /\ AbandonUnderWay(c) <=> c \in abandons
  BY <1>1, <1>2, <1>3, <1>4, NothingFollows DEF AtServer, AbandonUnderWay
<1>6. GrantTold(c)'
  BY <1>4, NothingFollows DEF GrantTold
<1>7. LossTold(c)'
  <2> SUFFICES ASSUME c \notin ended, call[c] \in {"granted", "held"}
               PROVE  Alerted(c)'
    BY <1>1 DEF LossTold
  <2>1. c \in own
    BY DEF StreamInv, ClaimInv, HandlesKnown
  <2>2. QED
    BY <1>3, <1>4, <2>1 DEF Alerted
<1>8. Untouched(c)'
  <2> SUFFICES ASSUME call[c] = "idle"
               PROVE  up'[c] = <<>> /\ down'[c] = <<>> /\ ~AtServer(c)' /\ c \notin abandons'
    BY <1>1 DEF Untouched
  <2>1. c \notin own /\ c \notin abandons
    BY <1>2 DEF StreamInv, ClaimInv, HandlesKnown, Claimed, Untouched
  <2>2. QED
    BY <1>1, <1>2, <1>3, <1>4, <1>5, <2>1 DEF Claimed, Untouched
<1>9. Dark(c)' /\ Asked(c)' /\ Revoking(c)' /\ Released(c)'
  BY <1>1, <1>2, <1>3, <1>4, <1>5 DEF Claimed, Dark, Asked, Revoking, Released
<1>10. QED
  BY <1>1, <1>4, <1>6, <1>7, <1>8, <1>9, OnlyHere DEF Claimed

-----------------------------------------------------------------------------
(* The step of every action, and the theorems.                             *)

(* Who awaits the answer to a heartbeat.                                   *)
Beats == {"none", "loop", "caller", "recheck"}

(* What is kept besides the frames and the line.                           *)
KeptTypes ==
    /\ link \in [Claim -> BOOLEAN] /\ beat \in [Claim -> Beats]
    /\ ended \cup revoked \cup abandons \cup active \cup gone \subseteq Claim
    /\ busy \cup lostAbandon \cup missed \subseteq Claim
    /\ drops \in 0..MaxDrops /\ timeouts \in 0..MaxTimeouts /\ losses \in 0..MaxLosses

(* Revoking keeps the indexes sets of claims.                              *)
LEMMA RevokeTypes ==
    ASSUME KeptTypes, NEW c \in Claim, Revoke(c)
    PROVE  ended' \cup revoked' \cup abandons' \cup active' \subseteq Claim
<1>1. CASE c \in revoked
  BY <1>1 DEF KeptTypes, Revoke
<1>2. CASE c \notin revoked
  BY <1>2 DEF KeptTypes, Revoke, EndLifetime, SendAbandon
<1>3. QED
  BY <1>1, <1>2

(* So does each frame from the server.                                     *)
LEMMA ReceiveTypes ==
    ASSUME KeptTypes, NEW c \in Claim, Receive(c)
    PROVE  KeptTypes'
<1>1. UNCHANGED <<link, gone, drops, timeouts, losses>>
  BY DEF Receive, server, bounds
<1>2. SUFFICES /\ beat' \in [Claim -> Beats]
               /\ ended' \cup revoked' \cup abandons' \cup active' \subseteq Claim
               /\ busy' \cup lostAbandon' \cup missed' \subseteq Claim
  BY <1>1 DEF KeptTypes
<1>3. CASE UNCHANGED <<beats, notes>>
  <2>1. UNCHANGED <<beat, busy, lostAbandon, missed>>
    BY <1>3 DEF beats, notes
  <2>2. ended' \cup revoked' \cup abandons' \cup active' \subseteq Claim
    <3>1. CASE Revoke(c)
      BY <3>1, RevokeTypes
    <3>2. CASE UNCHANGED <<ended, revoked, abandons, active>>
      BY <3>2 DEF KeptTypes
    <3>3. CASE EndLifetime(c) /\ UNCHANGED <<revoked, abandons>>
      BY <3>3 DEF KeptTypes, EndLifetime
    <3>4. CASE \E status : HeartbeatAck(c, status) /\ UNCHANGED missed
      BY <3>2, <3>4 DEF HeartbeatAck, AckHeld, AckNotHeld, KeptTypes
    <3>5. QED
      BY <3>1, <3>2, <3>3, <3>4, <2>1 DEF Receive, Refused
  <2>3. QED
    BY <2>1, <2>2 DEF KeptTypes
<1>4. CASE \E status : HeartbeatAck(c, status)
  <2>1. PICK status : HeartbeatAck(c, status)
    BY <1>4
  <2>2. CASE beat[c] = "none"
    <3>1. UNCHANGED <<beat, busy, ended, revoked, abandons, active, lostAbandon>>
      BY <2>1, <2>2 DEF HeartbeatAck, beats
    <3>2. missed' = missed \/ missed' = missed \cup {c}
      BY <2>1, <2>2 DEF HeartbeatAck
    <3>3. QED
      BY <3>1, <3>2 DEF KeptTypes
  <2>3. CASE AckHeld(c)
    BY <2>3 DEF KeptTypes, AckHeld, notes, Beats
  <2>4. CASE AckNotHeld(c)
    <3>1. /\ beat' = [beat EXCEPT ![c] = "none"] /\ busy' = busy \ {c}
          /\ ended' = ended \cup (own \cap {c})
          /\ active' \subseteq active
          /\ UNCHANGED <<revoked, abandons, lostAbandon, missed>>
      BY <2>4 DEF AckNotHeld, notes
    <3>2. beat' \in [Claim -> Beats]
      BY <3>1 DEF KeptTypes, Beats
    <3>3. QED
      BY <3>1, <3>2 DEF KeptTypes
  <2>5. QED
    BY <2>1, <2>2, <2>3, <2>4 DEF HeartbeatAck
<1>5. QED
  BY <1>3, <1>4 DEF Receive

(* And each action.                                                        *)
LEMMA ActionTypes ==
    ASSUME KeptTypes, NEW c \in Claim,
           \/ ServerReceive(c) \/ Expire(c)
           \/ Request(c, TRUE) \/ Request(c, FALSE) \/ GiveUp(c)
           \/ Return(c) \/ LoadFails(c) \/ Commit(c) \/ Release(c)
           \/ Tick(c) \/ AckTimeout(c) \/ ManualBeat(c)
           \/ Receive(c) \/ Disconnect(c) \/ Connect(c) \/ Dispose(c)
    PROVE  KeptTypes'
<1> USE ClaimAssumption
<1>1. CASE ServerReceive(c) \/ Request(c, TRUE) \/ Request(c, FALSE) \/ LoadFails(c) \/ Commit(c)
  <2>1. UNCHANGED <<link, beat, ended, revoked, abandons, active, gone, busy, lostAbandon, missed,
                    drops, timeouts, losses>>
    BY <1>1 DEF ServerReceive, Request, LoadFails, Commit, server, wires, local, beats, notes,
                bounds
  <2>2. QED
    BY <2>1 DEF KeptTypes
<1>2. CASE Expire(c)
  <2>1. /\ UNCHANGED <<link, beat, ended, revoked, abandons, active, gone, busy, lostAbandon,
                       missed, drops, timeouts>>
        /\ losses < MaxLosses /\ losses' = losses + 1
    BY <1>2 DEF Expire, local, beats, notes, bounds
  <2>2. QED
    BY <2>1 DEF KeptTypes
<1>3. CASE GiveUp(c) \/ Release(c)
  <2>1. UNCHANGED <<link, beat, gone, busy, lostAbandon, missed, drops, timeouts, losses>>
    BY <1>3 DEF GiveUp, Release, server, beats, notes, bounds
  <2>2. ended' \cup revoked' \cup abandons' \cup active' \subseteq Claim
    <3>1. CASE Revoke(c)
      BY <3>1, RevokeTypes
    <3>2. CASE UNCHANGED <<ended, revoked, abandons, active>>
      BY <3>2 DEF KeptTypes
    <3>3. QED
      BY <1>3, <3>1, <3>2 DEF GiveUp, Release
  <2>3. QED
    BY <2>1, <2>2 DEF KeptTypes
<1>4. CASE Return(c)
  <2>1. /\ UNCHANGED <<link, beat, ended, revoked, abandons, gone, busy, lostAbandon, missed,
                       drops, timeouts, losses>>
        /\ active' = active \/ active' = active \cup {c}
    BY <1>4 DEF Return, Activate, server, wires, beats, notes, bounds
  <2>2. QED
    BY <2>1 DEF KeptTypes
<1>5. CASE Tick(c) \/ ManualBeat(c)
  <2>1. /\ UNCHANGED <<link, ended, revoked, abandons, active, gone, lostAbandon, missed, drops,
                       losses>>
        /\ timeouts' = timeouts \/ (timeouts < MaxTimeouts /\ timeouts' = timeouts + 1)
        /\ SendHeartbeat(c, "loop") \/ SendHeartbeat(c, "caller")
    BY <1>5 DEF Tick, ManualBeat, server, local, notes, bounds
  <2>2. timeouts' \in 0..MaxTimeouts
    BY <2>1 DEF KeptTypes
  <2>3. /\ busy' \subseteq busy \cup {c}
        /\ beat' = [beat EXCEPT ![c] = "loop"] \/ beat' = [beat EXCEPT ![c] = "caller"]
    BY <2>1 DEF SendHeartbeat
  <2>4. beat' \in [Claim -> Beats]
    BY <2>3 DEF KeptTypes, Beats
  <2>5. QED
    BY <2>1, <2>2, <2>3, <2>4 DEF KeptTypes
<1>6. CASE AckTimeout(c)
  <2>1. /\ UNCHANGED <<link, ended, revoked, abandons, active, gone, lostAbandon, drops, losses>>
        /\ timeouts < MaxTimeouts /\ timeouts' = timeouts + 1
        /\ busy' = busy \ {c} /\ missed' = missed \cup {c}
        /\ beat' = [beat EXCEPT ![c] = "none"]
    BY <1>6 DEF AckTimeout, server, wires, local
  <2>2. beat' \in [Claim -> Beats] /\ timeouts' \in 0..MaxTimeouts
    BY <2>1 DEF KeptTypes, Beats
  <2>3. QED
    BY <2>1, <2>2 DEF KeptTypes
<1>7. CASE Receive(c)
  BY <1>7, ReceiveTypes
<1>8. CASE Connect(c)
  <2>1. /\ UNCHANGED <<ended, revoked, active, gone, busy, lostAbandon, missed, drops, timeouts,
                       losses>>
        /\ link' = [link EXCEPT ![c] = TRUE] /\ abandons' = abandons \ {c}
        /\ beat' = [beat EXCEPT ![c] = IF c \in own THEN "recheck" ELSE "none"]
    BY <1>8 DEF Connect, server, notes, bounds
  <2>2. beat' \in [Claim -> Beats] /\ link' \in [Claim -> BOOLEAN]
    BY <2>1 DEF KeptTypes, Beats
  <2>3. QED
    BY <2>1, <2>2 DEF KeptTypes
<1>9. CASE Disconnect(c) \/ Dispose(c)
  <2>1. /\ Severed(c) /\ UNCHANGED <<revoked, abandons, missed, timeouts, losses>>
        /\ drops' = drops \/ (drops < MaxDrops /\ drops' = drops + 1)
        /\ gone' \subseteq gone \cup {c}
        /\ ended' \subseteq ended \cup {c} /\ active' \subseteq active
    BY <1>9 DEF Disconnect, Dispose, EndLifetime, server, local, bounds
  <2>2. /\ busy' = busy \ {c} /\ lostAbandon' \subseteq lostAbandon \cup {c}
        /\ beat' = [beat EXCEPT ![c] = "none"] /\ link' = [link EXCEPT ![c] = FALSE]
    BY <2>1 DEF Severed
  <2>3. beat' \in [Claim -> Beats] /\ link' \in [Claim -> BOOLEAN] /\ drops' \in 0..MaxDrops
    BY <2>1, <2>2 DEF KeptTypes, Beats
  <2>4. QED
    BY <2>1, <2>2, <2>3 DEF KeptTypes
<1>10. QED
  BY <1>1, <1>2, <1>3, <1>4, <1>5, <1>6, <1>7, <1>8, <1>9

(* Every action keeps the server, the wires and the claims as they should  *)
(* be.                                                                     *)
LEMMA ActionGood ==
    ASSUME StreamInv, NEW c \in Claim,
           \/ ServerReceive(c) \/ Expire(c)
           \/ Request(c, TRUE) \/ Request(c, FALSE) \/ GiveUp(c)
           \/ Return(c) \/ LoadFails(c) \/ Commit(c) \/ Release(c)
           \/ Tick(c) \/ AckTimeout(c) \/ ManualBeat(c)
           \/ Receive(c) \/ Disconnect(c) \/ Connect(c) \/ Dispose(c)
    PROVE  ServerTypes' /\ ClaimsGood' /\ up' \in [Claim -> Seq(UpFrames)]
<1> DEFINE UpOK == up \in [Claim -> Seq(UpFrames)]
<1>0. ServerTypes /\ UpOK
  BY DEF StreamInv, TypeOK, ServerTypes
<1>1. CASE ServerReceive(c)
  BY <1>1, ServerReceiveServed DEF ServerGood, ClaimsGood
<1>2. CASE Expire(c) \/ Commit(c)
  <2>1. up' = up
    BY <1>2 DEF Expire, Commit
  <2>2. QED
    BY <1>0, <1>2, <2>1, ExpireServed, CommitServed DEF ServerGood, ClaimsGood
<1>3. CASE UNCHANGED <<holder, line, down>> /\ ClaimsGood' /\ UpOK'
  BY <1>0, <1>3 DEF ServerTypes
<1>4. CASE Request(c, TRUE) \/ Request(c, FALSE)
  BY <1>3, <1>4, RequestHere DEF Request, server
<1>5. CASE GiveUp(c)
  BY <1>3, <1>5, GiveUpHere DEF GiveUp, server, beats, notes
<1>6. CASE Return(c)
  <2>1. /\ call' = [call EXCEPT ![c] = "held"] /\ call[c] = "granted"
        /\ UNCHANGED <<holder, line, link, up, down, ended, revoked, abandons, beat, missed,
                       lostAbandon>>
    BY <1>6 DEF Return, server, wires, beats, notes
  <2>2. ClaimsGood'
    BY <2>1, CallerHere
  <2>3. QED
    BY <1>0, <1>3, <2>1, <2>2
<1>7. CASE LoadFails(c)
  <2>1. /\ call' = [call EXCEPT ![c] = "failed"] /\ call[c] = "granted"
        /\ UNCHANGED <<holder, line, link, up, down, ended, revoked, abandons, beat, missed,
                       lostAbandon>>
    BY <1>7 DEF LoadFails, server, wires, beats, notes
  <2>2. ClaimsGood'
    BY <2>1, CallerHere
  <2>3. QED
    BY <1>0, <1>3, <2>1, <2>2
<1>8. CASE Release(c)
  <2>1. /\ call' = [call EXCEPT ![c] = "released"] /\ call[c] # "idle"
        /\ UNCHANGED <<holder, line, link, down, beat, missed, lostAbandon>>
    BY <1>8 DEF Release, server, beats, notes
  <2>2. CASE c \in active
    BY <1>3, <1>8, <2>1, <2>2, GiveUpHere DEF Release
  <2>3. CASE c \notin active
    <3>1. UNCHANGED <<revoked, ended, up, abandons>>
      BY <1>8, <2>3 DEF Release
    <3>2. ClaimsGood'
      BY <2>1, <3>1, CallerHere
    <3>3. QED
      BY <1>0, <1>3, <2>1, <3>1, <3>2
  <2>4. QED
    BY <2>2, <2>3
<1>9. CASE Tick(c) \/ ManualBeat(c)
  <2>1. /\ UNCHANGED <<holder, line, link, down, call, ended, revoked, abandons, missed, lostAbandon>>
        /\ SendHeartbeat(c, "loop") \/ SendHeartbeat(c, "caller")
        /\ link[c] /\ (c \in running \/ call[c] = "held")
    BY <1>9 DEF Tick, ManualBeat, server, local, notes
  <2>2. call[c] # "idle"
    BY <2>1 DEF StreamInv, ClaimInv, IndexesAgree
  <2>3. QED
    BY <1>3, <2>1, <2>2, BeatHere
<1>10. CASE AckTimeout(c)
  BY <1>0, <1>3, <1>10, AckTimeoutHere DEF AckTimeout, server, wires
<1>11. CASE Receive(c)
  <2>1. /\ UNCHANGED <<holder, line>> /\ down' = [down EXCEPT ![c] = Tail(@)] /\ down[c] # <<>>
    BY <1>11 DEF Receive, server
  <2>2. ServerTypes'
    BY <1>0, <2>1, TailFacts DEF ServerTypes
  <2>3. QED
    BY <1>11, <2>2, ReceiveHere
<1>12. CASE Disconnect(c) \/ Dispose(c)
  <2>1. /\ Severed(c) /\ UNCHANGED <<holder, line, call, revoked, abandons, missed>>
        /\ ended' = ended \/ ended' = ended \cup {c}
    BY <1>12 DEF Disconnect, Dispose, EndLifetime, server, local
  <2>2. ServerTypes'
    BY <1>0, <2>1 DEF ServerTypes, Severed
  <2>3. QED
    BY <2>1, <2>2, SeveredHere
<1>13. CASE Connect(c)
  BY <1>3, <1>13, ConnectHere DEF Connect, server
<1>14. QED
  BY <1>1, <1>2, <1>4, <1>5, <1>6, <1>7, <1>8, <1>9, <1>10, <1>11, <1>12, <1>13

(* Every step of the specification keeps the invariant.                    *)
LEMMA StepKeepsStreamInv ==
    ASSUME StreamInv, [Next]_vars
    PROVE  StreamInv'
<1>1. ClaimInv'
  BY StepKeepsClaimInv DEF StreamInv
<1>2. CASE UNCHANGED vars
  <2>1. TypeOK'
    BY <1>2 DEF StreamInv, TypeOK, vars, server, wires, local, beats, notes, bounds
  <2>2. ClaimsGood'
    <3>1. UNCHANGED <<holder, line>> /\ \A d \in Claim : SameAt(d)
      BY <1>2 DEF SameAt, vars, server, wires, local, beats, notes
    <3>2. QED
      BY <3>1, NothingHere
  <2>3. QED
    BY <1>1, <2>1, <2>2 DEF StreamInv, ClaimsGood
<1>3. CASE Next
  <2>1. KeptTypes
    BY DEF StreamInv, TypeOK, KeptTypes, Beats
  <2>2. KeptTypes'
    BY <1>3, <2>1, ActionTypes DEF Next
  <2>3. ServerTypes' /\ ClaimsGood' /\ up' \in [Claim -> Seq(UpFrames)]
    BY <1>3, ActionGood DEF Next
  <2>4. call' \in [Claim -> Calls] /\ own' \subseteq Claim /\ running' \subseteq Looping
    BY <1>1 DEF ClaimInv, IndexesAgree
  <2>5. TypeOK'
    BY <2>2, <2>3, <2>4 DEF TypeOK, KeptTypes, ServerTypes, Beats
  <2>6. QED
    BY <1>1, <2>3, <2>5 DEF StreamInv, ClaimsGood
<1>4. QED
  BY <1>2, <1>3

(* It holds before the first claim.                                        *)
LEMMA InitStream == Init => StreamInv
<1> SUFFICES ASSUME Init PROVE StreamInv
  OBVIOUS
<1>1. TypeOK
  BY ClaimAssumption DEF Init, TypeOK, Calls
<1>2. ClaimInv
  BY DEF Init, ClaimInv, Calls, IndexesAgree, InUse, HandlesKnown
<1>3. LineOK
  BY NothingFollows DEF Init, LineOK, Distinct
<1>4. ASSUME NEW c \in Claim PROVE Claimed(c)
  <2>1. /\ up[c] = <<>> /\ down[c] = <<>> /\ call[c] = "idle" /\ c \notin abandons
        /\ c \notin revoked /\ holder = NoClaim /\ line = <<>> /\ NoClaim # c
    BY ClaimAssumption DEF Init
  <2>2. ~AtServer(c) /\ ~AbandonUnderWay(c)
    BY <2>1, NothingFollows DEF AtServer, AbandonUnderWay
  <2>3. BeginsFirst(up[c]) /\ Range(up[c]) = {}
    BY <2>1, NothingFollows
  <2>4. QED
    BY <2>1, <2>2, <2>3 DEF Claimed, GrantTold, LossTold, Live, Untouched, Dark, Asked, Revoking,
                            Released
<1>5. QED
  BY <1>1, <1>2, <1>3, <1>4 DEF StreamInv

(* The invariant holds for any set of claims and any number of losses,     *)
(* timeouts and dropped connections.                                       *)
THEOREM StreamInvariant == Spec => []StreamInv
<1>1. StreamInv /\ [Next]_vars => StreamInv'
  BY StepKeepsStreamInv
<1>2. QED
  BY <1>1, InitStream, PTL DEF Spec

(* The variables of the stream, of the model surface and of the server     *)
(* always have their types.                                                *)
THEOREM ClaimTypes == Spec => []TypeOK
<1>1. StreamInv => TypeOK
  BY DEF StreamInv
<1>2. QED
  BY <1>1, StreamInvariant, PTL

(* For any number of claims and connection losses: a handle in use has its *)
(* lease, or a loss or the answer to a pending heartbeat is on its way to  *)
(* it, or its socket is down, or a beat was given up (createClaimStream,   *)
(* takeClaim).                                                             *)
THEOREM LossIsNeverSilent == Spec => []NoSilentLoss
<1>1. StreamInv => NoSilentLoss
  BY DEF StreamInv, Claimed, LossTold, Alerted, NoSilentLoss, InUse
<1>2. QED
  BY <1>1, StreamInvariant, PTL

(* For any number of claims and connection losses: a revoked handle has no *)
(* lease and no place in line, or its abandon is on its way or kept in     *)
(* pendingAbandons, or was lost with its connection (sendAbandon).         *)
THEOREM RevokedClaimsAreReleased == Spec => []RevokedIsReleased
<1>1. StreamInv => RevokedIsReleased
  BY DEF StreamInv, TypeOK, Claimed, Released, RevokedIsReleased
<1>2. QED
  BY <1>1, StreamInvariant, PTL
=============================================================================
