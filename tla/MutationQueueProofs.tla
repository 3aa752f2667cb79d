------------------------ MODULE MutationQueueProofs ------------------------
(***************************************************************************)
(* The mutation queue implements the durability protocol, and what it      *)
(* tells callers, keeps for a crash and resends is right, for every number *)
(* of writes, keys, rows, faults and crashes.                              *)
(*                                                                         *)
(* Core says where a write, a key and a journal row can be.  It is proved  *)
(* inductive action by action, and each theorem below adds what it needs   *)
(* on top of it: Refines (the mapping to WriteDurability, step by step),   *)
(* PendingHeld, AnswersGood, Recovery, Sequenced and RowByRow.             *)
(***************************************************************************)
EXTENDS MutationQueue, TLAPS, FiniteSetTheorems, SequenceTheorems

(* The operations of a key, the keys whose envelope was stored, and the    *)
(* writes that got as far as a journal save.                               *)
Ops(k)     == ToSet(envelope[k].ops)
SealedKeys == {k \in DOMAIN envelope : envelope[k].sealed}
Live       == {t \in TxIds : t \in sources[t]}

(* Write ids are given out in order.                                       *)
Numbered == \E n \in 0..MaxTx : Issued = 1..n

(* A delete that takes the journal row of an earlier write of its row.     *)
Supersedes(d, x) ==
    tx[d].type = "delete" /\ tx[d].row = tx[x].row /\ x < d /\ x \in Issued

(* A write owns its own journal row, if any, and a delete those of the     *)
(* earlier updates of its row.                                             *)
SourcesGood ==
    /\ \A t \in TxIds : sources[t] # {} => t \in sources[t] /\ t \in Issued
    /\ \A t \in Issued : tx[t].type # "delete" => t \in sources[t]
    /\ \A t \in TxIds : \A x \in sources[t] : x # t => Supersedes(t, x)

(* A write that is past its save has had a journal row.                    *)
Homes ==
    /\ \A i, j \in DOMAIN saving : saving[i] = saving[j] => i = j
    /\ ToSet(saving) \subseteq Live \ saved
    /\ saved \subseteq Live
    /\ ToSet(staged) \cup ToSet(queue) \cup ToSet(batch) \cup parked \cup journal \subseteq saved
    /\ \A g \in backoff : ToSet(g) \subseteq saved

(* A key has operations; once sealed it has consumed at least their rows.  *)
Envelopes ==
    \A k \in DOMAIN envelope :
        /\ envelope[k].ops # <<>> /\ Ops(k) \subseteq Live
        /\ envelope[k].rows \subseteq saved \ journal
        /\ IF envelope[k].sealed THEN Ops(k) \subseteq envelope[k].rows
                                 ELSE envelope[k].rows = {}

(* Only sealed keys are stored, travel and wait in the lane, and the       *)
(* server's log is what its verdicts accept.                               *)
Ledger ==
    /\ outbox \cup wire \cup ToSet(lane) \cup laneWaits \subseteq SealedKeys
    /\ laneBusy => lane # <<>>
    /\ \A k \in laneWaits : verdict[k] = "queued"
    /\ \A k \in Keys : verdict[k] # "none" => k \in wire
    /\ \A k \in Keys : k \in ToSet(log) <=> verdict[k] \in Accepting

(* A write with a key is one of the key's operations.                      *)
Groups ==
    \A t \in TxIds : tx[t].env # 0 => tx[t].env \in DOMAIN envelope /\ t \in Ops(tx[t].env)

(* The batch is the group of its key, and is sealed when it leaves.        *)
BatchGood ==
    /\ \A t \in ToSet(batch) :
        /\ tx[t].env = Key
        /\ tx[t].status = "rolled_back"
           \/ tx[t].status = (IF phase = "preparing" THEN "pending" ELSE "executing")
    /\ batch # <<>> /\ Key # 0 => batch = envelope[Key].ops
    /\ phase \in {"sealing", "ready", "inflight"} =>
        Key # 0 /\ (envelope[Key].sealed <=> phase # "sealing")

Core == TypeOK /\ Numbered /\ SourcesGood /\ Homes /\ Envelopes /\ Ledger /\ Groups /\ BatchGood
-----------------------------------------------------------------------------
(* Sequences and the operators of ExecutionQueue.                          *)

(* The members of a sequence are its entries.                              *)
LEMMA ToSetIn ==
    ASSUME NEW A, NEW s \in Seq(A)
    PROVE  /\ ToSet(s) \subseteq A
           /\ \A x : x \in ToSet(s) <=> \E i \in 1..Len(s) : s[i] = x
           /\ \A x : Contains(s, x) <=> x \in ToSet(s)
           /\ \A i \in 1..Len(s) : s[i] \in ToSet(s) /\ s[i] \in A
BY DEF ToSet, Contains

(* Sequences are equal to the empty one exactly when they have no member.  *)
LEMMA ToSetEmpty ==
    ASSUME NEW A, NEW s \in Seq(A)
    PROVE  s = <<>> <=> ToSet(s) = {}
<1>1. ASSUME s = <<>> PROVE ToSet(s) = {}
  BY <1>1 DEF ToSet
<1>2. ASSUME s # <<>> PROVE ToSet(s) # {}
  <2>1. 1 \in 1..Len(s)
    BY <1>2, EmptySeq
  <2>2. QED
    BY <2>1, ToSetIn
<1>3. QED
  BY <1>1, <1>2

(* Appending adds one member.                                              *)
LEMMA ToSetAppend ==
    ASSUME NEW A, NEW s \in Seq(A), NEW a \in A
    PROVE  Append(s, a) \in Seq(A) /\ ToSet(Append(s, a)) = ToSet(s) \cup {a}
<1> DEFINE u == Append(s, a)
<1>1. /\ u \in Seq(A) /\ Len(u) = Len(s) + 1 /\ Len(s) \in Nat
      /\ (\A i \in 1..Len(s) : u[i] = s[i]) /\ u[Len(s) + 1] = a
  BY AppendProperties, LenProperties
<1> HIDE DEF u
<1>2. ASSUME NEW x \in ToSet(u) PROVE x \in ToSet(s) \cup {a}
  <2>1. PICK i \in 1..Len(u) : u[i] = x
    BY <1>1, ToSetIn
  <2>2. CASE i \in 1..Len(s)
    BY <2>1, <2>2, <1>1, ToSetIn
  <2>3. CASE i = Len(s) + 1
    BY <2>1, <2>3, <1>1
  <2>4. QED
    BY <2>1, <2>2, <2>3, <1>1
<1>3. ASSUME NEW x \in ToSet(s) PROVE x \in ToSet(u)
  <2>1. PICK i \in 1..Len(s) : s[i] = x
    BY ToSetIn
  <2>2. i \in 1..Len(u) /\ u[i] = x
    BY <2>1, <1>1
  <2>3. QED
    BY <2>2, <1>1, ToSetIn
<1>4. a \in ToSet(u)
  <2>1. Len(s) + 1 \in 1..Len(u)
    BY <1>1
  <2>2. QED
    BY <2>1, <1>1, ToSetIn
<1>5. QED
  BY <1>1, <1>2, <1>3, <1>4 DEF u

(* Concatenation joins the members.                                        *)
LEMMA ToSetConcat ==
    ASSUME NEW A, NEW s \in Seq(A), NEW t \in Seq(A)
    PROVE  s \o t \in Seq(A) /\ ToSet(s \o t) = ToSet(s) \cup ToSet(t)
<1> DEFINE u == s \o t
<1>1. /\ u \in Seq(A) /\ Len(u) = Len(s) + Len(t) /\ Len(s) \in Nat /\ Len(t) \in Nat
      /\ \A i \in 1..(Len(s) + Len(t)) : u[i] = IF i <= Len(s) THEN s[i] ELSE t[i - Len(s)]
  BY ConcatProperties, LenProperties
<1> HIDE DEF u
<1>2. ASSUME NEW x \in ToSet(u) PROVE x \in ToSet(s) \cup ToSet(t)
  <2>1. PICK i \in 1..Len(u) : u[i] = x
    BY <1>1, ToSetIn
  <2>2. CASE i <= Len(s)
    <3>1. i \in 1..Len(s) /\ s[i] = x
      BY <2>1, <2>2, <1>1
    <3>2. QED
      BY <3>1, ToSetIn
  <2>3. CASE ~(i <= Len(s))
    <3>1. i - Len(s) \in 1..Len(t) /\ t[i - Len(s)] = x
      BY <2>1, <2>3, <1>1
    <3>2. QED
      BY <3>1, ToSetIn
  <2>4. QED
    BY <2>2, <2>3
<1>3. ASSUME NEW x \in ToSet(s) PROVE x \in ToSet(u)
  <2>1. PICK i \in 1..Len(s) : s[i] = x
    BY ToSetIn
  <2>2. i \in 1..Len(u) /\ u[i] = x
    BY <2>1, <1>1
  <2>3. QED
    BY <2>2, <1>1, ToSetIn
<1>4. ASSUME NEW x \in ToSet(t) PROVE x \in ToSet(u)
  <2>1. PICK i \in 1..Len(t) : t[i] = x
    BY ToSetIn
  <2>2. i + Len(s) \in 1..Len(u) /\ ~(i + Len(s) <= Len(s)) /\ (i + Len(s)) - Len(s) = i
    BY <2>1, <1>1
  <2>3. u[i + Len(s)] = x
    BY <2>1, <2>2, <1>1
  <2>4. QED
    BY <2>2, <2>3, <1>1, ToSetIn
<1>5. QED
  BY <1>1, <1>2, <1>3, <1>4 DEF u

(* Reversing keeps the members.                                            *)
LEMMA ToSetReverse ==
    ASSUME NEW A, NEW s \in Seq(A)
    PROVE  Reverse(s) \in Seq(A) /\ ToSet(Reverse(s)) = ToSet(s)
<1> DEFINE u == Reverse(s)
<1>1. Len(s) \in Nat
  OBVIOUS
<1>2. u = [i \in 1..Len(s) |-> s[(Len(s) - i) + 1]]
  BY DEF Reverse
<1>3. \A i \in 1..Len(s) : (Len(s) - i) + 1 \in 1..Len(s) /\ (Len(s) - ((Len(s) - i) + 1)) + 1 = i
  BY <1>1
<1>4. u \in [1..Len(s) -> A]
  <2>1. \A i \in 1..Len(s) : s[(Len(s) - i) + 1] \in A
    BY <1>3, ToSetIn
  <2>2. QED
    BY <1>2, <2>1
<1>5. u \in Seq(A) /\ Len(u) = Len(s)
  BY <1>1, <1>4
<1>6. \A i \in 1..Len(s) : u[i] = s[(Len(s) - i) + 1] /\ s[i] = u[(Len(s) - i) + 1]
  BY <1>2, <1>3
<1> HIDE DEF u
<1>7. \A x : x \in ToSet(u) <=> x \in ToSet(s)
  <2>1. ASSUME NEW x \in ToSet(u) PROVE x \in ToSet(s)
    <3>1. PICK i \in 1..Len(s) : u[i] = x
      BY <1>5, ToSetIn
    <3>2. QED
      BY <3>1, <1>3, <1>6, ToSetIn
  <2>2. ASSUME NEW x \in ToSet(s) PROVE x \in ToSet(u)
    <3>1. PICK i \in 1..Len(s) : s[i] = x
      BY ToSetIn
    <3>2. PICK j \in 1..Len(u) : j = (Len(s) - i) + 1
      BY <1>3, <1>5
    <3>3. u[j] = x
      BY <3>1, <3>2, <1>6
    <3>4. QED
      BY <3>3, <1>5, ToSetIn
  <2>3. QED
    BY <2>1, <2>2
<1>8. QED
  BY <1>5, <1>7 DEF u

(* The members after the head, when no write is listed twice.              *)
LEMMA ToSetTail ==
    ASSUME NEW A, NEW s \in Seq(A), s # <<>>,
           \A i, j \in DOMAIN s : s[i] = s[j] => i = j
    PROVE  /\ Head(s) \in A /\ Head(s) \in ToSet(s) /\ Tail(s) \in Seq(A)
           /\ ToSet(Tail(s)) = ToSet(s) \ {Head(s)}
           /\ \A i, j \in DOMAIN Tail(s) : Tail(s)[i] = Tail(s)[j] => i = j
<1> DEFINE u == Tail(s)
<1>1. Len(s) \in Nat /\ Len(s) # 0 /\ DOMAIN s = 1..Len(s) /\ Head(s) = s[1] /\ Head(s) \in A
  BY EmptySeq, LenProperties, HeadTailProperties
<1>2. /\ u \in Seq(A) /\ Len(u) = Len(s) - 1 /\ DOMAIN u = 1..Len(u)
      /\ \A i \in 1..Len(u) : u[i] = s[i + 1]
  BY HeadTailProperties, LenProperties
<1> HIDE DEF u
<1>3. ASSUME NEW x \in ToSet(u) PROVE x \in ToSet(s) \ {Head(s)}
  <2>1. PICK i \in 1..Len(u) : u[i] = x
    BY <1>2, ToSetIn
  <2>2. i + 1 \in 1..Len(s) /\ s[i + 1] = x /\ i + 1 # 1 /\ 1 \in 1..Len(s)
    BY <2>1, <1>1, <1>2
  <2>3. QED
    BY <2>2, <1>1, ToSetIn
<1>4. ASSUME NEW x \in ToSet(s), x # Head(s) PROVE x \in ToSet(u)
  <2>1. PICK i \in 1..Len(s) : s[i] = x
    BY ToSetIn
  <2>2. i # 1
    BY <2>1, <1>1, <1>4
  <2>3. i - 1 \in 1..Len(u) /\ (i - 1) + 1 = i
    BY <2>2, <1>1, <1>2
  <2>4. u[i - 1] = x
    BY <2>1, <2>3, <1>2
  <2>5. QED
    BY <2>3, <2>4, <1>2, ToSetIn
<1>5. ASSUME NEW i \in DOMAIN u, NEW j \in DOMAIN u, u[i] = u[j] PROVE i = j
  <2>1. i + 1 \in 1..Len(s) /\ j + 1 \in 1..Len(s) /\ s[i + 1] = s[j + 1]
    BY <1>5, <1>1, <1>2
  <2>2. i + 1 = j + 1
    BY <2>1, <1>1
  <2>3. QED
    BY <2>2, <1>2
<1>6. Head(s) \in ToSet(s)
  BY <1>1, ToSetIn
<1>7. QED
  BY <1>1, <1>2, <1>3, <1>4, <1>5, <1>6 DEF u

Increasing(s) == \A i, j \in 1..Len(s) : i < j => s[i] < s[j]

(* InOrder lists a set of positions in increasing order, each of them      *)
(* once.                                                                   *)
LEMMA InOrderFacts ==
    ASSUME NEW n \in Nat, NEW S \in SUBSET (1..n)
    PROVE  InOrder(S) \in Seq(S) /\ ToSet(InOrder(S)) = S /\ Increasing(InOrder(S))
<1> DEFINE Low(i) == {j \in S : j <= i}
           N == Cardinality(S)
           rank == [i \in S |-> Cardinality(Low(i))]
           o == InOrder(S)
<1>0. \A i \in S : i \in Int
  OBVIOUS
<1>1. IsFiniteSet(S) /\ N \in Nat
  <2>1. IsFiniteSet(1..n)
    BY FS_Interval
  <2>2. IsFiniteSet(S)
    BY <2>1, FS_Subset
  <2>3. QED
    BY <2>2, FS_CardinalityType
<1>2. \A i \in S : /\ IsFiniteSet(Low(i)) /\ Cardinality(Low(i)) \in Nat
                   /\ Cardinality(Low(i)) <= N /\ Cardinality(Low(i)) # 0
  <2>1. ASSUME NEW i \in S
        PROVE  /\ IsFiniteSet(Low(i)) /\ Cardinality(Low(i)) \in Nat
               /\ Cardinality(Low(i)) <= N /\ Cardinality(Low(i)) # 0
    <3>1. Low(i) \in SUBSET S /\ i \in Low(i)
      OBVIOUS
    <3>2. IsFiniteSet(Low(i)) /\ Cardinality(Low(i)) <= N
      BY <3>1, <1>1, FS_Subset
    <3>3. Cardinality(Low(i)) \in Nat
      BY <3>2, FS_CardinalityType
    <3>4. Cardinality(Low(i)) # 0
      BY <3>1, <3>2, FS_EmptySet
    <3>5. QED
      BY <3>2, <3>3, <3>4
  <2>2. QED
    BY <2>1
<1>3. rank \in [S -> 1..N] /\ \A i \in S : rank[i] = Cardinality(Low(i))
  BY <1>1, <1>2
<1>4. \A i, j \in S : i < j => rank[i] < rank[j]
  <2>1. SUFFICES ASSUME NEW i \in S, NEW j \in S, i < j
                 PROVE  Cardinality(Low(i)) < Cardinality(Low(j))
    BY <1>3
  <2>2. Low(i) \in SUBSET Low(j) /\ j \in Low(j) /\ j \notin Low(i)
    <3>1. i \in Int /\ j \in Int
      BY <1>0
    <3>2. \A x \in Int : x <= i => x <= j
      BY <3>1, <2>1
    <3>3. j <= j /\ ~(j <= i)
      BY <3>1, <2>1
    <3>4. QED
      BY <1>0, <3>2, <3>3
  <2>3. Cardinality(Low(i)) <= Cardinality(Low(j)) /\ Cardinality(Low(i)) # Cardinality(Low(j))
    BY <2>2, <1>2, FS_Subset
  <2>4. QED
    BY <2>3, <1>2
<1> HIDE DEF rank, Low
<1>5. \A i, j \in S : rank[i] = rank[j] => i = j
  BY <1>3, <1>4
<1>6. rank \in Surjection(S, 1..N)
  <2>1. rank \in Injection(S, 1..N)
    BY <1>3, <1>5 DEF Injection, IsInjective
  <2>2. IsFiniteSet(1..N) /\ Cardinality(1..N) = N
    BY <1>1, FS_Interval
  <2>3. QED
    BY <2>1, <2>2, <1>1, FS_Injection
<1>7. \A k \in 1..N : \E i \in S : rank[i] = k
  BY <1>6 DEF Surjection
<1>8. o = [k \in 1..N |-> CHOOSE i \in S : Cardinality(Low(i)) = k]
  BY DEF InOrder, Low
<1>9. \A k \in 1..N : o[k] \in S /\ rank[o[k]] = k
  <2>1. SUFFICES ASSUME NEW k \in 1..N PROVE o[k] \in S /\ rank[o[k]] = k
    OBVIOUS
  <2>2. o[k] = CHOOSE i \in S : Cardinality(Low(i)) = k
    BY <1>8
  <2>3. \E i \in S : Cardinality(Low(i)) = k
    BY <1>3, <1>7
  <2>4. o[k] \in S /\ Cardinality(Low(o[k])) = k
    BY <2>2, <2>3
  <2>5. QED
    BY <2>4, <1>3
<1> HIDE DEF o
<1>10. o \in Seq(S) /\ Len(o) = N
  <2>1. o \in [1..N -> S]
    BY <1>8, <1>9
  <2>2. QED
    BY <2>1, <1>1
<1>11. \A i, j \in 1..N : i < j => o[i] < o[j]
  <2>1. SUFFICES ASSUME NEW i \in 1..N, NEW j \in 1..N, i < j, ~(o[i] < o[j]) PROVE FALSE
    OBVIOUS
  <2>2. o[i] \in S /\ o[j] \in S /\ rank[o[i]] = i /\ rank[o[j]] = j
    BY <1>9
  <2>a. o[i] \in Int /\ o[j] \in Int
    BY <2>2, <1>0
  <2>3. o[j] < o[i] \/ o[j] = o[i]
    BY <2>1, <2>a
  <2>4. CASE o[j] < o[i]
    <3>1. j < i
      BY <2>2, <2>4, <1>4
    <3>2. QED
      BY <3>1, <2>1, <1>1
  <2>5. CASE o[j] = o[i]
    BY <2>1, <2>2, <2>5, <1>1
  <2>6. QED
    BY <2>3, <2>4, <2>5
<1>12. Increasing(o)
  BY <1>10, <1>11 DEF Increasing
<1>13. \A x \in S : x \in ToSet(o)
  <2>1. SUFFICES ASSUME NEW x \in S PROVE \E i \in 1..Len(o) : o[i] = x
    BY <1>10, ToSetIn
  <2>2. rank[x] \in 1..N /\ o[rank[x]] = x
    BY <1>3, <1>5, <1>9
  <2>3. QED
    BY <2>2, <1>10
<1>14. ToSet(o) = S
  BY <1>10, <1>13, ToSetIn
<1>15. QED
  BY <1>10, <1>12, <1>14 DEF o

(* Filtering keeps the chosen members of a sequence.                       *)
LEMMA KeepFacts ==
    ASSUME NEW A, NEW s \in Seq(A), NEW S
    PROVE  Keep(s, S) \in Seq(A) /\ ToSet(Keep(s, S)) = ToSet(s) \cap S
<1> DEFINE I == {i \in DOMAIN s : s[i] \in S}
           o == InOrder(I)
           u == Keep(s, S)
<1>1. Len(s) \in Nat /\ DOMAIN s = 1..Len(s) /\ I \in SUBSET (1..Len(s))
  BY LenProperties
<1>2. o \in Seq(I) /\ ToSet(o) = I
  BY <1>1, InOrderFacts
<1>3. u = [k \in DOMAIN o |-> s[o[k]]]
  BY DEF Keep
<1>4. DOMAIN o = 1..Len(o) /\ Len(o) \in Nat /\ \A k \in 1..Len(o) : o[k] \in I
  BY <1>2, LenProperties
<1>5. \A i \in I : i \in 1..Len(s) /\ s[i] \in S /\ s[i] \in A /\ s[i] \in ToSet(s)
  BY <1>1, ToSetIn
<1> HIDE DEF o
<1>6. u \in Seq(A) /\ Len(u) = Len(o) /\ \A k \in 1..Len(o) : u[k] = s[o[k]]
  <2>1. u \in [1..Len(o) -> A]
    BY <1>3, <1>4, <1>5
  <2>2. QED
    BY <2>1, <1>3, <1>4
<1> HIDE DEF u
<1>7. ASSUME NEW x \in ToSet(u) PROVE x \in ToSet(s) \cap S
  <2>1. PICK k \in 1..Len(o) : u[k] = x
    BY <1>6, ToSetIn
  <2>2. QED
    BY <2>1, <1>4, <1>5, <1>6
<1>8. ASSUME NEW x \in ToSet(s) \cap S PROVE x \in ToSet(u)
  <2>1. PICK i \in 1..Len(s) : s[i] = x
    BY ToSetIn
  <2>2. i \in ToSet(o)
    BY <2>1, <1>1, <1>2
  <2>3. PICK k \in 1..Len(o) : o[k] = i
    BY <2>2, <1>2, ToSetIn
  <2>4. QED
    BY <2>1, <2>3, <1>6, ToSetIn
<1>9. QED
  BY <1>6, <1>7, <1>8 DEF u

(* Filtering with every member chosen changes nothing.                     *)
LEMMA KeepAll ==
    ASSUME NEW A, NEW s \in Seq(A), NEW S, ToSet(s) \subseteq S
    PROVE  Keep(s, S) = s
<1> DEFINE n == Len(s)
           I == {i \in DOMAIN s : s[i] \in S}
           o == InOrder(I)
<1>1. n \in Nat /\ DOMAIN s = 1..n
  BY LenProperties
<1>2. I = 1..n
  <2>1. \A i \in 1..n : s[i] \in S
    BY ToSetIn
  <2>2. QED
    BY <1>1, <2>1
<1>3. Cardinality(1..n) = n
  <2>1. Cardinality(1..n) = IF 1 > n THEN 0 ELSE n - 1 + 1
    BY <1>1, FS_Interval
  <2>2. QED
    BY <1>1, <2>1
<1>4. \A i \in 1..n : Cardinality({j \in 1..n : j <= i}) = i
  <2>1. SUFFICES ASSUME NEW i \in 1..n PROVE Cardinality({j \in 1..n : j <= i}) = i
    OBVIOUS
  <2>2. {j \in 1..n : j <= i} = 1..i
    BY <1>1
  <2>3. Cardinality(1..i) = i
    <3>1. i \in Int /\ ~(1 > i) /\ i - 1 + 1 = i
      BY <1>1
    <3>2. Cardinality(1..i) = IF 1 > i THEN 0 ELSE i - 1 + 1
      BY <3>1, FS_Interval
    <3>3. QED
      BY <3>1, <3>2
  <2>4. QED
    BY <2>2, <2>3
<1>5. o = [k \in 1..n |-> k]
  <2>1. o = [k \in 1..n |-> CHOOSE i \in 1..n : Cardinality({j \in 1..n : j <= i}) = k]
    <3>1. InOrder(1..n) = [k \in 1..Cardinality(1..n) |->
                              CHOOSE i \in 1..n : Cardinality({j \in 1..n : j <= i}) = k]
      BY DEF InOrder
    <3>2. o = InOrder(1..n)
      BY <1>2
    <3>3. QED
      BY <1>3, <3>1, <3>2
  <2>2. ASSUME NEW k \in 1..n
        PROVE  (CHOOSE i \in 1..n : Cardinality({j \in 1..n : j <= i}) = k) = k
    <3> DEFINE Q(i) == Cardinality({j \in 1..n : j <= i}) = k
    <3>1. \A i \in 1..n : Q(i) <=> i = k
      BY <1>4
    <3> HIDE DEF Q
    <3>2. (CHOOSE i \in 1..n : Q(i)) = k
      BY <3>1
    <3>3. QED
      BY <3>2 DEF Q
  <2>3. QED
    BY <2>1, <2>2
<1>6. Keep(s, S) = [k \in DOMAIN o |-> s[o[k]]]
  BY DEF Keep
<1>7. Keep(s, S) = [k \in 1..n |-> s[k]]
  BY <1>5, <1>6
<1>8. s = [k \in 1..n |-> s[k]]
  BY <1>1, LenProperties
<1>9. QED
  BY <1>7, <1>8

PendingIn(T, t) == T[t].status = "pending"

(* enqueueTransaction, for several writes: each pending one is queued.     *)
LEMMA EnqueueAllFacts ==
    ASSUME NEW A, NEW q \in Seq(A), NEW ts \in Seq(A), NEW T
    PROVE  /\ EnqueueAll(q, ts, T) \in Seq(A)
           /\ \A x : x \in ToSet(EnqueueAll(q, ts, T))
                     <=> x \in ToSet(q) \/ (x \in ToSet(ts) /\ PendingIn(T, x))
<1> DEFINE new  == Admitted(q, ts, T)
           high == {t \in new : T[t].high}
           a    == Reverse(Keep(ts, high))
           b    == Keep(ts, new \ high)
<1>1. a \in Seq(A) /\ ToSet(a) = ToSet(ts) \cap high
  BY KeepFacts, ToSetReverse
<1>2. b \in Seq(A) /\ ToSet(b) = ToSet(ts) \cap (new \ high)
  BY KeepFacts
<1>3. new = {t \in ToSet(ts) : PendingIn(T, t)} \ ToSet(q)
  BY ToSetIn DEF Admitted, PendingIn
<1>4. high \subseteq new
  OBVIOUS
<1>5. EnqueueAll(q, ts, T) = (a \o q) \o b
  BY Zenon DEF EnqueueAll
<1> HIDE DEF new, high, a, b
<1> DEFINE aq == a \o q
<1>6. aq \in Seq(A) /\ ToSet(aq) = ToSet(a) \cup ToSet(q)
  BY <1>1, ToSetConcat
<1> HIDE DEF aq
<1>7. aq \o b \in Seq(A) /\ ToSet(aq \o b) = ToSet(aq) \cup ToSet(b)
  BY <1>2, <1>6, ToSetConcat
<1>8. QED
  BY <1>1, <1>2, <1>3, <1>4, <1>5, <1>6, <1>7 DEF aq

(* Sorting and filtering the queue lists its pending writes.               *)
LEMMA PendingFacts ==
    ASSUME NEW T, NEW q \in Seq(DOMAIN T)
    PROVE  LET p == Pending(SortByPriority(q, T), T)
           IN  p \in Seq(DOMAIN T) /\ ToSet(p) = {t \in ToSet(q) : T[t].status = "pending"}
<1> DEFINE P(n) == {t \in DOMAIN T : PriorityScore(t, T) = n}
           sorted == SortByPriority(q, T)
           p == Pending(sorted, T)
<1> HIDE DEF P
<1>1. \A n : Keep(q, P(n)) \in Seq(DOMAIN T) /\ ToSet(Keep(q, P(n))) = ToSet(q) \cap P(n)
  BY KeepFacts
<1>2. \A t : PriorityScore(t, T) \in {1, 2, 3}
  BY DEF PriorityScore
<1>3. ToSet(q) \subseteq DOMAIN T
  BY ToSetIn
<1>4. ToSet(q) = (ToSet(q) \cap P(1)) \cup (ToSet(q) \cap P(2)) \cup (ToSet(q) \cap P(3))
  BY <1>2, <1>3 DEF P
<1>5. sorted = (Keep(q, P(1)) \o Keep(q, P(2))) \o Keep(q, P(3))
  BY Zenon DEF SortByPriority, P
<1> DEFINE creates == Keep(q, P(1)) \o Keep(q, P(2))
<1>6. creates \in Seq(DOMAIN T) /\ ToSet(creates) = (ToSet(q) \cap P(1)) \cup (ToSet(q) \cap P(2))
  BY <1>1, ToSetConcat
<1>a. sorted = creates \o Keep(q, P(3))
  BY <1>5
<1> HIDE DEF creates, sorted
<1>b. sorted \in Seq(DOMAIN T) /\ ToSet(sorted) = ToSet(creates) \cup ToSet(Keep(q, P(3)))
  BY <1>a, <1>1, <1>6, ToSetConcat
<1>7. sorted \in Seq(DOMAIN T) /\ ToSet(sorted) = ToSet(q)
  BY <1>1, <1>4, <1>6, <1>b
<1> HIDE DEF sorted
<1>8. p \in Seq(DOMAIN T) /\ ToSet(p) = ToSet(sorted) \cap {t \in DOMAIN T : T[t].status = "pending"}
  BY <1>7, KeepFacts DEF Pending
<1> HIDE DEF p
<1>9. p \in Seq(DOMAIN T) /\ ToSet(p) = {t \in ToSet(q) : T[t].status = "pending"}
  BY <1>3, <1>7, <1>8
<1>10. QED
  BY <1>9 DEF p, sorted

(* The size of the member set of a sequence is at most its length.         *)
LEMMA ToSetFinite ==
    ASSUME NEW A, NEW s \in Seq(A)
    PROVE  IsFiniteSet(ToSet(s)) /\ Cardinality(ToSet(s)) \in Nat /\ Cardinality(ToSet(s)) <= Len(s)
<1>1. Len(s) \in Nat /\ s \in [1..Len(s) -> ToSet(s)]
  BY LenProperties, ToSetIn
<1>2. s \in Surjection(1..Len(s), ToSet(s))
  BY <1>1, ToSetIn DEF Surjection
<1>3. IsFiniteSet(1..Len(s)) /\ Cardinality(1..Len(s)) = Len(s)
  BY <1>1, FS_Interval
<1>4. IsFiniteSet(ToSet(s)) /\ Cardinality(ToSet(s)) <= Len(s)
  BY <1>2, <1>3, FS_Surjection
<1>5. QED
  BY <1>4, FS_CardinalityType

-----------------------------------------------------------------------------
(* The parts of the type invariant.                                        *)
TxType == [type : {"none", "create", "update", "archive", "delete"},
           row : Rows \cup {"none"}, opt : Opts \cup {"plain"},
           high : BOOLEAN, status : Statuses, attempts : Nat, env : Keys \cup {0},
           conf : {"none", "open", "resolved", "cancelled", "rejected", "lost"}]

Envelope == [ops : Seq(TxIds), rows : SUBSET TxIds, sealed : BOOLEAN]

StoreTyped ==
    tx \in [TxIds -> TxType] /\ sources \in [TxIds -> SUBSET TxIds]

PlacesTyped ==
    /\ saving \in Seq(TxIds) /\ staged \in Seq(TxIds) /\ queue \in Seq(TxIds)
    /\ batch \in Seq(TxIds) /\ \A g \in backoff : g \in Seq(TxIds)
    /\ ToSet(saving) \subseteq Issued /\ ToSet(staged) \subseteq Issued
    /\ ToSet(queue) \subseteq Issued /\ ToSet(batch) \subseteq Issued
    /\ \A g \in backoff : ToSet(g) \subseteq Issued
    /\ parked \subseteq Issued

ControlTyped ==
    /\ scheduled \in BOOLEAN /\ blocked \in BOOLEAN /\ laneBusy \in BOOLEAN
    /\ phase \in {"idle", "preparing", "sealing", "ready", "inflight"}
    /\ phase = "idle" <=> batch = <<>>

StorageTyped ==
    /\ journal \subseteq Issued /\ saved \subseteq Issued /\ purging \subseteq Issued
    /\ envelope \in Seq(Envelope) /\ Len(envelope) <= MaxKeys
    /\ lane \in Seq(Keys) /\ log \in Seq(Keys)
    /\ ToSet(lane) \subseteq DOMAIN envelope /\ ToSet(log) \subseteq DOMAIN envelope
    /\ laneWaits \subseteq DOMAIN envelope /\ outbox \subseteq DOMAIN envelope
    /\ wire \subseteq DOMAIN envelope
    /\ verdict \in [Keys -> Replies \cup {"none"}]

BoundsTyped == faults \in 0..MaxFaults /\ crashes \in 0..MaxCrashes

(* They make up the type invariant.                                        *)
LEMMA TypeParts ==
    TypeOK <=> /\ StoreTyped /\ PlacesTyped /\ ControlTyped /\ StorageTyped /\ BoundsTyped
<1>1. (\A s \in {saving, staged, queue, batch} \cup backoff :
            s \in Seq(TxIds) /\ ToSet(s) \subseteq Issued)
      <=> /\ saving \in Seq(TxIds) /\ staged \in Seq(TxIds) /\ queue \in Seq(TxIds)
          /\ batch \in Seq(TxIds) /\ \A g \in backoff : g \in Seq(TxIds)
          /\ ToSet(saving) \subseteq Issued /\ ToSet(staged) \subseteq Issued
          /\ ToSet(queue) \subseteq Issued /\ ToSet(batch) \subseteq Issued
          /\ \A g \in backoff : ToSet(g) \subseteq Issued
  OBVIOUS
<1>2. parked \cup journal \cup saved \cup purging \subseteq Issued
      <=> parked \subseteq Issued /\ journal \subseteq Issued /\ saved \subseteq Issued /\ purging \subseteq Issued
  OBVIOUS
<1>3. ToSet(lane) \cup laneWaits \cup outbox \cup wire \cup ToSet(log) \subseteq DOMAIN envelope
      <=> /\ ToSet(lane) \subseteq DOMAIN envelope /\ ToSet(log) \subseteq DOMAIN envelope
          /\ laneWaits \subseteq DOMAIN envelope /\ outbox \subseteq DOMAIN envelope
          /\ wire \subseteq DOMAIN envelope
  OBVIOUS
<1>4. QED
  BY <1>1, <1>2, <1>3, Zenon DEF TypeOK, StoreTyped, PlacesTyped, ControlTyped, StorageTyped,
     BoundsTyped, TxType, Envelope

(* The same in the next state.                                             *)
LEMMA TypePartsNext ==
    TypeOK' <=> /\ StoreTyped' /\ PlacesTyped' /\ ControlTyped' /\ StorageTyped' /\ BoundsTyped'
BY TypeParts, PTL

(* Envelopes are numbered by their keys.                                   *)
LEMMA EnvelopeIn ==
    ASSUME StorageTyped
    PROVE  /\ Len(envelope) \in Nat /\ DOMAIN envelope = 1..Len(envelope)
           /\ DOMAIN envelope \subseteq Keys /\ 0 \notin Keys /\ Keys \subseteq Nat
           /\ \A k \in DOMAIN envelope :
                 /\ k \in Nat /\ k # 0 /\ envelope[k] \in Envelope
                 /\ envelope[k].ops \in Seq(TxIds) /\ envelope[k].rows \in SUBSET TxIds
                 /\ envelope[k].sealed \in BOOLEAN
                 /\ Ops(k) \subseteq TxIds
<1>1. MaxKeys \in Nat
  BY QueueAssumption
<1>2. Len(envelope) \in Nat /\ DOMAIN envelope = 1..Len(envelope) /\ DOMAIN envelope \subseteq Keys
  BY <1>1, LenProperties DEF StorageTyped, Keys
<1>3. 0 \notin Keys /\ Keys \subseteq Nat
  BY <1>1 DEF Keys
<1>4. ASSUME NEW k \in DOMAIN envelope
      PROVE  /\ k \in Nat /\ k # 0 /\ envelope[k] \in Envelope
             /\ envelope[k].ops \in Seq(TxIds) /\ envelope[k].rows \in SUBSET TxIds
             /\ envelope[k].sealed \in BOOLEAN
             /\ Ops(k) \subseteq TxIds
  <2>1. k \in Nat /\ k # 0
    BY <1>2
  <2>2. envelope[k] \in Envelope
    BY <1>2, LenProperties DEF StorageTyped
  <2>3. envelope[k].ops \in Seq(TxIds) /\ envelope[k].rows \in SUBSET TxIds /\ envelope[k].sealed \in BOOLEAN
    BY <2>2 DEF Envelope
  <2>4. QED
    BY <2>1, <2>2, <2>3, ToSetIn DEF Ops
<1>5. QED
  BY <1>2, <1>3, <1>4

(* takeNextExecutionBatch: what is selected and what stays is what was     *)
(* pending, and the batch has no key yet or is the whole group of one key, *)
(* in the order of its envelope.                                           *)
LEMMA SelectionFacts ==
    ASSUME TypeOK, Groups, NEW p \in Seq(TxIds), NEW f, f = Fresh(p, tx),
           NEW b, b = TakeNextBatch(p, f, tx, envelope)
    PROVE  /\ b \in Seq(TxIds) /\ Remaining(p, tx, b) \in Seq(TxIds)
           /\ ToSet(b) \subseteq ToSet(p)
           /\ ToSet(Remaining(p, tx, b)) = ToSet(p) \ ToSet(b)
           /\ \/ CompleteRetries(p, tx, envelope) = {} /\ \A t \in ToSet(b) : tx[t].env = 0
              \/ \E k \in DOMAIN envelope :
                    k # 0 /\ b = envelope[k].ops /\ \A t \in ToSet(b) : tx[t].env = k
<1>0. /\ DOMAIN tx = TxIds
      /\ \A k \in DOMAIN envelope : k \in Nat \ {0} /\ envelope[k].ops \in Seq(TxIds)
  BY TypeParts, EnvelopeIn DEF StoreTyped
<1>1. ASSUME b \in Seq(TxIds)
      PROVE  /\ Remaining(p, tx, b) \in Seq(TxIds)
             /\ ToSet(Remaining(p, tx, b)) = ToSet(p) \ ToSet(b)
  <2>1. Remaining(p, tx, b) = Keep(p, TxIds \ ToSet(b))
    BY <1>0 DEF Remaining
  <2>2. ToSet(p) \subseteq TxIds
    BY ToSetIn
  <2>3. QED
    BY <2>1, <2>2, KeepFacts
<1>2. CASE CompleteRetries(p, tx, envelope) = {}
  <2> DEFINE chosen == {f[i] : i \in Selected(f, tx)}
             free == {t \in DOMAIN tx : tx[t].env = 0 /\ tx[t].row \notin SealedRows(p, tx)}
  <2>1. b = Keep(f, chosen)
    BY <1>2 DEF TakeNextBatch
  <2>2. f = Keep(p, free)
    BY DEF Fresh
  <2>3. \A t \in free : tx[t].env = 0
    OBVIOUS
  <2> HIDE DEF chosen, free
  <2>4. f \in Seq(TxIds) /\ ToSet(f) = ToSet(p) \cap free
    BY <2>2, KeepFacts
  <2>5. b \in Seq(TxIds) /\ ToSet(b) = ToSet(f) \cap chosen
    BY <2>1, <2>4, KeepFacts
  <2>6. QED
    BY <2>3, <2>4, <2>5, <1>1, <1>2
<1>3. CASE CompleteRetries(p, tx, envelope) # {}
  <2> DEFINE complete == CompleteRetries(p, tx, envelope)
             c == Keep(p, {t \in DOMAIN tx : tx[t].env \in complete})
             k == tx[c[1]].env
             G == {t \in ToSet(p) : tx[t].env = k}
  <2>1. b = Keep(envelope[k].ops, G)
    BY <1>3, Zenon DEF TakeNextBatch, FirstRetry
  <2>2. \A l \in complete : /\ l # 0 /\ \E t \in ToSet(p) : tx[t].env = l
                            /\ Cardinality({t \in ToSet(p) : tx[t].env = l}) = Len(envelope[l].ops)
    BY DEF CompleteRetries
  <2>3. ToSet(p) \subseteq DOMAIN tx
    BY <1>0, ToSetIn
  <2>4. c \in Seq(TxIds) /\ ToSet(c) = ToSet(p) \cap {t \in DOMAIN tx : tx[t].env \in complete}
    BY KeepFacts
  <2>5. ToSet(c) # {}
    BY <1>3, <2>2, <2>3, <2>4
  <2> HIDE DEF c, complete
  <2>6. c[1] \in ToSet(c)
    <3>1. c # <<>>
      BY <2>4, <2>5, ToSetEmpty
    <3>2. 1 \in 1..Len(c)
      BY <2>4, <3>1, EmptySeq
    <3>3. QED
      BY <2>4, <3>2, ToSetIn
  <2>7. k \in complete
    BY <2>4, <2>6
  <2> HIDE DEF k
  <2>8. PICK u \in ToSet(p) : tx[u].env = k
    BY <2>2, <2>7
  <2>9. k # 0 /\ k \in DOMAIN envelope
    BY <2>2, <2>3, <2>7, <2>8, <1>0 DEF Groups
  <2>10. G \in SUBSET Ops(k)
    BY <2>3, <2>9, <1>0 DEF Groups
  <2>11. envelope[k].ops \in Seq(TxIds)
    BY <1>0, <2>9
  <2>12. G = Ops(k)
    <3>1. /\ IsFiniteSet(Ops(k)) /\ Cardinality(Ops(k)) \in Nat
          /\ Cardinality(Ops(k)) <= Len(envelope[k].ops)
      BY <2>11, ToSetFinite DEF Ops
    <3>2. Cardinality(G) = Len(envelope[k].ops)
      BY <2>2, <2>7
    <3> HIDE DEF G
    <3>3. Cardinality(G) <= Cardinality(Ops(k)) /\ (Cardinality(Ops(k)) = Cardinality(G) => Ops(k) = G)
      BY <2>10, <3>1, FS_Subset
    <3>4. Len(envelope[k].ops) \in Nat
      BY <2>11
    <3>5. QED
      BY <3>1, <3>2, <3>3, <3>4
  <2>13. b = envelope[k].ops
    BY <2>1, <2>11, <2>12, KeepAll DEF Ops
  <2>14. ToSet(b) = G
    BY <2>12, <2>13 DEF Ops
  <2>15. QED
    BY <2>9, <2>11, <2>13, <2>14, <1>1
<1>4. QED
  BY <1>2, <1>3

-----------------------------------------------------------------------------
(* What the operations do to the mutation store.                           *)

(* MutationStore.updateStatus changes nothing but the status.              *)
LEMMA WithStatusFacts ==
    ASSUME NEW T \in [TxIds -> TxType], NEW S, NEW s \in Statuses
    PROVE  /\ WithStatus(T, S, s) \in [TxIds -> TxType]
           /\ \A t \in TxIds :
                WithStatus(T, S, s)[t] = IF t \in S THEN [T[t] EXCEPT !.status = s] ELSE T[t]
<1>1. \A t \in TxIds : [T[t] EXCEPT !.status = s] \in TxType
  BY DEF TxType
<1>2. QED
  BY <1>1 DEF WithStatus

(* Answering a caller changes nothing but the state of its promise.        *)
LEMMA AnsweredFacts ==
    ASSUME NEW T \in [TxIds -> TxType], NEW S, NEW a \in {"resolved", "cancelled", "rejected"}
    PROVE  /\ Answered(T, S, a) \in [TxIds -> TxType]
           /\ \A t \in TxIds :
                Answered(T, S, a)[t] = IF t \in S /\ T[t].conf = "open"
                                       THEN [T[t] EXCEPT !.conf = a] ELSE T[t]
<1>1. \A t \in TxIds : [T[t] EXCEPT !.conf = a] \in TxType
  BY DEF TxType
<1>2. QED
  BY <1>1 DEF Answered

(* The fields of a write after its status and its answer are set.          *)
SettledAs(old, new, s, c) ==
    /\ new.type = old.type /\ new.row = old.row /\ new.opt = old.opt
    /\ new.high = old.high /\ new.env = old.env
    /\ new.status = s /\ new.conf = c

StatusAfter(t, done, lost, again, wait) ==
    IF t \in lost THEN "failed"
    ELSE IF t \in done THEN "completed"
    ELSE IF t \in wait THEN "awaiting_delta"
    ELSE IF t \in again THEN "pending"
    ELSE tx[t].status

ConfAfter(t, done, lost) ==
    IF tx[t].conf # "open" THEN tx[t].conf
    ELSE IF t \in done THEN "resolved"
    ELSE IF t \in lost THEN "rejected"
    ELSE "open"

(* Settlement, write by write.                                             *)
LEMMA SettleStore ==
    ASSUME StoreTyped, NEW done, NEW lost, NEW again, NEW wait, Settle(done, lost, again, wait)
    PROVE  /\ tx' \in [TxIds -> TxType]
           /\ \A t \in TxIds :
                SettledAs(tx[t], tx'[t], StatusAfter(t, done, lost, again, wait), ConfAfter(t, done, lost))
<1> DEFINE U == [t \in TxIds |-> IF t \in lost \cup again
                                 THEN [tx[t] EXCEPT !.attempts = @ + 1] ELSE tx[t]]
           V == WithStatus(U, again, "pending")
           W == WithStatus(V, wait, "awaiting_delta")
           C == WithStatus(W, done, "completed")
           D == Answered(C, done, "resolved")
           E == WithStatus(D, lost, "failed")
           F == Answered(E, lost, "rejected")
<1>1. tx' = F
  BY DEF Settle, Failed, Completed
<1>2. {"pending", "awaiting_delta", "completed", "failed"} \subseteq Statuses
  BY DEF Statuses
<1>3. tx \in [TxIds -> TxType]
  BY DEF StoreTyped
<1>4. /\ U \in [TxIds -> TxType]
      /\ \A t \in TxIds : SettledAs(tx[t], U[t], tx[t].status, tx[t].conf)
  <2>1. ASSUME NEW t \in TxIds
        PROVE  /\ [tx[t] EXCEPT !.attempts = @ + 1] \in TxType
               /\ SettledAs(tx[t], [tx[t] EXCEPT !.attempts = @ + 1], tx[t].status, tx[t].conf)
               /\ SettledAs(tx[t], tx[t], tx[t].status, tx[t].conf)
    BY <1>3 DEF TxType, SettledAs
  <2>2. QED
    BY <1>3, <2>1
<1> HIDE DEF U
<1>5. /\ V \in [TxIds -> TxType]
      /\ \A t \in TxIds : V[t] = IF t \in again THEN [U[t] EXCEPT !.status = "pending"] ELSE U[t]
  BY <1>2, <1>4, WithStatusFacts
<1> HIDE DEF V
<1>6. /\ W \in [TxIds -> TxType]
      /\ \A t \in TxIds : W[t] = IF t \in wait THEN [V[t] EXCEPT !.status = "awaiting_delta"] ELSE V[t]
  BY <1>2, <1>5, WithStatusFacts
<1> HIDE DEF W
<1>7. /\ C \in [TxIds -> TxType]
      /\ \A t \in TxIds : C[t] = IF t \in done THEN [W[t] EXCEPT !.status = "completed"] ELSE W[t]
  BY <1>2, <1>6, WithStatusFacts
<1> HIDE DEF C
<1>8. /\ D \in [TxIds -> TxType]
      /\ \A t \in TxIds : D[t] = IF t \in done /\ C[t].conf = "open"
                                 THEN [C[t] EXCEPT !.conf = "resolved"] ELSE C[t]
  BY <1>7, AnsweredFacts
<1> HIDE DEF D
<1>9. /\ E \in [TxIds -> TxType]
      /\ \A t \in TxIds : E[t] = IF t \in lost THEN [D[t] EXCEPT !.status = "failed"] ELSE D[t]
  BY <1>2, <1>8, WithStatusFacts
<1> HIDE DEF E
<1>10. /\ F \in [TxIds -> TxType]
       /\ \A t \in TxIds : F[t] = IF t \in lost /\ E[t].conf = "open"
                                  THEN [E[t] EXCEPT !.conf = "rejected"] ELSE E[t]
  BY <1>9, AnsweredFacts
<1> HIDE DEF F
<1>11. ASSUME NEW t \in TxIds
       PROVE  SettledAs(tx[t], F[t], StatusAfter(t, done, lost, again, wait), ConfAfter(t, done, lost))
  <2> DEFINE w1 == IF t \in wait THEN "awaiting_delta"
                   ELSE IF t \in again THEN "pending" ELSE tx[t].status
             d1 == IF t \in done THEN "completed" ELSE w1
             c1 == IF t \in done /\ tx[t].conf = "open" THEN "resolved" ELSE tx[t].conf
  <2>1. SettledAs(tx[t], V[t], IF t \in again THEN "pending" ELSE tx[t].status, tx[t].conf)
    BY <1>4, <1>5 DEF SettledAs, TxType
  <2>2. SettledAs(tx[t], W[t], w1, tx[t].conf)
    BY <2>1, <1>5, <1>6 DEF SettledAs, TxType
  <2>3. SettledAs(tx[t], C[t], d1, tx[t].conf)
    BY <2>2, <1>6, <1>7 DEF SettledAs, TxType
  <2>4. SettledAs(tx[t], D[t], d1, c1)
    BY <2>3, <1>7, <1>8 DEF SettledAs, TxType
  <2>5. SettledAs(tx[t], E[t], IF t \in lost THEN "failed" ELSE d1, c1)
    BY <2>4, <1>8, <1>9 DEF SettledAs, TxType
  <2>6. SettledAs(tx[t], F[t], IF t \in lost THEN "failed" ELSE d1,
                  IF t \in lost /\ c1 = "open" THEN "rejected" ELSE c1)
    BY <2>5, <1>9, <1>10 DEF SettledAs, TxType
  <2>7. (IF t \in lost THEN "failed" ELSE d1) = StatusAfter(t, done, lost, again, wait)
    BY DEF StatusAfter
  <2>8. (IF t \in lost /\ c1 = "open" THEN "rejected" ELSE c1) = ConfAfter(t, done, lost)
    BY DEF ConfAfter
  <2>9. QED
    BY <2>6, <2>7, <2>8
<1>12. QED
  BY <1>1, <1>10, <1>11

(* Parked deletes that are released enter the queue.                       *)
LEMMA ReleaseFacts ==
    ASSUME PlacesTyped, NEW S, NEW T
    PROVE  LET q == EnqueueAll(queue, InOrder(ReleasedBy(S)), T)
           IN  /\ q \in Seq(TxIds)
               /\ \A x : x \in ToSet(q)
                         <=> x \in ToSet(queue) \/ (x \in ReleasedBy(S) /\ PendingIn(T, x))
               /\ ReleasedBy(S) \subseteq parked
<1> DEFINE R == ReleasedBy(S)
<1>1. R \subseteq parked /\ R \in SUBSET TxIds
  BY DEF ReleasedBy, PlacesTyped, Issued
<1> HIDE DEF R
<1>2. MaxTx \in Nat /\ TxIds = 1..MaxTx
  BY QueueAssumption DEF TxIds
<1>3. InOrder(R) \in Seq(R) /\ ToSet(InOrder(R)) = R
  BY <1>1, <1>2, InOrderFacts
<1>4. InOrder(R) \in Seq(TxIds)
  BY <1>1, <1>3, SeqMonotonic
<1>5. queue \in Seq(TxIds)
  BY DEF PlacesTyped
<1> DEFINE ts == InOrder(R)
<1> HIDE DEF ts
<1>6. ts \in Seq(TxIds) /\ ToSet(ts) = R
  BY <1>3, <1>4 DEF ts
<1>7. /\ EnqueueAll(queue, ts, T) \in Seq(TxIds)
      /\ \A x : x \in ToSet(EnqueueAll(queue, ts, T))
                <=> x \in ToSet(queue) \/ (x \in ToSet(ts) /\ PendingIn(T, x))
  BY <1>5, <1>6, EnqueueAllFacts
<1>8. QED
  BY <1>1, <1>6, <1>7 DEF R, ts

-----------------------------------------------------------------------------
(* Steps that issue no write and mint or forget no key.                    *)

WriteKept(t) ==
    /\ tx'[t].status = "none" <=> tx[t].status = "none"
    /\ tx[t].status # "none" => tx'[t].type = tx[t].type /\ tx'[t].row = tx[t].row

StoreKept ==
    /\ tx' \in [TxIds -> TxType]
    /\ \A t \in TxIds : WriteKept(t) /\ tx'[t].env = tx[t].env

(* Such a step issues nothing.                                             *)
LEMMA KeptIssued ==
    ASSUME \A t \in TxIds : WriteKept(t)
    PROVE  Issued' = Issued
BY DEF WriteKept, Issued

(* The rows a write owns stay as they were.                                *)
LEMMA KeptSources ==
    ASSUME SourcesGood, sources \in [TxIds -> SUBSET TxIds], sources' = sources,
           \A t \in TxIds : WriteKept(t)
    PROVE  SourcesGood' /\ Live' = Live
<1>1. Issued' = Issued
  BY KeptIssued
<1>2. Live' = Live
  BY DEF Live
<1>a. \A t \in Issued : tx'[t].type = tx[t].type /\ tx'[t].row = tx[t].row
  BY DEF WriteKept, Issued
<1>3. \A t \in Issued : \A x : Supersedes(t, x) => Supersedes(t, x)'
  BY <1>1, <1>a DEF Supersedes
<1>4. Issued \subseteq TxIds /\ \A t \in TxIds : sources[t] \subseteq TxIds
  BY DEF Issued
<1>5. \A t \in TxIds : sources'[t] # {} => t \in sources'[t] /\ t \in Issued'
  BY <1>1 DEF SourcesGood
<1>6. \A t \in Issued' : tx'[t].type # "delete" => t \in sources'[t]
  BY <1>1, <1>4, <1>a DEF SourcesGood
<1>7. \A t \in TxIds : \A x \in sources'[t] : x # t => Supersedes(t, x)'
  BY <1>3, <1>4 DEF SourcesGood
<1>8. QED
  BY <1>2, <1>5, <1>6, <1>7 DEF SourcesGood

(* A batch that stays, with no member moved but to rolled_back.            *)
LEMMA KeptBatch ==
    ASSUME TypeOK, BatchGood, batch' = batch, phase' = phase, envelope' = envelope,
           \A t \in ToSet(batch) : /\ tx'[t].env = tx[t].env
                                   /\ tx'[t].status \in {tx[t].status, "rolled_back"}
    PROVE  BatchGood'
<1>1. CASE batch = <<>>
  <2>1. ToSet(batch') = {} /\ phase' = "idle"
    BY <1>1, TypeParts DEF ToSet, ControlTyped
  <2>2. QED
    BY <1>1, <2>1 DEF BatchGood
<1>2. CASE batch # <<>>
  <2>1. batch[1] \in ToSet(batch)
    BY <1>2, TypeParts, EmptySeq, ToSetIn DEF PlacesTyped
  <2>2. Key' = Key
    BY <2>1 DEF Key
  <2>3. QED
    BY <2>2 DEF BatchGood
<1>3. QED
  BY <1>1, <1>2

(* No batch is being processed.                                            *)
LEMMA NoBatch ==
    ASSUME batch' = <<>>, phase' = "idle"
    PROVE  BatchGood' /\ ToSet(batch') = {}
<1>1. ToSet(batch') = {}
  BY DEF ToSet
<1>2. QED
  BY <1>1 DEF BatchGood

(* Queues, timers, batches and lanes may change, as long as no place holds *)
(* a write that had no journal row.                                        *)
QuietStep ==
    /\ StoreKept /\ sources' = sources /\ saving' = saving /\ saved' = saved
    /\ journal' \subseteq journal /\ purging' \subseteq Issued
    /\ envelope' = envelope /\ wire' = wire /\ verdict' = verdict /\ log' = log
    /\ outbox' \subseteq outbox
    /\ lane' \in Seq(Keys) /\ ToSet(lane') \subseteq ToSet(lane) /\ (laneBusy' => lane' # <<>>)
    /\ \A k \in laneWaits' \ laneWaits : k \in ToSet(lane) /\ verdict[k] = "queued"
    /\ staged' \in Seq(TxIds) /\ queue' \in Seq(TxIds) /\ batch' \in Seq(TxIds)
    /\ ToSet(staged') \subseteq saved /\ ToSet(queue') \subseteq saved
    /\ ToSet(batch') \subseteq saved /\ parked' \subseteq saved
    /\ \A g \in backoff' : g \in Seq(TxIds) /\ ToSet(g) \subseteq saved

(* Such a step keeps the core of the invariant.                            *)
LEMMA QuietCore ==
    ASSUME Core, QuietStep, ControlTyped', BoundsTyped', BatchGood'
    PROVE  Core' /\ Issued' = Issued /\ Live' = Live
<1>0. StoreTyped /\ PlacesTyped /\ ControlTyped /\ StorageTyped /\ BoundsTyped
  BY TypeParts DEF Core
<1>1. \A t \in TxIds : WriteKept(t)
  BY DEF QuietStep, StoreKept
<1>2. Issued' = Issued
  BY <1>1, KeptIssued
<1>3. SourcesGood' /\ Live' = Live
  BY <1>0, <1>1, KeptSources DEF Core, QuietStep, StoreTyped
<1>4. Numbered'
  BY <1>2 DEF Core, Numbered
<1>5. StoreTyped'
  BY <1>0 DEF QuietStep, StoreKept, StoreTyped
<1>6. saved \subseteq Issued
  BY <1>0 DEF StorageTyped
<1>7. PlacesTyped'
  BY <1>0, <1>2, <1>6 DEF QuietStep, PlacesTyped
<1>8. \A k \in laneWaits' : k \in SealedKeys /\ verdict[k] = "queued"
  BY DEF QuietStep, Core, Ledger
<1>9. SealedKeys \subseteq DOMAIN envelope /\ SealedKeys' = SealedKeys
  BY DEF SealedKeys, QuietStep
<1>10. StorageTyped'
  BY <1>0, <1>2, <1>6, <1>8, <1>9 DEF QuietStep, StorageTyped
<1>11. TypeOK'
  BY <1>5, <1>7, <1>10, TypePartsNext
<1>12. Homes'
  <2>1. /\ \A i, j \in DOMAIN saving' : saving'[i] = saving'[j] => i = j
        /\ ToSet(saving') \subseteq Live' \ saved' /\ saved' \subseteq Live'
    BY <1>3 DEF Core, Homes, QuietStep
  <2>2. journal' \subseteq saved
    BY DEF Core, Homes, QuietStep
  <2>3. QED
    BY <2>1, <2>2 DEF Homes, QuietStep
<1>13. Envelopes'
  BY <1>3 DEF Core, Envelopes, Ops, QuietStep
<1>14. Ledger'
  BY <1>8, <1>9 DEF Core, Ledger, QuietStep
<1>15. Groups'
  BY DEF Core, Groups, Ops, QuietStep, StoreKept
<1>16. QED
  BY <1>2, <1>3, <1>4, <1>11, <1>12, <1>13, <1>14, <1>15 DEF Core

(* A sequence of one write.                                                *)
LEMMA SingletonSeq ==
    ASSUME NEW A, NEW a \in A
    PROVE  <<a>> \in Seq(A) /\ ToSet(<<a>>) = {a}
BY DEF ToSet

(* Settlement is a quiet step.                                             *)
LEMMA SettleQuiet ==
    ASSUME Core, NEW done, NEW lost, NEW again, NEW wait, Settle(done, lost, again, wait),
           done \subseteq Issued, lost \subseteq Issued, again \subseteq saved, wait \subseteq Issued,
           journal' = journal, saved' = saved, envelope' = envelope, UNCHANGED server,
           UNCHANGED laneVars, outbox' \subseteq outbox, batch' \in {batch, <<>>}
    PROVE  /\ QuietStep
           /\ \A t \in TxIds :
                SettledAs(tx[t], tx'[t], StatusAfter(t, done, lost, again, wait), ConfAfter(t, done, lost))
           /\ \A x : x \in ToSet(queue')
                     <=> \/ x \in ToSet(queue)
                         \/ x \in ReleasedBy(done \cup lost) /\ PendingIn(tx', x)
<1>0. StoreTyped /\ PlacesTyped /\ ControlTyped /\ StorageTyped /\ BoundsTyped
  BY TypeParts DEF Core
<1>1. /\ tx' \in [TxIds -> TxType]
      /\ \A t \in TxIds :
           SettledAs(tx[t], tx'[t], StatusAfter(t, done, lost, again, wait), ConfAfter(t, done, lost))
  BY <1>0, SettleStore
<1>2. StoreKept
  <2>1. \A t \in TxIds : t \notin Issued <=> tx[t].status = "none"
    BY DEF Issued
  <2>2. again \subseteq Issued
    BY <1>0 DEF StorageTyped
  <2>3. \A t \in TxIds : StatusAfter(t, done, lost, again, wait) = "none" <=> tx[t].status = "none"
    BY <2>1, <2>2 DEF StatusAfter
  <2>4. QED
    BY <1>1, <2>3 DEF StoreKept, WriteKept, SettledAs
<1>3. /\ queue' \in Seq(TxIds) /\ ReleasedBy(done \cup lost) \subseteq parked
      /\ \A x : x \in ToSet(queue')
                <=> \/ x \in ToSet(queue)
                    \/ x \in ReleasedBy(done \cup lost) /\ PendingIn(tx', x)
  <2>1. queue' = EnqueueAll(queue, InOrder(ReleasedBy(done \cup lost)), tx')
    BY Zenon DEF Settle
  <2>2. QED
    BY <1>0, <2>1, ReleaseFacts
<1>4. purging' \subseteq Issued
  <2>1. purging' = purging \cup Purged(done \cup lost)
    BY Zenon DEF Settle
  <2>2. Purged(done \cup lost) \subseteq journal \cup ToSet(saving)
    BY DEF Purged
  <2>3. QED
    BY <2>1, <2>2, <1>0 DEF StorageTyped, PlacesTyped
<1>5. \A g \in backoff' : g \in Seq(TxIds) /\ ToSet(g) \subseteq saved
  <2>1. backoff' = backoff \cup {<<t>> : t \in again}
    BY Zenon DEF Settle
  <2>2. again \subseteq TxIds
    BY <1>0 DEF StorageTyped, Issued
  <2>3. \A t \in again : <<t>> \in Seq(TxIds) /\ ToSet(<<t>>) \subseteq saved
    BY <2>2, SingletonSeq
  <2>4. \A g \in backoff : g \in Seq(TxIds) /\ ToSet(g) \subseteq saved
    BY <1>0 DEF PlacesTyped, Core, Homes
  <2>5. QED
    BY <2>1, <2>3, <2>4
<1>6. sources' = sources /\ saving' = saving /\ staged' = staged /\ parked' \subseteq parked
  BY Zenon DEF Settle
<1>7. /\ ToSet(staged) \subseteq saved /\ ToSet(queue) \subseteq saved /\ ToSet(batch) \subseteq saved
      /\ parked \subseteq saved
  BY DEF Core, Homes
<1>8. ToSet(<<>>) = {} /\ <<>> \in Seq(TxIds)
  BY DEF ToSet
<1>9. batch' \in Seq(TxIds) /\ ToSet(batch') \subseteq saved
  BY <1>0, <1>7, <1>8 DEF PlacesTyped
<1>10. ToSet(queue') \subseteq saved
  BY <1>3, <1>7
<1>a. laneBusy => lane # <<>>
  BY DEF Core, Ledger
<1>11. QuietStep
  BY <1>0, <1>2, <1>3, <1>4, <1>5, <1>6, <1>7, <1>9, <1>10, <1>a
     DEF QuietStep, PlacesTyped, StorageTyped, server, laneVars
<1>12. QED
  BY <1>1, <1>3, <1>11

(* The end of a batch: the lane is idle.                                   *)
SettlesBatch(done, lost, again, wait) ==
    /\ Settle(done, lost, again, wait) /\ BatchDone
    /\ done \subseteq ToSet(batch) /\ lost \subseteq ToSet(batch)
    /\ again \subseteq ToSet(batch) /\ wait \subseteq ToSet(batch)
    /\ phase # "idle" /\ Failing \subseteq done \cup lost \cup again \cup wait
    /\ journal' = journal /\ saved' = saved /\ envelope' = envelope /\ UNCHANGED server
    /\ UNCHANGED laneVars /\ outbox' \subseteq outbox
    /\ blocked' \in BOOLEAN /\ crashes' = crashes /\ faults' \in 0..MaxFaults

(* It keeps the core of the invariant.                                     *)
LEMMA SettlesBatchCore ==
    ASSUME Core, NEW done, NEW lost, NEW again, NEW wait, SettlesBatch(done, lost, again, wait)
    PROVE  /\ Core' /\ QuietStep /\ Issued' = Issued
           /\ \A t \in TxIds :
                SettledAs(tx[t], tx'[t], StatusAfter(t, done, lost, again, wait), ConfAfter(t, done, lost))
           /\ \A x : x \in ToSet(queue')
                     <=> \/ x \in ToSet(queue)
                         \/ x \in ReleasedBy(done \cup lost) /\ PendingIn(tx', x)
           /\ ToSet(batch') = {}
<1>0. StoreTyped /\ PlacesTyped /\ ControlTyped /\ StorageTyped /\ BoundsTyped
  BY TypeParts DEF Core
<1>1. ToSet(batch) \subseteq saved /\ ToSet(batch) \subseteq Issued
  BY <1>0 DEF Core, Homes, PlacesTyped
<1>2. batch' = <<>> /\ phase' = "idle" /\ scheduled' = TRUE
  BY DEF SettlesBatch, BatchDone
<1>3. /\ QuietStep
      /\ \A t \in TxIds :
           SettledAs(tx[t], tx'[t], StatusAfter(t, done, lost, again, wait), ConfAfter(t, done, lost))
      /\ \A x : x \in ToSet(queue')
                <=> \/ x \in ToSet(queue)
                    \/ x \in ReleasedBy(done \cup lost) /\ PendingIn(tx', x)
  <2>1. /\ Settle(done, lost, again, wait) /\ batch' \in {batch, <<>>}
        /\ done \subseteq Issued /\ lost \subseteq Issued /\ again \subseteq saved /\ wait \subseteq Issued
    BY <1>1, <1>2 DEF SettlesBatch
  <2>2. /\ journal' = journal /\ saved' = saved /\ envelope' = envelope /\ UNCHANGED server
        /\ UNCHANGED laneVars /\ outbox' \subseteq outbox
    BY DEF SettlesBatch
  <2>3. QED
    BY <2>1, <2>2, SettleQuiet
<1>4. ControlTyped' /\ BoundsTyped'
  BY <1>0, <1>2 DEF ControlTyped, BoundsTyped, SettlesBatch, laneVars
<1>5. BatchGood' /\ ToSet(batch') = {}
  BY <1>2, NoBatch
<1>6. QED
  BY <1>3, <1>4, <1>5, QuietCore

(* What a batch that ends knows from its receipt: which writes complete or *)
(* wait for a delta, and whether the envelope may go: never with a retry.  *)
ReceiptGood(done, again, wait) ==
    /\ \/ outbox' = outbox
       \/ /\ outbox' = outbox \ {Key} /\ again = {}
          /\ phase = "inflight" /\ verdict[Key] # "none"
    /\ \/ done = {} /\ wait = {}
       \/ /\ phase = "inflight" /\ verdict[Key] \in Accepting
          /\ \A t \in done \cup wait : tx[t].row \notin MissingRows
       \/ phase = "inflight" /\ verdict[Key] = "norows" /\ wait = {}

BatchEnds ==
    \/ SealConflict \/ Expire \/ AckConfirmed \/ AckAwaiting \/ AckRejected \/ AckNoRows
    \/ \E expired \in BOOLEAN : SealTransient(expired) \/ AckTransient(expired)

(* Every handler that ends a batch after its key was minted settles it.    *)
LEMMA BatchEndsSettle ==
    ASSUME TypeOK, BatchEnds
    PROVE  \E done, lost, again, wait : SettlesBatch(done, lost, again, wait) /\ ReceiptGood(done, again, wait)
<1>0. ControlTyped /\ BoundsTyped
  BY TypeParts
<1>1. MaxFaults \in Nat
  BY QueueAssumption
<1>2. \A kind : Fault(kind) => faults' \in 0..MaxFaults
  BY <1>0, <1>1 DEF Fault, BoundsTyped
<1>3. Failing \subseteq ToSet(batch) /\ \A e : Retrying(e) \subseteq Failing
  BY DEF Failing, Retrying
<1>4. faults \in 0..MaxFaults /\ blocked \in BOOLEAN
  BY <1>0 DEF BoundsTyped, ControlTyped
<1> USE DEF server, bounds, laneVars
<1>5. CASE SealConflict
  <2>1. SettlesBatch({}, Failing, {}, {}) /\ ReceiptGood({}, {}, {})
    BY <1>3, <1>4, <1>5 DEF SealConflict, SettlesBatch, ReceiptGood
  <2>2. QED
    BY <2>1
<1>6. CASE Expire
  <2>1. SettlesBatch({}, Failing, {}, {}) /\ ReceiptGood({}, {}, {})
    BY <1>2, <1>3, <1>4, <1>6 DEF Expire, SettlesBatch, ReceiptGood
  <2>2. QED
    BY <2>1
<1>7. CASE AckConfirmed
  <2>1. /\ Settling \subseteq ToSet(batch) /\ Lost \subseteq ToSet(batch)
        /\ Failing \subseteq Settling \cup Lost /\ \A t \in Settling : tx[t].row \notin MissingRows
    BY <1>3 DEF Settling, Lost, MissingIn
  <2>2. SettlesBatch(Settling, Lost, {}, {})
    BY <2>1, <1>4, <1>7 DEF AckConfirmed, SettlesBatch, Removed
  <2>3. ReceiptGood(Settling, {}, {})
    BY <2>1, <1>7 DEF AckConfirmed, ReceiptGood, Removed, Accepting
  <2>4. QED
    BY <2>2, <2>3
<1>8. CASE AckAwaiting
  <2> DEFINE done == IF verdict[Key] = "zero" THEN {t \in Settling : tx[t].type = "delete"} ELSE {}
             wait == Settling \ done
  <2>1. /\ done \subseteq Settling /\ wait \subseteq Settling /\ Settling = done \cup wait
        /\ Settling \subseteq ToSet(batch) /\ Lost \subseteq ToSet(batch)
        /\ Failing \subseteq Settling \cup Lost /\ \A t \in Settling : tx[t].row \notin MissingRows
    BY <1>3 DEF Settling, Lost, MissingIn
  <2>2. /\ Settle(done, Lost, {}, wait) /\ BatchDone /\ phase = "inflight"
        /\ verdict[Key] \in {"zero", "queued"} /\ outbox' \in {outbox, outbox \ {Key}}
        /\ UNCHANGED <<blocked, laneVars, journal, saved, envelope, server, bounds>>
    BY <1>8, Zenon DEF AckAwaiting, Removed
  <2> HIDE DEF done, wait
  <2>3. SettlesBatch(done, Lost, {}, wait)
    BY <2>1, <2>2, <1>4 DEF SettlesBatch
  <2>4. ReceiptGood(done, {}, wait)
    BY <2>1, <2>2 DEF ReceiptGood, Accepting
  <2>5. QED
    BY <2>3, <2>4
<1>9. CASE AckRejected
  <2>1. SettlesBatch({}, Failing, {}, {}) /\ ReceiptGood({}, {}, {})
    BY <1>3, <1>4, <1>9 DEF AckRejected, SettlesBatch, ReceiptGood, Removed
  <2>2. QED
    BY <2>1
<1>10. CASE AckNoRows
  <2> DEFINE done == {t \in ToSet(batch) : tx[t].type \in {"update", "delete"}}
  <2>1. SettlesBatch(done, Failing \ done, {}, {}) /\ ReceiptGood(done, {}, {})
    BY <1>3, <1>4, <1>10 DEF AckNoRows, SettlesBatch, ReceiptGood, Removed
  <2>2. QED
    BY <2>1
<1>11. ASSUME NEW e \in BOOLEAN, SealTransient(e)
       PROVE  \E done, lost, again, wait : SettlesBatch(done, lost, again, wait) /\ ReceiptGood(done, again, wait)
  <2>1. SettlesBatch({}, Failing \ Retrying(e), Retrying(e), {}) /\ ReceiptGood({}, Retrying(e), {})
    BY <1>2, <1>3, <1>4, <1>11 DEF SealTransient, SettlesBatch, ReceiptGood
  <2>2. QED
    BY <2>1
<1>12. ASSUME NEW e \in BOOLEAN, AckTransient(e)
       PROVE  \E done, lost, again, wait : SettlesBatch(done, lost, again, wait) /\ ReceiptGood(done, again, wait)
  <2>1. SettlesBatch({}, Failing \ Retrying(e), Retrying(e), {}) /\ ReceiptGood({}, Retrying(e), {})
    BY <1>2, <1>3, <1>4, <1>12 DEF AckTransient, SettlesBatch, ReceiptGood
  <2>2. QED
    BY <2>1
<1>13. QED
  BY <1>5, <1>6, <1>7, <1>8, <1>9, <1>10, <1>11, <1>12 DEF BatchEnds

(* Confirmations outside a batch.                                          *)
ConfirmStep ==
    DeltaReceived \/ \E k \in Keys : SourceConfirmed(k)

Confirms(S) ==
    /\ S \subseteq Awaiting /\ Settle(S, {}, {}, {})
    /\ scheduled' = (scheduled \/ queue' # queue)
    /\ UNCHANGED <<runner, laneVars, journal, saved, envelope, server, bounds>>
    /\ \/ outbox' = outbox
       \/ \E k \in Keys : outbox' = outbox \ {k} /\ verdict[k] = "queued"

(* They complete writes that wait for a delta.                             *)
LEMMA ConfirmSettles ==
    ASSUME ConfirmStep
    PROVE  \E S : Confirms(S)
<1>1. CASE DeltaReceived
  <2>1. Confirms({t \in Awaiting : ~Correlated(t)})
    BY <1>1 DEF DeltaReceived, Confirm, Confirms
  <2>2. QED
    BY <2>1
<1>2. ASSUME NEW k \in Keys, SourceConfirmed(k) PROVE \E S : Confirms(S)
  <2> DEFINE S == {t \in Awaiting : Correlated(t) /\ tx[t].env = k}
  <2>1. /\ S # {} /\ Settle(S, {}, {}, {}) /\ scheduled' = (scheduled \/ queue' # queue)
        /\ UNCHANGED <<runner, laneVars, journal, saved, envelope, server, bounds>>
        /\ outbox' \in {outbox, outbox \ {k}}
    BY <1>2 DEF SourceConfirmed, Confirm, Removed
  <2>2. verdict[k] = "queued"
    BY <2>1 DEF Correlated
  <2>3. Confirms(S)
    BY <2>1, <2>2 DEF Confirms
  <2>4. QED
    BY <2>3
<1>3. QED
  BY <1>1, <1>2 DEF ConfirmStep

(* They keep the core of the invariant.                                    *)
LEMMA ConfirmCore ==
    ASSUME Core, NEW S, Confirms(S)
    PROVE  /\ Core' /\ QuietStep /\ Issued' = Issued
           /\ \A t \in TxIds :
                SettledAs(tx[t], tx'[t], StatusAfter(t, S, {}, {}, {}), ConfAfter(t, S, {}))
           /\ \A x : x \in ToSet(queue')
                     <=> \/ x \in ToSet(queue)
                         \/ x \in ReleasedBy(S \cup {}) /\ PendingIn(tx', x)
           /\ batch' = batch
<1>0. StoreTyped /\ PlacesTyped /\ ControlTyped /\ StorageTyped /\ BoundsTyped
  BY TypeParts DEF Core
<1>1. /\ Settle(S, {}, {}, {}) /\ batch' \in {batch, <<>>} /\ S \subseteq Issued
      /\ journal' = journal /\ saved' = saved /\ envelope' = envelope /\ UNCHANGED server
      /\ UNCHANGED laneVars /\ outbox' \subseteq outbox
  BY DEF Confirms, runner, Awaiting
<1>2. /\ QuietStep
      /\ \A t \in TxIds :
           SettledAs(tx[t], tx'[t], StatusAfter(t, S, {}, {}, {}), ConfAfter(t, S, {}))
      /\ \A x : x \in ToSet(queue')
                <=> \/ x \in ToSet(queue)
                    \/ x \in ReleasedBy(S \cup {}) /\ PendingIn(tx', x)
  <2>1. PICK E : E = {}
    OBVIOUS
  <2>2. /\ Settle(S, E, E, E) /\ E \subseteq Issued /\ E \subseteq saved
    BY <1>1, <2>1
  <2>3. /\ QuietStep
        /\ \A t \in TxIds :
             SettledAs(tx[t], tx'[t], StatusAfter(t, S, E, E, E), ConfAfter(t, S, E))
        /\ \A x : x \in ToSet(queue')
                  <=> \/ x \in ToSet(queue)
                      \/ x \in ReleasedBy(S \cup E) /\ PendingIn(tx', x)
    BY <1>1, <2>2, SettleQuiet
  <2>4. QED
    BY <2>1, <2>3, Zenon
<1>3. batch' = batch /\ phase' = phase /\ blocked' = blocked
  BY DEF Confirms, runner
<1>4. ControlTyped' /\ BoundsTyped'
  BY <1>0, <1>3 DEF ControlTyped, BoundsTyped, Confirms, bounds, laneVars
<1>5. \A t \in ToSet(batch) : t \in TxIds /\ t \notin S
  <2>1. \A t \in ToSet(batch) : tx[t].status # "awaiting_delta"
    BY DEF Core, BatchGood
  <2>2. ToSet(batch) \subseteq TxIds
    BY <1>0 DEF PlacesTyped, Issued
  <2>3. QED
    BY <2>1, <2>2 DEF Confirms, Awaiting
<1>6. BatchGood'
  <2>1. \A t \in ToSet(batch) : tx'[t].env = tx[t].env /\ tx'[t].status = tx[t].status
    BY <1>2, <1>5 DEF SettledAs, StatusAfter
  <2>2. QED
    BY <1>1, <1>3, <2>1, KeptBatch DEF Core
<1>7. QED
  BY <1>2, <1>3, <1>4, <1>6, QuietCore

-----------------------------------------------------------------------------
(* The core of the invariant, action by action: the quiet actions.         *)

(* What the core says of the places a write or a key can be in.            *)
LEMMA CorePlaces ==
    ASSUME Core
    PROVE  /\ tx \in [TxIds -> TxType] /\ sources \in [TxIds -> SUBSET TxIds]
           /\ saving \in Seq(TxIds) /\ staged \in Seq(TxIds) /\ queue \in Seq(TxIds)
           /\ batch \in Seq(TxIds) /\ lane \in Seq(Keys) /\ log \in Seq(Keys)
           /\ ToSet(staged) \subseteq saved /\ ToSet(queue) \subseteq saved
           /\ ToSet(batch) \subseteq saved /\ parked \subseteq saved
           /\ journal \subseteq saved /\ saved \subseteq Issued /\ purging \subseteq Issued
           /\ Issued \subseteq TxIds
           /\ \A g \in backoff : g \in Seq(TxIds) /\ ToSet(g) \subseteq saved
           /\ (laneBusy => lane # <<>>)
           /\ ControlTyped /\ BoundsTyped /\ BatchGood
<1>1. StoreTyped /\ PlacesTyped /\ ControlTyped /\ StorageTyped /\ BoundsTyped
  BY TypeParts DEF Core
<1>2. Homes /\ Ledger /\ BatchGood
  BY DEF Core
<1>3. Issued \subseteq TxIds
  BY DEF Issued
<1>4. QED
  BY <1>1, <1>2, <1>3 DEF StoreTyped, PlacesTyped, StorageTyped, Homes, Ledger

(* An unchanged store is kept.                                             *)
LEMMA SameStore ==
    ASSUME Core, tx' = tx
    PROVE  StoreKept
BY CorePlaces DEF StoreKept, WriteKept

(* A change of status alone keeps the rest of the store.                   *)
LEMMA StatusStore ==
    ASSUME Core, NEW S \in SUBSET Issued, NEW s \in Statuses \ {"none"}, tx' = WithStatus(tx, S, s)
    PROVE  /\ StoreKept
           /\ \A t \in TxIds : /\ t \in S => tx'[t].status = s
                               /\ t \notin S => tx'[t].status = tx[t].status
                               /\ tx'[t].conf = tx[t].conf
<1>1. tx \in [TxIds -> TxType]
  BY CorePlaces
<1>2. /\ tx' \in [TxIds -> TxType]
      /\ \A t \in TxIds : tx'[t] = IF t \in S THEN [tx[t] EXCEPT !.status = s] ELSE tx[t]
  BY <1>1, WithStatusFacts
<1>3. ASSUME NEW t \in TxIds
      PROVE  /\ t \in S => tx'[t].status = s /\ tx[t].status # "none"
             /\ t \notin S => tx'[t].status = tx[t].status
             /\ tx'[t].conf = tx[t].conf /\ tx'[t].type = tx[t].type
             /\ tx'[t].row = tx[t].row /\ tx'[t].env = tx[t].env
  BY <1>1, <1>2 DEF TxType, Issued
<1>4. StoreKept
  BY <1>2, <1>3 DEF StoreKept, WriteKept
<1>5. QED
  BY <1>3, <1>4

(* An answer to a caller alone keeps the rest of the store.                *)
LEMMA AnswerStore ==
    ASSUME Core, NEW S, NEW a \in {"resolved", "cancelled", "rejected"}, tx' = Answered(tx, S, a)
    PROVE  /\ StoreKept
           /\ \A t \in TxIds : /\ tx'[t].status = tx[t].status
                               /\ tx'[t].conf = IF t \in S /\ tx[t].conf = "open" THEN a ELSE tx[t].conf
<1>1. tx \in [TxIds -> TxType]
  BY CorePlaces
<1>2. /\ tx' \in [TxIds -> TxType]
      /\ \A t \in TxIds : tx'[t] = IF t \in S /\ tx[t].conf = "open"
                                   THEN [tx[t] EXCEPT !.conf = a] ELSE tx[t]
  BY <1>1, AnsweredFacts
<1>3. ASSUME NEW t \in TxIds
      PROVE  /\ tx'[t].status = tx[t].status
             /\ tx'[t].conf = IF t \in S /\ tx[t].conf = "open" THEN a ELSE tx[t].conf
             /\ tx'[t].type = tx[t].type
             /\ tx'[t].row = tx[t].row /\ tx'[t].env = tx[t].env
  BY <1>1, <1>2 DEF TxType
<1>4. StoreKept
  BY <1>2, <1>3 DEF StoreKept, WriteKept
<1>5. QED
  BY <1>3, <1>4

(* The head and the tail of a sequence are among its members.              *)
LEMMA TailIn ==
    ASSUME NEW A, NEW s \in Seq(A), s # <<>>
    PROVE  /\ Head(s) \in A /\ Head(s) \in ToSet(s)
           /\ Tail(s) \in Seq(A) /\ ToSet(Tail(s)) \subseteq ToSet(s)
           /\ ToSet(s) = {Head(s)} \cup ToSet(Tail(s))
<1> DEFINE u == Tail(s)
<1>1. Len(s) \in Nat /\ Len(s) # 0 /\ Head(s) = s[1] /\ Head(s) \in A
  BY EmptySeq, LenProperties, HeadTailProperties
<1>2. u \in Seq(A) /\ Len(u) = Len(s) - 1 /\ \A i \in 1..Len(u) : u[i] = s[i + 1]
  BY HeadTailProperties, LenProperties
<1> HIDE DEF u
<1>3. Head(s) \in ToSet(s)
  BY <1>1, ToSetIn
<1>4. ASSUME NEW x \in ToSet(u) PROVE x \in ToSet(s)
  <2>1. PICK i \in 1..Len(u) : u[i] = x
    BY <1>2, ToSetIn
  <2>2. i + 1 \in 1..Len(s) /\ s[i + 1] = x
    BY <2>1, <1>1, <1>2
  <2>3. QED
    BY <2>2, ToSetIn
<1>5. ASSUME NEW x \in ToSet(s), x # Head(s) PROVE x \in ToSet(u)
  <2>1. PICK i \in 1..Len(s) : s[i] = x
    BY ToSetIn
  <2>2. i # 1
    BY <2>1, <1>1, <1>5
  <2>3. i - 1 \in 1..Len(u) /\ (i - 1) + 1 = i
    BY <2>2, <1>1, <1>2
  <2>4. u[i - 1] = x
    BY <2>1, <2>3, <1>2
  <2>5. QED
    BY <2>3, <2>4, <1>2, ToSetIn
<1>6. QED
  BY <1>1, <1>2, <1>3, <1>4, <1>5 DEF u

(* A parent's delete cancels writes of a child row that are under way, and *)
(* no deletes.                                                             *)
LEMMA CascadeOrphans ==
    ASSUME NEW r \in Rows, CascadeCancel(r)
    PROVE  /\ r \in ChildRows
           /\ \E S \in SUBSET Issued :
                /\ tx' = WithStatus(tx, S, "rolled_back")
                /\ \A t \in S : /\ tx[t].type \in {"create", "update"} /\ tx[t].row = r
                                 /\ tx[t].status \in Outstanding
<1> DEFINE unsettled(type) == {t \in Issued : /\ tx[t].type = type /\ tx[t].row = r
                                              /\ tx[t].status \in Outstanding}
<1>1. PICK moves \in SUBSET unsettled("update") :
        tx' = WithStatus(tx, unsettled("create") \cup moves, "rolled_back")
  BY Zenon DEF CascadeCancel
<1>2. r \in ChildRows
  BY Zenon DEF CascadeCancel
<1>3. PICK S : S = unsettled("create") \cup moves
  OBVIOUS
<1>4. /\ S \in SUBSET Issued
      /\ \A t \in S : /\ tx[t].type \in {"create", "update"} /\ tx[t].row = r
                       /\ tx[t].status \in Outstanding
  BY <1>3
<1>5. QED
  BY <1>1, <1>2, <1>3, <1>4

(* It keeps the core of the invariant.                                     *)
LEMMA CascadeCancelCore ==
    ASSUME Core, NEW r \in Rows, CascadeCancel(r)
    PROVE  /\ Core' /\ QuietStep
           /\ \A t \in TxIds :
                /\ tx'[t].conf = tx[t].conf
                /\ \/ tx'[t].status = tx[t].status
                   \/ tx'[t].status = "rolled_back" /\ tx[t].status \in Outstanding
<1>1. PICK S \in SUBSET Issued : /\ tx' = WithStatus(tx, S, "rolled_back")
                                 /\ \A t \in S : tx[t].status \in Outstanding
  BY CascadeOrphans
<1>a. \A t \in S : tx[t].status \in Outstanding
  BY <1>1
<1>2. /\ StoreKept
      /\ \A t \in TxIds : /\ tx'[t].status = IF t \in S THEN "rolled_back" ELSE tx[t].status
                          /\ tx'[t].conf = tx[t].conf
  BY <1>1, StatusStore DEF Statuses
<1>3. QuietStep
  BY <1>2, CorePlaces DEF CascadeCancel, QuietStep, runner, laneVars, storage, server, bounds
<1>4. ControlTyped' /\ BoundsTyped'
  BY CorePlaces DEF CascadeCancel, ControlTyped, BoundsTyped, runner, laneVars, bounds
<1>5. BatchGood'
  <2>1. \A t \in ToSet(batch) : tx'[t].env = tx[t].env /\ tx'[t].status \in {tx[t].status, "rolled_back"}
    BY <1>2, CorePlaces DEF StoreKept
  <2>2. QED
    BY <2>1, KeptBatch DEF Core, CascadeCancel, runner, storage
<1>6. QED
  BY <1>a, <1>2, <1>3, <1>4, <1>5, QuietCore

(* The wait for an echo times out.                                         *)
LEMMA ReplicationLagCore ==
    ASSUME Core, NEW u \in TxIds, ReplicationLag(u)
    PROVE  /\ Core' /\ QuietStep
           /\ \A t \in TxIds : /\ tx'[t].status = tx[t].status
                               /\ tx'[t].conf \in {tx[t].conf, "rejected"}
<1>1. tx' = Answered(tx, {u}, "rejected")
  BY DEF ReplicationLag
<1>2. StoreKept /\ \A t \in TxIds : /\ tx'[t].status = tx[t].status
                                    /\ tx'[t].conf \in {tx[t].conf, "rejected"}
  BY <1>1, AnswerStore
<1>3. QuietStep
  BY <1>2, CorePlaces DEF ReplicationLag, QuietStep, runner, laneVars, storage, server, bounds
<1>4. ControlTyped' /\ BoundsTyped'
  BY CorePlaces DEF ReplicationLag, ControlTyped, BoundsTyped, runner, laneVars, bounds
<1>5. BatchGood'
  <2>1. \A t \in ToSet(batch) : tx'[t].env = tx[t].env /\ tx'[t].status = tx[t].status
    BY <1>2, CorePlaces DEF StoreKept
  <2>2. QED
    BY <2>1, KeptBatch DEF Core, ReplicationLag, runner, storage
<1>6. QED
  BY <1>2, <1>3, <1>4, <1>5, QuietCore

(* Steps that leave the store and the batch alone.                         *)
LEMMA IdleCore ==
    ASSUME Core, tx' = tx, UNCHANGED <<batch, phase, envelope>>,
           QuietStep, ControlTyped', BoundsTyped'
    PROVE  Core'
<1>1. BatchGood'
  BY KeptBatch DEF Core
<1>2. QED
  BY <1>1, QuietCore

(* A removal lands; a save's turn, a timer or the reconnect drain moves    *)
(* writes to the queue.                                                    *)
LEMMA PurgeLandsCore ==
    ASSUME Core, NEW t \in TxIds, PurgeLands(t)
    PROVE  Core' /\ QuietStep
<1>1. tx' = tx /\ StoreKept
  BY SameStore DEF PurgeLands, memory
<1>2. QuietStep
  BY <1>1, CorePlaces DEF PurgeLands, QuietStep, memory, runner, laneVars, server, bounds
<1>3. ControlTyped' /\ BoundsTyped'
  BY CorePlaces DEF PurgeLands, ControlTyped, BoundsTyped, memory, runner, laneVars, bounds
<1>4. QED
  BY <1>1, <1>2, <1>3, IdleCore DEF PurgeLands, runner

(* Writes that had a row enter the queue.                                  *)
LEMMA EnqueueSaved ==
    ASSUME Core, NEW ts \in Seq(TxIds), ToSet(ts) \subseteq saved
    PROVE  /\ EnqueueAll(queue, ts, tx) \in Seq(TxIds)
           /\ ToSet(EnqueueAll(queue, ts, tx)) \subseteq saved
           /\ \A x : x \in ToSet(EnqueueAll(queue, ts, tx))
                     <=> x \in ToSet(queue) \/ (x \in ToSet(ts) /\ PendingIn(tx, x))
<1>1. queue \in Seq(TxIds) /\ ToSet(queue) \subseteq saved
  BY CorePlaces
<1>2. /\ EnqueueAll(queue, ts, tx) \in Seq(TxIds)
      /\ \A x : x \in ToSet(EnqueueAll(queue, ts, tx))
                <=> x \in ToSet(queue) \/ (x \in ToSet(ts) /\ PendingIn(tx, x))
  BY <1>1, EnqueueAllFacts
<1>3. QED
  BY <1>1, <1>2

(* The staged writes move to the queue.                                    *)
LEMMA CommitStagedCore ==
    ASSUME Core, CommitStaged \/ DrainPending
    PROVE  Core' /\ QuietStep
<1>1. tx' = tx /\ StoreKept
  BY SameStore DEF CommitStaged, DrainPending
<1>2. queue' = EnqueueAll(queue, staged, tx) /\ staged' = <<>> /\ scheduled' \in BOOLEAN
  BY CorePlaces DEF CommitStaged, DrainPending, ControlTyped
<1>3. queue' \in Seq(TxIds) /\ ToSet(queue') \subseteq saved
  BY <1>2, CorePlaces, EnqueueSaved
<1>4. staged' \in Seq(TxIds) /\ ToSet(staged') = {}
  BY <1>2 DEF ToSet
<1>5. UNCHANGED <<sources, saving, backoff, parked, runner, laneVars, storage, server, bounds>>
  BY DEF CommitStaged, DrainPending
<1>6. QuietStep
  BY <1>1, <1>3, <1>4, <1>5, CorePlaces DEF QuietStep, runner, laneVars, storage, server, bounds
<1>7. ControlTyped' /\ BoundsTyped'
  BY <1>2, <1>5, CorePlaces DEF ControlTyped, BoundsTyped, runner, laneVars, bounds
<1>8. QED
  BY <1>1, <1>5, <1>6, <1>7, IdleCore DEF runner, storage

(* A retry timer fires.                                                    *)
LEMMA RetryTimerCore ==
    ASSUME Core, NEW g \in backoff, RetryTimer(g)
    PROVE  Core' /\ QuietStep
<1>1. tx' = tx /\ StoreKept
  BY SameStore DEF RetryTimer
<1>2. queue' = EnqueueAll(queue, g, tx) /\ backoff' \subseteq backoff /\ scheduled' \in BOOLEAN
  BY CorePlaces DEF RetryTimer, ControlTyped
<1>3. g \in Seq(TxIds) /\ ToSet(g) \subseteq saved
  BY CorePlaces
<1>4. queue' \in Seq(TxIds) /\ ToSet(queue') \subseteq saved
  BY <1>2, <1>3, EnqueueSaved
<1>5. UNCHANGED <<sources, saving, staged, parked, runner, laneVars, storage, server, bounds>>
  BY DEF RetryTimer
<1>6. QuietStep
  BY <1>1, <1>2, <1>4, <1>5, CorePlaces DEF QuietStep, runner, laneVars, storage, server, bounds
<1>7. ControlTyped' /\ BoundsTyped'
  BY <1>2, <1>5, CorePlaces DEF ControlTyped, BoundsTyped, runner, laneVars, bounds
<1>8. QED
  BY <1>1, <1>5, <1>6, <1>7, IdleCore DEF runner, storage

(* The steps of the commit lane that touch no write.                       *)
LEMMA LaneCore ==
    ASSUME Core,
           \/ LaneReceipt
           \/ \E exhausted \in BOOLEAN : LaneTransient(exhausted)
           \/ \E k \in Keys : LaneConfirmed(k)
    PROVE  Core' /\ QuietStep /\ tx' = tx
<1>0. MaxFaults \in Nat
  BY QueueAssumption
<1>1. CASE LaneReceipt
  <2>1. UNCHANGED <<memory, runner, journal, saved, purging, envelope, server, bounds>>
    BY <1>1 DEF LaneReceipt
  <2>2. tx' = tx /\ StoreKept
    BY <2>1, SameStore DEF memory
  <2>3. laneBusy /\ lane # <<>> /\ laneBusy' = FALSE /\ lane' = Tail(lane)
    BY <1>1, CorePlaces DEF LaneReceipt
  <2>4. Head(lane) \in ToSet(lane) /\ Tail(lane) \in Seq(Keys) /\ ToSet(Tail(lane)) \subseteq ToSet(lane)
    BY <2>3, CorePlaces, TailIn
  <2>5. /\ outbox' \subseteq outbox
        /\ \A k \in laneWaits' \ laneWaits : k = Head(lane) /\ verdict[k] = "queued"
    BY <1>1 DEF LaneReceipt, Removed
  <2>6. QuietStep
    BY <2>1, <2>2, <2>3, <2>4, <2>5, CorePlaces DEF QuietStep, memory, runner, server, bounds
  <2>7. ControlTyped' /\ BoundsTyped'
    BY <2>1, <2>3, CorePlaces DEF ControlTyped, BoundsTyped, memory, runner, bounds
  <2>8. QED
    BY <2>1, <2>2, <2>6, <2>7, IdleCore DEF runner
<1>2. ASSUME NEW exhausted \in BOOLEAN, LaneTransient(exhausted) PROVE Core' /\ QuietStep /\ tx' = tx
  <2>1. UNCHANGED <<memory, runner, laneWaits, storage, server, crashes>>
    BY <1>2 DEF LaneTransient
  <2>2. tx' = tx /\ StoreKept
    BY <2>1, SameStore DEF memory
  <2>3. laneBusy /\ lane # <<>> /\ laneBusy' = FALSE /\ lane' \in {lane, Tail(lane)}
    BY <1>2, CorePlaces DEF LaneTransient
  <2>4. Tail(lane) \in Seq(Keys) /\ ToSet(Tail(lane)) \subseteq ToSet(lane)
    BY <2>3, CorePlaces, TailIn
  <2>5. QuietStep
    BY <2>1, <2>2, <2>3, <2>4, CorePlaces DEF QuietStep, memory, runner, storage, server
  <2>6. faults' \in 0..MaxFaults
    BY <1>0, <1>2, CorePlaces DEF LaneTransient, Fault, BoundsTyped
  <2>7. ControlTyped' /\ BoundsTyped'
    BY <2>1, <2>3, <2>6, CorePlaces DEF ControlTyped, BoundsTyped, memory, runner
  <2>8. QED
    BY <2>1, <2>2, <2>5, <2>7, IdleCore DEF runner, storage
<1>3. ASSUME NEW k \in Keys, LaneConfirmed(k) PROVE Core' /\ QuietStep /\ tx' = tx
  <2>1. UNCHANGED <<memory, runner, lane, laneBusy, journal, saved, purging, envelope, server, bounds>>
    BY <1>3 DEF LaneConfirmed
  <2>2. tx' = tx /\ StoreKept
    BY <2>1, SameStore DEF memory
  <2>3. outbox' \subseteq outbox /\ laneWaits' \subseteq laneWaits
    BY <1>3 DEF LaneConfirmed, Removed
  <2>4. QuietStep
    BY <2>1, <2>2, <2>3, CorePlaces DEF QuietStep, memory, runner, server, bounds
  <2>5. ControlTyped' /\ BoundsTyped'
    BY <2>1, CorePlaces DEF ControlTyped, BoundsTyped, memory, runner, bounds
  <2>6. QED
    BY <2>1, <2>2, <2>4, <2>5, IdleCore DEF runner
<1>4. QED
  BY <1>1, <1>2, <1>3

(* A run of processBatch selects its writes: they leave the queue and are  *)
(* pending.                                                                *)
LEMMA StartBatchFacts ==
    ASSUME Core, StartBatch
    PROVE  /\ tx' = tx /\ batch' \in Seq(TxIds) /\ queue' \in Seq(TxIds)
           /\ ToSet(batch') \cup ToSet(queue') \subseteq ToSet(queue)
           /\ \A t \in ToSet(queue) : PendingIn(tx, t) => t \in ToSet(batch') \cup ToSet(queue')
           /\ \A t \in ToSet(batch') : tx[t].status = "pending"
           /\ \/ \A t \in ToSet(batch') : tx[t].env = 0
              \/ \E k \in DOMAIN envelope :
                    k # 0 /\ batch' = envelope[k].ops /\ \A t \in ToSet(batch') : tx[t].env = k
           /\ phase' = IF batch' = <<>> THEN "idle" ELSE "preparing"
<1>1. tx' = tx /\ phase = "idle" /\ batch = <<>>
  BY CorePlaces DEF StartBatch, ControlTyped
<1>2. CASE blocked \/ queue = <<>>
  <2>1. queue' = queue /\ batch' = <<>> /\ phase' = "idle"
    BY <1>1, <1>2 DEF StartBatch
  <2>2. ToSet(batch') = {}
    BY <2>1 DEF ToSet
  <2>3. \A t \in ToSet(queue) : PendingIn(tx, t) => t \in ToSet(batch') \cup ToSet(queue')
    BY <2>1
  <2>4. QED
    BY <1>1, <2>1, <2>2, <2>3, CorePlaces
<1>3. CASE ~(blocked \/ queue = <<>>)
  <2> DEFINE p == Pending(SortByPriority(queue, tx), tx)
             f == Fresh(p, tx)
             b == TakeNextBatch(p, f, tx, envelope)
  <2>1. batch' = b /\ queue' = Remaining(p, tx, b) /\ phase' = IF b = <<>> THEN "idle" ELSE "preparing"
    BY <1>3, Zenon DEF StartBatch
  <2>2. DOMAIN tx = TxIds /\ queue \in Seq(DOMAIN tx)
    BY CorePlaces
  <2>3. p \in Seq(TxIds) /\ ToSet(p) = {t \in ToSet(queue) : tx[t].status = "pending"}
    BY <2>2, PendingFacts
  <2> HIDE DEF p
  <2>4. f = Fresh(p, tx) /\ b = TakeNextBatch(p, f, tx, envelope) /\ TypeOK /\ Groups
    BY DEF Core
  <2> HIDE DEF f, b
  <2>5. /\ b \in Seq(TxIds) /\ Remaining(p, tx, b) \in Seq(TxIds)
        /\ ToSet(b) \subseteq ToSet(p)
        /\ ToSet(Remaining(p, tx, b)) = ToSet(p) \ ToSet(b)
        /\ \/ \A t \in ToSet(b) : tx[t].env = 0
           \/ \E k \in DOMAIN envelope :
                 k # 0 /\ b = envelope[k].ops /\ \A t \in ToSet(b) : tx[t].env = k
    BY <2>3, <2>4, SelectionFacts
  <2>6. \A t \in ToSet(queue) : PendingIn(tx, t) => t \in ToSet(p)
    BY <2>3 DEF PendingIn
  <2>7. \A t \in ToSet(p) : t \in ToSet(queue) /\ tx[t].status = "pending"
    BY <2>3
  <2>8. QED
    BY <1>1, <2>1, <2>5, <2>6, <2>7
<1>4. QED
  BY <1>2, <1>3

(* It keeps the core of the invariant.                                     *)
LEMMA StartBatchCore ==
    ASSUME Core, StartBatch
    PROVE  Core' /\ QuietStep
<1>1. /\ tx' = tx /\ batch' \in Seq(TxIds) /\ queue' \in Seq(TxIds)
      /\ ToSet(batch') \cup ToSet(queue') \subseteq ToSet(queue)
      /\ \A t \in ToSet(batch') : tx[t].status = "pending"
      /\ \/ \A t \in ToSet(batch') : tx[t].env = 0
         \/ \E k \in DOMAIN envelope :
               k # 0 /\ batch' = envelope[k].ops /\ \A t \in ToSet(batch') : tx[t].env = k
      /\ phase' = IF batch' = <<>> THEN "idle" ELSE "preparing"
  BY StartBatchFacts
<1>2. scheduled' = FALSE
  BY DEF StartBatch
<1>3. UNCHANGED <<sources, saving, staged, backoff, parked, blocked, laneVars, storage, server, bounds>>
  BY DEF StartBatch
<1>4. StoreKept
  BY <1>1, SameStore
<1>5. QuietStep
  BY <1>1, <1>3, <1>4, CorePlaces DEF QuietStep, laneVars, storage, server, bounds
<1>6. ControlTyped' /\ BoundsTyped'
  BY <1>1, <1>2, <1>3, CorePlaces DEF ControlTyped, BoundsTyped, laneVars, bounds
<1>7. BatchGood'
  <2>1. CASE batch' = <<>>
    BY <1>1, <2>1, NoBatch
  <2>2. CASE batch' # <<>>
    <3>1. batch'[1] \in ToSet(batch') /\ phase' = "preparing"
      BY <1>1, <2>2, EmptySeq, ToSetIn
    <3>2. CASE \A t \in ToSet(batch') : tx[t].env = 0
      <4>1. Key' = 0 /\ \A t \in ToSet(batch') : tx'[t].env = Key' /\ tx'[t].status = "pending"
        BY <1>1, <3>1, <3>2 DEF Key
      <4>2. QED
        BY <3>1, <4>1 DEF BatchGood
    <3>3. ASSUME NEW k \in DOMAIN envelope, k # 0, batch' = envelope[k].ops,
                 \A t \in ToSet(batch') : tx[t].env = k
          PROVE  BatchGood'
      <4>1. Key' = k /\ \A t \in ToSet(batch') : tx'[t].env = Key' /\ tx'[t].status = "pending"
        BY <1>1, <3>1, <3>3 DEF Key
      <4>2. envelope' = envelope
        BY <1>3 DEF storage
      <4>3. QED
        BY <3>1, <3>3, <4>1, <4>2 DEF BatchGood
    <3>4. QED
      BY <1>1, <3>2, <3>3
  <2>3. QED
    BY <2>1, <2>2
<1>8. QED
  BY <1>5, <1>6, <1>7, QuietCore

(* A fault stays within the bound of the model.                            *)
LEMMA FaultBound ==
    ASSUME Core, NEW kind, Fault(kind)
    PROVE  faults' \in 0..MaxFaults
<1>1. MaxFaults \in Nat
  BY QueueAssumption
<1>2. faults \in 0..MaxFaults
  BY CorePlaces DEF BoundsTyped
<1>3. faults < MaxFaults /\ faults' = faults + 1
  BY DEF Fault
<1>4. QED
  BY <1>1, <1>2, <1>3

(* Preparing a batch fails: its writes are pending again.                  *)
LEMMA PrepareTransientCore ==
    ASSUME Core, PrepareTransient
    PROVE  /\ Core' /\ QuietStep
           /\ \A t \in TxIds : /\ t \in ToSet(batch) => tx'[t].status = "pending"
                               /\ t \notin ToSet(batch) => tx'[t].status = tx[t].status
                               /\ tx'[t].conf = tx[t].conf
<1>1. tx \in [TxIds -> TxType] /\ batch \in Seq(TxIds) /\ ToSet(batch) \subseteq Issued
  BY CorePlaces
<1>2. tx' = [t \in TxIds |-> IF Contains(batch, t)
                             THEN [tx[t] EXCEPT !.status = "pending", !.attempts = @ + 1]
                             ELSE tx[t]]
  BY DEF PrepareTransient
<1>3. ASSUME NEW t \in TxIds
      PROVE  /\ tx'[t] \in TxType /\ WriteKept(t) /\ tx'[t].env = tx[t].env
             /\ t \in ToSet(batch) => tx'[t].status = "pending"
             /\ t \notin ToSet(batch) => tx'[t].status = tx[t].status
             /\ tx'[t].conf = tx[t].conf
  <2>0. Contains(batch, t) <=> t \in ToSet(batch)
    BY <1>1, ToSetIn
  <2>1. CASE Contains(batch, t)
    <3>1. tx[t].status # "none"
      BY <2>1, <1>1, ToSetIn DEF Issued
    <3>2. tx'[t] = [tx[t] EXCEPT !.status = "pending", !.attempts = @ + 1]
      BY <2>1, <1>2
    <3>3. tx[t] \in TxType
      BY <1>1
    <3>4. tx'[t] \in TxType
      <4> DEFINE p == [tx[t] EXCEPT !.status = "pending"]
      <4>1. p \in TxType /\ p.attempts = tx[t].attempts
        BY <3>3 DEF TxType, Statuses
      <4>2. tx'[t] = [p EXCEPT !.attempts = tx[t].attempts + 1]
        BY <3>2, <3>3 DEF TxType
      <4>3. tx[t].attempts + 1 \in Nat
        BY <3>3 DEF TxType
      <4> HIDE DEF p
      <4>4. QED
        BY <4>1, <4>2, <4>3 DEF TxType
    <3>5. /\ tx'[t].status = "pending" /\ tx'[t].type = tx[t].type
          /\ tx'[t].row = tx[t].row /\ tx'[t].env = tx[t].env /\ tx'[t].conf = tx[t].conf
      BY <3>2, <3>3 DEF TxType
    <3>6. QED
      BY <2>0, <2>1, <3>1, <3>4, <3>5 DEF WriteKept
  <2>2. CASE ~Contains(batch, t)
    <3>1. tx'[t] = tx[t]
      BY <2>2, <1>2
    <3>2. QED
      BY <2>0, <2>2, <3>1, <1>1 DEF WriteKept
  <2>3. QED
    BY <2>1, <2>2
<1>4. StoreKept
  BY <1>2, <1>3 DEF StoreKept
<1>5. batch' = <<>> /\ phase' = "idle" /\ scheduled' = TRUE
  BY DEF PrepareTransient, BatchDone
<1>6. backoff' = backoff \cup {batch}
      /\ UNCHANGED <<sources, saving, staged, queue, parked, blocked, laneVars, storage, server, crashes>>
  BY DEF PrepareTransient
<1>7. BatchGood' /\ ToSet(batch') = {} /\ batch' \in Seq(TxIds)
  BY <1>5, NoBatch
<1>8. QuietStep
  BY <1>4, <1>6, <1>7, CorePlaces DEF QuietStep, laneVars, storage, server
<1>9. faults' \in 0..MaxFaults
  BY FaultBound DEF PrepareTransient
<1>10. ControlTyped' /\ BoundsTyped'
  BY <1>5, <1>6, <1>9, CorePlaces DEF ControlTyped, BoundsTyped, laneVars
<1>11. QED
  BY <1>3, <1>7, <1>8, <1>10, QuietCore

(* The store after PreparePermanent.                                       *)
LEMMA PreparePermanentStore ==
    ASSUME Core, PreparePermanent
    PROVE  /\ StoreKept
           /\ \A t \in TxIds : /\ t \in ToSet(batch) => tx'[t].status = "pending"
                               /\ t \notin ToSet(batch) => tx'[t].status = tx[t].status
                               /\ tx'[t].conf = IF t \in ToSet(batch) /\ tx[t].conf = "open"
                                                THEN "rejected" ELSE tx[t].conf
<1> DEFINE B == ToSet(batch)
           W == WithStatus(tx, B, "pending")
<1>1. tx \in [TxIds -> TxType] /\ B \in SUBSET Issued
  BY CorePlaces
<1>2. tx' = Answered(W, B, "rejected")
  BY DEF PreparePermanent
<1> HIDE DEF B
<1>3. /\ W \in [TxIds -> TxType]
      /\ \A t \in TxIds : W[t] = IF t \in B THEN [tx[t] EXCEPT !.status = "pending"] ELSE tx[t]
  BY <1>1, WithStatusFacts DEF Statuses
<1> HIDE DEF W
<1>4. /\ tx' \in [TxIds -> TxType]
      /\ \A t \in TxIds : tx'[t] = IF t \in B /\ W[t].conf = "open"
                                   THEN [W[t] EXCEPT !.conf = "rejected"] ELSE W[t]
  BY <1>2, <1>3, AnsweredFacts
<1>5. ASSUME NEW t \in TxIds
      PROVE  /\ W[t].type = tx[t].type /\ W[t].row = tx[t].row /\ W[t].env = tx[t].env
             /\ W[t].conf = tx[t].conf
             /\ t \in B => W[t].status = "pending" /\ tx[t].status # "none"
             /\ t \notin B => W[t].status = tx[t].status
  BY <1>1, <1>3 DEF TxType, Issued
<1>6. ASSUME NEW t \in TxIds
      PROVE  /\ tx'[t].type = W[t].type /\ tx'[t].row = W[t].row /\ tx'[t].env = W[t].env
             /\ tx'[t].status = W[t].status
             /\ tx'[t].conf = IF t \in B /\ W[t].conf = "open" THEN "rejected" ELSE W[t].conf
  BY <1>3, <1>4 DEF TxType
<1>7. StoreKept
  BY <1>4, <1>5, <1>6 DEF StoreKept, WriteKept
<1>8. QED
  BY <1>5, <1>6, <1>7 DEF B

(* Preparing a batch fails for good: the queue blocks.                     *)
LEMMA PreparePermanentCore ==
    ASSUME Core, PreparePermanent
    PROVE  Core' /\ QuietStep
<1>1. StoreKept
  BY PreparePermanentStore
<1>2. batch' = <<>> /\ phase' = "idle" /\ scheduled' = TRUE /\ blocked' = TRUE
  BY DEF PreparePermanent, BatchDone
<1>3. UNCHANGED <<sources, saving, staged, backoff, parked, laneVars, storage, server, crashes>>
  BY DEF PreparePermanent
<1>4. queue' \in Seq(TxIds) /\ ToSet(queue') = ToSet(queue) \cup ToSet(batch)
  BY CorePlaces, ToSetConcat DEF PreparePermanent
<1>5. BatchGood' /\ ToSet(batch') = {} /\ batch' \in Seq(TxIds)
  BY <1>2, NoBatch
<1>6. QuietStep
  BY <1>1, <1>3, <1>4, <1>5, CorePlaces DEF QuietStep, laneVars, storage, server
<1>7. faults' \in 0..MaxFaults
  BY FaultBound DEF PreparePermanent
<1>8. ControlTyped' /\ BoundsTyped'
  BY <1>2, <1>3, <1>7, CorePlaces DEF ControlTyped, BoundsTyped, laneVars
<1>9. QED
  BY <1>5, <1>6, <1>8, QuietCore
-----------------------------------------------------------------------------
(* Steps that issue a write.                                               *)

(* The next id is new, and above all the others.                           *)
LEMMA NextIdIsNew ==
    ASSUME Core, NextId \in TxIds
    PROVE  /\ NextId \notin Issued /\ \A t \in Issued : t < NextId
           /\ \E n \in 0..MaxTx : Issued \cup {NextId} = 1..n
<1>1. PICK n \in 0..MaxTx : Issued = 1..n
  BY DEF Core, Numbered
<1>2. MaxTx \in Nat /\ n \in Nat
  BY <1>1, QueueAssumption
<1>3. Cardinality(1..n) = IF 1 > n THEN 0 ELSE n - 1 + 1
  BY <1>2, FS_Interval
<1>4. NextId = n + 1
  BY <1>1, <1>2, <1>3 DEF NextId
<1>5. n + 1 \in 0..MaxTx /\ 1..(n + 1) = (1..n) \cup {n + 1}
  BY <1>2, <1>4 DEF TxIds
<1>6. QED
  BY <1>1, <1>2, <1>4, <1>5

Issues(d) ==
    /\ d = NextId /\ d \in TxIds /\ tx' \in [TxIds -> TxType]
    /\ \A t \in TxIds \ {d} : /\ WriteKept(t) /\ tx'[t].env = tx[t].env
                              /\ tx'[t].status \in {tx[t].status, "rolled_back"}
    /\ tx'[d].status # "none" /\ tx'[d].env = 0
    /\ sources' \in [TxIds -> SUBSET TxIds]
    /\ \A t \in TxIds \ {d} : sources'[t] = sources[t]
    /\ \/ sources'[d] = {} /\ tx'[d].type = "delete" /\ saving' = saving
       \/ /\ d \in sources'[d] /\ saving' = Append(saving, d)
          /\ \A x \in sources'[d] \ {d} :
                tx'[d].type = "delete" /\ tx[x].row = tx'[d].row /\ x \in Issued
    /\ staged' \in Seq(TxIds) /\ queue' \in Seq(TxIds)
    /\ ToSet(staged') \subseteq ToSet(staged) /\ ToSet(queue') \subseteq ToSet(queue)
    /\ purging' \subseteq Issued
    /\ UNCHANGED <<scheduled, backoff, parked, runner, laneVars, journal, saved,
                   envelope, outbox, server, bounds>>

(* Such a step keeps the core of the invariant.                            *)
LEMMA IssueCore ==
    ASSUME Core, NEW d, Issues(d)
    PROVE  /\ Core' /\ Issued' = Issued \cup {d} /\ d \notin Issued
           /\ \A t \in Issued : t < d
           /\ Live' = Live \cup (IF sources'[d] = {} THEN {} ELSE {d})
<1>0. StoreTyped /\ PlacesTyped /\ ControlTyped /\ StorageTyped /\ BoundsTyped
  BY TypeParts DEF Core
<1>1. d \in TxIds /\ d \notin Issued /\ (\A t \in Issued : t < d)
      /\ \E n \in 0..MaxTx : Issued \cup {d} = 1..n
  BY NextIdIsNew DEF Issues
<1>2. Issued' = Issued \cup {d}
  <2>1. \A t \in TxIds \ {d} : tx'[t].status = "none" <=> tx[t].status = "none"
    BY DEF Issues, WriteKept
  <2>2. QED
    BY <1>1, <2>1 DEF Issued, Issues
<1>3. Numbered'
  BY <1>1, <1>2 DEF Numbered
<1>4. sources[d] = {}
  BY <1>1 DEF Core, SourcesGood
<1>5. Live' = Live \cup (IF sources'[d] = {} THEN {} ELSE {d})
  <2>1. sources'[d] = {} \/ d \in sources'[d]
    BY DEF Issues
  <2>2. \A t \in TxIds \ {d} : sources'[t] = sources[t]
    BY DEF Issues
  <2>3. d \notin Live
    BY <1>4 DEF Live
  <2>4. QED
    BY <1>1, <2>1, <2>2, <2>3 DEF Live
<1>6. SourcesGood'
  <2>1. \A t \in TxIds : sources'[t] # {} => t \in sources'[t] /\ t \in Issued'
    BY <1>1, <1>2 DEF Issues, Core, SourcesGood
  <2>2. \A t \in Issued' : tx'[t].type # "delete" => t \in sources'[t]
    <3>1. \A t \in Issued : tx'[t].type = tx[t].type /\ sources'[t] = sources[t]
      BY <1>1 DEF Issued, Issues, WriteKept
    <3>2. QED
      BY <1>1, <1>2, <3>1 DEF Issues, Core, SourcesGood
  <2>3. ASSUME NEW t \in TxIds, NEW x \in sources'[t], x # t PROVE Supersedes(t, x)'
    <3>1. CASE t = d
      <4>1. tx'[d].type = "delete" /\ tx[x].row = tx'[d].row /\ x \in Issued
        BY <2>3, <3>1 DEF Issues
      <4>2. x \in TxIds /\ x # d /\ x < d
        BY <1>1, <4>1 DEF Issued
      <4>3. tx'[x].row = tx[x].row
        BY <4>1, <4>2 DEF Issues, WriteKept, Issued
      <4>4. QED
        BY <3>1, <4>1, <4>2, <4>3, <1>2 DEF Supersedes
    <3>2. CASE t # d
      <4>1. Supersedes(t, x)
        BY <2>3, <3>2 DEF Issues, Core, SourcesGood
      <4>2. x \in Issued /\ x \in TxIds /\ x # d
        BY <1>1, <4>1 DEF Supersedes, Issued
      <4>3. WriteKept(x) /\ WriteKept(t)
        BY <3>2, <4>2 DEF Issues
      <4>4. t \in Issued
        BY <2>3, <3>2 DEF Issues, Core, SourcesGood
      <4>5. tx'[x].row = tx[x].row /\ tx'[t].row = tx[t].row /\ tx'[t].type = tx[t].type
        BY <4>2, <4>3, <4>4 DEF WriteKept, Issued
      <4>6. QED
        BY <4>1, <4>5, <1>2 DEF Supersedes
    <3>3. QED
      BY <3>1, <3>2
  <2>4. QED
    BY <2>1, <2>2, <2>3 DEF SourcesGood
<1>7. /\ saving' \in Seq(TxIds) /\ ToSet(saving') \subseteq ToSet(saving) \cup {d}
      /\ (sources'[d] = {} => ToSet(saving') = ToSet(saving))
  <2>1. CASE saving' = saving
    BY <2>1, <1>0 DEF PlacesTyped
  <2>2. CASE saving' = Append(saving, d) /\ sources'[d] # {}
    BY <2>2, <1>0, <1>1, ToSetAppend DEF PlacesTyped
  <2>3. QED
    BY <2>1, <2>2 DEF Issues
<1>8. TypeOK'
  <2>1. StoreTyped'
    BY DEF Issues, StoreTyped
  <2>2. PlacesTyped'
    BY <1>0, <1>2, <1>7 DEF PlacesTyped, Issues, runner
  <2>3. ControlTyped' /\ BoundsTyped'
    BY <1>0 DEF ControlTyped, BoundsTyped, Issues, runner, laneVars, bounds
  <2>4. StorageTyped'
    BY <1>0, <1>2 DEF StorageTyped, Issues, laneVars, server
  <2>5. QED
    BY <2>1, <2>2, <2>3, <2>4, TypePartsNext
<1>9. Homes'
  <2>1. /\ \A i, j \in DOMAIN saving : saving[i] = saving[j] => i = j
        /\ ToSet(saving) \subseteq Live \ saved
        /\ saved \subseteq Live
        /\ ToSet(staged) \cup ToSet(queue) \cup ToSet(batch) \cup parked \cup journal \subseteq saved
        /\ \A g \in backoff : ToSet(g) \subseteq saved
    BY DEF Core, Homes
  <2>2. d \notin ToSet(saving) /\ d \notin saved
    BY <1>0, <1>1 DEF PlacesTyped, StorageTyped
  <2>3. \A i, j \in DOMAIN saving' : saving'[i] = saving'[j] => i = j
    <3>1. CASE saving' = saving
      BY <2>1, <3>1
    <3>2. CASE saving' = Append(saving, d)
      <4>1. /\ saving \in Seq(TxIds) /\ Len(saving) \in Nat /\ DOMAIN saving = 1..Len(saving)
            /\ DOMAIN saving' = 1..(Len(saving) + 1)
            /\ (\A i \in 1..Len(saving) : saving'[i] = saving[i])
            /\ saving'[Len(saving) + 1] = d
        BY <3>2, <1>0, <1>1, AppendProperties, LenProperties DEF PlacesTyped
      <4>2. \A i \in 1..Len(saving) : saving[i] # d
        BY <2>2, <4>1, ToSetIn
      <4>3. QED
        BY <2>1, <4>1, <4>2
    <3>3. QED
      BY <3>1, <3>2 DEF Issues
  <2>4. ToSet(saving') \subseteq Live' \ saved
    BY <1>5, <1>7, <2>1, <2>2
  <2>5. QED
    BY <2>1, <2>3, <2>4, <1>5 DEF Homes, Issues, runner
<1>10. Envelopes'
  BY <1>5 DEF Core, Envelopes, Ops, Issues
<1>11. Ledger'
  BY DEF Core, Ledger, SealedKeys, Issues, laneVars, server
<1>12. Groups'
  <2>1. \A t \in TxIds : tx'[t].env \in {tx[t].env, 0}
    BY DEF Issues
  <2>2. QED
    BY <2>1 DEF Core, Groups, Ops, Issues
<1>13. BatchGood'
  <2>1. ToSet(batch) \subseteq TxIds \ {d}
    BY <1>0, <1>1 DEF PlacesTyped, Issued
  <2>2. \A t \in ToSet(batch) : tx'[t].env = tx[t].env /\ tx'[t].status \in {tx[t].status, "rolled_back"}
    BY <2>1 DEF Issues
  <2>3. QED
    BY <2>2, KeptBatch DEF Core, Issues, runner
<1>14. QED
  BY <1>1, <1>2, <1>3, <1>5, <1>6, <1>8, <1>9, <1>10, <1>11, <1>12, <1>13 DEF Core

(* A new write is pending, unanswered and has no key.                      *)
LEMMA NewTxFacts ==
    ASSUME NEW type \in Kinds, NEW r \in Rows, NEW opt \in Opts \cup {"plain"}
    PROVE  /\ NewTx(type, r, opt) \in TxType
           /\ NewTx(type, r, opt).type = type /\ NewTx(type, r, opt).row = r
           /\ NewTx(type, r, opt).status = "pending" /\ NewTx(type, r, opt).env = 0
           /\ NewTx(type, r, opt).conf = "open"
           /\ NewTx(type, r, opt).attempts = 0
           /\ NewTx(type, r, opt).high = (type = "delete" \/ opt = "reorder")
<1> DEFINE h == type = "delete" \/ opt = "reorder"
           a == [NoTx EXCEPT !.type = type]
           b == [a EXCEPT !.row = r]
           c == [b EXCEPT !.opt = opt]
           d == [c EXCEPT !.status = "pending"]
           e == [d EXCEPT !.high = h]
           f == [e EXCEPT !.conf = "open"]
<1>1. NewTx(type, r, opt) = f
  BY DEF NewTx
<1>2. type \in {"none", "create", "update", "archive", "delete"} /\ h \in BOOLEAN
  BY QueueAssumption
<1>3. NoTx \in TxType /\ NoTx.env = 0 /\ NoTx.attempts = 0
  BY DEF TxType, Statuses, NoTx
<1> HIDE DEF h
<1>4. a \in TxType /\ a.type = type /\ a.env = 0 /\ a.attempts = 0
  BY <1>2, <1>3 DEF TxType
<1> HIDE DEF a
<1>5. b \in TxType /\ b.type = type /\ b.env = 0 /\ b.attempts = 0 /\ b.row = r
  BY <1>4 DEF TxType
<1> HIDE DEF b
<1>6. c \in TxType /\ c.type = type /\ c.env = 0 /\ c.attempts = 0 /\ c.row = r
  BY <1>5 DEF TxType
<1> HIDE DEF c
<1>7. d \in TxType /\ d.type = type /\ d.env = 0 /\ d.attempts = 0 /\ d.row = r /\ d.status = "pending"
  BY <1>6 DEF TxType, Statuses
<1> HIDE DEF d
<1>8. e \in TxType /\ e.type = type /\ e.env = 0 /\ e.attempts = 0 /\ e.row = r /\ e.status = "pending" /\ e.high = h
  BY <1>2, <1>7 DEF TxType
<1> HIDE DEF e
<1>9. /\ f \in TxType /\ f.type = type /\ f.env = 0 /\ f.attempts = 0 /\ f.row = r /\ f.status = "pending" /\ f.high = h
      /\ f.conf = "open"
  BY <1>8 DEF TxType
<1>10. QED
  BY <1>1, <1>9 DEF h

(* create, update and archive issue a write that owns its own row.         *)
LEMMA WriteIssues ==
    ASSUME Core, NEW r \in Rows, NEW type \in Kinds, NEW opt \in Opts, Write(type, r, opt)
    PROVE  /\ Issues(NextId)
           /\ \A t \in TxIds \ {NextId} : tx'[t] = tx[t]
           /\ tx'[NextId].status = "pending" /\ tx'[NextId].conf = "open"
           /\ saving' = Append(saving, NextId) /\ sources' = [sources EXCEPT ![NextId] = {NextId}]
           /\ UNCHANGED <<staged, queue, purging>>
<1> DEFINE d == NextId
           n == NewTx(type, r, opt)
<1>1. /\ d \in TxIds /\ tx' = [tx EXCEPT ![d] = n]
      /\ sources' = [sources EXCEPT ![d] = {d}] /\ saving' = Append(saving, d)
      /\ UNCHANGED <<staged, queue, scheduled, backoff, parked, runner, laneVars, storage, server, bounds>>
  BY Zenon DEF Write, CanIssue
<1> HIDE DEF d
<1>2. n \in TxType /\ n.status = "pending" /\ n.env = 0 /\ n.conf = "open"
  BY NewTxFacts
<1> HIDE DEF n
<1>3. tx \in [TxIds -> TxType] /\ sources \in [TxIds -> SUBSET TxIds]
  BY CorePlaces
<1>4. /\ tx' \in [TxIds -> TxType] /\ tx'[d] = n
      /\ \A t \in TxIds \ {d} : tx'[t] = tx[t]
  BY <1>1, <1>2, <1>3
<1>5. /\ sources' \in [TxIds -> SUBSET TxIds] /\ sources'[d] = {d}
      /\ \A t \in TxIds \ {d} : sources'[t] = sources[t]
  BY <1>1, <1>3
<1>6. \A t \in TxIds \ {d} : /\ WriteKept(t) /\ tx'[t].env = tx[t].env
                             /\ tx'[t].status \in {tx[t].status, "rolled_back"}
  BY <1>4 DEF WriteKept
<1>7. tx'[d].status # "none" /\ tx'[d].env = 0
  BY <1>2, <1>4
<1>8. /\ staged' \in Seq(TxIds) /\ queue' \in Seq(TxIds)
      /\ ToSet(staged') \subseteq ToSet(staged) /\ ToSet(queue') \subseteq ToSet(queue)
      /\ purging' \subseteq Issued
  BY <1>1, CorePlaces DEF storage
<1>9. Issues(d)
  <2>1. /\ d \in sources'[d] /\ saving' = Append(saving, d)
        /\ \A x \in sources'[d] \ {d} :
              tx'[d].type = "delete" /\ tx[x].row = tx'[d].row /\ x \in Issued
    BY <1>1, <1>5
  <2>2. d = NextId
    BY DEF d
  <2>3. UNCHANGED <<scheduled, backoff, parked, runner, laneVars, journal, saved,
                    envelope, outbox, server, bounds>>
    BY <1>1 DEF storage
  <2>4. QED
    BY <1>1, <1>4, <1>5, <1>6, <1>7, <1>8, <2>1, <2>2, <2>3 DEF Issues
<1>10. QED
  BY <1>1, <1>2, <1>4, <1>9 DEF d, storage

(* A delete that supersedes the updates of its row owns their rows.        *)
LEMMA RemoveRowIssues ==
    ASSUME Core, NEW r \in Rows, RemoveRow(r)
    PROVE  /\ Issues(NextId)
           /\ \A t \in TxIds \ {NextId} :
                /\ tx'[t].conf = tx[t].conf
                /\ tx'[t].status = IF t \in Superseded(r) THEN "rolled_back" ELSE tx[t].status
           /\ tx'[NextId].type = "delete" /\ tx'[NextId].row = r
           /\ tx'[NextId].status = "pending" /\ tx'[NextId].conf = "open"
           /\ saving' = Append(saving, NextId)
           /\ sources' = [sources EXCEPT ![NextId] =
                            {NextId} \cup UNION {sources[u] : u \in {v \in Superseded(r) : tx[v].env = 0}}]
           /\ UNCHANGED <<staged, queue, purging>>
<1> DEFINE d == NextId
           n == NewTx("delete", r, "plain")
           I == UNION {sources[u] : u \in {v \in Superseded(r) : tx[v].env = 0}}
           W == WithStatus(tx, Superseded(r), "rolled_back")
<1>1. /\ "delete" \in Kinds /\ d \in TxIds /\ tx' = [W EXCEPT ![d] = n]
      /\ sources' = [sources EXCEPT ![d] = {d} \cup I] /\ saving' = Append(saving, d)
      /\ UNCHANGED <<staged, queue, scheduled, backoff, parked, runner, laneVars, storage, server, bounds>>
  BY Zenon DEF RemoveRow, CanIssue
<1> HIDE DEF d
<1>2. n \in TxType /\ n.type = "delete" /\ n.row = r /\ n.status = "pending" /\ n.env = 0 /\ n.conf = "open"
  BY <1>1, NewTxFacts
<1> HIDE DEF n
<1>3. tx \in [TxIds -> TxType] /\ sources \in [TxIds -> SUBSET TxIds] /\ Issued \subseteq TxIds
  BY CorePlaces
<1>4. /\ W \in [TxIds -> TxType]
      /\ \A t \in TxIds : W[t] = IF t \in Superseded(r) THEN [tx[t] EXCEPT !.status = "rolled_back"] ELSE tx[t]
  BY <1>3, WithStatusFacts DEF Statuses
<1> HIDE DEF W
<1>5. /\ tx' \in [TxIds -> TxType] /\ tx'[d] = n
      /\ \A t \in TxIds \ {d} : tx'[t] = W[t]
  BY <1>1, <1>2, <1>4
<1>6. \A u \in Superseded(r) : u \in Issued /\ tx[u].row = r /\ tx[u].status # "none"
  BY DEF Superseded
<1>7. ASSUME NEW t \in TxIds \ {d}
      PROVE  /\ WriteKept(t) /\ tx'[t].env = tx[t].env /\ tx'[t].conf = tx[t].conf
             /\ tx'[t].status = IF t \in Superseded(r) THEN "rolled_back" ELSE tx[t].status
  <2>1. tx'[t] = IF t \in Superseded(r) THEN [tx[t] EXCEPT !.status = "rolled_back"] ELSE tx[t]
    BY <1>4, <1>5
  <2>2. tx[t] \in TxType
    BY <1>3
  <2>3. QED
    BY <1>6, <2>1, <2>2 DEF WriteKept, TxType
<1>8. I \subseteq Issued /\ \A x \in I : tx[x].row = r
  <2>1. SUFFICES ASSUME NEW u \in Superseded(r), NEW x \in sources[u] PROVE x \in Issued /\ tx[x].row = r
    OBVIOUS
  <2>2. u \in Issued /\ u \in TxIds /\ tx[u].row = r
    BY <1>3, <1>6
  <2>3. x = u \/ Supersedes(u, x)
    BY <2>2 DEF Core, SourcesGood
  <2>4. QED
    BY <2>2, <2>3 DEF Supersedes
<1> HIDE DEF I
<1>9. {d} \cup I \in SUBSET TxIds
  BY <1>1, <1>3, <1>8
<1>10. /\ sources' \in [TxIds -> SUBSET TxIds] /\ sources'[d] = {d} \cup I
       /\ \A t \in TxIds \ {d} : sources'[t] = sources[t]
  BY <1>1, <1>3, <1>9
<1>11. /\ staged' \in Seq(TxIds) /\ queue' \in Seq(TxIds)
       /\ ToSet(staged') \subseteq ToSet(staged) /\ ToSet(queue') \subseteq ToSet(queue)
       /\ purging' \subseteq Issued
  BY <1>1, CorePlaces DEF storage
<1>12. Issues(d)
  <2>1. /\ d \in sources'[d] /\ saving' = Append(saving, d)
        /\ \A x \in sources'[d] \ {d} :
              tx'[d].type = "delete" /\ tx[x].row = tx'[d].row /\ x \in Issued
    BY <1>1, <1>2, <1>5, <1>8, <1>10
  <2>2. d = NextId
    BY DEF d
  <2>3. UNCHANGED <<scheduled, backoff, parked, runner, laneVars, journal, saved,
                    envelope, outbox, server, bounds>>
    BY <1>1 DEF storage
  <2>4. tx'[d].status # "none" /\ tx'[d].env = 0
    BY <1>2, <1>5
  <2>5. \A t \in TxIds \ {d} : /\ WriteKept(t) /\ tx'[t].env = tx[t].env
                               /\ tx'[t].status \in {tx[t].status, "rolled_back"}
    BY <1>7
  <2>6. QED
    BY <1>1, <1>5, <1>10, <1>11, <2>1, <2>2, <2>3, <2>4, <2>5 DEF Issues
<1>13. QED
  BY <1>1, <1>2, <1>5, <1>7, <1>12 DEF d, I, storage

(* A delete that cancels an unsent create ends with it.                    *)
LEMMA RemoveUnsentIssues ==
    ASSUME Core, NEW r \in Rows, RemoveUnsent(r)
    PROVE  /\ Issues(NextId)
           /\ \E c \in UnsentCreates(r) :
                /\ \A t \in TxIds \ {NextId} :
                    /\ tx'[t].status = IF t = c THEN "rolled_back" ELSE tx[t].status
                    /\ tx'[t].conf = IF t = c /\ tx[t].conf = "open" THEN "cancelled" ELSE tx[t].conf
                /\ purging' = purging \cup Purged({c})
                /\ ToSet(staged') = ToSet(staged) \ {c}
                /\ ToSet(queue) \ {c} \subseteq ToSet(queue')
           /\ tx'[NextId].type = "delete" /\ tx'[NextId].row = r
           /\ tx'[NextId].status = "completed" /\ tx'[NextId].conf = "cancelled"
           /\ sources' = sources /\ saving' = saving
<1> DEFINE d == NextId
           n == [NewTx("delete", r, "plain") EXCEPT !.status = "completed"]
           W(c) == WithStatus(tx, {c}, "rolled_back")
<1>1. PICK c \in UnsentCreates(r) :
        /\ tx' = Answered([W(c) EXCEPT ![d] = n], {c, d}, "cancelled")
        /\ purging' = purging \cup Purged({c})
        /\ staged' = Keep(staged, TxIds \ {c})
        /\ queue' = IF Contains(staged, c) THEN queue ELSE Keep(queue, TxIds \ {c})
  BY Zenon DEF RemoveUnsent
<1>2. /\ "delete" \in Kinds /\ d \in TxIds
      /\ UNCHANGED <<sources, saving, scheduled, backoff, parked, runner, laneVars,
                     journal, saved, envelope, outbox, server, bounds>>
  BY Zenon DEF RemoveUnsent, CanIssue
<1>3. /\ tx \in [TxIds -> TxType] /\ sources \in [TxIds -> SUBSET TxIds] /\ Issued \subseteq TxIds
      /\ staged \in Seq(TxIds) /\ queue \in Seq(TxIds)
  BY CorePlaces
<1>4. c \in Issued /\ c \in TxIds /\ tx[c].status # "none" /\ c # d
  <2>1. c \in Issued
    BY DEF UnsentCreates
  <2>2. d \notin Issued
    BY <1>2, NextIdIsNew
  <2>3. QED
    BY <1>3, <2>1, <2>2 DEF Issued
<1> HIDE DEF d
<1>5. n \in TxType /\ n.type = "delete" /\ n.row = r /\ n.status = "completed" /\ n.env = 0 /\ n.conf = "open"
  <2>1. /\ NewTx("delete", r, "plain") \in TxType
        /\ NewTx("delete", r, "plain").type = "delete" /\ NewTx("delete", r, "plain").row = r
        /\ NewTx("delete", r, "plain").env = 0 /\ NewTx("delete", r, "plain").conf = "open"
    BY <1>2, NewTxFacts
  <2>2. QED
    BY <2>1 DEF TxType, Statuses
<1> HIDE DEF n
<1>6. /\ W(c) \in [TxIds -> TxType]
      /\ \A t \in TxIds : W(c)[t] = IF t \in {c} THEN [tx[t] EXCEPT !.status = "rolled_back"] ELSE tx[t]
  <2>1. PICK C : C = {c}
    OBVIOUS
  <2>2. /\ WithStatus(tx, C, "rolled_back") \in [TxIds -> TxType]
        /\ \A t \in TxIds : WithStatus(tx, C, "rolled_back")[t]
                             = IF t \in C THEN [tx[t] EXCEPT !.status = "rolled_back"] ELSE tx[t]
    BY <1>3, WithStatusFacts DEF Statuses
  <2>3. QED
    BY <2>1, <2>2
<1> HIDE DEF W
<1> DEFINE V == [W(c) EXCEPT ![d] = n]
<1>7. V \in [TxIds -> TxType] /\ V[d] = n /\ \A t \in TxIds \ {d} : V[t] = W(c)[t]
  BY <1>2, <1>5, <1>6
<1>8. tx' = Answered(V, {c, d}, "cancelled")
  BY <1>1
<1> HIDE DEF V
<1>9. /\ tx' \in [TxIds -> TxType]
      /\ \A t \in TxIds : tx'[t] = IF t \in {c, d} /\ V[t].conf = "open"
                                   THEN [V[t] EXCEPT !.conf = "cancelled"] ELSE V[t]
  BY <1>7, <1>8, AnsweredFacts
<1>10. ASSUME NEW t \in TxIds \ {d}
       PROVE  /\ WriteKept(t) /\ tx'[t].env = tx[t].env
              /\ tx'[t].status = IF t = c THEN "rolled_back" ELSE tx[t].status
              /\ tx'[t].conf = IF t = c /\ tx[t].conf = "open" THEN "cancelled" ELSE tx[t].conf
  <2>1. tx[t] \in TxType
    BY <1>3
  <2>2. V[t] = IF t = c THEN [tx[t] EXCEPT !.status = "rolled_back"] ELSE tx[t]
    BY <1>6, <1>7
  <2>3. /\ V[t] \in TxType /\ V[t].type = tx[t].type /\ V[t].row = tx[t].row /\ V[t].env = tx[t].env
        /\ V[t].conf = tx[t].conf /\ V[t].status = IF t = c THEN "rolled_back" ELSE tx[t].status
    BY <1>7, <2>1, <2>2 DEF TxType
  <2>4. tx'[t] = IF t = c /\ V[t].conf = "open" THEN [V[t] EXCEPT !.conf = "cancelled"] ELSE V[t]
    BY <1>9
  <2>5. /\ tx'[t].type = V[t].type /\ tx'[t].row = V[t].row /\ tx'[t].env = V[t].env
        /\ tx'[t].status = V[t].status
        /\ tx'[t].conf = IF t = c /\ V[t].conf = "open" THEN "cancelled" ELSE V[t].conf
    BY <2>3, <2>4 DEF TxType
  <2>6. QED
    BY <1>4, <2>3, <2>5 DEF WriteKept
<1>11. /\ tx'[d].type = "delete" /\ tx'[d].row = r /\ tx'[d].status = "completed"
       /\ tx'[d].env = 0 /\ tx'[d].conf = "cancelled"
  <2>1. tx'[d] = [n EXCEPT !.conf = "cancelled"]
    BY <1>2, <1>5, <1>7, <1>9
  <2>2. QED
    BY <1>5, <2>1 DEF TxType
<1>12. /\ staged' \in Seq(TxIds) /\ queue' \in Seq(TxIds)
       /\ ToSet(staged') = ToSet(staged) \ {c} /\ ToSet(queue') \subseteq ToSet(queue)
       /\ ToSet(queue) \ {c} \subseteq ToSet(queue')
  <2>1. ToSet(staged) \subseteq TxIds /\ ToSet(queue) \subseteq TxIds
    BY <1>3, ToSetIn
  <2>2. \A s \in Seq(TxIds) : /\ Keep(s, TxIds \ {c}) \in Seq(TxIds)
                              /\ ToSet(Keep(s, TxIds \ {c})) = ToSet(s) \cap (TxIds \ {c})
    BY KeepFacts
  <2>3. QED
    BY <1>1, <1>3, <2>1, <2>2
<1>13. purging' \subseteq Issued
  <2>1. Purged({c}) \subseteq journal \cup ToSet(saving)
    BY DEF Purged
  <2>2. purging \subseteq Issued /\ journal \subseteq Issued /\ ToSet(saving) \subseteq Issued
    BY TypeParts DEF Core, PlacesTyped, StorageTyped
  <2>3. QED
    BY <1>1, <2>1, <2>2
<1>14. sources[d] = {}
  <2>1. d \notin Issued
    BY <1>2, NextIdIsNew DEF d
  <2>2. QED
    BY <1>2, <2>1 DEF Core, SourcesGood
<1>15. Issues(d)
  <2>1. d = NextId
    BY DEF d
  <2>2. \A t \in TxIds \ {d} : /\ WriteKept(t) /\ tx'[t].env = tx[t].env
                               /\ tx'[t].status \in {tx[t].status, "rolled_back"}
    BY <1>10
  <2>3. QED
    BY <1>2, <1>3, <1>9, <1>11, <1>12, <1>13, <1>14, <2>1, <2>2 DEF Issues
<1>16. QED
  BY <1>1, <1>2, <1>10, <1>11, <1>12, <1>15 DEF d

-----------------------------------------------------------------------------
(* The end of a journal save.                                              *)

SaveEnds(t) ==
    /\ saving # <<>> /\ t = Head(saving) /\ saving' = Tail(saving)
    /\ StoreKept /\ sources' = sources
    /\ saved' \in {saved, saved \cup {t}}
    /\ journal' \subseteq saved' /\ journal' \subseteq journal \cup {t}
    /\ purging' \subseteq Issued
    /\ staged' \in Seq(TxIds) /\ queue' \in Seq(TxIds)
    /\ ToSet(staged') \cup ToSet(queue') \cup parked' \subseteq saved'
    /\ backoff' = backoff
    /\ \A u \in ToSet(batch) : tx'[u].status = tx[u].status
    /\ scheduled' \in BOOLEAN /\ BoundsTyped'
    /\ UNCHANGED <<runner, laneVars, envelope, outbox, server>>

(* It keeps the core of the invariant.                                     *)
LEMMA SaveEndsCore ==
    ASSUME Core, NEW t, SaveEnds(t)
    PROVE  /\ Core' /\ Issued' = Issued /\ Live' = Live
           /\ t \in Issued /\ t \in ToSet(saving) /\ t \notin saved
           /\ ToSet(saving') = ToSet(saving) \ {t}
<1>0. StoreTyped /\ PlacesTyped /\ ControlTyped /\ StorageTyped /\ BoundsTyped
  BY TypeParts DEF Core
<1>1. /\ \A i, j \in DOMAIN saving : saving[i] = saving[j] => i = j
      /\ ToSet(saving) \subseteq Live \ saved
      /\ saved \subseteq Live
      /\ ToSet(staged) \cup ToSet(queue) \cup ToSet(batch) \cup parked \cup journal \subseteq saved
      /\ \A g \in backoff : ToSet(g) \subseteq saved
  BY DEF Core, Homes
<1>2. saving \in Seq(TxIds) /\ saving # <<>> /\ t = Head(saving) /\ saving' = Tail(saving)
  BY <1>0 DEF PlacesTyped, SaveEnds
<1>3. /\ t \in TxIds /\ t \in ToSet(saving) /\ saving' \in Seq(TxIds)
      /\ ToSet(saving') = ToSet(saving) \ {t}
      /\ \A i, j \in DOMAIN saving' : saving'[i] = saving'[j] => i = j
  BY <1>1, <1>2, ToSetTail
<1>4. t \in Issued /\ t \notin saved /\ t \in Live
  BY <1>0, <1>1, <1>3 DEF PlacesTyped
<1>5. \A u \in TxIds : WriteKept(u)
  BY DEF SaveEnds, StoreKept
<1>6. Issued' = Issued
  BY <1>5, KeptIssued
<1>7. SourcesGood' /\ Live' = Live
  BY <1>0, <1>5, KeptSources DEF Core, SaveEnds, StoreTyped
<1>8. saved \subseteq Issued
  BY <1>0 DEF StorageTyped
<1>9. saved' \subseteq Issued /\ saved \subseteq saved' /\ saved' \subseteq saved \cup {t}
  BY <1>4, <1>8 DEF SaveEnds
<1>10. TypeOK'
  <2>1. StoreTyped'
    BY <1>0 DEF SaveEnds, StoreKept, StoreTyped
  <2>2. PlacesTyped'
    BY <1>0, <1>1, <1>3, <1>6, <1>9 DEF PlacesTyped, SaveEnds, runner
  <2>3. ControlTyped' /\ BoundsTyped'
    BY <1>0 DEF ControlTyped, SaveEnds, runner, laneVars
  <2>4. StorageTyped'
    BY <1>0, <1>6, <1>9 DEF StorageTyped, SaveEnds, laneVars, server
  <2>5. QED
    BY <2>1, <2>2, <2>3, <2>4, TypePartsNext
<1>11. Homes'
  <2>1. ToSet(saving') \subseteq Live' \ saved' /\ saved' \subseteq Live'
    BY <1>1, <1>3, <1>4, <1>7, <1>9
  <2>2. QED
    BY <1>1, <1>3, <1>9, <2>1 DEF Homes, SaveEnds, runner
<1>12. Envelopes'
  BY <1>4, <1>7, <1>9 DEF Core, Envelopes, Ops, SaveEnds
<1>13. Ledger'
  BY DEF Core, Ledger, SealedKeys, SaveEnds, laneVars, server
<1>14. Groups'
  BY DEF Core, Groups, Ops, SaveEnds, StoreKept
<1>15. BatchGood'
  <2>1. ToSet(batch) \subseteq TxIds
    BY <1>0 DEF PlacesTyped, Issued
  <2>2. \A u \in ToSet(batch) : tx'[u].env = tx[u].env /\ tx'[u].status = tx[u].status
    BY <2>1 DEF SaveEnds, StoreKept
  <2>3. QED
    BY <2>2, KeptBatch DEF Core, SaveEnds, runner
<1>16. Numbered'
  BY <1>6 DEF Core, Numbered
<1>17. QED
  BY <1>3, <1>4, <1>6, <1>7, <1>10, <1>11, <1>12, <1>13, <1>14, <1>15, <1>16 DEF Core

(* A save lands.                                                           *)
LEMMA PersistedEnds ==
    ASSUME Core, Persisted
    PROVE  /\ SaveEnds(Head(saving)) /\ tx' = tx /\ purging' = purging /\ queue' = queue
           /\ saved' = saved \cup {Head(saving)} /\ journal' = journal \cup {Head(saving)}
           /\ parked \subseteq parked' /\ ToSet(staged) \subseteq ToSet(staged')
           /\ Head(saving) \in parked' \cup ToSet(staged')
<1> DEFINE t == Head(saving)
<1>1. /\ saving # <<>> /\ saving' = Tail(saving) /\ journal' = journal \cup {t} /\ saved' = saved \cup {t}
      /\ \/ parked' = parked \cup {t} /\ staged' = staged
         \/ staged' = Append(staged, t) /\ parked' = parked
      /\ UNCHANGED <<tx, sources, queue, scheduled, backoff, runner, laneVars,
                     purging, envelope, outbox, server, bounds>>
  BY Zenon DEF Persisted
<1>2. t \in TxIds
  BY <1>1, CorePlaces, TailIn
<1> HIDE DEF t
<1>3. StoreKept
  BY <1>1, SameStore
<1>4. /\ staged' \in Seq(TxIds) /\ ToSet(staged') \cup parked' = ToSet(staged) \cup parked \cup {t}
      /\ parked \subseteq parked' /\ ToSet(staged) \subseteq ToSet(staged')
  <2>1. staged \in Seq(TxIds)
    BY CorePlaces
  <2>2. Append(staged, t) \in Seq(TxIds) /\ ToSet(Append(staged, t)) = ToSet(staged) \cup {t}
    BY <1>2, <2>1, ToSetAppend
  <2>3. QED
    BY <1>1, <2>1, <2>2
<1>5. scheduled' \in BOOLEAN /\ BoundsTyped'
  BY <1>1, CorePlaces DEF ControlTyped, BoundsTyped, bounds
<1>6. SaveEnds(t)
  <2>1. t = Head(saving)
    BY DEF t
  <2>2. QED
    BY <1>1, <1>3, <1>4, <1>5, <2>1, CorePlaces DEF SaveEnds
<1>7. QED
  BY <1>1, <1>4, <1>6 DEF t

(* A save fails.                                                           *)
LEMMA PersistFailedEnds ==
    ASSUME Core, PersistFailed
    PROVE  LET t == Head(saving) IN
           /\ SaveEnds(t) /\ saved' = saved /\ journal' = journal /\ staged' = staged
           /\ purging' = (purging \cup Purged({t})) \ {t}
           /\ parked' = parked \ ReleasedBy({t})
           /\ \A x : x \in ToSet(queue')
                     <=> x \in ToSet(queue) \/ (x \in ReleasedBy({t}) /\ PendingIn(tx', x))
           /\ \A u \in TxIds : /\ tx'[u].status = IF u = t THEN "failed" ELSE tx[u].status
                               /\ tx'[u].conf = IF u = t /\ tx[u].conf = "open" THEN "rejected"
                                                ELSE tx[u].conf
<1> DEFINE t == Head(saving)
<1>0. PICK S : S = {t}
  OBVIOUS
<1>1. /\ saving # <<>> /\ Fault("save") /\ saving' = Tail(saving)
      /\ tx' = Answered(WithStatus(tx, S, "failed"), S, "rejected")
      /\ parked' = parked \ ReleasedBy(S)
      /\ queue' = EnqueueAll(queue, InOrder(ReleasedBy(S)), tx')
      /\ scheduled' = (scheduled \/ queue' # queue)
      /\ purging' = (purging \cup Purged(S)) \ {t}
      /\ UNCHANGED <<sources, staged, backoff, runner, laneVars, journal, saved,
                     envelope, outbox, server, crashes>>
  BY <1>0, Zenon DEF PersistFailed, Failed
<1>2. t \in TxIds /\ t \in ToSet(saving)
  BY <1>1, CorePlaces, TailIn
<1>3. t \in Issued /\ t \notin saved
  BY <1>2, TypeParts DEF Core, PlacesTyped, Homes
<1>a. t = Head(saving)
  OBVIOUS
<1> HIDE DEF t
<1>4. tx \in [TxIds -> TxType]
  BY CorePlaces
<1> DEFINE V == WithStatus(tx, S, "failed")
<1>5. /\ V \in [TxIds -> TxType]
      /\ \A u \in TxIds : V[u] = IF u \in S THEN [tx[u] EXCEPT !.status = "failed"] ELSE tx[u]
  BY <1>4, WithStatusFacts DEF Statuses
<1>6. tx' = Answered(V, S, "rejected")
  BY <1>1
<1> HIDE DEF V
<1>7. /\ tx' \in [TxIds -> TxType]
      /\ \A u \in TxIds : tx'[u] = IF u \in S /\ V[u].conf = "open"
                                   THEN [V[u] EXCEPT !.conf = "rejected"] ELSE V[u]
  BY <1>5, <1>6, AnsweredFacts
<1>8. ASSUME NEW u \in TxIds
      PROVE  /\ WriteKept(u) /\ tx'[u].env = tx[u].env
             /\ tx'[u].status = IF u = t THEN "failed" ELSE tx[u].status
             /\ tx'[u].conf = IF u = t /\ tx[u].conf = "open" THEN "rejected" ELSE tx[u].conf
  <2>1. tx[u] \in TxType
    BY <1>4
  <2>2. V[u] = IF u = t THEN [tx[u] EXCEPT !.status = "failed"] ELSE tx[u]
    BY <1>0, <1>5
  <2>3. /\ V[u] \in TxType /\ V[u].type = tx[u].type /\ V[u].row = tx[u].row /\ V[u].env = tx[u].env
        /\ V[u].conf = tx[u].conf /\ V[u].status = IF u = t THEN "failed" ELSE tx[u].status
    BY <1>5, <2>1, <2>2 DEF TxType
  <2>4. tx'[u] = IF u = t /\ V[u].conf = "open" THEN [V[u] EXCEPT !.conf = "rejected"] ELSE V[u]
    BY <1>0, <1>7
  <2>5. /\ tx'[u].type = V[u].type /\ tx'[u].row = V[u].row /\ tx'[u].env = V[u].env
        /\ tx'[u].status = V[u].status
        /\ tx'[u].conf = IF u = t /\ V[u].conf = "open" THEN "rejected" ELSE V[u].conf
    BY <2>3, <2>4 DEF TxType
  <2>6. tx[t].status # "none"
    BY <1>3 DEF Issued
  <2>7. QED
    BY <2>3, <2>5, <2>6 DEF WriteKept
<1>9. StoreKept
  BY <1>7, <1>8 DEF StoreKept
<1>10. /\ queue' \in Seq(TxIds) /\ ReleasedBy(S) \subseteq parked
       /\ \A x : x \in ToSet(queue')
                 <=> x \in ToSet(queue) \/ (x \in ReleasedBy(S) /\ PendingIn(tx', x))
  <2>1. PlacesTyped
    BY TypeParts DEF Core
  <2>2. QED
    BY <1>1, <2>1, ReleaseFacts
<1>11. purging' \subseteq Issued
  <2>1. Purged(S) \subseteq journal \cup ToSet(saving)
    BY DEF Purged
  <2>2. purging \subseteq Issued /\ journal \subseteq Issued /\ ToSet(saving) \subseteq Issued
    BY TypeParts DEF Core, PlacesTyped, StorageTyped
  <2>3. QED
    BY <1>1, <2>1, <2>2
<1>12. scheduled' \in BOOLEAN /\ BoundsTyped'
  <2>1. faults' \in 0..MaxFaults
    BY <1>1, FaultBound
  <2>2. QED
    BY <1>1, <2>1, CorePlaces DEF ControlTyped, BoundsTyped
<1>13. \A u \in ToSet(batch) : tx'[u].status = tx[u].status
  BY <1>3, <1>8, CorePlaces
<1>14. SaveEnds(t)
  <2>1. ToSet(staged) \cup ToSet(queue') \cup parked' \subseteq saved
    BY <1>1, <1>10, CorePlaces
  <2>2. staged \in Seq(TxIds) /\ journal \subseteq saved
    BY CorePlaces
  <2>3. QED
    BY <1>1, <1>9, <1>10, <1>11, <1>12, <1>13, <1>a, <2>1, <2>2 DEF SaveEnds
<1>15. /\ SaveEnds(t) /\ saved' = saved /\ journal' = journal /\ staged' = staged
       /\ purging' = (purging \cup Purged({t})) \ {t}
       /\ parked' = parked \ ReleasedBy({t})
       /\ \A x : x \in ToSet(queue')
                 <=> x \in ToSet(queue) \/ (x \in ReleasedBy({t}) /\ PendingIn(tx', x))
       /\ \A u \in TxIds : /\ tx'[u].status = IF u = t THEN "failed" ELSE tx[u].status
                           /\ tx'[u].conf = IF u = t /\ tx[u].conf = "open" THEN "rejected"
                                            ELSE tx[u].conf
  <2>1. \A u \in TxIds : /\ tx'[u].status = IF u = t THEN "failed" ELSE tx[u].status
                         /\ tx'[u].conf = IF u = t /\ tx[u].conf = "open" THEN "rejected"
                                          ELSE tx[u].conf
    BY <1>8
  <2>2. QED
    BY <1>0, <1>1, <1>10, <1>14, <2>1, Zenon
<1>16. QED
  BY <1>15 DEF t

-----------------------------------------------------------------------------
(* Minting, sealing, sending and deciding.                                 *)

(* A batch that is being processed has a first write.                      *)
LEMMA BatchHead ==
    ASSUME Core, phase # "idle"
    PROVE  /\ batch # <<>> /\ batch \in Seq(TxIds) /\ batch[1] \in ToSet(batch)
           /\ ToSet(batch) \subseteq TxIds /\ ToSet(batch) # {}
           /\ Key \in Keys \cup {0} /\ (Key # 0 => Key \in DOMAIN envelope /\ batch = envelope[Key].ops)
<1>1. batch # <<>> /\ batch \in Seq(TxIds)
  BY CorePlaces DEF ControlTyped
<1>2. batch[1] \in ToSet(batch) /\ ToSet(batch) \subseteq TxIds
  BY <1>1, EmptySeq, ToSetIn
<1>3. Key \in Keys \cup {0}
  <2>1. tx[batch[1]] \in TxType
    BY <1>2, CorePlaces
  <2>2. QED
    BY <2>1 DEF Key, TxType
<1>4. ASSUME Key # 0 PROVE Key \in DOMAIN envelope /\ batch = envelope[Key].ops
  <2>1. Key \in DOMAIN envelope
    BY <1>2, <1>4 DEF Core, Groups, Key
  <2>2. batch = envelope[Key].ops
    BY <1>1, <1>4 DEF Core, BatchGood
  <2>3. QED
    BY <2>1, <2>2
<1>5. QED
  BY <1>1, <1>2, <1>3, <1>4

(* What preparing a batch does to the envelopes and the store.             *)
LEMMA PreparedFacts ==
    ASSUME Core, Prepared
    PROVE  \E k \in Keys :
             /\ \/ /\ Key = 0 /\ k = Len(envelope) + 1 /\ k \notin DOMAIN envelope
                   /\ DOMAIN envelope' = DOMAIN envelope \cup {k}
                   /\ envelope'[k] = [ops |-> batch, rows |-> {}, sealed |-> FALSE]
                   /\ \A l \in DOMAIN envelope : envelope'[l] = envelope[l]
                \/ k = Key /\ k \in DOMAIN envelope /\ envelope' = envelope
             /\ envelope' \in Seq(Envelope) /\ Len(envelope') <= MaxKeys
             /\ k \in DOMAIN envelope' /\ envelope'[k].ops = batch
             /\ tx' \in [TxIds -> TxType]
             /\ \A t \in TxIds : /\ WriteKept(t) /\ tx'[t].conf = tx[t].conf
                                 /\ t \in ToSet(batch) => tx'[t].env = k /\ tx'[t].status = "executing"
                                 /\ t \notin ToSet(batch) => tx'[t] = tx[t]
             /\ phase' = IF envelope'[k].sealed THEN "ready" ELSE "sealing"
             /\ UNCHANGED <<sources, saving, staged, queue, scheduled, backoff, parked,
                            batch, blocked, laneVars, journal, saved, purging, outbox, server, bounds>>
<1> DEFINE k == IF Key = 0 THEN Len(envelope) + 1 ELSE Key
           e == [ops |-> batch, rows |-> {}, sealed |-> FALSE]
<1>1. /\ phase = "preparing" /\ k \in Keys
      /\ envelope' = IF Key = 0 THEN Append(envelope, e) ELSE envelope
      /\ tx' = [t \in TxIds |-> IF Contains(batch, t)
                                THEN [tx[t] EXCEPT !.status = "executing", !.env = k] ELSE tx[t]]
      /\ phase' = IF envelope'[k].sealed THEN "ready" ELSE "sealing"
      /\ UNCHANGED <<sources, saving, staged, queue, scheduled, backoff, parked,
                     batch, blocked, laneVars, journal, saved, purging, outbox, server, bounds>>
  BY Zenon DEF Prepared
<1>2. /\ batch \in Seq(TxIds) /\ ToSet(batch) \subseteq TxIds
      /\ (Key # 0 => Key \in DOMAIN envelope /\ batch = envelope[Key].ops)
  BY <1>1, BatchHead
<1>3. StorageTyped /\ StoreTyped
  BY TypeParts DEF Core
<1>4. envelope \in Seq(Envelope) /\ Len(envelope) \in Nat /\ DOMAIN envelope = 1..Len(envelope)
      /\ Len(envelope) <= MaxKeys /\ MaxKeys \in Nat
  BY <1>3, EnvelopeIn, QueueAssumption DEF StorageTyped
<1>5. e \in Envelope /\ e.ops = batch
  BY <1>2 DEF Envelope
<1> HIDE DEF e
<1>6. /\ \/ /\ Key = 0 /\ k = Len(envelope) + 1 /\ k \notin DOMAIN envelope
            /\ DOMAIN envelope' = DOMAIN envelope \cup {k}
            /\ envelope'[k] = e
            /\ \A l \in DOMAIN envelope : envelope'[l] = envelope[l]
         \/ k = Key /\ k \in DOMAIN envelope /\ envelope' = envelope
      /\ envelope' \in Seq(Envelope) /\ Len(envelope') <= MaxKeys
      /\ k \in DOMAIN envelope' /\ envelope'[k].ops = batch
  <2>1. CASE Key = 0
    <3>1. k = Len(envelope) + 1 /\ envelope' = Append(envelope, e)
      BY <1>1, <2>1
    <3>a. k \in Keys
      BY <1>1
    <3> HIDE DEF k
    <3>2. k \notin DOMAIN envelope /\ k <= MaxKeys
      BY <1>4, <3>1, <3>a DEF Keys
    <3>3. /\ envelope' \in Seq(Envelope) /\ Len(envelope') = Len(envelope) + 1
          /\ (\A l \in 1..Len(envelope) : envelope'[l] = envelope[l])
          /\ envelope'[Len(envelope) + 1] = e
      BY <1>4, <1>5, <3>1, AppendProperties
    <3>4. DOMAIN envelope' = 1..(Len(envelope) + 1)
      BY <3>3, LenProperties
    <3>5. DOMAIN envelope' = DOMAIN envelope \cup {k}
      BY <1>4, <3>1, <3>4
    <3>6. envelope'[k] = e /\ Len(envelope') <= MaxKeys /\ k \in DOMAIN envelope'
      BY <3>1, <3>2, <3>3, <3>5
    <3>7. \A l \in DOMAIN envelope : envelope'[l] = envelope[l]
      BY <1>4, <3>3
    <3>8. QED
      BY <2>1, <1>5, <3>1, <3>2, <3>3, <3>5, <3>6, <3>7, Zenon
  <2>2. CASE Key # 0
    BY <1>1, <1>2, <1>4, <2>2
  <2>3. QED
    BY <2>1, <2>2
<1>7. ASSUME NEW t \in TxIds
      PROVE  /\ tx'[t] \in TxType /\ WriteKept(t) /\ tx'[t].conf = tx[t].conf
             /\ t \in ToSet(batch) => tx'[t].env = k /\ tx'[t].status = "executing"
             /\ t \notin ToSet(batch) => tx'[t] = tx[t]
  <2>1. tx[t] \in TxType
    BY <1>3 DEF StoreTyped
  <2>2. CASE t \in ToSet(batch)
    <3>1. tx[t].status # "none"
      BY <2>2, CorePlaces DEF Issued
    <3>2. tx'[t] = [tx[t] EXCEPT !.status = "executing", !.env = k]
      BY <1>1, <1>2, <2>2, ToSetIn
    <3>3. k \in Keys
      BY <1>1
    <3> HIDE DEF k
    <3> DEFINE p == [tx[t] EXCEPT !.status = "executing"]
    <3>4. /\ p \in TxType /\ p.type = tx[t].type /\ p.row = tx[t].row
          /\ p.status = "executing" /\ p.conf = tx[t].conf
      BY <2>1 DEF TxType, Statuses
    <3>5. tx'[t] = [p EXCEPT !.env = k]
      BY <3>2
    <3> HIDE DEF p
    <3>6. /\ tx'[t] \in TxType /\ tx'[t].type = p.type /\ tx'[t].row = p.row
          /\ tx'[t].status = p.status /\ tx'[t].conf = p.conf /\ tx'[t].env = k
      BY <3>3, <3>4, <3>5 DEF TxType
    <3>7. QED
      BY <2>2, <3>1, <3>4, <3>6 DEF WriteKept
  <2>3. CASE t \notin ToSet(batch)
    <3>1. tx'[t] = tx[t]
      BY <1>1, <1>2, <2>3, ToSetIn
    <3>2. QED
      BY <2>1, <2>3, <3>1 DEF WriteKept
  <2>4. QED
    BY <2>2, <2>3
<1>8. tx' \in [TxIds -> TxType]
  BY <1>1, <1>7
<1>9. QED
  <2> HIDE DEF k
  <2>1. k \in Keys
    BY <1>1
  <2>2. QED
    BY <1>1, <1>6, <1>7, <1>8, <2>1 DEF e

(* It keeps the core of the invariant.                                     *)
LEMMA PreparedCore ==
    ASSUME Core, Prepared
    PROVE  Core' /\ Issued' = Issued
<1>0. StoreTyped /\ PlacesTyped /\ ControlTyped /\ StorageTyped /\ BoundsTyped
  BY TypeParts DEF Core
<1>1. PICK k \in Keys :
        /\ \/ /\ Key = 0 /\ k = Len(envelope) + 1 /\ k \notin DOMAIN envelope
              /\ DOMAIN envelope' = DOMAIN envelope \cup {k}
              /\ envelope'[k] = [ops |-> batch, rows |-> {}, sealed |-> FALSE]
              /\ \A l \in DOMAIN envelope : envelope'[l] = envelope[l]
           \/ k = Key /\ k \in DOMAIN envelope /\ envelope' = envelope
        /\ envelope' \in Seq(Envelope) /\ Len(envelope') <= MaxKeys
        /\ k \in DOMAIN envelope' /\ envelope'[k].ops = batch
        /\ tx' \in [TxIds -> TxType]
        /\ \A t \in TxIds : /\ WriteKept(t) /\ tx'[t].conf = tx[t].conf
                            /\ t \in ToSet(batch) => tx'[t].env = k /\ tx'[t].status = "executing"
                            /\ t \notin ToSet(batch) => tx'[t] = tx[t]
        /\ phase' = IF envelope'[k].sealed THEN "ready" ELSE "sealing"
        /\ UNCHANGED <<sources, saving, staged, queue, scheduled, backoff, parked,
                       batch, blocked, laneVars, journal, saved, purging, outbox, server, bounds>>
  BY PreparedFacts
<1>2. /\ batch # <<>> /\ batch \in Seq(TxIds) /\ batch[1] \in ToSet(batch) /\ ToSet(batch) \subseteq TxIds
  BY BatchHead DEF Prepared
<1>3. DOMAIN envelope \subseteq DOMAIN envelope' /\ \A l \in DOMAIN envelope : envelope'[l] = envelope[l]
  BY <1>1
<1>4. \A l \in DOMAIN envelope' : \/ l \in DOMAIN envelope
                                  \/ envelope'[l] = [ops |-> batch, rows |-> {}, sealed |-> FALSE]
  BY <1>1
<1>5. Issued' = Issued
  BY <1>1, KeptIssued
<1>6. SourcesGood' /\ Live' = Live
  <2>1. SourcesGood /\ sources \in [TxIds -> SUBSET TxIds] /\ sources' = sources
        /\ \A t \in TxIds : WriteKept(t)
    BY <1>0, <1>1 DEF Core, StoreTyped
  <2>2. QED
    BY <2>1, KeptSources
<1>7. SealedKeys' = SealedKeys
  BY <1>3, <1>4 DEF SealedKeys
<1>8. 0 \notin Keys /\ k # 0
  BY <1>0, EnvelopeIn
<1>9. TypeOK'
  <2>1. StoreTyped'
    BY <1>0, <1>1 DEF StoreTyped
  <2>2. PlacesTyped'
    BY <1>0, <1>1, <1>5 DEF PlacesTyped
  <2>3. ControlTyped' /\ BoundsTyped'
    <3>1. phase' \in {"ready", "sealing"} /\ batch' = batch
      BY <1>1
    <3>2. QED
      BY <1>0, <1>1, <1>2, <3>1 DEF ControlTyped, BoundsTyped, laneVars, bounds
  <2>4. StorageTyped'
    BY <1>0, <1>1, <1>3, <1>5 DEF StorageTyped, laneVars, server
  <2>5. QED
    BY <2>1, <2>2, <2>3, <2>4, TypePartsNext
<1>10. Homes'
  BY <1>1, <1>6 DEF Core, Homes
<1>11. Envelopes'
  <2>1. ASSUME NEW l \in DOMAIN envelope'
        PROVE  /\ envelope'[l].ops # <<>> /\ ToSet(envelope'[l].ops) \subseteq Live
               /\ envelope'[l].rows \subseteq saved \ journal
               /\ IF envelope'[l].sealed THEN ToSet(envelope'[l].ops) \subseteq envelope'[l].rows
                                         ELSE envelope'[l].rows = {}
    <3>1. CASE l \in DOMAIN envelope
      BY <1>3, <3>1 DEF Core, Envelopes, Ops
    <3>2. CASE envelope'[l] = [ops |-> batch, rows |-> {}, sealed |-> FALSE]
      <4>1. envelope'[l].ops = batch /\ envelope'[l].rows = {} /\ envelope'[l].sealed = FALSE
        BY <3>2
      <4>2. ToSet(batch) \subseteq Live
        BY DEF Core, Homes
      <4>3. QED
        BY <4>1, <4>2, <1>2
    <3>3. QED
      BY <2>1, <1>4, <3>1, <3>2
  <2>2. QED
    BY <2>1, <1>1, <1>6 DEF Envelopes, Ops
<1>12. Ledger'
  BY <1>1, <1>7 DEF Core, Ledger, laneVars, server
<1>13. Groups'
  <2>1. SUFFICES ASSUME NEW t \in TxIds, tx'[t].env # 0
                 PROVE  tx'[t].env \in DOMAIN envelope' /\ t \in ToSet(envelope'[tx'[t].env].ops)
    BY DEF Groups, Ops
  <2>2. CASE t \in ToSet(batch)
    <3>1. tx'[t].env = k
      BY <1>1, <2>2
    <3>2. QED
      BY <1>1, <2>2, <3>1
  <2>3. CASE t \notin ToSet(batch)
    <3>1. tx'[t] = tx[t]
      BY <1>1, <2>3
    <3>2. tx[t].env \in DOMAIN envelope /\ t \in ToSet(envelope[tx[t].env].ops)
      BY <2>1, <3>1 DEF Core, Groups, Ops
    <3>3. QED
      BY <1>3, <3>1, <3>2
  <2>4. QED
    BY <2>2, <2>3
<1>14. BatchGood'
  <2>1. Key' = k /\ batch' = batch
    BY <1>1, <1>2 DEF Key
  <2>2. \A t \in ToSet(batch') : tx'[t].env = k /\ tx'[t].status = "executing"
    BY <1>1, <1>2
  <2>3. phase' \in {"ready", "sealing"} /\ (envelope'[k].sealed <=> phase' # "sealing")
    BY <1>1
  <2>4. batch' = envelope'[k].ops
    BY <1>1
  <2>5. QED
    BY <1>8, <2>1, <2>2, <2>3, <2>4 DEF BatchGood
<1>15. Numbered'
  BY <1>5 DEF Core, Numbered
<1>16. QED
  BY <1>5, <1>6, <1>9, <1>10, <1>11, <1>12, <1>13, <1>14, <1>15 DEF Core

(* What a seal does to the envelopes.                                      *)
LEMMA SealFacts ==
    ASSUME Core, Seal
    PROVE  /\ Key \in DOMAIN envelope /\ ~envelope[Key].sealed /\ batch = envelope[Key].ops
           /\ Ops(Key) \subseteq BatchRows /\ BatchRows \subseteq journal
           /\ envelope' \in Seq(Envelope) /\ Len(envelope') = Len(envelope)
           /\ DOMAIN envelope' = DOMAIN envelope
           /\ \A k \in DOMAIN envelope : /\ envelope'[k].ops = envelope[k].ops
                                         /\ k # Key => envelope'[k] = envelope[k]
           /\ envelope'[Key].sealed = TRUE /\ envelope'[Key].rows = BatchRows
           /\ journal' = journal \ BatchRows /\ outbox' = outbox \cup {Key} /\ phase' = "ready"
           /\ UNCHANGED <<memory, batch, blocked, laneVars, saved, purging, server, bounds>>
<1>1. /\ phase = "sealing" /\ BatchRows \subseteq journal /\ journal' = journal \ BatchRows
      /\ envelope' = [envelope EXCEPT ![Key].sealed = TRUE, ![Key].rows = BatchRows]
      /\ outbox' = outbox \cup {Key} /\ phase' = "ready"
      /\ UNCHANGED <<memory, batch, blocked, laneVars, saved, purging, server, bounds>>
  BY DEF Seal
<1>2. Key # 0 /\ ~envelope[Key].sealed
  BY <1>1 DEF Core, BatchGood
<1>3. Key \in DOMAIN envelope /\ batch = envelope[Key].ops /\ ToSet(batch) \subseteq TxIds
  BY <1>1, <1>2, BatchHead
<1>4. Ops(Key) \subseteq BatchRows
  <2>1. \A t \in ToSet(batch) : t \in sources[t]
    BY DEF Core, Homes, Live
  <2>2. QED
    BY <1>3, <2>1 DEF Ops, BatchRows
<1>5. StorageTyped
  BY TypeParts DEF Core
<1>6. BatchRows \in SUBSET TxIds
  BY <1>3, CorePlaces DEF BatchRows
<1> DEFINE K == Key
           R == BatchRows
           e == [[envelope[K] EXCEPT !.sealed = TRUE] EXCEPT !.rows = R]
<1> HIDE DEF K, R
<1>7. K \in DOMAIN envelope /\ R \in SUBSET TxIds
  BY <1>3, <1>6 DEF K, R
<1>8. envelope[K] \in Envelope /\ envelope \in Seq(Envelope)
  BY <1>5, <1>7, EnvelopeIn DEF StorageTyped
<1>9. e \in Envelope /\ e.ops = envelope[K].ops /\ e.sealed = TRUE /\ e.rows = R
  BY <1>7, <1>8 DEF Envelope
<1>10. envelope' = [envelope EXCEPT ![K] = e]
  <2>1. envelope' = [envelope EXCEPT ![K].sealed = TRUE, ![K].rows = R]
    BY <1>1 DEF K, R
  <2>2. envelope' = [[envelope EXCEPT ![K] = [envelope[K] EXCEPT !.sealed = TRUE]]
                        EXCEPT ![K] = [[envelope EXCEPT ![K] = [envelope[K] EXCEPT !.sealed = TRUE]][K]
                                          EXCEPT !.rows = R]]
    BY <2>1
  <2> DEFINE s == [envelope[K] EXCEPT !.sealed = TRUE]
             m == [envelope EXCEPT ![K] = s]
  <2>3. m[K] = s /\ envelope' = [m EXCEPT ![K] = [m[K] EXCEPT !.rows = R]]
    BY <1>7, <2>2
  <2> HIDE DEF s
  <2>4. m[K] = s
    BY <2>3
  <2>5. envelope' = [m EXCEPT ![K] = [s EXCEPT !.rows = R]]
    BY <2>3, <2>4
  <2>6. envelope' = [envelope EXCEPT ![K] = [s EXCEPT !.rows = R]]
    BY <2>5
  <2>7. QED
    BY <2>6 DEF s
<1> HIDE DEF e
<1>11. /\ envelope' \in Seq(Envelope) /\ Len(envelope') = Len(envelope)
       /\ DOMAIN envelope' = DOMAIN envelope
       /\ envelope'[K] = e /\ \A k \in DOMAIN envelope : k # K => envelope'[k] = envelope[k]
  BY <1>7, <1>8, <1>9, <1>10, ExceptSeq, LenProperties
<1>12. QED
  BY <1>1, <1>2, <1>3, <1>4, <1>9, <1>11 DEF K, R

(* It keeps the core of the invariant.                                     *)
LEMMA SealCore ==
    ASSUME Core, Seal
    PROVE  Core' /\ Issued' = Issued
<1>0. StoreTyped /\ PlacesTyped /\ ControlTyped /\ StorageTyped /\ BoundsTyped
  BY TypeParts DEF Core
<1>1. /\ Key \in DOMAIN envelope /\ ~envelope[Key].sealed /\ batch = envelope[Key].ops
      /\ Ops(Key) \subseteq BatchRows /\ BatchRows \subseteq journal
      /\ envelope' \in Seq(Envelope) /\ Len(envelope') = Len(envelope)
      /\ DOMAIN envelope' = DOMAIN envelope
      /\ \A k \in DOMAIN envelope : /\ envelope'[k].ops = envelope[k].ops
                                    /\ k # Key => envelope'[k] = envelope[k]
      /\ envelope'[Key].sealed = TRUE /\ envelope'[Key].rows = BatchRows
      /\ journal' = journal \ BatchRows /\ outbox' = outbox \cup {Key} /\ phase' = "ready"
      /\ UNCHANGED <<memory, batch, blocked, laneVars, saved, purging, server, bounds>>
  BY SealFacts
<1>2. tx' = tx /\ sources' = sources /\ saving' = saving /\ staged' = staged /\ queue' = queue
      /\ scheduled' = scheduled /\ backoff' = backoff /\ parked' = parked
  BY <1>1 DEF memory
<1>3. Issued' = Issued /\ Live' = Live /\ SourcesGood' /\ Numbered'
  <2>1. Issued' = Issued /\ Live' = Live
    BY <1>2 DEF Issued, Live
  <2>2. QED
    BY <1>2, <2>1 DEF Core, SourcesGood, Supersedes, Numbered
<1>4. SealedKeys' = SealedKeys \cup {Key}
  BY <1>1 DEF SealedKeys
<1>5. batch # <<>> /\ batch[1] \in ToSet(batch)
  BY BatchHead DEF Seal
<1>6. TypeOK'
  <2>1. StoreTyped'
    BY <1>0, <1>2 DEF StoreTyped
  <2>2. PlacesTyped'
    BY <1>0, <1>1, <1>2, <1>3 DEF PlacesTyped
  <2>3. ControlTyped' /\ BoundsTyped'
    BY <1>0, <1>1, <1>2, <1>5 DEF ControlTyped, BoundsTyped, laneVars, bounds
  <2>4. StorageTyped'
    BY <1>0, <1>1, <1>3 DEF StorageTyped, laneVars, server
  <2>5. QED
    BY <2>1, <2>2, <2>3, <2>4, TypePartsNext
<1>7. Homes'
  BY <1>1, <1>2, <1>3 DEF Core, Homes
<1>8. Envelopes'
  <2>1. SUFFICES ASSUME NEW k \in DOMAIN envelope
                 PROVE  /\ envelope'[k].ops # <<>> /\ ToSet(envelope'[k].ops) \subseteq Live
                        /\ envelope'[k].rows \subseteq saved \ journal'
                        /\ IF envelope'[k].sealed THEN ToSet(envelope'[k].ops) \subseteq envelope'[k].rows
                                                  ELSE envelope'[k].rows = {}
    BY <1>1, <1>3 DEF Envelopes, Ops
  <2>2. envelope[k].ops # <<>> /\ Ops(k) \subseteq Live /\ envelope'[k].ops = envelope[k].ops
    BY <1>1 DEF Core, Envelopes
  <2>3. CASE k = Key
    <3>1. journal \subseteq saved
      BY DEF Core, Homes
    <3>2. QED
      BY <1>1, <2>2, <2>3, <3>1 DEF Ops
  <2>4. CASE k # Key
    BY <1>1, <2>4 DEF Core, Envelopes, Ops
  <2>5. QED
    BY <2>3, <2>4
<1>9. Ledger'
  BY <1>1, <1>4 DEF Core, Ledger, laneVars, server
<1>10. Groups'
  BY <1>1, <1>2 DEF Core, Groups, Ops
<1>11. BatchGood'
  <2>1. Key' = Key /\ batch' = batch
    BY <1>1, <1>2 DEF Key
  <2>2. \A t \in ToSet(batch) : tx[t].env = Key /\ tx[t].status \in {"rolled_back", "executing"}
    BY DEF Core, BatchGood, Seal
  <2>3. Key # 0
    BY DEF Core, BatchGood, Seal
  <2>4. batch' = envelope'[Key].ops
    BY <1>1
  <2>5. QED
    BY <1>1, <1>2, <2>1, <2>2, <2>3, <2>4 DEF BatchGood
<1>12. QED
  BY <1>3, <1>6, <1>7, <1>8, <1>9, <1>10, <1>11 DEF Core

(* Steps that only send a key or decide one.                               *)
LEMMA WireCore ==
    ASSUME Core, UNCHANGED <<memory, batch, blocked, storage, bounds, lane, laneWaits>>,
           laneBusy' \in BOOLEAN, laneBusy' => lane # <<>>,
           phase' = phase \/ (phase = "ready" /\ phase' = "inflight"),
           wire \subseteq wire', wire' \subseteq SealedKeys,
           verdict' \in [Keys -> Replies \cup {"none"}],
           \A k \in Keys : verdict'[k] # "none" => k \in wire',
           \A k \in laneWaits : verdict'[k] = "queued",
           log' \in Seq(Keys), \A k \in Keys : k \in ToSet(log') <=> verdict'[k] \in Accepting
    PROVE  Core'
<1>0. StoreTyped /\ PlacesTyped /\ ControlTyped /\ StorageTyped /\ BoundsTyped
  BY TypeParts DEF Core
<1>1. tx' = tx /\ sources' = sources /\ saving' = saving /\ staged' = staged /\ queue' = queue
      /\ scheduled' = scheduled /\ backoff' = backoff /\ parked' = parked /\ journal' = journal
      /\ saved' = saved /\ purging' = purging /\ envelope' = envelope /\ outbox' = outbox
      /\ batch' = batch /\ blocked' = blocked
  BY DEF memory, storage
<1>2. Issued' = Issued /\ Live' = Live /\ SealedKeys' = SealedKeys
  BY <1>1 DEF Issued, Live, SealedKeys
<1>3. SourcesGood' /\ Numbered' /\ Homes' /\ Groups'
  BY <1>1, <1>2 DEF Core, SourcesGood, Supersedes, Numbered, Homes, Groups, Ops
<1>4. Envelopes'
  BY <1>1, <1>2 DEF Core, Envelopes, Ops
<1>5. SealedKeys \subseteq DOMAIN envelope /\ DOMAIN envelope \subseteq Keys
  BY <1>0, EnvelopeIn DEF SealedKeys
<1>6. ToSet(log') \subseteq DOMAIN envelope
  <2>1. ASSUME NEW k \in ToSet(log') PROVE k \in DOMAIN envelope
    <3>1. k \in Keys
      BY ToSetIn
    <3>2. verdict'[k] # "none"
      BY <3>1 DEF Accepting
    <3>3. QED
      BY <1>5, <3>1, <3>2
  <2>2. QED
    BY <2>1
<1>7. TypeOK'
  <2>1. StoreTyped' /\ PlacesTyped'
    BY <1>0, <1>1, <1>2 DEF StoreTyped, PlacesTyped
  <2>2. ControlTyped' /\ BoundsTyped'
    BY <1>0, <1>1 DEF ControlTyped, BoundsTyped, bounds
  <2>3. StorageTyped'
    BY <1>0, <1>1, <1>2, <1>5, <1>6 DEF StorageTyped
  <2>4. QED
    BY <2>1, <2>2, <2>3, TypePartsNext
<1>8. Ledger'
  BY <1>1, <1>2 DEF Core, Ledger
<1>9. BatchGood'
  <2>1. Key' = Key
    BY <1>1 DEF Key
  <2>2. QED
    BY <1>1, <2>1 DEF Core, BatchGood
<1>10. QED
  BY <1>3, <1>4, <1>7, <1>8, <1>9 DEF Core

(* The batch, or the head of the lane, goes out.                           *)
LEMMA SendCore ==
    ASSUME Core, Dispatch \/ LaneSend
    PROVE  Core'
<1>1. StorageTyped /\ Ledger /\ wire \subseteq SealedKeys
  BY TypeParts DEF Core, Ledger
<1>2. CASE Dispatch
  <2>1. Key \in SealedKeys
    <3>1. Key # 0 /\ envelope[Key].sealed
      BY <1>2 DEF Dispatch, Core, BatchGood
    <3>2. Key \in DOMAIN envelope
      BY <1>2, <3>1, BatchHead DEF Dispatch
    <3>3. QED
      BY <3>1, <3>2 DEF SealedKeys
  <2>2. /\ phase = "ready" /\ phase' = "inflight" /\ wire' = wire \cup {Key}
        /\ UNCHANGED <<memory, batch, blocked, laneVars, storage, verdict, log, bounds>>
    BY <1>2 DEF Dispatch
  <2>3. laneBusy' \in BOOLEAN /\ (laneBusy' => lane # <<>>)
    BY <2>2, CorePlaces DEF laneVars, ControlTyped
  <2>4. QED
    BY <1>1, <2>1, <2>2, <2>3, WireCore DEF StorageTyped, Ledger, laneVars
<1>3. CASE LaneSend
  <2>1. /\ lane # <<>> /\ laneBusy' = TRUE /\ wire' = wire \cup {Head(lane)}
        /\ UNCHANGED <<memory, runner, lane, laneWaits, storage, verdict, log, bounds>>
    BY <1>3 DEF LaneSend
  <2>2. Head(lane) \in SealedKeys
    <3>1. Head(lane) \in ToSet(lane)
      BY <2>1, CorePlaces, TailIn
    <3>2. QED
      BY <1>1, <3>1 DEF Ledger
  <2>3. QED
    BY <1>1, <2>1, <2>2, WireCore DEF StorageTyped, Ledger, runner
<1>4. QED
  BY <1>2, <1>3

(* What the server's decision does to its log.                             *)
LEMMA DecideFacts ==
    ASSUME Core, NEW k \in Keys, NEW reply \in Replies, ServerDecides(k, reply)
    PROVE  /\ k \in wire /\ verdict[k] = "none" /\ reply # "none"
           /\ verdict' \in [Keys -> Replies \cup {"none"}]
           /\ verdict'[k] = reply /\ \A l \in Keys \ {k} : verdict'[l] = verdict[l]
           /\ log' \in Seq(Keys)
           /\ \A l \in Keys : l \in ToSet(log') <=> verdict'[l] \in Accepting
           /\ ToSet(log) \subseteq ToSet(log')
<1>1. /\ k \in wire /\ verdict[k] = "none" /\ verdict' = [verdict EXCEPT ![k] = reply]
      /\ log' = IF reply \in Accepting THEN Append(log, k) ELSE log
  BY DEF ServerDecides
<1>2. reply # "none" /\ "none" \notin Accepting
  BY QueueAssumption DEF Accepting, Rejecting
<1>3. verdict \in [Keys -> Replies \cup {"none"}] /\ log \in Seq(Keys)
  BY TypeParts DEF Core, StorageTyped
<1>4. /\ verdict' \in [Keys -> Replies \cup {"none"}] /\ verdict'[k] = reply
      /\ \A l \in Keys \ {k} : verdict'[l] = verdict[l]
  BY <1>1, <1>3
<1>5. \A l \in Keys : l \in ToSet(log) <=> verdict[l] \in Accepting
  BY DEF Core, Ledger
<1>6. k \notin ToSet(log)
  BY <1>1, <1>2, <1>5
<1>7. CASE reply \in Accepting
  <2>1. log' \in Seq(Keys) /\ ToSet(log') = ToSet(log) \cup {k}
    BY <1>1, <1>3, <1>7, ToSetAppend
  <2>2. QED
    BY <1>1, <1>2, <1>4, <1>5, <1>7, <2>1
<1>8. CASE reply \notin Accepting
  BY <1>1, <1>2, <1>3, <1>4, <1>5, <1>6, <1>8
<1>9. QED
  BY <1>7, <1>8

(* The server decides.                                                     *)
LEMMA DecideCore ==
    ASSUME Core, NEW k \in Keys, NEW reply \in Replies, ServerDecides(k, reply)
    PROVE  Core'
<1>1. /\ k \in wire /\ verdict[k] = "none"
      /\ verdict' \in [Keys -> Replies \cup {"none"}]
      /\ verdict'[k] = reply /\ \A l \in Keys \ {k} : verdict'[l] = verdict[l]
      /\ log' \in Seq(Keys)
      /\ \A l \in Keys : l \in ToSet(log') <=> verdict'[l] \in Accepting
  BY DecideFacts
<1>2. UNCHANGED <<memory, runner, laneVars, storage, wire, bounds>>
  BY DEF ServerDecides
<1>3. Ledger /\ laneWaits \subseteq Keys /\ wire \subseteq SealedKeys
  BY TypeParts, EnvelopeIn DEF Core, Ledger, SealedKeys
<1>4. \A l \in Keys : verdict'[l] # "none" => l \in wire
  BY <1>1, <1>3 DEF Ledger
<1>5. \A l \in laneWaits : verdict'[l] = "queued"
  BY <1>1, <1>3 DEF Ledger
<1>6. laneBusy' \in BOOLEAN /\ (laneBusy' => lane # <<>>)
  BY <1>2, CorePlaces DEF laneVars, ControlTyped
<1>7. QED
  BY <1>1, <1>2, <1>3, <1>4, <1>5, <1>6, WireCore DEF runner, laneVars

-----------------------------------------------------------------------------
(* Crash and restart.                                                      *)

(* The memory after a restart comes from the journal and the outbox.       *)
LEMMA CrashFacts ==
    ASSUME Core, CrashRestart
    PROVE  /\ tx' \in [TxIds -> TxType]
           /\ \A t \in TxIds : WriteKept(t) /\ tx'[t].env = 0
           /\ \A t \in Issued :
                /\ tx'[t].status = IF t \in ToSet(queue') THEN "pending" ELSE "gone"
                /\ tx'[t].conf = IF tx[t].conf = "open" THEN "lost" ELSE tx[t].conf
           /\ sources' \in [TxIds -> SUBSET TxIds]
           /\ \A t \in TxIds : sources'[t] = IF sources[t] = {} THEN {} ELSE {t}
           /\ queue' \in Seq(TxIds) /\ ToSet(queue') \subseteq journal
           /\ scheduled' \in BOOLEAN
           /\ lane' \in Seq(Keys) /\ ToSet(lane') = outbox
           /\ ToSet(saving') = {} /\ ToSet(staged') = {} /\ ToSet(batch') = {}
           /\ crashes' \in 0..MaxCrashes
<1>0. StoreTyped /\ PlacesTyped /\ ControlTyped /\ StorageTyped /\ BoundsTyped
  BY TypeParts DEF Core
<1>1. /\ crashes < MaxCrashes /\ crashes' = crashes + 1
      /\ queue' \in SetToAllKPermutations(journal)
      /\ tx' = Reloaded(queue') /\ scheduled' = (queue' # <<>>)
      /\ sources' = [t \in TxIds |-> IF sources[t] = {} THEN {} ELSE {t}]
      /\ saving' = <<>> /\ staged' = <<>> /\ batch' = <<>>
      /\ lane' = InOrder(outbox)
  BY DEF CrashRestart, RestoredLane
<1>a. \A t : Contains(queue', t) <=> t \in ToSet(queue')
  BY DEF Contains, ToSet
<1>2. ASSUME NEW t \in TxIds
      PROVE  /\ tx'[t] \in TxType /\ WriteKept(t) /\ tx'[t].env = 0
             /\ t \in Issued =>
                  /\ tx'[t].status = IF t \in ToSet(queue') THEN "pending" ELSE "gone"
                  /\ tx'[t].conf = IF tx[t].conf = "open" THEN "lost" ELSE tx[t].conf
  <2>1. tx[t] \in TxType
    BY <1>0 DEF StoreTyped
  <2>2. CASE t \in Issued
    <3> DEFINE s == IF t \in ToSet(queue') THEN "pending" ELSE "gone"
               c == IF tx[t].conf = "open" THEN "lost" ELSE tx[t].conf
               p == [tx[t] EXCEPT !.status = s]
               q == [p EXCEPT !.attempts = 0]
               u == [q EXCEPT !.env = 0]
               v == [u EXCEPT !.high = FALSE]
    <3>1. tx'[t] = [tx[t] EXCEPT !.status = IF t \in ToSet(queue') THEN "pending" ELSE "gone",
                                 !.attempts = 0, !.env = 0, !.high = FALSE,
                                 !.conf = IF @ = "open" THEN "lost" ELSE @]
      BY <1>1, <1>a, <2>2 DEF Reloaded
    <3>2. tx'[t] = [v EXCEPT !.conf = IF v.conf = "open" THEN "lost" ELSE v.conf]
      BY <3>1
    <3>3. s \in {"pending", "gone"} /\ tx[t].status # "none"
      BY <2>2 DEF Issued
    <3> HIDE DEF s
    <3>4. /\ p \in TxType /\ p.type = tx[t].type /\ p.row = tx[t].row
          /\ p.status = s /\ p.conf = tx[t].conf
      BY <2>1, <3>3 DEF TxType, Statuses
    <3> HIDE DEF p
    <3>5. /\ q \in TxType /\ q.type = tx[t].type /\ q.row = tx[t].row
          /\ q.status = s /\ q.conf = tx[t].conf
      BY <3>4 DEF TxType
    <3> HIDE DEF q
    <3>6. /\ u \in TxType /\ u.type = tx[t].type /\ u.row = tx[t].row
          /\ u.status = s /\ u.conf = tx[t].conf /\ u.env = 0
      BY <3>5 DEF TxType
    <3> HIDE DEF u
    <3>7. /\ v \in TxType /\ v.type = tx[t].type /\ v.row = tx[t].row
          /\ v.status = s /\ v.conf = tx[t].conf /\ v.env = 0
      BY <3>6 DEF TxType
    <3> HIDE DEF v
    <3>8. c \in {"none", "open", "resolved", "cancelled", "rejected", "lost"}
      BY <2>1 DEF TxType
    <3>9. tx'[t] = [v EXCEPT !.conf = c]
      BY <3>2, <3>7
    <3> HIDE DEF c
    <3>10. /\ tx'[t] \in TxType /\ tx'[t].type = v.type /\ tx'[t].row = v.row
           /\ tx'[t].status = v.status /\ tx'[t].conf = c /\ tx'[t].env = v.env
      BY <3>7, <3>8, <3>9 DEF TxType
    <3>11. QED
      BY <2>2, <3>3, <3>7, <3>10 DEF WriteKept, s, c
  <2>3. CASE t \notin Issued
    <3>1. tx'[t] = NoTx
      BY <1>1, <2>3 DEF Reloaded
    <3>2. NoTx \in TxType
      BY DEF NoTx, TxType, Statuses
    <3>3. QED
      BY <2>3, <3>1, <3>2 DEF WriteKept, NoTx, Issued
  <2>4. QED
    BY <2>2, <2>3
<1>3. tx' \in [TxIds -> TxType]
  BY <1>1, <1>2 DEF Reloaded
<1>4. sources' \in [TxIds -> SUBSET TxIds] /\ \A t \in TxIds : sources'[t] = IF sources[t] = {} THEN {} ELSE {t}
  BY <1>1
<1>5. queue' \in Seq(TxIds) /\ ToSet(queue') \subseteq journal /\ scheduled' \in BOOLEAN
  <2>1. journal \subseteq 1..MaxTx /\ MaxTx \in Nat /\ TxIds = 1..MaxTx
    BY <1>0, QueueAssumption DEF StorageTyped, Issued, TxIds
  <2>2. PICK kept \in SUBSET journal : queue' \in SetToSeqs(kept)
    BY <1>1, Zenon DEF SetToAllKPermutations
  <2>a. PICK I : I = 1..MaxTx
    OBVIOUS
  <2>b. 1 \in Int /\ MaxTx \in Int /\ kept \in SUBSET I
    BY <2>1, <2>a
  <2>c. IsFiniteSet(I)
    BY <2>a, <2>b, FS_Interval
  <2>3. IsFiniteSet(kept)
    BY <2>b, <2>c, FS_Subset
  <2>4. Cardinality(kept) \in Nat
    BY <2>3, FS_CardinalityType
  <2>5. queue' \in [1..Cardinality(kept) -> kept]
    BY <2>2 DEF SetToSeqs
  <2>6. queue' \in Seq(kept) /\ ToSet(queue') \subseteq kept
    BY <2>4, <2>5 DEF ToSet
  <2>7. QED
    BY <1>1, <2>1, <2>2, <2>6, SeqMonotonic
<1>6. lane' \in Seq(Keys) /\ ToSet(lane') = outbox
  <2>1. outbox \in SUBSET (1..MaxKeys) /\ MaxKeys \in Nat /\ Keys = 1..MaxKeys
    BY <1>0, QueueAssumption, EnvelopeIn DEF StorageTyped, Keys
  <2>2. InOrder(outbox) \in Seq(outbox) /\ ToSet(InOrder(outbox)) = outbox
    BY <2>1, InOrderFacts
  <2>3. QED
    BY <1>1, <2>1, <2>2, SeqMonotonic
<1>7. ToSet(saving') = {} /\ ToSet(staged') = {} /\ ToSet(batch') = {}
  BY <1>1 DEF ToSet
<1>8. crashes' \in 0..MaxCrashes
  <2>1. crashes \in 0..MaxCrashes /\ MaxCrashes \in Nat
    BY <1>0, QueueAssumption DEF BoundsTyped
  <2>2. QED
    BY <1>1, <2>1
<1>9. \A t \in TxIds : WriteKept(t) /\ tx'[t].env = 0
  BY <1>2
<1>10. \A t \in Issued :
         /\ tx'[t].status = IF t \in ToSet(queue') THEN "pending" ELSE "gone"
         /\ tx'[t].conf = IF tx[t].conf = "open" THEN "lost" ELSE tx[t].conf
  <2>1. Issued \subseteq TxIds
    BY DEF Issued
  <2>2. QED
    BY <1>2, <2>1
<1>11. QED
  BY <1>3, <1>4, <1>5, <1>6, <1>7, <1>8, <1>9, <1>10

(* It keeps the core of the invariant.                                     *)
LEMMA CrashCore ==
    ASSUME Core, CrashRestart
    PROVE  Core' /\ Issued' = Issued /\ Live' = Live
<1>0. StoreTyped /\ PlacesTyped /\ ControlTyped /\ StorageTyped /\ BoundsTyped
  BY TypeParts DEF Core
<1>1. /\ tx' \in [TxIds -> TxType]
      /\ \A t \in TxIds : WriteKept(t) /\ tx'[t].env = 0
      /\ sources' \in [TxIds -> SUBSET TxIds]
      /\ \A t \in TxIds : sources'[t] = IF sources[t] = {} THEN {} ELSE {t}
      /\ queue' \in Seq(TxIds) /\ ToSet(queue') \subseteq journal /\ scheduled' \in BOOLEAN
      /\ lane' \in Seq(Keys) /\ ToSet(lane') = outbox
      /\ ToSet(saving') = {} /\ ToSet(staged') = {} /\ ToSet(batch') = {}
      /\ crashes' \in 0..MaxCrashes
  BY CrashFacts
<1>2. /\ saving' = <<>> /\ staged' = <<>> /\ purging' = {}
      /\ backoff' = {} /\ parked' = {} /\ phase' = "idle" /\ batch' = <<>> /\ blocked' = FALSE
      /\ laneBusy' = FALSE /\ laneWaits' = {}
      /\ UNCHANGED <<journal, saved, envelope, outbox, server, faults>>
  BY DEF CrashRestart
<1>3. Issued' = Issued
  BY <1>1, KeptIssued
<1>4. Live' = Live
  <2>1. \A t \in TxIds : t \in sources'[t] <=> t \in sources[t]
    BY <1>1 DEF Core, SourcesGood
  <2>2. QED
    BY <2>1 DEF Live
<1>5. SourcesGood'
  <2>1. \A t \in TxIds : sources'[t] # {} => t \in sources'[t] /\ t \in Issued'
    BY <1>1, <1>3 DEF Core, SourcesGood
  <2>2. \A t \in Issued' : tx'[t].type # "delete" => t \in sources'[t]
    <3>1. \A t \in Issued : t \in TxIds /\ tx'[t].type = tx[t].type
      BY <1>1 DEF Issued, WriteKept
    <3>2. QED
      BY <1>1, <1>3, <3>1 DEF Core, SourcesGood
  <2>3. \A t \in TxIds : \A x \in sources'[t] : x = t
    BY <1>1
  <2>4. QED
    BY <2>1, <2>2, <2>3 DEF SourcesGood
<1>6. Numbered'
  BY <1>3 DEF Core, Numbered
<1>7. SealedKeys' = SealedKeys /\ SealedKeys \subseteq DOMAIN envelope
  BY <1>2 DEF SealedKeys
<1>8. outbox \subseteq SealedKeys
  BY DEF Core, Ledger
<1>9. TypeOK'
  <2>1. StoreTyped'
    BY <1>1 DEF StoreTyped
  <2>2. PlacesTyped'
    <3>1. <<>> \in Seq(TxIds) /\ journal \subseteq Issued
      BY <1>0 DEF StorageTyped
    <3>2. QED
      BY <1>1, <1>2, <1>3, <3>1 DEF PlacesTyped
  <2>3. ControlTyped' /\ BoundsTyped'
    BY <1>0, <1>1, <1>2 DEF ControlTyped, BoundsTyped
  <2>4. StorageTyped'
    BY <1>0, <1>1, <1>2, <1>3 DEF StorageTyped, server
  <2>5. QED
    BY <2>1, <2>2, <2>3, <2>4, TypePartsNext
<1>10. Homes'
  <2>1. saved \subseteq Live /\ journal \subseteq saved
    BY DEF Core, Homes
  <2>2. DOMAIN saving' = {}
    BY <1>2
  <2>3. QED
    BY <1>1, <1>2, <1>4, <2>1, <2>2 DEF Homes
<1>11. Envelopes'
  BY <1>2, <1>4 DEF Core, Envelopes, Ops
<1>12. Ledger'
  BY <1>1, <1>2, <1>7, <1>8 DEF Core, Ledger, server
<1>13. Groups'
  BY <1>1 DEF Groups
<1>14. BatchGood'
  BY <1>2, NoBatch
<1>15. QED
  BY <1>3, <1>4, <1>5, <1>6, <1>9, <1>10, <1>11, <1>12, <1>13, <1>14 DEF Core
-----------------------------------------------------------------------------
(* The initial state satisfies the core of the invariant.                  *)
LEMMA InitCore ==
    ASSUME Init
    PROVE  Core /\ Issued = {}
<1>0. MaxTx \in Nat /\ MaxKeys \in Nat /\ MaxFaults \in Nat /\ MaxCrashes \in Nat
  BY QueueAssumption
<1>1. NoTx \in TxType /\ NoTx.status = "none" /\ NoTx.env = 0
  BY DEF NoTx, TxType, Statuses
<1>2. /\ tx \in [TxIds -> TxType] /\ \A t \in TxIds : tx[t].status = "none" /\ tx[t].env = 0
  BY <1>1 DEF Init
<1>3. Issued = {}
  BY <1>2 DEF Issued
<1>4. /\ ToSet(saving) = {} /\ ToSet(staged) = {} /\ ToSet(queue) = {} /\ ToSet(batch) = {}
      /\ ToSet(lane) = {} /\ ToSet(log) = {} /\ DOMAIN envelope = {} /\ DOMAIN saving = {}
  BY DEF Init, ToSet
<1>5. \A A : <<>> \in Seq(A)
  OBVIOUS
<1>6. Len(envelope) = 0
  BY DEF Init
<1>7. sources \in [TxIds -> SUBSET TxIds] /\ \A t \in TxIds : sources[t] = {}
  BY DEF Init
<1>8. verdict \in [Keys -> Replies \cup {"none"}] /\ \A k \in Keys : verdict[k] = "none"
  BY DEF Init
<1>9. TypeOK
  <2>1. StoreTyped
    BY <1>2, <1>7 DEF StoreTyped
  <2>2. PlacesTyped
    BY <1>4, <1>5 DEF PlacesTyped, Init
  <2>3. ControlTyped
    BY DEF ControlTyped, Init
  <2>a. BoundsTyped
    <3>1. 0 \in 0..MaxFaults /\ 0 \in 0..MaxCrashes
      BY <1>0
    <3>2. QED
      BY <3>1 DEF BoundsTyped, Init
  <2>4. StorageTyped
    BY <1>0, <1>4, <1>5, <1>6, <1>8 DEF StorageTyped, Init
  <2>5. QED
    BY <2>1, <2>2, <2>3, <2>a, <2>4, TypeParts
<1>10. Numbered
  <2>1. 0 \in 0..MaxTx /\ 1..0 = {}
    BY <1>0
  <2>2. QED
    BY <1>3, <2>1 DEF Numbered
<1>11. SourcesGood
  BY <1>3, <1>7 DEF SourcesGood
<1>12. Homes
  BY <1>4 DEF Homes, Init
<1>13. Envelopes
  BY <1>4 DEF Envelopes
<1>14. Ledger
  BY <1>4, <1>8 DEF Ledger, Init, Accepting
<1>15. Groups
  BY <1>2 DEF Groups
<1>16. BatchGood
  BY <1>4 DEF BatchGood, Init
<1>17. QED
  BY <1>3, <1>9, <1>10, <1>11, <1>12, <1>13, <1>14, <1>15, <1>16 DEF Core

LaneStep ==
    \/ LaneReceipt
    \/ \E exhausted \in BOOLEAN : LaneTransient(exhausted)
    \/ \E k \in Keys : LaneConfirmed(k)

(* The kinds of step the queue takes.                                      *)
LEMMA NextCases ==
    ASSUME Next
    PROVE  \/ \E r \in Rows, type \in Kinds, opt \in Opts : Write(type, r, opt)
           \/ \E r \in Rows : RemoveUnsent(r)
           \/ \E r \in Rows : RemoveRow(r)
           \/ \E r \in Rows : CascadeCancel(r)
           \/ \E t \in TxIds : ReplicationLag(t)
           \/ \E t \in TxIds : PurgeLands(t)
           \/ Persisted
           \/ PersistFailed
           \/ CommitStaged \/ DrainPending
           \/ \E g \in backoff : RetryTimer(g)
           \/ StartBatch
           \/ Prepared
           \/ PrepareTransient
           \/ PreparePermanent
           \/ Seal
           \/ BatchEnds
           \/ ConfirmStep
           \/ Dispatch \/ LaneSend
           \/ LaneStep
           \/ \E k \in Keys, reply \in Replies : ServerDecides(k, reply)
           \/ CrashRestart
BY Zenon DEF Next, BatchEnds, ConfirmStep, LaneStep

(* A step that changes nothing keeps the core of the invariant.            *)
LEMMA StutterCore ==
    ASSUME Core, UNCHANGED vars
    PROVE  Core'
<1>1. tx' = tx /\ StoreKept
  BY SameStore DEF vars, memory
<1>2. QuietStep
  BY <1>1, CorePlaces DEF QuietStep, vars, memory, runner, laneVars, storage, server, bounds
<1>3. ControlTyped' /\ BoundsTyped'
  BY CorePlaces DEF ControlTyped, BoundsTyped, vars, memory, runner, laneVars, bounds
<1>4. QED
  BY <1>1, <1>2, <1>3, IdleCore DEF vars, runner, storage

(* Every step keeps the core of the invariant.                             *)
LEMMA CoreStep ==
    ASSUME Core, [Next]_vars
    PROVE  Core'
<1>1. ASSUME NEW r \in Rows, NEW type \in Kinds, NEW opt \in Opts, Write(type, r, opt) PROVE Core'
  BY <1>1, WriteIssues, IssueCore
<1>2. ASSUME NEW r \in Rows, RemoveUnsent(r) PROVE Core'
  BY <1>2, RemoveUnsentIssues, IssueCore
<1>3. ASSUME NEW r \in Rows, RemoveRow(r) PROVE Core'
  BY <1>3, RemoveRowIssues, IssueCore
<1>4. ASSUME NEW r \in Rows, CascadeCancel(r) PROVE Core'
  BY <1>4, CascadeCancelCore
<1>5. ASSUME NEW t \in TxIds, ReplicationLag(t) PROVE Core'
  BY <1>5, ReplicationLagCore
<1>6. ASSUME NEW t \in TxIds, PurgeLands(t) PROVE Core'
  BY <1>6, PurgeLandsCore
<1>7. CASE Persisted
  BY <1>7, PersistedEnds, SaveEndsCore
<1>8. CASE PersistFailed
  <2>1. SaveEnds(Head(saving))
    BY <1>8, PersistFailedEnds
  <2>2. QED
    BY <2>1, SaveEndsCore
<1>9. CASE CommitStaged \/ DrainPending
  BY <1>9, CommitStagedCore
<1>10. ASSUME NEW g \in backoff, RetryTimer(g) PROVE Core'
  BY <1>10, RetryTimerCore
<1>11. CASE StartBatch
  BY <1>11, StartBatchCore
<1>12. CASE Prepared
  BY <1>12, PreparedCore
<1>13. CASE PrepareTransient
  BY <1>13, PrepareTransientCore
<1>14. CASE PreparePermanent
  BY <1>14, PreparePermanentCore
<1>15. CASE Seal
  BY <1>15, SealCore
<1>16. CASE BatchEnds
  BY <1>16, BatchEndsSettle, SettlesBatchCore DEF Core
<1>17. CASE ConfirmStep
  BY <1>17, ConfirmSettles, ConfirmCore
<1>18. CASE Dispatch \/ LaneSend
  BY <1>18, SendCore
<1>19. CASE LaneStep
  BY <1>19, LaneCore DEF LaneStep
<1>20. ASSUME NEW k \in Keys, NEW reply \in Replies, ServerDecides(k, reply) PROVE Core'
  BY <1>20, DecideCore
<1>21. CASE CrashRestart
  BY <1>21, CrashCore
<1>22. CASE UNCHANGED vars
  BY <1>22, StutterCore
<1>23. QED
  BY <1>1, <1>2, <1>3, <1>4, <1>5, <1>6, <1>7, <1>8, <1>9, <1>10, <1>11, <1>12, <1>13, <1>14,
     <1>15, <1>16, <1>17, <1>18, <1>19, <1>20, <1>21, <1>22, NextCases

(* The core of the invariant holds in every reachable state.               *)
THEOREM QueueCore == Spec => []Core
<1>1. Init => Core
  BY InitCore
<1>2. QED
  BY <1>1, CoreStep, PTL DEF Spec

(* Every handler of the mutation queue leaves well-typed state: each place *)
(* a write can be in holds issued writes only, and each place for keys     *)
(* holds minted ones.                                                      *)
THEOREM QueueTypes == Spec => []TypeOK
<1>1. Core => TypeOK
  BY DEF Core
<1>2. QED
  BY <1>1, QueueCore, PTL

(* takeNextExecutionBatch resends a key only with the whole group it was   *)
(* minted for, in its order.                                               *)
THEOREM RetriesSendTheSameRequest == Spec => []RetriesAreIdentical
<1>1. Core => RetriesAreIdentical
  <2>1. SUFFICES ASSUME Core, phase \in {"sealing", "ready", "inflight"}
                 PROVE  batch = envelope[Key].ops
    BY DEF RetriesAreIdentical
  <2>2. Key # 0 /\ phase # "idle"
    BY <2>1 DEF Core, BatchGood
  <2>3. QED
    BY <2>1, <2>2, BatchHead
<1>2. QED
  BY <1>1, QueueCore, PTL

-----------------------------------------------------------------------------
(* The queue implements the durability protocol: the refinement mapping of *)
(* MutationQueue, variable by variable.                                    *)
Members   == [k \in Keys |-> IF k \in DOMAIN envelope THEN ToSet(envelope[k].ops) ELSE {}]
SealRows  == [k \in Keys |-> IF k \in DOMAIN envelope THEN envelope[k].rows ELSE {}]
Released  == saved \ (journal \cup Consumed)
Accepted  == {k \in Keys : verdict[k] \in Accepting}
Rejected  == {k \in Keys : verdict[k] \in Rejecting}
Refines   == [Durability!Next]_(Durability!vars)

(* A step that leaves the durable state alone is a stutter of the          *)
(* protocol.                                                               *)
LEMMA DurableStutter ==
    ASSUME ToSet(saving)' = ToSet(saving), journal' = journal, saved' = saved, Released' = Released,
           sources' = sources, Members' = Members, SealRows' = SealRows, SealedKeys' = SealedKeys,
           outbox' = outbox, wire' = wire, Accepted' = Accepted, Rejected' = Rejected
    PROVE  Refines
BY DEF Refines, Durability!vars, Durability!storage, Durability!groups, Durability!ledger,
       Released, Members, SealRows, SealedKeys, Accepted, Rejected

(* Envelopes and verdicts that stay keep what the mapping takes from them. *)
LEMMA EnvelopeSame ==
    ASSUME envelope' = envelope
    PROVE  Members' = Members /\ SealRows' = SealRows /\ SealedKeys' = SealedKeys /\ Consumed' = Consumed
BY DEF Members, SealRows, SealedKeys, Consumed

(* The same of the server's verdicts.                                      *)
LEMMA VerdictSame ==
    ASSUME verdict' = verdict
    PROVE  Accepted' = Accepted /\ Rejected' = Rejected
BY DEF Accepted, Rejected

(* Only the envelope of a decided key leaves storage.                      *)
LEMMA RemovalRefines ==
    ASSUME Core, saving' = saving, journal' = journal, saved' = saved, sources' = sources,
           envelope' = envelope, wire' = wire, verdict' = verdict,
           \/ outbox' = outbox
           \/ \E k \in Keys : verdict[k] # "none" /\ outbox' = outbox \ {k}
    PROVE  Refines
<1>1. Members' = Members /\ SealRows' = SealRows /\ SealedKeys' = SealedKeys /\ Released' = Released
  BY EnvelopeSame DEF Released
<1>2. Accepted' = Accepted /\ Rejected' = Rejected
  BY VerdictSame
<1>3. CASE outbox' = outbox
  BY <1>1, <1>2, <1>3, DurableStutter
<1>4. ASSUME NEW k \in outbox, k \in Keys, verdict[k] # "none", outbox' = outbox \ {k} PROVE Refines
  <2>1. k \in Accepted \cup Rejected
    <3>1. verdict[k] \in Replies \cup {"none"}
      BY <1>4, TypeParts DEF Core, StorageTyped
    <3>2. QED
      BY <1>4, <3>1, QueueAssumption DEF Accepted, Rejected
  <2>2. Durability!Remove(k)
    BY <1>1, <1>2, <1>4, <2>1 DEF Durability!Remove, Durability!decided, Durability!storage,
       Durability!groups, Durability!ledger, Released, Members, SealRows, SealedKeys, Accepted, Rejected
  <2>3. QED
    BY <1>4, <2>2 DEF Refines, Durability!Next
<1>5. QED
  <2>1. ASSUME NEW k \in Keys, verdict[k] # "none", outbox' = outbox \ {k}, k \notin outbox PROVE Refines
    BY <2>1, <1>3
  <2>2. QED
    BY <2>1, <1>3, <1>4

(* A write is issued with the rows it takes over.                          *)
LEMMA IssueRefines ==
    ASSUME Core, NEW d \in TxIds, d \notin Issued, NEW A \in SUBSET Live,
           sources' = [sources EXCEPT ![d] = {d} \cup UNION {sources[t] : t \in A}],
           saving' = Append(saving, d),
           UNCHANGED <<journal, saved, envelope, outbox, wire, verdict>>
    PROVE  Refines
<1>1. Members' = Members /\ SealRows' = SealRows /\ SealedKeys' = SealedKeys /\ Released' = Released
  BY EnvelopeSame DEF Released
<1>2. Accepted' = Accepted /\ Rejected' = Rejected
  BY VerdictSame
<1>3. ToSet(saving') = ToSet(saving) \cup {d}
  BY CorePlaces, ToSetAppend
<1>4. d \notin Live
  BY DEF Live, Core, SourcesGood
<1>5. Durability!issued = Live
  BY DEF Durability!issued, Live
<1>6. Durability!Issue(d, A)
  BY <1>1, <1>2, <1>3, <1>4, <1>5 DEF Durability!Issue, Durability!Claimed,
     Durability!ledger, Released, Members, SealRows, SealedKeys, Accepted, Rejected
<1>7. QED
  BY <1>5, <1>6 DEF Refines, Durability!Next

(* A save lands or fails.                                                  *)
LEMMA SaveRefines ==
    ASSUME Core, NEW t, SaveEnds(t),
           \/ saved' = saved \cup {t} /\ journal' = journal \cup {t}
           \/ saved' = saved /\ journal' = journal
    PROVE  Refines
<1>1. t \in Issued /\ t \in ToSet(saving) /\ t \notin saved /\ ToSet(saving') = ToSet(saving) \ {t}
  BY SaveEndsCore
<1>2. sources' = sources /\ envelope' = envelope /\ outbox' = outbox /\ wire' = wire /\ verdict' = verdict
  BY DEF SaveEnds, server
<1>3. Members' = Members /\ SealRows' = SealRows /\ SealedKeys' = SealedKeys /\ Consumed' = Consumed
  BY <1>2, EnvelopeSame
<1>4. Accepted' = Accepted /\ Rejected' = Rejected
  BY <1>2, VerdictSame
<1>5. t \in TxIds
  BY <1>1, CorePlaces
<1>6. CASE saved' = saved \cup {t} /\ journal' = journal \cup {t}
  <2>1. Released' = Released
    BY <1>1, <1>3, <1>6 DEF Released
  <2>2. Durability!Persist(t)
    BY <1>1, <1>2, <1>3, <1>4, <1>6, <2>1 DEF Durability!Persist, Durability!groups,
       Durability!ledger, Released, Members, SealRows, SealedKeys, Accepted, Rejected
  <2>3. QED
    BY <1>5, <2>2 DEF Refines, Durability!Next
<1>7. CASE saved' = saved /\ journal' = journal
  <2>1. Released' = Released
    BY <1>3, <1>7 DEF Released
  <2>2. Durability!PersistFail(t)
    BY <1>1, <1>2, <1>3, <1>4, <1>7, <2>1 DEF Durability!PersistFail, Durability!groups,
       Durability!ledger, Released, Members, SealRows, SealedKeys, Accepted, Rejected
  <2>3. QED
    BY <1>5, <2>2 DEF Refines, Durability!Next
<1>8. QED
  BY <1>6, <1>7

(* A removal lands.                                                        *)
LEMMA PurgeRefines ==
    ASSUME Core, NEW t \in TxIds, PurgeLands(t)
    PROVE  Refines
<1>1. /\ t \notin ToSet(saving) /\ journal' = journal \ {t} /\ saving' = saving /\ sources' = sources
      /\ saved' = saved /\ envelope' = envelope /\ outbox' = outbox /\ wire' = wire /\ verdict' = verdict
  BY DEF PurgeLands, memory, server
<1>2. Members' = Members /\ SealRows' = SealRows /\ SealedKeys' = SealedKeys /\ Consumed' = Consumed
  BY <1>1, EnvelopeSame
<1>3. Accepted' = Accepted /\ Rejected' = Rejected
  BY <1>1, VerdictSame
<1>4. CASE t \in journal
  <2>1. t \in saved /\ t \notin Consumed
    BY <1>4 DEF Core, Homes, Envelopes, Consumed
  <2>2. Released' = Released \cup {t}
    BY <1>1, <1>2, <2>1 DEF Released
  <2>3. Durability!Release({t})
    BY <1>1, <1>2, <1>3, <1>4, <2>2 DEF Durability!Release, Durability!groups,
       Durability!ledger, Released, Members, SealRows, SealedKeys, Accepted, Rejected
  <2>4. {t} \in SUBSET journal
    BY <1>4
  <2>5. QED
    BY <2>3, <2>4 DEF Refines, Durability!Next
<1>5. CASE t \notin journal
  <2>1. journal' = journal
    BY <1>1, <1>5
  <2>2. QED
    BY <1>1, <2>1, RemovalRefines
<1>6. QED
  BY <1>4, <1>5

(* A key is minted, or a retry keeps its own.                              *)
LEMMA PreparedRefines ==
    ASSUME Core, Prepared
    PROVE  Refines
<1>1. PICK k \in Keys :
        /\ \/ /\ Key = 0 /\ k = Len(envelope) + 1 /\ k \notin DOMAIN envelope
              /\ DOMAIN envelope' = DOMAIN envelope \cup {k}
              /\ envelope'[k] = [ops |-> batch, rows |-> {}, sealed |-> FALSE]
              /\ \A l \in DOMAIN envelope : envelope'[l] = envelope[l]
           \/ k = Key /\ k \in DOMAIN envelope /\ envelope' = envelope
        /\ UNCHANGED <<sources, saving, staged, queue, scheduled, backoff, parked,
                       batch, blocked, laneVars, journal, saved, purging, outbox, server, bounds>>
  BY PreparedFacts
<1>2. sources' = sources /\ saving' = saving /\ journal' = journal /\ saved' = saved
      /\ outbox' = outbox /\ wire' = wire /\ verdict' = verdict
  BY <1>1 DEF server
<1>3. CASE envelope' = envelope
  BY <1>2, <1>3, RemovalRefines
<1>4. CASE /\ k \notin DOMAIN envelope /\ DOMAIN envelope' = DOMAIN envelope \cup {k}
           /\ envelope'[k] = [ops |-> batch, rows |-> {}, sealed |-> FALSE]
           /\ \A l \in DOMAIN envelope : envelope'[l] = envelope[l]
  <2>1. envelope'[k].ops = batch /\ envelope'[k].rows = {} /\ envelope'[k].sealed = FALSE
    BY <1>4
  <2>2. Members[k] = {} /\ Members' = [Members EXCEPT ![k] = ToSet(batch)]
    BY <1>4, <2>1 DEF Members
  <2>3. SealRows' = SealRows
    BY <1>4, <2>1 DEF SealRows
  <2>4. SealedKeys' = SealedKeys
    BY <1>4, <2>1 DEF SealedKeys
  <2>5. Consumed' = Consumed
    BY <1>4, <2>1 DEF Consumed
  <2>6. Released' = Released
    BY <1>2, <2>5 DEF Released
  <2>7. Accepted' = Accepted /\ Rejected' = Rejected
    BY <1>2, VerdictSame
  <2>8. ToSet(batch) \in SUBSET Live /\ ToSet(batch) # {}
    <3>1. ToSet(batch) # {}
      BY BatchHead DEF Prepared
    <3>2. QED
      BY <3>1 DEF Core, Homes
  <2>9. Durability!issued = Live
    BY DEF Durability!issued, Live
  <2>10. PICK S \in SUBSET Live : S = ToSet(batch)
    BY <2>8
  <2>11. Durability!Mint(k, S)
    BY <1>2, <2>2, <2>3, <2>4, <2>6, <2>7, <2>8, <2>9, <2>10 DEF Durability!Mint, Durability!storage,
       Durability!ledger, Released, Members, SealRows, SealedKeys, Accepted, Rejected
  <2>12. QED
    BY <2>9, <2>11 DEF Refines, Durability!Next
<1>5. QED
  BY <1>1, <1>3, <1>4

(* The group of a key is sealed.                                           *)
LEMMA SealRefines ==
    ASSUME Core, Seal
    PROVE  Refines
<1>1. /\ Key \in DOMAIN envelope /\ ~envelope[Key].sealed /\ batch = envelope[Key].ops
      /\ Ops(Key) \subseteq BatchRows /\ BatchRows \subseteq journal
      /\ DOMAIN envelope' = DOMAIN envelope
      /\ \A k \in DOMAIN envelope : /\ envelope'[k].ops = envelope[k].ops
                                    /\ k # Key => envelope'[k] = envelope[k]
      /\ envelope'[Key].sealed = TRUE /\ envelope'[Key].rows = BatchRows
      /\ journal' = journal \ BatchRows /\ outbox' = outbox \cup {Key}
      /\ UNCHANGED <<memory, batch, blocked, laneVars, saved, purging, server, bounds>>
  BY SealFacts
<1>2. sources' = sources /\ saving' = saving /\ saved' = saved /\ wire' = wire /\ verdict' = verdict
  BY <1>1 DEF memory, server
<1>3. Key \in Keys
  BY <1>1, TypeParts, EnvelopeIn DEF Core
<1>4. Members' = Members /\ Members[Key] = ToSet(batch)
  BY <1>1, <1>3 DEF Members
<1>5. SealRows' = [SealRows EXCEPT ![Key] = BatchRows]
  BY <1>1, <1>3 DEF SealRows
<1>6. SealedKeys' = SealedKeys \cup {Key} /\ Key \notin SealedKeys
  BY <1>1 DEF SealedKeys
<1>7. envelope[Key].rows = {}
  BY <1>1 DEF Core, Envelopes
<1>8. Consumed' = Consumed \cup BatchRows
  <2>1. \A x : x \in Consumed' <=> \E k \in DOMAIN envelope : x \in envelope'[k].rows
    BY <1>1 DEF Consumed
  <2>2. \A x : x \in Consumed <=> \E k \in DOMAIN envelope : x \in envelope[k].rows
    BY DEF Consumed
  <2>3. \A x : x \in Consumed' <=> x \in Consumed \/ x \in BatchRows
    BY <1>1, <1>7, <2>1, <2>2
  <2>4. QED
    BY <2>3
<1>9. Released' = Released
  BY <1>1, <1>2, <1>8 DEF Released
<1>10. Accepted' = Accepted /\ Rejected' = Rejected
  BY <1>2, VerdictSame
<1>11. ToSet(batch) # {}
  BY BatchHead DEF Seal
<1>12. BatchRows = Durability!Claimed(Members[Key])
  BY <1>4 DEF BatchRows, Durability!Claimed
<1>13. PICK k \in Keys : k = Key
  BY <1>3
<1>14. Durability!Seal(k)
  BY <1>1, <1>2, <1>4, <1>5, <1>6, <1>9, <1>10, <1>11, <1>12, <1>13 DEF Durability!Seal,
     Durability!groups, Durability!ledger, Released, Members, SealRows, SealedKeys, Accepted, Rejected
<1>15. QED
  BY <1>14 DEF Refines, Durability!Next

(* A sealed envelope is sent.                                              *)
LEMMA SendRefines ==
    ASSUME Core, Dispatch \/ LaneSend
    PROVE  Refines
<1>1. PICK k \in Keys : k \in SealedKeys /\ wire' = wire \cup {k}
  <2>1. SealedKeys \subseteq Keys
    BY TypeParts, EnvelopeIn DEF Core, SealedKeys
  <2>2. CASE Dispatch
    <3>1. Key # 0 /\ envelope[Key].sealed
      BY <2>2 DEF Dispatch, Core, BatchGood
    <3>2. Key \in SealedKeys
      BY <2>2, <3>1, BatchHead DEF Dispatch, SealedKeys
    <3>3. QED
      BY <2>1, <2>2, <3>2 DEF Dispatch
  <2>3. CASE LaneSend
    <3>1. Head(lane) \in ToSet(lane)
      BY <2>3, CorePlaces, TailIn DEF LaneSend
    <3>2. Head(lane) \in SealedKeys
      BY <3>1 DEF Core, Ledger
    <3>3. QED
      BY <2>1, <2>3, <3>2 DEF LaneSend
  <2>4. QED
    BY <2>2, <2>3
<1>2. /\ saving' = saving /\ sources' = sources /\ journal' = journal /\ saved' = saved
      /\ envelope' = envelope /\ outbox' = outbox /\ verdict' = verdict
  BY DEF Dispatch, LaneSend, memory, storage
<1>3. Members' = Members /\ SealRows' = SealRows /\ SealedKeys' = SealedKeys /\ Released' = Released
  BY <1>2, EnvelopeSame DEF Released
<1>4. Accepted' = Accepted /\ Rejected' = Rejected
  BY <1>2, VerdictSame
<1>5. Durability!Dispatch(k)
  BY <1>1, <1>2, <1>3, <1>4 DEF Durability!Dispatch, Durability!storage, Durability!groups,
     Released, Members, SealRows, SealedKeys, Accepted, Rejected
<1>6. QED
  BY <1>5 DEF Refines, Durability!Next

(* The server decides a key once.                                          *)
LEMMA DecideRefines ==
    ASSUME Core, NEW k \in Keys, NEW reply \in Replies, ServerDecides(k, reply)
    PROVE  Refines
<1>1. /\ k \in wire /\ verdict[k] = "none" /\ verdict'[k] = reply
      /\ \A l \in Keys \ {k} : verdict'[l] = verdict[l]
  BY DecideFacts
<1>2. /\ saving' = saving /\ sources' = sources /\ journal' = journal /\ saved' = saved
      /\ envelope' = envelope /\ outbox' = outbox /\ wire' = wire
  BY DEF ServerDecides, memory, storage
<1>3. Members' = Members /\ SealRows' = SealRows /\ SealedKeys' = SealedKeys /\ Released' = Released
  BY <1>2, EnvelopeSame DEF Released
<1>4. reply \in Accepting \/ reply \in Rejecting
  BY QueueAssumption
<1>5. Accepting \cap Rejecting = {} /\ "none" \notin Accepting /\ "none" \notin Rejecting
  BY DEF Accepting, Rejecting
<1>6. k \notin Accepted /\ k \notin Rejected
  BY <1>1, <1>5 DEF Accepted, Rejected
<1>7. CASE reply \in Accepting
  <2>1. Accepted' = Accepted \cup {k} /\ Rejected' = Rejected
    BY <1>1, <1>5, <1>7 DEF Accepted, Rejected
  <2>2. Durability!ServerAccept(k)
    BY <1>1, <1>2, <1>3, <1>6, <2>1 DEF Durability!ServerAccept, Durability!decided, Durability!storage,
       Durability!groups, Released, Members, SealRows, SealedKeys, Accepted, Rejected
  <2>3. QED
    BY <2>2 DEF Refines, Durability!Next
<1>8. CASE reply \in Rejecting
  <2>1. Rejected' = Rejected \cup {k} /\ Accepted' = Accepted
    BY <1>1, <1>5, <1>8 DEF Accepted, Rejected
  <2>2. Durability!ServerReject(k)
    BY <1>1, <1>2, <1>3, <1>6, <2>1 DEF Durability!ServerReject, Durability!decided, Durability!storage,
       Durability!groups, Released, Members, SealRows, SealedKeys, Accepted, Rejected
  <2>3. QED
    BY <2>2 DEF Refines, Durability!Next
<1>9. QED
  BY <1>4, <1>7, <1>8

(* A crash loses the saves under way and what the deletes had taken over.  *)
LEMMA CrashRefines ==
    ASSUME Core, CrashRestart
    PROVE  Refines
<1>1. ToSet(saving') = {} /\ sources' \in [TxIds -> SUBSET TxIds]
      /\ \A t \in TxIds : sources'[t] = IF sources[t] = {} THEN {} ELSE {t}
  BY CrashFacts
<1>2. /\ journal' = journal /\ saved' = saved /\ envelope' = envelope /\ outbox' = outbox
      /\ wire' = wire /\ verdict' = verdict
  BY DEF CrashRestart, server
<1>3. Members' = Members /\ SealRows' = SealRows /\ SealedKeys' = SealedKeys /\ Released' = Released
  BY <1>2, EnvelopeSame DEF Released
<1>4. Accepted' = Accepted /\ Rejected' = Rejected
  BY <1>2, VerdictSame
<1>5. \A t \in TxIds : t \in Live <=> sources[t] # {}
  BY DEF Live, Core, SourcesGood
<1>6. sources' = [t \in TxIds |-> IF t \in Live THEN {t} ELSE {}]
  BY <1>1, <1>5
<1>7. Durability!issued = Live
  BY DEF Durability!issued, Live
<1>8. Durability!Crash({})
  BY <1>1, <1>2, <1>3, <1>4, <1>6, <1>7 DEF Durability!Crash, Durability!ledger,
     Released, Members, SealRows, SealedKeys, Accepted, Rejected
<1>9. {} \in SUBSET ToSet(saving)
  OBVIOUS
<1>10. QED
  BY <1>8, <1>9 DEF Refines, Durability!Next

(* The steps of the lane drop only decided envelopes.                      *)
LEMMA LaneRefines ==
    ASSUME Core, LaneStep
    PROVE  Refines
<1>1. QuietStep /\ tx' = tx
  BY LaneCore DEF LaneStep
<1>2. saving' = saving /\ journal' = journal /\ sources' = sources
  BY DEF LaneStep, LaneReceipt, LaneTransient, LaneConfirmed, memory, storage
<1>3. \/ outbox' = outbox
      \/ \E k \in Keys : verdict[k] # "none" /\ outbox' = outbox \ {k}
  <2>1. CASE LaneReceipt
    <3>1. lane # <<>> /\ verdict[Head(lane)] # "none" /\ outbox' \in {outbox, outbox \ {Head(lane)}}
      BY <2>1, CorePlaces DEF LaneReceipt, Removed
    <3>2. Head(lane) \in Keys
      BY <3>1, CorePlaces, TailIn
    <3>3. QED
      BY <3>1, <3>2
  <2>2. ASSUME NEW exhausted \in BOOLEAN, LaneTransient(exhausted) PROVE outbox' = outbox
    BY <2>2 DEF LaneTransient, storage
  <2>3. ASSUME NEW k \in Keys, LaneConfirmed(k)
        PROVE  verdict[k] # "none" /\ outbox' \in {outbox, outbox \ {k}}
    BY <2>3 DEF LaneConfirmed, Removed, Core, Ledger
  <2>4. QED
    BY <2>1, <2>2, <2>3 DEF LaneStep
<1>4. QED
  BY <1>1, <1>2, <1>3, RemovalRefines DEF QuietStep

(* Every step of the queue is a step of the protocol or leaves it alone.   *)
LEMMA RefinementStep ==
    ASSUME Core, [Next]_vars
    PROVE  Refines
<1>1. ASSUME NEW r \in Rows, NEW type \in Kinds, NEW opt \in Opts, Write(type, r, opt) PROVE Refines
  <2>1. /\ Issues(NextId) /\ saving' = Append(saving, NextId)
        /\ sources' = [sources EXCEPT ![NextId] = {NextId}]
    BY <1>1, WriteIssues
  <2>2. PICK d \in TxIds : d = NextId
    BY <2>1 DEF Issues
  <2>3. d \notin Issued
    BY <2>1, <2>2, IssueCore
  <2>4. UNCHANGED <<journal, saved, envelope, outbox, wire, verdict>>
    BY <2>1 DEF Issues, server
  <2>5. PICK A \in SUBSET Live : A = {}
    OBVIOUS
  <2>6. {d} \cup UNION {sources[t] : t \in A} = {d}
    BY <2>5
  <2>7. sources' = [sources EXCEPT ![d] = {d} \cup UNION {sources[t] : t \in A}]
    BY <2>1, <2>2, <2>6
  <2>8. saving' = Append(saving, d)
    BY <2>1, <2>2
  <2>9. QED
    BY <2>3, <2>4, <2>7, <2>8, IssueRefines
<1>2. ASSUME NEW r \in Rows, RemoveUnsent(r) PROVE Refines
  BY <1>2, RemovalRefines DEF RemoveUnsent, server
<1>3. ASSUME NEW r \in Rows, RemoveRow(r) PROVE Refines
  <2>1. /\ Issues(NextId) /\ saving' = Append(saving, NextId)
        /\ sources' = [sources EXCEPT ![NextId] =
                         {NextId} \cup UNION {sources[u] : u \in {v \in Superseded(r) : tx[v].env = 0}}]
    BY <1>3, RemoveRowIssues
  <2>2. PICK d \in TxIds : d = NextId
    BY <2>1 DEF Issues
  <2>3. d \notin Issued
    BY <2>1, <2>2, IssueCore
  <2>4. UNCHANGED <<journal, saved, envelope, outbox, wire, verdict>>
    BY <2>1 DEF Issues, server
  <2>5. PICK A \in SUBSET Live : A = {v \in Superseded(r) : tx[v].env = 0}
    <3>1. \A v \in Superseded(r) : v \in Issued /\ v \in TxIds /\ tx[v].type = "update"
      BY DEF Superseded, Issued
    <3>2. \A v \in Superseded(r) : v \in Live
      BY <3>1 DEF Core, SourcesGood, Live
    <3>3. QED
      BY <3>2
  <2>6. sources' = [sources EXCEPT ![d] = {d} \cup UNION {sources[t] : t \in A}]
    BY <2>1, <2>2, <2>5
  <2>7. saving' = Append(saving, d)
    BY <2>1, <2>2
  <2>8. QED
    BY <2>3, <2>4, <2>6, <2>7, IssueRefines
<1>4. ASSUME NEW r \in Rows, CascadeCancel(r) PROVE Refines
  BY <1>4, RemovalRefines DEF CascadeCancel, storage, server
<1>5. ASSUME NEW t \in TxIds, ReplicationLag(t) PROVE Refines
  BY <1>5, RemovalRefines DEF ReplicationLag, storage, server
<1>6. ASSUME NEW t \in TxIds, PurgeLands(t) PROVE Refines
  BY <1>6, PurgeRefines
<1>7. CASE Persisted
  BY <1>7, PersistedEnds, SaveRefines
<1>8. CASE PersistFailed
  <2>1. SaveEnds(Head(saving)) /\ saved' = saved /\ journal' = journal
    BY <1>8, PersistFailedEnds
  <2>2. QED
    BY <2>1, SaveRefines
<1>9. CASE CommitStaged \/ DrainPending
  BY <1>9, RemovalRefines DEF CommitStaged, DrainPending, storage, server
<1>10. ASSUME NEW g \in backoff, RetryTimer(g) PROVE Refines
  BY <1>10, RemovalRefines DEF RetryTimer, storage, server
<1>11. CASE StartBatch
  BY <1>11, RemovalRefines DEF StartBatch, storage, server
<1>12. CASE Prepared
  BY <1>12, PreparedRefines
<1>13. CASE PrepareTransient
  BY <1>13, RemovalRefines DEF PrepareTransient, storage, server
<1>14. CASE PreparePermanent
  BY <1>14, RemovalRefines DEF PreparePermanent, storage, server
<1>15. CASE Seal
  BY <1>15, SealRefines
<1>16. CASE BatchEnds
  <2>1. PICK done, lost, again, wait : SettlesBatch(done, lost, again, wait) /\ ReceiptGood(done, again, wait)
    BY <1>16, BatchEndsSettle DEF Core
  <2>2. saving' = saving /\ sources' = sources
    BY <2>1, Zenon DEF SettlesBatch, Settle
  <2>3. /\ journal' = journal /\ saved' = saved /\ envelope' = envelope
        /\ wire' = wire /\ verdict' = verdict
    BY <2>1 DEF SettlesBatch, server
  <2>4. \/ outbox' = outbox
        \/ \E k \in Keys : verdict[k] # "none" /\ outbox' = outbox \ {k}
    <3>1. CASE outbox' = outbox
      BY <3>1
    <3>2. CASE /\ outbox' = outbox \ {Key} /\ again = {}
          /\ phase = "inflight" /\ verdict[Key] # "none"
      <4>1. Key \in Keys
        BY <3>2, BatchHead DEF Core, BatchGood
      <4>2. QED
        BY <3>2, <4>1
    <3>3. QED
      BY <2>1, <3>1, <3>2 DEF ReceiptGood
  <2>5. QED
    BY <2>2, <2>3, <2>4, RemovalRefines
<1>17. CASE ConfirmStep
  <2>1. PICK S : Confirms(S)
    BY <1>17, ConfirmSettles
  <2>2. saving' = saving /\ sources' = sources
    BY <2>1, Zenon DEF Confirms, Settle
  <2>3. /\ journal' = journal /\ saved' = saved /\ envelope' = envelope
        /\ wire' = wire /\ verdict' = verdict
    BY <2>1 DEF Confirms, server
  <2>4. \/ outbox' = outbox
        \/ \E k \in Keys : verdict[k] # "none" /\ outbox' = outbox \ {k}
    BY <2>1 DEF Confirms
  <2>5. QED
    BY <2>2, <2>3, <2>4, RemovalRefines
<1>18. CASE Dispatch \/ LaneSend
  BY <1>18, SendRefines
<1>19. CASE LaneStep
  BY <1>19, LaneRefines
<1>20. ASSUME NEW k \in Keys, NEW reply \in Replies, ServerDecides(k, reply) PROVE Refines
  BY <1>20, DecideRefines
<1>21. CASE CrashRestart
  BY <1>21, CrashRefines
<1>22. CASE UNCHANGED vars
  BY <1>22, RemovalRefines DEF vars, memory, storage, server
<1>23. QED
  BY <1>1, <1>2, <1>3, <1>4, <1>5, <1>6, <1>7, <1>8, <1>9, <1>10, <1>11, <1>12, <1>13, <1>14,
     <1>15, <1>16, <1>17, <1>18, <1>19, <1>20, <1>21, <1>22, NextCases

(* The mutation queue implements the durability protocol, for every number *)
(* of writes, keys, faults and crashes.                                    *)
THEOREM QueueImplementsDurability == Spec => ImplementsDurability
<1>1. Init => Durability!Init
  <2>1. SUFFICES ASSUME Init PROVE Durability!Init
    OBVIOUS
  <2>2. ToSet(saving) = {} /\ DOMAIN envelope = {}
    BY <2>1 DEF Init, ToSet
  <2>3. "none" \notin Accepting /\ "none" \notin Rejecting
    BY DEF Accepting, Rejecting
  <2>4. QED
    BY <2>1, <2>2, <2>3 DEF Init, Durability!Init
<1>2. Core /\ [Next]_vars => [Durability!Next]_(Durability!vars)
  BY RefinementStep DEF Refines
<1>3. QED
  BY <1>1, <1>2, QueueCore, PTL DEF Spec, ImplementsDurability, Durability!Spec

-----------------------------------------------------------------------------
(* A pending write is never orphaned.                                      *)

(* The places from which a handler takes a pending write up again.         *)
Held(t) ==
    \/ t \in ToSet(saving) \/ t \in ToSet(staged) \/ t \in ToSet(queue)
    \/ t \in ToSet(batch) \/ t \in parked \/ \E g \in backoff : t \in ToSet(g)

PendingHeld == \A t \in Issued : tx[t].status = "pending" => Held(t)

(* The places of NoOrphanPending, one by one.                              *)
LEMMA HeldIsFound ==
    ASSUME Core
    PROVE  NoOrphanPending <=> PendingHeld
<1>1. saving \in Seq(TxIds) /\ staged \in Seq(TxIds) /\ queue \in Seq(TxIds) /\ batch \in Seq(TxIds)
  BY CorePlaces
<1>2. saving \o staged \in Seq(TxIds) /\ ToSet(saving \o staged) = ToSet(saving) \cup ToSet(staged)
  BY <1>1, ToSetConcat
<1> DEFINE a == saving \o staged
           b == a \o queue
<1>a. a \in Seq(TxIds)
  BY <1>2
<1> HIDE DEF a
<1>3. a \o queue \in Seq(TxIds) /\ ToSet(a \o queue) = ToSet(a) \cup ToSet(queue)
  BY <1>1, <1>a, ToSetConcat
<1>b. b \in Seq(TxIds)
  BY <1>3
<1> HIDE DEF b
<1>4. ToSet(b \o batch) = ToSet(b) \cup ToSet(batch)
  BY <1>1, <1>b, ToSetConcat
<1>5. ToSet(saving \o staged \o queue \o batch)
        = ToSet(saving) \cup ToSet(staged) \cup ToSet(queue) \cup ToSet(batch)
  BY <1>2, <1>3, <1>4 DEF a, b
<1>6. QED
  BY <1>5 DEF NoOrphanPending, PendingHeld, Held

(* Settlement leaves no pending write behind: the ones that are retried    *)
(* wait for a timer, and the deletes that are released are queued.         *)
LEMMA SettleHeld ==
    ASSUME Core, PendingHeld, NEW done, NEW lost, NEW again, NEW wait,
           Settle(done, lost, again, wait), Issued' = Issued,
           \A t \in TxIds :
             SettledAs(tx[t], tx'[t], StatusAfter(t, done, lost, again, wait), ConfAfter(t, done, lost)),
           \A x : x \in ToSet(queue')
                  <=> \/ x \in ToSet(queue)
                      \/ x \in ReleasedBy(done \cup lost) /\ PendingIn(tx', x),
           \A t \in ToSet(batch) : tx'[t].status = "pending" => t \in again \/ t \in ToSet(batch')
    PROVE  PendingHeld'
<1>1. SUFFICES ASSUME NEW t \in Issued, tx'[t].status = "pending"
               PROVE  Held(t)'
  BY DEF PendingHeld
<1>2. /\ backoff' = backoff \cup {<<x>> : x \in again} /\ saving' = saving /\ staged' = staged
      /\ parked' = parked \ ReleasedBy(done \cup lost)
  BY Zenon DEF Settle
<1>3. t \in TxIds
  BY DEF Issued
<1>4. CASE t \in again
  <2>1. <<t>> \in backoff' /\ t \in ToSet(<<t>>)
    BY <1>2, <1>3, <1>4, SingletonSeq
  <2>2. QED
    BY <2>1 DEF Held
<1>5. CASE t \notin again
  <2>1. tx'[t].status = StatusAfter(t, done, lost, again, wait)
    BY <1>3 DEF SettledAs
  <2>2. tx[t].status = "pending"
    BY <1>1, <1>5, <2>1 DEF StatusAfter
  <2>3. Held(t)
    BY <2>2 DEF PendingHeld
  <2>4. t \in ReleasedBy(done \cup lost) => t \in ToSet(queue')
    BY <1>1 DEF PendingIn
  <2>5. QED
    BY <1>1, <1>2, <1>5, <2>3, <2>4 DEF Held
<1>6. QED
  BY <1>4, <1>5

(* Steps that make no write pending and empty no place.                    *)
LEMMA HeldKept ==
    ASSUME PendingHeld, Issued' = Issued,
           \A t \in Issued : tx'[t].status = "pending" => tx[t].status = "pending",
           UNCHANGED <<saving, staged, queue, batch, parked, backoff>>
    PROVE  PendingHeld'
BY DEF PendingHeld, Held

(* A batch that ends: its writes settled or are retried.                   *)
LEMMA BatchEndsHeld ==
    ASSUME Core, PendingHeld, BatchEnds
    PROVE  PendingHeld'
<1>1. PICK done, lost, again, wait :
        SettlesBatch(done, lost, again, wait) /\ ReceiptGood(done, again, wait)
  BY BatchEndsSettle DEF Core
<1>2. /\ Issued' = Issued
      /\ \A t \in TxIds :
           SettledAs(tx[t], tx'[t], StatusAfter(t, done, lost, again, wait), ConfAfter(t, done, lost))
      /\ \A x : x \in ToSet(queue')
                <=> \/ x \in ToSet(queue)
                    \/ x \in ReleasedBy(done \cup lost) /\ PendingIn(tx', x)
  BY <1>1, SettlesBatchCore
<1>3. ASSUME NEW t \in ToSet(batch), tx'[t].status = "pending" PROVE t \in again
  <2>1. t \in TxIds
    BY CorePlaces
  <2>2. tx'[t].status = StatusAfter(t, done, lost, again, wait)
    BY <1>2, <2>1 DEF SettledAs
  <2>3. t \in Failing => t \in done \cup lost \cup again \cup wait
    BY <1>1 DEF SettlesBatch
  <2>4. QED
    BY <1>3, <2>2, <2>3 DEF StatusAfter, Failing
<1>4. Settle(done, lost, again, wait)
  BY <1>1 DEF SettlesBatch
<1>5. QED
  BY <1>2, <1>3, <1>4, SettleHeld

(* Every step keeps every pending write somewhere.                         *)
LEMMA HeldStep ==
    ASSUME Core, PendingHeld, Next
    PROVE  PendingHeld'
<1>0. Issued \subseteq TxIds
  BY CorePlaces
<1>1. ASSUME NEW r \in Rows, NEW type \in Kinds, NEW opt \in Opts, Write(type, r, opt) PROVE PendingHeld'
  <2>1. PICK d : d = NextId
    OBVIOUS
  <2>2. /\ Issues(d) /\ d \in TxIds /\ saving' = Append(saving, d) /\ UNCHANGED <<staged, queue>>
        /\ \A t \in TxIds \ {d} : tx'[t] = tx[t]
    BY <1>1, <2>1, WriteIssues DEF Issues
  <2>3. Issued' = Issued \cup {d}
    BY <2>2, IssueCore
  <2>4. ToSet(saving') = ToSet(saving) \cup {d}
    BY <2>2, CorePlaces, ToSetAppend
  <2>5. UNCHANGED <<backoff, parked, batch>>
    BY <2>2 DEF Issues, runner
  <2>6. QED
    BY <1>0, <2>2, <2>3, <2>4, <2>5 DEF PendingHeld, Held
<1>2. ASSUME NEW r \in Rows, RemoveUnsent(r) PROVE PendingHeld'
  <2>1. PICK d : d = NextId
    OBVIOUS
  <2>2. /\ Issues(d) /\ d \in TxIds /\ saving' = saving /\ tx'[d].status = "completed"
        /\ \E c \in UnsentCreates(r) :
             /\ \A t \in TxIds \ {d} : tx'[t].status = IF t = c THEN "rolled_back" ELSE tx[t].status
             /\ ToSet(staged') = ToSet(staged) \ {c} /\ ToSet(queue) \ {c} \subseteq ToSet(queue')
    BY <1>2, <2>1, RemoveUnsentIssues DEF Issues
  <2>3. Issued' = Issued \cup {d}
    BY <2>2, IssueCore
  <2>4. UNCHANGED <<backoff, parked, batch>>
    BY <2>2 DEF Issues, runner
  <2>5. QED
    BY <1>0, <2>2, <2>3, <2>4 DEF PendingHeld, Held
<1>3. ASSUME NEW r \in Rows, RemoveRow(r) PROVE PendingHeld'
  <2>1. PICK d : d = NextId
    OBVIOUS
  <2>2. /\ Issues(d) /\ d \in TxIds /\ saving' = Append(saving, d) /\ UNCHANGED <<staged, queue>>
        /\ \A t \in TxIds \ {d} :
             tx'[t].status = IF t \in Superseded(r) THEN "rolled_back" ELSE tx[t].status
    BY <1>3, <2>1, RemoveRowIssues DEF Issues
  <2>3. Issued' = Issued \cup {d}
    BY <2>2, IssueCore
  <2>4. ToSet(saving') = ToSet(saving) \cup {d}
    BY <2>2, CorePlaces, ToSetAppend
  <2>5. UNCHANGED <<backoff, parked, batch>>
    BY <2>2 DEF Issues, runner
  <2>6. QED
    BY <1>0, <2>2, <2>3, <2>4, <2>5 DEF PendingHeld, Held
<1>4. ASSUME NEW r \in Rows, CascadeCancel(r) PROVE PendingHeld'
  <2>1. /\ QuietStep
        /\ \A t \in TxIds : tx'[t].status \in {tx[t].status, "rolled_back"}
    BY <1>4, CascadeCancelCore
  <2>2. Issued' = Issued
    BY <2>1, KeptIssued DEF QuietStep, StoreKept
  <2>3. UNCHANGED <<saving, staged, queue, batch, parked, backoff>>
    BY <1>4 DEF CascadeCancel, runner
  <2>4. QED
    BY <1>0, <2>1, <2>2, <2>3, HeldKept
<1>5. ASSUME NEW u \in TxIds, ReplicationLag(u) PROVE PendingHeld'
  <2>1. QuietStep /\ \A t \in TxIds : tx'[t].status = tx[t].status
    BY <1>5, ReplicationLagCore
  <2>2. Issued' = Issued
    BY <2>1, KeptIssued DEF QuietStep, StoreKept
  <2>3. UNCHANGED <<saving, staged, queue, batch, parked, backoff>>
    BY <1>5 DEF ReplicationLag, runner
  <2>4. QED
    BY <1>0, <2>1, <2>2, <2>3, HeldKept
<1>6. ASSUME NEW t \in TxIds, PurgeLands(t) PROVE PendingHeld'
  BY <1>6, HeldKept DEF PurgeLands, memory, runner, Issued
<1>7. CASE Persisted
  <2>1. PICK t : t = Head(saving)
    OBVIOUS
  <2>2. /\ SaveEnds(t) /\ tx' = tx /\ queue' = queue
        /\ parked \subseteq parked' /\ ToSet(staged) \subseteq ToSet(staged')
        /\ t \in parked' \cup ToSet(staged')
    BY <1>7, <2>1, PersistedEnds
  <2>3. Issued' = Issued /\ ToSet(saving') = ToSet(saving) \ {t}
    BY <2>2, SaveEndsCore
  <2>4. batch' = batch /\ backoff' = backoff
    BY <2>2 DEF SaveEnds, runner
  <2>5. QED
    BY <2>2, <2>3, <2>4 DEF PendingHeld, Held
<1>8. CASE PersistFailed
  <2>1. PICK t : t = Head(saving)
    OBVIOUS
  <2>2. PICK S : S = {t}
    OBVIOUS
  <2>3. /\ SaveEnds(t) /\ staged' = staged /\ parked' = parked \ ReleasedBy(S)
        /\ \A x : x \in ToSet(queue')
                  <=> x \in ToSet(queue) \/ (x \in ReleasedBy(S) /\ PendingIn(tx', x))
        /\ \A u \in TxIds : tx'[u].status = IF u = t THEN "failed" ELSE tx[u].status
    BY <1>8, <2>1, <2>2, PersistFailedEnds
  <2>4. Issued' = Issued /\ ToSet(saving') = ToSet(saving) \ {t}
    BY <2>3, SaveEndsCore
  <2>5. batch' = batch /\ backoff' = backoff
    BY <2>3 DEF SaveEnds, runner
  <2>6. QED
    BY <1>0, <2>3, <2>4, <2>5 DEF PendingHeld, Held, PendingIn
<1>9. CASE CommitStaged \/ DrainPending
  <2>1. /\ queue' = EnqueueAll(queue, staged, tx) /\ tx' = tx
        /\ UNCHANGED <<saving, backoff, parked, batch>>
    BY <1>9 DEF CommitStaged, DrainPending, runner
  <2>2. \A x : x \in ToSet(queue') <=> x \in ToSet(queue) \/ (x \in ToSet(staged) /\ PendingIn(tx, x))
    BY <2>1, CorePlaces, EnqueueSaved
  <2>3. Issued' = Issued
    BY <2>1 DEF Issued
  <2>4. QED
    BY <2>1, <2>2, <2>3 DEF PendingHeld, Held, PendingIn
<1>10. ASSUME NEW g \in backoff, RetryTimer(g) PROVE PendingHeld'
  <2>1. /\ queue' = EnqueueAll(queue, g, tx) /\ tx' = tx /\ backoff' = backoff \ {g}
        /\ UNCHANGED <<saving, staged, parked, batch>>
    BY <1>10 DEF RetryTimer, runner
  <2>2. \A x : x \in ToSet(queue') <=> x \in ToSet(queue) \/ (x \in ToSet(g) /\ PendingIn(tx, x))
    BY <2>1, CorePlaces, EnqueueSaved
  <2>3. Issued' = Issued
    BY <2>1 DEF Issued
  <2>4. QED
    BY <2>1, <2>2, <2>3 DEF PendingHeld, Held, PendingIn
<1>11. CASE StartBatch
  <2>1. /\ tx' = tx
        /\ \A t \in ToSet(queue) : PendingIn(tx, t) => t \in ToSet(batch') \cup ToSet(queue')
    BY <1>11, StartBatchFacts
  <2>2. UNCHANGED <<saving, staged, backoff, parked>>
    BY <1>11 DEF StartBatch
  <2>3. ToSet(batch) = {}
    BY <1>11, CorePlaces DEF StartBatch, ControlTyped, ToSet
  <2>4. Issued' = Issued
    BY <2>1 DEF Issued
  <2>5. QED
    BY <2>1, <2>2, <2>3, <2>4 DEF PendingHeld, Held, PendingIn
<1>12. CASE Prepared
  <2>1. /\ \A t \in TxIds : /\ t \in ToSet(batch) => tx'[t].status = "executing"
                            /\ t \notin ToSet(batch) => tx'[t] = tx[t]
        /\ UNCHANGED <<saving, staged, queue, batch, parked, backoff>>
    BY <1>12, PreparedFacts
  <2>2. Issued' = Issued
    BY <1>12, PreparedCore
  <2>3. QED
    BY <1>0, <2>1, <2>2, HeldKept
<1>13. CASE PrepareTransient
  <2>1. /\ QuietStep
        /\ \A t \in TxIds : t \notin ToSet(batch) => tx'[t].status = tx[t].status
    BY <1>13, PrepareTransientCore
  <2>2. Issued' = Issued
    BY <2>1, KeptIssued DEF QuietStep, StoreKept
  <2>3. backoff' = backoff \cup {batch} /\ UNCHANGED <<saving, staged, queue, parked>>
    BY <1>13 DEF PrepareTransient
  <2>4. QED
    BY <1>0, <2>1, <2>2, <2>3 DEF PendingHeld, Held
<1>14. CASE PreparePermanent
  <2>1. \A t \in TxIds : t \notin ToSet(batch) => tx'[t].status = tx[t].status
    BY <1>14, PreparePermanentStore
  <2>2. Issued' = Issued
    BY <1>14, PreparePermanentStore, KeptIssued DEF StoreKept
  <2>3. ToSet(queue') = ToSet(queue) \cup ToSet(batch) /\ UNCHANGED <<saving, staged, backoff, parked>>
    BY <1>14, CorePlaces, ToSetConcat DEF PreparePermanent
  <2>4. QED
    BY <1>0, <2>1, <2>2, <2>3 DEF PendingHeld, Held
<1>15. CASE Seal
  BY <1>15, HeldKept DEF Seal, memory, Issued
<1>16. CASE BatchEnds
  BY <1>16, BatchEndsHeld
<1>17. CASE ConfirmStep
  <2>1. PICK S : Confirms(S)
    BY <1>17, ConfirmSettles
  <2>2. PICK E : E = {}
    OBVIOUS
  <2>3. /\ Issued' = Issued /\ batch' = batch
        /\ \A t \in TxIds :
             SettledAs(tx[t], tx'[t], StatusAfter(t, S, E, E, E), ConfAfter(t, S, E))
        /\ \A x : x \in ToSet(queue')
                  <=> \/ x \in ToSet(queue)
                      \/ x \in ReleasedBy(S \cup E) /\ PendingIn(tx', x)
    BY <2>1, <2>2, ConfirmCore, Zenon
  <2>4. Settle(S, E, E, E)
    BY <2>1, <2>2, Zenon DEF Confirms
  <2>5. QED
    BY <2>3, <2>4, SettleHeld
<1>18. CASE Dispatch \/ LaneSend
  BY <1>18, HeldKept DEF Dispatch, LaneSend, memory, runner, Issued
<1>19. CASE LaneStep
  BY <1>19, HeldKept DEF LaneStep, LaneReceipt, LaneTransient, LaneConfirmed, memory, runner, Issued
<1>20. ASSUME NEW k \in Keys, NEW reply \in Replies, ServerDecides(k, reply) PROVE PendingHeld'
  BY <1>20, HeldKept DEF ServerDecides, memory, runner, Issued
<1>21. CASE CrashRestart
  <2>1. \A t \in Issued : tx'[t].status = IF t \in ToSet(queue') THEN "pending" ELSE "gone"
    BY <1>21, CrashFacts
  <2>2. Issued' = Issued
    BY <1>21, CrashCore
  <2>3. QED
    BY <2>1, <2>2 DEF PendingHeld, Held
<1>22. QED
  BY <1>1, <1>2, <1>3, <1>4, <1>5, <1>6, <1>7, <1>8, <1>9, <1>10, <1>11, <1>12, <1>13, <1>14,
     <1>15, <1>16, <1>17, <1>18, <1>19, <1>20, <1>21, NextCases

(* A pending write is always in a journal save, staged, queued, in the     *)
(* batch, parked behind its row's create or waiting for a retry timer: no  *)
(* handler of the queue drops one, through its failures, cancellations,    *)
(* timers and reloads. That a queued one is selected again is not said.    *)
THEOREM PendingWritesAreHeld == Spec => []NoOrphanPending
<1>1. Init => PendingHeld
  BY DEF Init, PendingHeld, Issued, NoTx
<1>2. Core /\ PendingHeld /\ [Next]_vars => PendingHeld'
  <2>1. ASSUME PendingHeld, UNCHANGED vars PROVE PendingHeld'
    BY <2>1 DEF PendingHeld, Held, Issued, vars, memory, runner
  <2>2. QED
    BY <2>1, HeldStep
<1>3. Core /\ PendingHeld => NoOrphanPending
  BY HeldIsFound
<1>4. QED
  BY <1>1, <1>2, <1>3, QueueCore, PTL DEF Spec

-----------------------------------------------------------------------------
(* What the server has applied, and what callers are told.                 *)

(* Keys keep their operations, and the server its log and its verdicts.    *)
HistoryGrows ==
    /\ \A k \in DOMAIN envelope : k \in DOMAIN envelope' /\ Ops(k)' = Ops(k)
    /\ ToSet(log) \subseteq ToSet(log')
    /\ \A k \in Keys : verdict[k] # "none" => verdict'[k] = verdict[k]

(* Such a step leaves the history alone.                                   *)
LEMMA SameHistory ==
    ASSUME UNCHANGED <<envelope, verdict, log>>
    PROVE  HistoryGrows
BY DEF HistoryGrows, Ops

(* Every step keeps the history.                                           *)
LEMMA HistoryStep ==
    ASSUME Core, Next
    PROVE  HistoryGrows
<1>1. CASE Prepared
  <2>1. /\ \A k \in DOMAIN envelope : k \in DOMAIN envelope' /\ envelope'[k] = envelope[k]
        /\ UNCHANGED server
    BY <1>1, PreparedFacts
  <2>2. QED
    BY <2>1 DEF HistoryGrows, Ops, server
<1>2. CASE Seal
  <2>1. /\ DOMAIN envelope' = DOMAIN envelope /\ UNCHANGED server
        /\ \A k \in DOMAIN envelope : envelope'[k].ops = envelope[k].ops
    BY <1>2, SealFacts
  <2>2. QED
    BY <2>1 DEF HistoryGrows, Ops, server
<1>3. ASSUME NEW k \in Keys, NEW reply \in Replies, ServerDecides(k, reply) PROVE HistoryGrows
  <2>1. /\ verdict[k] = "none" /\ (\A l \in Keys \ {k} : verdict'[l] = verdict[l])
        /\ ToSet(log) \subseteq ToSet(log')
    BY <1>3, DecideFacts
  <2>2. envelope' = envelope
    BY <1>3 DEF ServerDecides, storage
  <2>3. QED
    BY <2>1, <2>2 DEF HistoryGrows, Ops
<1>4. ASSUME NEW r \in Rows, NEW type \in Kinds, NEW opt \in Opts, Write(type, r, opt) PROVE HistoryGrows
  BY <1>4, SameHistory DEF Write, storage, server
<1>5. ASSUME NEW r \in Rows, RemoveUnsent(r) PROVE HistoryGrows
  BY <1>5, SameHistory DEF RemoveUnsent, server
<1>6. ASSUME NEW r \in Rows, RemoveRow(r) PROVE HistoryGrows
  BY <1>6, SameHistory DEF RemoveRow, storage, server
<1>7. ASSUME NEW r \in Rows, CascadeCancel(r) PROVE HistoryGrows
  BY <1>7, SameHistory DEF CascadeCancel, storage, server
<1>8. ASSUME NEW t \in TxIds, ReplicationLag(t) PROVE HistoryGrows
  BY <1>8, SameHistory DEF ReplicationLag, storage, server
<1>9. ASSUME NEW t \in TxIds, PurgeLands(t) PROVE HistoryGrows
  BY <1>9, SameHistory DEF PurgeLands, server
<1>10. CASE Persisted
  BY <1>10, SameHistory DEF Persisted, server
<1>11. CASE PersistFailed
  BY <1>11, SameHistory DEF PersistFailed, server
<1>12. CASE CommitStaged \/ DrainPending
  BY <1>12, SameHistory DEF CommitStaged, DrainPending, storage, server
<1>13. ASSUME NEW g \in backoff, RetryTimer(g) PROVE HistoryGrows
  BY <1>13, SameHistory DEF RetryTimer, storage, server
<1>14. CASE StartBatch
  BY <1>14, SameHistory DEF StartBatch, storage, server
<1>15. CASE PrepareTransient
  BY <1>15, SameHistory DEF PrepareTransient, storage, server
<1>16. CASE PreparePermanent
  BY <1>16, SameHistory DEF PreparePermanent, storage, server
<1>17. CASE BatchEnds
  <2>1. PICK done, lost, again, wait : SettlesBatch(done, lost, again, wait)
    BY <1>17, BatchEndsSettle DEF Core
  <2>2. QED
    BY <2>1, SameHistory DEF SettlesBatch, server
<1>18. CASE ConfirmStep
  <2>1. PICK S : Confirms(S)
    BY <1>18, ConfirmSettles
  <2>2. QED
    BY <2>1, SameHistory DEF Confirms, server
<1>19. CASE Dispatch \/ LaneSend
  BY <1>19, SameHistory DEF Dispatch, LaneSend, storage
<1>20. CASE LaneStep
  BY <1>20, SameHistory DEF LaneStep, LaneReceipt, LaneTransient, LaneConfirmed, storage, server
<1>21. CASE CrashRestart
  BY <1>21, SameHistory DEF CrashRestart, server
<1>22. QED
  BY <1>1, <1>2, <1>3, <1>4, <1>5, <1>6, <1>7, <1>8, <1>9, <1>10, <1>11, <1>12, <1>13, <1>14,
     <1>15, <1>16, <1>17, <1>18, <1>19, <1>20, <1>21, NextCases

(* A write is applied exactly when the server accepted a key it is under.  *)
LEMMA AppliedKeys ==
    ASSUME Core
    PROVE  \A t : t \in Applied <=> \E k \in ToSet(log) : t \in Ops(k)
<1>1. log \in Seq(Keys)
  BY CorePlaces
<1>2. DOMAIN log = 1..Len(log)
  BY <1>1, LenProperties
<1>3. \A t : t \in Applied <=> \E i \in DOMAIN log : t \in ToSet(OpsAt(i))
  BY DEF Applied
<1>4. \A k : k \in ToSet(log) <=> \E i \in DOMAIN log : log[i] = k
  BY <1>1, <1>2, ToSetIn
<1>5. QED
  BY <1>3, <1>4 DEF OpsAt, Ops

(* The same in the next state.                                             *)
LEMMA AppliedKeysNext ==
    Core' => (\A t : t \in Applied <=> \E k \in ToSet(log) : t \in Ops(k))'
<1>1. Core => \A t : t \in Applied <=> \E k \in ToSet(log) : t \in Ops(k)
  BY AppliedKeys
<1>2. QED
  BY <1>1, PTL

(* The members of an accepted batch are applied.                           *)
LEMMA AcceptedIsApplied ==
    ASSUME Core, NEW k \in Keys, verdict[k] \in Accepting
    PROVE  \A t \in Ops(k) : t \in Applied
BY AppliedKeys DEF Core, Ledger

(* Nothing is ever taken out of the server's log.                          *)
LEMMA AppliedStep ==
    ASSUME Core, Core', HistoryGrows
    PROVE  Applied \subseteq Applied'
<1>1. ASSUME NEW t \in Applied PROVE t \in Applied'
  <2>1. PICK k \in ToSet(log) : t \in Ops(k)
    BY AppliedKeys
  <2>2. k \in DOMAIN envelope
    BY TypeParts DEF Core, StorageTyped
  <2>3. k \in ToSet(log') /\ t \in Ops(k)'
    BY <2>1, <2>2 DEF HistoryGrows
  <2>4. (\A u : u \in Applied <=> \E l \in ToSet(log) : u \in Ops(l))'
    BY AppliedKeysNext
  <2>5. QED
    BY <2>3, <2>4
<1>2. QED
  BY <1>1

(* Done(t): the server applied the write and did not report its row        *)
(* missing; Vacuous(t): it answered that the row was gone already.         *)
Done(t)    == t \in Applied /\ tx[t].row \notin MissingRows
Vacuous(t) == \E k \in DOMAIN envelope : verdict[k] = "norows" /\ t \in Ops(k)

AnswersGood ==
    \A t \in Issued : /\ tx[t].status = "awaiting_delta" => Done(t)
                      /\ tx[t].conf = "resolved" => Done(t) \/ Vacuous(t)

(* Both stay so.                                                           *)
LEMMA DoneStays ==
    ASSUME Core, Core', HistoryGrows, NEW t \in Issued, WriteKept(t)
    PROVE  (Done(t) => Done(t)') /\ (Vacuous(t) => Vacuous(t)')
<1>1. Applied \subseteq Applied'
  BY AppliedStep
<1>2. tx'[t].row = tx[t].row
  BY DEF WriteKept, Issued
<1>3. DOMAIN envelope \subseteq Keys
  BY TypeParts, EnvelopeIn DEF Core
<1>4. Vacuous(t) => Vacuous(t)'
  BY <1>3 DEF Vacuous, HistoryGrows
<1>5. QED
  BY <1>1, <1>2, <1>4 DEF Done

(* A step that moves no write to awaiting_delta and resolves no caller.    *)
LEMMA AnswersKept ==
    ASSUME Core, Core', HistoryGrows, AnswersGood,
           \A t \in Issued : WriteKept(t),
           \A t \in Issued : tx'[t].status = "awaiting_delta" => tx[t].status = "awaiting_delta",
           \A t \in Issued : tx'[t].conf = "resolved" => tx[t].conf = "resolved",
           \A t \in Issued' \ Issued : tx'[t].status # "awaiting_delta" /\ tx'[t].conf # "resolved"
    PROVE  AnswersGood'
<1>1. \A t \in Issued : (Done(t) => Done(t)') /\ (Vacuous(t) => Vacuous(t)')
  BY DoneStays
<1>2. QED
  BY <1>1 DEF AnswersGood

(* A settlement completes writes the server applied or found gone, and     *)
(* lets writes wait that it applied.                                       *)
LEMMA SettleAnswers ==
    ASSUME Core, Core', HistoryGrows, AnswersGood, Issued' = Issued,
           NEW done, NEW lost, NEW again, NEW wait,
           \A t \in TxIds : WriteKept(t),
           \A t \in TxIds :
             SettledAs(tx[t], tx'[t], StatusAfter(t, done, lost, again, wait), ConfAfter(t, done, lost)),
           \A t \in wait : Done(t), \A t \in done : Done(t) \/ Vacuous(t)
    PROVE  AnswersGood'
<1>1. SUFFICES ASSUME NEW t \in Issued
               PROVE  /\ tx'[t].status = "awaiting_delta" => Done(t)'
                      /\ tx'[t].conf = "resolved" => Done(t)' \/ Vacuous(t)'
  BY DEF AnswersGood
<1>2. t \in TxIds
  BY DEF Issued
<1>3. (Done(t) => Done(t)') /\ (Vacuous(t) => Vacuous(t)')
  BY <1>2, DoneStays
<1>4. /\ tx'[t].status = StatusAfter(t, done, lost, again, wait)
      /\ tx'[t].conf = ConfAfter(t, done, lost)
  BY <1>2 DEF SettledAs
<1>5. ASSUME tx'[t].status = "awaiting_delta" PROVE Done(t)
  BY <1>4, <1>5 DEF StatusAfter, AnswersGood
<1>6. ASSUME tx'[t].conf = "resolved" PROVE Done(t) \/ Vacuous(t)
  BY <1>4, <1>6 DEF ConfAfter, AnswersGood
<1>7. QED
  BY <1>3, <1>5, <1>6

(* A receipt: what it completes or lets wait is applied or found gone.     *)
LEMMA ReceiptAnswers ==
    ASSUME Core, NEW done, NEW lost, NEW again, NEW wait,
           SettlesBatch(done, lost, again, wait), ReceiptGood(done, again, wait)
    PROVE  (\A t \in wait : Done(t)) /\ (\A t \in done : Done(t) \/ Vacuous(t))
<1>1. done \subseteq ToSet(batch) /\ wait \subseteq ToSet(batch) /\ phase # "idle"
  BY DEF SettlesBatch
<1>2. ASSUME phase = "inflight"
      PROVE  Key \in Keys /\ Key \in DOMAIN envelope /\ ToSet(batch) = Ops(Key)
  <2>1. Key # 0
    BY <1>2 DEF Core, BatchGood
  <2>2. QED
    BY <1>1, <2>1, BatchHead DEF Ops
<1>3. PICK k : k = Key
  OBVIOUS
<1>4. CASE /\ phase = "inflight" /\ verdict[Key] \in Accepting
           /\ \A t \in done \cup wait : tx[t].row \notin MissingRows
  <2>1. k \in Keys /\ ToSet(batch) = Ops(k) /\ verdict[k] \in Accepting
    BY <1>2, <1>3, <1>4
  <2>2. \A t \in Ops(k) : t \in Applied
    BY <2>1, AcceptedIsApplied
  <2>3. QED
    BY <1>1, <1>4, <2>1, <2>2 DEF Done
<1>5. CASE phase = "inflight" /\ verdict[Key] = "norows" /\ wait = {}
  BY <1>1, <1>2, <1>5 DEF Vacuous
<1>6. CASE done = {} /\ wait = {}
  BY <1>6
<1>7. QED
  BY <1>4, <1>5, <1>6 DEF ReceiptGood

(* Every step tells callers the truth.                                     *)
LEMMA AnswersStep ==
    ASSUME Core, AnswersGood, Next
    PROVE  AnswersGood'
<1>0. Core' /\ HistoryGrows /\ Issued \subseteq TxIds
  BY CoreStep, HistoryStep, CorePlaces
<1>a. ASSUME tx' = tx PROVE AnswersGood'
  BY <1>0, <1>a, AnswersKept DEF WriteKept, Issued
<1>1. ASSUME NEW r \in Rows, NEW type \in Kinds, NEW opt \in Opts, Write(type, r, opt) PROVE AnswersGood'
  <2>1. PICK d : d = NextId
    OBVIOUS
  <2>2. /\ Issues(d) /\ tx'[d].status = "pending" /\ tx'[d].conf = "open"
        /\ \A t \in TxIds \ {d} : tx'[t] = tx[t]
    BY <1>1, <2>1, WriteIssues
  <2>3. Issued' = Issued \cup {d} /\ d \notin Issued
    BY <2>2, IssueCore
  <2>4. \A t \in Issued : WriteKept(t)
    BY <1>0, <2>2, <2>3 DEF Issues
  <2>5. QED
    BY <1>0, <2>2, <2>3, <2>4, AnswersKept
<1>2. ASSUME NEW r \in Rows, RemoveUnsent(r) PROVE AnswersGood'
  <2>1. PICK d : d = NextId
    OBVIOUS
  <2>2. /\ Issues(d) /\ tx'[d].status = "completed" /\ tx'[d].conf = "cancelled"
        /\ \A t \in TxIds \ {d} : /\ tx'[t].status \in {tx[t].status, "rolled_back"}
                                  /\ tx'[t].conf \in {tx[t].conf, "cancelled"}
    BY <1>2, <2>1, RemoveUnsentIssues
  <2>3. Issued' = Issued \cup {d} /\ d \notin Issued
    BY <2>2, IssueCore
  <2>4. \A t \in Issued : WriteKept(t)
    BY <1>0, <2>2, <2>3 DEF Issues
  <2>5. QED
    BY <1>0, <2>2, <2>3, <2>4, AnswersKept
<1>3. ASSUME NEW r \in Rows, RemoveRow(r) PROVE AnswersGood'
  <2>1. PICK d : d = NextId
    OBVIOUS
  <2>2. /\ Issues(d) /\ tx'[d].status = "pending" /\ tx'[d].conf = "open"
        /\ \A t \in TxIds \ {d} : /\ tx'[t].status \in {tx[t].status, "rolled_back"}
                                  /\ tx'[t].conf = tx[t].conf
    BY <1>3, <2>1, RemoveRowIssues
  <2>3. Issued' = Issued \cup {d} /\ d \notin Issued
    BY <2>2, IssueCore
  <2>4. \A t \in Issued : WriteKept(t)
    BY <1>0, <2>2, <2>3 DEF Issues
  <2>5. QED
    BY <1>0, <2>2, <2>3, <2>4, AnswersKept
<1>b. ASSUME \A t \in TxIds : WriteKept(t),
             \A t \in TxIds : tx'[t].status = "awaiting_delta" => tx[t].status = "awaiting_delta",
             \A t \in TxIds : tx'[t].conf = "resolved" => tx[t].conf = "resolved"
      PROVE  AnswersGood'
  <2>1. Issued' = Issued
    BY <1>b, KeptIssued
  <2>2. QED
    BY <1>0, <1>b, <2>1, AnswersKept
<1>4. ASSUME NEW r \in Rows, CascadeCancel(r) PROVE AnswersGood'
  BY <1>b, <1>4, CascadeCancelCore DEF QuietStep, StoreKept
<1>5. ASSUME NEW u \in TxIds, ReplicationLag(u) PROVE AnswersGood'
  BY <1>b, <1>5, ReplicationLagCore DEF QuietStep, StoreKept
<1>6. ASSUME NEW t \in TxIds, PurgeLands(t) PROVE AnswersGood'
  BY <1>a, <1>6 DEF PurgeLands, memory
<1>7. CASE Persisted
  BY <1>a, <1>7, PersistedEnds
<1>8. CASE PersistFailed
  <2>1. PICK t : t = Head(saving)
    OBVIOUS
  <2>2. /\ SaveEnds(t)
        /\ \A u \in TxIds : /\ tx'[u].status = IF u = t THEN "failed" ELSE tx[u].status
                            /\ tx'[u].conf \in {tx[u].conf, "rejected"}
    BY <1>8, <2>1, PersistFailedEnds
  <2>3. \A u \in TxIds : WriteKept(u)
    BY <2>2 DEF SaveEnds, StoreKept
  <2>4. QED
    BY <1>b, <2>2, <2>3
<1>9. CASE CommitStaged \/ DrainPending
  BY <1>a, <1>9 DEF CommitStaged, DrainPending
<1>10. ASSUME NEW g \in backoff, RetryTimer(g) PROVE AnswersGood'
  BY <1>a, <1>10 DEF RetryTimer
<1>11. CASE StartBatch
  BY <1>a, <1>11 DEF StartBatch
<1>12. CASE Prepared
  <2>1. \A t \in TxIds : /\ WriteKept(t) /\ tx'[t].conf = tx[t].conf
                         /\ t \in ToSet(batch) => tx'[t].status = "executing"
                         /\ t \notin ToSet(batch) => tx'[t] = tx[t]
    BY <1>12, PreparedFacts
  <2>2. QED
    BY <1>b, <2>1
<1>13. CASE PrepareTransient
  BY <1>b, <1>13, PrepareTransientCore DEF QuietStep, StoreKept
<1>14. CASE PreparePermanent
  BY <1>b, <1>14, PreparePermanentStore DEF StoreKept
<1>15. CASE Seal
  BY <1>a, <1>15 DEF Seal, memory
<1>16. CASE BatchEnds
  <2>1. PICK done, lost, again, wait :
          SettlesBatch(done, lost, again, wait) /\ ReceiptGood(done, again, wait)
    BY <1>16, BatchEndsSettle DEF Core
  <2>2. /\ QuietStep /\ Issued' = Issued
        /\ \A t \in TxIds :
             SettledAs(tx[t], tx'[t], StatusAfter(t, done, lost, again, wait), ConfAfter(t, done, lost))
    BY <2>1, SettlesBatchCore
  <2>3. (\A t \in wait : Done(t)) /\ (\A t \in done : Done(t) \/ Vacuous(t))
    BY <2>1, ReceiptAnswers
  <2>4. \A t \in TxIds : WriteKept(t)
    BY <2>2 DEF QuietStep, StoreKept
  <2>5. QED
    BY <1>0, <2>2, <2>3, <2>4, SettleAnswers
<1>17. CASE ConfirmStep
  <2>1. PICK S : Confirms(S)
    BY <1>17, ConfirmSettles
  <2>2. PICK E : E = {}
    OBVIOUS
  <2>3. /\ QuietStep /\ Issued' = Issued
        /\ \A t \in TxIds :
             SettledAs(tx[t], tx'[t], StatusAfter(t, S, E, E, E), ConfAfter(t, S, E))
    BY <2>1, <2>2, ConfirmCore, Zenon
  <2>4. \A t \in S : Done(t)
    BY <2>1 DEF Confirms, Awaiting, AnswersGood
  <2>5. \A t \in TxIds : WriteKept(t)
    BY <2>3 DEF QuietStep, StoreKept
  <2>6. QED
    BY <1>0, <2>2, <2>3, <2>4, <2>5, SettleAnswers
<1>18. CASE Dispatch \/ LaneSend
  BY <1>a, <1>18 DEF Dispatch, LaneSend, memory
<1>19. CASE LaneStep
  BY <1>a, <1>19, LaneCore DEF LaneStep
<1>20. ASSUME NEW k \in Keys, NEW reply \in Replies, ServerDecides(k, reply) PROVE AnswersGood'
  BY <1>a, <1>20 DEF ServerDecides, memory
<1>21. CASE CrashRestart
  <2>1. /\ \A t \in TxIds : WriteKept(t)
        /\ \A t \in Issued : /\ tx'[t].status \in {"pending", "gone"}
                             /\ tx'[t].conf \in {"lost", tx[t].conf}
    BY <1>21, CrashFacts
  <2>2. Issued' = Issued
    BY <1>21, CrashCore
  <2>3. QED
    BY <1>0, <2>1, <2>2, AnswersKept
<1>22. QED
  BY <1>1, <1>2, <1>3, <1>4, <1>5, <1>6, <1>7, <1>8, <1>9, <1>10, <1>11, <1>12, <1>13, <1>14,
     <1>15, <1>16, <1>17, <1>18, <1>19, <1>20, <1>21, NextCases

(* A caller whose promise resolves has its write applied by the server,    *)
(* with the row in place, or was told by 'no rows in result set' that the  *)
(* row is gone; a write that waits for its delta has been applied.         *)
THEOREM ResolvedMeansApplied == Spec => []ResolvedWasApplied
<1>1. Init => AnswersGood
  BY DEF Init, AnswersGood, Issued, NoTx
<1>2. Core /\ AnswersGood /\ [Next]_vars => AnswersGood'
  <2>1. ASSUME AnswersGood, UNCHANGED vars PROVE AnswersGood'
    BY <2>1 DEF AnswersGood, Done, Vacuous, Applied, OpsAt, Ops, Issued, vars, memory, storage, server
  <2>2. QED
    BY <2>1, AnswersStep
<1>3. Core /\ AnswersGood => ResolvedWasApplied
  <2>1. SUFFICES ASSUME Core, AnswersGood PROVE ResolvedWasApplied
    OBVIOUS
  <2>2. \A k \in DOMAIN envelope : envelope[k].ops \in Seq(TxIds)
    BY <2>1, TypeParts, EnvelopeIn DEF Core
  <2>3. \A k \in DOMAIN envelope : \A t : Contains(envelope[k].ops, t) <=> t \in Ops(k)
    BY <2>2, ToSetIn DEF Ops
  <2>4. QED
    BY <2>1, <2>3 DEF ResolvedWasApplied, AnswersGood, Done, Vacuous
<1>4. QED
  BY <1>1, <1>2, <1>3, QueueCore, PTL DEF Spec

-----------------------------------------------------------------------------
(* What a crash may not lose.                                              *)

LaterDelete(t) == \E d \in Issued : tx[d].type = "delete" /\ tx[d].row = tx[t].row /\ t < d
Settled(t)     == tx[t].status \in {"completed", "failed"}

(* Needs(t): the write is under way and its caller was not told otherwise; *)
(* Backed(t): it survives a crash.                                         *)
Needs(t) ==
    /\ tx[t].status \in Outstanding \/ t \in ToSet(batch)
    /\ tx[t].conf \in {"open", "lost"} /\ ~LaterDelete(t)

Backed(t) ==
    \/ t \in ToSet(saving) \/ t \in journal \/ t \in Applied
    \/ \E k \in outbox : t \in Ops(k)

(* Only rows of finished or superseded writes are being removed; what the  *)
(* lane replays has no write in memory, so a batch never holds it, too;    *)
(* and a write that needs it is backed.                                    *)
Recovery ==
    /\ \A t \in purging : LaterDelete(t) \/ Settled(t)
    /\ \A k \in ToSet(lane) : \A t \in Ops(k) : tx[t].status = "gone"
    /\ \A t \in Issued : Needs(t) => Backed(t)

(* A step that revives, forgets or unsettles no write.                     *)
Calm(t) ==
    /\ WriteKept(t)
    /\ tx'[t].conf \in {"open", "lost"} => tx[t].conf \in {"open", "lost"}
    /\ tx'[t].status \in Outstanding \/ t \in ToSet(batch')
       => tx[t].status \in Outstanding \/ t \in ToSet(batch)
    /\ Settled(t) => Settled(t)'
    /\ tx[t].status = "gone" /\ t \in saved => tx'[t].status = "gone"

(* A later delete stays one.                                               *)
LEMMA LaterDeleteStays ==
    ASSUME NEW t \in Issued, \A u \in Issued : WriteKept(u), LaterDelete(t)
    PROVE  LaterDelete(t)'
<1>1. PICK d \in Issued : tx[d].type = "delete" /\ tx[d].row = tx[t].row /\ t < d
  BY DEF LaterDelete
<1>2. /\ tx'[d].type = tx[d].type /\ tx'[d].row = tx[d].row /\ tx'[t].row = tx[t].row
      /\ d \in Issued'
  BY DEF WriteKept, Issued
<1>3. QED
  BY <1>1, <1>2 DEF LaterDelete

(* A write whose backing does not shrink stays backed.                     *)
LEMMA BackedStays ==
    ASSUME Core, Core', HistoryGrows, NEW t, Backed(t),
           t \in ToSet(saving) \cup journal => Backed(t)',
           \A k \in outbox \ outbox' : t \in Ops(k) => Backed(t)'
    PROVE  Backed(t)'
<1>1. Applied \subseteq Applied'
  BY AppliedStep
<1>2. ASSUME NEW k \in outbox, t \in Ops(k) PROVE Backed(t)'
  <2>1. k \in DOMAIN envelope
    BY TypeParts DEF Core, StorageTyped
  <2>2. k \in outbox' => Backed(t)'
    BY <1>2, <2>1 DEF Backed, HistoryGrows
  <2>3. QED
    BY <1>2, <2>2
<1>3. QED
  BY <1>1, <1>2 DEF Backed

(* Calm steps keep the recovery invariant if they keep what is backed.     *)
LEMMA RecoveryKept ==
    ASSUME Core, Core', HistoryGrows, Recovery, \A t \in Issued : Calm(t),
           \A t \in purging' \ purging : LaterDelete(t)' \/ Settled(t)',
           ToSet(lane') \subseteq ToSet(lane),
           \A t \in Issued : Needs(t)' /\ Needs(t) /\ Backed(t) => Backed(t)',
           \A t \in Issued' \ Issued : Needs(t)' => t \in ToSet(saving')
    PROVE  Recovery'
<1>1. \A t \in Issued : WriteKept(t)
  BY DEF Calm
<1>2. purging \subseteq Issued /\ ToSet(lane) \subseteq DOMAIN envelope /\ lane \in Seq(Keys)
  BY TypeParts DEF Core, StorageTyped
<1>3. \A t \in purging' : LaterDelete(t)' \/ Settled(t)'
  <2>1. ASSUME NEW t \in purging PROVE LaterDelete(t)' \/ Settled(t)'
    BY <1>1, <1>2, LaterDeleteStays DEF Calm, Recovery
  <2>2. QED
    BY <2>1
<1>4. \A k \in ToSet(lane') : \A t \in Ops(k)' : tx'[t].status = "gone"
  <2>1. SUFFICES ASSUME NEW k \in ToSet(lane), NEW t \in Ops(k) PROVE tx'[t].status = "gone"
    BY <1>2 DEF HistoryGrows
  <2>2. k \in SealedKeys
    BY DEF Core, Ledger
  <2>3. t \in saved
    BY <2>2 DEF SealedKeys, Core, Envelopes
  <2>4. t \in Issued /\ tx[t].status = "gone"
    BY <2>3, CorePlaces DEF Recovery
  <2>5. QED
    BY <2>3, <2>4 DEF Calm
<1>5. ASSUME NEW t \in Issued, Needs(t)' PROVE Backed(t)'
  <2>1. ~LaterDelete(t)
    BY <1>1, <1>5, LaterDeleteStays DEF Needs
  <2>2. Needs(t)
    BY <1>5, <2>1 DEF Needs, Calm
  <2>3. QED
    BY <1>5, <2>2 DEF Recovery
<1>6. ASSUME NEW t \in Issued' \ Issued, Needs(t)' PROVE Backed(t)'
  BY <1>6 DEF Backed
<1>7. QED
  BY <1>3, <1>4, <1>5, <1>6 DEF Recovery

(* The writes of a batch are under way or were cancelled.                  *)
LEMMA BatchStatus ==
    ASSUME Core
    PROVE  \A t \in ToSet(batch) : tx[t].status \in {"pending", "executing", "rolled_back"}
BY DEF Core, BatchGood

(* What a settled write removes: its own row, or one it superseded.        *)
LEMMA PurgedRows ==
    ASSUME Core, NEW S, S \subseteq TxIds
    PROVE  \A x \in Purged(S) : x \in S \/ LaterDelete(x)
<1>1. SUFFICES ASSUME NEW t \in S, NEW x \in {t} \cup sources[t] PROVE x \in S \/ LaterDelete(x)
  BY DEF Purged
<1>2. CASE x = t
  BY <1>2
<1>3. CASE x # t
  <2>1. Supersedes(t, x) /\ t \in Issued
    BY <1>1, <1>3 DEF Core, SourcesGood
  <2>2. QED
    BY <2>1 DEF Supersedes, LaterDelete
<1>4. QED
  BY <1>2, <1>3

(* Steps that touch neither storage nor the server.                        *)
LEMMA MemoryRecovery ==
    ASSUME Core, Core', Recovery, \A t \in TxIds : Calm(t),
           UNCHANGED <<saving, journal, purging, outbox, envelope, verdict, log, lane>>
    PROVE  Recovery'
<1>1. Issued' = Issued /\ Issued \subseteq TxIds
  BY KeptIssued, CorePlaces DEF Calm
<1>2. HistoryGrows
  BY SameHistory
<1>3. Applied' = Applied
  BY DEF Applied, OpsAt
<1>4. \A t \in Issued : Backed(t) => Backed(t)'
  BY <1>3 DEF Backed, Ops
<1>5. QED
  BY <1>1, <1>2, <1>4, RecoveryKept

(* An unchanged store, with no new member in the batch.                    *)
LEMMA CalmStore ==
    ASSUME tx' = tx, NEW t, t \in ToSet(batch') => tx[t].status \in Outstanding \/ t \in ToSet(batch)
    PROVE  Calm(t)
BY DEF Calm, WriteKept, Settled

(* New writes are being saved; an unsent create that is cancelled has a    *)
(* later delete.                                                           *)
LEMMA IssueRecovery ==
    ASSUME Core, Core', Recovery, NEW d, Issues(d), Issued' = Issued \cup {d},
           \A t \in Issued : Calm(t), Needs(d)' => d \in ToSet(saving'),
           \A t \in purging' \ purging : LaterDelete(t)'
    PROVE  Recovery'
<1>1. UNCHANGED <<journal, outbox, envelope, verdict, log, lane>>
  BY DEF Issues, server, laneVars
<1>2. HistoryGrows
  BY <1>1, SameHistory
<1>3. ToSet(saving) \subseteq ToSet(saving')
  <2>1. saving' = saving \/ saving' = Append(saving, d)
    BY DEF Issues
  <2>2. saving \in Seq(TxIds) /\ d \in TxIds
    BY CorePlaces DEF Issues
  <2>3. ToSet(Append(saving, d)) = ToSet(saving) \cup {d}
    BY <2>2, ToSetAppend
  <2>4. QED
    BY <2>1, <2>3
<1>4. Applied' = Applied
  BY <1>1 DEF Applied, OpsAt
<1>5. \A t \in Issued : Backed(t) => Backed(t)'
  BY <1>1, <1>3, <1>4 DEF Backed, Ops
<1>6. QED
  BY <1>1, <1>2, <1>5, RecoveryKept

(* create, update, archive.                                                *)
LEMMA WriteRecovery ==
    ASSUME Core, Core', Recovery,
           NEW r \in Rows, NEW type \in Kinds, NEW opt \in Opts, Write(type, r, opt)
    PROVE  Recovery'
<1>1. PICK d : d = NextId
  OBVIOUS
<1>2. /\ Issues(d) /\ d \in TxIds /\ saving' = Append(saving, d) /\ purging' = purging
      /\ \A t \in TxIds \ {d} : tx'[t] = tx[t]
  BY <1>1, WriteIssues DEF Issues
<1>3. Issued' = Issued \cup {d} /\ d \notin Issued /\ Issued \subseteq TxIds
  BY <1>2, IssueCore, CorePlaces
<1>4. d \in ToSet(saving') /\ batch' = batch
  BY <1>2, CorePlaces, ToSetAppend DEF Issues, runner
<1>5. ASSUME NEW t \in Issued PROVE Calm(t)
  <2>1. tx'[t] = tx[t]
    BY <1>2, <1>3
  <2>2. QED
    BY <1>4, <2>1 DEF Calm, WriteKept, Settled
<1>6. QED
  BY <1>2, <1>3, <1>4, <1>5, IssueRecovery

(* A delete that supersedes the updates of its row.                        *)
LEMMA RemoveRowRecovery ==
    ASSUME Core, Core', Recovery, NEW r \in Rows, RemoveRow(r)
    PROVE  Recovery'
<1>1. PICK d : d = NextId
  OBVIOUS
<1>2. /\ Issues(d) /\ d \in TxIds /\ saving' = Append(saving, d) /\ purging' = purging
      /\ \A t \in TxIds \ {d} :
           /\ tx'[t].conf = tx[t].conf
           /\ tx'[t].status = IF t \in Superseded(r) THEN "rolled_back" ELSE tx[t].status
  BY <1>1, RemoveRowIssues DEF Issues
<1>3. Issued' = Issued \cup {d} /\ d \notin Issued /\ Issued \subseteq TxIds
  BY <1>2, IssueCore, CorePlaces
<1>4. d \in ToSet(saving') /\ batch' = batch
  BY <1>2, CorePlaces, ToSetAppend DEF Issues, runner
<1>5. ASSUME NEW t \in Issued PROVE Calm(t)
  <2>1. WriteKept(t)
    BY <1>2, <1>3 DEF Issues
  <2>2. t \in Superseded(r) => tx[t].status \in {"pending", "executing"}
    BY DEF Superseded
  <2>3. /\ tx'[t].conf = tx[t].conf
        /\ tx'[t].status = IF t \in Superseded(r) THEN "rolled_back" ELSE tx[t].status
    BY <1>2, <1>3
  <2>4. QED
    BY <1>4, <2>1, <2>2, <2>3 DEF Calm, Settled, Outstanding
<1>6. QED
  BY <1>2, <1>3, <1>4, <1>5, IssueRecovery

(* A delete that cancels an unsent create.                                 *)
LEMMA RemoveUnsentRecovery ==
    ASSUME Core, Core', Recovery, NEW r \in Rows, RemoveUnsent(r)
    PROVE  Recovery'
<1>1. PICK d : d = NextId
  OBVIOUS
<1>2. PICK c \in UnsentCreates(r) :
        /\ \A t \in TxIds \ {d} :
             /\ tx'[t].status = IF t = c THEN "rolled_back" ELSE tx[t].status
             /\ tx'[t].conf = IF t = c /\ tx[t].conf = "open" THEN "cancelled" ELSE tx[t].conf
        /\ purging' = purging \cup Purged({c})
  BY <1>1, RemoveUnsentIssues
<1>3. /\ Issues(d) /\ d \in TxIds /\ tx'[d].type = "delete" /\ tx'[d].row = r
      /\ tx'[d].conf = "cancelled"
  BY <1>1, RemoveUnsentIssues DEF Issues
<1>4. /\ Issued' = Issued \cup {d} /\ d \notin Issued /\ Issued \subseteq TxIds
      /\ \A t \in Issued : t < d
  BY <1>3, IssueCore, CorePlaces
<1>5. batch' = batch
  BY <1>3 DEF Issues, runner
<1>6. c \in Issued /\ tx[c].type = "create" /\ tx[c].row = r /\ tx[c].status = "pending"
  BY DEF UnsentCreates
<1>7. \A t \in Issued : WriteKept(t)
  BY <1>3, <1>4 DEF Issues
<1>8. ASSUME NEW t \in Issued PROVE Calm(t)
  <2>1. /\ tx'[t].status = IF t = c THEN "rolled_back" ELSE tx[t].status
        /\ tx'[t].conf = IF t = c /\ tx[t].conf = "open" THEN "cancelled" ELSE tx[t].conf
    BY <1>2, <1>4
  <2>2. QED
    BY <1>5, <1>6, <1>7, <2>1 DEF Calm, Settled, Outstanding
<1>9. LaterDelete(c)'
  <2>1. tx'[c].row = r
    BY <1>6, <1>7 DEF WriteKept
  <2>2. QED
    BY <1>3, <1>4, <1>6, <2>1 DEF LaterDelete
<1>10. ASSUME NEW t \in purging' \ purging PROVE LaterDelete(t)'
  <2>1. PICK S : S = {c}
    OBVIOUS
  <2>2. t \in Purged(S) /\ S \subseteq TxIds
    BY <1>2, <1>4, <1>6, <1>10, <2>1
  <2>3. t = c \/ LaterDelete(t)
    BY <2>1, <2>2, PurgedRows
  <2>4. t \in Issued
    BY <2>2, TypeParts DEF Purged, Core, StorageTyped, PlacesTyped
  <2>5. QED
    BY <1>7, <1>9, <2>3, <2>4, LaterDeleteStays
<1>11. ~Needs(d)'
  BY <1>3 DEF Needs
<1>12. QED
  BY <1>3, <1>4, <1>8, <1>10, <1>11, IssueRecovery

(* A save lands: the write moves from the request to the journal.          *)
LEMMA PersistedRecovery ==
    ASSUME Core, Core', Recovery, Persisted
    PROVE  Recovery'
<1>1. PICK t : t = Head(saving)
  OBVIOUS
<1>2. SaveEnds(t) /\ tx' = tx /\ purging' = purging /\ journal' = journal \cup {t}
  BY <1>1, PersistedEnds
<1>3. Issued' = Issued /\ ToSet(saving') = ToSet(saving) \ {t}
  BY <1>2, SaveEndsCore
<1>4. UNCHANGED <<batch, lane, envelope, outbox, verdict, log>>
  BY <1>2 DEF SaveEnds, runner, laneVars, server
<1>5. HistoryGrows /\ Applied' = Applied
  BY <1>4, SameHistory DEF Applied, OpsAt
<1>6. \A u \in Issued : Calm(u)
  BY <1>2, <1>4, CalmStore
<1>7. \A u : Backed(u) => Backed(u)'
  BY <1>2, <1>3, <1>4, <1>5 DEF Backed, Ops
<1>8. QED
  BY <1>2, <1>3, <1>4, <1>5, <1>6, <1>7, RecoveryKept

(* A save fails: the write failed, and what it superseded may go.          *)
LEMMA PersistFailedRecovery ==
    ASSUME Core, Core', Recovery, PersistFailed
    PROVE  Recovery'
<1>1. PICK t : t = Head(saving)
  OBVIOUS
<1>2. PICK S : S = {t}
  OBVIOUS
<1>3. /\ SaveEnds(t) /\ journal' = journal /\ purging' = (purging \cup Purged(S)) \ {t}
      /\ \A u \in TxIds : /\ tx'[u].status = IF u = t THEN "failed" ELSE tx[u].status
                          /\ tx'[u].conf \in {tx[u].conf, "rejected"}
  BY <1>1, <1>2, PersistFailedEnds
<1>4. /\ Issued' = Issued /\ ToSet(saving') = ToSet(saving) \ {t} /\ t \in Issued /\ t \notin saved
      /\ Issued \subseteq TxIds
  BY <1>3, SaveEndsCore, CorePlaces
<1>5. UNCHANGED <<batch, lane, envelope, outbox, verdict, log>>
  BY <1>3 DEF SaveEnds, runner, laneVars, server
<1>6. HistoryGrows /\ Applied' = Applied
  BY <1>5, SameHistory DEF Applied, OpsAt
<1>7. \A u \in TxIds : WriteKept(u)
  BY <1>3 DEF SaveEnds, StoreKept
<1>8. ASSUME NEW u \in Issued PROVE Calm(u)
  <2>1. /\ tx'[u].status = IF u = t THEN "failed" ELSE tx[u].status
        /\ tx'[u].conf \in {tx[u].conf, "rejected"}
    BY <1>3, <1>4
  <2>2. QED
    BY <1>4, <1>5, <1>7, <2>1 DEF Calm, Settled, Outstanding
<1>9. ASSUME NEW u \in purging' \ purging PROVE LaterDelete(u)'
  <2>1. u \in Purged(S) /\ S \subseteq TxIds /\ u # t
    BY <1>2, <1>3, <1>4, <1>9
  <2>2. LaterDelete(u)
    BY <1>2, <2>1, PurgedRows
  <2>3. u \in Issued
    BY <2>1, TypeParts DEF Purged, Core, StorageTyped, PlacesTyped
  <2>4. QED
    BY <1>4, <1>7, <2>2, <2>3, LaterDeleteStays
<1>10. ASSUME NEW u \in Issued, Needs(u)', Backed(u) PROVE Backed(u)'
  <2>1. u # t
    <3>1. t \notin ToSet(batch') /\ tx'[t].status = "failed"
      BY <1>3, <1>4, <1>5, CorePlaces
    <3>2. QED
      BY <1>10, <3>1 DEF Needs, Outstanding
  <2>2. QED
    BY <1>3, <1>4, <1>5, <1>6, <1>10, <2>1 DEF Backed, Ops
<1>11. QED
  BY <1>4, <1>5, <1>6, <1>8, <1>9, <1>10, RecoveryKept

(* A removal lands: nobody needs the row.                                  *)
LEMMA PurgeLandsRecovery ==
    ASSUME Core, Core', Recovery, NEW t \in TxIds, PurgeLands(t)
    PROVE  Recovery'
<1>1. /\ t \in purging /\ purging' \subseteq purging /\ journal' = journal \ {t}
      /\ UNCHANGED <<tx, saving, batch, lane, envelope, outbox, verdict, log>>
  BY DEF PurgeLands, memory, runner, laneVars, server
<1>2. Issued' = Issued /\ HistoryGrows /\ Applied' = Applied
  BY <1>1, SameHistory DEF Issued, Applied, OpsAt
<1>3. \A u \in Issued : Calm(u)
  BY <1>1, CalmStore
<1>4. ~Needs(t)
  <2>1. LaterDelete(t) \/ Settled(t)
    BY <1>1 DEF Recovery
  <2>2. Settled(t) => t \notin ToSet(batch)
    BY BatchStatus DEF Settled
  <2>3. QED
    BY <2>1, <2>2 DEF Needs, Settled, Outstanding
<1>5. \A u \in Issued : Needs(u) /\ Backed(u) => Backed(u)'
  BY <1>1, <1>2, <1>4 DEF Backed, Ops
<1>6. QED
  BY <1>1, <1>2, <1>3, <1>5, RecoveryKept

(* Sealing moves the rows of the batch into the envelope.                  *)
LEMMA SealRecovery ==
    ASSUME Core, Core', HistoryGrows, Recovery, Seal
    PROVE  Recovery'
<1>1. PICK k : k = Key
  OBVIOUS
<1>2. /\ k \in DOMAIN envelope /\ batch = envelope[k].ops /\ journal' = journal \ BatchRows
      /\ outbox' = outbox \cup {k}
      /\ UNCHANGED <<tx, sources, saving, batch, lane, purging>>
  BY <1>1, SealFacts DEF memory, laneVars
<1>3. Issued' = Issued /\ Issued \subseteq TxIds
  BY <1>2, CorePlaces DEF Issued
<1>4. \A u \in Issued : Calm(u)
  BY <1>2, CalmStore
<1>5. \A u \in ToSet(batch) : u \in Ops(k)'
  BY <1>2 DEF HistoryGrows, Ops
<1>6. ASSUME NEW u \in Issued, Needs(u), Backed(u) PROVE Backed(u)'
  <2>1. CASE u \in BatchRows
    <3>1. PICK t \in ToSet(batch) : u \in sources[t]
      BY <2>1 DEF BatchRows
    <3>2. t \in TxIds
      BY CorePlaces
    <3>3. CASE u = t
      <4>1. u \in Ops(k)' /\ k \in outbox'
        BY <1>2, <1>5, <3>3
      <4>2. QED
        BY <4>1 DEF Backed
    <3>4. CASE u # t
      <4>1. Supersedes(t, u) /\ t \in Issued
        BY <3>1, <3>2, <3>4 DEF Core, SourcesGood
      <4>2. LaterDelete(u)
        BY <4>1 DEF Supersedes, LaterDelete
      <4>3. QED
        BY <1>6, <4>2 DEF Needs
    <3>5. QED
      BY <3>3, <3>4
  <2>2. CASE u \notin BatchRows
    <3>1. u \in ToSet(saving) \cup journal => Backed(u)'
      BY <1>2, <2>2 DEF Backed
    <3>2. QED
      BY <1>2, <1>6, <3>1, BackedStays
  <2>3. QED
    BY <2>1, <2>2
<1>7. QED
  BY <1>2, <1>3, <1>4, <1>6, RecoveryKept

(* Preparing a batch: a key is minted, and its writes execute.             *)
LEMMA PreparedRecovery ==
    ASSUME Core, Core', HistoryGrows, Recovery, Prepared
    PROVE  Recovery'
<1>1. /\ \A t \in TxIds : /\ WriteKept(t) /\ tx'[t].conf = tx[t].conf
                          /\ t \in ToSet(batch) => tx'[t].status = "executing"
                          /\ t \notin ToSet(batch) => tx'[t] = tx[t]
      /\ UNCHANGED <<saving, batch, lane, journal, purging, outbox>>
  BY PreparedFacts DEF laneVars
<1>2. Issued' = Issued /\ Issued \subseteq TxIds
  BY PreparedCore, CorePlaces
<1>3. ASSUME NEW t \in Issued PROVE Calm(t)
  <2>1. /\ WriteKept(t) /\ tx'[t].conf = tx[t].conf
        /\ t \in ToSet(batch) => tx'[t].status = "executing"
        /\ t \notin ToSet(batch) => tx'[t] = tx[t]
    BY <1>1, <1>2
  <2>2. t \in ToSet(batch) => tx[t].status \in {"pending", "executing", "rolled_back"}
    BY BatchStatus
  <2>3. QED
    BY <1>1, <2>1, <2>2 DEF Calm, Settled
<1>4. \A t \in Issued : Backed(t) => Backed(t)'
  <2>1. SUFFICES ASSUME NEW t \in Issued, Backed(t) PROVE Backed(t)'
    OBVIOUS
  <2>2. t \in ToSet(saving) \cup journal => Backed(t)'
    BY <1>1 DEF Backed
  <2>3. QED
    BY <1>1, <2>1, <2>2, BackedStays
<1>5. QED
  BY <1>1, <1>2, <1>3, <1>4, RecoveryKept

(* A batch that could not be prepared is pending again.                    *)
LEMMA UnpreparedRecovery ==
    ASSUME Core, Core', Recovery, PrepareTransient \/ PreparePermanent
    PROVE  Recovery'
<1>1. \A t \in TxIds : /\ WriteKept(t) /\ tx'[t].conf \in {tx[t].conf, "rejected"}
                       /\ t \in ToSet(batch) => tx'[t].status = "pending"
                       /\ t \notin ToSet(batch) => tx'[t].status = tx[t].status
  <2>1. CASE PrepareTransient
    BY <2>1, PrepareTransientCore DEF QuietStep, StoreKept
  <2>2. CASE PreparePermanent
    BY <2>2, PreparePermanentStore DEF StoreKept
  <2>3. QED
    BY <2>1, <2>2
<1>2. /\ batch' = <<>>
      /\ UNCHANGED <<saving, journal, purging, outbox, envelope, verdict, log, lane>>
  BY DEF PrepareTransient, PreparePermanent, BatchDone, storage, server, laneVars
<1>3. ToSet(batch') = {}
  BY <1>2 DEF ToSet
<1>4. ASSUME NEW t \in TxIds PROVE Calm(t)
  <2>1. t \in ToSet(batch) => tx[t].status \in {"pending", "executing", "rolled_back"}
    BY BatchStatus
  <2>2. /\ WriteKept(t) /\ tx'[t].conf \in {tx[t].conf, "rejected"}
        /\ t \in ToSet(batch) => tx'[t].status = "pending"
        /\ t \notin ToSet(batch) => tx'[t].status = tx[t].status
    BY <1>1
  <2>3. QED
    BY <1>3, <2>1, <2>2 DEF Calm, Settled
<1>5. QED
  BY <1>2, <1>4, MemoryRecovery

(* The end of a batch: its envelope leaves storage only once the server    *)
(* applied it, or when none of its writes is under way any more.           *)
LEMMA BatchEndsRecovery ==
    ASSUME Core, Core', Recovery, BatchEnds
    PROVE  Recovery'
<1>1. PICK done, lost, again, wait :
        SettlesBatch(done, lost, again, wait) /\ ReceiptGood(done, again, wait)
  BY BatchEndsSettle DEF Core
<1>2. /\ QuietStep /\ Issued' = Issued /\ ToSet(batch') = {}
      /\ \A t \in TxIds :
           SettledAs(tx[t], tx'[t], StatusAfter(t, done, lost, again, wait), ConfAfter(t, done, lost))
  BY <1>1, SettlesBatchCore
<1>3. /\ done \subseteq ToSet(batch) /\ lost \subseteq ToSet(batch) /\ again \subseteq ToSet(batch)
      /\ wait \subseteq ToSet(batch) /\ Failing \subseteq done \cup lost \cup again \cup wait
      /\ phase # "idle" /\ Settle(done, lost, again, wait)
      /\ UNCHANGED <<journal, envelope, verdict, log, lane>>
  BY <1>1 DEF SettlesBatch, server, laneVars
<1>4. saving' = saving /\ purging' = purging \cup Purged(done \cup lost)
  BY <1>3, Zenon DEF Settle
<1>5. \A t \in TxIds : WriteKept(t)
  BY <1>2 DEF QuietStep, StoreKept
<1>6. HistoryGrows /\ Issued \subseteq TxIds
  BY <1>3, SameHistory, CorePlaces
<1>7. ASSUME NEW t \in Issued
      PROVE  /\ tx'[t].status = StatusAfter(t, done, lost, again, wait)
             /\ tx'[t].conf = ConfAfter(t, done, lost)
             /\ t \in ToSet(batch) => tx[t].status \in {"pending", "executing", "rolled_back"}
  BY <1>2, <1>6, BatchStatus DEF SettledAs
<1>8. ASSUME NEW t \in Issued PROVE Calm(t)
  <2>1. tx'[t].conf \in {"open", "lost"} => tx[t].conf \in {"open", "lost"}
    BY <1>7 DEF ConfAfter
  <2>2. t \notin ToSet(batch) => tx'[t].status = tx[t].status
    BY <1>3, <1>7 DEF StatusAfter
  <2>3. QED
    BY <1>2, <1>5, <1>6, <1>7, <2>1, <2>2 DEF Calm, Settled
<1>9. ASSUME NEW x \in purging' \ purging PROVE LaterDelete(x)' \/ Settled(x)'
  <2>1. x \in Purged(done \cup lost)
    BY <1>4, <1>9
  <2>2. PICK S : S = done \cup lost
    OBVIOUS
  <2>3. x \in Purged(S) /\ S \subseteq TxIds
    BY <1>3, <2>1, <2>2, CorePlaces
  <2>4. x \in S \/ LaterDelete(x)
    BY <2>3, PurgedRows
  <2>5. x \in Issued
    BY <2>1, TypeParts DEF Purged, Core, StorageTyped, PlacesTyped
  <2>6. x \in S => Settled(x)'
    BY <1>7, <2>2, <2>5 DEF StatusAfter, Settled
  <2>7. QED
    BY <1>5, <1>6, <2>4, <2>5, <2>6, LaterDeleteStays
<1>10. ASSUME NEW t \in Issued, Needs(t)', Backed(t) PROVE Backed(t)'
  <2>1. t \in ToSet(saving) \cup journal => Backed(t)'
    BY <1>3, <1>4 DEF Backed
  <2>2. CASE outbox' = outbox
    BY <1>6, <1>10, <2>1, <2>2, BackedStays
  <2>3. CASE /\ outbox' = outbox \ {Key} /\ again = {}
             /\ phase = "inflight" /\ verdict[Key] # "none"
    <3>1. PICK k : k = Key
      OBVIOUS
    <3>2. Key # 0
      BY <2>3 DEF Core, BatchGood
    <3>3. k \in Keys /\ ToSet(batch) = Ops(k)
      BY <1>3, <3>1, <3>2, BatchHead DEF Ops
    <3>4. ASSUME t \in Ops(k) PROVE Backed(t)'
      <4>1. t \in Failing \/ tx[t].status \notin Outstanding
        BY <1>7, <3>3, <3>4 DEF Failing, Outstanding
      <4>2. tx'[t].status \in Outstanding
        BY <1>2, <1>10 DEF Needs
      <4>3. t \in wait
        BY <1>3, <1>7, <2>3, <4>1, <4>2 DEF StatusAfter, Outstanding
      <4>4. verdict[k] \in Accepting
        BY <1>1, <3>1, <4>3 DEF ReceiptGood
      <4>5. t \in Applied
        BY <3>3, <3>4, <4>4, AcceptedIsApplied
      <4>6. QED
        BY <1>6, <4>5, AppliedStep DEF Backed
    <3>5. \A l \in outbox \ outbox' : t \in Ops(l) => Backed(t)'
      BY <2>3, <3>1, <3>4
    <3>6. QED
      BY <1>6, <1>10, <2>1, <3>5, BackedStays
  <2>4. QED
    BY <1>1, <2>2, <2>3 DEF ReceiptGood
<1>11. QED
  BY <1>2, <1>3, <1>6, <1>8, <1>9, <1>10, RecoveryKept

(* A confirmation removes an envelope the server applied.                  *)
LEMMA ConfirmRecovery ==
    ASSUME Core, Core', Recovery, ConfirmStep
    PROVE  Recovery'
<1>1. PICK S : Confirms(S)
  BY ConfirmSettles
<1>2. PICK E : E = {}
  OBVIOUS
<1>3. /\ QuietStep /\ Issued' = Issued /\ batch' = batch
      /\ \A t \in TxIds :
           SettledAs(tx[t], tx'[t], StatusAfter(t, S, E, E, E), ConfAfter(t, S, E))
  BY <1>1, <1>2, ConfirmCore, Zenon
<1>4. /\ S \subseteq Awaiting /\ Settle(S, E, E, E)
      /\ UNCHANGED <<journal, envelope, verdict, log, lane>>
      /\ \/ outbox' = outbox
         \/ \E k \in Keys : outbox' = outbox \ {k} /\ verdict[k] = "queued"
  BY <1>1, <1>2, Zenon DEF Confirms, server, laneVars
<1>5. saving' = saving /\ purging' = purging \cup Purged(S \cup E)
  BY <1>4, Zenon DEF Settle
<1>6. \A t \in TxIds : WriteKept(t)
  BY <1>3 DEF QuietStep, StoreKept
<1>7. HistoryGrows /\ Issued \subseteq TxIds
  BY <1>4, SameHistory, CorePlaces
<1>8. ASSUME NEW t \in Issued
      PROVE  /\ tx'[t].status = IF t \in S THEN "completed" ELSE tx[t].status
             /\ tx'[t].conf \in {tx[t].conf, "resolved"}
             /\ t \in S => tx[t].status = "awaiting_delta"
  BY <1>2, <1>3, <1>4, <1>7 DEF SettledAs, StatusAfter, ConfAfter, Awaiting
<1>9. ASSUME NEW t \in Issued PROVE Calm(t)
  BY <1>3, <1>6, <1>7, <1>8 DEF Calm, Settled, Outstanding
<1>10. ASSUME NEW x \in purging' \ purging PROVE LaterDelete(x)' \/ Settled(x)'
  <2>1. PICK R : R = S \cup E
    OBVIOUS
  <2>2. x \in Purged(R) /\ R \subseteq TxIds /\ R = S
    BY <1>2, <1>4, <1>5, <1>7, <1>10, <2>1 DEF Awaiting
  <2>3. x \in S \/ LaterDelete(x)
    BY <2>2, PurgedRows
  <2>4. x \in Issued
    BY <2>2, TypeParts DEF Purged, Core, StorageTyped, PlacesTyped
  <2>5. x \in S => Settled(x)'
    BY <1>8, <2>4 DEF Settled
  <2>6. QED
    BY <1>6, <1>7, <2>3, <2>4, <2>5, LaterDeleteStays
<1>11. ASSUME NEW t \in Issued, Backed(t) PROVE Backed(t)'
  <2>1. t \in ToSet(saving) \cup journal => Backed(t)'
    BY <1>4, <1>5 DEF Backed
  <2>2. ASSUME NEW k \in Keys, verdict[k] = "queued", t \in Ops(k) PROVE Backed(t)'
    <3>1. t \in Applied
      BY <2>2, AcceptedIsApplied DEF Accepting
    <3>2. QED
      BY <1>7, <3>1, AppliedStep DEF Backed
  <2>3. QED
    BY <1>4, <1>7, <1>11, <2>1, <2>2, BackedStays
<1>12. QED
  BY <1>3, <1>4, <1>7, <1>9, <1>10, <1>11, RecoveryKept

(* The lane: what it drops from storage was applied, or has no write in    *)
(* memory.                                                                 *)
LEMMA LaneRecovery ==
    ASSUME Core, Core', Recovery, LaneStep
    PROVE  Recovery'
<1>1. QuietStep /\ tx' = tx
  BY LaneCore DEF LaneStep
<1>2. /\ UNCHANGED <<saving, journal, purging, batch, envelope, verdict, log>>
      /\ \/ outbox' = outbox
         \/ \E k \in ToSet(lane) \cup laneWaits : outbox' = outbox \ {k}
  <2>1. CASE LaneReceipt
    <3>1. Head(lane) \in ToSet(lane)
      BY <2>1, CorePlaces, TailIn DEF LaneReceipt
    <3>2. QED
      BY <2>1, <3>1 DEF LaneReceipt, Removed, memory, runner, server
  <2>2. ASSUME NEW e \in BOOLEAN, LaneTransient(e)
        PROVE  UNCHANGED <<saving, journal, purging, batch, envelope, verdict, log, outbox>>
    BY <2>2 DEF LaneTransient, memory, runner, storage, server
  <2>3. ASSUME NEW k \in Keys, LaneConfirmed(k)
        PROVE  /\ UNCHANGED <<saving, journal, purging, batch, envelope, verdict, log>>
               /\ k \in laneWaits /\ outbox' \in {outbox, outbox \ {k}}
    BY <2>3 DEF LaneConfirmed, Removed, memory, runner, server
  <2>4. QED
    BY <2>1, <2>2, <2>3 DEF LaneStep
<1>3. HistoryGrows /\ Issued' = Issued /\ ToSet(lane') \subseteq ToSet(lane)
  BY <1>1, <1>2, SameHistory DEF Issued, QuietStep
<1>4. \A t \in Issued : Calm(t)
  BY <1>1, <1>2, CalmStore
<1>5. ASSUME NEW t \in Issued, Needs(t), Backed(t) PROVE Backed(t)'
  <2>1. t \in ToSet(saving) \cup journal => Backed(t)'
    BY <1>2 DEF Backed
  <2>2. ASSUME NEW k \in ToSet(lane) PROVE t \notin Ops(k)
    <3>1. t \in Ops(k) => tx[t].status = "gone"
      BY DEF Recovery
    <3>2. tx[t].status # "gone"
      BY <1>5, BatchStatus DEF Needs, Outstanding
    <3>3. QED
      BY <3>1, <3>2
  <2>3. ASSUME NEW k \in laneWaits, t \in Ops(k) PROVE Backed(t)'
    <3>1. verdict[k] = "queued" /\ k \in Keys
      BY TypeParts, EnvelopeIn DEF Core, Ledger, StorageTyped
    <3>2. t \in Applied
      BY <2>3, <3>1, AcceptedIsApplied DEF Accepting
    <3>3. QED
      BY <1>3, <3>2, AppliedStep DEF Backed
  <2>4. QED
    BY <1>2, <1>3, <1>5, <2>1, <2>2, <2>3, BackedStays
<1>6. QED
  BY <1>2, <1>3, <1>4, <1>5, RecoveryKept

(* A restart: the writes loaded from the journal are pending again, and    *)
(* all that the lane replays is gone from the store.                       *)
LEMMA CrashRecovery ==
    ASSUME Core, Core', Recovery, CrashRestart
    PROVE  Recovery'
<1>1. /\ \A t \in Issued : tx'[t].status = IF t \in ToSet(queue') THEN "pending" ELSE "gone"
      /\ ToSet(queue') \subseteq journal /\ ToSet(lane') = outbox /\ ToSet(batch') = {}
  BY CrashFacts
<1>2. Issued' = Issued
  BY CrashCore
<1>3. purging' = {} /\ journal' = journal /\ envelope' = envelope
  BY DEF CrashRestart
<1>4. ASSUME NEW k \in outbox, NEW t \in Ops(k) PROVE tx'[t].status = "gone"
  <2>1. k \in SealedKeys
    BY DEF Core, Ledger
  <2>2. t \in saved \ journal
    BY <2>1 DEF SealedKeys, Core, Envelopes
  <2>3. QED
    BY <1>1, <2>2, CorePlaces
<1>5. ASSUME NEW t \in Issued, Needs(t)' PROVE Backed(t)'
  BY <1>1, <1>3, <1>5 DEF Needs, Outstanding, Backed
<1>6. QED
  BY <1>1, <1>2, <1>3, <1>4, <1>5 DEF Recovery, Ops

(* Every step keeps the recovery invariant.                                *)
LEMMA RecoveryStep ==
    ASSUME Core, Recovery, Next
    PROVE  Recovery'
<1>0. Core' /\ HistoryGrows
  BY CoreStep, HistoryStep
<1>1. ASSUME NEW r \in Rows, NEW type \in Kinds, NEW opt \in Opts, Write(type, r, opt) PROVE Recovery'
  BY <1>0, <1>1, WriteRecovery
<1>2. ASSUME NEW r \in Rows, RemoveUnsent(r) PROVE Recovery'
  BY <1>0, <1>2, RemoveUnsentRecovery
<1>3. ASSUME NEW r \in Rows, RemoveRow(r) PROVE Recovery'
  BY <1>0, <1>3, RemoveRowRecovery
<1>4. ASSUME NEW r \in Rows, CascadeCancel(r) PROVE Recovery'
  <2>1. UNCHANGED <<saving, journal, purging, outbox, envelope, verdict, log, lane, batch>>
    BY <1>4 DEF CascadeCancel, runner, storage, server, laneVars
  <2>2. ASSUME NEW t \in TxIds PROVE Calm(t)
    <3>1. /\ WriteKept(t) /\ tx'[t].conf = tx[t].conf
          /\ \/ tx'[t].status = tx[t].status
             \/ tx'[t].status = "rolled_back" /\ tx[t].status \in Outstanding
      BY <1>4, CascadeCancelCore DEF QuietStep, StoreKept
    <3>2. QED
      BY <2>1, <3>1 DEF Calm, Settled, Outstanding
  <2>3. QED
    BY <1>0, <2>1, <2>2, MemoryRecovery
<1>5. ASSUME NEW u \in TxIds, ReplicationLag(u) PROVE Recovery'
  <2>1. UNCHANGED <<saving, journal, purging, outbox, envelope, verdict, log, lane, batch>>
    BY <1>5 DEF ReplicationLag, runner, storage, server, laneVars
  <2>2. ASSUME NEW t \in TxIds PROVE Calm(t)
    <3>1. WriteKept(t) /\ tx'[t].status = tx[t].status /\ tx'[t].conf \in {tx[t].conf, "rejected"}
      BY <1>5, ReplicationLagCore DEF QuietStep, StoreKept
    <3>2. QED
      BY <2>1, <3>1 DEF Calm, Settled
  <2>3. QED
    BY <1>0, <2>1, <2>2, MemoryRecovery
<1>6. ASSUME NEW t \in TxIds, PurgeLands(t) PROVE Recovery'
  BY <1>0, <1>6, PurgeLandsRecovery
<1>7. CASE Persisted
  BY <1>0, <1>7, PersistedRecovery
<1>8. CASE PersistFailed
  BY <1>0, <1>8, PersistFailedRecovery
<1>9. CASE CommitStaged \/ DrainPending
  <2>1. UNCHANGED <<tx, saving, journal, purging, outbox, envelope, verdict, log, lane, batch>>
    BY <1>9 DEF CommitStaged, DrainPending, runner, storage, server, laneVars
  <2>2. QED
    BY <1>0, <2>1, CalmStore, MemoryRecovery
<1>10. ASSUME NEW g \in backoff, RetryTimer(g) PROVE Recovery'
  <2>1. UNCHANGED <<tx, saving, journal, purging, outbox, envelope, verdict, log, lane, batch>>
    BY <1>10 DEF RetryTimer, runner, storage, server, laneVars
  <2>2. QED
    BY <1>0, <2>1, CalmStore, MemoryRecovery
<1>11. CASE StartBatch
  <2>1. UNCHANGED <<tx, saving, journal, purging, outbox, envelope, verdict, log, lane>>
    BY <1>11 DEF StartBatch, storage, server, laneVars
  <2>2. \A t \in ToSet(batch') : tx[t].status \in Outstanding
    BY <1>11, StartBatchFacts DEF Outstanding
  <2>3. QED
    BY <1>0, <2>1, <2>2, CalmStore, MemoryRecovery
<1>12. CASE Prepared
  BY <1>0, <1>12, PreparedRecovery
<1>13. CASE PrepareTransient \/ PreparePermanent
  BY <1>0, <1>13, UnpreparedRecovery
<1>15. CASE Seal
  BY <1>0, <1>15, SealRecovery
<1>16. CASE BatchEnds
  BY <1>0, <1>16, BatchEndsRecovery
<1>17. CASE ConfirmStep
  BY <1>0, <1>17, ConfirmRecovery
<1>18. CASE Dispatch \/ LaneSend
  <2>1. UNCHANGED <<tx, saving, journal, purging, outbox, envelope, verdict, log, lane, batch>>
    BY <1>18 DEF Dispatch, LaneSend, memory, runner, storage, laneVars
  <2>2. QED
    BY <1>0, <2>1, CalmStore, MemoryRecovery
<1>19. CASE LaneStep
  BY <1>0, <1>19, LaneRecovery
<1>20. ASSUME NEW k \in Keys, NEW reply \in Replies, ServerDecides(k, reply) PROVE Recovery'
  <2>1. UNCHANGED <<tx, saving, journal, purging, outbox, envelope, lane, batch>>
    BY <1>20 DEF ServerDecides, memory, runner, storage, laneVars
  <2>2. \A t \in Issued : Calm(t)
    BY <2>1, CalmStore
  <2>3. Applied \subseteq Applied' /\ Issued' = Issued
    BY <1>0, <2>1, AppliedStep DEF Issued
  <2>4. \A t \in Issued : Backed(t) => Backed(t)'
    BY <2>1, <2>3 DEF Backed, Ops
  <2>5. QED
    BY <1>0, <2>1, <2>2, <2>3, <2>4, RecoveryKept
<1>21. CASE CrashRestart
  BY <1>0, <1>21, CrashRecovery
<1>22. QED
  BY <1>1, <1>2, <1>3, <1>4, <1>5, <1>6, <1>7, <1>8, <1>9, <1>10, <1>11, <1>12, <1>13,
     <1>15, <1>16, <1>17, <1>18, <1>19, <1>20, <1>21, NextCases

(* A write under way, whose row was not deleted since and whose caller was *)
(* not told otherwise, survives a crash at any moment: it is being saved,  *)
(* has its journal row, is in a stored envelope or has been applied.       *)
THEOREM LiveWritesSurviveCrashes == Spec => []LiveIsRecoverable
<1>1. Init => Recovery
  <2>1. SUFFICES ASSUME Init PROVE Recovery
    OBVIOUS
  <2>2. purging = {} /\ ToSet(lane) = {} /\ Issued = {}
    BY <2>1 DEF Init, ToSet, Issued, NoTx
  <2>3. QED
    BY <2>2 DEF Recovery
<1>2. Core /\ Recovery /\ [Next]_vars => Recovery'
  <2>1. ASSUME Core, Recovery, UNCHANGED vars PROVE Recovery'
    <3>1. /\ UNCHANGED <<saving, journal, purging, outbox, envelope, verdict, log, lane>>
          /\ tx' = tx /\ batch' = batch
      BY <2>1 DEF vars, memory, runner, storage, server, laneVars
    <3>2. \A t \in TxIds : Calm(t)
      BY <3>1, CalmStore
    <3>3. Core'
      BY <2>1, StutterCore
    <3>4. QED
      BY <2>1, <3>1, <3>2, <3>3, MemoryRecovery
  <2>2. QED
    BY <2>1, RecoveryStep
<1>3. Core /\ Recovery => LiveIsRecoverable
  <2>1. SUFFICES ASSUME Core, Recovery PROVE LiveIsRecoverable
    OBVIOUS
  <2>2. saving \in Seq(TxIds) /\ outbox \subseteq DOMAIN envelope
    BY <2>1, TypeParts DEF Core, StorageTyped, PlacesTyped
  <2>3. \A k \in outbox : envelope[k].ops \in Seq(TxIds)
    BY <2>1, <2>2, TypeParts, EnvelopeIn DEF Core
  <2>4. \A k \in outbox : \A t : Contains(envelope[k].ops, t) <=> t \in Ops(k)
    BY <2>3, ToSetIn DEF Ops
  <2>5. \A t : Contains(saving, t) <=> t \in ToSet(saving)
    BY <2>2, ToSetIn
  <2>6. QED
    BY <2>1, <2>4, <2>5 DEF LiveIsRecoverable, Recovery, Needs, Backed, LaterDelete
<1>4. QED
  BY <1>1, <1>2, <1>3, QueueCore, PTL DEF Spec

-----------------------------------------------------------------------------
(* A delete waits for its row's create.  Within one process, and without   *)
(* cascade cancellation, the create of a row is decided and settled before *)
(* a delete of the row leaves the save or the parking lot.                 *)

(* The create is past the point where a delete would cancel it locally.    *)
Sent(c) ==
    \/ tx[c].status \in {"executing", "awaiting_delta", "completed", "failed"}
    \/ tx[c].status = "pending" /\ tx[c].attempts # 0

(* The delete is on its way to the server.                                 *)
InHand(d) ==
    \/ d \in ToSet(staged) \cup ToSet(queue) \cup ToSet(batch)
    \/ \E g \in backoff : d \in ToSet(g)
    \/ tx[d].env # 0

CreateOf(c, r) == c \in Issued /\ tx[c].type = "create" /\ tx[c].row = r

(* A write belongs to one key, and is confirmed under a decided one.       *)
Keyed == \A k \in DOMAIN envelope : \A t \in Ops(k) : tx[t].env = k

Decided ==
    \A t \in Issued :
        tx[t].status \in {"awaiting_delta", "completed"} /\ tx[t].env # 0
            => verdict[tx[t].env] # "none"

(* A row is created once, and deleted only once it was.                    *)
OneCreate ==
    /\ \A c \in Issued : tx[c].type = "create" => tx[c].row \in NewRows
    /\ \A r \in Rows : \A c, e : CreateOf(c, r) /\ CreateOf(e, r) => c = e
    /\ \A d \in Live : tx[d].type = "delete" /\ tx[d].row \in NewRows
                       => \E c : CreateOf(c, tx[d].row)

(* A delete that was issued found its row's create sent, and goes on its   *)
(* own way only once the create is settled.                                *)
CreatesFirst ==
    \A d \in Live : \A c :
        tx[d].type = "delete" /\ CreateOf(c, tx[d].row)
            => Sent(c) /\ (InHand(d) => Settled(c))

(* No crash has removed a write from the store.                            *)
Present == \A t \in Issued : tx[t].status # "gone"

Sequenced == Keyed /\ Decided /\ OneCreate /\ CreatesFirst /\ Present

(* A new status leaves the number of attempts and the priority alone.      *)
LEMMA StatusAttempts ==
    ASSUME NEW T \in [TxIds -> TxType], NEW S, NEW s \in Statuses
    PROVE  /\ WithStatus(T, S, s) \in [TxIds -> TxType]
           /\ \A t \in TxIds : /\ WithStatus(T, S, s)[t].attempts = T[t].attempts
                               /\ WithStatus(T, S, s)[t].high = T[t].high
<1>1. \A t \in TxIds : /\ [T[t] EXCEPT !.status = s].attempts = T[t].attempts
                      /\ [T[t] EXCEPT !.status = s].high = T[t].high
  BY DEF TxType
<1>2. ASSUME NEW t \in TxIds
      PROVE  /\ WithStatus(T, S, s)[t].attempts = T[t].attempts
             /\ WithStatus(T, S, s)[t].high = T[t].high
  <2>1. WithStatus(T, S, s)[t] = IF t \in S THEN [T[t] EXCEPT !.status = s] ELSE T[t]
    BY WithStatusFacts
  <2>2. QED
    BY <1>1, <2>1
<1>3. QED
  BY <1>2, WithStatusFacts

(* So does an answer to the caller.                                        *)
LEMMA AnswerAttempts ==
    ASSUME NEW T \in [TxIds -> TxType], NEW S, NEW a \in {"resolved", "cancelled", "rejected"}
    PROVE  /\ Answered(T, S, a) \in [TxIds -> TxType]
           /\ \A t \in TxIds : /\ Answered(T, S, a)[t].attempts = T[t].attempts
                               /\ Answered(T, S, a)[t].high = T[t].high
<1>1. \A t \in TxIds : /\ [T[t] EXCEPT !.conf = a].attempts = T[t].attempts
                      /\ [T[t] EXCEPT !.conf = a].high = T[t].high
  BY DEF TxType
<1>2. ASSUME NEW t \in TxIds
      PROVE  /\ Answered(T, S, a)[t].attempts = T[t].attempts
             /\ Answered(T, S, a)[t].high = T[t].high
  <2>1. Answered(T, S, a)[t] = IF t \in S /\ T[t].conf = "open"
                               THEN [T[t] EXCEPT !.conf = a] ELSE T[t]
    BY AnsweredFacts
  <2>2. QED
    BY <1>1, <2>1
<1>3. QED
  BY <1>2, AnsweredFacts

(* Settlement counts an attempt for the writes that failed or are retried. *)
LEMMA SettleAttempts ==
    ASSUME Core, NEW done, NEW lost, NEW again, NEW wait, Settle(done, lost, again, wait)
    PROVE  \A t \in TxIds :
             tx'[t].attempts = IF t \in lost \cup again THEN tx[t].attempts + 1 ELSE tx[t].attempts
<1> DEFINE U == [t \in TxIds |-> IF t \in lost \cup again
                                 THEN [tx[t] EXCEPT !.attempts = @ + 1] ELSE tx[t]]
           V == WithStatus(U, again, "pending")
           W == WithStatus(V, wait, "awaiting_delta")
           C == WithStatus(W, done, "completed")
           D == Answered(C, done, "resolved")
           E == WithStatus(D, lost, "failed")
           F == Answered(E, lost, "rejected")
<1>1. tx' = F
  BY DEF Settle, Failed, Completed
<1>2. {"pending", "awaiting_delta", "completed", "failed"} \subseteq Statuses
  BY DEF Statuses
<1>3. tx \in [TxIds -> TxType]
  BY CorePlaces
<1>4. /\ U \in [TxIds -> TxType]
      /\ \A t \in TxIds :
           U[t].attempts = IF t \in lost \cup again THEN tx[t].attempts + 1 ELSE tx[t].attempts
  <2>1. ASSUME NEW t \in TxIds
        PROVE  /\ [tx[t] EXCEPT !.attempts = @ + 1] \in TxType
               /\ [tx[t] EXCEPT !.attempts = @ + 1].attempts = tx[t].attempts + 1
    BY <1>3 DEF TxType
  <2>2. QED
    BY <1>3, <2>1
<1> HIDE DEF U
<1>5. V \in [TxIds -> TxType] /\ \A t \in TxIds : V[t].attempts = U[t].attempts
  BY <1>2, <1>4, StatusAttempts
<1> HIDE DEF V
<1>6. W \in [TxIds -> TxType] /\ \A t \in TxIds : W[t].attempts = V[t].attempts
  BY <1>2, <1>5, StatusAttempts
<1> HIDE DEF W
<1>7. C \in [TxIds -> TxType] /\ \A t \in TxIds : C[t].attempts = W[t].attempts
  BY <1>2, <1>6, StatusAttempts
<1> HIDE DEF C
<1>8. D \in [TxIds -> TxType] /\ \A t \in TxIds : D[t].attempts = C[t].attempts
  BY <1>7, AnswerAttempts
<1> HIDE DEF D
<1>9. E \in [TxIds -> TxType] /\ \A t \in TxIds : E[t].attempts = D[t].attempts
  BY <1>2, <1>8, StatusAttempts
<1> HIDE DEF E
<1>10. \A t \in TxIds : F[t].attempts = E[t].attempts
  BY <1>9, AnswerAttempts
<1>11. QED
  BY <1>1, <1>4, <1>5, <1>6, <1>7, <1>8, <1>9, <1>10

(* A step that keeps the writes, and takes no create back.                 *)
Forward(t) ==
    /\ WriteKept(t) /\ (tx'[t].status = "gone" => tx[t].status = "gone")
    /\ tx[t].type = "create" => (Sent(t) => Sent(t)') /\ (Settled(t) => Settled(t)')

(* Steps that mint no key: a write is confirmed under a decided key.       *)
LEMMA KeyedKept ==
    ASSUME Core, Core', HistoryGrows, Sequenced, DOMAIN envelope' = DOMAIN envelope,
           Issued \subseteq Issued', \A t \in Issued' \ Issued : tx'[t].env = 0,
           \A t \in Issued : tx'[t].env = tx[t].env,
           \A t \in Issued : tx'[t].status \in {"awaiting_delta", "completed"}
                             => \/ tx[t].status \in {"awaiting_delta", "completed"}
                                \/ verdict[tx[t].env] # "none"
    PROVE  Keyed' /\ Decided'
<1>1. Keyed'
  <2>1. SUFFICES ASSUME NEW k \in DOMAIN envelope, NEW t \in Ops(k)'
                 PROVE  tx'[t].env = k
    BY DEF Keyed
  <2>2. t \in Ops(k)
    BY DEF HistoryGrows
  <2>3. t \in Issued /\ tx[t].env = k
    BY <2>2 DEF Sequenced, Keyed, Core, Envelopes, Live, SourcesGood
  <2>4. QED
    BY <2>3
<1>2. Decided'
  <2>1. SUFFICES ASSUME NEW t \in Issued', tx'[t].env # 0,
                        tx'[t].status \in {"awaiting_delta", "completed"}
                 PROVE  verdict'[tx'[t].env] # "none"
    BY DEF Decided
  <2>2. t \in Issued /\ tx'[t].env = tx[t].env
    BY <2>1
  <2>3. verdict[tx[t].env] # "none"
    BY <2>1, <2>2 DEF Sequenced, Decided
  <2>4. tx[t].env \in Keys
    <3>1. tx[t] \in TxType
      BY <2>2, CorePlaces
    <3>2. QED
      BY <2>1, <2>2, <3>1 DEF TxType
  <2>5. QED
    BY <2>2, <2>3, <2>4 DEF HistoryGrows
<1>3. QED
  BY <1>1, <1>2

(* Steps that issue no write: a delete comes to hand only when its row's   *)
(* create has settled.                                                     *)
LEMMA SequencedKept ==
    ASSUME Core, Sequenced, Keyed', Decided', Issued' = Issued, Live' = Live,
           \A t \in Issued : Forward(t),
           \A d \in Live : \A c : /\ tx[d].type = "delete" /\ CreateOf(c, tx[d].row)
                                  /\ InHand(d)'
                                  => InHand(d) \/ Settled(c)'
    PROVE  Sequenced'
<1>1. Live \subseteq Issued
  BY DEF Core, SourcesGood, Live
<1>2. \A t \in Issued : tx'[t].type = tx[t].type /\ tx'[t].row = tx[t].row
  BY DEF Forward, WriteKept, Issued
<1>3. \A c, r : CreateOf(c, r)' <=> CreateOf(c, r)
  BY <1>2 DEF CreateOf
<1>4. OneCreate'
  BY <1>1, <1>2, <1>3 DEF Sequenced, OneCreate
<1>5. CreatesFirst'
  <2>1. SUFFICES ASSUME NEW d \in Live, NEW c, tx'[d].type = "delete", CreateOf(c, tx[d].row)'
                 PROVE  Sent(c)' /\ (InHand(d)' => Settled(c)')
    BY DEF CreatesFirst
  <2>2. tx[d].type = "delete" /\ CreateOf(c, tx[d].row)
    <3>1. tx'[d].row = tx[d].row /\ tx'[d].type = tx[d].type
      BY <1>1, <1>2
    <3>2. CreateOf(c, tx[d].row)
      BY <1>2, <2>1, <3>1 DEF CreateOf
    <3>3. QED
      BY <2>1, <3>1, <3>2
  <2>3. Sent(c) /\ (InHand(d) => Settled(c))
    BY <2>2 DEF Sequenced, CreatesFirst
  <2>4. Forward(c) /\ tx[c].type = "create"
    BY <2>2 DEF CreateOf
  <2>5. QED
    BY <2>2, <2>3, <2>4 DEF Forward
<1>6. Present'
  BY DEF Present, Forward, Sequenced
<1>7. QED
  BY <1>4, <1>5, <1>6 DEF Sequenced

(* Steps that leave the mutation store alone.                              *)
LEMMA StoreSequenced ==
    ASSUME Core, Core', HistoryGrows, Sequenced, tx' = tx, sources' = sources,
           DOMAIN envelope' = DOMAIN envelope,
           \A d \in Live : \A c : /\ tx[d].type = "delete" /\ CreateOf(c, tx[d].row)
                                  /\ InHand(d)'
                                  => InHand(d) \/ Settled(c)
    PROVE  Sequenced'
<1>1. Issued' = Issued /\ Live' = Live
  BY DEF Issued, Live
<1>2. Keyed' /\ Decided'
  BY <1>1, KeyedKept
<1>3. \A t \in Issued : Forward(t) /\ (Settled(t)' <=> Settled(t))
  BY DEF Forward, WriteKept, Sent, Settled
<1>4. QED
  BY <1>1, <1>2, <1>3, SequencedKept DEF CreateOf

(* Steps that leave the store and the places alone.                        *)
LEMMA IdleSequenced ==
    ASSUME Core, Core', HistoryGrows, Sequenced, DOMAIN envelope' = DOMAIN envelope,
           UNCHANGED <<tx, sources, staged, queue, batch, backoff>>
    PROVE  Sequenced'
<1>1. \A d : InHand(d)' <=> InHand(d)
  BY DEF InHand
<1>2. QED
  BY <1>1, StoreSequenced

(* A save lands: a delete behind an unsettled create is parked.            *)
LEMMA PersistedSequenced ==
    ASSUME Core, Core', HistoryGrows, Sequenced, Persisted
    PROVE  Sequenced'
<1>1. PICK t : t = Head(saving)
  OBVIOUS
<1>2. /\ tx' = tx /\ UNCHANGED <<sources, queue, backoff, batch, envelope>>
      /\ \/ tx[t].type = "delete" /\ HasCreateBarrier(t) /\ staged' = staged
         \/ /\ ~(tx[t].type = "delete" /\ HasCreateBarrier(t)) /\ staged' = Append(staged, t)
            /\ t \in TxIds
  <2>1. t \in TxIds
    BY <1>1, CorePlaces, TailIn DEF Persisted
  <2>2. QED
    BY <1>1, <2>1, Zenon DEF Persisted, runner
<1>3. ASSUME NEW d \in Live, NEW c, tx[d].type = "delete", CreateOf(c, tx[d].row), InHand(d)', ~InHand(d)
      PROVE  Settled(c)
  <2>1. ToSet(staged') = ToSet(staged) \/ ToSet(staged') = ToSet(staged) \cup {t}
    <3>1. CASE staged' = staged
      BY <3>1
    <3>2. CASE staged' = Append(staged, t) /\ t \in TxIds
      BY <3>2, CorePlaces, ToSetAppend
    <3>3. QED
      BY <1>2, <3>1, <3>2
  <2>2. d = t /\ staged' # staged
    BY <1>2, <1>3, <2>1 DEF InHand
  <2>3. ~HasCreateBarrier(d)
    BY <1>2, <1>3, <2>2
  <2>4. Sent(c)
    BY <1>3 DEF Sequenced, CreatesFirst
  <2>5. tx[c].attempts \in Nat
    BY <1>3, CorePlaces DEF CreateOf, TxType
  <2>6. QED
    BY <1>3, <2>3, <2>4, <2>5 DEF HasCreateBarrier, CreateOf, Sent, Settled, Outstanding
<1>4. QED
  BY <1>2, <1>3, StoreSequenced

(* Settlement: the deletes it releases have their create among the writes  *)
(* it settles.                                                             *)
LEMMA SettleSequenced ==
    ASSUME Core, Core', HistoryGrows, Sequenced,
           NEW done, NEW lost, NEW again, NEW wait, Settle(done, lost, again, wait),
           Issued' = Issued, envelope' = envelope, ToSet(batch') \subseteq ToSet(batch),
           done \subseteq Issued, lost \subseteq Issued, again \subseteq ToSet(batch),
           \A t \in again \cup wait : ~Settled(t),
           \A t \in done \cup wait : tx[t].status = "awaiting_delta" \/ verdict[tx[t].env] # "none",
           \A t \in TxIds :
             SettledAs(tx[t], tx'[t], StatusAfter(t, done, lost, again, wait), ConfAfter(t, done, lost)),
           \A x : x \in ToSet(queue')
                  <=> \/ x \in ToSet(queue)
                      \/ x \in ReleasedBy(done \cup lost) /\ PendingIn(tx', x)
    PROVE  Sequenced'
<1>1. /\ backoff' = backoff \cup {<<x>> : x \in again} /\ staged' = staged /\ sources' = sources
  BY Zenon DEF Settle
<1>2. Live' = Live /\ Issued \subseteq TxIds /\ Live \subseteq Issued
  BY <1>1, CorePlaces DEF Live, Core, SourcesGood
<1>3. ASSUME NEW t \in Issued
      PROVE  /\ tx'[t].status = StatusAfter(t, done, lost, again, wait)
             /\ tx'[t].env = tx[t].env /\ WriteKept(t)
  <2>1. tx'[t].type = tx[t].type /\ tx'[t].row = tx[t].row
    BY <1>2 DEF SettledAs
  <2>2. tx[t].status # "none" /\ tx'[t].status # "none"
    BY DEF Issued
  <2>3. QED
    BY <1>2, <2>1, <2>2 DEF SettledAs, WriteKept
<1>4. Keyed' /\ Decided'
  <2>1. ASSUME NEW t \in Issued, tx'[t].status \in {"awaiting_delta", "completed"}
        PROVE  \/ tx[t].status \in {"awaiting_delta", "completed"}
               \/ verdict[tx[t].env] # "none"
    BY <1>3, <2>1 DEF StatusAfter
  <2>2. QED
    BY <1>3, <2>1, KeyedKept
<1>5. ASSUME NEW t \in Issued PROVE Forward(t)
  <2>1. tx[t].attempts \in Nat
    BY <1>2, CorePlaces DEF TxType
  <2>2. tx'[t].attempts = IF t \in lost \cup again THEN tx[t].attempts + 1 ELSE tx[t].attempts
    BY <1>2, SettleAttempts
  <2>3. Sent(t) => Sent(t)'
    BY <1>3, <2>1, <2>2 DEF Sent, StatusAfter
  <2>4. Settled(t) => Settled(t)'
    BY <1>3 DEF Settled, StatusAfter
  <2>5. tx'[t].status = "gone" => tx[t].status = "gone"
    BY <1>3 DEF StatusAfter
  <2>6. QED
    BY <1>3, <2>3, <2>4, <2>5 DEF Forward
<1>6. ASSUME NEW d \in Live, NEW c, tx[d].type = "delete", CreateOf(c, tx[d].row), InHand(d)', ~InHand(d)
      PROVE  Settled(c)'
  <2>1. \A x \in again : ToSet(<<x>>) = {x}
    BY CorePlaces, SingletonSeq
  <2>2. ~\E g \in backoff' : d \in ToSet(g)
    BY <1>1, <1>6, <2>1 DEF InHand
  <2>3. tx'[d].env = tx[d].env
    BY <1>2, <1>3
  <2>4. d \in ReleasedBy(done \cup lost)
    BY <1>1, <1>6, <2>2, <2>3 DEF InHand
  <2>5. PICK t \in done \cup lost : tx[t].type = "create" /\ tx[t].row = tx[d].row
    BY <2>4 DEF ReleasedBy
  <2>6. CreateOf(t, tx[d].row)
    BY <2>5 DEF CreateOf
  <2>7. tx[d].row \in Rows
    <3>1. tx[c].row \in NewRows
      BY <1>6 DEF Sequenced, OneCreate, CreateOf
    <3>2. QED
      BY <1>6, <3>1, QueueAssumption DEF CreateOf
  <2>8. t = c
    BY <1>6, <2>6, <2>7 DEF Sequenced, OneCreate
  <2>9. QED
    BY <1>3, <2>5, <2>8 DEF Settled, StatusAfter
<1>7. QED
  BY <1>2, <1>4, <1>5, <1>6, SequencedKept

(* A batch that ends.                                                      *)
LEMMA BatchEndsSequenced ==
    ASSUME Core, Core', HistoryGrows, Sequenced, BatchEnds
    PROVE  Sequenced'
<1>1. PICK done, lost, again, wait :
        SettlesBatch(done, lost, again, wait) /\ ReceiptGood(done, again, wait)
  BY BatchEndsSettle DEF Core
<1>2. /\ Issued' = Issued /\ ToSet(batch') = {}
      /\ \A t \in TxIds :
           SettledAs(tx[t], tx'[t], StatusAfter(t, done, lost, again, wait), ConfAfter(t, done, lost))
      /\ \A x : x \in ToSet(queue')
                <=> \/ x \in ToSet(queue)
                    \/ x \in ReleasedBy(done \cup lost) /\ PendingIn(tx', x)
  BY <1>1, SettlesBatchCore
<1>3. /\ Settle(done, lost, again, wait) /\ envelope' = envelope
      /\ done \subseteq ToSet(batch) /\ lost \subseteq ToSet(batch)
      /\ again \subseteq ToSet(batch) /\ wait \subseteq ToSet(batch)
  BY <1>1 DEF SettlesBatch
<1>4. ToSet(batch) \subseteq Issued
  BY CorePlaces
<1>5. \A t \in again \cup wait : ~Settled(t)
  BY <1>3, BatchStatus DEF Settled
<1>6. ASSUME NEW t \in done \cup wait PROVE verdict[tx[t].env] # "none"
  <2>1. verdict[Key] # "none"
    BY <1>1 DEF ReceiptGood, Accepting
  <2>2. tx[t].env = Key
    BY <1>3, CorePlaces DEF BatchGood
  <2>3. QED
    BY <2>1, <2>2
<1>7. QED
  BY <1>2, <1>3, <1>4, <1>5, <1>6, SettleSequenced

(* A confirmation outside a batch.                                         *)
LEMMA ConfirmSequenced ==
    ASSUME Core, Core', HistoryGrows, Sequenced, ConfirmStep
    PROVE  Sequenced'
<1>1. PICK S : Confirms(S)
  BY ConfirmSettles
<1>2. PICK E : E = {}
  OBVIOUS
<1>3. /\ Issued' = Issued /\ batch' = batch
      /\ \A t \in TxIds :
           SettledAs(tx[t], tx'[t], StatusAfter(t, S, E, E, E), ConfAfter(t, S, E))
      /\ \A x : x \in ToSet(queue')
                <=> \/ x \in ToSet(queue)
                    \/ x \in ReleasedBy(S \cup E) /\ PendingIn(tx', x)
  BY <1>1, <1>2, ConfirmCore, Zenon
<1>4. Settle(S, E, E, E) /\ S \subseteq Awaiting /\ envelope' = envelope
  BY <1>1, <1>2, Zenon DEF Confirms
<1>5. /\ S \subseteq Issued /\ E \subseteq Issued /\ E \subseteq ToSet(batch)
      /\ \A t \in S \cup E : tx[t].status = "awaiting_delta"
      /\ \A t \in E \cup E : ~Settled(t)
  BY <1>2, <1>4 DEF Awaiting
<1>6. QED
  BY <1>3, <1>4, <1>5, SettleSequenced

(* A failed save counts no attempt.                                        *)
LEMMA PersistFailedAttempts ==
    ASSUME Core, PersistFailed
    PROVE  \A u \in TxIds : tx'[u].attempts = tx[u].attempts /\ tx'[u].high = tx[u].high
<1>0. PICK S : S = {Head(saving)}
  OBVIOUS
<1> DEFINE W == WithStatus(tx, S, "failed")
<1>1. tx' = Answered(W, S, "rejected")
  BY <1>0, Zenon DEF PersistFailed, Failed
<1>a. tx \in [TxIds -> TxType] /\ "failed" \in Statuses
  BY CorePlaces DEF Statuses
<1>2. /\ W \in [TxIds -> TxType]
      /\ \A u \in TxIds : W[u].attempts = tx[u].attempts /\ W[u].high = tx[u].high
  BY <1>a, StatusAttempts
<1> HIDE DEF W
<1>3. QED
  BY <1>1, <1>2, AnswerAttempts

(* A failed save settles its write.                                        *)
LEMMA PersistFailedSequenced ==
    ASSUME Core, Core', HistoryGrows, Sequenced, PersistFailed
    PROVE  Sequenced'
<1>1. PICK t : t = Head(saving)
  OBVIOUS
<1>2. PICK S : S = {t}
  OBVIOUS
<1>3. /\ SaveEnds(t) /\ staged' = staged
      /\ \A x : x \in ToSet(queue')
                <=> x \in ToSet(queue) \/ (x \in ReleasedBy(S) /\ PendingIn(tx', x))
      /\ \A u \in TxIds : tx'[u].status = IF u = t THEN "failed" ELSE tx[u].status
  BY <1>1, <1>2, PersistFailedEnds
<1>4. Issued' = Issued /\ Live' = Live /\ t \in Issued
  BY <1>3, SaveEndsCore
<1>5. StoreKept /\ UNCHANGED <<backoff, batch, envelope>>
  BY <1>3 DEF SaveEnds, runner
<1>6. Issued \subseteq TxIds /\ Live \subseteq Issued /\ tx \in [TxIds -> TxType]
  BY CorePlaces DEF Live, Core, SourcesGood
<1>7. \A u \in TxIds : tx'[u].attempts = tx[u].attempts
  BY PersistFailedAttempts
<1>8. Keyed' /\ Decided'
  BY <1>3, <1>4, <1>5, <1>6, KeyedKept DEF StoreKept
<1>9. ASSUME NEW u \in Issued PROVE Forward(u)
  BY <1>3, <1>5, <1>6, <1>7 DEF Forward, StoreKept, Sent, Settled
<1>10. ASSUME NEW d \in Live, NEW c, tx[d].type = "delete", CreateOf(c, tx[d].row), InHand(d)', ~InHand(d)
       PROVE  Settled(c)'
  <2>1. tx'[d].env = tx[d].env
    BY <1>5, <1>6 DEF StoreKept
  <2>2. d \in ReleasedBy(S)
    BY <1>3, <1>5, <1>10, <2>1 DEF InHand
  <2>3. CreateOf(t, tx[d].row)
    BY <1>2, <1>4, <2>2 DEF ReleasedBy, CreateOf
  <2>4. tx[d].row \in Rows
    <3>1. tx[c].row \in NewRows
      BY <1>10 DEF Sequenced, OneCreate, CreateOf
    <3>2. QED
      BY <1>10, <3>1, QueueAssumption DEF CreateOf
  <2>5. t = c
    BY <1>10, <2>3, <2>4 DEF Sequenced, OneCreate
  <2>6. QED
    BY <1>3, <1>4, <1>6, <2>5 DEF Settled
<1>11. QED
  BY <1>4, <1>8, <1>9, <1>10, SequencedKept

(* Steps that only move writes between the staging area, the queue, the    *)
(* retry timers and the batch.                                             *)
LEMMA MoveSequenced ==
    ASSUME Core, Core', HistoryGrows, Sequenced,
           \/ CommitStaged \/ DrainPending \/ StartBatch
           \/ \E g \in backoff : RetryTimer(g)
    PROVE  Sequenced'
<1>1. tx' = tx /\ sources' = sources /\ envelope' = envelope
  BY StartBatchFacts DEF CommitStaged, DrainPending, StartBatch, RetryTimer, storage
<1>2. ASSUME NEW d, InHand(d)' PROVE InHand(d)
  <2>1. CASE CommitStaged \/ DrainPending
    <3>1. /\ queue' = EnqueueAll(queue, staged, tx) /\ staged' = <<>>
          /\ UNCHANGED <<backoff, batch>>
      BY <2>1 DEF CommitStaged, DrainPending, runner
    <3>2. \A x : x \in ToSet(queue') => x \in ToSet(queue) \/ x \in ToSet(staged)
      BY <3>1, CorePlaces, EnqueueSaved
    <3>3. ToSet(staged') = {}
      BY <3>1 DEF ToSet
    <3>4. QED
      BY <1>1, <1>2, <3>1, <3>2, <3>3 DEF InHand
  <2>2. CASE StartBatch
    <3>1. ToSet(batch') \cup ToSet(queue') \subseteq ToSet(queue)
      BY <2>2, StartBatchFacts
    <3>2. UNCHANGED <<staged, backoff>>
      BY <2>2 DEF StartBatch
    <3>3. QED
      BY <1>1, <1>2, <3>1, <3>2 DEF InHand
  <2>3. ASSUME NEW g \in backoff, RetryTimer(g) PROVE InHand(d)
    <3>1. /\ queue' = EnqueueAll(queue, g, tx) /\ backoff' = backoff \ {g}
          /\ UNCHANGED <<staged, batch>>
      BY <2>3 DEF RetryTimer, runner
    <3>2. \A x : x \in ToSet(queue') => x \in ToSet(queue) \/ x \in ToSet(g)
      BY <3>1, CorePlaces, EnqueueSaved
    <3>3. QED
      BY <1>1, <1>2, <3>1, <3>2 DEF InHand
  <2>4. QED
    BY <2>1, <2>2, <2>3
<1>3. QED
  BY <1>1, <1>2, StoreSequenced

(* Preparing a batch: each of its writes gets the batch's key.             *)
LEMMA PreparedSequenced ==
    ASSUME Core, Core', HistoryGrows, Sequenced, Prepared
    PROVE  Sequenced'
<1>1. PICK k \in Keys :
        /\ \/ /\ Key = 0 /\ k \notin DOMAIN envelope
              /\ DOMAIN envelope' = DOMAIN envelope \cup {k}
           \/ k = Key /\ envelope' = envelope
        /\ k \in DOMAIN envelope' /\ envelope'[k].ops = batch
        /\ \A t \in TxIds : /\ WriteKept(t)
                            /\ t \in ToSet(batch) => tx'[t].env = k /\ tx'[t].status = "executing"
                            /\ t \notin ToSet(batch) => tx'[t] = tx[t]
        /\ UNCHANGED <<sources, staged, queue, backoff, batch, verdict>>
  BY PreparedFacts DEF server
<1>2. Issued' = Issued /\ Live' = Live /\ Issued \subseteq TxIds /\ Live \subseteq Issued
  BY <1>1, PreparedCore, CorePlaces DEF Live, Core, SourcesGood
<1>3. \A t \in ToSet(batch) : tx[t].env = Key /\ ~Settled(t) /\ t \in Issued
  BY BatchStatus, CorePlaces DEF BatchGood, Settled
<1>4. Keyed'
  <2>1. SUFFICES ASSUME NEW l \in DOMAIN envelope', NEW t \in Ops(l)'
                 PROVE  tx'[t].env = l
    BY DEF Keyed
  <2>2. CASE l = k
    <3>1. t \in ToSet(batch)
      BY <1>1, <2>2 DEF Ops
    <3>2. QED
      BY <1>1, <1>2, <1>3, <2>2, <3>1
  <2>3. CASE l # k
    <3>1. l \in DOMAIN envelope
      BY <1>1, <2>3
    <3>2. t \in Ops(l)
      BY <3>1 DEF HistoryGrows
    <3>3. tx[t].env = l /\ t \in Issued
      BY <3>1, <3>2 DEF Sequenced, Keyed, Core, Envelopes, Live, SourcesGood
    <3>4. l \in Nat \ {0}
      BY <3>1, TypeParts, EnvelopeIn DEF Core, Keys
    <3>5. t \notin ToSet(batch)
      BY <1>1, <1>3, <2>3, <3>3, <3>4
    <3>6. QED
      BY <1>1, <1>2, <3>3, <3>5
  <2>4. QED
    BY <2>2, <2>3
<1>5. Decided'
  <2>1. SUFFICES ASSUME NEW t \in Issued, tx'[t].env # 0,
                        tx'[t].status \in {"awaiting_delta", "completed"}
                 PROVE  verdict[tx'[t].env] # "none"
    BY <1>1, <1>2 DEF Decided
  <2>2. tx'[t] = tx[t]
    BY <1>1, <1>2, <2>1
  <2>3. QED
    BY <2>1, <2>2 DEF Sequenced, Decided
<1>6. ASSUME NEW t \in Issued PROVE Forward(t)
  BY <1>1, <1>2, <1>3 DEF Forward, Sent, Settled
<1>7. ASSUME NEW d \in Live, InHand(d)' PROVE InHand(d)
  BY <1>1, <1>2, <1>7 DEF InHand
<1>8. QED
  BY <1>2, <1>4, <1>5, <1>6, <1>7, SequencedKept

(* A batch that could not be prepared is pending again.                    *)
LEMMA UnpreparedSequenced ==
    ASSUME Core, Core', HistoryGrows, Sequenced, PrepareTransient \/ PreparePermanent
    PROVE  Sequenced'
<1>1. tx \in [TxIds -> TxType] /\ batch \in Seq(TxIds) /\ Issued \subseteq TxIds
  BY CorePlaces
<1>2. /\ StoreKept
      /\ \A t \in TxIds : /\ t \in ToSet(batch) => tx'[t].status = "pending"
                          /\ t \notin ToSet(batch) => tx'[t].status = tx[t].status
  <2>1. CASE PrepareTransient
    BY <2>1, PrepareTransientCore DEF QuietStep
  <2>2. CASE PreparePermanent
    BY <2>2, PreparePermanentStore
  <2>3. QED
    BY <2>1, <2>2
<1>3. \A t \in TxIds : tx'[t].attempts \in {tx[t].attempts, tx[t].attempts + 1}
  <2>1. CASE PrepareTransient
    <3>1. tx' = [t \in TxIds |-> IF Contains(batch, t)
                                 THEN [tx[t] EXCEPT !.status = "pending", !.attempts = @ + 1]
                                 ELSE tx[t]]
      BY <2>1, Zenon DEF PrepareTransient
    <3>2. \A t \in TxIds :
            [tx[t] EXCEPT !.status = "pending", !.attempts = @ + 1].attempts = tx[t].attempts + 1
      BY <1>1 DEF TxType
    <3>3. ASSUME NEW t \in TxIds PROVE tx'[t].attempts \in {tx[t].attempts, tx[t].attempts + 1}
      <4>1. CASE Contains(batch, t)
        <5>1. tx'[t] = [tx[t] EXCEPT !.status = "pending", !.attempts = @ + 1]
          BY <3>1, <4>1, Zenon
        <5>2. QED
          BY <3>2, <5>1
      <4>2. CASE ~Contains(batch, t)
        <5>1. tx'[t] = tx[t]
          BY <3>1, <4>2, Zenon
        <5>2. QED
          BY <5>1
      <4>3. QED
        BY <4>1, <4>2
    <3>4. QED
      BY <3>3
  <2>2. CASE PreparePermanent
    <3> DEFINE W == WithStatus(tx, ToSet(batch), "pending")
    <3>1. tx' = Answered(W, ToSet(batch), "rejected")
      BY <2>2 DEF PreparePermanent
    <3>2. W \in [TxIds -> TxType] /\ \A t \in TxIds : W[t].attempts = tx[t].attempts
      BY <1>1, StatusAttempts DEF Statuses
    <3> HIDE DEF W
    <3>3. \A t \in TxIds : tx'[t].attempts = W[t].attempts
      BY <3>1, <3>2, AnswerAttempts
    <3>4. QED
      BY <3>2, <3>3
  <2>3. QED
    BY <2>1, <2>2
<1>4. Issued' = Issued
  BY <1>2, KeptIssued DEF StoreKept
<1>5. /\ envelope' = envelope /\ sources' = sources /\ staged' = staged /\ batch' = <<>>
      /\ \/ queue' = queue /\ backoff' = backoff \cup {batch}
         \/ queue' = queue \o batch /\ backoff' = backoff
      /\ phase = "preparing"
  BY Zenon DEF PrepareTransient, PreparePermanent, BatchDone, storage
<1>6. Live' = Live /\ Live \subseteq Issued
  BY <1>5 DEF Live, Core, SourcesGood
<1>7. Keyed' /\ Decided'
  BY <1>1, <1>2, <1>4, <1>5, KeyedKept DEF StoreKept
<1>8. \A t \in ToSet(batch) : tx[t].status \in {"pending", "rolled_back"}
  BY <1>5, CorePlaces DEF BatchGood
<1>9. ASSUME NEW t \in Issued PROVE Forward(t)
  <2>1. tx[t].attempts \in Nat
    BY <1>1 DEF TxType
  <2>2. QED
    BY <1>1, <1>2, <1>3, <1>8, <2>1 DEF Forward, StoreKept, Sent, Settled
<1>10. ASSUME NEW d \in Live, InHand(d)' PROVE InHand(d)
  <2>1. tx'[d].env = tx[d].env
    BY <1>1, <1>2, <1>6 DEF StoreKept
  <2>2. ToSet(queue') \subseteq ToSet(queue) \cup ToSet(batch) /\ ToSet(batch') = {}
    <3>1. ToSet(queue \o batch) = ToSet(queue) \cup ToSet(batch)
      BY CorePlaces, ToSetConcat
    <3>2. ToSet(batch') = {}
      BY <1>5 DEF ToSet
    <3>3. QED
      BY <1>5, <3>1, <3>2
  <2>3. QED
    BY <1>5, <1>10, <2>1, <2>2 DEF InHand
<1>11. QED
  BY <1>4, <1>6, <1>7, <1>9, <1>10, SequencedKept

(* A caller is told that its echo is late.                                 *)
LEMMA LagSequenced ==
    ASSUME Core, Core', HistoryGrows, Sequenced, NEW u \in TxIds, ReplicationLag(u)
    PROVE  Sequenced'
<1>1. QuietStep /\ \A t \in TxIds : tx'[t].status = tx[t].status
  BY ReplicationLagCore
<1>2. PICK S : S = {u}
  OBVIOUS
<1>3. /\ tx' = Answered(tx, S, "rejected") /\ tx \in [TxIds -> TxType] /\ Issued \subseteq TxIds
      /\ UNCHANGED <<sources, staged, queue, backoff, batch, envelope>>
  BY <1>2, CorePlaces DEF ReplicationLag, runner, storage
<1>4. \A t \in TxIds : tx'[t].attempts = tx[t].attempts
  BY <1>3, AnswerAttempts
<1>5. Issued' = Issued /\ Live' = Live /\ Live \subseteq Issued
  BY <1>1, <1>3, KeptIssued DEF QuietStep, StoreKept, Live, Core, SourcesGood
<1>6. Keyed' /\ Decided'
  BY <1>1, <1>3, <1>5, KeyedKept DEF QuietStep, StoreKept
<1>7. ASSUME NEW t \in Issued PROVE Forward(t)
  BY <1>1, <1>3, <1>4 DEF QuietStep, StoreKept, Forward, Sent, Settled
<1>8. ASSUME NEW d \in Live, InHand(d)' PROVE InHand(d)
  BY <1>1, <1>3, <1>5, <1>8 DEF QuietStep, StoreKept, InHand
<1>9. QED
  BY <1>5, <1>6, <1>7, <1>8, SequencedKept

(* Where children are not created here, a cascade cancels updates only.    *)
LEMMA CascadeSequenced ==
    ASSUME Core, Core', HistoryGrows, Sequenced, ChildRows \cap NewRows = {},
           NEW r \in Rows, CascadeCancel(r)
    PROVE  Sequenced'
<1>1. PICK S \in SUBSET Issued :
        /\ tx' = WithStatus(tx, S, "rolled_back")
        /\ \A t \in S : tx[t].type \in {"create", "update"} /\ tx[t].row = r
  BY CascadeOrphans
<1>2. \A t \in S : tx[t].type # "create"
  <2>1. r \notin NewRows
    BY CascadeOrphans
  <2>2. QED
    BY <1>1, <2>1 DEF Sequenced, OneCreate
<1>3. /\ StoreKept
      /\ \A t \in TxIds : /\ t \in S => tx'[t].status = "rolled_back"
                          /\ t \notin S => tx'[t].status = tx[t].status
  BY <1>1, StatusStore DEF Statuses
<1>4. tx \in [TxIds -> TxType] /\ "rolled_back" \in Statuses /\ Issued \subseteq TxIds
  BY CorePlaces DEF Statuses
<1>5. \A t \in TxIds : tx'[t].attempts = tx[t].attempts
  BY <1>1, <1>4, StatusAttempts
<1>6. UNCHANGED <<sources, staged, queue, backoff, batch, envelope>>
  BY Zenon DEF CascadeCancel, runner, storage
<1>7. Issued' = Issued /\ Live' = Live /\ Live \subseteq Issued
  BY <1>3, <1>6, KeptIssued DEF StoreKept, Live, Core, SourcesGood
<1>8. Keyed' /\ Decided'
  BY <1>3, <1>4, <1>6, <1>7, KeyedKept DEF StoreKept
<1>9. ASSUME NEW t \in Issued PROVE Forward(t)
  <2>1. WriteKept(t) /\ tx'[t].attempts = tx[t].attempts
    BY <1>3, <1>4, <1>5 DEF StoreKept
  <2>2. tx'[t].status = "rolled_back" \/ tx'[t].status = tx[t].status
    BY <1>3, <1>4
  <2>3. tx[t].type = "create" => tx'[t].status = tx[t].status
    BY <1>2, <1>3, <1>4
  <2>4. QED
    BY <2>1, <2>2, <2>3 DEF Forward, Sent, Settled
<1>10. ASSUME NEW d \in Live, InHand(d)' PROVE InHand(d)
  BY <1>3, <1>4, <1>6, <1>7, <1>10 DEF StoreKept, InHand
<1>11. QED
  BY <1>7, <1>8, <1>9, <1>10, SequencedKept

(* Steps that issue a write: a create only when its row has none, a delete *)
(* that has a caller only when the create cannot be cancelled any more.    *)
LEMMA IssueSequenced ==
    ASSUME Core, Core', HistoryGrows, Sequenced, NEW d, Issues(d),
           \A t \in Issued : tx'[t].attempts = tx[t].attempts,
           \A t \in Issued : \/ tx'[t].status = tx[t].status
                             \/ /\ tx'[t].status = "rolled_back"
                                /\ tx[t].type = "create"
                                   => tx[t].status = "pending" /\ tx[t].attempts = 0,
           tx'[d].type = "create" => tx'[d].row \in NewRows /\ ~\E c : CreateOf(c, tx'[d].row),
           tx'[d].type = "delete" /\ sources'[d] # {}
             => /\ tx'[d].row \in NewRows => \E c : CreateOf(c, tx'[d].row)
                /\ \A c : CreateOf(c, tx'[d].row) => Sent(c),
           tx'[d].status # "gone"
    PROVE  Sequenced'
<1>1. /\ Issued' = Issued \cup {d} /\ d \notin Issued
      /\ Live' = Live \cup (IF sources'[d] = {} THEN {} ELSE {d})
  BY IssueCore
<1>2. /\ d \in TxIds /\ tx'[d].env = 0 /\ envelope' = envelope
      /\ \A t \in TxIds \ {d} : WriteKept(t) /\ tx'[t].env = tx[t].env
      /\ ToSet(staged') \subseteq ToSet(staged) /\ ToSet(queue') \subseteq ToSet(queue)
      /\ batch' = batch /\ backoff' = backoff
  BY DEF Issues, runner
<1>3. Issued \subseteq TxIds \ {d} /\ Live \subseteq Issued
  BY <1>1, CorePlaces DEF Live, Core, SourcesGood
<1>4. Keyed' /\ Decided'
  BY <1>1, <1>2, <1>3, KeyedKept
<1>5. Present'
  BY <1>1 DEF Present, Sequenced
<1>6. \A t \in Issued : tx'[t].type = tx[t].type /\ tx'[t].row = tx[t].row
  BY <1>2, <1>3 DEF WriteKept, Issued
<1>7. \A c, r : CreateOf(c, r)' <=> \/ CreateOf(c, r)
                                    \/ c = d /\ tx'[d].type = "create" /\ tx'[d].row = r
  BY <1>1, <1>6 DEF CreateOf
<1>8. OneCreate'
  <2>1. \A c \in Issued' : tx'[c].type = "create" => tx'[c].row \in NewRows
    BY <1>1, <1>6 DEF Sequenced, OneCreate
  <2>2. \A r \in Rows : \A c, e : CreateOf(c, r)' /\ CreateOf(e, r)' => c = e
    BY <1>7 DEF Sequenced, OneCreate
  <2>3. ASSUME NEW x \in Live', tx'[x].type = "delete", tx'[x].row \in NewRows
        PROVE  \E c : CreateOf(c, tx[x].row)'
    <3>1. CASE x = d
      <4>1. sources'[d] # {}
        BY <1>1, <1>3, <2>3, <3>1
      <4>2. PICK c : CreateOf(c, tx'[d].row)
        BY <2>3, <3>1, <4>1
      <4>3. CreateOf(c, tx[x].row)'
        BY <1>1, <1>6, <3>1, <4>2 DEF CreateOf
      <4>4. QED
        BY <4>3
    <3>2. CASE x \in Live
      <4>1. tx[x].type = "delete" /\ tx'[x].row = tx[x].row
        BY <1>3, <1>6, <2>3, <3>2
      <4>2. \E c : CreateOf(c, tx[x].row)
        BY <2>3, <3>2, <4>1 DEF Sequenced, OneCreate
      <4>3. QED
        BY <1>7, <4>1, <4>2
    <3>3. QED
      BY <1>1, <3>1, <3>2
  <2>4. QED
    BY <2>1, <2>2, <2>3 DEF OneCreate
<1>9. ASSUME NEW c \in Issued, tx[c].type = "create"
      PROVE  (Sent(c) => Sent(c)') /\ (Settled(c) => Settled(c)')
  BY <1>9 DEF Sent, Settled, Outstanding
<1>10. ~InHand(d)' /\ \A x \in Live : InHand(x)' => InHand(x)
  <2>1. d \notin ToSet(staged) \cup ToSet(queue) \cup ToSet(batch)
    BY <1>1, CorePlaces
  <2>2. ~\E g \in backoff : d \in ToSet(g)
    BY <1>1, CorePlaces
  <2>3. ~InHand(d)'
    BY <1>2, <2>1, <2>2 DEF InHand
  <2>4. QED
    BY <1>2, <1>3, <2>3 DEF InHand
<1>11. CreatesFirst'
  <2>1. SUFFICES ASSUME NEW x \in Live', NEW c, tx'[x].type = "delete", CreateOf(c, tx[x].row)'
                 PROVE  Sent(c)' /\ (InHand(x)' => Settled(c)')
    BY DEF CreatesFirst
  <2>2. PICK r : r = tx'[x].row
    OBVIOUS
  <2>3. CreateOf(c, r)'
    BY <2>1, <2>2 DEF CreateOf
  <2>4. CASE x = d
    <3>1. CreateOf(c, r) /\ sources'[d] # {}
      BY <1>1, <1>3, <1>7, <2>1, <2>3, <2>4
    <3>2. Sent(c)
      BY <2>1, <2>2, <2>4, <3>1
    <3>3. QED
      BY <1>9, <1>10, <2>4, <3>1, <3>2 DEF CreateOf
  <2>5. CASE x \in Live
    <3>1. tx[x].type = "delete" /\ tx[x].row = r
      BY <1>3, <1>6, <2>1, <2>2, <2>5
    <3>2. CASE c = d /\ tx'[d].type = "create" /\ tx'[d].row = r
      BY <2>5, <3>1, <3>2 DEF Sequenced, OneCreate
    <3>3. CASE CreateOf(c, r)
      <4>1. Sent(c) /\ (InHand(x) => Settled(c))
        BY <2>5, <3>1, <3>3 DEF Sequenced, CreatesFirst
      <4>2. QED
        BY <1>9, <1>10, <2>5, <3>3, <4>1 DEF CreateOf
    <3>4. QED
      BY <1>7, <2>3, <3>2, <3>3
  <2>6. QED
    BY <1>1, <2>4, <2>5
<1>12. QED
  BY <1>4, <1>5, <1>8, <1>11 DEF Sequenced

(* create, update, archive.                                                *)
LEMMA WriteSequenced ==
    ASSUME Core, Core', HistoryGrows, Sequenced,
           NEW r \in Rows, NEW type \in Kinds, NEW opt \in Opts, Write(type, r, opt)
    PROVE  Sequenced'
<1>1. PICK d : d = NextId
  OBVIOUS
<1>2. /\ Issues(d) /\ d \in TxIds /\ tx'[d].status = "pending"
      /\ \A t \in TxIds \ {d} : tx'[t] = tx[t]
  BY <1>1, WriteIssues DEF Issues
<1>3. d \notin Issued /\ Issued \subseteq TxIds
  BY <1>2, IssueCore, CorePlaces
<1>4. /\ tx' = [tx EXCEPT ![d] = NewTx(type, r, opt)] /\ type # "delete"
      /\ type = "create" => r \in NewRows /\ ~\E u \in Issued : tx[u].type = "create" /\ tx[u].row = r
  BY <1>1, Zenon DEF Write
<1>5. tx'[d].type = type /\ tx'[d].row = r
  BY <1>2, <1>4, NewTxFacts, CorePlaces
<1>6. tx'[d].type = "create" => tx'[d].row \in NewRows /\ ~\E c : CreateOf(c, tx'[d].row)
  BY <1>4, <1>5 DEF CreateOf
<1>7. \A t \in Issued : tx'[t].status = tx[t].status /\ tx'[t].attempts = tx[t].attempts
  BY <1>2, <1>3
<1>8. QED
  BY <1>2, <1>4, <1>5, <1>6, <1>7, IssueSequenced

(* A delete that cancels an unsent create counts no attempt.               *)
LEMMA RemoveUnsentAttempts ==
    ASSUME Core, NEW r \in Rows, RemoveUnsent(r)
    PROVE  \A t \in TxIds \ {NextId} : tx'[t].attempts = tx[t].attempts /\ tx'[t].high = tx[t].high
<1>1. PICK d : d = NextId
  OBVIOUS
<1> DEFINE n == [NewTx("delete", r, "plain") EXCEPT !.status = "completed"]
           W(c) == WithStatus(tx, {c}, "rolled_back")
           V(c) == [W(c) EXCEPT ![d] = n]
<1>2. PICK c \in UnsentCreates(r) : tx' = Answered(V(c), {c, d}, "cancelled")
  BY <1>1, Zenon DEF RemoveUnsent
<1>3. PICK C : C = {c}
  OBVIOUS
<1>4. /\ W(c) \in [TxIds -> TxType]
      /\ \A t \in TxIds : W(c)[t].attempts = tx[t].attempts /\ W(c)[t].high = tx[t].high
  <2>1. /\ WithStatus(tx, C, "rolled_back") \in [TxIds -> TxType]
        /\ \A t \in TxIds : /\ WithStatus(tx, C, "rolled_back")[t].attempts = tx[t].attempts
                            /\ WithStatus(tx, C, "rolled_back")[t].high = tx[t].high
    <3>1. tx \in [TxIds -> TxType] /\ "rolled_back" \in Statuses
      BY CorePlaces DEF Statuses
    <3>2. QED
      BY <3>1, StatusAttempts
  <2>2. QED
    BY <1>3, <2>1
<1>5. n \in TxType
  <2>1. "delete" \in Kinds
    BY Zenon DEF RemoveUnsent, CanIssue
  <2>2. NewTx("delete", r, "plain") \in TxType
    BY <2>1, NewTxFacts
  <2>3. QED
    BY <2>2 DEF TxType, Statuses
<1> HIDE DEF n, W
<1>6. V(c) \in [TxIds -> TxType] /\ \A t \in TxIds \ {d} : V(c)[t] = W(c)[t]
  BY <1>4, <1>5
<1> HIDE DEF V
<1>7. PICK D : D = {c, d}
  OBVIOUS
<1>8. \A t \in TxIds : /\ Answered(V(c), D, "cancelled")[t].attempts = V(c)[t].attempts
                      /\ Answered(V(c), D, "cancelled")[t].high = V(c)[t].high
  BY <1>6, AnswerAttempts
<1>9. tx' = Answered(V(c), D, "cancelled")
  BY <1>2, <1>7
<1>10. QED
  BY <1>1, <1>4, <1>6, <1>8, <1>9

(* A delete that cancels an unsent create is over at once.                 *)
LEMMA RemoveUnsentSequenced ==
    ASSUME Core, Core', HistoryGrows, Sequenced, NEW r \in Rows, RemoveUnsent(r)
    PROVE  Sequenced'
<1>1. PICK d : d = NextId
  OBVIOUS
<1>2. /\ Issues(d) /\ d \in TxIds /\ tx'[d].status = "completed" /\ tx'[d].type = "delete"
      /\ sources' = sources
      /\ \E c \in UnsentCreates(r) :
           /\ \A t \in TxIds \ {d} :
                /\ tx'[t].status = IF t = c THEN "rolled_back" ELSE tx[t].status
                /\ tx'[t].conf = IF t = c /\ tx[t].conf = "open" THEN "cancelled" ELSE tx[t].conf
           /\ purging' = purging \cup Purged({c})
           /\ ToSet(staged') = ToSet(staged) \ {c}
           /\ ToSet(queue) \ {c} \subseteq ToSet(queue')
  BY <1>1, RemoveUnsentIssues DEF Issues
<1>3. d \notin Issued /\ Issued \subseteq TxIds /\ tx \in [TxIds -> TxType]
  BY <1>2, IssueCore, CorePlaces
<1>4. ASSUME NEW t \in Issued
      PROVE  \/ tx'[t].status = tx[t].status
             \/ /\ tx'[t].status = "rolled_back"
                /\ tx[t].type = "create" => tx[t].status = "pending" /\ tx[t].attempts = 0
  BY <1>2, <1>3 DEF UnsentCreates
<1>5. sources'[d] = {}
  BY <1>2, <1>3 DEF Core, SourcesGood
<1>6. \A t \in Issued : tx'[t].attempts = tx[t].attempts
  BY <1>1, <1>3, RemoveUnsentAttempts
<1>7. QED
  BY <1>2, <1>4, <1>5, <1>6, IssueSequenced

(* Superseding updates counts no attempt.                                  *)
LEMMA RemoveRowAttempts ==
    ASSUME Core, NEW r \in Rows, RemoveRow(r)
    PROVE  \A t \in TxIds \ {NextId} : tx'[t].attempts = tx[t].attempts /\ tx'[t].high = tx[t].high
<1>1. PICK d : d = NextId
  OBVIOUS
<1> DEFINE n == NewTx("delete", r, "plain")
           W == WithStatus(tx, Superseded(r), "rolled_back")
<1>2. tx' = [W EXCEPT ![d] = n]
  BY <1>1, Zenon DEF RemoveRow
<1>a. tx \in [TxIds -> TxType] /\ "rolled_back" \in Statuses
  BY CorePlaces DEF Statuses
<1>3. /\ W \in [TxIds -> TxType]
      /\ \A t \in TxIds : W[t].attempts = tx[t].attempts /\ W[t].high = tx[t].high
  BY <1>a, StatusAttempts
<1> HIDE DEF n, W
<1>4. QED
  BY <1>1, <1>2, <1>3

(* A delete of a row whose create, if any, was sent.                       *)
LEMMA RemoveRowSequenced ==
    ASSUME Core, Core', HistoryGrows, Sequenced, NEW r \in Rows, RemoveRow(r)
    PROVE  Sequenced'
<1>1. PICK d : d = NextId
  OBVIOUS
<1>2. /\ Issues(d) /\ d \in TxIds /\ tx'[d].status = "pending" /\ tx'[d].type = "delete" /\ tx'[d].row = r
      /\ \A t \in TxIds \ {d} :
           tx'[t].status = IF t \in Superseded(r) THEN "rolled_back" ELSE tx[t].status
  BY <1>1, RemoveRowIssues DEF Issues
<1>3. d \notin Issued /\ Issued \subseteq TxIds /\ tx \in [TxIds -> TxType]
  BY <1>2, IssueCore, CorePlaces
<1>4. ASSUME NEW t \in Issued
      PROVE  \/ tx'[t].status = tx[t].status
             \/ tx'[t].status = "rolled_back" /\ tx[t].type # "create"
  BY <1>2, <1>3 DEF Superseded
<1>5. \A t \in Issued : tx'[t].attempts = tx[t].attempts
  BY <1>1, <1>3, RemoveRowAttempts
<1>6. Visible(r) /\ UnsentCreates(r) = {}
  BY Zenon DEF RemoveRow
<1>7. r \in NewRows => \E c : CreateOf(c, r) /\ tx[c].status \notin {"failed", "rolled_back"}
  BY <1>6 DEF Visible, CreateOf
<1>8. ASSUME NEW c, CreateOf(c, r) PROVE Sent(c)
  <2>1. r \in NewRows
    BY <1>8 DEF Sequenced, OneCreate, CreateOf
  <2>2. tx[c].status \notin {"failed", "rolled_back"}
    BY <1>7, <1>8, <2>1 DEF Sequenced, OneCreate
  <2>3. c \in Issued /\ tx[c].status \in Statuses /\ tx[c].status \notin {"none", "gone"}
    BY <1>3, <1>8 DEF CreateOf, Issued, TxType, Sequenced, Present
  <2>4. tx[c].status = "pending" => tx[c].attempts # 0
    BY <1>6, <1>8 DEF UnsentCreates, CreateOf
  <2>5. QED
    BY <2>2, <2>3, <2>4 DEF Sent, Statuses
<1>9. QED
  BY <1>2, <1>4, <1>5, <1>7, <1>8, IssueSequenced

(* Only a crash counts as one.                                             *)
LEMMA CrashesKept ==
    ASSUME Core, [Next]_vars, crashes' = 0
    PROVE  crashes = 0 /\ ~CrashRestart
<1>1. crashes \in Nat
  BY QueueAssumption, CorePlaces DEF BoundsTyped
<1>2. ~CrashRestart
  <2>1. CrashRestart => crashes' = crashes + 1
    BY Zenon DEF CrashRestart
  <2>2. QED
    BY <1>1, <2>1
<1>3. ASSUME NEW done, NEW lost, NEW again, NEW wait, SettlesBatch(done, lost, again, wait)
      PROVE  crashes' = crashes
  BY <1>3 DEF SettlesBatch
<1>4. ASSUME BatchEnds PROVE crashes' = crashes
  BY <1>3, <1>4, BatchEndsSettle DEF Core
<1>5. ASSUME ConfirmStep PROVE crashes' = crashes
  BY <1>5, ConfirmSettles DEF Confirms, bounds
<1>6. ASSUME \/ \E r \in Rows, type \in Kinds, opt \in Opts : Write(type, r, opt)
             \/ \E r \in Rows : RemoveUnsent(r)
             \/ \E r \in Rows : RemoveRow(r)
             \/ \E r \in Rows : CascadeCancel(r)
             \/ \E t \in TxIds : ReplicationLag(t)
             \/ \E t \in TxIds : PurgeLands(t)
      PROVE  crashes' = crashes
  BY <1>6, Zenon DEF Write, RemoveUnsent, RemoveRow, CascadeCancel, ReplicationLag, PurgeLands, bounds
<1>7. ASSUME Persisted \/ PersistFailed \/ CommitStaged \/ DrainPending \/ \E g \in backoff : RetryTimer(g)
      PROVE  crashes' = crashes
  BY <1>7, Zenon DEF Persisted, PersistFailed, CommitStaged, DrainPending, RetryTimer, bounds
<1>8. ASSUME StartBatch \/ Prepared \/ PrepareTransient \/ PreparePermanent \/ Seal \/ Dispatch \/ LaneSend
      PROVE  crashes' = crashes
  BY <1>8, Zenon DEF StartBatch, Prepared, PrepareTransient, PreparePermanent, Seal, Dispatch, LaneSend, bounds
<1>9. ASSUME LaneStep \/ \E k \in Keys, reply \in Replies : ServerDecides(k, reply)
      PROVE  crashes' = crashes
  BY <1>9, Zenon DEF LaneStep, LaneReceipt, LaneTransient, LaneConfirmed, ServerDecides, bounds
<1>10. ASSUME UNCHANGED vars PROVE crashes' = crashes
  BY <1>10, Zenon DEF vars, bounds
<1>11. crashes' = crashes
  BY <1>2, <1>4, <1>5, <1>6, <1>7, <1>8, <1>9, <1>10, NextCases
<1>12. QED
  BY <1>2, <1>11

(* Every step of one process keeps the order.                              *)
LEMMA SequencedStep ==
    ASSUME Core, Sequenced, ChildRows \cap NewRows = {}, Next, ~CrashRestart
    PROVE  Sequenced'
<1>0. Core' /\ HistoryGrows
  BY CoreStep, HistoryStep
<1>1. ASSUME NEW r \in Rows, NEW type \in Kinds, NEW opt \in Opts, Write(type, r, opt) PROVE Sequenced'
  BY <1>0, <1>1, WriteSequenced
<1>2. ASSUME NEW r \in Rows, RemoveUnsent(r) PROVE Sequenced'
  BY <1>0, <1>2, RemoveUnsentSequenced
<1>3. ASSUME NEW r \in Rows, RemoveRow(r) PROVE Sequenced'
  BY <1>0, <1>3, RemoveRowSequenced
<1>4. ASSUME NEW r \in Rows, CascadeCancel(r) PROVE Sequenced'
  BY <1>0, <1>4, CascadeSequenced
<1>5. ASSUME NEW u \in TxIds, ReplicationLag(u) PROVE Sequenced'
  BY <1>0, <1>5, LagSequenced
<1>6. ASSUME NEW t \in TxIds, PurgeLands(t) PROVE Sequenced'
  BY <1>0, <1>6, IdleSequenced DEF PurgeLands, memory, runner
<1>7. CASE Persisted
  BY <1>0, <1>7, PersistedSequenced
<1>8. CASE PersistFailed
  BY <1>0, <1>8, PersistFailedSequenced
<1>9. CASE CommitStaged \/ DrainPending \/ StartBatch \/ \E g \in backoff : RetryTimer(g)
  BY <1>0, <1>9, MoveSequenced
<1>10. CASE Prepared
  BY <1>0, <1>10, PreparedSequenced
<1>11. CASE PrepareTransient \/ PreparePermanent
  BY <1>0, <1>11, UnpreparedSequenced
<1>12. CASE Seal
  <2>1. DOMAIN envelope' = DOMAIN envelope /\ UNCHANGED <<memory, batch>>
    BY <1>12, SealFacts
  <2>2. QED
    BY <1>0, <2>1, IdleSequenced DEF memory
<1>13. CASE BatchEnds
  BY <1>0, <1>13, BatchEndsSequenced
<1>14. CASE ConfirmStep
  BY <1>0, <1>14, ConfirmSequenced
<1>15. CASE Dispatch \/ LaneSend
  BY <1>0, <1>15, IdleSequenced DEF Dispatch, LaneSend, memory, runner, storage
<1>16. CASE LaneStep
  BY <1>0, <1>16, IdleSequenced
     DEF LaneStep, LaneReceipt, LaneTransient, LaneConfirmed, memory, runner, storage
<1>17. ASSUME NEW k \in Keys, NEW reply \in Replies, ServerDecides(k, reply) PROVE Sequenced'
  BY <1>0, <1>17, IdleSequenced DEF ServerDecides, memory, runner, storage
<1>18. QED
  BY <1>1, <1>2, <1>3, <1>4, <1>5, <1>6, <1>7, <1>8, <1>9, <1>10, <1>11, <1>12, <1>13,
     <1>14, <1>15, <1>16, <1>17, NextCases

(* A delete that reached the server undecided has its create behind it.    *)
LEMMA SequencedDeletes ==
    ASSUME Core, Sequenced
    PROVE  DeleteWaitsForCreate
<1>1. SUFFICES ASSUME NEW c \in Issued, NEW d \in Issued, NEW k \in wire, NEW l \in wire,
                      tx[c].type = "create", tx[d].type = "delete", tx[c].row = tx[d].row,
                      Contains(envelope[k].ops, c), Contains(envelope[l].ops, d),
                      tx[c].status # "failed"
               PROVE  verdict[k] # "none" /\ tx[c].status \notin Outstanding
  BY DEF DeleteWaitsForCreate
<1>2. k \in DOMAIN envelope /\ l \in DOMAIN envelope
  BY TypeParts DEF Core, StorageTyped
<1>3. envelope[k].ops \in Seq(TxIds) /\ envelope[l].ops \in Seq(TxIds) /\ k # 0 /\ l # 0
  BY <1>2, TypeParts, EnvelopeIn DEF Core, Keys
<1>4. c \in Ops(k) /\ d \in Ops(l)
  BY <1>1, <1>3, ToSetIn DEF Ops
<1>5. tx[c].env = k /\ tx[d].env = l /\ d \in Live
  BY <1>2, <1>4 DEF Sequenced, Keyed, Core, Envelopes
<1>6. CreateOf(c, tx[d].row) /\ InHand(d)
  BY <1>1, <1>3, <1>5 DEF CreateOf, InHand
<1>7. Settled(c)
  BY <1>1, <1>5, <1>6 DEF Sequenced, CreatesFirst
<1>8. tx[c].status = "completed"
  BY <1>1, <1>7 DEF Settled
<1>9. verdict[k] # "none"
  BY <1>3, <1>5, <1>8 DEF Sequenced, Decided
<1>10. QED
  BY <1>8, <1>9 DEF Outstanding

(* Until the process first crashes, and if no child row is created (a      *)
(* parent's delete cancels such creates), no delete is on the wire         *)
(* undecided while the create of its row is undecided or unsettled:        *)
(* findCreateBarrierForDelete parks it, and only the create's settlement   *)
(* lets it go.                                                             *)
THEOREM DeletesFollowCreates ==
    Spec => [](crashes = 0 /\ ChildRows \cap NewRows = {} => DeleteWaitsForCreate)
<1> DEFINE Ordered == crashes = 0 /\ ChildRows \cap NewRows = {} => Sequenced
<1>1. Init => Ordered
  <2>1. SUFFICES ASSUME Init PROVE Sequenced
    OBVIOUS
  <2>2. Issued = {} /\ DOMAIN envelope = {} /\ Live = {}
    BY <2>1 DEF Init, Issued, NoTx, Live
  <2>3. QED
    BY <2>2 DEF Sequenced, Keyed, Decided, OneCreate, CreatesFirst, Present, CreateOf
<1>2. Core /\ Ordered /\ [Next]_vars => Ordered'
  <2>1. SUFFICES ASSUME Core, Ordered, [Next]_vars, crashes' = 0, ChildRows \cap NewRows = {}
                 PROVE  Sequenced'
    OBVIOUS
  <2>2. Sequenced /\ ~CrashRestart
    BY <2>1, CrashesKept
  <2>3. CASE UNCHANGED vars
    <3>1. /\ UNCHANGED <<tx, sources, staged, queue, batch, backoff>>
          /\ UNCHANGED <<envelope, verdict, log>>
      BY <2>3 DEF vars, memory, runner, storage, server
    <3>2. Core' /\ HistoryGrows
      BY <2>1, <2>3, <3>1, StutterCore, SameHistory
    <3>3. QED
      BY <2>1, <2>2, <3>1, <3>2, IdleSequenced
  <2>4. QED
    BY <2>1, <2>2, <2>3, SequencedStep
<1>3. Core /\ Ordered => (crashes = 0 /\ ChildRows \cap NewRows = {} => DeleteWaitsForCreate)
  BY SequencedDeletes
<1>4. QED
  BY <1>1, <1>2, <1>3, QueueCore, PTL DEF Spec

-----------------------------------------------------------------------------
(* Writes of one row are applied in the order they were issued.  This is   *)
(* about one process, plain and keyed writes, and rows without archives.   *)

SameRow(a, b) == tx[a].row = tx[b].row

(* Waiting(t): the write has no key yet; Alive(t): it may still be applied *)
(* on behalf of its caller; Known(t): the server has decided on its key.   *)
Waiting(t) == tx[t].status = "pending" /\ tx[t].env = 0
Alive(t)   == t \in ToSet(batch) \/ tx[t].status \notin {"failed", "rolled_back"}
Known(t)   == tx[t].env # 0 /\ verdict[tx[t].env] # "none"

(* A row's create comes first and alone, and only deletes have priority.   *)
Origins ==
    \A t \in Issued :
        /\ tx[t].type \in {"create", "update", "delete"}
        /\ tx[t].high => tx[t].type = "delete"
        /\ tx[t].row \in NewRows => \E c : CreateOf(c, tx[t].row)
        /\ \A c : CreateOf(c, tx[t].row) => c <= t

(* Nothing is issued for a row after its delete, unless that failed; and   *)
(* nothing issued before a delete is still without a key.                  *)
Endings ==
    /\ \A d, t \in Issued : tx[d].type = "delete" /\ SameRow(d, t) /\ d < t
                            => tx[d].status = "failed"
    /\ \A d \in Live : \A t \in Issued : tx[d].type = "delete" /\ SameRow(d, t) /\ t < d
                                         => ~Waiting(t)

(* What the status of a write says about its key.                          *)
Labels ==
    /\ \A t \in Issued :
        /\ tx[t].env = 0 => /\ tx[t].status \notin {"executing", "awaiting_delta"}
                            /\ tx[t].status = "completed" => tx[t].type = "delete"
                            /\ tx[t].status = "pending" => tx[t].attempts = 0
        /\ tx[t].env # 0 /\ tx[t].status \in {"awaiting_delta", "completed"} => Known(t)
        /\ tx[t].type = "delete" => tx[t].status # "rolled_back"
        /\ tx[t].status # "gone"
    /\ \A g \in backoff : \A t \in ToSet(g) : tx[t].env # 0

Store == Origins /\ Endings /\ Labels /\ Keyed

(* Two writes without a key, the first of them queued before the other.    *)
InLine(T, a, b) ==
    /\ T[a].status = "pending" /\ T[a].env = 0 /\ T[b].status = "pending" /\ T[b].env = 0
    /\ T[a].row = T[b].row
    => a < b

Paired(s, R) == \A i, j \in 1..Len(s) : i < j => <<s[i], s[j]>> \in R
Lined(T)     == {p \in TxIds \X TxIds : InLine(T, p[1], p[2])}

(* Writes are saved, staged and queued in the order they were issued; the  *)
(* queue may mix the rows.                                                 *)
Tidy ==
    /\ Increasing(saving) /\ Increasing(staged)
    /\ \A a \in ToSet(staged) : \A b \in ToSet(saving) : a < b
    /\ \A a \in ToSet(queue) : \A b \in ToSet(staged) \cup ToSet(saving) :
          Waiting(a) /\ tx[a].type # "delete" => a < b
    /\ \A d \in parked : tx[d].type = "delete"
    /\ Paired(queue, Lined(tx))

(* A batch without a key leaves no write behind that it would overtake.    *)
First(b) ==
    /\ \A i, j \in 1..Len(b) : i < j /\ SameRow(b[i], b[j]) => b[i] < b[j]
    /\ \A t \in ToSet(b) : \A a \in Issued :
          a < t /\ SameRow(a, t) /\ Alive(a) => a \in ToSet(b) \/ Known(a)

Readied == phase = "preparing" /\ Key = 0 => First(batch)

(* The operations of a key are in order; a write has a key only when those *)
(* before it have the same key or are decided; and so the log is in order. *)
InKey ==
    \A k \in DOMAIN envelope : \A i, j \in 1..Len(envelope[k].ops) :
        /\ i < j /\ SameRow(envelope[k].ops[i], envelope[k].ops[j]) /\ Alive(envelope[k].ops[j])
        => envelope[k].ops[i] < envelope[k].ops[j]

AcrossKeys ==
    \A a, b \in Issued : a < b /\ SameRow(a, b) /\ tx[b].env # 0 /\ Alive(a)
                         => tx[a].env = tx[b].env \/ Known(a)

InLog ==
    \A i, j \in 1..Len(log) : i < j =>
        /\ log[i] # log[j]
        /\ \A a \in Ops(log[i]) : \A b \in Ops(log[j]) : SameRow(a, b) /\ Alive(b) => a < b

Lines == Readied /\ InKey /\ AcrossKeys /\ InLog

RowByRow == Store /\ Tidy /\ Lines

(* Filtering keeps the pairs of a sequence.                                *)
LEMMA KeepPaired ==
    ASSUME NEW A, NEW s \in Seq(A), NEW S, NEW R, Paired(s, R)
    PROVE  Paired(Keep(s, S), R)
<1> DEFINE I == {i \in DOMAIN s : s[i] \in S}
           o == InOrder(I)
           u == Keep(s, S)
<1>1. Len(s) \in Nat /\ DOMAIN s = 1..Len(s) /\ I \in SUBSET (1..Len(s))
  BY LenProperties
<1>2. o \in Seq(I) /\ Increasing(o)
  BY <1>1, InOrderFacts
<1>3. u = [k \in DOMAIN o |-> s[o[k]]]
  BY DEF Keep
<1>4. DOMAIN o = 1..Len(o) /\ Len(o) \in Nat /\ \A k \in 1..Len(o) : o[k] \in I
  BY <1>2, LenProperties
<1> HIDE DEF o
<1>5. u \in Seq(A)
  BY KeepFacts
<1>6. Len(u) = Len(o) /\ \A k \in 1..Len(o) : u[k] = s[o[k]]
  <2>1. DOMAIN u = 1..Len(o)
    BY <1>3, <1>4
  <2> HIDE DEF u
  <2>2. DOMAIN u = 1..Len(u) /\ Len(u) \in Nat
    BY <1>5, LenProperties
  <2>3. Len(u) = Len(o)
    BY <1>4, <2>1, <2>2
  <2>4. QED
    BY <1>3, <1>4, <2>3
<1> HIDE DEF u
<1>7. SUFFICES ASSUME NEW i \in 1..Len(u), NEW j \in 1..Len(u), i < j
               PROVE  <<u[i], u[j]>> \in R
  BY DEF Paired, u
<1>8. o[i] < o[j]
  BY <1>2, <1>6, <1>7 DEF Increasing
<1>9. o[i] \in 1..Len(s) /\ o[j] \in 1..Len(s) /\ u[i] = s[o[i]] /\ u[j] = s[o[j]]
  BY <1>1, <1>4, <1>6
<1>10. QED
  BY <1>8, <1>9 DEF Paired

(* Concatenation adds the pairs across.                                    *)
LEMMA ConcatPaired ==
    ASSUME NEW A, NEW s \in Seq(A), NEW t \in Seq(A), NEW R, Paired(s, R), Paired(t, R),
           \A x \in ToSet(s), y \in ToSet(t) : <<x, y>> \in R
    PROVE  Paired(s \o t, R)
<1> DEFINE u == s \o t
<1>1. /\ Len(u) = Len(s) + Len(t) /\ Len(s) \in Nat /\ Len(t) \in Nat
      /\ \A i \in 1..(Len(s) + Len(t)) : u[i] = IF i <= Len(s) THEN s[i] ELSE t[i - Len(s)]
  BY ConcatProperties, LenProperties
<1> HIDE DEF u
<1>2. SUFFICES ASSUME NEW i \in 1..Len(u), NEW j \in 1..Len(u), i < j
               PROVE  <<u[i], u[j]>> \in R
  BY DEF Paired, u
<1>3. CASE j <= Len(s)
  <2>1. i \in 1..Len(s) /\ j \in 1..Len(s) /\ u[i] = s[i] /\ u[j] = s[j]
    BY <1>1, <1>2, <1>3
  <2>2. QED
    BY <1>2, <2>1 DEF Paired
<1>4. CASE i <= Len(s) /\ ~(j <= Len(s))
  <2>1. i \in 1..Len(s) /\ u[i] = s[i]
    BY <1>1, <1>2, <1>4
  <2>2. PICK m \in 1..Len(t) : m = j - Len(s)
    BY <1>1, <1>2, <1>4
  <2>3. u[j] = t[m]
    BY <1>1, <1>2, <1>4, <2>2
  <2>4. s[i] \in ToSet(s) /\ t[m] \in ToSet(t)
    BY <2>1, ToSetIn
  <2>5. QED
    BY <2>1, <2>3, <2>4
<1>5. CASE ~(i <= Len(s)) /\ ~(j <= Len(s))
  <2>1. PICK m \in 1..Len(t) : m = i - Len(s)
    BY <1>1, <1>2, <1>5
  <2>2. PICK n \in 1..Len(t) : n = j - Len(s)
    BY <1>1, <1>2, <1>5
  <2>3. u[i] = t[m] /\ u[j] = t[n] /\ m < n
    BY <1>1, <1>2, <1>5, <2>1, <2>2
  <2>4. QED
    BY <2>3 DEF Paired
<1>6. QED
  BY <1>1, <1>2, <1>3, <1>4, <1>5

(* Reversing turns the pairs round.                                        *)
LEMMA ReversePaired ==
    ASSUME NEW A, NEW s \in Seq(A), NEW R,
           \A i, j \in 1..Len(s) : i < j => <<s[j], s[i]>> \in R
    PROVE  Paired(Reverse(s), R)
<1> DEFINE u == Reverse(s)
<1>1. Len(s) \in Nat
  OBVIOUS
<1>2. u = [i \in 1..Len(s) |-> s[(Len(s) - i) + 1]]
  BY DEF Reverse
<1>3. u \in Seq(A)
  BY ToSetReverse
<1>4. Len(u) = Len(s)
  <2>1. DOMAIN u = 1..Len(s)
    BY <1>2
  <2> HIDE DEF u
  <2>2. DOMAIN u = 1..Len(u) /\ Len(u) \in Nat
    BY <1>3, LenProperties
  <2>3. QED
    BY <1>1, <2>1, <2>2
<1> HIDE DEF u
<1>5. SUFFICES ASSUME NEW i \in 1..Len(u), NEW j \in 1..Len(u), i < j
               PROVE  <<u[i], u[j]>> \in R
  BY DEF Paired, u
<1>a. i \in 1..Len(s) /\ j \in 1..Len(s)
  BY <1>4
<1>6. PICK m \in 1..Len(s) : m = (Len(s) - i) + 1
  <2>1. (Len(s) - i) + 1 \in 1..Len(s)
    BY <1>1, <1>a
  <2>2. QED
    BY <2>1
<1>7. PICK n \in 1..Len(s) : n = (Len(s) - j) + 1
  <2>1. (Len(s) - j) + 1 \in 1..Len(s)
    BY <1>1, <1>a
  <2>2. QED
    BY <2>1
<1>8. n < m
  BY <1>1, <1>5, <1>6, <1>7
<1>9. u[i] = s[m] /\ u[j] = s[n]
  BY <1>2, <1>4, <1>6, <1>7
<1>10. QED
  BY <1>8, <1>9

(* The pairs of a sequence of writes that are in line.                     *)
LEMMA PairedLined ==
    ASSUME NEW T, NEW s \in Seq(TxIds)
    PROVE  Paired(s, Lined(T)) <=> \A i, j \in 1..Len(s) : i < j => InLine(T, s[i], s[j])
<1>1. \A a, b \in TxIds : <<a, b>> \in Lined(T) <=> InLine(T, a, b)
  BY DEF Lined
<1>2. \A i \in 1..Len(s) : s[i] \in TxIds
  BY ToSetIn
<1>3. QED
  BY <1>1, <1>2 DEF Paired

(* Writes enter the queue in line: the deletes at its head have no other   *)
(* write of their row before them, and the others follow what is queued.   *)
LEMMA EnqueueLined ==
    ASSUME NEW T, NEW q \in Seq(TxIds), NEW ts \in Seq(TxIds), Paired(q, Lined(T)),
           \A t \in ToSet(ts) : T[t].high => T[t].type = "delete",
           \A d, y \in ToSet(q) \cup ToSet(ts) :
             d # y /\ T[d].type = "delete" => InLine(T, d, y) /\ InLine(T, y, d),
           \A i, j \in 1..Len(ts) : i < j =>
             /\ InLine(T, ts[i], ts[j])
             /\ T[ts[i]].type = "delete" /\ T[ts[j]].type = "delete" => InLine(T, ts[j], ts[i]),
           \A x \in ToSet(ts), y \in ToSet(q) :
             x # y /\ T[x].type # "delete" /\ T[y].type # "delete" => InLine(T, y, x)
    PROVE  Paired(EnqueueAll(q, ts, T), Lined(T))
<1> DEFINE new  == Admitted(q, ts, T)
           high == {t \in new : T[t].high}
           hs   == Keep(ts, high)
           a    == Reverse(hs)
           b    == Keep(ts, new \ high)
           R    == {p \in TxIds \X TxIds :
                      T[p[1]].type = "delete" /\ T[p[2]].type = "delete" => InLine(T, p[2], p[1])}
<1>0. \A x, y \in TxIds :
        /\ <<x, y>> \in Lined(T) <=> InLine(T, x, y)
        /\ <<x, y>> \in R
           <=> (T[x].type = "delete" /\ T[y].type = "delete" => InLine(T, y, x))
  BY DEF Lined
<1>1. EnqueueAll(q, ts, T) = (a \o q) \o b
  BY Zenon DEF EnqueueAll
<1>2. /\ new \subseteq ToSet(ts) /\ new \cap ToSet(q) = {} /\ high \subseteq new
      /\ \A t \in high : T[t].high /\ T[t].type = "delete"
      /\ \A t \in new \ high : ~T[t].high
  BY ToSetIn DEF Admitted
<1> HIDE DEF new, high, R
<1>3. hs \in Seq(TxIds) /\ ToSet(hs) = ToSet(ts) \cap high
  BY KeepFacts
<1>4. b \in Seq(TxIds) /\ ToSet(b) = ToSet(ts) \cap (new \ high)
  BY KeepFacts
<1>5. ToSet(q) \subseteq TxIds /\ ToSet(ts) \subseteq TxIds /\ \A i \in 1..Len(ts) : ts[i] \in TxIds
  BY ToSetIn
<1>6. Paired(ts, Lined(T)) /\ Paired(ts, R)
  BY <1>0, <1>5 DEF Paired
<1>7. Paired(hs, R) /\ Paired(b, Lined(T))
  BY <1>6, KeepPaired
<1> HIDE DEF hs
<1>8. a \in Seq(TxIds) /\ ToSet(a) = ToSet(hs) /\ Paired(a, Lined(T))
  <2>1. ASSUME NEW i \in 1..Len(hs), NEW j \in 1..Len(hs), i < j PROVE <<hs[j], hs[i]>> \in Lined(T)
    <3>1. hs[i] \in TxIds /\ hs[j] \in TxIds /\ hs[i] \in ToSet(hs) /\ hs[j] \in ToSet(hs)
      BY <1>3, ToSetIn
    <3>2. T[hs[i]].type = "delete" /\ T[hs[j]].type = "delete"
      BY <1>2, <1>3, <3>1
    <3>3. <<hs[i], hs[j]>> \in R
      BY <1>7, <2>1 DEF Paired
    <3>4. QED
      BY <1>0, <3>1, <3>2, <3>3
  <2>2. QED
    BY <1>3, <2>1, ToSetReverse, ReversePaired
<1> HIDE DEF a, b
<1>9. ASSUME NEW x \in ToSet(a), NEW y \in ToSet(q) PROVE <<x, y>> \in Lined(T)
  <2>1. x \in ToSet(ts) /\ x # y /\ T[x].type = "delete"
    BY <1>2, <1>3, <1>8
  <2>2. InLine(T, x, y)
    BY <2>1
  <2>3. QED
    BY <1>0, <1>5, <2>1, <2>2
<1> DEFINE aq == a \o q
<1>10. aq \in Seq(TxIds) /\ ToSet(aq) = ToSet(a) \cup ToSet(q) /\ Paired(aq, Lined(T))
  BY <1>8, <1>9, ToSetConcat, ConcatPaired
<1> HIDE DEF aq
<1>11. ASSUME NEW x \in ToSet(aq), NEW y \in ToSet(b) PROVE <<x, y>> \in Lined(T)
  <2>1. y \in ToSet(ts) /\ y \notin ToSet(q) /\ ~T[y].high /\ y \in TxIds
    BY <1>2, <1>4, <1>5
  <2>2. x \in ToSet(q) \cup ToSet(ts) /\ x \in TxIds
    BY <1>3, <1>5, <1>8, <1>10
  <2>3. x # y
    BY <1>2, <1>3, <1>8, <1>10, <2>1
  <2>4. CASE T[x].type = "delete" \/ T[y].type = "delete"
    BY <1>0, <2>1, <2>2, <2>3, <2>4
  <2>5. CASE T[x].type # "delete" /\ T[y].type # "delete"
    <3>1. x \in ToSet(q)
      BY <1>2, <1>3, <1>8, <1>10, <2>5
    <3>2. QED
      BY <1>0, <2>1, <2>2, <2>3, <2>5, <3>1
  <2>6. QED
    BY <2>4, <2>5
<1>12. Paired(aq \o b, Lined(T))
  BY <1>4, <1>7, <1>10, <1>11, ConcatPaired
<1>13. QED
  BY <1>1, <1>12 DEF aq

(* Sorting by priority moves creates forward, which come first anyway.     *)
LEMMA SortLined ==
    ASSUME Core, Origins, NEW q \in Seq(TxIds), ToSet(q) \subseteq Issued, Paired(q, Lined(tx))
    PROVE  /\ SortByPriority(q, tx) \in Seq(TxIds) /\ Paired(SortByPriority(q, tx), Lined(tx))
<1> DEFINE P(n) == {t \in DOMAIN tx : PriorityScore(t, tx) = n}
<1>1. \A S : /\ Keep(q, S) \in Seq(TxIds) /\ ToSet(Keep(q, S)) = ToSet(q) \cap S
             /\ Paired(Keep(q, S), Lined(tx))
  BY KeepFacts, KeepPaired
<1>2. SortByPriority(q, tx) = (Keep(q, P(1)) \o Keep(q, P(2))) \o Keep(q, P(3))
  BY Zenon DEF SortByPriority
<1>3. \A t : tx[t].type # "create" => PriorityScore(t, tx) = 3
  BY DEF PriorityScore
<1>4. PICK A, B, C : A = P(1) /\ B = P(2) /\ C = P(3)
  OBVIOUS
<1>5. /\ \A t \in A \cup B : tx[t].type = "create"
      /\ A \cap B = {} /\ (A \cup B) \cap C = {}
  BY <1>3, <1>4
<1>6. \A x, y \in ToSet(q) : x \in A \cup B /\ x # y => <<x, y>> \in Lined(tx)
  <2>1. SUFFICES ASSUME NEW x \in ToSet(q), NEW y \in ToSet(q), x \in A \cup B, x # y
                 PROVE  <<x, y>> \in Lined(tx)
    OBVIOUS
  <2>2. x \in Issued /\ y \in Issued /\ x \in TxIds /\ y \in TxIds
    BY CorePlaces
  <2>3. tx[x].type = "create"
    BY <1>5, <2>1
  <2>4. SameRow(x, y) => x <= y
    BY <2>2, <2>3 DEF Origins, CreateOf, SameRow
  <2>5. x \in Nat /\ y \in Nat
    BY <2>2, QueueAssumption DEF TxIds
  <2>6. SameRow(x, y) => x < y
    BY <2>1, <2>4, <2>5
  <2>7. InLine(tx, x, y)
    BY <2>6 DEF InLine, SameRow
  <2>8. QED
    BY <2>2, <2>7 DEF Lined
<1>7. SortByPriority(q, tx) = (Keep(q, A) \o Keep(q, B)) \o Keep(q, C)
  BY <1>2, <1>4
<1> DEFINE creates == Keep(q, A) \o Keep(q, B)
<1>8. /\ creates \in Seq(TxIds) /\ Paired(creates, Lined(tx))
      /\ ToSet(creates) = (ToSet(q) \cap A) \cup (ToSet(q) \cap B)
  <2>1. ASSUME NEW x \in ToSet(Keep(q, A)), NEW y \in ToSet(Keep(q, B)) PROVE <<x, y>> \in Lined(tx)
    BY <1>1, <1>5, <1>6
  <2>2. QED
    BY <1>1, <2>1, ToSetConcat, ConcatPaired
<1> HIDE DEF creates
<1>9. ASSUME NEW x \in ToSet(creates), NEW y \in ToSet(Keep(q, C)) PROVE <<x, y>> \in Lined(tx)
  BY <1>1, <1>5, <1>6, <1>8
<1>10. creates \o Keep(q, C) \in Seq(TxIds) /\ Paired(creates \o Keep(q, C), Lined(tx))
  BY <1>1, <1>8, <1>9, ToSetConcat, ConcatPaired
<1>11. QED
  BY <1>7, <1>10 DEF creates

(* The selection: an eligible write is taken only together with the ones   *)
(* of its row that wait before it.                                         *)
LEMMA SelectsInLine ==
    ASSUME NEW T, NEW f \in Seq(TxIds), NEW i \in 1..Len(f), NEW j \in 1..Len(f), i < j,
           j \in Selected(f, T), T[f[i]].row = T[f[j]].row
    PROVE  i \in Selected(f, T)
<1> DEFINE S(m) == {n \in 1..m : T[f[n]].row = T[f[m]].row}
<1>1. \A m : m \in Selected(f, T) <=> /\ m \in Candidates(f, T)
                                      /\ S(m) = {m} \/ \A n \in S(m) : ~HasBarrier(f[n], T)
  BY DEF Selected
<1>2. Len(f) \in Nat /\ MaxBatch \in Nat
  BY MaxBatchAssumption
<1>3. i \in S(j) /\ i # j /\ S(i) \subseteq S(j)
  BY <1>2
<1>4. \A n \in S(j) : ~HasBarrier(f[n], T)
  BY <1>1, <1>3
<1>5. i \in Candidates(f, T)
  <2>1. j \in Candidates(f, T) /\ j # 1
    BY <1>1, <1>2
  <2>2. j <= MaxBatch /\ \A n \in 1..j : T[f[n]].opt # "keyed"
    BY <2>1 DEF Candidates
  <2>3. i <= MaxBatch /\ 1..i \subseteq 1..j
    BY <1>2, <2>2
  <2>4. QED
    BY <2>2, <2>3 DEF Candidates
<1>6. QED
  BY <1>1, <1>3, <1>4, <1>5

(* So a batch of fresh writes leaves none behind that it would overtake:   *)
(* a row with a write in flight, in backoff or not yet queued is not       *)
(* touched, and the ones without are taken in line.                        *)
LEMMA FreshFirst ==
    ASSUME Core, Store, batch = <<>>, NEW p \in Seq(TxIds), Paired(p, Lined(tx)),
           \A t \in ToSet(p) : t \in Issued /\ tx[t].status = "pending",
           NEW f, f = Fresh(p, tx), NEW b, b = Keep(f, {f[i] : i \in Selected(f, tx)})
    PROVE  First(b)
<1> DEFINE chosen == {f[i] : i \in Selected(f, tx)}
           free == {t \in DOMAIN tx : tx[t].env = 0 /\ tx[t].row \notin SealedRows(p, tx)}
<1>0. DOMAIN tx = TxIds /\ tx \in [TxIds -> TxType] /\ Issued \subseteq TxIds
  BY CorePlaces
<1>1. f = Keep(p, free)
  BY DEF Fresh
<1>2. \A t : t \in free <=> t \in TxIds /\ tx[t].env = 0 /\ tx[t].row \notin SealedRows(p, tx)
  BY <1>0
<1>3. \A i \in Selected(f, tx) : i \in 1..Len(f)
  BY DEF Selected, Candidates
<1>4. \A x : x \in chosen <=> \E i \in Selected(f, tx) : x = f[i]
  OBVIOUS
<1> HIDE DEF chosen, free
<1>5. f \in Seq(TxIds) /\ ToSet(f) = ToSet(p) \cap free /\ Paired(f, Lined(tx))
  BY <1>1, KeepFacts, KeepPaired
<1>6. b \in Seq(TxIds) /\ ToSet(b) = ToSet(f) \cap chosen /\ Paired(b, Lined(tx))
  BY <1>5, KeepFacts, KeepPaired DEF chosen
<1>7. \A t \in ToSet(f) : t \in Issued /\ Waiting(t)
  BY <1>2, <1>5 DEF Waiting
<1>8. ASSUME NEW s \in Seq(TxIds), Paired(s, Lined(tx)), ToSet(s) \subseteq ToSet(f),
             NEW i \in 1..Len(s), NEW j \in 1..Len(s), i < j, SameRow(s[i], s[j])
      PROVE  s[i] < s[j]
  <2>1. InLine(tx, s[i], s[j])
    BY <1>8, PairedLined
  <2>2. s[i] \in ToSet(f) /\ s[j] \in ToSet(f)
    BY <1>8, ToSetIn
  <2>3. QED
    BY <1>7, <1>8, <2>1, <2>2 DEF InLine, Waiting, SameRow
<1>9. \A i, j \in 1..Len(b) : i < j /\ SameRow(b[i], b[j]) => b[i] < b[j]
  BY <1>6, <1>8
<1>10. ASSUME NEW t \in ToSet(b), NEW a \in Issued, a < t, SameRow(a, t), Alive(a)
       PROVE  a \in ToSet(b) \/ Known(a)
  <2>1. t \in ToSet(f) /\ t \in Issued /\ Waiting(t) /\ t \in free
    BY <1>5, <1>6, <1>7
  <2>2. tx[a].row \notin SealedRows(p, tx)
    BY <1>2, <1>10, <2>1 DEF SameRow
  <2>3. /\ ~(tx[a].env # 0 /\ tx[a].status \in {"pending", "executing"})
        /\ tx[a].status = "pending" => Contains(p, a)
    BY <1>0, <2>2 DEF SealedRows
  <2>4. tx[a].status \in Statuses \ {"none", "failed", "rolled_back", "gone"}
    <3>1. ToSet(batch) = {}
      BY DEF ToSet
    <3>2. tx[a].status \in Statuses /\ tx[a].status # "none" /\ tx[a].status # "gone"
      BY <1>0 DEF Issued, TxType, Store, Labels
    <3>3. QED
      BY <1>10, <3>1, <3>2 DEF Alive
  <2>5. CASE tx[a].env # 0
    <3>1. tx[a].status \in {"awaiting_delta", "completed"}
      BY <2>3, <2>4, <2>5 DEF Statuses
    <3>2. QED
      BY <2>5, <3>1 DEF Store, Labels
  <2>6. CASE tx[a].env = 0 /\ tx[a].status # "pending"
    <3>1. tx[a].type = "delete" /\ tx[a].status = "completed"
      BY <2>4, <2>6 DEF Store, Labels, Statuses
    <3>2. tx[a].status = "failed"
      BY <1>10, <2>1, <3>1 DEF Store, Endings
    <3>3. QED
      BY <3>1, <3>2
  <2>7. CASE tx[a].env = 0 /\ tx[a].status = "pending"
    <3>1. a \in ToSet(f)
      <4>1. a \in ToSet(p)
        BY <2>3, <2>7, ToSetIn
      <4>2. QED
        BY <1>0, <1>2, <1>5, <2>2, <2>7, <4>1
    <3>2. PICK i \in 1..Len(f) : f[i] = a
      BY <1>5, <3>1, ToSetIn
    <3>3. PICK j \in Selected(f, tx) : f[j] = t
      BY <1>4, <1>6
    <3>4. j \in 1..Len(f) /\ Len(f) \in Nat /\ a \in Nat /\ t \in Nat
      BY <1>0, <1>3, <1>5, <2>1, QueueAssumption DEF TxIds
    <3>5. SameRow(f[j], f[i])
      BY <1>10, <3>2, <3>3 DEF SameRow
    <3>6. ~(j < i)
      <4>1. j < i => f[j] < f[i]
        BY <1>5, <1>8, <3>4, <3>5
      <4>2. QED
        BY <1>10, <3>2, <3>3, <3>4, <4>1
    <3>7. i < j
      BY <1>10, <3>2, <3>3, <3>4, <3>6
    <3>8. i \in Selected(f, tx)
      BY <1>5, <3>4, <3>5, <3>7, SelectsInLine DEF SameRow
    <3>9. QED
      BY <1>4, <1>6, <3>1, <3>2, <3>8
  <2>8. QED
    BY <2>5, <2>6, <2>7
<1>11. QED
  BY <1>9, <1>10 DEF First

(* The start of a batch keeps the queue in line and takes a first batch.   *)
LEMMA StartBatchFirst ==
    ASSUME Core, Store, Tidy, StartBatch
    PROVE  /\ Paired(queue', Lined(tx))
           /\ \E b : b = batch' /\ (phase' = "preparing" /\ tx[b[1]].env = 0 => First(b))
<1>1. batch = <<>> /\ ToSet(queue) \subseteq Issued /\ queue \in Seq(TxIds) /\ DOMAIN tx = TxIds
  BY CorePlaces DEF StartBatch, ControlTyped
<1>2. CASE blocked \/ queue = <<>>
  <2>1. queue' = queue /\ phase' # "preparing"
    BY <1>2 DEF StartBatch
  <2>2. QED
    BY <2>1 DEF Tidy
<1>3. CASE ~(blocked \/ queue = <<>>)
  <2> DEFINE s == SortByPriority(queue, tx)
             p == Pending(s, tx)
             f == Fresh(p, tx)
             b == TakeNextBatch(p, f, tx, envelope)
  <2>1. batch' = b /\ queue' = Remaining(p, tx, b) /\ phase' = IF b = <<>> THEN "idle" ELSE "preparing"
    BY <1>3, Zenon DEF StartBatch
  <2>2. p \in Seq(TxIds) /\ ToSet(p) = {t \in ToSet(queue) : tx[t].status = "pending"}
    BY <1>1, PendingFacts
  <2>3. s \in Seq(TxIds) /\ Paired(s, Lined(tx))
    BY <1>1, SortLined DEF Store, Tidy
  <2> HIDE DEF s
  <2>4. Paired(p, Lined(tx))
    BY <2>3, KeepPaired DEF Pending
  <2> HIDE DEF p
  <2>5. f = Fresh(p, tx) /\ b = TakeNextBatch(p, f, tx, envelope) /\ TypeOK /\ Groups
    BY DEF Core
  <2>6. Paired(queue', Lined(tx))
    BY <2>1, <2>2, <2>4, KeepPaired DEF Remaining
  <2> HIDE DEF f, b
  <2>7. \/ CompleteRetries(p, tx, envelope) = {}
        \/ /\ b \in Seq(TxIds)
           /\ \E k \in DOMAIN envelope :
                 k # 0 /\ b = envelope[k].ops /\ \A t \in ToSet(b) : tx[t].env = k
    BY <2>2, <2>5, SelectionFacts
  <2>8. CASE CompleteRetries(p, tx, envelope) = {}
    <3>1. b = Keep(f, {f[i] : i \in Selected(f, tx)})
      BY <2>5, <2>8 DEF TakeNextBatch
    <3>2. \A t \in ToSet(p) : t \in Issued /\ tx[t].status = "pending"
      BY <1>1, <2>2
    <3>3. First(b)
      BY <1>1, <2>2, <2>4, <2>5, <3>1, <3>2, FreshFirst
    <3>4. QED
      BY <2>1, <2>6, <3>3
  <2>9. ASSUME b \in Seq(TxIds), NEW k \in DOMAIN envelope, k # 0, \A t \in ToSet(b) : tx[t].env = k
        PROVE  phase' = "preparing" => tx[b[1]].env # 0
    <3>1. phase' = "preparing" => b # <<>>
      BY <2>1
    <3>2. b # <<>> => b[1] \in ToSet(b)
      BY <2>9, EmptySeq, ToSetIn
    <3>3. QED
      BY <2>9, <3>1, <3>2
  <2>10. QED
    BY <2>1, <2>6, <2>7, <2>8, <2>9
<1>4. QED
  BY <1>2, <1>3

(* A step that mints no key for the write: it does not begin to wait again *)
(* nor come back to life, and is confirmed only under a decided key.       *)
Onward(t) ==
    /\ WriteKept(t) /\ tx'[t].env = tx[t].env /\ tx'[t].high = tx[t].high
    /\ Waiting(t)' => Waiting(t) /\ tx'[t].attempts = tx[t].attempts
    /\ Alive(t)' => Alive(t)
    /\ tx[t].status = "failed" => tx'[t].status = "failed"
    /\ tx'[t].status = "executing" => tx[t].status = "executing" \/ tx[t].env # 0
    /\ tx'[t].status = "awaiting_delta" => tx[t].status = "awaiting_delta" \/ Known(t)
    /\ tx'[t].status = "completed" => tx[t].status \in {"awaiting_delta", "completed"} \/ Known(t)
    /\ tx'[t].status = "rolled_back" => tx[t].status = "rolled_back" \/ tx[t].type # "delete"
    /\ tx'[t].status = "gone" => tx[t].status = "gone"

SameKeys ==
    /\ DOMAIN envelope' = DOMAIN envelope
    /\ \A k \in DOMAIN envelope : envelope'[k].ops = envelope[k].ops

(* What is decided stays decided.                                          *)
LEMMA KnownStays ==
    ASSUME Core, HistoryGrows, NEW t \in Issued, tx'[t].env = tx[t].env, Known(t)
    PROVE  Known(t)'
<1>1. tx[t] \in TxType
  BY CorePlaces
<1>2. tx[t].env \in Keys
  BY <1>1 DEF TxType, Known
<1>3. QED
  BY <1>2 DEF Known, HistoryGrows

(* Such steps keep the facts about the store.                              *)
LEMMA StoreOnward ==
    ASSUME Core, HistoryGrows, Store, Issued' = Issued, Live' = Live, SameKeys,
           \A t \in Issued : Onward(t),
           \A g \in backoff' : \A t \in ToSet(g) : t \in Issued /\ tx[t].env # 0
    PROVE  Store'
<1>1. \A t \in Issued : tx'[t].type = tx[t].type /\ tx'[t].row = tx[t].row
  BY DEF Onward, WriteKept, Issued
<1>2. \A c, r : CreateOf(c, r)' <=> CreateOf(c, r)
  BY <1>1 DEF CreateOf
<1>3. Live \subseteq Issued
  BY DEF Core, SourcesGood, Live
<1>4. Origins'
  <2>1. SUFFICES ASSUME NEW t \in Issued
                 PROVE  /\ tx'[t].type \in {"create", "update", "delete"}
                        /\ tx'[t].high => tx'[t].type = "delete"
                        /\ tx'[t].row \in NewRows => \E c : CreateOf(c, tx[t].row)'
                        /\ \A c : CreateOf(c, tx[t].row)' => c <= t
    BY DEF Origins
  <2>2. /\ tx[t].type \in {"create", "update", "delete"}
        /\ tx[t].high => tx[t].type = "delete"
        /\ tx[t].row \in NewRows => \E c : CreateOf(c, tx[t].row)
        /\ \A c : CreateOf(c, tx[t].row) => c <= t
    BY DEF Store, Origins
  <2>3. tx'[t].high = tx[t].high /\ tx'[t].type = tx[t].type /\ tx'[t].row = tx[t].row
    BY <1>1 DEF Onward
  <2>4. \A c : CreateOf(c, tx[t].row)' <=> CreateOf(c, tx[t].row)
    BY <1>1, <2>3 DEF CreateOf
  <2>5. QED
    BY <2>2, <2>3, <2>4
<1>5. Endings'
  <2>1. \A a, b \in Issued : SameRow(a, b)' => SameRow(a, b)
    BY <1>1 DEF SameRow
  <2>2. \A t \in Issued : Waiting(t)' => Waiting(t)
    BY DEF Onward
  <2>3. \A t \in Issued : tx[t].status = "failed" => tx'[t].status = "failed"
    BY DEF Onward
  <2>4. \A d, t \in Issued : tx'[d].type = "delete" /\ SameRow(d, t)' /\ d < t => tx'[d].status = "failed"
    BY <1>1, <2>1, <2>3 DEF Store, Endings
  <2>5. \A d \in Live : \A t \in Issued :
          tx'[d].type = "delete" /\ SameRow(d, t)' /\ t < d => ~Waiting(t)'
    BY <1>1, <1>3, <2>1, <2>2 DEF Store, Endings
  <2>6. QED
    BY <2>4, <2>5 DEF Endings
<1>6. Labels'
  <2>1. ASSUME NEW t \in Issued
        PROVE  /\ tx'[t].env = 0 => /\ tx'[t].status \notin {"executing", "awaiting_delta"}
                                    /\ tx'[t].status = "completed" => tx'[t].type = "delete"
                                    /\ tx'[t].status = "pending" => tx'[t].attempts = 0
               /\ tx'[t].env # 0 /\ tx'[t].status \in {"awaiting_delta", "completed"} => Known(t)'
               /\ tx'[t].type = "delete" => tx'[t].status # "rolled_back"
               /\ tx'[t].status # "gone"
    <3>1. Onward(t) /\ tx'[t].type = tx[t].type
      BY <1>1
    <3>2. tx'[t].env = 0 => /\ tx'[t].status \notin {"executing", "awaiting_delta"}
                            /\ tx'[t].status = "completed" => tx'[t].type = "delete"
      BY <3>1 DEF Onward, Store, Labels, Known
    <3>3. tx'[t].env = 0 /\ tx'[t].status = "pending" => tx'[t].attempts = 0
      BY <3>1 DEF Onward, Store, Labels, Waiting
    <3>4. tx'[t].env # 0 /\ tx'[t].status \in {"awaiting_delta", "completed"} => Known(t)
      BY <3>1 DEF Onward, Store, Labels
    <3>5. Known(t) => Known(t)'
      BY <3>1, KnownStays DEF Onward
    <3>6. tx'[t].type = "delete" => tx'[t].status # "rolled_back"
      BY <3>1 DEF Onward, Store, Labels
    <3>7. tx'[t].status # "gone"
      BY <3>1 DEF Onward, Store, Labels
    <3>8. QED
      BY <3>2, <3>3, <3>4, <3>5, <3>6, <3>7
  <2>2. \A g \in backoff' : \A t \in ToSet(g) : tx'[t].env # 0
    BY DEF Onward
  <2>3. QED
    BY <2>1, <2>2 DEF Labels
<1>7. Keyed'
  <2>1. SUFFICES ASSUME NEW k \in DOMAIN envelope, NEW t \in Ops(k)
                 PROVE  tx'[t].env = k
    BY DEF Keyed, SameKeys, Ops
  <2>2. t \in Issued /\ tx[t].env = k
    BY DEF Store, Keyed, Core, Envelopes, Live, SourcesGood
  <2>3. QED
    BY <2>2 DEF Onward
<1>8. QED
  BY <1>4, <1>5, <1>6, <1>7 DEF Store

(* The operations of a key are issued writes.                              *)
LEMMA OpsIssued ==
    ASSUME Core, NEW k \in DOMAIN envelope
    PROVE  /\ envelope[k].ops \in Seq(TxIds) /\ Ops(k) \subseteq Issued
           /\ \A i \in 1..Len(envelope[k].ops) : envelope[k].ops[i] \in Issued /\ envelope[k].ops[i] \in Ops(k)
<1>1. envelope[k].ops \in Seq(TxIds)
  BY TypeParts, EnvelopeIn DEF Core
<1>2. Ops(k) \subseteq Issued
  BY DEF Core, Envelopes, Live, SourcesGood
<1>3. QED
  BY <1>1, <1>2, ToSetIn DEF Ops

(* And the order of what has a key.                                        *)
LEMMA KeysOnward ==
    ASSUME Core, HistoryGrows, Lines, Issued' = Issued, SameKeys, \A t \in Issued : Onward(t)
    PROVE  InKey' /\ AcrossKeys'
<1>1. \A a, b \in Issued : SameRow(a, b)' => SameRow(a, b)
  BY DEF SameRow, Onward, WriteKept, Issued
<1>2. \A k \in DOMAIN envelope : \A i \in 1..Len(envelope[k].ops) : envelope[k].ops[i] \in Issued
  BY OpsIssued
<1>3. InKey'
  BY <1>1, <1>2 DEF Lines, InKey, SameKeys, Onward
<1>4. AcrossKeys'
  <2>1. SUFFICES ASSUME NEW a \in Issued, NEW b \in Issued, a < b, SameRow(a, b)', tx'[b].env # 0, Alive(a)'
                 PROVE  tx'[a].env = tx'[b].env \/ Known(a)'
    BY DEF AcrossKeys
  <2>2. Onward(a) /\ Onward(b)
    OBVIOUS
  <2>3. tx[a].env = tx[b].env \/ Known(a)
    BY <1>1, <2>1, <2>2 DEF Lines, AcrossKeys, Onward
  <2>4. QED
    BY <2>2, <2>3, KnownStays DEF Onward
<1>5. QED
  BY <1>3, <1>4

(* And of the log.                                                         *)
LEMMA LogOnward ==
    ASSUME Core, Lines, log' = log,
           \A k \in DOMAIN envelope : envelope'[k].ops = envelope[k].ops,
           \A t \in Issued : /\ WriteKept(t) /\ (Alive(t)' => Alive(t))
    PROVE  InLog'
<1>1. \A a, b \in Issued : SameRow(a, b)' => SameRow(a, b)
  BY DEF SameRow, WriteKept, Issued
<1>2. SUFFICES ASSUME NEW i \in 1..Len(log), NEW j \in 1..Len(log), i < j
               PROVE  /\ log[i] # log[j]
                      /\ \A a \in Ops(log[i])' : \A b \in Ops(log[j])' : SameRow(a, b)' /\ Alive(b)' => a < b
  BY DEF InLog, Ops
<1>3. log[i] \in DOMAIN envelope /\ log[j] \in DOMAIN envelope
  BY CorePlaces, TypeParts, ToSetIn DEF Core, StorageTyped
<1>4. Ops(log[i])' = Ops(log[i]) /\ Ops(log[j])' = Ops(log[j])
  BY <1>3 DEF Ops
<1>5. Ops(log[i]) \subseteq Issued /\ Ops(log[j]) \subseteq Issued
  BY <1>3, OpsIssued
<1>6. QED
  BY <1>1, <1>2, <1>4, <1>5 DEF Lines, InLog

(* Together.                                                               *)
LEMMA LinesOnward ==
    ASSUME Core, HistoryGrows, Lines, Issued' = Issued, SameKeys, log' = log,
           \A t \in Issued : Onward(t), Readied'
    PROVE  Lines'
<1>1. InKey' /\ AcrossKeys'
  BY KeysOnward
<1>2. InLog'
  BY LogOnward DEF SameKeys, Onward
<1>3. QED
  BY <1>1, <1>2 DEF Lines

(* A batch that is being prepared stays first.                             *)
LEMMA ReadiedOnward ==
    ASSUME Core, HistoryGrows, Readied, Issued' = Issued, \A t \in Issued : Onward(t),
           batch' = batch, phase' = phase
    PROVE  Readied'
<1>1. SUFFICES ASSUME phase = "preparing", Key' = 0 PROVE First(batch)'
  BY DEF Readied
<1>2. batch # <<>> /\ batch \in Seq(TxIds) /\ batch[1] \in ToSet(batch) /\ ToSet(batch) \subseteq Issued
  BY <1>1, BatchHead, CorePlaces
<1>3. First(batch)
  <2>1. tx'[batch[1]].env = tx[batch[1]].env
    BY <1>2 DEF Onward
  <2>2. Key = 0
    BY <1>1, <2>1 DEF Key
  <2>3. QED
    BY <1>1, <2>2 DEF Readied
<1>4. \A a, b \in Issued : SameRow(a, b)' => SameRow(a, b)
  BY DEF SameRow, Onward, WriteKept, Issued
<1>5. \A i, j \in 1..Len(batch) : i < j /\ SameRow(batch[i], batch[j])' => batch[i] < batch[j]
  <2>1. \A i \in 1..Len(batch) : batch[i] \in Issued
    BY <1>2, ToSetIn
  <2>2. QED
    BY <1>3, <1>4, <2>1 DEF First
<1>6. ASSUME NEW t \in ToSet(batch), NEW a \in Issued, a < t, SameRow(a, t)', Alive(a)'
      PROVE  a \in ToSet(batch) \/ Known(a)'
  <2>1. Alive(a) /\ SameRow(a, t) /\ tx'[a].env = tx[a].env
    BY <1>2, <1>4, <1>6 DEF Onward
  <2>2. a \in ToSet(batch) \/ Known(a)
    BY <1>3, <1>6, <2>1 DEF First
  <2>3. QED
    BY <2>1, <2>2, KnownStays
<1>7. QED
  BY <1>5, <1>6 DEF First

(* Writes in line stay in line.                                            *)
LEMMA LinedOnward ==
    ASSUME Core, \A t \in Issued : Onward(t), NEW s \in Seq(TxIds), ToSet(s) \subseteq Issued,
           Paired(s, Lined(tx))
    PROVE  Paired(s, Lined(tx'))
<1>1. \A i \in 1..Len(s) : s[i] \in Issued
  BY ToSetIn
<1>2. \A t \in Issued : /\ Waiting(t)' => Waiting(t)
                        /\ tx'[t].row = tx[t].row
  BY DEF Onward, WriteKept, Issued
<1>3. ASSUME NEW a \in Issued, NEW b \in Issued, InLine(tx, a, b) PROVE InLine(tx', a, b)
  BY <1>2, <1>3 DEF InLine, Waiting
<1>4. \A i, j \in 1..Len(s) : i < j => InLine(tx, s[i], s[j])
  BY PairedLined
<1>5. \A i, j \in 1..Len(s) : i < j => InLine(tx', s[i], s[j])
  BY <1>1, <1>3, <1>4
<1>6. QED
  BY <1>5, PairedLined

(* A delete and another write of its row never both wait.                  *)
LEMMA DeletesAlone ==
    ASSUME Core, Endings, NEW d \in Live, NEW y \in Issued, d # y, tx[d].type = "delete"
    PROVE  InLine(tx, d, y) /\ InLine(tx, y, d)
<1>1. d \in Issued /\ d \in Nat /\ y \in Nat
  BY CorePlaces, QueueAssumption DEF Core, SourcesGood, Live, TxIds
<1>2. SameRow(d, y) /\ d < y => ~Waiting(d)
  BY <1>1 DEF Endings, Waiting
<1>3. SameRow(d, y) /\ y < d => ~Waiting(y)
  BY DEF Endings
<1>4. ~(SameRow(d, y) /\ Waiting(d) /\ Waiting(y))
  BY <1>1, <1>2, <1>3
<1>5. QED
  BY <1>4 DEF InLine, Waiting, SameRow

(* Steps that queue only deletes, or writes that have a key.               *)
LEMMA TidyKept ==
    ASSUME Core, Tidy, Issued' = Issued, \A t \in Issued : Onward(t),
           Increasing(saving'), Increasing(staged'), ToSet(saving') \subseteq ToSet(saving),
           ToSet(staged') \subseteq ToSet(staged), parked' \subseteq parked,
           ToSet(queue') \subseteq Issued,
           \A a \in ToSet(queue') : \/ a \in ToSet(queue)
                                    \/ tx[a].type = "delete"
                                    \/ ~Waiting(a),
           Paired(queue', Lined(tx'))
    PROVE  Tidy'
<1>1. \A t \in Issued : tx'[t].type = tx[t].type /\ (Waiting(t)' => Waiting(t))
  BY DEF Onward, WriteKept, Issued
<1>2. \A a \in ToSet(staged') : \A b \in ToSet(saving') : a < b
  BY DEF Tidy
<1>3. \A a \in ToSet(queue') : \A b \in ToSet(staged') \cup ToSet(saving') :
        Waiting(a)' /\ tx'[a].type # "delete" => a < b
  BY <1>1 DEF Tidy
<1>4. \A d \in parked' : tx'[d].type = "delete"
  BY <1>1, CorePlaces DEF Tidy
<1>5. QED
  BY <1>2, <1>3, <1>4 DEF Tidy

(* Steps that leave the places alone.                                      *)
LEMMA TidyIdle ==
    ASSUME Core, Tidy, Issued' = Issued, \A t \in Issued : Onward(t),
           UNCHANGED <<saving, staged, queue, parked>>
    PROVE  Tidy'
<1>1. queue \in Seq(TxIds) /\ ToSet(queue) \subseteq Issued
  BY CorePlaces
<1>2. Paired(queue', Lined(tx'))
  BY <1>1, LinedOnward DEF Tidy
<1>3. QED
  BY <1>1, <1>2, TidyKept DEF Tidy

(* Steps that release parked deletes.                                      *)
LEMMA ReleaseTidy ==
    ASSUME Core, Store, Tidy, Issued' = Issued, \A t \in Issued : Onward(t),
           Increasing(saving'), ToSet(saving') \subseteq ToSet(saving), staged' = staged,
           NEW R \in SUBSET parked, parked' = parked \ R, queue' = EnqueueAll(queue, InOrder(R), tx')
    PROVE  Tidy'
<1> DEFINE ts == InOrder(R)
<1>0. /\ parked \subseteq Issued /\ Issued \subseteq TxIds /\ saved \subseteq Live /\ Live \subseteq Issued
      /\ parked \subseteq Live /\ ToSet(queue) \subseteq Live /\ queue \in Seq(TxIds) /\ MaxTx \in Nat
  BY CorePlaces, QueueAssumption DEF Core, Homes, SourcesGood, Live
<1>1. ts \in Seq(TxIds) /\ ToSet(ts) = R /\ Increasing(ts)
  <2>1. R \in SUBSET (1..MaxTx)
    BY <1>0 DEF TxIds
  <2>2. ts \in Seq(R) /\ ToSet(ts) = R /\ Increasing(ts)
    BY <1>0, <2>1, InOrderFacts
  <2> HIDE DEF ts
  <2>3. Seq(R) \subseteq Seq(TxIds)
    BY <1>0
  <2>4. QED
    BY <2>2, <2>3
<1> HIDE DEF ts
<1>2. \A t \in Issued : tx'[t].type = tx[t].type
  BY DEF Onward, WriteKept, Issued
<1>3. \A t \in R : tx[t].type = "delete" /\ tx'[t].type = "delete" /\ t \in Live /\ t \in Issued
  BY <1>0, <1>2 DEF Tidy
<1>4. \A t \in Issued : (Waiting(t)' => Waiting(t)) /\ tx'[t].row = tx[t].row
  BY DEF Onward, WriteKept, Issued
<1>5. ASSUME NEW d \in Live, NEW y \in Issued, d # y, tx[d].type = "delete"
      PROVE  InLine(tx', d, y) /\ InLine(tx', y, d)
  <2>1. InLine(tx, d, y) /\ InLine(tx, y, d)
    BY <1>5, DeletesAlone DEF Store
  <2>2. QED
    BY <1>0, <1>4, <2>1 DEF InLine, Waiting
<1>6. Paired(queue, Lined(tx'))
  BY <1>0, LinedOnward DEF Tidy
<1>7. \A d, y \in ToSet(queue) \cup ToSet(ts) :
        d # y /\ tx'[d].type = "delete" => InLine(tx', d, y) /\ InLine(tx', y, d)
  BY <1>0, <1>1, <1>2, <1>3, <1>5
<1>8. \A i, j \in 1..Len(ts) : i < j => InLine(tx', ts[i], ts[j]) /\ InLine(tx', ts[j], ts[i])
  <2>1. SUFFICES ASSUME NEW i \in 1..Len(ts), NEW j \in 1..Len(ts), i < j
                 PROVE  InLine(tx', ts[i], ts[j]) /\ InLine(tx', ts[j], ts[i])
    OBVIOUS
  <2>2. ts[i] \in R /\ ts[j] \in R /\ ts[i] < ts[j]
    BY <1>1, <2>1, ToSetIn DEF Increasing
  <2>3. ts[i] # ts[j]
    <3>1. ts[i] \in TxIds /\ ts[j] \in TxIds
      BY <1>1, ToSetIn
    <3>2. QED
      BY <2>2, <3>1 DEF TxIds
  <2>4. PICK x, y : x = ts[i] /\ y = ts[j]
    OBVIOUS
  <2>5. x \in Live /\ y \in Issued /\ x # y /\ tx[x].type = "delete"
    BY <1>3, <2>2, <2>3, <2>4
  <2>6. QED
    BY <1>5, <2>4, <2>5
<1>9. Paired(queue', Lined(tx'))
  BY <1>0, <1>1, <1>3, <1>6, <1>7, <1>8, EnqueueLined DEF ts
<1>10. \A x : x \in ToSet(queue') => x \in ToSet(queue) \/ x \in R
  BY <1>0, <1>1, EnqueueAllFacts DEF ts
<1>11. QED
  BY <1>0, <1>3, <1>9, <1>10, TidyKept DEF Tidy

(* Steps that leave the places alone.                                      *)
LEMMA SteadyRowByRow ==
    ASSUME Core, HistoryGrows, RowByRow, SameKeys, log' = log,
           Issued' = Issued, \A t \in Issued : Onward(t),
           UNCHANGED <<sources, saving, staged, queue, parked, backoff, batch>>,
           phase' = phase \/ phase' # "preparing"
    PROVE  RowByRow'
<1>1. Live' = Live
  BY DEF Live
<1>2. \A g \in backoff' : \A t \in ToSet(g) : t \in Issued /\ tx[t].env # 0
  BY CorePlaces DEF RowByRow, Store, Labels
<1>3. Store'
  BY <1>1, <1>2, StoreOnward DEF RowByRow
<1>4. Tidy'
  BY TidyIdle DEF RowByRow
<1>5. Readied'
  <2>1. CASE phase' = phase
    BY <2>1, ReadiedOnward DEF RowByRow, Lines
  <2>2. CASE phase' # "preparing"
    BY <2>2 DEF Readied
  <2>3. QED
    BY <2>1, <2>2
<1>6. QED
  BY <1>3, <1>4, <1>5, LinesOnward DEF RowByRow

(* Steps that leave the store alone, too.                                  *)
LEMMA IdleRowByRow ==
    ASSUME Core, HistoryGrows, RowByRow, SameKeys, log' = log,
           UNCHANGED <<tx, sources, saving, staged, queue, parked, backoff, batch>>,
           phase' = phase \/ phase' # "preparing"
    PROVE  RowByRow'
<1>1. Issued' = Issued
  BY DEF Issued
<1>2. \A t \in Issued : Onward(t)
  BY DEF Onward, WriteKept, Waiting, Alive
<1>3. QED
  BY <1>1, <1>2, SteadyRowByRow

(* The server decides a key: the writes of its rows that came before are   *)
(* decided, so it goes to the end of the log in order.                     *)
LEMMA DecideRowByRow ==
    ASSUME Core, HistoryGrows, RowByRow, NEW k \in Keys, NEW reply \in Replies, ServerDecides(k, reply)
    PROVE  RowByRow'
<1>1. /\ UNCHANGED <<tx, sources, saving, staged, queue, parked, backoff, batch, phase, envelope>>
      /\ \/ log' = log
         \/ log' = Append(log, k)
      /\ k \in wire /\ verdict[k] = "none"
  BY DEF ServerDecides, memory, runner, storage
<1>2. Issued' = Issued /\ Live' = Live /\ SameKeys
  BY <1>1 DEF Issued, Live, SameKeys
<1>3. \A t \in Issued : Onward(t)
  BY <1>1 DEF Onward, WriteKept, Waiting, Alive
<1>4. \A g \in backoff' : \A t \in ToSet(g) : t \in Issued /\ tx[t].env # 0
  BY <1>1, CorePlaces DEF RowByRow, Store, Labels
<1>5. Store' /\ Tidy' /\ Readied' /\ InKey' /\ AcrossKeys'
  BY <1>1, <1>2, <1>3, <1>4, StoreOnward, TidyIdle, ReadiedOnward, KeysOnward DEF RowByRow, Lines
<1>6. CASE log' = log
  BY <1>2, <1>3, <1>5, <1>6, LinesOnward DEF RowByRow
<1>7. CASE log' = Append(log, k)
  <2>1. log \in Seq(Keys) /\ Len(log) \in Nat /\ k \in DOMAIN envelope
    BY <1>1, CorePlaces, TypeParts DEF Core, StorageTyped
  <2>2. /\ Len(log') = Len(log) + 1 /\ log'[Len(log) + 1] = k
        /\ \A i \in 1..Len(log) : log'[i] = log[i]
    BY <1>7, <2>1, AppendProperties
  <2>3. \A l : Ops(l)' = Ops(l)
    BY <1>1 DEF Ops
  <2>4. \A a, b : SameRow(a, b)' = SameRow(a, b)
    BY <1>1 DEF SameRow
  <2>5. \A t : Alive(t)' = Alive(t)
    BY <1>1 DEF Alive
  <2>6. ASSUME NEW i \in 1..Len(log)
        PROVE  /\ log[i] # k
               /\ \A a \in Ops(log[i]) : \A b \in Ops(k) : SameRow(a, b) /\ Alive(b) => a < b
    <3>1. log[i] \in Keys /\ log[i] \in ToSet(log) /\ log[i] \in DOMAIN envelope
      BY <2>1, ToSetIn, TypeParts DEF Core, StorageTyped
    <3>2. verdict[log[i]] \in Accepting
      BY <3>1 DEF Core, Ledger
    <3>3. log[i] # k
      BY <1>1, <3>2 DEF Accepting
    <3>4. ASSUME NEW a \in Ops(log[i]), NEW b \in Ops(k), SameRow(a, b), Alive(b) PROVE a < b
      <4>1. a \in Issued /\ b \in Issued /\ tx[a].env = log[i] /\ tx[b].env = k
        BY <2>1, <3>1, OpsIssued DEF RowByRow, Store, Keyed
      <4>2. a \in Nat /\ b \in Nat /\ a # b /\ log[i] # 0
        <5>1. a \in TxIds /\ b \in TxIds
          BY <4>1, CorePlaces
        <5>2. a \in Nat /\ b \in Nat
          BY <5>1, QueueAssumption DEF TxIds
        <5>3. log[i] # 0
          BY <3>1 DEF Keys
        <5>4. QED
          BY <3>3, <4>1, <5>2, <5>3
      <4>3. ~Known(b)
        BY <1>1, <4>1 DEF Known
      <4>4. ~(b < a)
        BY <3>3, <3>4, <4>1, <4>2, <4>3 DEF RowByRow, Lines, AcrossKeys, SameRow
      <4>5. QED
        BY <4>2, <4>4
    <3>5. QED
      BY <3>3, <3>4
  <2>7. InLog'
    <3>1. SUFFICES ASSUME NEW i \in 1..Len(log'), NEW j \in 1..Len(log'), i < j
                   PROVE  /\ log'[i] # log'[j]
                          /\ \A a \in Ops(log'[i]) : \A b \in Ops(log'[j]) :
                               SameRow(a, b) /\ Alive(b) => a < b
      <4>1. \A i : Ops(log[i])' = Ops(log'[i])
        BY <1>1 DEF Ops
      <4>2. QED
        BY <2>4, <2>5, <4>1 DEF InLog
    <3>2. i \in 1..Len(log) /\ log'[i] = log[i]
      BY <2>1, <2>2, <3>1
    <3>3. CASE j \in 1..Len(log)
      BY <2>2, <3>1, <3>2, <3>3 DEF RowByRow, Lines, InLog
    <3>4. CASE j = Len(log) + 1
      BY <2>2, <2>6, <3>2, <3>4
    <3>5. QED
      BY <2>1, <2>2, <3>1, <3>3, <3>4
  <2>8. QED
    BY <1>5, <2>7 DEF RowByRow, Lines
<1>8. QED
  BY <1>1, <1>6, <1>7

(* Settlement: no write begins to wait, and the deletes it releases go to  *)
(* the head of the queue.                                                  *)
LEMMA SettleRowByRow ==
    ASSUME Core, HistoryGrows, RowByRow,
           NEW done, NEW lost, NEW again, NEW wait, Settle(done, lost, again, wait),
           Issued' = Issued, envelope' = envelope, log' = log,
           \/ batch' = batch /\ phase' = phase
           \/ ToSet(batch') = {} /\ phase' = "idle",
           lost \subseteq ToSet(batch), again \subseteq ToSet(batch), Key # 0 \/ again = {},
           \A t \in done \cup wait :
             \/ t \in done /\ tx[t].status = "awaiting_delta"
             \/ t \in ToSet(batch) /\ Known(t),
           \A t \in TxIds :
             SettledAs(tx[t], tx'[t], StatusAfter(t, done, lost, again, wait), ConfAfter(t, done, lost))
    PROVE  RowByRow'
<1> DEFINE R == ReleasedBy(done \cup lost)
<1>1. /\ backoff' = backoff \cup {<<x>> : x \in again} /\ staged' = staged /\ sources' = sources
      /\ saving' = saving /\ parked' = parked \ R /\ queue' = EnqueueAll(queue, InOrder(R), tx')
  BY Zenon DEF Settle
<1>2. R \in SUBSET parked
  BY DEF ReleasedBy
<1> HIDE DEF R
<1>3. Live' = Live /\ Issued \subseteq TxIds /\ ToSet(batch) \subseteq Issued
  BY <1>1, CorePlaces DEF Live
<1>4. \A t \in again : tx[t].env # 0 /\ t \in Issued
  BY <1>3, CorePlaces DEF BatchGood
<1>5. ASSUME NEW t \in Issued PROVE Onward(t)
  <2>1. /\ tx'[t].status = StatusAfter(t, done, lost, again, wait)
        /\ tx'[t].env = tx[t].env /\ tx'[t].high = tx[t].high
        /\ tx'[t].type = tx[t].type /\ tx'[t].row = tx[t].row
    BY <1>3 DEF SettledAs
  <2>2. WriteKept(t)
    BY <2>1 DEF WriteKept, Issued
  <2>3. t \in ToSet(batch) => tx[t].status \in {"pending", "executing", "rolled_back"}
    BY BatchStatus
  <2>4. Waiting(t)' => Waiting(t) /\ tx'[t].attempts = tx[t].attempts
    <3>1. SUFFICES ASSUME tx'[t].status = "pending", tx'[t].env = 0
                   PROVE  Waiting(t) /\ tx'[t].attempts = tx[t].attempts
      BY DEF Waiting
    <3>2. t \notin again /\ t \notin lost /\ tx[t].status = "pending"
      BY <1>4, <2>1, <3>1 DEF StatusAfter
    <3>3. tx'[t].attempts = tx[t].attempts
      BY <1>3, <3>2, SettleAttempts
    <3>4. QED
      BY <2>1, <3>1, <3>2, <3>3 DEF Waiting
  <2>5. Alive(t)' => Alive(t)
    BY <2>1 DEF Alive, StatusAfter
  <2>6. /\ tx[t].status = "failed" => tx'[t].status = "failed"
        /\ tx'[t].status = "executing" => tx[t].status = "executing" \/ tx[t].env # 0
        /\ tx'[t].status = "awaiting_delta" => tx[t].status = "awaiting_delta" \/ Known(t)
        /\ tx'[t].status = "completed" => tx[t].status \in {"awaiting_delta", "completed"} \/ Known(t)
        /\ tx'[t].status = "rolled_back" => tx[t].status = "rolled_back"
        /\ tx'[t].status = "gone" => tx[t].status = "gone"
    BY <2>1, <2>3 DEF StatusAfter
  <2>7. QED
    BY <2>1, <2>2, <2>4, <2>5, <2>6 DEF Onward
<1>6. ASSUME NEW g \in backoff', NEW t \in ToSet(g) PROVE t \in Issued /\ tx[t].env # 0
  <2>1. CASE g \in backoff
    BY <2>1, CorePlaces DEF RowByRow, Store, Labels
  <2>2. ASSUME NEW x \in again, g = <<x>> PROVE t = x
    BY <1>3, <1>4, <2>2, SingletonSeq
  <2>3. QED
    BY <1>1, <1>4, <2>1, <2>2
<1>7. SameKeys
  BY DEF SameKeys
<1>8. Store'
  BY <1>3, <1>5, <1>6, <1>7, StoreOnward DEF RowByRow
<1>9. Tidy'
  BY <1>1, <1>2, <1>5, ReleaseTidy DEF RowByRow, Tidy
<1>10. Readied'
  <2>1. CASE phase' = "idle"
    BY <2>1 DEF Readied
  <2>2. CASE batch' = batch /\ phase' = phase
    BY <1>5, <2>2, ReadiedOnward DEF RowByRow, Lines
  <2>3. QED
    BY <2>1, <2>2
<1>11. QED
  BY <1>5, <1>7, <1>8, <1>9, <1>10, LinesOnward DEF RowByRow

(* A batch that ends.                                                      *)
LEMMA BatchEndsRowByRow ==
    ASSUME Core, HistoryGrows, RowByRow, BatchEnds
    PROVE  RowByRow'
<1>1. PICK done, lost, again, wait :
        SettlesBatch(done, lost, again, wait) /\ ReceiptGood(done, again, wait)
  BY BatchEndsSettle DEF Core
<1>2. /\ Issued' = Issued /\ ToSet(batch') = {}
      /\ \A t \in TxIds :
           SettledAs(tx[t], tx'[t], StatusAfter(t, done, lost, again, wait), ConfAfter(t, done, lost))
  BY <1>1, SettlesBatchCore
<1>3. /\ Settle(done, lost, again, wait) /\ envelope' = envelope /\ log' = log
      /\ done \subseteq ToSet(batch) /\ lost \subseteq ToSet(batch)
      /\ again \subseteq ToSet(batch) /\ wait \subseteq ToSet(batch) /\ phase' = "idle"
  BY <1>1 DEF SettlesBatch, server, BatchDone
<1>4. phase \in {"sealing", "ready", "inflight"}
  BY Zenon DEF BatchEnds, SealConflict, Expire, AckConfirmed, AckAwaiting, AckRejected, AckNoRows,
     SealTransient, AckTransient
<1>5. Key # 0 /\ \A t \in ToSet(batch) : tx[t].env = Key
  BY <1>4, CorePlaces DEF BatchGood
<1>6. ASSUME NEW t \in done \cup wait PROVE t \in ToSet(batch) /\ Known(t)
  <2>1. verdict[Key] # "none"
    BY <1>1 DEF ReceiptGood, Accepting
  <2>2. QED
    BY <1>3, <1>5, <2>1 DEF Known
<1>7. QED
  BY <1>2, <1>3, <1>5, <1>6, SettleRowByRow

(* A confirmation outside a batch.                                         *)
LEMMA ConfirmRowByRow ==
    ASSUME Core, HistoryGrows, RowByRow, ConfirmStep
    PROVE  RowByRow'
<1>1. PICK S : Confirms(S)
  BY ConfirmSettles
<1>2. PICK E : E = {}
  OBVIOUS
<1>3. /\ Issued' = Issued /\ batch' = batch
      /\ \A t \in TxIds :
           SettledAs(tx[t], tx'[t], StatusAfter(t, S, E, E, E), ConfAfter(t, S, E))
  BY <1>1, <1>2, ConfirmCore, Zenon
<1>4. /\ Settle(S, E, E, E) /\ S \subseteq Awaiting /\ envelope' = envelope /\ log' = log
      /\ phase' = phase
  BY <1>1, <1>2, Zenon DEF Confirms, server, runner
<1>5. /\ E \subseteq ToSet(batch)
      /\ \A t \in S \cup E : t \in S /\ tx[t].status = "awaiting_delta"
  BY <1>2, <1>4 DEF Awaiting
<1>6. QED
  BY <1>2, <1>3, <1>4, <1>5, SettleRowByRow

(* A parent's delete cancels writes of a child row.                        *)
LEMMA CascadeRowByRow ==
    ASSUME Core, HistoryGrows, RowByRow, NEW r \in Rows, CascadeCancel(r)
    PROVE  RowByRow'
<1>b. UNCHANGED <<sources, saving, staged, queue, parked, backoff, batch, phase, envelope, log>>
  BY Zenon DEF CascadeCancel, runner, storage, server
<1>c. PICK S \in SUBSET Issued :
        /\ tx' = WithStatus(tx, S, "rolled_back")
        /\ \A t \in S : tx[t].type \in {"create", "update"} /\ tx[t].status \in Outstanding
  BY CascadeOrphans
<1>1. /\ tx' = WithStatus(tx, S, "rolled_back") /\ S \in SUBSET Issued
      /\ UNCHANGED <<sources, saving, staged, queue, parked, backoff, batch, phase, envelope, log>>
  BY <1>b, <1>c
<1>2. \A t \in S : /\ tx[t].type # "delete"
                   /\ tx[t].status \in {"pending", "executing", "awaiting_delta"}
  BY <1>c DEF Outstanding
<1>3. /\ StoreKept
      /\ \A t \in TxIds : /\ t \in S => tx'[t].status = "rolled_back"
                          /\ t \notin S => tx'[t].status = tx[t].status
  BY <1>1, StatusStore DEF Statuses
<1>a. tx \in [TxIds -> TxType] /\ "rolled_back" \in Statuses
  BY CorePlaces DEF Statuses
<1>4. \A t \in TxIds : tx'[t].attempts = tx[t].attempts /\ tx'[t].high = tx[t].high
  BY <1>1, <1>a, StatusAttempts
<1>5. Issued' = Issued /\ Issued \subseteq TxIds /\ SameKeys
  BY <1>1, <1>3, KeptIssued, CorePlaces DEF StoreKept, SameKeys
<1>6. ASSUME NEW t \in Issued PROVE Onward(t)
  <2>1. WriteKept(t) /\ tx'[t].env = tx[t].env
    BY <1>3, <1>5 DEF StoreKept
  <2>2. CASE t \in S
    BY <1>1, <1>2, <1>3, <1>4, <1>5, <2>1, <2>2 DEF Onward, Waiting, Alive
  <2>3. CASE t \notin S
    BY <1>1, <1>3, <1>4, <1>5, <2>1, <2>3 DEF Onward, Waiting, Alive
  <2>4. QED
    BY <2>2, <2>3
<1>7. QED
  BY <1>1, <1>5, <1>6, SteadyRowByRow

(* A caller is told that its echo is late.                                 *)
LEMMA LagRowByRow ==
    ASSUME Core, HistoryGrows, RowByRow, NEW u \in TxIds, ReplicationLag(u)
    PROVE  RowByRow'
<1>1. QuietStep /\ \A t \in TxIds : tx'[t].status = tx[t].status
  BY ReplicationLagCore
<1>2. PICK S : S = {u}
  OBVIOUS
<1>3. /\ tx' = Answered(tx, S, "rejected") /\ tx \in [TxIds -> TxType] /\ Issued \subseteq TxIds
      /\ UNCHANGED <<sources, saving, staged, queue, parked, backoff, batch, phase, envelope, log>>
  BY <1>2, CorePlaces DEF ReplicationLag, runner, storage, server
<1>4. \A t \in TxIds : tx'[t].attempts = tx[t].attempts /\ tx'[t].high = tx[t].high
  BY <1>3, AnswerAttempts
<1>5. Issued' = Issued /\ SameKeys
  BY <1>1, <1>3, KeptIssued DEF QuietStep, StoreKept, SameKeys
<1>6. ASSUME NEW t \in Issued PROVE Onward(t)
  <2>1. WriteKept(t) /\ tx'[t].env = tx[t].env
    BY <1>1, <1>3 DEF QuietStep, StoreKept
  <2>2. QED
    BY <1>1, <1>3, <1>4, <2>1 DEF Onward, Waiting, Alive
<1>7. QED
  BY <1>3, <1>5, <1>6, SteadyRowByRow

(* The rest of the saves under way, and the first of them.                 *)
LEMMA SavingTail ==
    ASSUME Core, Tidy, saving # <<>>
    PROVE  /\ Head(saving) \in ToSet(saving) /\ Head(saving) \in TxIds
           /\ Tail(saving) \in Seq(TxIds) /\ Increasing(Tail(saving))
           /\ ToSet(Tail(saving)) \subseteq ToSet(saving)
           /\ \A b \in ToSet(Tail(saving)) : Head(saving) < b
<1> DEFINE u == Tail(saving)
<1>1. saving \in Seq(TxIds) /\ Len(saving) \in Nat /\ Len(saving) # 0
  BY CorePlaces, EmptySeq
<1>2. Head(saving) = saving[1] /\ 1 \in 1..Len(saving)
  BY <1>1
<1>3. /\ u \in Seq(TxIds) /\ Len(u) = Len(saving) - 1
      /\ \A i \in 1..Len(u) : u[i] = saving[i + 1]
  BY <1>1, HeadTailProperties
<1> HIDE DEF u
<1>4. \A i \in 1..Len(u) : i + 1 \in 1..Len(saving) /\ 1 < i + 1
  BY <1>1, <1>3
<1>5. \A i, j \in 1..Len(saving) : i < j => saving[i] < saving[j]
  BY DEF Tidy, Increasing
<1>6. Increasing(u)
  BY <1>3, <1>4, <1>5 DEF Increasing
<1>7. ASSUME NEW b \in ToSet(u) PROVE b \in ToSet(saving) /\ Head(saving) < b
  <2>1. PICK i \in 1..Len(u) : u[i] = b
    BY <1>3, ToSetIn
  <2>2. b = saving[i + 1] /\ i + 1 \in 1..Len(saving) /\ 1 < i + 1
    BY <1>3, <1>4, <2>1
  <2>3. Head(saving) < b
    BY <1>2, <1>5, <2>2
  <2>4. QED
    BY <1>1, <2>2, <2>3, ToSetIn
<1>8. Head(saving) \in ToSet(saving) /\ Head(saving) \in TxIds
  BY <1>1, <1>2, ToSetIn
<1>9. QED
  BY <1>3, <1>6, <1>7, <1>8 DEF u

(* Appending a larger write keeps the order.                               *)
LEMMA AppendIncreasing ==
    ASSUME NEW s \in Seq(TxIds), NEW t \in TxIds, Increasing(s), \A a \in ToSet(s) : a < t
    PROVE  Increasing(Append(s, t))
<1> DEFINE u == Append(s, t)
<1>1. /\ Len(s) \in Nat /\ Len(u) = Len(s) + 1 /\ u[Len(s) + 1] = t
      /\ \A i \in 1..Len(s) : u[i] = s[i] /\ s[i] \in ToSet(s)
  BY AppendProperties, ToSetIn
<1> HIDE DEF u
<1>2. SUFFICES ASSUME NEW i \in 1..Len(u), NEW j \in 1..Len(u), i < j PROVE u[i] < u[j]
  BY DEF Increasing, u
<1>3. i \in 1..Len(s)
  BY <1>1, <1>2
<1>4. CASE j \in 1..Len(s)
  BY <1>1, <1>2, <1>3, <1>4 DEF Increasing
<1>5. CASE j = Len(s) + 1
  BY <1>1, <1>3, <1>5
<1>6. QED
  BY <1>1, <1>2, <1>4, <1>5

(* A save lands.                                                           *)
LEMMA PersistedRowByRow ==
    ASSUME Core, HistoryGrows, RowByRow, Persisted
    PROVE  RowByRow'
<1>1. PICK t : t = Head(saving)
  OBVIOUS
<1>2. /\ saving # <<>> /\ saving' = Tail(saving) /\ UNCHANGED <<tx, sources, queue, backoff, batch, phase, envelope, log>>
      /\ \/ tx[t].type = "delete" /\ parked' = parked \cup {t} /\ staged' = staged
         \/ parked' = parked /\ staged' = Append(staged, t)
  BY <1>1, Zenon DEF Persisted, runner, server
<1>3. /\ t \in ToSet(saving) /\ t \in TxIds /\ Increasing(saving') /\ ToSet(saving') \subseteq ToSet(saving)
      /\ \A b \in ToSet(saving') : t < b
  BY <1>1, <1>2, SavingTail DEF RowByRow
<1>4. Issued' = Issued /\ Live' = Live /\ SameKeys
  BY <1>2 DEF Issued, Live, SameKeys
<1>5. \A u \in Issued : Onward(u)
  BY <1>2 DEF Onward, WriteKept, Waiting, Alive
<1>6. \A g \in backoff' : \A u \in ToSet(g) : u \in Issued /\ tx[u].env # 0
  BY <1>2, CorePlaces DEF RowByRow, Store, Labels
<1>7. Store' /\ Readied'
  BY <1>2, <1>4, <1>5, <1>6, StoreOnward, ReadiedOnward DEF RowByRow, Lines
<1>8. Lines'
  BY <1>2, <1>4, <1>5, <1>7, LinesOnward DEF RowByRow
<1>9. Increasing(staged') /\ ToSet(staged') \subseteq ToSet(staged) \cup {t}
  <2>1. CASE staged' = staged
    BY <2>1 DEF RowByRow, Tidy
  <2>2. CASE staged' = Append(staged, t)
    <3>1. staged \in Seq(TxIds) /\ Increasing(staged) /\ \A a \in ToSet(staged) : a < t
      BY <1>3, CorePlaces DEF RowByRow, Tidy
    <3>2. QED
      BY <1>3, <2>2, <3>1, AppendIncreasing, ToSetAppend
  <2>3. QED
    BY <1>2, <2>1, <2>2
<1>10. \A a \in ToSet(staged') : \A b \in ToSet(saving') : a < b
  BY <1>3, <1>9 DEF RowByRow, Tidy
<1>11. \A a \in ToSet(queue') : \A b \in ToSet(staged') \cup ToSet(saving') :
         Waiting(a)' /\ tx'[a].type # "delete" => a < b
  <2>1. \A a \in ToSet(queue) : \A b \in ToSet(staged) \cup ToSet(saving) :
          Waiting(a) /\ tx[a].type # "delete" => a < b
    BY DEF RowByRow, Tidy
  <2>2. \A a : Waiting(a)' <=> Waiting(a)
    BY <1>2 DEF Waiting
  <2>3. QED
    BY <1>2, <1>3, <1>9, <2>1, <2>2
<1>12. (\A d \in parked' : tx'[d].type = "delete") /\ Paired(queue', Lined(tx'))
  BY <1>2 DEF RowByRow, Tidy
<1>13. Tidy'
  BY <1>3, <1>9, <1>10, <1>11, <1>12 DEF Tidy
<1>14. QED
  BY <1>7, <1>8, <1>13 DEF RowByRow

(* A save fails: its write is over, and deletes behind it are released.    *)
LEMMA PersistFailedRowByRow ==
    ASSUME Core, HistoryGrows, RowByRow, PersistFailed
    PROVE  RowByRow'
<1>1. PICK t : t = Head(saving)
  OBVIOUS
<1>2. PICK S : S = {t}
  OBVIOUS
<1>3. PICK R : R = ReleasedBy(S)
  OBVIOUS
<1>4. /\ saving # <<>> /\ saving' = Tail(saving) /\ staged' = staged /\ parked' = parked \ R
      /\ queue' = EnqueueAll(queue, InOrder(R), tx')
      /\ UNCHANGED <<sources, backoff, batch, phase, envelope, log>>
  BY <1>1, <1>2, <1>3, Zenon DEF PersistFailed, runner, server
<1>5. SaveEnds(t) /\ \A u \in TxIds : tx'[u].status = IF u = t THEN "failed" ELSE tx[u].status
  BY <1>1, PersistFailedEnds
<1>6. Issued' = Issued /\ Live' = Live /\ Issued \subseteq TxIds /\ t \in Issued /\ t \notin saved
  BY <1>5, SaveEndsCore, CorePlaces
<1>7. \A u \in TxIds : tx'[u].attempts = tx[u].attempts /\ tx'[u].high = tx[u].high
  BY PersistFailedAttempts
<1>8. SameKeys
  BY <1>4 DEF SameKeys
<1>9. ASSUME NEW u \in Issued PROVE Onward(u)
  <2>1. WriteKept(u) /\ tx'[u].env = tx[u].env
    BY <1>5, <1>6 DEF SaveEnds, StoreKept
  <2>2. QED
    BY <1>4, <1>5, <1>6, <1>7, <2>1 DEF Onward, Waiting, Alive
<1>10. \A g \in backoff' : \A u \in ToSet(g) : u \in Issued /\ tx[u].env # 0
  BY <1>4, CorePlaces DEF RowByRow, Store, Labels
<1>11. Store' /\ Readied'
  BY <1>4, <1>6, <1>8, <1>9, <1>10, StoreOnward, ReadiedOnward DEF RowByRow, Lines
<1>12. Lines'
  BY <1>4, <1>6, <1>8, <1>9, <1>11, LinesOnward DEF RowByRow
<1>13. Tidy'
  <2>1. Increasing(saving') /\ ToSet(saving') \subseteq ToSet(saving)
    BY <1>4, SavingTail DEF RowByRow
  <2>2. R \in SUBSET parked
    BY <1>3 DEF ReleasedBy
  <2>3. QED
    BY <1>4, <1>6, <1>9, <2>1, <2>2, ReleaseTidy DEF RowByRow
<1>14. QED
  BY <1>11, <1>12, <1>13 DEF RowByRow

(* Everything staged is queued, in the order it was staged.                *)
LEMMA StagedLined ==
    ASSUME Core, Store, Tidy
    PROVE  Paired(EnqueueAll(queue, staged, tx), Lined(tx))
<1>1. /\ staged \in Seq(TxIds) /\ queue \in Seq(TxIds) /\ Live \subseteq Issued /\ Issued \subseteq TxIds
      /\ ToSet(staged) \subseteq Live /\ ToSet(queue) \subseteq Live
  BY CorePlaces DEF Core, Homes, SourcesGood, Live
<1>2. Paired(queue, Lined(tx)) /\ \A t \in ToSet(staged) : tx[t].high => tx[t].type = "delete"
  BY <1>1 DEF Tidy, Store, Origins
<1>3. \A d, y \in ToSet(queue) \cup ToSet(staged) :
        d # y /\ tx[d].type = "delete" => InLine(tx, d, y) /\ InLine(tx, y, d)
  BY <1>1, DeletesAlone DEF Store
<1>4. ASSUME NEW i \in 1..Len(staged), NEW j \in 1..Len(staged), i < j
      PROVE  /\ InLine(tx, staged[i], staged[j])
             /\ tx[staged[i]].type = "delete" /\ tx[staged[j]].type = "delete"
                => InLine(tx, staged[j], staged[i])
  <2>1. staged[i] \in ToSet(staged) /\ staged[j] \in ToSet(staged) /\ staged[i] < staged[j]
    BY <1>1, <1>4, ToSetIn DEF Tidy, Increasing
  <2>2. staged[i] # staged[j]
    <3>1. staged[i] \in TxIds /\ staged[j] \in TxIds
      BY <1>1, <2>1
    <3>2. QED
      BY <2>1, <3>1 DEF TxIds
  <2>3. QED
    BY <1>3, <2>1, <2>2 DEF InLine
<1>5. ASSUME NEW x \in ToSet(staged), NEW y \in ToSet(queue), x # y, tx[x].type # "delete", tx[y].type # "delete"
      PROVE  InLine(tx, y, x)
  BY <1>5 DEF Tidy, InLine, Waiting
<1>6. \A x \in ToSet(staged), y \in ToSet(queue) :
        x # y /\ tx[x].type # "delete" /\ tx[y].type # "delete" => InLine(tx, y, x)
  BY <1>5
<1>7. QED
  BY <1>1, <1>2, <1>3, <1>4, <1>6, EnqueueLined

(* Steps that only move writes between the places.                         *)
LEMMA MovedRowByRow ==
    ASSUME Core, HistoryGrows, RowByRow, UNCHANGED <<tx, sources, batch, phase, envelope, log>>,
           backoff' \subseteq backoff, Tidy'
    PROVE  RowByRow'
<1>1. Issued' = Issued /\ Live' = Live /\ SameKeys
  BY DEF Issued, Live, SameKeys
<1>2. \A u \in Issued : Onward(u)
  BY DEF Onward, WriteKept, Waiting, Alive
<1>3. \A g \in backoff' : \A u \in ToSet(g) : u \in Issued /\ tx[u].env # 0
  BY CorePlaces DEF RowByRow, Store, Labels
<1>4. Store' /\ Readied'
  BY <1>1, <1>2, <1>3, StoreOnward, ReadiedOnward DEF RowByRow, Lines
<1>5. QED
  BY <1>1, <1>2, <1>4, LinesOnward DEF RowByRow

(* The staged writes enter the queue.                                      *)
LEMMA StagedRowByRow ==
    ASSUME Core, HistoryGrows, RowByRow, CommitStaged \/ DrainPending
    PROVE  RowByRow'
<1>1. /\ queue' = EnqueueAll(queue, staged, tx) /\ staged' = <<>>
      /\ UNCHANGED <<tx, sources, saving, backoff, parked, batch, phase, envelope, log>>
  BY Zenon DEF CommitStaged, DrainPending, runner, storage, server
<1>2. ToSet(staged') = {} /\ Increasing(staged')
  BY <1>1 DEF ToSet, Increasing
<1>3. \A x : x \in ToSet(queue') => x \in ToSet(queue) \/ x \in ToSet(staged)
  BY <1>1, CorePlaces, EnqueueSaved
<1>4. Paired(queue', Lined(tx'))
  BY <1>1, StagedLined DEF RowByRow
<1>5. \A a \in ToSet(queue') : \A b \in ToSet(staged') \cup ToSet(saving') :
        Waiting(a)' /\ tx'[a].type # "delete" => a < b
  <2>1. \A a : Waiting(a)' <=> Waiting(a)
    BY <1>1 DEF Waiting
  <2>2. QED
    BY <1>1, <1>2, <1>3, <2>1 DEF RowByRow, Tidy
<1>6. Tidy'
  BY <1>1, <1>2, <1>4, <1>5 DEF RowByRow, Tidy
<1>7. QED
  BY <1>1, <1>6, MovedRowByRow

(* A retry timer queues writes that have a key.                            *)
LEMMA RetryRowByRow ==
    ASSUME Core, HistoryGrows, RowByRow, NEW g \in backoff, RetryTimer(g)
    PROVE  RowByRow'
<1>1. /\ queue' = EnqueueAll(queue, g, tx) /\ backoff' = backoff \ {g}
      /\ UNCHANGED <<tx, sources, saving, staged, parked, batch, phase, envelope, log>>
  BY Zenon DEF RetryTimer, runner, storage, server
<1>2. /\ g \in Seq(TxIds) /\ ToSet(g) \subseteq saved /\ queue \in Seq(TxIds) /\ ToSet(queue) \subseteq saved
      /\ saved \subseteq Live /\ Live \subseteq Issued /\ saved \subseteq Issued
  BY CorePlaces DEF Core, Homes, SourcesGood, Live
<1>3. \A t \in ToSet(g) : tx[t].env # 0
  BY DEF RowByRow, Store, Labels
<1>4. \A x \in ToSet(g) : \A y : InLine(tx, x, y) /\ InLine(tx, y, x)
  BY <1>3 DEF InLine
<1>5. \A i \in 1..Len(g) : g[i] \in ToSet(g)
  BY <1>2, ToSetIn
<1>6. \A d, y \in ToSet(queue) \cup ToSet(g) :
        d # y /\ tx[d].type = "delete" => InLine(tx, d, y) /\ InLine(tx, y, d)
  BY <1>2, DeletesAlone DEF RowByRow, Store
<1>7. \A t \in ToSet(g) : tx[t].high => tx[t].type = "delete"
  BY <1>2 DEF RowByRow, Store, Origins
<1>8. \A x \in ToSet(g), y \in ToSet(queue) :
        x # y /\ tx[x].type # "delete" /\ tx[y].type # "delete" => InLine(tx, y, x)
  BY <1>4
<1>9. \A i, j \in 1..Len(g) : i < j =>
        /\ InLine(tx, g[i], g[j])
        /\ tx[g[i]].type = "delete" /\ tx[g[j]].type = "delete" => InLine(tx, g[j], g[i])
  BY <1>4, <1>5
<1>10. Paired(queue, Lined(tx))
  BY DEF RowByRow, Tidy
<1>11. Paired(queue', Lined(tx'))
  BY <1>1, <1>2, <1>6, <1>7, <1>8, <1>9, <1>10, EnqueueLined
<1>12. \A x \in ToSet(queue') : x \in ToSet(queue) \/ (x \in ToSet(g) /\ ~Waiting(x))
  BY <1>1, <1>2, <1>3, EnqueueSaved DEF Waiting
<1>13. Issued' = Issued /\ \A u \in Issued : Onward(u)
  BY <1>1 DEF Issued, Onward, WriteKept, Waiting, Alive
<1>14. Tidy'
  BY <1>1, <1>2, <1>11, <1>12, <1>13, TidyKept DEF RowByRow, Tidy
<1>15. QED
  BY <1>1, <1>14, MovedRowByRow

(* A batch starts.                                                         *)
LEMMA StartBatchRowByRow ==
    ASSUME Core, HistoryGrows, RowByRow, StartBatch
    PROVE  RowByRow'
<1>1. /\ batch = <<>> /\ UNCHANGED <<tx, sources, saving, staged, parked, backoff, envelope, verdict, log>>
  BY CorePlaces DEF StartBatch, ControlTyped, storage, server
<1>2. /\ batch' \in Seq(TxIds) /\ ToSet(batch') \cup ToSet(queue') \subseteq ToSet(queue)
      /\ \A t \in ToSet(batch') : tx[t].status = "pending"
  BY StartBatchFacts
<1>3. Issued' = Issued /\ Live' = Live /\ SameKeys /\ ToSet(batch) = {} /\ ToSet(queue) \subseteq Issued
  BY <1>1, CorePlaces DEF Issued, Live, SameKeys, ToSet
<1>4. \A u \in Issued : Onward(u)
  BY <1>1, <1>2 DEF Onward, WriteKept, Waiting, Alive
<1>5. \A g \in backoff' : \A u \in ToSet(g) : u \in Issued /\ tx[u].env # 0
  BY <1>1, CorePlaces DEF RowByRow, Store, Labels
<1>6. Store'
  BY <1>3, <1>4, <1>5, StoreOnward DEF RowByRow
<1>7. Tidy'
  <2>1. Paired(queue', Lined(tx'))
    BY <1>1, StartBatchFirst DEF RowByRow
  <2>2. QED
    BY <1>1, <1>2, <1>3, <1>4, <2>1, TidyKept DEF RowByRow, Tidy
<1>8. Readied'
  <2>1. PICK b : b = batch' /\ (phase' = "preparing" /\ tx[b[1]].env = 0 => First(b))
    BY StartBatchFirst DEF RowByRow
  <2>2. SUFFICES ASSUME phase' = "preparing", Key' = 0 PROVE First(batch)'
    BY DEF Readied
  <2>3. First(b)
    BY <1>1, <2>1, <2>2 DEF Key
  <2>4. \A t : (Alive(t)' => t \in ToSet(b) \/ Alive(t)) /\ (Known(t) => Known(t)')
    BY <1>1, <2>1 DEF Alive, Known
  <2>5. \A x, y : SameRow(x, y)' <=> SameRow(x, y)
    BY <1>1 DEF SameRow
  <2>6. /\ \A i, j \in 1..Len(b) : i < j /\ SameRow(b[i], b[j])' => b[i] < b[j]
        /\ \A t \in ToSet(b) : \A a \in Issued :
              a < t /\ SameRow(a, t)' /\ Alive(a)' => a \in ToSet(b) \/ Known(a)'
    BY <2>3, <2>4, <2>5 DEF First
  <2>7. QED
    BY <1>3, <2>1, <2>6 DEF First
<1>9. QED
  BY <1>1, <1>3, <1>4, <1>6, <1>7, <1>8, LinesOnward DEF RowByRow

(* Preparing a batch leaves the priority of its writes alone.              *)
LEMMA PreparedHigh ==
    ASSUME Core, Prepared
    PROVE  \A t \in TxIds : tx'[t].high = tx[t].high
<1>1. PICK k \in Keys :
        tx' = [t \in TxIds |-> IF Contains(batch, t)
                               THEN [tx[t] EXCEPT !.status = "executing", !.env = k] ELSE tx[t]]
  BY Zenon DEF Prepared
<1>2. \A t \in TxIds : [tx[t] EXCEPT !.status = "executing", !.env = k].high = tx[t].high
  BY CorePlaces DEF TxType
<1>3. ASSUME NEW t \in TxIds PROVE tx'[t].high = tx[t].high
  <2>1. CASE Contains(batch, t)
    <3>1. tx'[t] = [tx[t] EXCEPT !.status = "executing", !.env = k]
      BY <1>1, <2>1, Zenon
    <3>2. QED
      BY <1>2, <3>1
  <2>2. CASE ~Contains(batch, t)
    <3>1. tx'[t] = tx[t]
      BY <1>1, <2>2, Zenon
    <3>2. QED
      BY <3>1
  <2>3. QED
    BY <2>1, <2>2
<1>4. QED
  BY <1>3

(* A fresh batch gets a new key: it leaves nothing behind.                 *)
LEMMA MintRowByRow ==
    ASSUME Core, HistoryGrows, RowByRow, First(batch), NEW k \in Keys, k \notin DOMAIN envelope,
           DOMAIN envelope' = DOMAIN envelope \cup {k}, envelope'[k].ops = batch,
           \A l \in DOMAIN envelope : envelope'[l] = envelope[l],
           \A t \in TxIds : /\ WriteKept(t) /\ tx'[t].high = tx[t].high
                            /\ t \in ToSet(batch) => tx'[t].env = k /\ tx'[t].status = "executing"
                            /\ t \notin ToSet(batch) => tx'[t] = tx[t],
           \A t \in ToSet(batch) : tx[t].env = 0 /\ tx[t].status \in {"pending", "rolled_back"},
           Issued' = Issued, phase' # "preparing",
           UNCHANGED <<sources, saving, staged, queue, parked, backoff, batch, verdict, log>>
    PROVE  RowByRow'
<1>1. /\ Issued \subseteq TxIds /\ ToSet(batch) \subseteq Issued /\ Live' = Live /\ Live \subseteq Issued
      /\ k # 0 /\ batch \in Seq(TxIds) /\ MaxKeys \in Nat
  BY CorePlaces, QueueAssumption DEF Live, Core, SourcesGood, Keys
<1>2. \A t \in Issued : tx'[t].type = tx[t].type /\ tx'[t].row = tx[t].row /\ tx'[t].high = tx[t].high
  BY <1>1 DEF WriteKept, Issued
<1>3. \A a, b \in Issued : SameRow(a, b)' <=> SameRow(a, b)
  BY <1>2 DEF SameRow
<1>4. \A t \in Issued : /\ (Waiting(t)' => Waiting(t)) /\ (Alive(t)' => Alive(t))
                        /\ t \notin ToSet(batch) => (Known(t)' <=> Known(t))
                        /\ t \in ToSet(batch) => ~Known(t)
  BY <1>1 DEF Waiting, Alive, Known
<1>5. Origins'
  <2>1. SUFFICES ASSUME NEW t \in Issued
                 PROVE  /\ tx'[t].type \in {"create", "update", "delete"}
                        /\ tx'[t].high => tx'[t].type = "delete"
                        /\ tx'[t].row \in NewRows => \E c : CreateOf(c, tx[t].row)'
                        /\ \A c : CreateOf(c, tx[t].row)' => c <= t
    BY DEF Origins
  <2>2. /\ tx[t].type \in {"create", "update", "delete"}
        /\ tx[t].high => tx[t].type = "delete"
        /\ tx[t].row \in NewRows => \E c : CreateOf(c, tx[t].row)
        /\ \A c : CreateOf(c, tx[t].row) => c <= t
    BY DEF RowByRow, Store, Origins
  <2>3. \A c : CreateOf(c, tx[t].row)' <=> CreateOf(c, tx[t].row)
    BY <1>2 DEF CreateOf
  <2>4. QED
    BY <1>2, <2>2, <2>3
<1>6. Endings'
  <2>1. \A d, t \in Issued : tx'[d].type = "delete" /\ SameRow(d, t)' /\ d < t => tx'[d].status = "failed"
    <3>1. \A d \in Issued : tx[d].status = "failed" => tx'[d] = tx[d]
      BY <1>1
    <3>2. QED
      BY <1>2, <1>3, <3>1 DEF RowByRow, Store, Endings
  <2>2. \A d \in Live : \A t \in Issued :
          tx'[d].type = "delete" /\ SameRow(d, t)' /\ t < d => ~Waiting(t)'
    BY <1>1, <1>2, <1>3, <1>4 DEF RowByRow, Store, Endings
  <2>3. QED
    BY <1>1, <2>1, <2>2 DEF Endings
<1>7. Labels'
  <2>1. ASSUME NEW t \in Issued
        PROVE  /\ tx'[t].env = 0 => /\ tx'[t].status \notin {"executing", "awaiting_delta"}
                                    /\ tx'[t].status = "completed" => tx'[t].type = "delete"
                                    /\ tx'[t].status = "pending" => tx'[t].attempts = 0
               /\ tx'[t].env # 0 /\ tx'[t].status \in {"awaiting_delta", "completed"} => Known(t)'
               /\ tx'[t].type = "delete" => tx'[t].status # "rolled_back"
               /\ tx'[t].status # "gone"
    <3>1. CASE t \in ToSet(batch)
      BY <1>1, <3>1
    <3>2. CASE t \notin ToSet(batch)
      <4>1. tx'[t] = tx[t] /\ (Known(t)' <=> Known(t))
        BY <1>1, <1>4, <3>2
      <4>2. QED
        BY <4>1 DEF RowByRow, Store, Labels
    <3>3. QED
      BY <3>1, <3>2
  <2>2. \A g \in backoff : \A t \in ToSet(g) : tx'[t].env # 0
    <3>1. \A g \in backoff : \A t \in ToSet(g) : tx[t].env # 0 /\ t \in TxIds
      BY <1>1, CorePlaces DEF RowByRow, Store, Labels
    <3>2. QED
      BY <1>1, <3>1
  <2>3. QED
    BY <2>1, <2>2 DEF Labels
<1>8. Keyed'
  <2>1. SUFFICES ASSUME NEW l \in DOMAIN envelope', NEW t \in Ops(l)'
                 PROVE  tx'[t].env = l
    BY DEF Keyed
  <2>2. CASE l = k
    BY <1>1, <2>2 DEF Ops
  <2>3. CASE l \in DOMAIN envelope
    <3>1. t \in Ops(l)
      BY <2>3 DEF Ops
    <3>2. tx[t].env = l /\ t \in Issued
      BY <2>3, <3>1, OpsIssued DEF RowByRow, Store, Keyed
    <3>3. l # 0
      BY <2>3, TypeParts, EnvelopeIn DEF Core, Keys
    <3>4. QED
      BY <1>1, <3>2, <3>3
  <2>4. QED
    BY <2>2, <2>3
<1>9. Tidy'
  <2>1. ToSet(queue) \subseteq Issued /\ parked \subseteq Issued /\ queue \in Seq(TxIds)
    BY CorePlaces
  <2>2. \A a \in ToSet(queue) : \A b \in ToSet(staged) \cup ToSet(saving) :
          Waiting(a)' /\ tx'[a].type # "delete" => a < b
    BY <1>2, <1>4, <2>1 DEF RowByRow, Tidy
  <2>3. \A d \in parked : tx'[d].type = "delete"
    BY <1>2, <2>1 DEF RowByRow, Tidy
  <2>4. Paired(queue, Lined(tx'))
    <3>1. \A i \in 1..Len(queue) : queue[i] \in Issued
      BY <2>1, ToSetIn
    <3>2. ASSUME NEW a \in Issued, NEW b \in Issued, InLine(tx, a, b) PROVE InLine(tx', a, b)
      BY <1>2, <1>4, <3>2 DEF InLine, Waiting
    <3>3. \A i, j \in 1..Len(queue) : i < j => InLine(tx, queue[i], queue[j])
      BY <2>1, PairedLined DEF RowByRow, Tidy
    <3>4. \A i, j \in 1..Len(queue) : i < j => InLine(tx', queue[i], queue[j])
      BY <3>1, <3>2, <3>3
    <3>5. QED
      BY <2>1, <3>4, PairedLined
  <2>5. QED
    BY <2>2, <2>3, <2>4 DEF RowByRow, Tidy
<1>10. InKey'
  <2>1. SUFFICES ASSUME NEW l \in DOMAIN envelope',
                        NEW i \in 1..Len(envelope'[l].ops), NEW j \in 1..Len(envelope'[l].ops), i < j,
                        SameRow(envelope[l].ops[i], envelope[l].ops[j])', Alive(envelope[l].ops[j])'
                 PROVE  envelope'[l].ops[i] < envelope'[l].ops[j]
    BY DEF InKey
  <2>2. PICK a, b : a = envelope'[l].ops[i] /\ b = envelope'[l].ops[j]
    OBVIOUS
  <2>3. SameRow(a, b)' /\ Alive(b)'
    BY <2>1, <2>2 DEF SameRow, Alive
  <2>4. CASE l = k
    <3>1. a = batch[i] /\ b = batch[j] /\ i \in 1..Len(batch) /\ j \in 1..Len(batch)
      BY <2>2, <2>4
    <3>2. a \in Issued /\ b \in Issued
      BY <1>1, <3>1, ToSetIn
    <3>3. SameRow(batch[i], batch[j])
      BY <1>3, <2>3, <3>1, <3>2
    <3>4. QED
      BY <2>1, <2>2, <3>1, <3>3 DEF First
  <2>5. CASE l \in DOMAIN envelope
    <3>1. /\ a = envelope[l].ops[i] /\ b = envelope[l].ops[j]
          /\ i \in 1..Len(envelope[l].ops) /\ j \in 1..Len(envelope[l].ops)
      BY <2>2, <2>5
    <3>2. a \in Issued /\ b \in Issued
      BY <2>5, <3>1, OpsIssued
    <3>3. SameRow(envelope[l].ops[i], envelope[l].ops[j]) /\ Alive(envelope[l].ops[j])
      BY <1>3, <1>4, <2>3, <3>1, <3>2
    <3>4. QED
      BY <2>1, <2>2, <2>5, <3>1, <3>3 DEF RowByRow, Lines, InKey
  <2>6. QED
    BY <2>4, <2>5
<1>11. AcrossKeys'
  <2>1. SUFFICES ASSUME NEW a \in Issued, NEW b \in Issued, a < b, SameRow(a, b)', tx'[b].env # 0, Alive(a)'
                 PROVE  tx'[a].env = tx'[b].env \/ Known(a)'
    BY DEF AcrossKeys
  <2>2. SameRow(a, b) /\ Alive(a)
    BY <1>3, <1>4, <2>1
  <2>3. CASE b \in ToSet(batch)
    <3>1. a \in ToSet(batch) \/ Known(a)
      BY <2>1, <2>2, <2>3 DEF First
    <3>2. QED
      BY <1>1, <1>4, <2>3, <3>1
  <2>4. CASE b \notin ToSet(batch)
    <3>1. tx'[b] = tx[b]
      BY <1>1, <2>4
    <3>2. tx[a].env = tx[b].env \/ Known(a)
      BY <2>1, <2>2, <3>1 DEF RowByRow, Lines, AcrossKeys
    <3>3. a \notin ToSet(batch)
      BY <1>4, <2>1, <3>1, <3>2
    <3>4. tx'[a] = tx[a]
      BY <1>1, <3>3
    <3>5. QED
      BY <1>4, <3>1, <3>2, <3>3, <3>4
  <2>5. QED
    BY <2>3, <2>4
<1>12. InLog'
  BY <1>1, <1>4, LogOnward DEF RowByRow
<1>13. Readied'
  BY DEF Readied
<1>14. QED
  BY <1>5, <1>6, <1>7, <1>8, <1>9, <1>10, <1>11, <1>12, <1>13 DEF RowByRow, Store, Lines

(* A batch is prepared, for the first time or again.                       *)
LEMMA PreparedRowByRow ==
    ASSUME Core, HistoryGrows, RowByRow, Prepared
    PROVE  RowByRow'
<1>1. PICK k \in Keys :
        /\ \/ /\ Key = 0 /\ k \notin DOMAIN envelope
              /\ DOMAIN envelope' = DOMAIN envelope \cup {k}
              /\ \A l \in DOMAIN envelope : envelope'[l] = envelope[l]
           \/ k = Key /\ k \in DOMAIN envelope /\ envelope' = envelope
        /\ k \in DOMAIN envelope' /\ envelope'[k].ops = batch
        /\ \A t \in TxIds : /\ WriteKept(t)
                            /\ t \in ToSet(batch) => tx'[t].env = k /\ tx'[t].status = "executing"
                            /\ t \notin ToSet(batch) => tx'[t] = tx[t]
        /\ phase' \in {"ready", "sealing"}
        /\ UNCHANGED <<sources, saving, staged, queue, parked, backoff, batch, verdict, log>>
  BY PreparedFacts DEF server
<1>2. Issued' = Issued /\ Issued \subseteq TxIds /\ phase = "preparing"
  <2>1. phase = "preparing"
    BY Zenon DEF Prepared
  <2>2. QED
    BY <2>1, PreparedCore, CorePlaces
<1>3. \A t \in ToSet(batch) : tx[t].env = Key /\ tx[t].status \in {"pending", "rolled_back"} /\ t \in Issued
  BY <1>2, CorePlaces DEF BatchGood
<1>4. \A t \in TxIds : tx'[t].high = tx[t].high
  BY PreparedHigh
<1>5. ASSUME Key = 0, k \notin DOMAIN envelope, DOMAIN envelope' = DOMAIN envelope \cup {k},
             \A l \in DOMAIN envelope : envelope'[l] = envelope[l]
      PROVE  RowByRow'
  <2>1. First(batch)
    BY <1>2, <1>5 DEF RowByRow, Lines, Readied
  <2>2. QED
    BY <1>1, <1>2, <1>3, <1>4, <1>5, <2>1, MintRowByRow
<1>6. ASSUME k = Key, envelope' = envelope PROVE RowByRow'
  <2>1. k # 0
    BY QueueAssumption DEF Keys
  <2>2. ASSUME NEW t \in Issued PROVE Onward(t)
    <3>1. CASE t \in ToSet(batch)
      BY <1>1, <1>2, <1>3, <1>4, <1>6, <2>1, <3>1 DEF Onward, Waiting, Alive
    <3>2. CASE t \notin ToSet(batch)
      BY <1>1, <1>2, <1>4, <3>2 DEF Onward, Waiting, Alive
    <3>3. QED
      BY <3>1, <3>2
  <2>3. SameKeys
    BY <1>6 DEF SameKeys
  <2>4. QED
    BY <1>1, <1>2, <2>2, <2>3, SteadyRowByRow
<1>7. QED
  BY <1>1, <1>5, <1>6

(* Steps that issue a write: nothing is issued for a row behind a delete   *)
(* that did not fail, and a delete finds no other write of its row waiting.*)
LEMMA IssueRowByRow ==
    ASSUME Core, HistoryGrows, RowByRow, NEW d, Issues(d),
           \A t \in Issued : tx'[t].attempts = tx[t].attempts /\ tx'[t].high = tx[t].high,
           \A t \in Issued : \/ tx'[t].status = tx[t].status
                             \/ /\ tx'[t].status = "rolled_back" /\ tx[t].type # "delete"
                                /\ tx[t].status \in {"pending", "executing"},
           tx'[d].type \in {"create", "update", "delete"}, tx'[d].high => tx'[d].type = "delete",
           tx'[d].type = "create" => tx'[d].row \in NewRows /\ ~\E c : CreateOf(c, tx'[d].row),
           tx'[d].type # "create" => (tx'[d].row \in NewRows => \E c : CreateOf(c, tx'[d].row)),
           \A t \in Issued : tx[t].type = "delete" /\ tx[t].row = tx'[d].row => tx[t].status = "failed",
           \/ tx'[d].status = "pending" /\ tx'[d].attempts = 0
           \/ tx'[d].status = "completed" /\ tx'[d].type = "delete",
           tx'[d].type = "delete" /\ sources'[d] # {}
             => \A t \in Issued : tx[t].row = tx'[d].row => ~Waiting(t)',
           Increasing(staged'), Paired(queue', Lined(tx))
    PROVE  RowByRow'
<1>1. /\ Issued' = Issued \cup {d} /\ d \notin Issued /\ (\A t \in Issued : t < d)
      /\ Live' = Live \cup (IF sources'[d] = {} THEN {} ELSE {d})
  BY IssueCore
<1>2. /\ d \in TxIds /\ tx'[d].env = 0
      /\ \A t \in TxIds \ {d} : WriteKept(t) /\ tx'[t].env = tx[t].env
      /\ saving' = saving \/ saving' = Append(saving, d)
      /\ queue' \in Seq(TxIds) /\ ToSet(staged') \subseteq ToSet(staged) /\ ToSet(queue') \subseteq ToSet(queue)
      /\ UNCHANGED <<batch, phase, backoff, parked, envelope, verdict, log>>
  BY DEF Issues, runner, server
<1>3. /\ Issued \subseteq TxIds \ {d} /\ Live \subseteq Issued /\ ToSet(queue) \subseteq Issued
      /\ ToSet(staged) \subseteq Issued /\ ToSet(batch) \subseteq Issued /\ parked \subseteq Issued
      /\ saving \in Seq(TxIds) /\ ToSet(saving) \subseteq Issued
  BY <1>1, CorePlaces DEF Live, Core, SourcesGood, Homes
<1>4. \A t \in Issued : tx'[t].type = tx[t].type /\ tx'[t].row = tx[t].row /\ tx'[t].env = tx[t].env
  BY <1>2, <1>3 DEF WriteKept, Issued
<1>5. \A a, b \in Issued : SameRow(a, b)' <=> SameRow(a, b)
  BY <1>4 DEF SameRow
<1>6. \A t \in Issued : /\ (Waiting(t)' => Waiting(t)) /\ (Alive(t)' => Alive(t))
                        /\ (Known(t)' <=> Known(t))
                        /\ tx[t].status = "failed" => tx'[t].status = "failed"
  BY <1>2, <1>4 DEF Waiting, Alive, Known
<1>7. \A c, r : CreateOf(c, r)' <=> \/ CreateOf(c, r)
                                    \/ c = d /\ tx'[d].type = "create" /\ tx'[d].row = r
  BY <1>1, <1>4 DEF CreateOf
<1>8. \A t \in Issued : t < d /\ ~(d < t) /\ t <= d
  <2>1. d \in Nat /\ \A t \in Issued : t \in Nat
    BY <1>2, <1>3 DEF TxIds
  <2>2. QED
    BY <1>1, <2>1
<1>a. ~(d < d) /\ d <= d
  <2>1. d \in Nat
    BY <1>2 DEF TxIds
  <2>2. QED
    BY <2>1
<1>9. Origins'
  <2>1. SUFFICES ASSUME NEW t \in Issued'
                 PROVE  /\ tx'[t].type \in {"create", "update", "delete"}
                        /\ tx'[t].high => tx'[t].type = "delete"
                        /\ tx'[t].row \in NewRows => \E c : CreateOf(c, tx[t].row)'
                        /\ \A c : CreateOf(c, tx[t].row)' => c <= t
    BY DEF Origins
  <2>2. PICK r : r = tx'[t].row
    OBVIOUS
  <2>3. \A c : CreateOf(c, tx[t].row)' <=> \/ CreateOf(c, r)
                                           \/ c = d /\ tx'[d].type = "create" /\ tx'[d].row = r
    BY <1>1, <1>4, <2>2 DEF CreateOf
  <2>4. CASE t = d
    BY <1>8, <1>a, <2>2, <2>3, <2>4 DEF CreateOf
  <2>5. CASE t \in Issued
    <3>1. /\ tx[t].type \in {"create", "update", "delete"} /\ (tx[t].high => tx[t].type = "delete")
          /\ tx[t].row \in NewRows => \E c : CreateOf(c, tx[t].row)
          /\ \A c : CreateOf(c, tx[t].row) => c <= t
      BY <2>5 DEF RowByRow, Store, Origins
    <3>2. tx[t].row = r /\ tx'[t].type = tx[t].type /\ tx'[t].high = tx[t].high
      BY <1>4, <2>2, <2>5
    <3>3. ~(tx'[d].type = "create" /\ tx'[d].row = r)
      BY <3>1, <3>2
    <3>4. QED
      BY <2>2, <2>3, <3>1, <3>2, <3>3
  <2>6. QED
    BY <1>1, <2>4, <2>5
<1>10. Endings'
  <2>1. ASSUME NEW e \in Issued', NEW t \in Issued', tx'[e].type = "delete", SameRow(e, t)', e < t
        PROVE  tx'[e].status = "failed"
    <3>1. e \in Issued
      BY <1>1, <1>8, <1>a, <2>1
    <3>2. tx[e].type = "delete"
      BY <1>4, <2>1, <3>1
    <3>3. CASE t = d
      <4>1. tx[e].row = tx'[d].row
        BY <1>4, <2>1, <3>1, <3>3 DEF SameRow
      <4>2. QED
        BY <1>6, <3>1, <3>2, <4>1
    <3>4. CASE t \in Issued
      <4>1. SameRow(e, t)
        BY <1>5, <2>1, <3>1, <3>4
      <4>2. tx[e].status = "failed"
        BY <2>1, <3>1, <3>2, <3>4, <4>1 DEF RowByRow, Store, Endings
      <4>3. QED
        BY <1>6, <3>1, <4>2
    <3>5. QED
      BY <1>1, <3>3, <3>4
  <2>2. ASSUME NEW e \in Live', NEW t \in Issued', tx'[e].type = "delete", SameRow(e, t)', t < e
        PROVE  ~Waiting(t)'
    <3>1. e \in Issued \cup {d}
      BY <1>1, <1>3
    <3>2. t \in Issued
      BY <1>1, <1>8, <1>a, <2>2, <3>1
    <3>3. CASE e = d
      <4>1. sources'[d] # {}
        BY <1>1, <1>3, <2>2, <3>3
      <4>2. tx[t].row = tx'[d].row
        BY <1>4, <2>2, <3>2, <3>3 DEF SameRow
      <4>3. QED
        BY <2>2, <3>2, <3>3, <4>1, <4>2
    <3>4. CASE e \in Live
      <4>1. tx[e].type = "delete" /\ SameRow(e, t)
        BY <1>3, <1>4, <1>5, <2>2, <3>2, <3>4
      <4>2. ~Waiting(t)
        BY <2>2, <3>2, <3>4, <4>1 DEF RowByRow, Store, Endings
      <4>3. QED
        BY <1>6, <3>2, <4>2
    <3>5. QED
      BY <1>1, <3>3, <3>4
  <2>3. QED
    BY <2>1, <2>2 DEF Endings
<1>11. Labels'
  <2>1. ASSUME NEW t \in Issued'
        PROVE  /\ tx'[t].env = 0 => /\ tx'[t].status \notin {"executing", "awaiting_delta"}
                                    /\ tx'[t].status = "completed" => tx'[t].type = "delete"
                                    /\ tx'[t].status = "pending" => tx'[t].attempts = 0
               /\ tx'[t].env # 0 /\ tx'[t].status \in {"awaiting_delta", "completed"} => Known(t)'
               /\ tx'[t].type = "delete" => tx'[t].status # "rolled_back"
               /\ tx'[t].status # "gone"
    <3>1. CASE t = d
      BY <1>2, <3>1
    <3>2. CASE t \in Issued
      <4>1. /\ tx[t].env = 0 => /\ tx[t].status \notin {"executing", "awaiting_delta"}
                                /\ tx[t].status = "completed" => tx[t].type = "delete"
                                /\ tx[t].status = "pending" => tx[t].attempts = 0
            /\ tx[t].env # 0 /\ tx[t].status \in {"awaiting_delta", "completed"} => Known(t)
            /\ tx[t].type = "delete" => tx[t].status # "rolled_back"
            /\ tx[t].status # "gone"
        BY <3>2 DEF RowByRow, Store, Labels
      <4>2. QED
        BY <1>4, <1>6, <3>2, <4>1
    <3>3. QED
      BY <1>1, <3>1, <3>2
  <2>2. \A g \in backoff : \A t \in ToSet(g) : tx'[t].env # 0
    <3>1. \A g \in backoff : \A t \in ToSet(g) : t \in Issued /\ tx[t].env # 0
      BY CorePlaces DEF RowByRow, Store, Labels
    <3>2. QED
      BY <1>4, <3>1
  <2>3. QED
    BY <1>2, <2>1, <2>2 DEF Labels
<1>12. Keyed'
  <2>1. SUFFICES ASSUME NEW l \in DOMAIN envelope, NEW t \in Ops(l) PROVE tx'[t].env = l
    BY <1>2 DEF Keyed, Ops
  <2>2. t \in Issued /\ tx[t].env = l
    BY OpsIssued DEF RowByRow, Store, Keyed
  <2>3. QED
    BY <1>4, <2>2
<1>13. Tidy'
  <2>1. Increasing(saving') /\ ToSet(saving') \subseteq ToSet(saving) \cup {d}
    <3>1. CASE saving' = saving
      BY <3>1 DEF RowByRow, Tidy
    <3>2. CASE saving' = Append(saving, d)
      <4>1. Increasing(saving) /\ \A a \in ToSet(saving) : a < d
        BY <1>3, <1>8 DEF RowByRow, Tidy
      <4>2. QED
        BY <1>2, <1>3, <3>2, <4>1, AppendIncreasing, ToSetAppend
    <3>3. QED
      BY <1>2, <3>1, <3>2
  <2>2. \A a \in ToSet(staged') : \A b \in ToSet(saving') : a < b
    BY <1>2, <1>3, <1>8, <2>1 DEF RowByRow, Tidy
  <2>3. \A a \in ToSet(queue') : \A b \in ToSet(staged') \cup ToSet(saving') :
          Waiting(a)' /\ tx'[a].type # "delete" => a < b
    BY <1>2, <1>3, <1>4, <1>6, <1>8, <2>1 DEF RowByRow, Tidy
  <2>4. \A e \in parked' : tx'[e].type = "delete"
    BY <1>2, <1>3, <1>4 DEF RowByRow, Tidy
  <2>5. Paired(queue', Lined(tx'))
    <3>1. PICK q : q = queue'
      OBVIOUS
    <3>2. q \in Seq(TxIds) /\ \A i \in 1..Len(q) : q[i] \in Issued
      BY <1>2, <1>3, <3>1, ToSetIn
    <3>3. ASSUME NEW a \in Issued, NEW b \in Issued, InLine(tx, a, b) PROVE InLine(tx', a, b)
      BY <1>4, <1>6, <3>3 DEF InLine, Waiting
    <3>4. \A i, j \in 1..Len(q) : i < j => InLine(tx, q[i], q[j])
      BY <3>1, <3>2, PairedLined
    <3>5. \A i, j \in 1..Len(q) : i < j => InLine(tx', q[i], q[j])
      BY <3>2, <3>3, <3>4
    <3>6. QED
      BY <3>1, <3>2, <3>5, PairedLined
  <2>6. QED
    BY <2>1, <2>2, <2>3, <2>4, <2>5 DEF Tidy
<1>14. Readied'
  <2>1. SUFFICES ASSUME phase = "preparing", Key' = 0 PROVE First(batch)'
    BY <1>2 DEF Readied
  <2>2. batch \in Seq(TxIds) /\ batch[1] \in Issued
    BY <1>3, <2>1, BatchHead
  <2>3. First(batch)
    <3>1. Key = 0
      BY <1>2, <1>4, <2>1, <2>2 DEF Key
    <3>2. QED
      BY <2>1, <3>1 DEF RowByRow, Lines, Readied
  <2>4. \A i \in 1..Len(batch) : batch[i] \in Issued
    BY <1>3, <2>2, ToSetIn
  <2>5. \A i, j \in 1..Len(batch) : i < j /\ SameRow(batch[i], batch[j])' => batch[i] < batch[j]
    <3>1. ASSUME NEW i \in 1..Len(batch), NEW j \in 1..Len(batch), i < j, SameRow(batch[i], batch[j])'
          PROVE  batch[i] < batch[j]
      <4>1. SameRow(batch[i], batch[j])
        <5>1. batch[i] \in Issued /\ batch[j] \in Issued
          BY <2>4
        <5>2. tx'[batch[i]].row = tx'[batch[j]].row
          BY <1>2, <3>1 DEF SameRow
        <5>3. QED
          BY <1>4, <5>1, <5>2 DEF SameRow
      <4>2. QED
        BY <2>3, <3>1, <4>1 DEF First
    <3>2. QED
      BY <3>1
  <2>6. ASSUME NEW t \in ToSet(batch), NEW a \in Issued', a < t, SameRow(a, t)', Alive(a)'
        PROVE  a \in ToSet(batch) \/ Known(a)'
    <3>1. a \in Issued /\ t \in Issued
      BY <1>1, <1>3, <1>8, <2>6
    <3>2. SameRow(a, t) /\ Alive(a)
      BY <1>5, <1>6, <2>6, <3>1
    <3>3. QED
      BY <1>6, <2>3, <2>6, <3>1, <3>2 DEF First
  <2>7. QED
    BY <1>2, <2>5, <2>6 DEF First
<1>15. InKey'
  BY <1>2, <1>5, <1>6, OpsIssued DEF RowByRow, Lines, InKey
<1>16. AcrossKeys'
  <2>1. SUFFICES ASSUME NEW a \in Issued', NEW b \in Issued', a < b, SameRow(a, b)', tx'[b].env # 0, Alive(a)'
                 PROVE  tx'[a].env = tx'[b].env \/ Known(a)'
    BY DEF AcrossKeys
  <2>2. b \in Issued
    BY <1>1, <1>2, <2>1
  <2>3. a \in Issued
    BY <1>1, <1>8, <2>1, <2>2
  <2>4. SameRow(a, b) /\ Alive(a) /\ tx[b].env # 0
    BY <1>4, <1>5, <1>6, <2>1, <2>2, <2>3
  <2>5. tx[a].env = tx[b].env \/ Known(a)
    BY <2>1, <2>2, <2>3, <2>4 DEF RowByRow, Lines, AcrossKeys
  <2>6. QED
    BY <1>4, <1>6, <2>2, <2>3, <2>5
<1>17. InLog'
  <2>1. log' = log /\ envelope' = envelope /\ \A t \in Issued : WriteKept(t) /\ (Alive(t)' => Alive(t))
    BY <1>2, <1>3, <1>6
  <2>2. QED
    BY <2>1, LogOnward DEF RowByRow
<1>18. QED
  BY <1>9, <1>10, <1>11, <1>12, <1>13, <1>14, <1>15, <1>16, <1>17 DEF RowByRow, Store, Lines

(* create and update.                                                      *)
LEMMA WriteRowByRow ==
    ASSUME Core, HistoryGrows, RowByRow, "archive" \notin Kinds, Opts \subseteq {"plain", "keyed"},
           NEW r \in Rows, NEW type \in Kinds, NEW opt \in Opts, Write(type, r, opt)
    PROVE  RowByRow'
<1>1. PICK d : d = NextId
  OBVIOUS
<1>2. /\ Issues(d) /\ d \in TxIds /\ tx'[d].status = "pending" /\ staged' = staged /\ queue' = queue
      /\ \A t \in TxIds \ {d} : tx'[t] = tx[t]
  BY <1>1, WriteIssues DEF Issues
<1>3. d \notin Issued /\ Issued \subseteq TxIds
  BY <1>2, IssueCore, CorePlaces
<1>4. /\ tx' = [tx EXCEPT ![d] = NewTx(type, r, opt)] /\ type # "delete"
      /\ type = "create" => r \in NewRows /\ ~\E u \in Issued : tx[u].type = "create" /\ tx[u].row = r
      /\ type # "create" => Visible(r)
  BY <1>1, Zenon DEF Write
<1>5. /\ tx'[d].type = type /\ tx'[d].row = r /\ tx'[d].attempts = 0
      /\ tx'[d].high = (type = "delete" \/ opt = "reorder")
  BY <1>2, <1>4, NewTxFacts, CorePlaces
<1>6. type \in {"create", "update", "delete"} /\ ~tx'[d].high
  <2>1. opt # "reorder"
    OBVIOUS
  <2>2. QED
    BY <1>4, <1>5, <2>1, QueueAssumption
<1>7. type = "create" => r \in NewRows /\ ~\E c : CreateOf(c, r)
  BY <1>4 DEF CreateOf
<1>8. type # "create" => (r \in NewRows => \E c : CreateOf(c, r))
  BY <1>4 DEF Visible, CreateOf
<1>9. ASSUME NEW t \in Issued, tx[t].type = "delete", tx[t].row = r PROVE tx[t].status = "failed"
  <2>1. CASE type = "create"
    BY <1>7, <1>9, <2>1 DEF RowByRow, Store, Origins
  <2>2. CASE type # "create"
    BY <1>4, <1>9, <2>2 DEF Visible, RowByRow, Store, Labels
  <2>3. QED
    BY <2>1, <2>2
<1>10. Increasing(staged') /\ Paired(queue', Lined(tx))
  BY <1>2 DEF RowByRow, Tidy
<1>11. \A t \in Issued : /\ tx'[t].attempts = tx[t].attempts /\ tx'[t].high = tx[t].high
                         /\ tx'[t].status = tx[t].status
  BY <1>2, <1>3
<1>12. QED
  BY <1>2, <1>4, <1>5, <1>6, <1>7, <1>8, <1>9, <1>10, <1>11, IssueRowByRow

(* Filtering keeps an increasing sequence increasing.                      *)
LEMMA KeepIncreasing ==
    ASSUME NEW s \in Seq(TxIds), Increasing(s), NEW S
    PROVE  Increasing(Keep(s, S))
<1> DEFINE R == {p \in TxIds \X TxIds : p[1] < p[2]}
           u == Keep(s, S)
<1>1. \A x, y \in TxIds : <<x, y>> \in R <=> x < y
  OBVIOUS
<1> HIDE DEF R
<1>2. \A i \in 1..Len(s) : s[i] \in TxIds
  BY ToSetIn
<1>3. Paired(s, R)
  BY <1>1, <1>2 DEF Paired, Increasing
<1>4. u \in Seq(TxIds) /\ Paired(u, R)
  BY <1>3, KeepPaired, KeepFacts
<1> HIDE DEF u
<1>5. \A i \in 1..Len(u) : u[i] \in TxIds
  BY <1>4, ToSetIn
<1>6. Increasing(u)
  BY <1>1, <1>4, <1>5 DEF Paired, Increasing
<1>7. QED
  BY <1>6 DEF u

(* A new delete starts unattempted.                                        *)
LEMMA RemoveRowNew ==
    ASSUME Core, NEW r \in Rows, RemoveRow(r)
    PROVE  tx'[NextId].attempts = 0
<1>1. PICK d : d = NextId
  OBVIOUS
<1> DEFINE n == NewTx("delete", r, "plain")
           W == WithStatus(tx, Superseded(r), "rolled_back")
<1>2. tx' = [W EXCEPT ![d] = n] /\ d \in TxIds /\ "delete" \in Kinds
  BY <1>1, Zenon DEF RemoveRow, CanIssue
<1>a. tx \in [TxIds -> TxType] /\ "rolled_back" \in Statuses
  BY CorePlaces DEF Statuses
<1>3. W \in [TxIds -> TxType]
  BY <1>a, StatusAttempts
<1>4. n.attempts = 0
  BY <1>2, NewTxFacts
<1> HIDE DEF n, W
<1>5. QED
  BY <1>1, <1>2, <1>3, <1>4

(* A delete of a row: its updates are cancelled, and its create was sent.  *)
LEMMA RemoveRowRowByRow ==
    ASSUME Core, HistoryGrows, RowByRow, NEW r \in Rows, RemoveRow(r)
    PROVE  RowByRow'
<1>1. PICK d : d = NextId
  OBVIOUS
<1>2. /\ Issues(d) /\ d \in TxIds /\ tx'[d].status = "pending" /\ tx'[d].type = "delete" /\ tx'[d].row = r
      /\ \A t \in TxIds \ {d} :
           tx'[t].status = IF t \in Superseded(r) THEN "rolled_back" ELSE tx[t].status
      /\ staged' = staged /\ queue' = queue /\ tx'[d].attempts = 0
  BY <1>1, RemoveRowIssues, RemoveRowNew DEF Issues
<1>3. d \notin Issued /\ Issued \subseteq TxIds /\ tx \in [TxIds -> TxType]
  BY <1>2, IssueCore, CorePlaces
<1>4. ASSUME NEW t \in Issued
      PROVE  \/ tx'[t].status = tx[t].status
             \/ /\ tx'[t].status = "rolled_back" /\ tx[t].type # "delete"
                /\ tx[t].status \in {"pending", "executing"}
  BY <1>2, <1>3 DEF Superseded
<1>5. \A t \in Issued : tx'[t].attempts = tx[t].attempts /\ tx'[t].high = tx[t].high
  BY <1>1, <1>3, RemoveRowAttempts
<1>6. Visible(r) /\ UnsentCreates(r) = {}
  BY Zenon DEF RemoveRow
<1>7. r \in NewRows => \E c : CreateOf(c, r)
  BY <1>6 DEF Visible, CreateOf
<1>8. \A t \in Issued : tx[t].type = "delete" /\ tx[t].row = r => tx[t].status = "failed"
  BY <1>6 DEF Visible, RowByRow, Store, Labels
<1>9. ASSUME NEW t \in Issued, tx[t].row = r, Waiting(t)' PROVE FALSE
  <2>1. tx'[t].env = tx[t].env /\ tx'[t].status = "pending" /\ tx'[t].env = 0
    BY <1>2, <1>3, <1>9 DEF Issues, Waiting
  <2>2. t \notin Superseded(r) /\ tx[t].status = "pending"
    BY <1>2, <1>3, <2>1
  <2>3. tx[t].type \in {"create", "update", "delete"} /\ tx[t].attempts = 0
    BY <2>1, <2>2 DEF RowByRow, Store, Origins, Labels
  <2>4. tx[t].type # "update"
    BY <1>9, <2>2 DEF Superseded
  <2>5. tx[t].type # "create"
    BY <1>6, <1>9, <2>2, <2>3 DEF UnsentCreates
  <2>6. QED
    BY <1>8, <1>9, <2>2, <2>3, <2>4, <2>5
<1>10. Increasing(staged') /\ Paired(queue', Lined(tx))
  BY <1>2 DEF RowByRow, Tidy
<1>11. QED
  BY <1>2, <1>4, <1>5, <1>7, <1>8, <1>9, <1>10, IssueRowByRow

(* A delete that cancels an unsent create is over at once.                 *)
LEMMA RemoveUnsentRowByRow ==
    ASSUME Core, HistoryGrows, RowByRow, NEW r \in Rows, RemoveUnsent(r)
    PROVE  RowByRow'
<1>1. PICK d : d = NextId
  OBVIOUS
<1>2. /\ Issues(d) /\ d \in TxIds /\ tx'[d].status = "completed" /\ tx'[d].type = "delete" /\ tx'[d].row = r
      /\ sources' = sources
      /\ \E c \in UnsentCreates(r) :
           /\ \A t \in TxIds \ {d} :
                /\ tx'[t].status = IF t = c THEN "rolled_back" ELSE tx[t].status
                /\ tx'[t].conf = IF t = c /\ tx[t].conf = "open" THEN "cancelled" ELSE tx[t].conf
           /\ purging' = purging \cup Purged({c})
           /\ ToSet(staged') = ToSet(staged) \ {c}
           /\ ToSet(queue) \ {c} \subseteq ToSet(queue')
  BY <1>1, RemoveUnsentIssues DEF Issues
<1>3. d \notin Issued /\ Issued \subseteq TxIds /\ staged \in Seq(TxIds) /\ queue \in Seq(TxIds)
  BY <1>2, IssueCore, CorePlaces
<1>4. ASSUME NEW t \in Issued
      PROVE  \/ tx'[t].status = tx[t].status
             \/ /\ tx'[t].status = "rolled_back" /\ tx[t].type # "delete"
                /\ tx[t].status \in {"pending", "executing"}
  BY <1>2, <1>3 DEF UnsentCreates
<1>5. \A t \in Issued : tx'[t].attempts = tx[t].attempts /\ tx'[t].high = tx[t].high
  BY <1>1, <1>3, RemoveUnsentAttempts
<1>6. sources'[d] = {}
  BY <1>2, <1>3 DEF Core, SourcesGood
<1>7. Visible(r)
  BY Zenon DEF RemoveUnsent
<1>8. r \in NewRows => \E c : CreateOf(c, r)
  BY <1>7 DEF Visible, CreateOf
<1>9. \A t \in Issued : tx[t].type = "delete" /\ tx[t].row = r => tx[t].status = "failed"
  BY <1>7 DEF Visible, RowByRow, Store, Labels
<1>10. PICK c : /\ staged' = Keep(staged, TxIds \ {c})
                /\ queue' = IF Contains(staged, c) THEN queue ELSE Keep(queue, TxIds \ {c})
  BY Zenon DEF RemoveUnsent
<1>11. Increasing(staged')
  BY <1>3, <1>10, KeepIncreasing DEF RowByRow, Tidy
<1>12. Paired(queue', Lined(tx))
  <2>1. queue' = queue \/ queue' = Keep(queue, TxIds \ {c})
    BY <1>10
  <2>2. QED
    BY <1>3, <2>1, KeepPaired DEF RowByRow, Tidy
<1>13. QED
  BY <1>2, <1>4, <1>5, <1>6, <1>8, <1>9, <1>11, <1>12, IssueRowByRow

(* No batch waits for a basis: no write carries an intent.                 *)
LEMMA AlwaysPrepared ==
    ASSUME Core, Opts \subseteq {"plain", "keyed"}, PrepareTransient \/ PreparePermanent
    PROVE  FALSE
<1>1. PICK t \in ToSet(batch) : Unsealed(t)
  BY Zenon DEF PrepareTransient, PreparePermanent
<1>2. tx[t] \in TxType
  BY CorePlaces
<1>3. QED
  BY <1>1, <1>2 DEF Unsealed, TxType

(* Every step of one process keeps the rows in order.                      *)
LEMMA RowByRowStep ==
    ASSUME Core, RowByRow, "archive" \notin Kinds, Opts \subseteq {"plain", "keyed"}, Next, ~CrashRestart
    PROVE  RowByRow'
<1>0. HistoryGrows
  BY HistoryStep
<1>1. ASSUME NEW r \in Rows, NEW type \in Kinds, NEW opt \in Opts, Write(type, r, opt) PROVE RowByRow'
  BY <1>0, <1>1, WriteRowByRow
<1>2. ASSUME NEW r \in Rows, RemoveUnsent(r) PROVE RowByRow'
  BY <1>0, <1>2, RemoveUnsentRowByRow
<1>3. ASSUME NEW r \in Rows, RemoveRow(r) PROVE RowByRow'
  BY <1>0, <1>3, RemoveRowRowByRow
<1>4. ASSUME NEW r \in Rows, CascadeCancel(r) PROVE RowByRow'
  BY <1>0, <1>4, CascadeRowByRow
<1>5. ASSUME NEW u \in TxIds, ReplicationLag(u) PROVE RowByRow'
  BY <1>0, <1>5, LagRowByRow
<1>6. ASSUME envelope' = envelope, log' = log,
             UNCHANGED <<tx, sources, saving, staged, queue, parked, backoff, batch>>,
             phase' = phase \/ phase' # "preparing"
      PROVE  RowByRow'
  BY <1>0, <1>6, IdleRowByRow DEF SameKeys
<1>7. CASE Persisted \/ PersistFailed
  BY <1>0, <1>7, PersistedRowByRow, PersistFailedRowByRow
<1>8. CASE CommitStaged \/ DrainPending
  BY <1>0, <1>8, StagedRowByRow
<1>9. ASSUME NEW g \in backoff, RetryTimer(g) PROVE RowByRow'
  BY <1>0, <1>9, RetryRowByRow
<1>10. CASE StartBatch \/ Prepared
  BY <1>0, <1>10, StartBatchRowByRow, PreparedRowByRow
<1>11. CASE PrepareTransient \/ PreparePermanent
  BY <1>11, AlwaysPrepared
<1>12. CASE Seal
  <2>1. SameKeys /\ UNCHANGED <<memory, batch, log>> /\ phase' # "preparing"
    BY <1>12, SealFacts DEF SameKeys, server
  <2>2. QED
    BY <1>0, <2>1, IdleRowByRow DEF memory
<1>13. CASE BatchEnds
  BY <1>0, <1>13, BatchEndsRowByRow
<1>14. CASE ConfirmStep
  BY <1>0, <1>14, ConfirmRowByRow
<1>15. CASE Dispatch \/ LaneSend \/ LaneStep \/ \E t \in TxIds : PurgeLands(t)
  <2>1. /\ UNCHANGED <<memory, batch, envelope, log>> /\ (phase' = phase \/ phase' # "preparing")
    BY <1>15 DEF Dispatch, LaneSend, LaneStep, LaneReceipt, LaneTransient, LaneConfirmed, PurgeLands,
         runner, storage, server
  <2>2. QED
    BY <1>6, <2>1 DEF memory
<1>16. ASSUME NEW k \in Keys, NEW reply \in Replies, ServerDecides(k, reply) PROVE RowByRow'
  BY <1>0, <1>16, DecideRowByRow
<1>17. QED
  BY <1>1, <1>2, <1>3, <1>4, <1>5, <1>7, <1>8, <1>9, <1>10, <1>11, <1>12, <1>13,
     <1>14, <1>15, <1>16, NextCases

(* The log of the server is in the order of every row.                     *)
LEMMA RowByRowOrder ==
    ASSUME Core, RowByRow
    PROVE  SameRowOrder
<1>1. SUFFICES ASSUME NEW a, NEW b, AppliedBefore(a, b), tx[a].row = tx[b].row,
                      tx[b].status \notin {"failed", "rolled_back"}
               PROVE  a < b
  BY DEF SameRowOrder
<1>2. log \in Seq(Keys) /\ DOMAIN log = 1..Len(log) /\ \A i \in DOMAIN log : log[i] \in DOMAIN envelope
  BY CorePlaces, TypeParts, ToSetIn DEF Core, StorageTyped
<1>3. PICK i, j \in DOMAIN log : \E m \in DOMAIN OpsAt(i), n \in DOMAIN OpsAt(j) :
        /\ i < j \/ (i = j /\ m < n)
        /\ OpsAt(i)[m] = a /\ OpsAt(j)[n] = b
  BY <1>1 DEF AppliedBefore
<1>4. PICK m \in DOMAIN OpsAt(i), n \in DOMAIN OpsAt(j) :
        /\ i < j \/ (i = j /\ m < n)
        /\ OpsAt(i)[m] = a /\ OpsAt(j)[n] = b
  BY <1>3
<1>5. OpsAt(i) = envelope[log[i]].ops /\ OpsAt(j) = envelope[log[j]].ops
  BY DEF OpsAt
<1>6. envelope[log[i]].ops \in Seq(TxIds) /\ envelope[log[j]].ops \in Seq(TxIds)
  BY <1>2, OpsIssued
<1>7. m \in 1..Len(envelope[log[i]].ops) /\ n \in 1..Len(envelope[log[j]].ops)
  BY <1>4, <1>5, <1>6, LenProperties
<1>8. SameRow(a, b) /\ Alive(b)
  BY <1>1 DEF SameRow, Alive
<1>9. CASE i < j
  <2>1. a \in Ops(log[i]) /\ b \in Ops(log[j])
    BY <1>4, <1>5, <1>6, <1>7, ToSetIn DEF Ops
  <2>2. QED
    BY <1>2, <1>8, <1>9, <2>1 DEF RowByRow, Lines, InLog
<1>10. CASE i = j /\ m < n
  <2>1. a = envelope[log[i]].ops[m] /\ b = envelope[log[i]].ops[n] /\ n \in 1..Len(envelope[log[i]].ops)
    BY <1>4, <1>5, <1>7, <1>10
  <2>2. QED
    BY <1>2, <1>7, <1>8, <1>10, <2>1 DEF RowByRow, Lines, InKey
<1>11. QED
  BY <1>4, <1>9, <1>10

(* Until the process first crashes, and if the application uses plain and  *)
(* keyed writes and no archives, the server applies the writes of a row in *)
(* the order the application issued them, except those given up or         *)
(* superseded: whatever the batches, the retries and the priority of       *)
(* deletes, takeNextExecutionBatch never lets a write overtake another.    *)
THEOREM RowsAreAppliedInOrder ==
    Spec => [](/\ crashes = 0 /\ Opts \subseteq {"plain", "keyed"} /\ "archive" \notin Kinds
               => SameRowOrder)
<1> DEFINE Plain   == Opts \subseteq {"plain", "keyed"} /\ "archive" \notin Kinds
           Ordered == crashes = 0 /\ Plain => RowByRow
<1>1. Init => Ordered
  <2>1. SUFFICES ASSUME Init PROVE RowByRow
    OBVIOUS
  <2>2. /\ Issued = {} /\ DOMAIN envelope = {} /\ Live = {} /\ backoff = {} /\ parked = {}
        /\ saving = <<>> /\ staged = <<>> /\ queue = <<>> /\ log = <<>> /\ phase = "idle"
    BY <2>1 DEF Init, Issued, NoTx, Live
  <2>3. Origins /\ Endings /\ Labels /\ Keyed
    BY <2>2 DEF Origins, Endings, Labels, Keyed
  <2>4. Tidy
    <3>1. ToSet(queue) = {} /\ ToSet(staged) = {}
      BY <2>2 DEF ToSet
    <3>2. Increasing(saving) /\ Increasing(staged) /\ Paired(queue, Lined(tx))
      BY <2>2 DEF Increasing, Paired
    <3>3. QED
      BY <2>2, <3>1, <3>2 DEF Tidy
  <2>5. Lines
    BY <2>2 DEF Lines, Readied, InKey, AcrossKeys, InLog
  <2>6. QED
    BY <2>3, <2>4, <2>5 DEF RowByRow, Store
<1>2. Core /\ Ordered /\ [Next]_vars => Ordered'
  <2>1. SUFFICES ASSUME Core, Ordered, [Next]_vars, crashes' = 0, Plain
                 PROVE  RowByRow'
    OBVIOUS
  <2>2. RowByRow /\ ~CrashRestart
    BY <2>1, CrashesKept
  <2>3. CASE UNCHANGED vars
    <3>1. /\ UNCHANGED <<tx, sources, saving, staged, queue, parked, backoff, batch>>
          /\ UNCHANGED <<envelope, verdict, log, phase>>
      BY <2>3 DEF vars, memory, runner, storage, server
    <3>2. HistoryGrows /\ SameKeys
      BY <3>1, SameHistory DEF SameKeys
    <3>3. QED
      BY <2>1, <2>2, <3>1, <3>2, IdleRowByRow
  <2>4. QED
    BY <2>1, <2>2, <2>3, RowByRowStep
<1>3. Core /\ Ordered => (crashes = 0 /\ Plain => SameRowOrder)
  BY RowByRowOrder
<1>4. QED
  BY <1>1, <1>2, <1>3, QueueCore, PTL DEF Spec
=============================================================================
