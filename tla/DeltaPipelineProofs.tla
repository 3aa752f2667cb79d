------------------------ MODULE DeltaPipelineProofs ------------------------
(***************************************************************************)
(* Proofs about the delta pipeline. Two invariants are carried along. Core *)
(* is about the drain: the batch that is being written and revealed is in  *)
(* order, each of its deltas waits for its store or has a result, and a    *)
(* result with something to show belongs to a stored delta and carries its *)
(* transaction id; so the prefix that is acknowledged is stored, and a     *)
(* slice that ends where the transaction id changes cuts through no intact *)
(* commit. Fenced is about a sync-group removal, for a server that answers *)
(* catch-up requests in one response: no frame on the wire ends before the *)
(* removal, and what is queued, drained or shown is later than it. A frame *)
(* that reaches back over the removal delivers it again, because a removal *)
(* is visible; that is what makes a redelivery harmless.                   *)
(***************************************************************************)
EXTENDS DeltaPipeline, TLAPS, FiniteSetTheorems, WellFoundedInduction, SequenceTheorems

Actions == {"add", "update", "remove", "verify"}
Stores  == {StoreOf[r] : r \in Row}
Flags   == UNION {[T -> Actions] : T \in SUBSET Nat}

FrameType(h) == [type : {"delta", "batch", "chunk", "end"}, ids : Seq(1..h), to : 0..h]
JobType(h)   == [ids : Seq(1..h), position : 0..h, state : {"new", "await", "done"}]
FlushType(h) ==
    [phase : Phases, current : BOOLEAN, ids : Seq(1..h), todo : SUBSET Stores,
     read : {<<>>} \cup [Row -> [Field -> 0..h]], ok : SUBSET (1..h), acts : Flags,
     prefix : 0..h, done : Nat, held : Flags]

ServerTyped ==
    /\ log \in Seq(Delta) /\ mode \in {"batch", "chunks"} /\ InOnePiece(log)
    /\ head \in Start..Len(log) /\ link \in BOOLEAN
    /\ sent \in {-1} \cup 0..head /\ request \in {-1} \cup 0..head
    /\ wire \in Seq(FrameType(head))

ClientTyped ==
    /\ cursor \in 0..head /\ applied \in 0..head /\ persisted \in 0..head /\ meta \in 0..head
    /\ pending \in Seq(1..head) /\ timer \in BOOLEAN
    /\ queue = NoQueue \/ queue \in Seq(1..head)
    /\ lane \in Seq(JobType(head)) /\ laneOk \in BOOLEAN
    /\ stored \in [Row -> [Field -> 0..head]] /\ pool \in [Row -> 0..head]
    /\ revoke \in {"idle", "clearing", "cleared"}
    /\ boot \in {"idle", "fetching", "fetched", "cleared"} /\ snapshot \in 0..head

HistoryTyped ==
    /\ durable \subseteq Ids /\ failed \subseteq Ids /\ lost \subseteq Ids /\ deferred \subseteq Ids
    /\ rebuild \in BOOLEAN /\ revokedAt \in 0..head /\ faults \in Nat

Increasing(s) == \A i, j \in 1..Len(s) : i < j => s[i] < s[j]

(* A frame is what is visible of a stretch of the log, in order.           *)
Spans(f) ==
    /\ Increasing(f.ids)
    /\ \E lo \in 0..f.to : Range(f.ids) = {i \in (lo + 1)..f.to : Visible(i)}

WireGood ==
    \A k \in 1..Len(wire) :
        Spans(wire[k]) /\ (wire[k].type = "delta" => wire[k].ids = <<wire[k].to>>)

(* The batch f that is being drained, over the log l, when the changes fl  *)
(* have failed.  Each delta waits for its store, or has a result; one with *)
(* something to reveal carries its transaction id.                         *)
BatchGood(f) ==
    /\ Increasing(f.ids)
    /\ f.done \in 0..Len(f.ids)
    /\ f.ok \subseteq Range(f.ids)
    /\ f.phase \in {"idle", "loop"} => f.ids = <<>>
    /\ f.phase = "persist" => f.done = 0

Waits(f, l, id) ==
    /\ f.phase = "persist" /\ StoreOf[l[id].row] \in f.todo
    /\ ~Superseded(l, f.ids, id)

Shows(f, l, id) ==
    \/ f.acts[id] = "verify"
    \/ id \in f.ok /\ ~Superseded(l, f.ids, id)
    \/ f.phase = "apply" /\ (f.current => id \in DOMAIN f.held)

ResultsGood(f, l, fl) ==
    \A id \in Range(f.ids) :
        \/ Waits(f, l, id)
        \/ id \in DOMAIN f.acts /\ id \in f.ok \cup fl /\ Shows(f, l, id)

Excused(f, l, fl, t) ==
    \E i \in Range(f.ids) \cup fl : l[i].tx = t /\ (i \in fl \/ Superseded(l, f.ids, i))

WholeGood(f, l, fl) ==
    f.phase = "apply" =>
        \A j \in 1..f.done, k \in (f.done + 1)..Len(f.ids) :
            \/ l[f.ids[j]].tx = NoTx \/ l[f.ids[j]].tx # l[f.ids[k]].tx
            \/ "verify" \in {f.acts[f.ids[j]], f.acts[f.ids[k]]}
            \/ Excused(f, l, fl, l[f.ids[j]].tx)

PrefixGood(f) ==
    f.phase = "apply" => f.prefix = HighestPersistedPrefix(f.ids, f.ok)

FlushGood(f, l, fl, h) ==
    /\ f \in FlushType(h)
    /\ BatchGood(f) /\ ResultsGood(f, l, fl) /\ WholeGood(f, l, fl) /\ PrefixGood(f)

FlushInv == FlushGood(flush, log, failed, head)

(* What a batch counts as stored is in the stores, unless they are being   *)
(* rebuilt.                                                                *)
Stored(f, dur) == (f.phase = "persist" /\ f.todo # {}) \/ f.ok \subseteq dur

DurableGood == rebuild \/ Stored(flush, durable)

(* While a rebuild is under way live deltas wait, or the link is down and  *)
(* everything on its way is covered by the snapshot.                       *)
RebuildGood ==
    /\ revoke # "idle" \/ boot = "cleared" => rebuild
    /\ boot # "idle" /\ queue = NoQueue => ~link
    /\ queue # NoQueue => flush = Idle /\ pending = <<>> /\ revoke = "idle" /\ revokedAt = 0
    /\ queue = NoQueue /\ boot \in {"fetched", "cleared"} =>
            /\ \A i \in Range(pending) : i <= snapshot
            /\ \A i \in Range(flush.ids) : i <= snapshot
            /\ \A k \in 1..Len(lane) : \A i \in Range(lane[k].ids) : i <= snapshot

(* Removal, when every answer is one response.  No frame that is still to  *)
(* come reaches back over the removal without delivering it again.         *)
Follows(s) ==
    \A p, q \in 1..Len(s) :
        p < q /\ IsRemoval(s[p]) /\ s[q] <= s[p] =>
            \E r \in q..Len(s) : IsRemoval(s[r]) /\ s[r] >= s[p]

OrderedWire(w, last, q) ==
    \A k \in 1..Len(w) :
        /\ w[k].type \in {"delta", "batch"}
        /\ last <= w[k].to
        /\ q # NoQueue => \A x \in 1..Len(q) : q[x] <= w[k].to
        /\ \A j \in 1..k : w[j].to <= w[k].to

InOrderWire ==
    /\ lane = <<>>
    /\ OrderedWire(wire, revokedAt, queue)
    /\ queue # NoQueue => Follows(queue)

(* What may still be shown is later than b.                                *)
LaterThan(b, p, f) ==
    /\ \A i \in Range(p) : i > b
    /\ f.current => \A i \in Range(f.ids) : i > b

RemovalGood ==
    /\ revokedAt > 0 => IsRemoval(revokedAt)
    /\ LaterThan(revokedAt, pending, flush)
    /\ queue = NoQueue /\ boot \in {"fetched", "cleared"} => revokedAt <= snapshot
    /\ NoStaleReveal

Core ==
    /\ ServerTyped /\ ClientTyped /\ HistoryTyped
    /\ WireGood /\ FlushInv /\ DurableGood /\ RebuildGood

Fenced == InOrderWire /\ RemovalGood

PipelineInv == Core /\ (mode = "batch" => Fenced)

-----------------------------------------------------------------------------
(* Numbers, sequences and the operators of DeltaBatch.                     *)

(* A non-empty set of natural numbers has a least member.                  *)
LEMMA LeastNat ==
    ASSUME NEW T \in SUBSET Nat, T # {}
    PROVE  \E m \in T : \A k \in T : m <= k
<1> DEFINE F == {0..m : m \in T}
<1>1. F \subseteq FiniteSubsetsOf(Nat) /\ F # {}
  <2>1. \A m \in Nat : IsFiniteSet(0..m) /\ 0..m \in SUBSET Nat
    BY FS_Interval
  <2>2. QED
    BY <2>1 DEF FiniteSubsetsOf
<1>2. PICK X \in F : \A Y \in F : ~(<<Y, X>> \in StrictSubsetOrdering(Nat))
  BY <1>1, FS_StrictSubsetOrderingWellFounded, WFMin
<1>3. PICK m \in T : X = 0..m
  BY <1>2
<1>4. \A k \in T : m <= k
  <2>1. SUFFICES ASSUME NEW k \in T, k < m PROVE FALSE
    OBVIOUS
  <2>2. 0..k \in F /\ 0..k \in SUBSET Nat /\ X \in SUBSET Nat
    BY <1>3
  <2>3. 0..k \subseteq X /\ m \in X /\ m \notin 0..k
    BY <1>3, <2>1
  <2>4. <<0..k, X>> \in StrictSubsetOrdering(Nat)
    BY <2>2, <2>3 DEF StrictSubsetOrdering
  <2>5. QED
    BY <1>2, <2>2, <2>4
<1>5. QED
  BY <1>4

(* A non-empty set of numbers up to n has a greatest member.               *)
LEMMA MaxExists ==
    ASSUME NEW n \in Nat, NEW T \in SUBSET (0..n), T # {}
    PROVE  \E m \in T : \A k \in T : k <= m
<1> DEFINE U == {b \in Nat : \A k \in T : k <= b}
<1>1. n \in U
  OBVIOUS
<1>2. PICK b \in U : \A c \in U : b <= c
  BY <1>1, LeastNat
<1>3. b \in T
  <2>1. SUFFICES ASSUME b \notin T PROVE FALSE
    OBVIOUS
  <2>2. \A k \in T : k \in Nat /\ k <= b /\ k # b
    BY <2>1
  <2>3. b # 0
    <3>1. PICK k \in T : TRUE
      OBVIOUS
    <3>2. QED
      BY <2>2, <3>1
  <2>4. b - 1 \in Nat /\ \A k \in T : k <= b - 1
    BY <2>2, <2>3
  <2>5. QED
    BY <1>2, <2>4
<1>4. QED
  BY <1>2, <1>3

(* MaxOf returns the greatest member of a non-empty set of log positions.  *)
LEMMA MaxOfMember ==
    ASSUME NEW n \in Nat, NEW T \in SUBSET (0..n), T # {}, NEW d
    PROVE  MaxOf(T, d) \in T /\ \A k \in T : k <= MaxOf(T, d)
BY MaxExists DEF MaxOf

(* MaxOf returns a position when its default is one.                       *)
LEMMA MaxOfType ==
    ASSUME NEW n \in Nat, NEW T \in SUBSET (0..n), NEW d \in 0..n
    PROVE  MaxOf(T, d) \in 0..n
BY MaxOfMember DEF MaxOf

(* MaxOf of the empty set is its default.                                  *)
LEMMA MaxOfEmpty == \A d : MaxOf({}, d) = d
BY DEF MaxOf


(* The range of a sequence is the set of its elements.                     *)
LEMMA RangeIn ==
    ASSUME NEW A, NEW s \in Seq(A)
    PROVE  /\ Range(s) \subseteq A
           /\ \A x : x \in Range(s) <=> \E i \in 1..Len(s) : s[i] = x
           /\ \A i \in 1..Len(s) : s[i] \in Range(s) /\ s[i] \in A
BY DEF Range

(* Appending one queue to another joins their ranges.                      *)
LEMMA RangeConcat ==
    ASSUME NEW A, NEW s \in Seq(A), NEW t \in Seq(A)
    PROVE  s \o t \in Seq(A) /\ Range(s \o t) = Range(s) \cup Range(t)
<1>1. s \o t \in Seq(A) /\ Len(s \o t) = Len(s) + Len(t)
  OBVIOUS
<1>2. ASSUME NEW i \in 1..Len(s \o t) PROVE (s \o t)[i] \in Range(s) \cup Range(t)
  <2>1. CASE i <= Len(s)
    BY <2>1, <1>1, RangeIn
  <2>2. CASE i > Len(s)
    <3>1. i - Len(s) \in 1..Len(t) /\ (s \o t)[i] = t[i - Len(s)]
      BY <2>2, <1>1
    <3>2. QED
      BY <3>1, RangeIn
  <2>3. QED
    BY <2>1, <2>2, <1>1
<1>3. ASSUME NEW i \in 1..Len(s) PROVE s[i] \in Range(s \o t)
  <2>1. i \in 1..Len(s \o t) /\ (s \o t)[i] = s[i]
    BY <1>1
  <2>2. QED
    BY <2>1, <1>1, RangeIn
<1>4. ASSUME NEW i \in 1..Len(t) PROVE t[i] \in Range(s \o t)
  <2>1. i + Len(s) \in 1..Len(s \o t) /\ (s \o t)[i + Len(s)] = t[i]
    BY <1>1
  <2>2. QED
    BY <2>1, <1>1, RangeIn
<1> DEFINE w == s \o t
<1> HIDE DEF w
<1>w. w \in Seq(A) /\ \A i \in 1..Len(w) : w[i] \in Range(s) \cup Range(t)
  BY <1>1, <1>2 DEF w
<1>5. \A x \in Range(w) : x \in Range(s) \cup Range(t)
  BY <1>w, RangeIn
<1>6. \A x \in Range(s) \cup Range(t) : x \in Range(w)
  BY <1>3, <1>4, RangeIn DEF w
<1>7. QED
  BY <1>1, <1>5, <1>6 DEF w

(* A sequence over a set is one over a larger set.                         *)
LEMMA SeqMono ==
    ASSUME NEW A, NEW B, A \subseteq B, NEW s \in Seq(A)
    PROVE  s \in Seq(B)
OBVIOUS

(* The empty sequence has no elements.                                     *)
LEMMA RangeEmpty == Range(<<>>) = {} /\ Len(<<>>) = 0 /\ \A A : <<>> \in Seq(A)
<1>1. <<>> \in Seq({}) /\ Len(<<>>) = 0 /\ \A A : <<>> \in Seq(A)
  OBVIOUS
<1> DEFINE e == <<>>
<1> HIDE DEF e
<1>e. e \in Seq({})
  BY <1>1 DEF e
<1>2. Range(e) = {}
  BY <1>e, RangeIn
<1>3. QED
  BY <1>1, <1>2 DEF e

(* The elements of what is left of a sequence from position m on.          *)
LEMMA RangeSub ==
    ASSUME NEW A, NEW s \in Seq(A), NEW m \in 1..(Len(s) + 1)
    PROVE  /\ SubSeq(s, m, Len(s)) \in Seq(A)
           /\ Len(SubSeq(s, m, Len(s))) = Len(s) - m + 1
           /\ \A i \in 1..(Len(s) - m + 1) : SubSeq(s, m, Len(s))[i] = s[i + m - 1]
           /\ Range(SubSeq(s, m, Len(s))) = {s[i] : i \in m..Len(s)}
<1> DEFINE u == SubSeq(s, m, Len(s))
<1>1. Len(s) \in Nat /\ Len(s) - m + 1 \in Nat
  OBVIOUS
<1>2. /\ u \in Seq(A) /\ Len(u) = Len(s) - m + 1
      /\ \A i \in 1..(Len(s) - m + 1) : u[i] = s[i + m - 1]
  <2>1. \A i \in m..Len(s) : s[i] \in A
    BY <1>1
  <2>2. m \in Int /\ Len(s) \in Int
    BY <1>1
  <2>3. u \in Seq(A)
    BY <2>1, <2>2, SubSeqProperties
  <2>4. QED
    BY <1>1, <2>1, <2>2, <2>3, SubSeqProperties
<1> HIDE DEF u
<1>3. Range(u) \subseteq {s[i] : i \in m..Len(s)}
  <2>1. SUFFICES ASSUME NEW x \in Range(u) PROVE x \in {s[j] : j \in m..Len(s)}
    OBVIOUS
  <2>0. PICK i \in 1..Len(u) : u[i] = x
    BY <1>2, RangeIn
  <2>2. i + m - 1 \in m..Len(s) /\ u[i] = s[i + m - 1]
    BY <1>2, <1>1
  <2>3. QED
    BY <2>0, <2>2
<1>4. ASSUME NEW j \in m..Len(s) PROVE s[j] \in Range(u)
  <2>1. j - m + 1 \in 1..Len(u) /\ (j - m + 1) + m - 1 = j
    BY <1>2, <1>1
  <2>2. u[j - m + 1] = s[j]
    BY <1>2, <2>1
  <2>3. QED
    BY <1>2, <2>1, <2>2, RangeIn
<1>5. QED
  BY <1>2, <1>3, <1>4 DEF u


(* InOrder lists a set of positions in increasing order, each of them      *)
(* once.                                                                   *)
LEMMA InOrderFacts ==
    ASSUME NEW n \in Nat, NEW S \in SUBSET (1..n)
    PROVE  InOrder(S) \in Seq(S) /\ Range(InOrder(S)) = S /\ Increasing(InOrder(S))
<1> DEFINE Low(i) == {j \in S : j <= i}
           N == Cardinality(S)
           rank == [i \in S |-> Cardinality(Low(i))]
           o == InOrder(S)
<1>0. \A i \in S : i \in Int
  OBVIOUS
<1>1. IsFiniteSet(S) /\ N \in Nat
  <2>1. IsFiniteSet(1..n)
    BY FS_Interval
  <2>2. IsFiniteSet(S)
    BY <2>1, FS_Subset
  <2>3. QED
    BY <2>2, FS_CardinalityType
<1>2. \A i \in S : /\ IsFiniteSet(Low(i)) /\ Cardinality(Low(i)) \in Nat
                   /\ Cardinality(Low(i)) <= N /\ Cardinality(Low(i)) # 0
  <2>1. ASSUME NEW i \in S
        PROVE  /\ IsFiniteSet(Low(i)) /\ Cardinality(Low(i)) \in Nat
               /\ Cardinality(Low(i)) <= N /\ Cardinality(Low(i)) # 0
    <3>1. Low(i) \in SUBSET S /\ i \in Low(i)
      OBVIOUS
    <3>2. IsFiniteSet(Low(i)) /\ Cardinality(Low(i)) <= N
      BY <3>1, <1>1, FS_Subset
    <3>3. Cardinality(Low(i)) \in Nat
      BY <3>2, FS_CardinalityType
    <3>4. Cardinality(Low(i)) # 0
      BY <3>1, <3>2, FS_EmptySet
    <3>5. QED
      BY <3>2, <3>3, <3>4
  <2>2. QED
    BY <2>1
<1>3. rank \in [S -> 1..N] /\ \A i \in S : rank[i] = Cardinality(Low(i))
  BY <1>1, <1>2
<1>4. \A i, j \in S : i < j => rank[i] < rank[j]
  <2>1. SUFFICES ASSUME NEW i \in S, NEW j \in S, i < j
                 PROVE  Cardinality(Low(i)) < Cardinality(Low(j))
    BY <1>3
  <2>2. Low(i) \in SUBSET Low(j) /\ j \in Low(j) /\ j \notin Low(i)
    <3>1. i \in Int /\ j \in Int
      BY <1>0
    <3>2. \A x \in Int : x <= i => x <= j
      BY <3>1, <2>1
    <3>3. j <= j /\ ~(j <= i)
      BY <3>1, <2>1
    <3>4. QED
      BY <1>0, <3>2, <3>3
  <2>3. Cardinality(Low(i)) <= Cardinality(Low(j)) /\ Cardinality(Low(i)) # Cardinality(Low(j))
    BY <2>2, <1>2, FS_Subset
  <2>4. QED
    BY <2>3, <1>2
<1> HIDE DEF rank, Low
<1>5. \A i, j \in S : rank[i] = rank[j] => i = j
  BY <1>3, <1>4
<1>6. rank \in Surjection(S, 1..N)
  <2>1. rank \in Injection(S, 1..N)
    BY <1>3, <1>5 DEF Injection, IsInjective
  <2>2. IsFiniteSet(1..N) /\ Cardinality(1..N) = N
    BY <1>1, FS_Interval
  <2>3. QED
    BY <2>1, <2>2, <1>1, FS_Injection
<1>7. \A k \in 1..N : \E i \in S : rank[i] = k
  BY <1>6 DEF Surjection
<1>8. o = [k \in 1..N |-> CHOOSE i \in S : Cardinality(Low(i)) = k]
  BY DEF InOrder, Low
<1>9. \A k \in 1..N : o[k] \in S /\ rank[o[k]] = k
  <2>1. SUFFICES ASSUME NEW k \in 1..N PROVE o[k] \in S /\ rank[o[k]] = k
    OBVIOUS
  <2>2. o[k] = CHOOSE i \in S : Cardinality(Low(i)) = k
    BY <1>8
  <2>3. \E i \in S : Cardinality(Low(i)) = k
    BY <1>3, <1>7
  <2>4. o[k] \in S /\ Cardinality(Low(o[k])) = k
    BY <2>2, <2>3
  <2>5. QED
    BY <2>4, <1>3
<1> HIDE DEF o
<1>10. o \in Seq(S) /\ Len(o) = N
  <2>1. o \in [1..N -> S]
    BY <1>8, <1>9
  <2>2. QED
    BY <2>1, <1>1
<1>11. \A i, j \in 1..N : i < j => o[i] < o[j]
  <2>1. SUFFICES ASSUME NEW i \in 1..N, NEW j \in 1..N, i < j, ~(o[i] < o[j]) PROVE FALSE
    OBVIOUS
  <2>2. o[i] \in S /\ o[j] \in S /\ rank[o[i]] = i /\ rank[o[j]] = j
    BY <1>9
  <2>a. o[i] \in Int /\ o[j] \in Int
    BY <2>2, <1>0
  <2>3. o[j] < o[i] \/ o[j] = o[i]
    BY <2>1, <2>a
  <2>4. CASE o[j] < o[i]
    <3>1. j < i
      BY <2>2, <2>4, <1>4
    <3>2. QED
      BY <3>1, <2>1, <1>1
  <2>5. CASE o[j] = o[i]
    BY <2>1, <2>2, <2>5, <1>1
  <2>6. QED
    BY <2>3, <2>4, <2>5
<1>12. Increasing(o)
  BY <1>10, <1>11 DEF Increasing
<1>13. \A x \in S : x \in Range(o)
  <2>1. SUFFICES ASSUME NEW x \in S PROVE \E i \in 1..Len(o) : o[i] = x
    BY <1>10, RangeIn
  <2>2. rank[x] \in 1..N /\ o[rank[x]] = x
    BY <1>3, <1>5, <1>9
  <2>3. QED
    BY <2>2, <1>10
<1>14. Range(o) = S
  BY <1>10, <1>13, RangeIn
<1>15. QED
  BY <1>10, <1>12, <1>14 DEF o

(* deduplicateDeltas returns the same ids in increasing order, whether or  *)
(* not it had to sort them.                                                *)
LEMMA DeduplicateFacts ==
    ASSUME NEW n \in Nat, NEW s \in Seq(1..n)
    PROVE  /\ DeduplicateDeltas(s) \in Seq(1..n) /\ Increasing(DeduplicateDeltas(s))
           /\ Range(DeduplicateDeltas(s)) = Range(s)
<1>1. CASE \A i \in 1..(Len(s) - 1) : s[i] < s[i + 1]
  <2>1. DeduplicateDeltas(s) = s
    BY <1>1 DEF DeduplicateDeltas
  <2> DEFINE T == {d \in Nat : \E i \in 1..Len(s) : i + d + 1 <= Len(s) /\ s[i + d + 1] <= s[i]}
  <2>2. T = {}
    <3>1. SUFFICES ASSUME T # {} PROVE FALSE
      OBVIOUS
    <3>2. PICK d \in T : \A c \in T : d <= c
      BY <3>1, LeastNat
    <3>3. PICK i \in 1..Len(s) : i + d + 1 <= Len(s) /\ s[i + d + 1] <= s[i]
      BY <3>2
    <3>4. d # 0
      BY <1>1, <3>2, <3>3
    <3>5. d - 1 \in Nat /\ i + (d - 1) + 1 = i + d /\ i + d \in 1..(Len(s) - 1)
      BY <3>2, <3>3, <3>4
    <3>6. s[i + d] <= s[i]
      <4>1. s[i + d] < s[i + d + 1]
        BY <1>1, <3>5
      <4>2. \A x \in 1..Len(s) : s[x] \in Int
        OBVIOUS
      <4>3. i + d \in 1..Len(s) /\ i + d + 1 \in 1..Len(s)
        BY <3>2, <3>3, <3>5
      <4>4. s[i] \in Int /\ s[i + d] \in Int /\ s[i + d + 1] \in Int
        BY <4>2, <4>3, <3>3
      <4>5. s[i + d + 1] <= s[i]
        BY <3>3
      <4> HIDE DEF T
      <4>6. QED
        BY <4>1, <4>4, <4>5
    <3>7. d - 1 \in T
      BY <3>5, <3>6
    <3>8. d <= d - 1
      BY <3>2, <3>7
    <3>9. QED
      BY <3>8, <3>2
  <2>3. ASSUME NEW i \in 1..Len(s), NEW j \in 1..Len(s), i < j PROVE s[i] < s[j]
    <3>1. j - i - 1 \in Nat /\ i + (j - i - 1) + 1 = j
      BY <2>3
    <3>2. ~(s[j] <= s[i])
      <4>1. SUFFICES ASSUME s[j] <= s[i] PROVE j - i - 1 \in T
        BY <2>2
      <4>2. QED
        BY <3>1, <4>1
    <3>3. s[i] \in Int /\ s[j] \in Int
      OBVIOUS
    <3>4. QED
      BY <3>2, <3>3
  <2>4. QED
    BY <2>1, <2>3 DEF Increasing
<1>2. CASE ~(\A i \in 1..(Len(s) - 1) : s[i] < s[i + 1])
  <2>1. DeduplicateDeltas(s) = InOrder(Range(s))
    BY <1>2 DEF DeduplicateDeltas
  <2>2. Range(s) \in SUBSET (1..n)
    BY RangeIn
  <2>3. QED
    BY <2>1, <2>2, InOrderFacts, SeqMono
<1>3. QED
  BY <1>1, <1>2


(* The image of a row names positions of the log up to n.                  *)
LEMMA ImageAtType ==
    ASSUME NEW l, NEW n \in Nat, NEW r
    PROVE  ImageAt(l, n, r) \in [Field -> 0..n]
<1> DEFINE B == {i \in 1..n : l[i].row = r /\ l[i].kind \in {"I", "D"}}
           born == MaxOf(B, 0)
           W(f) == {i \in born..n : l[i].row = r /\ l[i].kind = "U" /\ f \in l[i].fields}
<1>1. born \in 0..n
  BY MaxOfType
<1> HIDE DEF born
<1>2. \A f : W(f) \in SUBSET (0..n)
  BY <1>1
<1> HIDE DEF W
<1>3. \A f : MaxOf(W(f), born) \in 0..n
  BY <1>1, <1>2, MaxOfType
<1>4. NoRow \in [Field -> 0..n]
  BY DEF NoRow
<1>5. ImageAt(l, n, r) = IF born = 0 \/ l[born].kind = "D" THEN NoRow
                         ELSE [f \in Field |-> MaxOf(W(f), born)]
  BY DEF ImageAt, born, W
<1>6. QED
  BY <1>3, <1>4, <1>5

(* Every result of the store step is one of the four actions.              *)
LEMMA ActionType == \A l, e, id : Action(l, e, id) \in Actions
BY DEF Action, Actions

(* The records after a store transaction are images of the log.            *)
LEMMA AfterStoreType ==
    ASSUME NEW h \in Nat, NEW l, NEW D \in SUBSET (1..h), \A id \in D : l[id].row \in Row,
           NEW st \in [Row -> [Field -> 0..h]], NEW ex \in [Row -> [Field -> 0..h]]
    PROVE  AfterStore(l, st, ex, D) \in [Row -> [Field -> 0..h]]
<1>1. NoRow \in [Field -> 0..h]
  BY DEF NoRow
<1>2. \A id \in D : Put(l, ex, id) \in [Field -> 0..h]
  <2>1. SUFFICES ASSUME NEW id \in D PROVE Put(l, ex, id) \in [Field -> 0..h]
    OBVIOUS
  <2>2. id \in 0..h /\ ex[l[id].row] \in [Field -> 0..h]
    OBVIOUS
  <2>3. [f \in Field |-> id] \in [Field -> 0..h]
    BY <2>2
  <2>4. [f \in Field |-> IF f \in l[id].fields THEN id ELSE ex[l[id].row][f]] \in [Field -> 0..h]
    BY <2>2
  <2>5. QED
    BY <2>3, <2>4, <1>1 DEF Put
<1> DEFINE M(r) == {id \in D : l[id].row = r /\ Action(l, ex, id) # "verify"}
           last(r) == MaxOf(M(r), 0)
<1>3. \A r : last(r) # 0 => last(r) \in D
  <2>1. SUFFICES ASSUME NEW r, last(r) # 0 PROVE last(r) \in D
    OBVIOUS
  <2>2. M(r) # {}
    BY <2>1, MaxOfEmpty
  <2>3. M(r) \in SUBSET (0..h) /\ M(r) \subseteq D
    <3>1. D \in SUBSET (0..h)
      OBVIOUS
    <3>2. M(r) \subseteq D
      OBVIOUS
    <3> HIDE DEF M
    <3>3. QED
      BY <3>1, <3>2
  <2> HIDE DEF M
  <2>4. last(r) \in M(r)
    BY <2>2, <2>3, MaxOfMember
  <2>5. QED
    BY <2>3, <2>4
<1> HIDE DEF last
<1>4. AfterStore(l, st, ex, D) =
        [r \in Row |-> IF last(r) = 0 THEN st[r] ELSE Put(l, ex, last(r))]
  BY DEF AfterStore, last
<1>5. QED
  BY <1>2, <1>3, <1>4

(* What a slice shows of a row is an old watermark or one of the slice's   *)
(* ids: later than b when both are.                                        *)
LEMMA RevealFacts ==
    ASSUME NEW h \in Nat, NEW l, NEW p \in [Row -> 0..h], NEW slice \in SUBSET (1..h), NEW acts
    PROVE  /\ Reveal(l, p, slice, acts) \in [Row -> 0..h]
           /\ \A b \in Nat, r \in Row :
                (\A id \in slice : id > b) /\ (p[r] # 0 => p[r] > b) =>
                    (Reveal(l, p, slice, acts)[r] # 0 => Reveal(l, p, slice, acts)[r] > b)
<1> DEFINE Mine(r) == {id \in slice : l[id].row = r}
           Did(r, a) == {id \in Mine(r) : acts[id] = a}
           V(r) == IF Did(r, "remove") # {} THEN 0
                   ELSE IF p[r] > 0 THEN MaxOf(Mine(r) \cup {p[r]}, 0)
                   ELSE MaxOf(Did(r, "add"), 0)
<1>1. Reveal(l, p, slice, acts) = [r \in Row |-> V(r)]
  BY DEF Reveal
<1>2. ASSUME NEW r \in Row
      PROVE  /\ V(r) \in 0..h
             /\ V(r) # 0 => V(r) \in slice \/ (p[r] # 0 /\ V(r) \in Nat /\ V(r) >= p[r])
  <2>1. p[r] \in 0..h /\ Mine(r) \in SUBSET (0..h) /\ Did(r, "add") \in SUBSET (0..h)
    <3>1. p[r] \in 0..h /\ slice \in SUBSET (0..h)
      OBVIOUS
    <3>2. QED
      BY <3>1
  <2>2. CASE Did(r, "remove") # {}
    BY <2>2
  <2>3. CASE Did(r, "remove") = {} /\ p[r] > 0
    <3>1. Mine(r) \cup {p[r]} \in SUBSET (0..h) /\ Mine(r) \cup {p[r]} # {}
      BY <2>1
    <3>2. V(r) = MaxOf(Mine(r) \cup {p[r]}, 0)
      BY <2>3
    <3>3. V(r) \in 0..h /\ p[r] <= V(r)
      BY <3>1, <3>2, MaxOfMember
    <3>4. QED
      BY <3>3, <2>1, <2>3
  <2>4. CASE Did(r, "remove") = {} /\ ~(p[r] > 0)
    <3>1. V(r) = MaxOf(Did(r, "add"), 0)
      BY <2>4
    <3>2. CASE Did(r, "add") = {}
      BY <3>1, <3>2, MaxOfEmpty
    <3>3. CASE Did(r, "add") # {}
      <4>1. V(r) \in Did(r, "add")
        BY <3>1, <3>3, <2>1, MaxOfMember
      <4>2. QED
        BY <4>1, <2>1
    <3>4. QED
      BY <3>2, <3>3
  <2>5. QED
    BY <2>2, <2>3, <2>4
<1> HIDE DEF V
<1>3. Reveal(l, p, slice, acts) \in [Row -> 0..h]
  BY <1>1, <1>2
<1>4. ASSUME NEW b \in Nat, NEW r \in Row, \A id \in slice : id > b, p[r] # 0 => p[r] > b,
             V(r) # 0
      PROVE  V(r) > b
  <2>1. V(r) \in Nat /\ p[r] \in Nat
    BY <1>2
  <2>2. CASE V(r) \in slice
    BY <2>2, <1>4
  <2>3. CASE p[r] # 0 /\ V(r) >= p[r]
    BY <2>1, <2>3, <1>4
  <2>4. QED
    BY <1>2, <1>4, <2>2, <2>3
<1>5. QED
  BY <1>1, <1>3, <1>4


(* getHighestPersistedPrefix: every id of the batch up to the prefix it    *)
(* returns has been stored.                                                *)
LEMMA PrefixFacts ==
    ASSUME NEW h \in Nat, NEW ids \in Seq(1..h), Increasing(ids), NEW ok
    PROVE  /\ HighestPersistedPrefix(ids, ok) \in 0..h
           /\ \A id \in Range(ids) : id <= HighestPersistedPrefix(ids, ok) => id \in ok
<1> DEFINE J == {j \in 1..Len(ids) : \A k \in 1..j : ids[k] \in ok}
           P == {ids[i] : i \in J}
           top == MaxOf(P, 0)
<1>1. P \in SUBSET (0..h)
  <2>1. \A i \in 1..Len(ids) : ids[i] \in 0..h
    BY RangeIn
  <2>2. QED
    BY <2>1
<1>2. HighestPersistedPrefix(ids, ok) = top
  BY DEF HighestPersistedPrefix
<1>3. top \in 0..h
  <2>1. 0 \in 0..h
    OBVIOUS
  <2> HIDE DEF P
  <2>2. QED
    BY <1>1, <2>1, MaxOfType
<1>4. ASSUME NEW id \in Range(ids), id <= top PROVE id \in ok
  <2>1. PICK m \in 1..Len(ids) : ids[m] = id
    BY RangeIn
  <2>2. ids[m] \in 1..h
    BY RangeIn
  <2>3. P # {}
    <3>1. SUFFICES ASSUME P = {} PROVE FALSE
      OBVIOUS
    <3>2. top = 0
      BY <3>1, MaxOfEmpty
    <3>3. QED
      BY <3>2, <2>1, <2>2, <1>4
  <2>4. top \in P
    BY <2>3, <1>1, MaxOfMember
  <2>5. PICK i \in 1..Len(ids) : top = ids[i] /\ \A k \in 1..i : ids[k] \in ok
    BY <2>4
  <2>6. m <= i
    <3>1. SUFFICES ASSUME i < m PROVE FALSE
      OBVIOUS
    <3>2. ids[i] < ids[m]
      BY <3>1 DEF Increasing
    <3>3. ids[m] <= ids[i]
      BY <1>4, <2>1, <2>5
    <3>4. ids[i] \in Int /\ ids[m] \in Int
      BY RangeIn
    <3>5. QED
      BY <3>2, <3>3, <3>4
  <2>7. QED
    BY <2>1, <2>5, <2>6
<1> HIDE DEF top
<1>5. QED
  BY <1>2, <1>3, <1>4

(* A slice takes at least one result, stays within the batch, and ends at  *)
(* a boundary of transactions.                                             *)
LEMMA SliceEndFacts ==
    ASSUME NEW txs, Len(txs) \in Nat, NEW done \in Nat, done < Len(txs), NEW max \in Nat \ {0}
    PROVE  /\ SliceEnd(txs, done, max) \in (done + 1)..Len(txs)
           /\ IsBoundary(txs, SliceEnd(txs, done, max))
<1> DEFINE ends == {e \in (done + 1)..Len(txs) : IsBoundary(txs, e)}
           fit == {e \in ends : e - done <= max}
           end == SliceEnd(txs, done, max)
<1>1. Len(txs) \in ends
  BY DEF IsBoundary
<1>2. end \in ends
  <2>1. CASE Len(txs) <= max
    BY <2>1, <1>1 DEF SliceEnd
  <2>2. CASE ~(Len(txs) <= max) /\ fit # {}
    <3>1. fit \in SUBSET (0..Len(txs)) /\ fit \subseteq ends
      OBVIOUS
    <3>2. end = MaxOf(fit, 0)
      BY <2>2 DEF SliceEnd
    <3> HIDE DEF fit
    <3>3. end \in fit
      BY <3>1, <3>2, <2>2, MaxOfMember
    <3>4. QED
      BY <3>1, <3>3
  <2>3. CASE ~(Len(txs) <= max) /\ fit = {}
    <3>1. end = CHOOSE e \in ends : \A o \in ends : e <= o
      BY <2>3 DEF SliceEnd
    <3>2. ends \in SUBSET Nat
      OBVIOUS
    <3>3. \E e \in ends : \A o \in ends : e <= o
      BY <3>2, <1>1, LeastNat
    <3>4. QED
      BY <3>1, <3>3
  <2>4. QED
    BY <2>1, <2>2, <2>3
<1>3. QED
  BY <1>2

(* A batch that is not empty has a store to write.                         *)
LEMMA StoresFacts ==
    ASSUME NEW l, NEW h \in Nat, NEW ids \in Seq(1..h), ids # <<>>
    PROVE  StoresOf(l, ids) # {}
<1>1. ids[1] \in Range(ids)
  BY RangeIn
<1>2. \A i \in Range(ids) : l[i].kind = "D" => ~Superseded(l, ids, i)
  BY DEF Superseded
<1>3. \E i \in Range(ids) : ~Superseded(l, ids, i)
  <2>1. CASE ~Superseded(l, ids, ids[1])
    BY <1>1, <2>1
  <2>2. CASE Superseded(l, ids, ids[1])
    BY <1>2, <2>2 DEF Superseded
  <2>3. QED
    BY <2>1, <2>2
<1>4. QED
  BY <1>3 DEF StoresOf


-----------------------------------------------------------------------------
(* The values the drain takes.                                             *)

(* The empty function assigns no actions.                                  *)
LEMMA EmptyFlags == <<>> \in Flags /\ DOMAIN <<>> = {}
<1>1. <<>> \in Seq(Actions) /\ Len(<<>>) = 0
  OBVIOUS
<1>2. <<>> \in [1..0 -> Actions] /\ DOMAIN <<>> = 1..0
  BY <1>1
<1>3. 1..0 \in SUBSET Nat /\ 1..0 = {}
  OBVIOUS
<1>4. QED
  BY <1>2, <1>3 DEF Flags

(* The drain that rests is a drain.                                        *)
LEMMA IdleType ==
    ASSUME NEW h \in Nat
    PROVE  Idle \in FlushType(h)
<1>1. <<>> \in Flags /\ <<>> \in Seq(1..h) /\ {} \in SUBSET Stores /\ {} \in SUBSET (1..h)
  BY EmptyFlags
<1>2. <<>> \in {<<>>} \cup [Row -> [Field -> 0..h]] /\ 0 \in 0..h /\ 0 \in Nat
  OBVIOUS
<1>3. QED
  BY <1>1, <1>2 DEF Idle, FlushType, Phases

(* A drain without a batch.                                                *)
Resting(f) == f.phase \in {"idle", "loop"} /\ f.ids = <<>> /\ f.done = 0 /\ f.ok = {}

(* A drain without a batch keeps every clause about batches.               *)
LEMMA RestingGood ==
    ASSUME NEW h \in Nat, NEW f \in FlushType(h), Resting(f), NEW l, NEW fl
    PROVE  FlushGood(f, l, fl, h)
<1>1. BatchGood(f)
  BY RangeEmpty DEF BatchGood, Resting, Increasing
<1>2. ResultsGood(f, l, fl)
  BY RangeEmpty DEF ResultsGood, Resting
<1>3. WholeGood(f, l, fl) /\ PrefixGood(f)
  BY DEF WholeGood, PrefixGood, Resting
<1>4. QED
  BY <1>1, <1>2, <1>3 DEF FlushGood

(* The drain after a batch, at rest or about to loop, keeps what was held  *)
(* and nothing else.                                                       *)
LEMMA RestedFacts ==
    ASSUME NEW h \in Nat, NEW g \in Flags
    PROVE  LET f == [Idle EXCEPT !.held = g]
               e == [f EXCEPT !.phase = "loop"]
           IN  /\ f \in FlushType(h) /\ Resting(f) /\ f.current /\ f.phase = "idle"
               /\ e \in FlushType(h) /\ Resting(e) /\ e.current /\ e.phase = "loop"
<1> DEFINE f == [Idle EXCEPT !.held = g]
           e == [f EXCEPT !.phase = "loop"]
<1>1. f \in FlushType(h)
  BY IdleType DEF FlushType
<1>2. f.phase = "idle" /\ f.ids = <<>> /\ f.done = 0 /\ f.ok = {} /\ f.current
  BY DEF Idle
<1> HIDE DEF f
<1>3. e \in FlushType(h)
  BY <1>1 DEF FlushType, Phases
<1>4. e.phase = "loop" /\ e.ids = <<>> /\ e.done = 0 /\ e.ok = {} /\ e.current
  BY <1>1, <1>2 DEF FlushType
<1>5. QED
  BY <1>1, <1>2, <1>3, <1>4 DEF Resting, f

(* A detached batch is in order, holds exactly the pending ids, and starts *)
(* in the store step with its superseded deltas answered.                  *)
LEMMA DetachedFacts ==
    ASSUME NEW h \in Nat, NEW run \in FlushType(h), NEW p \in Seq(1..h), p # <<>>, NEW fl,
           \A i \in 1..h : log[i].row \in Row
    PROVE  LET f == Detached(run, p)
           IN  /\ FlushGood(f, log, fl, h) /\ Range(f.ids) = Range(p) /\ f.current
               /\ f.phase = "persist" /\ f.todo # {}
<1> DEFINE b == DeduplicateDeltas(p)
           super == {id \in Range(b) : Superseded(log, b, id)}
           f == Detached(run, p)
           r == Rested(run)
<1>1. b \in Seq(1..h) /\ Increasing(b) /\ Range(b) = Range(p)
  BY DeduplicateFacts
<1> HIDE DEF b
<1>2. b # <<>>
  <2>1. p[1] \in Range(p)
    BY RangeIn
  <2>2. QED
    BY <2>1, <1>1, RangeEmpty
<1>3. Range(b) \subseteq 1..h /\ super \subseteq Range(b) /\ super \in SUBSET (1..h)
  BY <1>1, RangeIn
<1>4. [id \in super |-> "verify"] \in Flags
  <2>1. super \in SUBSET Nat
    BY <1>3
  <2> HIDE DEF super
  <2>2. [id \in super |-> "verify"] \in [super -> Actions]
    BY DEF Actions
  <2>3. QED
    BY <2>1, <2>2 DEF Flags
<1>5. StoresOf(log, b) \in SUBSET Stores /\ StoresOf(log, b) # {}
  <2>1. StoresOf(log, b) \in SUBSET Stores
    BY <1>3 DEF StoresOf, Stores
  <2>2. QED
    BY <2>1, <1>1, <1>2, StoresFacts
<1>6. r \in FlushType(h)
  <2>1. run.held \in Flags
    BY DEF FlushType
  <2>2. QED
    BY <2>1, RestedFacts DEF Rested
<1>7. /\ f = [r EXCEPT !.phase = "persist", !.ids = b, !.todo = StoresOf(log, b), !.ok = super,
                       !.acts = [id \in super |-> "verify"]]
  BY DEF Detached, b
<1>8. r.current /\ r.done = 0
  BY DEF Rested, Idle
<1> HIDE DEF r, super, f
<1>9. f \in FlushType(h)
  BY <1>1, <1>3, <1>4, <1>5, <1>6, <1>7 DEF FlushType, Phases
<1>10. /\ f.phase = "persist" /\ f.ids = b /\ f.todo = StoresOf(log, b) /\ f.ok = super
       /\ f.acts = [id \in super |-> "verify"] /\ f.current /\ f.done = 0
  BY <1>6, <1>7, <1>8 DEF FlushType
<1>11. BatchGood(f)
  BY <1>1, <1>3, <1>10 DEF BatchGood
<1>12. ResultsGood(f, log, fl)
  <2>1. SUFFICES ASSUME NEW id \in Range(b)
                 PROVE  \/ Waits(f, log, id)
                        \/ id \in DOMAIN f.acts /\ id \in f.ok \cup fl /\ Shows(f, log, id)
    BY <1>10 DEF ResultsGood
  <2>2. CASE Superseded(log, b, id)
    <3>1. id \in super
      BY <2>2 DEF super
    <3>2. QED
      BY <3>1, <1>10 DEF Shows
  <2>3. CASE ~Superseded(log, b, id)
    <3>1. StoreOf[log[id].row] \in StoresOf(log, b)
      BY <2>3 DEF StoresOf
    <3>2. QED
      BY <3>1, <2>3, <1>10 DEF Waits
  <2>4. QED
    BY <2>2, <2>3
<1>13. WholeGood(f, log, fl) /\ PrefixGood(f)
  BY <1>10 DEF WholeGood, PrefixGood
<1>14. QED
  BY <1>1, <1>5, <1>9, <1>10, <1>11, <1>12, <1>13 DEF FlushGood, f


(* The clauses about the batch survive a longer log and more failed        *)
(* changes.                                                                *)
LEMMA FlushMono ==
    ASSUME NEW f, NEW l, NEW fl, NEW gl, fl \subseteq gl, NEW h \in Nat, NEW g \in Nat, h <= g,
           FlushGood(f, l, fl, h)
    PROVE  FlushGood(f, l, gl, g)
<1>1. f \in FlushType(g)
  <2>1. 1..h \subseteq 1..g /\ 0..h \subseteq 0..g
    OBVIOUS
  <2>2. f \in FlushType(h)
    BY DEF FlushGood
  <2>3. f.ids \in Seq(1..g)
    <3>1. f.ids \in Seq(1..h)
      BY <2>2 DEF FlushType
    <3>2. QED
      BY <2>1, <3>1, SeqMono
  <2>4. f.read \in {<<>>} \cup [Row -> [Field -> 0..g]]
    <3>1. f.read \in {<<>>} \cup [Row -> [Field -> 0..h]]
      BY <2>2 DEF FlushType
    <3>2. QED
      BY <2>1, <3>1
  <2>5. f.ok \in SUBSET (1..g) /\ f.prefix \in 0..g
    BY <2>1, <2>2 DEF FlushType
  <2>6. QED
    BY <2>2, <2>3, <2>4, <2>5 DEF FlushType
<1>2. ResultsGood(f, l, gl)
  BY DEF FlushGood, ResultsGood
<1>3. WholeGood(f, l, gl)
  <2>1. \A t : Excused(f, l, fl, t) => Excused(f, l, gl, t)
    BY DEF Excused
  <2>2. QED
    BY <2>1 DEF FlushGood, WholeGood
<1>4. QED
  BY <1>1, <1>2, <1>3 DEF FlushGood

(* What a removal does to the batch being drained: it keeps its place and  *)
(* is no longer current, unless it is empty.                               *)
LEMMA RunningFacts ==
    ASSUME NEW h \in Nat, NEW fl, FlushGood(flush, log, fl, h), NEW ids
    PROVE  LET f == Running(ids)
           IN  /\ FlushGood(f, log, fl, h)
               /\ f.phase = flush.phase /\ f.ids = flush.ids /\ f.ok = flush.ok
               /\ f.todo = flush.todo
               /\ Removals(ids) # {} /\ f.current => f.ids = <<>>
               /\ Removals(ids) = {} => f = flush
<1>1. CASE Removals(ids) = {}
  BY <1>1 DEF Running
<1>2. CASE Removals(ids) # {}
  <2> DEFINE f == Running(ids)
  <2>1. f = [flush EXCEPT !.current = flush.phase = "idle", !.held = <<>>]
    BY <1>2 DEF Running
  <2>2. flush \in FlushType(h)
    BY DEF FlushGood
  <2> HIDE DEF f
  <2>3. f \in FlushType(h)
    <3>1. (flush.phase = "idle") \in BOOLEAN /\ <<>> \in Flags
      BY EmptyFlags
    <3>2. QED
      BY <2>1, <2>2, <3>1 DEF FlushType
  <2>4. /\ f.phase = flush.phase /\ f.ids = flush.ids /\ f.ok = flush.ok /\ f.todo = flush.todo
        /\ f.acts = flush.acts /\ f.done = flush.done /\ f.prefix = flush.prefix
        /\ f.current = (flush.phase = "idle") /\ f.held = <<>>
    BY <2>1, <2>2 DEF FlushType
  <2>5. BatchGood(f) /\ PrefixGood(f)
    BY <2>4 DEF FlushGood, BatchGood, PrefixGood
  <2>6. ResultsGood(f, log, fl)
    <3>1. \A id : Waits(flush, log, id) => Waits(f, log, id)
      BY <2>4 DEF Waits
    <3>2. \A id : Shows(flush, log, id) => Shows(f, log, id)
      BY <2>4 DEF Shows
    <3>3. QED
      BY <2>4, <3>1, <3>2 DEF FlushGood, ResultsGood
  <2>7. WholeGood(f, log, fl)
    <3>1. \A t : Excused(flush, log, fl, t) => Excused(f, log, fl, t)
      BY <2>4 DEF Excused
    <3>2. QED
      BY <2>4, <3>1 DEF FlushGood, WholeGood
  <2>8. f.current => f.ids = <<>>
    BY <2>4 DEF FlushGood, BatchGood
  <2>9. QED
    BY <1>2, <2>3, <2>4, <2>5, <2>6, <2>7, <2>8 DEF FlushGood, f
<1>3. QED
  BY <1>1, <1>2

(* What is pending after a frame: everything, or, when the frame has a     *)
(* removal, what the frame has after its last one.                         *)
LEMMA AppendedFacts ==
    ASSUME NEW h \in Nat, pending \in Seq(1..h), NEW ids \in Seq(1..h)
    PROVE  /\ Removals(ids) = {} => Appended(ids) = pending \o ids
           /\ Removals(ids) # {} =>
                \E cut \in Removals(ids) :
                    /\ \A k \in Removals(ids) : k <= cut
                    /\ Range(Appended(ids)) = {ids[i] : i \in (cut + 1)..Len(ids)}
           /\ Appended(ids) \in Seq(1..h)
           /\ Range(Appended(ids)) \subseteq Range(pending) \cup Range(ids)
<1> DEFINE cut == MaxOf(Removals(ids), 0)
           tail == SubSeq(ids, cut + 1, Len(ids))
<1>1. Len(ids) \in Nat /\ Removals(ids) \in SUBSET (0..Len(ids)) /\ 0 \notin Removals(ids)
  BY DEF Removals
<1>2. Appended(ids) = (IF cut = 0 THEN pending ELSE <<>>) \o tail
  BY DEF Appended
<1>3. cut \in 0..Len(ids)
  BY <1>1, MaxOfType
<1>4. CASE Removals(ids) = {}
  <2>1. cut = 0
    BY <1>4, MaxOfEmpty
  <2>2. tail = ids
    BY <2>1, SubSeqProperties
  <2>3. Appended(ids) = pending \o ids
    BY <1>2, <2>1, <2>2
  <2>4. QED
    BY <1>4, <2>3, RangeConcat
<1>5. CASE Removals(ids) # {}
  <2>1. cut \in Removals(ids) /\ \A k \in Removals(ids) : k <= cut
    BY <1>1, <1>5, MaxOfMember
  <2>2. cut # 0
    BY <2>1, <1>1
  <2> HIDE DEF cut
  <2>3. tail \in Seq(1..h) /\ Range(tail) = {ids[i] : i \in (cut + 1)..Len(ids)}
    <3>1. cut + 1 \in 1..(Len(ids) + 1)
      BY <1>3, <1>1
    <3>2. QED
      BY <3>1, RangeSub
  <2>4. Appended(ids) = tail
    <3>1. Appended(ids) = <<>> \o tail
      BY <1>2, <2>2
    <3> HIDE DEF tail
    <3>2. QED
      BY <3>1, <2>3
  <2>5. Range(tail) \subseteq Range(ids)
    <3>1. \A i \in (cut + 1)..Len(ids) : i \in 1..Len(ids)
      BY <1>1, <1>3
    <3>2. QED
      BY <2>3, <3>1, RangeIn
  <2>6. QED
    BY <1>5, <2>1, <2>3, <2>4, <2>5
<1>6. QED
  BY <1>4, <1>5

(* flushPendingDeltas moves ids from the queue to the batch and invents    *)
(* none.                                                                   *)
LEMMA FlushPendingFacts ==
    ASSUME NEW h \in Nat, NEW fl, NEW run, FlushGood(run, log, fl, h), NEW p \in Seq(1..h),
           \A i \in 1..h : log[i].row \in Row,
           FlushPendingDeltas(run, p)
    PROVE  /\ FlushGood(flush', log, fl, h) /\ pending' \in Seq(1..h)
           /\ Range(pending') \cup Range(flush'.ids) \subseteq Range(p) \cup Range(run.ids)
           /\ \A dur : Stored(run, dur) => Stored(flush', dur)
           /\ \A b : LaterThan(b, p, run) => LaterThan(b, pending', flush')
<1>1. CASE run.phase = "idle" /\ p # <<>>
  <2>1. flush' = Detached(run, p) /\ pending' = <<>>
    BY <1>1 DEF FlushPendingDeltas
  <2>2. run \in FlushType(h)
    BY DEF FlushGood
  <2>3. /\ FlushGood(flush', log, fl, h) /\ Range(flush'.ids) = Range(p)
        /\ flush'.phase = "persist" /\ flush'.todo # {}
    BY <1>1, <2>1, <2>2, DetachedFacts
  <2>4. pending' \in Seq(1..h) /\ Range(pending') = {}
    BY <2>1, RangeEmpty
  <2>5. QED
    BY <2>3, <2>4 DEF Stored, LaterThan
<1>2. CASE ~(run.phase = "idle" /\ p # <<>>)
  BY <1>2 DEF FlushPendingDeltas
<1>3. QED
  BY <1>1, <1>2


-----------------------------------------------------------------------------
(* The steps of the drain.                                                 *)

(* finishBatch leaves the drain without a batch and the catch-up jobs with *)
(* their ids.                                                              *)
LEMMA FinishFacts ==
    ASSUME NEW h \in Nat, NEW g \in Flags, NEW fl, NEW f, f.held = g, pending \in Seq(1..h),
           lane \in Seq(JobType(h)), timer \in BOOLEAN, FinishBatch(f)
    PROVE  /\ FlushGood(flush', log, fl, h) /\ Resting(flush')
           /\ timer' \in BOOLEAN /\ lane' \in Seq(JobType(h)) /\ Len(lane') = Len(lane)
           /\ \A k \in 1..Len(lane) : lane'[k].ids = lane[k].ids
<1>1. FlushGood(flush', log, fl, h) /\ Resting(flush')
  <2>1. Rested(f) = [Idle EXCEPT !.held = g]
    BY DEF Rested
  <2>2. flush' \in {Rested(f), [Rested(f) EXCEPT !.phase = "loop"]}
    BY DEF FinishBatch
  <2> DEFINE e == [Idle EXCEPT !.held = g]
             o == [e EXCEPT !.phase = "loop"]
  <2>a. e \in FlushType(h) /\ Resting(e) /\ o \in FlushType(h) /\ Resting(o)
    BY RestedFacts
  <2>b. flush' \in {e, o}
    BY <2>1, <2>2
  <2> HIDE DEF e, o
  <2>3. flush' \in FlushType(h) /\ Resting(flush')
    BY <2>a, <2>b
  <2>4. QED
    BY <2>3, RestingGood
<1>2. \/ timer' = timer /\ lane' = lane
      \/ timer' = FALSE /\ lane' = Settled(lane)
  BY DEF FinishBatch
<1>3. /\ Settled(lane) \in Seq(JobType(h)) /\ Len(Settled(lane)) = Len(lane)
      /\ \A k \in 1..Len(lane) : Settled(lane)[k].ids = lane[k].ids
  <2> DEFINE n == Len(lane)
             J(k) == IF lane[k].state = "await" THEN [lane[k] EXCEPT !.state = "done"]
                     ELSE lane[k]
  <2>1. n \in Nat
    OBVIOUS
  <2>2. \A k \in 1..n : J(k) \in JobType(h) /\ J(k).ids = lane[k].ids
    <3>1. SUFFICES ASSUME NEW k \in 1..n PROVE J(k) \in JobType(h) /\ J(k).ids = lane[k].ids
      OBVIOUS
    <3>2. lane[k] \in JobType(h)
      OBVIOUS
    <3>3. QED
      BY <3>2 DEF JobType
  <2> HIDE DEF J
  <2>3. Settled(lane) = [k \in 1..n |-> J(k)]
    BY DEF Settled, J
  <2> HIDE DEF n
  <2>4. Settled(lane) \in Seq(JobType(h)) /\ Len(Settled(lane)) = n
    BY <2>1, <2>2, <2>3
  <2>5. QED
    BY <2>2, <2>3, <2>4 DEF n
<1>4. QED
  BY <1>1, <1>2, <1>3

(* The deltas of the store being written belong to the batch.              *)
LEMMA CurrentFacts ==
    ASSUME NEW h \in Nat, FlushGood(flush, log, failed, h), head = h
    PROVE  CurrentDeltas \in SUBSET (1..h) /\ CurrentDeltas \subseteq Range(flush.ids)
<1>1. flush.ids \in Seq(1..h)
  BY DEF FlushGood, FlushType
<1>2. CurrentDeltas \subseteq Range(flush.ids)
  BY DEF CurrentDeltas, StoreDeltas
<1>3. QED
  BY <1>1, <1>2, RangeIn

(* Reading a store's records, or failing to, keeps the clauses about the   *)
(* batch.                                                                  *)
LEMMA PersistReadFlush ==
    ASSUME NEW h \in Nat, FlushGood(flush, log, failed, h), head = h,
           stored \in [Row -> [Field -> 0..h]], PersistRead
    PROVE  /\ FlushGood(flush', log, failed', h) /\ failed \subseteq failed'
           /\ failed' \subseteq failed \cup 1..h
           /\ flush'.phase = flush.phase /\ flush'.ids = flush.ids /\ flush'.ok = flush.ok
           /\ flush'.todo = flush.todo /\ flush'.current = flush.current
<1>1. PICK fetched \in BOOLEAN :
        /\ flush' = [flush EXCEPT !.read =
                    [r \in Row |-> IF stored[r] # NoRow THEN stored[r]
                                   ELSE IF fetched THEN ImageAt(log, head, r) ELSE NoRow]]
        /\ \/ failed' = failed
           \/ \E S \in SUBSET CurrentDeltas : failed' = failed \cup S
  BY DEF PersistRead
<1>2. failed \subseteq failed' /\ failed' \subseteq failed \cup 1..h
  BY <1>1, CurrentFacts
<1> DEFINE rd == [r \in Row |-> IF stored[r] # NoRow THEN stored[r]
                                ELSE IF fetched THEN ImageAt(log, head, r) ELSE NoRow]
           f == flush'
<1>3. rd \in [Row -> [Field -> 0..h]]
  <2>1. \A r : ImageAt(log, h, r) \in [Field -> 0..h]
    BY ImageAtType
  <2>2. NoRow \in [Field -> 0..h]
    BY DEF NoRow
  <2>3. QED
    BY <2>1, <2>2
<1> HIDE DEF rd
<1>4. f = [flush EXCEPT !.read = rd]
  BY <1>1 DEF rd
<1>5. flush \in FlushType(h)
  BY DEF FlushGood
<1> HIDE DEF f
<1>6. f \in FlushType(h)
  BY <1>3, <1>4, <1>5 DEF FlushType
<1>7. /\ f.phase = flush.phase /\ f.ids = flush.ids /\ f.ok = flush.ok /\ f.todo = flush.todo
      /\ f.acts = flush.acts /\ f.done = flush.done /\ f.prefix = flush.prefix
      /\ f.current = flush.current /\ f.held = flush.held
  BY <1>4, <1>5 DEF FlushType
<1>8. FlushGood(f, log, failed, h)
  <2>1. BatchGood(f) /\ PrefixGood(f)
    BY <1>7 DEF FlushGood, BatchGood, PrefixGood
  <2>2. \A id : Waits(flush, log, id) => Waits(f, log, id)
    BY <1>7 DEF Waits
  <2>3. \A id : Shows(flush, log, id) => Shows(f, log, id)
    BY <1>7 DEF Shows
  <2>4. ResultsGood(f, log, failed)
    BY <1>7, <2>2, <2>3 DEF FlushGood, ResultsGood
  <2>5. \A t : Excused(flush, log, failed, t) => Excused(f, log, failed, t)
    BY <1>7 DEF Excused
  <2>6. WholeGood(f, log, failed)
    BY <1>7, <2>5 DEF FlushGood, WholeGood
  <2>7. QED
    BY <1>6, <2>1, <2>4, <2>6 DEF FlushGood
<1>9. FlushGood(f, log, failed', h)
  <2>1. h <= h
    OBVIOUS
  <2>2. QED
    BY <1>2, <1>8, <2>1, FlushMono
<1>10. QED
  BY <1>2, <1>7, <1>9 DEF f


(* A drain that differs by one written or failed store keeps the clauses   *)
(* about the batch.                                                        *)
LEMMA WriteFlush ==
    ASSUME NEW h \in Nat, NEW f, NEW fl, FlushGood(f, log, fl, h), f.phase = "persist",
           NEW s, NEW e \in FlushType(h), NEW gl,
           e.phase = "persist", e.ids = f.ids, e.todo = f.todo \ {s}, e.done = f.done,
           DOMAIN e.acts = DOMAIN f.acts \cup StoreDeltas(log, f.ids, s),
           \A id \in DOMAIN f.acts \ StoreDeltas(log, f.ids, s) : e.acts[id] = f.acts[id],
           \/ gl = fl /\ e.ok = f.ok \cup StoreDeltas(log, f.ids, s)
           \/ /\ gl = fl \cup StoreDeltas(log, f.ids, s) /\ e.ok = f.ok
              /\ \A id \in StoreDeltas(log, f.ids, s) : e.acts[id] = "verify"
    PROVE  FlushGood(e, log, gl, h)
<1> DEFINE D == StoreDeltas(log, f.ids, s)
<1>1. D \subseteq Range(f.ids) /\ fl \subseteq gl /\ f.ok \subseteq e.ok /\ e.ok \subseteq f.ok \cup D
  BY DEF StoreDeltas
<1>2. \A id \in Range(f.ids) :
        (StoreOf[log[id].row] = s /\ ~Superseded(log, f.ids, id)) <=> (id \in D)
  BY DEF StoreDeltas
<1>3. \/ gl = fl /\ e.ok = f.ok \cup D
      \/ gl = fl \cup D /\ \A id \in D : e.acts[id] = "verify"
  OBVIOUS
<1>4. DOMAIN e.acts = DOMAIN f.acts \cup D /\ \A id \in DOMAIN f.acts \ D : e.acts[id] = f.acts[id]
  OBVIOUS
<1> HIDE DEF D
<1>5. BatchGood(e) /\ PrefixGood(e) /\ WholeGood(e, log, gl)
  <2>1. f.ok \subseteq Range(f.ids)
    BY DEF FlushGood, BatchGood
  <2>2. e.ok \subseteq Range(f.ids)
    BY <2>1, <1>1
  <2>3. QED
    BY <2>2 DEF FlushGood, BatchGood, PrefixGood, WholeGood
<1>6. ResultsGood(e, log, gl)
  <2>1. SUFFICES ASSUME NEW id \in Range(f.ids), ~Waits(e, log, id)
                 PROVE  id \in DOMAIN e.acts /\ id \in e.ok \cup gl /\ Shows(e, log, id)
    BY DEF ResultsGood
  <2>2. CASE id \in D
    <3>1. id \in DOMAIN e.acts /\ ~Superseded(log, f.ids, id)
      BY <2>2, <1>2, <1>4
    <3>2. QED
      BY <3>1, <2>2, <1>3 DEF Shows
  <2>3. CASE id \notin D
    <3>1. ~Waits(f, log, id)
      <4>1. SUFFICES ASSUME Waits(f, log, id) PROVE FALSE
        OBVIOUS
      <4>2. StoreOf[log[id].row] # s /\ StoreOf[log[id].row] \in e.todo
        BY <4>1, <2>3, <1>2 DEF Waits
      <4>3. Waits(e, log, id)
        BY <4>1, <4>2 DEF Waits
      <4>4. QED
        BY <4>3, <2>1
    <3>2. id \in DOMAIN f.acts /\ id \in f.ok \cup fl /\ Shows(f, log, id)
      BY <3>1 DEF FlushGood, ResultsGood
    <3>3. e.acts[id] = f.acts[id] /\ id \in DOMAIN e.acts
      BY <3>2, <2>3, <1>4
    <3>4. Shows(e, log, id)
      BY <3>2, <3>3, <1>1 DEF Shows
    <3>5. QED
      BY <3>2, <3>3, <3>4, <1>1
  <2>4. QED
    BY <2>2, <2>3
<1>7. QED
  BY <1>5, <1>6 DEF FlushGood

(* Writing a store, or failing to, keeps the clauses about the batch, and  *)
(* what it counts as stored is in the stores.                              *)
LEMMA PersistWriteFlush ==
    ASSUME NEW h \in Nat, FlushGood(flush, log, failed, h), head = h, PersistWrite
    PROVE  /\ FlushGood(flush', log, failed', h)
           /\ failed \subseteq failed' /\ failed' \subseteq failed \cup 1..h
           /\ flush'.phase = "persist" /\ flush'.ids = flush.ids /\ flush'.ok \subseteq durable'
           /\ durable' \subseteq durable \cup 1..h
           /\ flush'.current = flush.current
<1> DEFINE D == CurrentDeltas
           s == CurrentStore
           ac == flush'.acts
<1>1. D \in SUBSET (1..h) /\ D = StoreDeltas(log, flush.ids, s)
  BY CurrentFacts DEF CurrentDeltas
<1>2. flush.ok \in SUBSET (1..h) /\ flush.phase = "persist" /\ flush \in FlushType(h)
  BY DEF FlushGood, FlushType, PersistWrite
<1>3. PICK T \in SUBSET Nat : flush.acts \in [T -> Actions]
  BY <1>2 DEF FlushType, Flags
<1>4. CASE /\ durable' = durable \cup D \cup flush.ok
           /\ flush' = [flush EXCEPT !.todo = flush.todo \ {s}, !.read = <<>>,
                        !.ok = flush.ok \cup D,
                        !.acts = [id \in DOMAIN flush.acts \cup D |->
                            IF id \in D THEN Action(log, flush.read, id) ELSE flush.acts[id]]]
           /\ failed' = failed
  <2> DEFINE ax == [id \in DOMAIN flush.acts \cup D |->
                        IF id \in D THEN Action(log, flush.read, id) ELSE flush.acts[id]]
  <2> HIDE DEF D, s
  <2>1. /\ DOMAIN ax = T \cup D /\ \A id \in DOMAIN flush.acts \ D : ax[id] = flush.acts[id]
        /\ ax \in [T \cup D -> Actions]
    BY <1>3, ActionType
  <2>2. flush' = [flush EXCEPT !.todo = flush.todo \ {s}, !.read = <<>>,
                               !.ok = flush.ok \cup D, !.acts = ax]
    BY <1>4
  <2> HIDE DEF ax
  <2>3. ax \in Flags
    <3>a. D \in SUBSET (1..h) /\ 1..h \in SUBSET Nat
      BY <1>1
    <3>1. T \cup D \in SUBSET Nat
      BY <3>a, <1>3
    <3>2. ax \in [T \cup D -> Actions]
      BY <2>1
    <3>3. QED
      BY <3>1, <3>2 DEF Flags
  <2>4. flush' \in FlushType(h)
    BY <1>1, <1>2, <2>2, <2>3 DEF FlushType
  <2>5. /\ flush'.phase = "persist" /\ flush'.ids = flush.ids /\ flush'.todo = flush.todo \ {s}
        /\ flush'.done = flush.done /\ flush'.acts = ax /\ flush'.ok = flush.ok \cup D
        /\ flush'.current = flush.current
    BY <1>2, <2>2 DEF FlushType
  <2>6. FlushGood(flush', log, failed, h)
    BY <1>1, <1>2, <1>3, <2>1, <2>4, <2>5, WriteFlush
  <2>7. QED
    BY <1>1, <1>2, <1>4, <2>5, <2>6
<1>5. CASE /\ failed' = failed \cup D
           /\ flush' = [flush EXCEPT !.todo = flush.todo \ {s}, !.read = <<>>,
                        !.acts = [id \in DOMAIN flush.acts \cup D |->
                            IF id \in D THEN "verify" ELSE flush.acts[id]]]
           /\ durable' = durable \cup flush.ok
  <2> DEFINE ax == [id \in DOMAIN flush.acts \cup D |->
                        IF id \in D THEN "verify" ELSE flush.acts[id]]
  <2> HIDE DEF D, s
  <2>1. /\ DOMAIN ax = T \cup D /\ \A id \in DOMAIN flush.acts \ D : ax[id] = flush.acts[id]
        /\ ax \in [T \cup D -> Actions] /\ \A id \in D : ax[id] = "verify"
    BY <1>3 DEF Actions
  <2>2. flush' = [flush EXCEPT !.todo = flush.todo \ {s}, !.read = <<>>, !.acts = ax]
    BY <1>5
  <2> HIDE DEF ax
  <2>3. ax \in Flags
    <3>a. D \in SUBSET (1..h) /\ 1..h \in SUBSET Nat
      BY <1>1
    <3>1. T \cup D \in SUBSET Nat
      BY <3>a, <1>3
    <3>2. ax \in [T \cup D -> Actions]
      BY <2>1
    <3>3. QED
      BY <3>1, <3>2 DEF Flags
  <2>4. flush' \in FlushType(h)
    BY <1>1, <1>2, <2>2, <2>3 DEF FlushType
  <2>5. /\ flush'.phase = "persist" /\ flush'.ids = flush.ids /\ flush'.todo = flush.todo \ {s}
        /\ flush'.done = flush.done /\ flush'.acts = ax /\ flush'.ok = flush.ok
        /\ flush'.current = flush.current
    BY <1>2, <2>2 DEF FlushType
  <2>6. FlushGood(flush', log, failed', h)
    <3> DEFINE e == flush'
               gl == failed'
    <3>1. e \in FlushType(h) /\ gl = failed \cup D
      BY <1>5, <2>4
    <3>2. /\ e.phase = "persist" /\ e.ids = flush.ids /\ e.todo = flush.todo \ {s}
          /\ e.done = flush.done /\ e.acts = ax /\ e.ok = flush.ok
      BY <2>5
    <3> HIDE DEF e, gl
    <3>3. FlushGood(e, log, gl, h)
      BY <1>1, <1>2, <1>3, <2>1, <3>1, <3>2, WriteFlush
    <3>4. QED
      BY <3>3 DEF e, gl
  <2>7. QED
    BY <1>1, <1>2, <1>5, <2>5, <2>6
<1>6. QED
  BY <1>4, <1>5 DEF PersistWrite


(* Ending the store step sets the prefix and lets a held result stand in   *)
(* for one with nothing to show.                                           *)
LEMMA PersistDoneFlush ==
    ASSUME NEW h \in Nat, FlushGood(flush, log, failed, h), flush.phase = "persist",
           flush.todo = {}, NEW f,
           f = [flush EXCEPT !.phase = "apply",
                             !.prefix = HighestPersistedPrefix(flush.ids, flush.ok),
                             !.acts = [id \in DOMAIN flush.acts |-> Revived(id)]]
    PROVE  /\ FlushGood(f, log, failed, h) /\ f.phase = "apply" /\ f.ids = flush.ids
           /\ f.ok = flush.ok /\ f.current = flush.current
<1> DEFINE ac == [id \in DOMAIN flush.acts |-> Revived(id)]
           top == HighestPersistedPrefix(flush.ids, flush.ok)
<1>1. flush \in FlushType(h) /\ flush.ids \in Seq(1..h) /\ Increasing(flush.ids)
  BY DEF FlushGood, FlushType, BatchGood
<1>2. top \in 0..h
  BY <1>1, PrefixFacts
<1> HIDE DEF top
<1>3. ac \in Flags
  <2>1. PICK T \in SUBSET Nat : flush.acts \in [T -> Actions]
    BY <1>1 DEF FlushType, Flags
  <2>2. PICK U \in SUBSET Nat : flush.held \in [U -> Actions]
    BY <1>1 DEF FlushType, Flags
  <2>3. \A id \in T : Revived(id) \in Actions
    BY <2>1, <2>2 DEF Revived
  <2>4. ac \in [T -> Actions]
    BY <2>1, <2>3
  <2> HIDE DEF ac
  <2>5. T \in SUBSET Nat
    BY <2>1
  <2>6. QED
    BY <2>4, <2>5 DEF Flags
<1>4. DOMAIN ac = DOMAIN flush.acts /\ \A id \in DOMAIN flush.acts : ac[id] = Revived(id)
  OBVIOUS
<1>5. f = [flush EXCEPT !.phase = "apply", !.prefix = top, !.acts = ac]
  BY DEF top
<1> HIDE DEF ac
<1>6. f \in FlushType(h)
  BY <1>1, <1>2, <1>3, <1>5 DEF FlushType, Phases
<1>7. /\ f.phase = "apply" /\ f.ids = flush.ids /\ f.ok = flush.ok /\ f.acts = ac
      /\ f.done = flush.done /\ f.prefix = top /\ f.current = flush.current
      /\ f.held = flush.held
  BY <1>1, <1>5 DEF FlushType
<1>8. f.done = 0
  BY <1>7 DEF FlushGood, BatchGood
<1>9. BatchGood(f) /\ PrefixGood(f)
  BY <1>7 DEF FlushGood, BatchGood, PrefixGood, top
<1>10. WholeGood(f, log, failed)
  BY <1>8 DEF WholeGood
<1>11. ResultsGood(f, log, failed)
  <2>1. SUFFICES ASSUME NEW id \in Range(flush.ids)
                 PROVE  id \in DOMAIN ac /\ id \in flush.ok \cup failed /\ Shows(f, log, id)
    BY <1>7 DEF ResultsGood
  <2>2. id \in DOMAIN flush.acts /\ id \in flush.ok \cup failed /\ Shows(flush, log, id)
    BY DEF FlushGood, ResultsGood, Waits
  <2>3. ac[id] = flush.acts[id] \/ id \in DOMAIN flush.held
    BY <2>2, <1>4 DEF Revived
  <2>4. Shows(f, log, id)
    BY <2>2, <2>3, <1>7 DEF Shows
  <2>5. QED
    BY <2>2, <2>4, <1>4
<1>12. QED
  BY <1>6, <1>7, <1>9, <1>10, <1>11 DEF FlushGood

(* A slice that ends at a transaction boundary cuts through no commit,     *)
(* unless one of the commit's changes has failed or is superseded: in a    *)
(* log where commits lie in one piece, the changes of an intact commit are *)
(* neighbours in the batch and carry its id.                               *)
LEMMA SliceFlush ==
    ASSUME NEW h \in Nat, FlushGood(flush, log, failed, h), log \in Seq(Delta),
           InOnePiece(log), h <= Len(log),
           flush.phase = "apply", flush.done < Len(flush.ids), flush.current, NEW end, NEW f,
           end = SliceEnd(ResultTxs(log, flush.ids, flush.ok, DOMAIN flush.held), flush.done,
                          SliceDeltas),
           f = [flush EXCEPT !.done = end]
    PROVE  /\ FlushGood(f, log, failed, h) /\ f.phase = "apply" /\ f.ids = flush.ids
           /\ f.ok = flush.ok /\ f.current = flush.current
           /\ end \in (flush.done + 1)..Len(flush.ids)
<1> DEFINE ids == flush.ids
           txs == ResultTxs(log, ids, flush.ok, DOMAIN flush.held)
<1>1. flush \in FlushType(h) /\ ids \in Seq(1..h) /\ Increasing(ids) /\ flush.done \in 0..Len(ids)
  BY DEF FlushGood, FlushType, BatchGood
<1>2. Len(ids) \in Nat /\ \A k \in 1..Len(ids) : ids[k] \in 1..h /\ ids[k] \in Range(ids)
  BY <1>1, RangeIn
<1>3. /\ Len(txs) = Len(ids)
      /\ \A k \in 1..Len(ids) :
            txs[k] = IF \/ ids[k] \in flush.ok /\ ~Superseded(log, ids, ids[k])
                        \/ ids[k] \in DOMAIN flush.held
                     THEN log[ids[k]].tx ELSE NoTx
  BY <1>2 DEF ResultTxs
<1>4. end = SliceEnd(txs, flush.done, SliceDeltas)
  OBVIOUS
<1> HIDE DEF txs
<1>5. end \in (flush.done + 1)..Len(ids) /\ IsBoundary(txs, end)
  <2>1. SliceDeltas \in Nat \ {0}
    BY DeltaAssumption
  <2>2. Len(txs) \in Nat /\ flush.done \in Nat /\ flush.done < Len(txs)
    BY <1>1, <1>2, <1>3
  <2>3. QED
    BY <2>1, <2>2, <1>3, <1>4, SliceEndFacts
<1>5a. end \in Nat /\ end \in 1..Len(ids)
  BY <1>5, <1>1, <1>2
<1> HIDE DEF ids
<1>6. f \in FlushType(h)
  BY <1>1, <1>5a DEF FlushType
<1>7. /\ f.phase = "apply" /\ f.ids = ids /\ f.ok = flush.ok /\ f.acts = flush.acts
      /\ f.done = end /\ f.prefix = flush.prefix /\ f.current = flush.current
      /\ f.held = flush.held
  BY <1>1 DEF FlushType, ids
<1>8. BatchGood(f) /\ PrefixGood(f) /\ ResultsGood(f, log, failed)
  <2>1. BatchGood(f) /\ PrefixGood(f)
    BY <1>5a, <1>7, <1>2 DEF FlushGood, BatchGood, PrefixGood, ids
  <2>2. \A id : ~Waits(flush, log, id)
    BY DEF Waits
  <2>3. \A id : Shows(flush, log, id) => Shows(f, log, id)
    BY <1>7 DEF Shows, ids
  <2>4. QED
    BY <1>7, <2>1, <2>2, <2>3 DEF FlushGood, ResultsGood, ids
<1>9. \A k \in 1..Len(ids) :
        /\ ids[k] \in flush.ok \cup failed
        /\ \/ flush.acts[ids[k]] = "verify" \/ txs[k] = log[ids[k]].tx
  <2>1. SUFFICES ASSUME NEW k \in 1..Len(ids)
                 PROVE  /\ ids[k] \in flush.ok \cup failed
                        /\ \/ flush.acts[ids[k]] = "verify" \/ txs[k] = log[ids[k]].tx
    OBVIOUS
  <2>2. ids[k] \in flush.ok \cup failed /\ Shows(flush, log, ids[k])
    <3>1. ids[k] \in Range(ids) /\ ~Waits(flush, log, ids[k])
      BY <1>2 DEF Waits
    <3>2. QED
      BY <3>1 DEF FlushGood, ResultsGood, ids
  <2>3. QED
    BY <2>2, <1>3 DEF Shows, ids
<1>10. ASSUME NEW j \in 1..Len(ids), NEW m \in 1..Len(ids), NEW k \in 1..Len(ids), j <= m, m <= k,
              log[ids[j]].tx # NoTx, log[ids[j]].tx = log[ids[k]].tx
       PROVE  log[ids[m]].tx = log[ids[j]].tx
  <2>1. ids[j] <= ids[m] /\ ids[m] <= ids[k]
    <3>1. \A a, b \in 1..Len(ids) : a <= b => ids[a] <= ids[b]
      <4>1. SUFFICES ASSUME NEW a \in 1..Len(ids), NEW b \in 1..Len(ids), a <= b
                     PROVE  ids[a] <= ids[b]
        OBVIOUS
      <4>2. ids[a] \in Int /\ ids[b] \in Int
        BY <1>2
      <4>3. a = b \/ a < b
        BY <4>1
      <4>4. a < b => ids[a] < ids[b]
        BY <1>1 DEF Increasing
      <4>5. QED
        BY <4>2, <4>3, <4>4
    <3>2. QED
      BY <3>1, <1>10
  <2>2. Len(log) \in Nat /\ \A a \in 1..Len(ids) : ids[a] \in 1..Len(log)
    BY <1>2
  <2>3. ids[j] \in 1..Len(log) /\ ids[k] \in 1..Len(log) /\ ids[m] \in ids[j]..ids[k]
    BY <2>1, <2>2
  <2>4. QED
    BY <2>3, <1>10 DEF InOnePiece
<1>11. ASSUME NEW m \in 1..Len(ids), log[ids[m]].tx # NoTx, txs[m] = NoTx
       PROVE  Excused(f, log, failed, log[ids[m]].tx)
  <2>1. ids[m] \in failed \/ Superseded(log, ids, ids[m])
    BY <1>3, <1>9, <1>11
  <2>2. ids[m] \in Range(f.ids)
    BY <1>2, <1>7
  <2>3. QED
    BY <2>1, <2>2, <1>7 DEF Excused
<1>12. WholeGood(f, log, failed)
  <2>1. SUFFICES ASSUME NEW j \in 1..end, NEW k \in (end + 1)..Len(ids),
                        log[ids[j]].tx # NoTx, log[ids[j]].tx = log[ids[k]].tx,
                        flush.acts[ids[j]] # "verify", flush.acts[ids[k]] # "verify"
                 PROVE  Excused(f, log, failed, log[ids[j]].tx)
    BY <1>7, SMTT(30) DEF WholeGood
  <2>2. /\ j \in 1..Len(ids) /\ k \in 1..Len(ids) /\ end + 1 \in 1..Len(ids)
        /\ j <= end /\ end <= k /\ j <= end + 1 /\ end + 1 <= k
    BY <2>1, <1>5a, <1>2
  <2>3. log[ids[end]].tx = log[ids[j]].tx /\ log[ids[end + 1]].tx = log[ids[j]].tx
    BY <2>1, <2>2, <1>5a, <1>10
  <2>4. txs[end] = NoTx \/ txs[end] # txs[end + 1]
    BY <1>5, <1>3, <2>2, <1>5a, <1>2 DEF IsBoundary
  <2>5. txs[end] = NoTx \/ txs[end + 1] = NoTx
    BY <2>3, <2>4, <1>3, <1>5a, <2>2
  <2>6. QED
    BY <2>1, <2>2, <2>3, <2>5, <1>5a, <1>11
<1>13. QED
  BY <1>5, <1>6, <1>7, <1>8, <1>12 DEF FlushGood, ids


-----------------------------------------------------------------------------
(* Taking a frame.                                                         *)

Taken(ids) ==
    \/ FlushPendingDeltas(Running(ids), Appended(ids))
    \/ pending' = Appended(ids) /\ flush' = Running(ids)

(* Enqueueing a frame keeps the clauses about the batch; what is queued    *)
(* and drained afterwards was so before or is of the frame; and if the     *)
(* queue with the frame is later than b, so is what may still be shown.    *)
LEMMA TakenFacts ==
    ASSUME NEW h \in Nat, NEW fl, FlushGood(flush, log, fl, h), pending \in Seq(1..h),
           NEW ids \in Seq(1..h), \A i \in 1..h : log[i].row \in Row, Taken(ids)
    PROVE  /\ FlushGood(flush', log, fl, h) /\ pending' \in Seq(1..h)
           /\ Range(pending') \cup Range(flush'.ids)
                \subseteq Range(pending) \cup Range(flush.ids) \cup Range(ids)
           /\ \A dur : Stored(flush, dur) => Stored(flush', dur)
           /\ \A b : LaterThan(b, Appended(ids), Running(ids)) => LaterThan(b, pending', flush')
<1> DEFINE p == Appended(ids)
           run == Running(ids)
<1>1. p \in Seq(1..h) /\ Range(p) \subseteq Range(pending) \cup Range(ids)
  BY AppendedFacts
<1>2. FlushGood(run, log, fl, h) /\ run.ids = flush.ids
  BY RunningFacts
<1>2a. \A dur : Stored(flush, dur) => Stored(run, dur)
  BY RunningFacts DEF Stored
<1>3. FlushPendingDeltas(run, p) \/ (pending' = p /\ flush' = run)
  BY DEF Taken
<1> HIDE DEF p, run
<1>4. CASE FlushPendingDeltas(run, p)
  <2>1. /\ FlushGood(flush', log, fl, h) /\ pending' \in Seq(1..h)
        /\ Range(pending') \cup Range(flush'.ids) \subseteq Range(p) \cup Range(run.ids)
        /\ \A dur : Stored(run, dur) => Stored(flush', dur)
        /\ \A b : LaterThan(b, p, run) => LaterThan(b, pending', flush')
    BY <1>1, <1>2, <1>4, FlushPendingFacts
  <2>2. QED
    BY <2>1, <1>1, <1>2, <1>2a DEF p, run
<1>5. CASE pending' = p /\ flush' = run
  BY <1>1, <1>2, <1>2a, <1>5 DEF p, run
<1>6. QED
  BY <1>3, <1>4, <1>5

(* The queue with a frame is later than b: without a removal, when         *)
(* everything in it is; with one, when what follows the last removal is.   *)
LEMMA TakenLater ==
    ASSUME NEW h \in Nat, NEW fl, FlushGood(flush, log, fl, h), pending \in Seq(1..h),
           NEW ids \in Seq(1..h), NEW b,
           \/ /\ Removals(ids) = {} /\ LaterThan(b, pending, flush)
              /\ \A i \in Range(ids) : i > b
           \/ /\ Removals(ids) # {}
              /\ \A q \in 1..Len(ids) : (\A k \in Removals(ids) : k < q) => ids[q] > b
    PROVE  LaterThan(b, Appended(ids), Running(ids))
<1>1. CASE Removals(ids) = {}
  <2>1. Appended(ids) = pending \o ids /\ Running(ids) = flush
    BY <1>1, AppendedFacts, RunningFacts
  <2>2. Range(pending \o ids) = Range(pending) \cup Range(ids)
    BY RangeConcat
  <2>3. QED
    BY <1>1, <2>1, <2>2 DEF LaterThan
<1>2. CASE Removals(ids) # {}
  <2>1. PICK cut \in Removals(ids) :
            /\ \A k \in Removals(ids) : k <= cut
            /\ Range(Appended(ids)) = {ids[i] : i \in (cut + 1)..Len(ids)}
    BY <1>2, AppendedFacts
  <2>2. Running(ids).current => Running(ids).ids = <<>>
    BY <1>2, RunningFacts
  <2>3. \A i \in (cut + 1)..Len(ids) : ids[i] > b
    <3>1. SUFFICES ASSUME NEW i \in (cut + 1)..Len(ids) PROVE ids[i] > b
      OBVIOUS
    <3>2. cut \in 1..Len(ids) /\ Len(ids) \in Nat /\ \A k \in Removals(ids) : k \in Int
      BY DEF Removals
    <3>3. i \in 1..Len(ids) /\ \A k \in Removals(ids) : k < i
      BY <3>2, <2>1
    <3>4. QED
      BY <3>3, <1>2
  <2>4. QED
    BY <2>1, <2>2, <2>3, RangeEmpty DEF LaterThan
<1>3. QED
  BY <1>1, <1>2

(* The removal that enqueueDelta records is the greatest of the frame's    *)
(* removals.                                                               *)
LEMMA RemovedFacts ==
    ASSUME NEW h \in Nat, NEW ids \in Seq(1..h), Removals(ids) # {}
    PROVE  LET m == MaxOf({ids[k] : k \in Removals(ids)}, 0)
           IN  /\ m \in 1..h /\ IsRemoval(m) /\ m \in Range(ids)
               /\ \E k \in Removals(ids) : m = ids[k]
               /\ \A k \in Removals(ids) : ids[k] <= m
<1> DEFINE T == {ids[k] : k \in Removals(ids)}
<1>1. \A k \in Removals(ids) : k \in 1..Len(ids) /\ ids[k] \in 1..h /\ IsRemoval(ids[k]) /\ ids[k] \in Range(ids)
  BY RangeIn DEF Removals
<1>2. T \in SUBSET (0..h) /\ T # {} /\ T \in SUBSET (1..h)
  <2>1. T # {}
    OBVIOUS
  <2>2. \A x \in T : x \in 1..h
    BY <1>1
  <2>3. 1..h \subseteq 0..h
    OBVIOUS
  <2> HIDE DEF T
  <2>4. QED
    BY <2>1, <2>2, <2>3
<1>3. \A k \in Removals(ids) : ids[k] \in T
  OBVIOUS
<1>4. \A m \in T : IsRemoval(m) /\ m \in Range(ids) /\ \E k \in Removals(ids) : m = ids[k]
  BY <1>1
<1> HIDE DEF T
<1>5. MaxOf(T, 0) \in T /\ \A x \in T : x <= MaxOf(T, 0)
  BY <1>2, MaxOfMember
<1>6. QED
  BY <1>2, <1>3, <1>4, <1>5 DEF T

(* The applied position stays a position of the log.                       *)
LEMMA AppliedType ==
    ASSUME NEW h \in Nat, NEW ids \in Seq(1..h), NEW a \in 0..h
    PROVE  MaxOf(Range(ids) \cup {a}, 0) \in 0..h
<1> DEFINE T == Range(ids) \cup {a}
<1>1. T \in SUBSET (0..h)
  <2>1. Range(ids) \subseteq 1..h
    BY RangeIn
  <2>2. QED
    BY <2>1
<1>2. 0 \in 0..h
  OBVIOUS
<1> HIDE DEF T
<1>3. MaxOf(T, 0) \in 0..h
  BY <1>1, <1>2, MaxOfType
<1>4. QED
  BY <1>3 DEF T

(* The mark for no bootstrap queue is not a queue of ids.                  *)
LEMMA NoQueueFacts == \A h \in Nat : NoQueue \notin Seq(1..h)
<1>1. SUFFICES ASSUME NEW h \in Nat, NoQueue \in Seq(1..h) PROVE FALSE
  OBVIOUS
<1>2. NoQueue[1] = -1 /\ Len(NoQueue) = 1
  BY DEF NoQueue
<1>3. NoQueue[1] \in 1..h
  BY <1>1, <1>2
<1>4. QED
  BY <1>2, <1>3

(* Every position up to the head has a row, and is an id.                  *)
LEMMA Rows ==
    ASSUME ServerTyped
    PROVE  head \in Nat /\ Len(log) \in Nat /\ head <= Len(log) /\ Start \in Nat /\ Start <= head
           /\ (\A i \in 1..head : log[i].row \in Row /\ i \in Ids)
<1>1. Start \in Nat /\ Len(log) \in Nat
  BY DeltaAssumption DEF ServerTyped
<1>2. head \in Nat /\ head <= Len(log) /\ Start <= head
  BY <1>1 DEF ServerTyped
<1>3. \A i \in 1..head : i \in 1..Len(log)
  BY <1>1, <1>2
<1>4. \A i \in 1..Len(log) : log[i] \in Delta
  BY DEF ServerTyped
<1>5. QED
  BY <1>1, <1>2, <1>3, <1>4 DEF Delta, Ids


-----------------------------------------------------------------------------
(* Every step preserves Core.                                              *)

(* A frame that was good stays good while the log does not change.         *)
LEMMA WireSame ==
    ASSUME WireGood, log' = log, wire' = wire
    PROVE  WireGood'
BY DEF WireGood, Spans, Visible

(* The first and the later elements of a sequence.                         *)
LEMMA TailFacts ==
    ASSUME NEW A, NEW s \in Seq(A), s # <<>>
    PROVE  /\ Tail(s) \in Seq(A) /\ Len(Tail(s)) = Len(s) - 1
           /\ \A k \in 1..Len(Tail(s)) : Tail(s)[k] = s[k + 1] /\ k + 1 \in 1..Len(s)
           /\ 1 \in 1..Len(s) /\ Head(s) = s[1] /\ s[1] \in A
BY HeadTailProperties

(* The first catch-up job is a job.                                        *)
LEMMA LaneHead ==
    ASSUME ClientTyped, lane # <<>>
    PROVE  /\ lane[1].ids \in Seq(1..head) /\ lane[1].position \in 0..head
           /\ lane[1] \in JobType(head) /\ 1 \in 1..Len(lane)
<1> DEFINE J == JobType(head)
<1>1. lane \in Seq(J)
  BY DEF ClientTyped
<1> HIDE DEF J
<1>2. lane[1] \in J /\ 1 \in 1..Len(lane)
  BY <1>1, TailFacts
<1>3. QED
  BY <1>2 DEF J, JobType

(* The frames left when one is received, or the connection drops, are      *)
(* good.                                                                   *)
LEMMA WireLess ==
    ASSUME ServerTyped, WireGood, log' = log,
           wire' = <<>> \/ (wire # <<>> /\ wire' = Tail(wire))
    PROVE  WireGood' /\ wire' \in Seq(FrameType(head))
<1>1. CASE wire' = <<>>
  BY <1>1, RangeEmpty DEF WireGood
<1>2. CASE wire # <<>> /\ wire' = Tail(wire)
  <2>1. /\ wire' \in Seq(FrameType(head)) /\ Len(wire') = Len(wire) - 1
        /\ \A k \in 1..Len(wire') : wire'[k] = wire[k + 1] /\ k + 1 \in 1..Len(wire)
    BY <1>2, TailFacts DEF ServerTyped
  <2>2. \A f : Spans(f) => Spans(f)'
    BY DEF Spans, Visible
  <2>3. QED
    BY <2>1, <2>2 DEF WireGood
<1>3. QED
  BY <1>1, <1>2

(* The ids of a catch-up job are positions up to the head.                 *)
LEMMA JobIds ==
    ASSUME ClientTyped, NEW k \in 1..Len(lane)
    PROVE  /\ lane[k] \in JobType(head) /\ lane[k].ids \in Seq(1..head)
           /\ Range(lane[k].ids) \subseteq 1..head
<1> DEFINE J == JobType(head)
           w == lane[k].ids
<1>1. lane \in Seq(J)
  BY DEF ClientTyped
<1> HIDE DEF J
<1>2. lane[k] \in J
  BY <1>1
<1>3. w \in Seq(1..head)
  BY <1>2 DEF J, JobType
<1> HIDE DEF w
<1>4. Range(w) \subseteq 1..head
  BY <1>3, RangeIn
<1>5. QED
  BY <1>2, <1>3, <1>4 DEF w, J

(* Open keeps Core.                                                        *)
LEMMA OpenCore ==
    ASSUME Core, Open
    PROVE  Core'
<1> USE DEF Core, Open
<1>1. ServerTyped'
  BY DEF ServerTyped, ClientTyped
<1>2. ClientTyped' /\ HistoryTyped'
  BY DEF ClientTyped, HistoryTyped, positions, queues, tables, rebuilds, history, Ids
<1>3. WireGood'
  BY WireSame
<1>4. FlushInv' /\ DurableGood'
  BY DEF FlushInv, DurableGood, history
<1>5. RebuildGood'
  BY DEF RebuildGood, rebuilds, queues, history
<1>6. QED
  BY <1>1, <1>2, <1>3, <1>4, <1>5

(* Poll keeps Core.                                                        *)
LEMMA PollCore ==
    ASSUME Core, Poll
    PROVE  Core'
<1> USE DEF Core, Poll
<1>1. ServerTyped'
  BY DEF ServerTyped, ClientTyped
<1>2. ClientTyped' /\ HistoryTyped'
  BY DEF ClientTyped, HistoryTyped, positions, queues, tables, rebuilds, history, Ids
<1>3. WireGood'
  BY WireSame
<1>4. FlushInv' /\ DurableGood'
  BY DEF FlushInv, DurableGood, history
<1>5. RebuildGood'
  BY DEF RebuildGood, rebuilds, queues, history
<1>6. QED
  BY <1>1, <1>2, <1>3, <1>4, <1>5

(* Drop keeps Core.                                                        *)
LEMMA DropCore ==
    ASSUME Core, Drop
    PROVE  Core'
<1> USE DEF Core, Drop, Disconnected, PerformReconnect
<1>1. ServerTyped'
  BY RangeEmpty DEF ServerTyped
<1>2. ClientTyped' /\ HistoryTyped'
  BY DEF ClientTyped, HistoryTyped, positions, queues, tables, history, Ids, Fault
<1>3. WireGood'
  BY WireLess
<1>4. FlushInv' /\ DurableGood'
  BY DEF FlushInv, DurableGood, history
<1>5. RebuildGood'
  BY DEF RebuildGood, queues, history
<1>6. QED
  BY <1>1, <1>2, <1>3, <1>4, <1>5

(* LaneAck keeps Core.                                                     *)
LEMMA LaneAckCore ==
    ASSUME Core, LaneAck
    PROVE  Core'
<1> USE DEF Core, LaneAck
<1>0. /\ lane' \in Seq(JobType(head)) /\ Len(lane') = Len(lane) - 1 /\ cursor' \in 0..head
      /\ \A k \in 1..Len(lane') : lane'[k] = lane[k + 1] /\ k + 1 \in 1..Len(lane)
  <2>1. lane[1].position \in 0..head
    BY LaneHead
  <2>2. cursor' \in 0..head
    BY <2>1 DEF ClientTyped, Max2
  <2>3. lane \in Seq(JobType(head)) /\ lane # <<>> /\ lane' = Tail(lane)
    BY DEF ClientTyped
  <2>4. /\ lane' \in Seq(JobType(head)) /\ Len(lane') = Len(lane) - 1
        /\ \A k \in 1..Len(lane') : lane'[k] = lane[k + 1] /\ k + 1 \in 1..Len(lane)
    <3> HIDE DEF Core, LaneAck
    <3> DEFINE J == JobType(head)
    <3>1. lane \in Seq(J)
      BY <2>3
    <3> HIDE DEF J
    <3>2. /\ Tail(lane) \in Seq(J) /\ Len(Tail(lane)) = Len(lane) - 1
          /\ \A k \in 1..Len(Tail(lane)) :
                Tail(lane)[k] = lane[k + 1] /\ k + 1 \in 1..Len(lane)
      BY <2>3, <3>1, TailFacts
    <3>3. QED
      BY <2>3, <3>2 DEF J
  <2>5. QED
    BY <2>2, <2>4
<1>1. ServerTyped' /\ HistoryTyped'
  BY DEF ServerTyped, HistoryTyped, server, history, Ids
<1>2. ClientTyped'
  BY <1>0 DEF ClientTyped, tables, rebuilds, server
<1>3. WireGood'
  BY WireSame DEF server
<1>4. FlushInv' /\ DurableGood'
  BY DEF FlushInv, DurableGood, history, server
<1>5. RebuildGood'
  BY <1>0 DEF RebuildGood, rebuilds, history, server
<1>6. QED
  BY <1>1, <1>2, <1>3, <1>4, <1>5

(* TimerFires keeps Core.                                                  *)
LEMMA TimerFiresCore ==
    ASSUME Core, TimerFires
    PROVE  Core'
<1> USE DEF Core, TimerFires
<1>0. /\ FlushGood(flush', log, failed, head) /\ pending' \in Seq(1..head)
      /\ Range(pending') \cup Range(flush'.ids) \subseteq Range(pending) \cup Range(flush.ids)
      /\ \A dur : Stored(flush, dur) => Stored(flush', dur)
      /\ queue # NoQueue => flush' = flush /\ pending' = pending
  <2>1. head \in Nat /\ \A i \in 1..head : log[i].row \in Row
    BY Rows
  <2>2. queue # NoQueue => flush' = flush /\ pending' = pending
    BY DEF RebuildGood, FlushPendingDeltas
  <2>3. pending \in Seq(1..head) /\ FlushGood(flush, log, failed, head)
    BY DEF ClientTyped, FlushInv
  <2>4. QED
    BY <2>1, <2>2, <2>3, FlushPendingFacts
<1>1. ServerTyped' /\ HistoryTyped'
  BY DEF ServerTyped, HistoryTyped, server, history, Ids
<1>2. ClientTyped'
  BY <1>0 DEF ClientTyped, tables, rebuilds, server, positions
<1>3. WireGood'
  BY WireSame DEF server
<1>4. FlushInv' /\ DurableGood'
  BY <1>0 DEF FlushInv, DurableGood, history, server
<1>5. RebuildGood'
  BY <1>0 DEF RebuildGood, rebuilds, history, server
<1>6. QED
  BY <1>1, <1>2, <1>3, <1>4, <1>5


(* RevokeClear keeps Core.                                                 *)
LEMMA RevokeClearCore ==
    ASSUME Core, RevokeClear
    PROVE  Core'
<1> USE DEF Core, RevokeClear
<1>0. head \in Nat
  BY Rows
<1>1. ServerTyped'
  BY DEF ServerTyped, server
<1>2. ClientTyped'
  <2>1. Cleared \in [Row -> [Field -> 0..head]] /\ Emptied \in [Row -> 0..head]
    BY <1>0 DEF Cleared, Emptied, NoRow
  <2>2. stored' \in {stored, Cleared} /\ pool' = Emptied
    OBVIOUS
  <2>3. stored' \in [Row -> [Field -> 0..head]] /\ pool' \in [Row -> 0..head]
    BY <2>1, <2>2 DEF ClientTyped
  <2>4. QED
    BY <2>3 DEF ClientTyped, positions, queues, server
<1>3. HistoryTyped'
  <2>1. durable' \in {durable, {}} /\ faults' \in {faults, faults + 1}
    BY DEF Fault
  <2>2. durable' \subseteq Ids /\ faults' \in Nat
    BY <2>1 DEF HistoryTyped
  <2>3. QED
    BY <2>2 DEF HistoryTyped, server, Ids
<1>4. WireGood'
  BY WireSame DEF server
<1>5. FlushInv' /\ DurableGood'
  BY DEF FlushInv, DurableGood, RebuildGood, server
<1>6. RebuildGood'
  BY DEF RebuildGood, queues, server
<1>7. QED
  BY <1>1, <1>2, <1>3, <1>4, <1>5, <1>6

(* ForceFullRebootstrap keeps Core.                                        *)
LEMMA ForceFullRebootstrapCore ==
    ASSUME Core, ForceFullRebootstrap
    PROVE  Core'
<1> USE DEF Core, ForceFullRebootstrap, Disconnected, PerformReconnect
<1>1. ServerTyped'
  BY RangeEmpty DEF ServerTyped
<1>2. ClientTyped' /\ HistoryTyped'
  BY DEF ClientTyped, HistoryTyped, positions, queues, tables, history, Ids
<1>3. WireGood'
  BY WireLess
<1>4. FlushInv' /\ DurableGood'
  BY DEF FlushInv, DurableGood, history
<1>5. RebuildGood'
  BY DEF RebuildGood, queues, history
<1>6. QED
  BY <1>1, <1>2, <1>3, <1>4, <1>5

(* BootFetch keeps Core.                                                   *)
LEMMA BootFetchCore ==
    ASSUME Core, BootFetch
    PROVE  Core'
<1> USE DEF Core, BootFetch
<1>0. head \in Nat
  BY Rows
<1>1. ServerTyped'
  BY DEF ServerTyped, server
<1>2. ClientTyped' /\ HistoryTyped'
  BY <1>0 DEF ClientTyped, HistoryTyped, positions, queues, tables, history, Ids, server
<1>3. WireGood'
  BY WireSame DEF server
<1>4. FlushInv' /\ DurableGood'
  BY DEF FlushInv, DurableGood, history, server
<1>5. RebuildGood'
  <2>1. /\ \A i \in Range(pending) : i <= head
        /\ \A i \in Range(flush.ids) : i <= head
    <3>1. pending \in Seq(1..head) /\ flush.ids \in Seq(1..head)
      BY DEF ClientTyped, FlushInv, FlushGood, FlushType
    <3>2. Range(pending) \subseteq 1..head /\ Range(flush.ids) \subseteq 1..head
      BY <3>1, RangeIn
    <3>3. QED
      BY <3>2, <1>0
  <2>2. \A k \in 1..Len(lane) : \A i \in Range(lane[k].ids) : i <= head
    <3>1. SUFFICES ASSUME NEW k \in 1..Len(lane) PROVE \A i \in Range(lane[k].ids) : i <= head
      OBVIOUS
    <3>2. Range(lane[k].ids) \subseteq 1..head
      BY JobIds
    <3>3. QED
      BY <3>2, <1>0
  <2>3. QED
    BY <2>1, <2>2 DEF RebuildGood, queues, history, server
<1>6. QED
  BY <1>1, <1>2, <1>3, <1>4, <1>5

(* BootClear keeps Core.                                                   *)
LEMMA BootClearCore ==
    ASSUME Core, BootClear
    PROVE  Core'
<1> USE DEF Core, BootClear
<1>0. head \in Nat
  BY Rows
<1>1. ServerTyped'
  BY DEF ServerTyped, server
<1>2. ClientTyped' /\ HistoryTyped'
  <2>1. stored' \in [Row -> [Field -> 0..head]]
    BY <1>0 DEF Cleared, NoRow
  <2>2. QED
    BY <2>1 DEF ClientTyped, HistoryTyped, positions, queues, server, Ids
<1>3. WireGood'
  BY WireSame DEF server
<1>4. FlushInv' /\ DurableGood'
  BY DEF FlushInv, DurableGood, server
<1>5. RebuildGood'
  BY DEF RebuildGood, queues, server
<1>6. QED
  BY <1>1, <1>2, <1>3, <1>4, <1>5

(* No bootstrap queue while a batch is drained.                            *)
LEMMA Draining ==
    ASSUME Core, flush.phase # "idle"
    PROVE  queue = NoQueue
BY DEF Core, RebuildGood, Idle

(* PersistRead keeps Core.                                                 *)
LEMMA PersistReadCore ==
    ASSUME Core, PersistRead
    PROVE  Core'
<1>0. /\ head \in Nat /\ \A i \in 1..head : i \in Ids
  BY Rows DEF Core
<1>1. /\ FlushGood(flush', log, failed', head) /\ failed' \subseteq failed \cup 1..head
      /\ flush'.phase = flush.phase /\ flush'.ids = flush.ids /\ flush'.ok = flush.ok
      /\ flush'.todo = flush.todo
  <2>1. FlushGood(flush, log, failed, head) /\ stored \in [Row -> [Field -> 0..head]]
    BY DEF Core, FlushInv, ClientTyped
  <2>2. QED
    BY <1>0, <2>1, PersistReadFlush
<1>2. queue = NoQueue /\ faults' \in Nat
  BY Draining DEF PersistRead, Core, HistoryTyped, Fault
<1>3. UNCHANGED <<server, positions, queues, tables, rebuilds, durable, lost, deferred,
                   rebuild, revokedAt>>
  BY DEF PersistRead
<1> USE DEF Core
<1>4. ServerTyped' /\ ClientTyped'
  BY <1>3 DEF ServerTyped, ClientTyped, server, positions, queues, tables, rebuilds
<1>5. HistoryTyped'
  BY <1>0, <1>1, <1>2, <1>3 DEF HistoryTyped, server, Ids
<1>6. WireGood'
  BY <1>3, WireSame DEF server
<1>7. FlushInv' /\ DurableGood'
  BY <1>1, <1>3 DEF FlushInv, DurableGood, Stored, server
<1>8. RebuildGood'
  BY <1>1, <1>2, <1>3 DEF RebuildGood, queues, rebuilds, server
<1>9. QED
  BY <1>4, <1>5, <1>6, <1>7, <1>8

(* PersistWrite keeps Core.                                                *)
LEMMA PersistWriteCore ==
    ASSUME Core, PersistWrite
    PROVE  Core'
<1>0. /\ head \in Nat /\ \A i \in 1..head : log[i].row \in Row /\ i \in Ids
  BY Rows DEF Core
<1>1. /\ FlushGood(flush', log, failed', head) /\ failed' \subseteq failed \cup 1..head
      /\ flush'.ids = flush.ids /\ flush'.ok \subseteq durable'
      /\ durable' \subseteq durable \cup 1..head
  <2>1. FlushGood(flush, log, failed, head)
    BY DEF Core, FlushInv
  <2>2. QED
    BY <1>0, <2>1, PersistWriteFlush
<1>2. queue = NoQueue /\ faults' \in Nat
  BY Draining DEF PersistWrite, Core, HistoryTyped, Fault
<1>3. UNCHANGED <<server, positions, queues, pool, rebuilds, lost, deferred, rebuild, revokedAt>>
  BY DEF PersistWrite
<1>4. stored' \in [Row -> [Field -> 0..head]]
  <2>1. stored \in [Row -> [Field -> 0..head]] /\ flush.read \in [Row -> [Field -> 0..head]]
    BY DEF Core, ClientTyped, FlushInv, FlushGood, FlushType, PersistWrite
  <2>2. CurrentDeltas \in SUBSET (1..head)
    BY <1>0, CurrentFacts DEF Core, FlushInv
  <2>3. stored' \in {stored, AfterStore(log, stored, flush.read, CurrentDeltas)}
    BY DEF PersistWrite
  <2>4. AfterStore(log, stored, flush.read, CurrentDeltas) \in [Row -> [Field -> 0..head]]
    BY <1>0, <2>1, <2>2, AfterStoreType
  <2>5. QED
    BY <2>1, <2>3, <2>4
<1> USE DEF Core
<1>5. ServerTyped' /\ ClientTyped'
  BY <1>3, <1>4 DEF ServerTyped, ClientTyped, server, positions, queues, rebuilds
<1>6. HistoryTyped'
  BY <1>0, <1>1, <1>2, <1>3 DEF HistoryTyped, server, Ids
<1>7. WireGood'
  BY <1>3, WireSame DEF server
<1>8. FlushInv' /\ DurableGood'
  BY <1>1, <1>3 DEF FlushInv, DurableGood, Stored, server
<1>9. RebuildGood'
  BY <1>1, <1>2, <1>3 DEF RebuildGood, queues, rebuilds, server
<1>10. QED
  BY <1>5, <1>6, <1>7, <1>8, <1>9


(* What every step of the drain after the writes leaves alone.             *)
LEMMA DrainCore ==
    ASSUME Core, FlushGood(flush', log, failed, head), flush.phase # "idle",
           UNCHANGED <<server, queue, stored, rebuilds, durable, failed, deferred, rebuild,
                       revokedAt>>,
           laneOk' \in BOOLEAN,
           cursor' \in 0..head, applied' \in 0..head, persisted' \in 0..head, meta' \in 0..head,
           pending' \in Seq(1..head), timer' \in BOOLEAN, pool' \in [Row -> 0..head],
           lost' \subseteq Ids, faults' \in Nat,
           lane' \in Seq(JobType(head)),
           \A k \in 1..Len(lane') : k \in 1..Len(lane) /\ lane'[k].ids = lane[k].ids,
           Range(pending') \cup Range(flush'.ids) \subseteq Range(pending) \cup Range(flush.ids),
           Stored(flush, durable) => Stored(flush', durable)
    PROVE  Core'
<1> USE DEF Core
<1>0. queue = NoQueue
  BY Draining
<1>1. ServerTyped' /\ HistoryTyped'
  BY DEF ServerTyped, HistoryTyped, server, Ids
<1>2. ClientTyped'
  BY DEF ClientTyped, server, rebuilds
<1>3. WireGood'
  BY WireSame DEF server
<1>4. FlushInv' /\ DurableGood'
  BY DEF FlushInv, DurableGood, server
<1>5. RebuildGood'
  BY <1>0 DEF RebuildGood, rebuilds, server
<1>6. QED
  BY <1>1, <1>2, <1>3, <1>4, <1>5

(* A batch that ends, with or without an acknowledgement.                  *)
LEMMA FinishCore ==
    ASSUME Core, flush.phase # "idle", NEW f, f.held \in Flags, FinishBatch(f),
           UNCHANGED <<server, pending, queue, laneOk, stored, rebuilds, history, faults>>,
           cursor' \in 0..head, applied' \in 0..head, persisted' \in 0..head, meta' \in 0..head,
           pool' \in [Row -> 0..head]
    PROVE  Core' /\ Resting(flush')
<1>0. /\ head \in Nat /\ pending \in Seq(1..head) /\ lane \in Seq(JobType(head))
      /\ timer \in BOOLEAN /\ laneOk \in BOOLEAN
  BY Rows DEF Core, ClientTyped
<1>1. /\ FlushGood(flush', log, failed, head) /\ Resting(flush')
      /\ timer' \in BOOLEAN /\ lane' \in Seq(JobType(head)) /\ Len(lane') = Len(lane)
      /\ \A k \in 1..Len(lane) : lane'[k].ids = lane[k].ids
  BY <1>0, FinishFacts
<1>2. Range(flush'.ids) = {} /\ Stored(flush', durable)
  BY <1>1, RangeEmpty DEF Resting, Stored
<1>3. lost' \subseteq Ids /\ faults' \in Nat
  BY DEF history, Core, HistoryTyped
<1>4. QED
  BY <1>0, <1>1, <1>2, <1>3, DrainCore DEF history

(* The types of the variables, as the steps below use them.                *)
LEMMA FlushFields ==
    ASSUME Core
    PROVE  /\ head \in Nat /\ FlushGood(flush, log, failed, head) /\ flush \in FlushType(head)
           /\ flush.ids \in Seq(1..head) /\ Range(flush.ids) \subseteq 1..head
           /\ \A k \in 1..Len(flush.ids) : flush.ids[k] \in Range(flush.ids)
           /\ flush.held \in Flags /\ flush.prefix \in 0..head
           /\ Increasing(flush.ids) /\ Len(flush.ids) \in Nat /\ flush.done \in 0..Len(flush.ids)
           /\ cursor \in 0..head /\ applied \in 0..head /\ persisted \in 0..head /\ meta \in 0..head
           /\ pending \in Seq(1..head) /\ lane \in Seq(JobType(head))
           /\ timer \in BOOLEAN /\ laneOk \in BOOLEAN
           /\ pool \in [Row -> 0..head] /\ lost \subseteq Ids /\ faults \in Nat
<1>1. head \in Nat /\ FlushGood(flush, log, failed, head)
  BY Rows DEF Core, FlushInv
<1>2. flush.ids \in Seq(1..head) /\ flush.held \in Flags /\ flush.prefix \in 0..head
      /\ Increasing(flush.ids) /\ flush.done \in 0..Len(flush.ids) /\ flush \in FlushType(head)
  BY <1>1 DEF FlushGood, FlushType, BatchGood
<1>3. /\ Range(flush.ids) \subseteq 1..head /\ Len(flush.ids) \in Nat
      /\ \A k \in 1..Len(flush.ids) : flush.ids[k] \in Range(flush.ids)
  <2> DEFINE w == flush.ids
  <2>1. w \in Seq(1..head)
    BY <1>2
  <2> HIDE DEF w
  <2>2. Range(w) \subseteq 1..head
    BY <2>1, RangeIn
  <2>3. Len(w) \in Nat
    BY <2>1
  <2>4. \A k \in 1..Len(w) : w[k] \in Range(w)
    BY <2>1, RangeIn
  <2>5. QED
    BY <2>2, <2>3, <2>4 DEF w
<1>4. QED
  BY <1>1, <1>2, <1>3 DEF Core, ClientTyped, HistoryTyped

(* PersistDone keeps Core.                                                 *)
LEMMA PersistDoneCore ==
    ASSUME Core, PersistDone
    PROVE  Core'
<1> DEFINE top == HighestPersistedPrefix(flush.ids, flush.ok)
<1>1. top \in 0..head
  BY FlushFields, PrefixFacts
<1>2. meta' \in 0..head /\ flush.phase = "persist" /\ flush.todo = {}
  <2>1. meta' \in {top, meta}
    BY DEF PersistDone
  <2>2. QED
    BY <1>1, <2>1, FlushFields DEF PersistDone
<1>3. CASE flush.current
  <2> DEFINE f == [flush EXCEPT !.phase = "apply", !.prefix = top,
                                !.acts = [id \in DOMAIN flush.acts |-> Revived(id)]]
  <2>1. flush' = f /\ UNCHANGED <<timer, lane>>
    BY <1>3 DEF PersistDone
  <2>2. FlushGood(f, log, failed, head) /\ f.ids = flush.ids /\ f.ok = flush.ok
        /\ f.phase = "apply"
    BY <1>2, FlushFields, PersistDoneFlush
  <2> HIDE DEF f
  <2>3. Stored(flush, durable) => Stored(flush', durable)
    BY <1>2, <2>1, <2>2 DEF Stored
  <2>4. QED
    <3>1. UNCHANGED <<server, cursor, applied, persisted, pending, queue, laneOk, tables,
                      rebuilds, history, faults>>
      BY DEF PersistDone
    <3>2. /\ FlushGood(flush', log, failed, head)
          /\ Range(pending') \cup Range(flush'.ids) \subseteq Range(pending) \cup Range(flush.ids)
      BY <2>1, <2>2, <3>1
    <3>3. /\ cursor' \in 0..head /\ applied' \in 0..head /\ persisted' \in 0..head
          /\ pending' \in Seq(1..head) /\ timer' \in BOOLEAN /\ pool' \in [Row -> 0..head]
          /\ lost' \subseteq Ids /\ faults' \in Nat /\ laneOk' \in BOOLEAN
          /\ lane' \in Seq(JobType(head))
          /\ \A k \in 1..Len(lane') : k \in 1..Len(lane) /\ lane'[k].ids = lane[k].ids
      BY <2>1, <3>1, FlushFields DEF history, tables
    <3>4. UNCHANGED <<server, queue, stored, rebuilds, durable, failed, deferred, rebuild,
                       revokedAt>>
      BY <3>1 DEF history, tables
    <3>5. QED
      BY <1>2, <2>3, <3>2, <3>3, <3>4, DrainCore
<1>4. CASE ~flush.current
  <2>1. /\ FinishBatch(flush)
        /\ UNCHANGED <<server, pending, queue, laneOk, stored, rebuilds, history, faults>>
        /\ UNCHANGED <<cursor, applied, persisted, pool>>
    BY <1>4 DEF PersistDone, tables
  <2>2. flush.phase # "idle"
    BY <1>2
  <2>3. /\ cursor' \in 0..head /\ applied' \in 0..head /\ persisted' \in 0..head
        /\ pool' \in [Row -> 0..head] /\ flush.held \in Flags
    BY <2>1, FlushFields
  <2>4. QED
    BY <1>2, <2>1, <2>2, <2>3, FinishCore
<1>5. QED
  BY <1>3, <1>4

(* What is held after a batch is revealed is a set of actions.             *)
LEMMA AppliedHeld ==
    ASSUME Core
    PROVE  Applied(flush).held \in Flags
<1>1. PICK U \in SUBSET Nat : flush.held \in [U -> Actions]
  BY FlushFields DEF Flags
<1> DEFINE V == U \ Range(flush.ids)
           g == [id \in V |-> flush.held[id]]
<1>2. g \in [V -> Actions] /\ V \in SUBSET Nat
  BY <1>1
<1>3. Applied(flush) = IF flush.current THEN [flush EXCEPT !.held = g] ELSE flush
  BY <1>1 DEF Applied
<1> HIDE DEF g, V
<1>4. g \in Flags
  BY <1>2 DEF Flags
<1>5. [flush EXCEPT !.held = g].held = g
  BY FlushFields DEF FlushType
<1>6. QED
  BY <1>3, <1>4, <1>5, FlushFields

(* Acknowledge keeps Core.                                                 *)
LEMMA AcknowledgeCore ==
    ASSUME Core, Acknowledge
    PROVE  Core'
<1>1. Applied(flush).held \in Flags
  BY AppliedHeld
<1>2. flush.phase # "idle" /\ FinishBatch(Applied(flush))
  BY DEF Acknowledge
<1>3. /\ cursor' \in {cursor, Max2(cursor, flush.prefix)} /\ persisted' \in {persisted, flush.prefix}
      /\ applied' \in {applied, Max2(applied, flush.prefix)}
  BY DEF Acknowledge
<1>4. cursor' \in 0..head /\ applied' \in 0..head /\ persisted' \in 0..head
  BY <1>3, FlushFields DEF Max2
<1>5. /\ UNCHANGED <<server, pending, queue, laneOk, stored, rebuilds, history, faults>>
      /\ meta' = meta /\ pool' = pool
  BY DEF Acknowledge, tables
<1>6. meta' \in 0..head /\ pool' \in [Row -> 0..head]
  BY <1>5, FlushFields
<1>7. QED
  BY <1>1, <1>2, <1>4, <1>5, <1>6, FinishCore


(* A slice reveals ids of the batch and keeps its clauses.                 *)
LEMMA ApplySliceFacts ==
    ASSUME Core, ApplySlice, flush.current
    PROVE  /\ FlushGood(flush', log, failed, head) /\ flush'.ids = flush.ids
           /\ flush'.ok = flush.ok /\ flush'.phase = "apply" /\ flush'.current = flush.current
           /\ UNCHANGED <<timer, lane>>
           /\ \E slice \in SUBSET Range(flush.ids) : pool' = Reveal(log, pool, slice, flush.acts)
<1> DEFINE end == SliceEnd(ResultTxs(log, flush.ids, flush.ok, DOMAIN flush.held), flush.done,
                           SliceDeltas)
           slice == {flush.ids[k] : k \in (flush.done + 1)..end}
           f == [flush EXCEPT !.done = end]
<1>1. /\ pool' = Reveal(log, pool, slice, flush.acts) /\ flush' = f /\ UNCHANGED <<timer, lane>>
      /\ flush.phase = "apply" /\ flush.done < Len(flush.ids)
  BY DEF ApplySlice
<1>2. log \in Seq(Delta) /\ InOnePiece(log) /\ head <= Len(log)
  BY Rows DEF Core, ServerTyped
<1> HIDE DEF end
<1>3. /\ FlushGood(f, log, failed, head) /\ f.phase = "apply" /\ f.ids = flush.ids
      /\ f.ok = flush.ok /\ f.current = flush.current
      /\ end \in (flush.done + 1)..Len(flush.ids)
  <2>1. end = SliceEnd(ResultTxs(log, flush.ids, flush.ok, DOMAIN flush.held), flush.done,
                       SliceDeltas)
    BY DEF end
  <2> HIDE DEF f
  <2>2. f = [flush EXCEPT !.done = end]
    BY DEF f
  <2>3. QED
    BY <1>1, <1>2, <2>1, <2>2, FlushFields, SliceFlush
<1>4. slice \in SUBSET Range(flush.ids)
  <2>0. flush.done \in 0..Len(flush.ids) /\ Len(flush.ids) \in Nat
    BY FlushFields
  <2> HIDE DEF end
  <2>1. \A k \in (flush.done + 1)..end : k \in 1..Len(flush.ids)
    BY <1>3, <2>0
  <2>2. \A k \in 1..Len(flush.ids) : flush.ids[k] \in Range(flush.ids)
    BY FlushFields
  <2>3. QED
    BY <2>1, <2>2
<1>5. QED
  BY <1>1, <1>3, <1>4

(* ApplySlice keeps Core.                                                  *)
LEMMA ApplySliceCore ==
    ASSUME Core, ApplySlice
    PROVE  Core'
<1>0. /\ flush.phase = "apply"
      /\ UNCHANGED <<server, cursor, applied, persisted, meta, pending, queue, laneOk, stored,
                     rebuilds, history, faults>>
      /\ UNCHANGED <<durable, failed, lost, deferred, rebuild, revokedAt>>
  BY DEF ApplySlice, history, positions
<1>1. CASE flush.current
  <2>1. /\ FlushGood(flush', log, failed, head) /\ flush'.ids = flush.ids
        /\ flush'.ok = flush.ok /\ flush'.phase = "apply" /\ UNCHANGED <<timer, lane>>
    BY <1>1, ApplySliceFacts
  <2>2. PICK slice \in SUBSET Range(flush.ids) : pool' = Reveal(log, pool, slice, flush.acts)
    BY <1>1, ApplySliceFacts
  <2>3. pool' \in [Row -> 0..head]
    <3>1. slice \in SUBSET (1..head)
      BY <2>2, FlushFields
    <3>2. QED
      BY <2>2, <3>1, FlushFields, RevealFacts
  <2>4. /\ Stored(flush, durable) => Stored(flush', durable)
        /\ Range(pending') \cup Range(flush'.ids) \subseteq Range(pending) \cup Range(flush.ids)
    BY <1>0, <2>1 DEF Stored
  <2>5. /\ cursor' \in 0..head /\ applied' \in 0..head /\ persisted' \in 0..head
        /\ meta' \in 0..head /\ laneOk' \in BOOLEAN
        /\ pending' \in Seq(1..head) /\ timer' \in BOOLEAN
        /\ lost' \subseteq Ids /\ faults' \in Nat
        /\ lane' \in Seq(JobType(head))
        /\ \A k \in 1..Len(lane') : k \in 1..Len(lane) /\ lane'[k].ids = lane[k].ids
    BY <1>0, <2>1, FlushFields
  <2>6. QED
    BY <1>0, <2>1, <2>3, <2>4, <2>5, DrainCore
<1>2. CASE ~flush.current
  <2>1. FinishBatch(flush) /\ pool' = pool
    BY <1>2 DEF ApplySlice
  <2>2. /\ cursor' \in 0..head /\ applied' \in 0..head /\ persisted' \in 0..head
        /\ pool' \in [Row -> 0..head] /\ flush.held \in Flags /\ meta' \in 0..head
    BY <1>0, <2>1, FlushFields
  <2>3. QED
    BY <1>0, <2>1, <2>2, FinishCore
<1>3. QED
  BY <1>1, <1>2

(* ApplyThrows keeps Core.                                                 *)
LEMMA ApplyThrowsCore ==
    ASSUME Core, ApplyThrows
    PROVE  Core'
<1>0. /\ flush.phase = "apply" /\ faults' \in Nat /\ pending' = flush.ids \o pending
      /\ UNCHANGED <<server, cursor, applied, persisted, meta, queue, stored, pool,
                     rebuilds, timer>>
      /\ UNCHANGED <<durable, failed, deferred, rebuild, revokedAt>>
  <2>1. faults \in Nat
    BY FlushFields
  <2>2. QED
    BY <2>1 DEF ApplyThrows, positions, tables, Fault
<1>1. FlushGood(flush', log, failed, head) /\ Resting(flush') /\ flush'.current
  <2> DEFINE shown == {id \in Range(flush.ids) : flush.acts[id] # "verify"}
             g == [id \in shown \cup DOMAIN flush.held |->
                            IF id \in shown THEN flush.acts[id] ELSE flush.held[id]]
  <2>1. flush' = [Idle EXCEPT !.held = g]
    BY DEF ApplyThrows
  <2>2. g \in Flags
    <3>1. PICK U \in SUBSET Nat : flush.held \in [U -> Actions]
      BY FlushFields DEF Flags
    <3>2. PICK T \in SUBSET Nat : flush.acts \in [T -> Actions]
      BY FlushFields DEF FlushType, Flags
    <3>3. Range(flush.ids) \subseteq T
      <4>1. \A id \in Range(flush.ids) : id \in DOMAIN flush.acts
        BY <1>0, FlushFields DEF FlushGood, ResultsGood, Waits
      <4>2. QED
        BY <4>1, <3>2
    <3>4. shown \cup U \in SUBSET Nat
      BY <3>1, <3>2, <3>3
    <3>5. g \in [shown \cup U -> Actions]
      BY <3>1, <3>2, <3>3
    <3> HIDE DEF g, shown
    <3>6. QED
      BY <3>4, <3>5 DEF Flags
  <2> HIDE DEF g
  <2>3. flush' \in FlushType(head) /\ Resting(flush') /\ flush'.current
    BY <2>1, <2>2, FlushFields, RestedFacts
  <2>4. QED
    BY <2>3, FlushFields, RestingGood
<1>2. /\ pending' \in Seq(1..head)
      /\ Range(pending') \cup Range(flush'.ids) \subseteq Range(pending) \cup Range(flush.ids)
  <2>1. pending' \in Seq(1..head) /\ Range(pending') = Range(flush.ids) \cup Range(pending)
    <3> DEFINE w == flush.ids
    <3>1. w \in Seq(1..head) /\ pending \in Seq(1..head) /\ pending' = w \o pending
      BY <1>0, FlushFields
    <3> HIDE DEF w
    <3>2. w \o pending \in Seq(1..head) /\ Range(w \o pending) = Range(w) \cup Range(pending)
      BY <3>1, RangeConcat
    <3>3. QED
      BY <3>1, <3>2 DEF w
  <2>2. QED
    BY <2>1, <1>1, RangeEmpty DEF Resting
<1>3. /\ laneOk' \in BOOLEAN /\ lane' \in Seq(JobType(head))
      /\ \A k \in 1..Len(lane') : k \in 1..Len(lane) /\ lane'[k].ids = lane[k].ids
  <2>1. laneOk' = (laneOk /\ \A k \in 1..Len(lane) : lane[k].state # "await")
    BY DEF ApplyThrows
  <2>2. lane' \in {lane, <<>>}
    BY DEF ApplyThrows
  <2>3. laneOk' \in BOOLEAN
    BY <2>1
  <2>4. CASE lane' = lane
    BY <2>3, <2>4, FlushFields
  <2>5. CASE lane' = <<>>
    <3>1. <<>> \in Seq(JobType(head)) /\ 1..Len(<<>>) = {}
      OBVIOUS
    <3>2. QED
      BY <2>3, <2>5, <3>1
  <2>6. QED
    BY <2>2, <2>4, <2>5
<1>4. lost' \subseteq Ids
  <2>1. \A k \in 2..Len(lane) : Range(lane[k].ids) \subseteq 1..head
    <3>1. \A k \in 2..Len(lane) : k \in 1..Len(lane)
      BY FlushFields
    <3>2. QED
      BY <3>1, JobIds DEF Core
  <2>2. UNION {Range(lane[k].ids) : k \in 2..Len(lane)} \subseteq Ids
    <3>1. \A i \in 1..head : i \in Ids
      BY Rows DEF Core
    <3>2. QED
      BY <2>1, <3>1
  <2>3. \/ lost' = lost
        \/ lost' = lost \cup UNION {Range(lane[k].ids) : k \in 2..Len(lane)}
    BY DEF ApplyThrows
  <2>4. QED
    BY <2>2, <2>3, FlushFields
<1>5. Stored(flush', durable)
  BY <1>1 DEF Stored, Resting
<1>6. /\ cursor' \in 0..head /\ applied' \in 0..head /\ persisted' \in 0..head
      /\ meta' \in 0..head /\ timer' \in BOOLEAN /\ pool' \in [Row -> 0..head]
  BY <1>0, FlushFields
<1>7. QED
  BY <1>0, <1>1, <1>2, <1>3, <1>4, <1>5, <1>6, DrainCore

(* DrainLoop keeps Core.                                                   *)
LEMMA DrainLoopCore ==
    ASSUME Core, DrainLoop
    PROVE  Core'
<1>0. /\ flush.phase = "loop" /\ timer' = FALSE
      /\ UNCHANGED <<server, cursor, applied, persisted, meta, queue, laneOk, stored, pool,
                     rebuilds, faults>>
      /\ UNCHANGED <<durable, failed, lost, deferred, rebuild, revokedAt>>
  BY DEF DrainLoop, positions, tables, history
<1>1. /\ cursor' \in 0..head /\ applied' \in 0..head /\ persisted' \in 0..head
      /\ meta' \in 0..head /\ timer' \in BOOLEAN /\ pool' \in [Row -> 0..head]
      /\ lost' \subseteq Ids /\ faults' \in Nat /\ laneOk' \in BOOLEAN
  BY <1>0, FlushFields
<1>2. CASE pending # <<>>
  <2>1. flush' = Detached(flush, pending) /\ pending' = <<>> /\ lane' = lane
    BY <1>2 DEF DrainLoop
  <2>2. /\ FlushGood(flush', log, failed, head) /\ Range(flush'.ids) = Range(pending)
        /\ flush'.phase = "persist" /\ flush'.todo # {}
    <3>1. \A i \in 1..head : log[i].row \in Row
      BY Rows DEF Core
    <3>2. QED
      BY <1>2, <2>1, <3>1, FlushFields, DetachedFacts
  <2>3. /\ pending' \in Seq(1..head) /\ Stored(flush', durable)
        /\ Range(pending') \cup Range(flush'.ids) \subseteq Range(pending) \cup Range(flush.ids)
    BY <2>1, <2>2, RangeEmpty DEF Stored
  <2>4. /\ lane' \in Seq(JobType(head))
        /\ \A k \in 1..Len(lane') : k \in 1..Len(lane) /\ lane'[k].ids = lane[k].ids
    BY <2>1, FlushFields
  <2>5. QED
    BY <1>0, <1>1, <2>2, <2>3, <2>4, DrainCore
<1>3. CASE pending = <<>>
  <2>1. FinishBatch(flush) /\ UNCHANGED pending
    BY <1>0, <1>3 DEF DrainLoop, FinishBatch
  <2>2. /\ flush.held \in Flags
        /\ UNCHANGED <<server, pending, queue, laneOk, stored, rebuilds, history, faults>>
    BY <1>0, <2>1, FlushFields DEF history
  <2>3. QED
    BY <1>0, <1>1, <2>1, <2>2, FinishCore
<1>4. QED
  BY <1>2, <1>3


(* The frames the server sends when its log has been written to h.         *)
OkFrames(h) == {f \in FrameType(h) : Spans(f) /\ (f.type = "delta" => f.ids = <<f.to>>)}

(* A wire of good frames.                                                  *)
LEMMA WireOk ==
    ASSUME NEW h \in Nat
    PROVE  wire \in Seq(OkFrames(h)) <=> wire \in Seq(FrameType(h)) /\ WireGood
<1>1. ASSUME wire \in Seq(OkFrames(h)) PROVE wire \in Seq(FrameType(h)) /\ WireGood
  <2>1. OkFrames(h) \subseteq FrameType(h)
    BY DEF OkFrames
  <2>2. wire \in Seq(FrameType(h))
    BY <1>1, <2>1, SeqMono
  <2>3. \A k \in 1..Len(wire) : wire[k] \in OkFrames(h)
    BY <1>1
  <2>4. QED
    BY <2>2, <2>3 DEF OkFrames, WireGood
<1>2. ASSUME wire \in Seq(FrameType(h)), WireGood PROVE wire \in Seq(OkFrames(h))
  <2>1. \A k \in 1..Len(wire) : wire[k] \in FrameType(h)
    BY <1>2
  <2>2. \A k \in 1..Len(wire) : wire[k] \in OkFrames(h)
    BY <1>2, <2>1 DEF OkFrames, WireGood
  <2>3. QED
    BY <1>2, <2>2
<1>3. QED
  BY <1>1, <1>2

(* A good frame is good for a longer log.                                  *)
LEMMA OkMono ==
    ASSUME NEW h \in Nat, NEW g \in Nat, h <= g
    PROVE  OkFrames(h) \subseteq OkFrames(g) /\ JobType(h) \subseteq JobType(g)
<1>1. 1..h \subseteq 1..g /\ 0..h \subseteq 0..g
  OBVIOUS
<1>2. Seq(1..h) \subseteq Seq(1..g)
  BY <1>1, SeqMono
<1>3. FrameType(h) \subseteq FrameType(g) /\ JobType(h) \subseteq JobType(g)
  BY <1>1, <1>2 DEF FrameType, JobType
<1>4. QED
  BY <1>3 DEF OkFrames

(* The server's answer is a good frame: what is visible of the stretch it  *)
(* covers, in order.                                                       *)
LEMMA SpanFrame ==
    ASSUME NEW h \in Nat, NEW lo \in 0..h, NEW hi \in lo..h,
           NEW type \in {"batch", "chunk", "end"}
    PROVE  Frame(type, VisibleIn(lo, hi), hi) \in OkFrames(h)
<1> DEFINE S == {i \in (lo + 1)..hi : Visible(i)}
           s == VisibleIn(lo, hi)
           f == Frame(type, s, hi)
<1>1. S \in SUBSET (1..h) /\ hi \in 0..h /\ lo \in 0..hi
  OBVIOUS
<1>2. s \in Seq(S) /\ Range(s) = S /\ Increasing(s)
  BY <1>1, InOrderFacts DEF VisibleIn
<1>3. s \in Seq(1..h)
  BY <1>1, <1>2, SeqMono
<1> HIDE DEF s
<1>4. f \in FrameType(h) /\ f.ids = s /\ f.to = hi /\ f.type = type
  BY <1>1, <1>3 DEF FrameType, Frame
<1> HIDE DEF f
<1>5. Spans(f)
  <2>1. Range(f.ids) = {i \in (lo + 1)..f.to : Visible(i)}
    BY <1>2, <1>4
  <2>2. QED
    BY <1>1, <1>2, <1>4, <2>1 DEF Spans
<1>6. f \in OkFrames(h)
  BY <1>4, <1>5 DEF OkFrames
<1>7. QED
  BY <1>6 DEF f, s

(* So is the frame of one live delta.                                      *)
LEMMA SingleFrame ==
    ASSUME NEW h \in Nat, NEW i \in 1..h, Visible(i)
    PROVE  Frame("delta", <<i>>, i) \in OkFrames(h)
<1> DEFINE f == Frame("delta", <<i>>, i)
           s == <<i>>
<1>1. s \in Seq(1..h) /\ Len(s) = 1 /\ s[1] = i /\ i \in 0..h
  OBVIOUS
<1>2. f.ids = <<i>> /\ f.to = i /\ f.type = "delta" /\ f \in FrameType(h)
  BY <1>1 DEF Frame, FrameType
<1> HIDE DEF f, s
<1>3. Range(s) = {i} /\ Increasing(s)
  <2>1. 1..Len(s) = {1}
    BY <1>1
  <2>2. \A x : x \in Range(s) <=> \E k \in 1..Len(s) : s[k] = x
    BY <1>1, RangeIn
  <2>3. Range(s) = {i}
    BY <1>1, <2>1, <2>2
  <2>4. Increasing(s)
    BY <1>1, <2>1 DEF Increasing
  <2>5. QED
    BY <2>3, <2>4
<1>4. {i} = {j \in ((i - 1) + 1)..i : Visible(j)} /\ i - 1 \in 0..i
  <2>1. (i - 1) + 1 = i /\ i..i = {i} /\ i - 1 \in 0..i
    OBVIOUS
  <2>2. {i} = {j \in {i} : Visible(j)}
    OBVIOUS
  <2>3. QED
    BY <2>1, <2>2
<1>5. Spans(f)
  <2>1. Increasing(f.ids) /\ Range(f.ids) = {i} /\ f.to = i
    BY <1>2, <1>3 DEF s
  <2>2. QED
    BY <1>4, <2>1 DEF Spans
<1>6. f \in OkFrames(h)
  BY <1>2, <1>5 DEF OkFrames
<1>7. QED
  BY <1>6 DEF f

(* An answer appends good frames; in one response it appends one, which    *)
(* reaches to the head.                                                    *)
LEMMA AnswerFrames ==
    ASSUME Core, Answer
    PROVE  \E X \in Seq(OkFrames(head)) :
              /\ wire' = wire \o X
              /\ mode = "batch" => Len(X) = 1 /\ X[1].type = "batch" /\ X[1].to = head
<1>1. head \in Nat /\ request \in 0..head /\ mode \in {"batch", "chunks"}
  BY Rows DEF Core, ServerTyped, Answer
<1> DEFINE O == OkFrames(head)
           B == Frame("batch", VisibleIn(request, head), head)
           n == head - request
           C == [k \in 1..n |-> Frame("chunk", VisibleIn(request + k - 1, request + k), request + k)]
           E == Frame("end", <<>>, head)
           X == IF mode = "batch" THEN <<B>> ELSE C \o <<E>>
<1>2. wire' = wire \o X
  BY DEF Answer
<1>3. CASE mode = "batch"
  <2>1. B \in O
    <3>1. head \in request..head
      BY <1>1
    <3>2. QED
      BY <1>1, <3>1, SpanFrame
  <2>2. B.type = "batch" /\ B.to = head
    BY DEF Frame
  <2> HIDE DEF B, O
  <2>3. X \in Seq(O) /\ Len(X) = 1 /\ X[1] = B
    BY <1>3, <2>1
  <2> HIDE DEF X
  <2>4. QED
    BY <1>2, <2>2, <2>3 DEF O
<1>4. CASE mode # "batch"
  <2>1. n \in Nat
    BY <1>1
  <2>2. ASSUME NEW k \in 1..n
        PROVE  Frame("chunk", VisibleIn(request + k - 1, request + k), request + k) \in O
    <3>1. request + k - 1 \in 0..head /\ request + k \in (request + k - 1)..head
      BY <1>1
    <3> DEFINE lo == request + k - 1
               hi == request + k
    <3> HIDE DEF lo, hi
    <3>2. lo \in 0..head /\ hi \in lo..head
      BY <3>1 DEF lo, hi
    <3>3. Frame("chunk", VisibleIn(lo, hi), hi) \in O
      BY <1>1, <3>2, SpanFrame
    <3>4. QED
      BY <3>3 DEF lo, hi
  <2> HIDE DEF n
  <2>3. C \in Seq(O)
    BY <2>1, <2>2
  <2>4. E \in O
    <3>1. <<>> \in Seq(1..head) /\ Range(<<>>) = {} /\ Increasing(<<>>)
      BY RangeEmpty DEF Increasing
    <3>2. E \in FrameType(head) /\ E.ids = <<>> /\ E.to = head /\ E.type = "end"
      BY <1>1, <3>1 DEF Frame, FrameType
    <3>3. {i \in (head + 1)..head : Visible(i)} = {} /\ head \in 0..head
      BY <1>1
    <3> HIDE DEF E
    <3>4. Spans(E)
      BY <3>1, <3>2, <3>3 DEF Spans
    <3>5. QED
      BY <3>2, <3>4 DEF OkFrames
  <2> HIDE DEF C, E, O
  <2>5. X = C \o <<E>>
    BY <1>4
  <2>6. X \in Seq(O)
    BY <2>3, <2>4, <2>5
  <2> HIDE DEF X
  <2>7. QED
    BY <1>2, <1>4, <2>6 DEF O
<1>5. QED
  BY <1>3, <1>4


(* Good frames, as the clauses of the next state.                          *)
LEMMA WireNext ==
    ASSUME NEW h \in Nat, log' = log, wire' \in Seq(OkFrames(h))
    PROVE  wire' \in Seq(FrameType(h)) /\ WireGood'
<1>1. OkFrames(h) \subseteq FrameType(h)
  BY DEF OkFrames
<1>2. wire' \in Seq(FrameType(h))
  BY <1>1, SeqMono
<1>3. \A k \in 1..Len(wire') : wire'[k] \in OkFrames(h)
  OBVIOUS
<1>4. \A f : Spans(f) => Spans(f)'
  BY DEF Spans, Visible
<1>5. QED
  BY <1>2, <1>3, <1>4 DEF OkFrames, WireGood

(* Answer keeps Core.                                                      *)
LEMMA AnswerCore ==
    ASSUME Core, Answer
    PROVE  Core'
<1>0. head \in Nat
  BY Rows DEF Core
<1>1. wire' \in Seq(OkFrames(head))
  <2>1. wire \in Seq(OkFrames(head))
    BY <1>0, WireOk DEF Core, ServerTyped
  <2>2. PICK X \in Seq(OkFrames(head)) : wire' = wire \o X
    BY AnswerFrames
  <2>3. QED
    BY <2>1, <2>2
<1>2. log' = log
  BY DEF Answer
<1>3. wire' \in Seq(FrameType(head)) /\ WireGood'
  BY <1>0, <1>1, <1>2, WireNext
<1> USE DEF Core
<1>4. ServerTyped'
  BY <1>0, <1>3 DEF ServerTyped, Answer
<1>5. ClientTyped' /\ HistoryTyped'
  BY DEF Answer, ClientTyped, HistoryTyped, positions, queues, tables, rebuilds, history, Ids
<1>6. FlushInv' /\ DurableGood' /\ RebuildGood'
  BY DEF Answer, FlushInv, DurableGood, RebuildGood, rebuilds, queues, history
<1>7. QED
  BY <1>3, <1>4, <1>5, <1>6

(* Publishing appends the new delta's frame or nothing.                    *)
LEMMA PublishFacts ==
    ASSUME Core, Publish
    PROVE  /\ head' = head + 1 /\ head \in Nat /\ head' <= Len(log)
           /\ wire' \in Seq(OkFrames(head')) /\ wire \in Seq(OkFrames(head))
           /\ \/ wire' = wire
              \/ wire' = Append(wire, Frame("delta", <<head + 1>>, head + 1))
<1>0. head \in Nat /\ Len(log) \in Nat /\ head < Len(log) /\ head' = head + 1
  BY Rows DEF Core, Publish
<1>1. head' \in Nat /\ head <= head' /\ head + 1 \in 1..head' /\ head' <= Len(log)
  BY <1>0
<1>2. wire \in Seq(OkFrames(head))
  BY <1>0, WireOk DEF Core, ServerTyped
<1>3. OkFrames(head) \subseteq OkFrames(head')
  BY <1>0, <1>1, OkMono
<1>4. wire \in Seq(OkFrames(head'))
  BY <1>2, <1>3, SeqMono
<1>5. \/ wire' = wire
      \/ /\ Visible(head + 1)
         /\ wire' = Append(wire, Frame("delta", <<head + 1>>, head + 1))
  BY DEF Publish
<1>6. ASSUME Visible(head + 1) PROVE Frame("delta", <<head + 1>>, head + 1) \in OkFrames(head')
  BY <1>1, <1>6, SingleFrame
<1>7. wire' \in Seq(OkFrames(head'))
  BY <1>4, <1>5, <1>6
<1>8. QED
  BY <1>0, <1>1, <1>2, <1>5, <1>7

(* Publish keeps Core.                                                     *)
LEMMA PublishCore ==
    ASSUME Core, Publish
    PROVE  Core'
<1>0. /\ head' = head + 1 /\ head \in Nat /\ head' <= Len(log) /\ Start \in Nat
      /\ wire' \in Seq(OkFrames(head')) /\ Start <= head /\ Len(log) \in Nat
  BY PublishFacts, Rows DEF Core
<1>1. /\ log' = log /\ mode' = mode /\ link' = link /\ request' = request /\ failed' = failed
      /\ UNCHANGED <<positions, queues, flush, tables, rebuilds>>
      /\ UNCHANGED <<durable, deferred, rebuild, revokedAt>>
  BY DEF Publish
<1>2. head' \in Nat /\ head <= head' /\ 0..head \subseteq 0..head' /\ 1..head \subseteq 1..head'
  BY <1>0
<1>3. wire' \in Seq(FrameType(head')) /\ WireGood'
  BY <1>0, <1>1, <1>2, WireNext
<1> USE DEF Core
<1>4. ServerTyped'
  <2>1. sent' \in {-1} \cup 0..head'
    <3>1. sent' \in {sent, head + 1}
      BY DEF Publish
    <3>2. QED
      BY <1>0, <3>1 DEF ServerTyped
  <2>2. request' \in {-1} \cup 0..head'
    BY <1>1, <1>2 DEF ServerTyped
  <2>3. head' \in Start..Len(log)
    BY <1>0
  <2>4. QED
    BY <1>1, <1>3, <2>1, <2>2, <2>3 DEF ServerTyped
<1>5. ClientTyped'
  <2>1. /\ cursor \in 0..head' /\ applied \in 0..head' /\ persisted \in 0..head'
        /\ meta \in 0..head' /\ snapshot \in 0..head'
    BY <1>2 DEF ClientTyped
  <2>2. pending \in Seq(1..head') /\ (queue = NoQueue \/ queue \in Seq(1..head'))
    BY <1>2, SeqMono DEF ClientTyped
  <2>3. lane \in Seq(JobType(head'))
    <3>1. JobType(head) \subseteq JobType(head')
      BY <1>0, <1>2, OkMono
    <3>2. QED
      BY <3>1, SeqMono DEF ClientTyped
  <2>4. stored \in [Row -> [Field -> 0..head']] /\ pool \in [Row -> 0..head']
    <3>1. stored \in [Row -> [Field -> 0..head]] /\ pool \in [Row -> 0..head]
      BY DEF ClientTyped
    <3>2. [Field -> 0..head] \subseteq [Field -> 0..head']
      BY <1>2
    <3>3. QED
      BY <1>2, <3>1, <3>2
  <2>5. QED
    BY <1>1, <2>1, <2>2, <2>3, <2>4 DEF ClientTyped, positions, queues, tables, rebuilds
<1>6. HistoryTyped'
  <2>1. revokedAt' \in 0..head'
    BY <1>1, <1>2 DEF HistoryTyped
  <2>2. lost' \subseteq Ids /\ faults' \in Nat
    <3>1. head + 1 \in Ids
      BY <1>0 DEF Ids
    <3>2. lost' \in {lost, lost \cup {head + 1}} /\ faults' \in {faults, faults + 1}
      BY DEF Publish, Fault
    <3>3. QED
      BY <3>1, <3>2 DEF HistoryTyped
  <2>3. QED
    BY <1>1, <2>1, <2>2 DEF HistoryTyped, Ids
<1>7. FlushInv'
  <2>1. FlushGood(flush, log, failed, head')
    BY <1>0, <1>2, FlushMono DEF FlushInv
  <2>2. QED
    BY <1>1, <2>1 DEF FlushInv
<1>8. DurableGood' /\ RebuildGood'
  BY <1>1 DEF DurableGood, RebuildGood, queues, rebuilds
<1>9. QED
  BY <1>3, <1>4, <1>5, <1>6, <1>7, <1>8


(* What taking a frame does to the client: the ids wait behind a bootstrap *)
(* or are enqueued.                                                        *)
Untouched == UNCHANGED <<applied, revoke, rebuild, revokedAt, pending, timer, flush, queue>>

Took(ids) ==
    \/ /\ queue # NoQueue /\ queue' = queue \o ids
       /\ UNCHANGED <<applied, revoke, rebuild, revokedAt, pending, timer, flush>>
    \/ /\ queue = NoQueue /\ queue' = queue
       /\ EnqueueSideEffects(ids) /\ Taken(ids) /\ timer' \in BOOLEAN

(* A frame is deferred or enqueued.                                        *)
LEMMA TookFrame ==
    ASSUME NEW ids, timer \in BOOLEAN, ReceiveFrame(ids)
    PROVE  Took(ids)
BY DEF ReceiveFrame, Defer, PersistDeltaFrame, Took, Taken

(* A live delta is skipped, deferred or enqueued.                          *)
LEMMA TookLive ==
    ASSUME NEW id \in Nat, timer \in BOOLEAN, ReceiveLive(id)
    PROVE  /\ Took(<<id>>) \/ Untouched
           /\ deferred' \in {deferred, deferred \cup {id}}
<1>1. CASE /\ id <= applied
           /\ UNCHANGED <<applied, revoke, rebuild, revokedAt, deferred, queue, pending, timer, flush>>
  BY <1>1 DEF Untouched
<1>2. CASE id > applied /\ queue # NoQueue /\ Defer(<<id>>) /\ deferred' = deferred \cup {id}
  BY <1>2 DEF Took, Defer
<1>3. CASE /\ id > applied /\ queue = NoQueue
           /\ EnqueueSideEffects(<<id>>)
           /\ UNCHANGED <<queue, deferred>>
           /\ LET p == Appended(<<id>>)
              IN  IF IsRemoval(id)
                  THEN pending' = p /\ flush' = Running(<<id>>) /\ UNCHANGED timer
                  ELSE IF Len(p) >= MaxBatchSize
                  THEN FlushPendingDeltas(flush, p) /\ timer' = FALSE
                  ELSE pending' = p /\ timer' = TRUE /\ UNCHANGED flush
  <2>1. ~IsRemoval(id) => Running(<<id>>) = flush
    <3>1. ASSUME ~IsRemoval(id) PROVE Removals(<<id>>) = {}
      BY <3>1 DEF Removals
    <3>2. QED
      BY <3>1 DEF Running
  <2>2. Taken(<<id>>) /\ timer' \in BOOLEAN
    BY <1>3, <2>1 DEF Taken
  <2>3. QED
    BY <1>3, <2>2 DEF Took
<1>4. QED
  BY <1>1, <1>2, <1>3 DEF ReceiveLive

(* The client after a frame has been taken: types, the clauses about the   *)
(* batch, and nothing but the queue changes while a bootstrap runs.        *)
LEMMA TookFacts ==
    ASSUME Core, NEW ids \in Seq(1..head), Took(ids) \/ Untouched
    PROVE  /\ FlushGood(flush', log, failed, head) /\ pending' \in Seq(1..head)
           /\ timer' \in BOOLEAN /\ applied' \in 0..head /\ revokedAt' \in 0..head
           /\ queue' = NoQueue \/ queue' \in Seq(1..head)
           /\ queue' = NoQueue <=> queue = NoQueue
           /\ revoke' \in {"idle", "clearing", "cleared"} /\ rebuild' \in BOOLEAN
           /\ (revoke' # "idle" => rebuild') /\ (rebuild => rebuild')
           /\ Range(pending') \cup Range(flush'.ids)
                \subseteq Range(pending) \cup Range(flush.ids) \cup Range(ids)
           /\ Stored(flush, durable) => Stored(flush', durable)
           /\ queue # NoQueue => UNCHANGED <<flush, pending, revoke, revokedAt>>
<1>0. /\ head \in Nat /\ \A i \in 1..head : log[i].row \in Row
      /\ FlushGood(flush, log, failed, head) /\ pending \in Seq(1..head) /\ applied \in 0..head
      /\ timer \in BOOLEAN /\ revokedAt \in 0..head /\ rebuild \in BOOLEAN
      /\ revoke \in {"idle", "clearing", "cleared"} /\ (revoke # "idle" => rebuild)
      /\ queue = NoQueue \/ queue \in Seq(1..head)
  BY Rows DEF Core, FlushInv, ClientTyped, HistoryTyped, RebuildGood
<1>1. CASE Untouched
  BY <1>0, <1>1 DEF Untouched
<1>2. CASE /\ queue # NoQueue /\ queue' = queue \o ids
           /\ UNCHANGED <<applied, revoke, rebuild, revokedAt, pending, timer, flush>>
  <2>1. queue' \in Seq(1..head)
    BY <1>0, <1>2
  <2>2. queue' # NoQueue
    BY <1>0, <2>1, NoQueueFacts
  <2>3. QED
    BY <1>0, <1>2, <2>1, <2>2
<1>3. CASE /\ queue = NoQueue /\ queue' = queue
           /\ EnqueueSideEffects(ids) /\ Taken(ids) /\ timer' \in BOOLEAN
  <2>1. /\ FlushGood(flush', log, failed, head) /\ pending' \in Seq(1..head)
        /\ Range(pending') \cup Range(flush'.ids)
                \subseteq Range(pending) \cup Range(flush.ids) \cup Range(ids)
        /\ Stored(flush, durable) => Stored(flush', durable)
    BY <1>0, <1>3, TakenFacts
  <2>2. applied' \in 0..head
    BY <1>0, <1>3, AppliedType DEF EnqueueSideEffects
  <2>3. CASE Removals(ids) = {}
    BY <1>0, <1>3, <2>1, <2>2, <2>3 DEF EnqueueSideEffects
  <2>4. CASE Removals(ids) # {}
    <3>1. /\ revoke' = "clearing" /\ rebuild' = TRUE
          /\ revokedAt' = MaxOf({ids[k] : k \in Removals(ids)}, 0)
      BY <1>3, <2>4 DEF EnqueueSideEffects
    <3>2. revokedAt' \in 1..head
      BY <1>0, <2>4, <3>1, RemovedFacts
    <3>3. revokedAt' \in 0..head
      BY <3>2, <1>0
    <3>4. QED
      BY <1>0, <1>3, <2>1, <2>2, <3>1, <3>3
  <2>5. QED
    BY <2>3, <2>4
<1>4. QED
  BY <1>1, <1>2, <1>3 DEF Took

(* Taking the ids of a frame or of a catch-up job keeps Core.              *)
LEMMA TookCore ==
    ASSUME Core, NEW ids \in Seq(1..head), Took(ids) \/ Untouched,
           UNCHANGED <<log, mode, head, link, sent, request, persisted, meta, laneOk, stored, pool,
                       boot, snapshot, durable, failed, faults>>,
           cursor' \in 0..head, lane' \in Seq(JobType(head)), lost' \subseteq Ids,
           deferred' \subseteq Ids,
           wire' = wire \/ (wire # <<>> /\ wire' = Tail(wire)),
           \/ link
           \/ /\ \A i \in Range(ids) : \E k \in 1..Len(lane) : i \in Range(lane[k].ids)
              /\ \A k \in 1..Len(lane') : k \in 1..Len(lane) /\ lane'[k].ids = lane[k].ids
    PROVE  Core'
<1>1. /\ FlushGood(flush', log, failed, head) /\ pending' \in Seq(1..head)
      /\ timer' \in BOOLEAN /\ applied' \in 0..head /\ revokedAt' \in 0..head
      /\ queue' = NoQueue \/ queue' \in Seq(1..head)
      /\ queue' = NoQueue <=> queue = NoQueue
      /\ revoke' \in {"idle", "clearing", "cleared"} /\ rebuild' \in BOOLEAN
      /\ (revoke' # "idle" => rebuild') /\ (rebuild => rebuild')
      /\ Range(pending') \cup Range(flush'.ids)
                \subseteq Range(pending) \cup Range(flush.ids) \cup Range(ids)
      /\ Stored(flush, durable) => Stored(flush', durable)
      /\ queue # NoQueue => UNCHANGED <<flush, pending, revoke, revokedAt>>
  BY TookFacts
<1>2. WireGood' /\ wire' \in Seq(FrameType(head))
  <2>1. CASE wire' = wire
    BY <2>1, WireSame DEF Core, ServerTyped
  <2>2. CASE wire # <<>> /\ wire' = Tail(wire)
    BY <2>2, WireLess DEF Core
  <2>3. QED
    BY <2>1, <2>2
<1> USE DEF Core
<1>3. ServerTyped'
  BY <1>2 DEF ServerTyped
<1>4. ClientTyped' /\ HistoryTyped'
  BY <1>1 DEF ClientTyped, HistoryTyped, Ids
<1>5. FlushInv' /\ DurableGood'
  BY <1>1 DEF FlushInv, DurableGood
<1>6. RebuildGood'
  <2>1. /\ revoke' # "idle" \/ boot' = "cleared" => rebuild'
        /\ boot' # "idle" /\ queue' = NoQueue => ~link'
    BY <1>1 DEF RebuildGood
  <2>2. queue' # NoQueue => flush' = Idle /\ pending' = <<>> /\ revoke' = "idle" /\ revokedAt' = 0
    BY <1>1 DEF RebuildGood
  <2>3. ASSUME queue' = NoQueue, boot' \in {"fetched", "cleared"}
        PROVE  /\ \A i \in Range(pending') : i <= snapshot'
               /\ \A i \in Range(flush'.ids) : i <= snapshot'
               /\ \A k \in 1..Len(lane') : \A i \in Range(lane'[k].ids) : i <= snapshot'
    <3>1. queue = NoQueue /\ boot \in {"fetched", "cleared"} /\ ~link
      BY <1>1, <2>3 DEF RebuildGood
    <3>2. /\ \A i \in Range(pending) : i <= snapshot
          /\ \A i \in Range(flush.ids) : i <= snapshot
          /\ \A k \in 1..Len(lane) : \A i \in Range(lane[k].ids) : i <= snapshot
      BY <3>1 DEF RebuildGood
    <3>3. \A i \in Range(ids) : i <= snapshot
      BY <3>1, <3>2
    <3>4. QED
      BY <1>1, <3>1, <3>2, <3>3
  <2>4. QED
    BY <2>1, <2>2, <2>3 DEF RebuildGood
<1>7. QED
  BY <1>2, <1>3, <1>4, <1>5, <1>6


(* The frame that is received is a good one.                               *)
LEMMA HeadFrame ==
    ASSUME Core, wire # <<>>
    PROVE  /\ Head(wire) = wire[1] /\ 1 \in 1..Len(wire) /\ Head(wire) \in OkFrames(head)
           /\ Head(wire).ids \in Seq(1..head) /\ Head(wire).to \in 0..head
           /\ Range(Head(wire).ids) \subseteq Ids
<1>0. head \in Nat /\ \A i \in 1..head : i \in Ids
  BY Rows DEF Core
<1> DEFINE O == OkFrames(head)
           s == Head(wire).ids
<1>1. wire \in Seq(O)
  BY <1>0, WireOk DEF Core, ServerTyped
<1> HIDE DEF O
<1>2. Head(wire) = wire[1] /\ 1 \in 1..Len(wire) /\ Head(wire) \in O
  BY <1>1, TailFacts
<1>3. s \in Seq(1..head) /\ Head(wire).to \in 0..head
  BY <1>2 DEF O, OkFrames, FrameType
<1> HIDE DEF s
<1>4. Range(s) \subseteq Ids
  BY <1>0, <1>3, RangeIn
<1>5. QED
  BY <1>2, <1>3, <1>4 DEF O, s

(* What receiving a frame does, by the kind of frame.                      *)
LEMMA ReceiveFacts ==
    ASSUME Core, Receive
    PROVE  LET f == Head(wire)
               job == [ids |-> f.ids, position |-> f.to, state |-> "new"]
           IN  /\ link /\ wire # <<>> /\ wire' = Tail(wire)
               /\ Took(f.ids) \/ Untouched
               /\ cursor' \in {cursor, f.to}
               /\ deferred' \subseteq deferred \cup Range(f.ids)
               /\ lost' \subseteq lost \cup Range(f.ids)
               /\ lane' = lane \/ (f.type \in {"chunk", "end"} /\ lane' = Append(lane, job))
               /\ UNCHANGED <<log, mode, head, link, sent, request, persisted, meta, laneOk,
                              stored, pool, boot, snapshot, durable, failed, faults>>
<1> DEFINE f == Head(wire)
           job == [ids |-> f.ids, position |-> f.to, state |-> "new"]
<1>0. timer \in BOOLEAN
  BY FlushFields
<1>1. /\ link /\ wire # <<>> /\ wire' = Tail(wire)
      /\ UNCHANGED <<log, mode, head, link, sent, request, persisted, meta, laneOk,
                     stored, pool, boot, snapshot, durable, failed, faults>>
  BY DEF Receive, tables
<1>2. CASE f.type = "delta" /\ ReceiveLive(f.ids[1]) /\ UNCHANGED <<cursor, lane, lost>>
  <2>1. f.ids = <<f.to>> /\ f.to \in 0..head /\ head \in Nat
    BY <1>1, <1>2, HeadFrame, FlushFields DEF OkFrames
  <2>2. f.ids[1] = f.to /\ f.to \in Nat
    BY <2>1
  <2>3. f.to \in Range(f.ids)
    <3> DEFINE s == <<f.to>>
    <3>1. s \in Seq(Nat) /\ Len(s) = 1 /\ s[1] = f.to
      BY <2>2
    <3> HIDE DEF s
    <3>2. f.to \in Range(s)
      BY <3>1, RangeIn
    <3>3. QED
      BY <3>2, <2>1 DEF s
  <2>4. Took(<<f.to>>) \/ Untouched
    BY <1>0, <1>2, <2>2, TookLive
  <2>5. deferred' \in {deferred, deferred \cup {f.to}}
    BY <1>0, <1>2, <2>2, TookLive
  <2>6. QED
    BY <1>1, <1>2, <2>1, <2>3, <2>4, <2>5
<1>3. CASE /\ f.type = "batch" /\ f.ids # <<>> /\ ReceiveFrame(f.ids)
           /\ deferred' = IF queue = NoQueue THEN deferred ELSE deferred \cup Range(f.ids)
           /\ UNCHANGED <<cursor, lane, lost>>
  BY <1>0, <1>1, <1>3, TookFrame
<1>4. CASE /\ f.type = "batch" /\ f.ids = <<>> /\ cursor' = f.to
           /\ UNCHANGED <<applied, revoke, rebuild, revokedAt, deferred, queue, pending,
                          timer, flush, lane, lost>>
  BY <1>1, <1>4 DEF Untouched
<1>5. CASE /\ f.type \in {"chunk", "end"}
           /\ IF laneOk
                 THEN /\ lane' = Append(lane, job)
                      /\ lost' = lost
                 ELSE lost' = lost \cup Range(f.ids) /\ lane' = lane
           /\ UNCHANGED <<cursor, applied, revoke, rebuild, revokedAt, deferred, queue,
                          pending, timer, flush>>
  BY <1>1, <1>5 DEF Untouched
<1>6. QED
  BY <1>2, <1>3, <1>4, <1>5 DEF Receive

(* Receive keeps Core.                                                     *)
LEMMA ReceiveCore ==
    ASSUME Core, Receive
    PROVE  Core'
<1> DEFINE f == Head(wire)
           job == [ids |-> f.ids, position |-> f.to, state |-> "new"]
<1>1. wire # <<>>
  BY ReceiveFacts
<1>2. f.ids \in Seq(1..head) /\ f.to \in 0..head /\ Range(f.ids) \subseteq Ids
  BY <1>1, HeadFrame
<1>3. job \in JobType(head)
  BY <1>2 DEF JobType
<1>4. lane' \in Seq(JobType(head))
  <2>1. lane' = lane \/ lane' = Append(lane, job)
    BY ReceiveFacts
  <2> HIDE DEF job
  <2>2. lane \in Seq(JobType(head))
    BY FlushFields
  <2>3. QED
    BY <1>3, <2>1, <2>2
<1>5. cursor' \in 0..head
  <2>1. cursor' \in {cursor, f.to}
    BY ReceiveFacts
  <2>2. QED
    BY <1>2, <2>1, FlushFields
<1>6. lost' \subseteq Ids /\ deferred' \subseteq Ids
  <2>1. lost' \subseteq lost \cup Range(f.ids) /\ deferred' \subseteq deferred \cup Range(f.ids)
    BY ReceiveFacts
  <2>2. lost \subseteq Ids /\ deferred \subseteq Ids
    BY DEF Core, HistoryTyped
  <2>3. QED
    BY <1>2, <2>1, <2>2
<1>7. /\ link /\ wire' = Tail(wire)
      /\ Took(f.ids) \/ Untouched
      /\ UNCHANGED <<log, mode, head, link, sent, request, persisted, meta, laneOk,
                     stored, pool, boot, snapshot, durable, failed, faults>>
  BY ReceiveFacts
<1> HIDE DEF f, job
<1>8. QED
  BY <1>1, <1>2, <1>4, <1>5, <1>6, <1>7, TookCore

(* LaneStart keeps Core.                                                   *)
LEMMA LaneStartCore ==
    ASSUME Core, LaneStart
    PROVE  Core'
<1> DEFINE ids == lane[1].ids
           st == IF queue = NoQueue /\ \E id \in Range(lane[1].ids) : ~IsRemoval(id)
                 THEN "await" ELSE "done"
<1>1. /\ lane # <<>> /\ ReceiveFrame(ids) /\ deferred' = deferred \cup Range(ids)
      /\ lane' = [lane EXCEPT ![1].state = st]
      /\ UNCHANGED <<log, mode, head, link, sent, request, persisted, meta, laneOk, stored, pool,
                       boot, snapshot, durable, failed, faults>>
      /\ UNCHANGED <<cursor, lost, wire>>
  BY DEF LaneStart, server, tables
<1>2. ids \in Seq(1..head) /\ lane[1] \in JobType(head) /\ 1 \in 1..Len(lane)
  BY <1>1, LaneHead DEF Core
<1>3. Range(ids) \subseteq Ids
  <2>1. Range(ids) \subseteq 1..head
    BY <1>2, JobIds DEF Core
  <2>2. \A i \in 1..head : i \in Ids
    BY Rows DEF Core
  <2>3. QED
    BY <2>1, <2>2
<1>4. /\ lane' \in Seq(JobType(head))
      /\ \A k \in 1..Len(lane') : k \in 1..Len(lane) /\ lane'[k].ids = lane[k].ids
  <2> DEFINE j == [lane[1] EXCEPT !.state = st]
  <2>1. st \in {"await", "done"}
    OBVIOUS
  <2> HIDE DEF st
  <2>2. j \in JobType(head) /\ j.ids = lane[1].ids
    BY <1>2, <2>1 DEF JobType
  <2>3. lane \in Seq(JobType(head)) /\ lane' = [lane EXCEPT ![1] = j]
    BY <1>1, FlushFields
  <2> HIDE DEF j
  <2>4. QED
    BY <1>2, <2>2, <2>3
<1>5. Took(ids)
  BY <1>1, FlushFields, TookFrame
<1>6. \A i \in Range(ids) : \E k \in 1..Len(lane) : i \in Range(lane[k].ids)
  BY <1>2
<1>7. cursor' \in 0..head /\ lost' \subseteq Ids /\ deferred' \subseteq Ids
  <2>1. deferred \subseteq Ids
    BY DEF Core, HistoryTyped
  <2>2. QED
    BY <1>1, <1>3, <2>1, FlushFields
<1> HIDE DEF ids, st
<1>8. QED
  BY <1>1, <1>2, <1>4, <1>5, <1>6, <1>7, TookCore


Waiting == IF queue = NoQueue THEN <<>> ELSE queue

(* What replaying the deferred deltas does: they are enqueued as one frame *)
(* when there are some, and nothing is touched otherwise.                  *)
LEMMA ReplayFacts ==
    ASSUME Core, NEW rb, NEW since \in 0..head, rb \in BOOLEAN, revoke # "idle" => rb,
           ReplayQueuedDeltas(rb, since)
    PROVE  /\ queue' = NoQueue /\ applied' \in 0..head /\ pending' \in Seq(1..head)
           /\ timer' \in BOOLEAN /\ revoke' \in {"idle", "clearing", "cleared"}
           /\ rebuild' \in BOOLEAN /\ revokedAt' \in 0..head
           /\ FlushGood(flush', log, failed, head) /\ Taken(Waiting) /\ Waiting \in Seq(1..head)
           /\ revoke' # "idle" => rebuild'
           /\ Removals(Waiting) # {} =>
                /\ revoke' = "clearing" /\ rebuild'
                /\ revokedAt' = MaxOf({Waiting[k] : k \in Removals(Waiting)}, 0)
           /\ Removals(Waiting) = {} =>
                revoke' = revoke /\ revokedAt' = since /\ (rebuild' <=> rb)
           /\ queue = NoQueue => flush' = flush /\ pending' = pending /\ Removals(Waiting) = {}
           /\ queue # NoQueue => \A dur : Stored(flush', dur)
<1> DEFINE ids == Waiting
<1>0. /\ head \in Nat /\ \A i \in 1..head : log[i].row \in Row
      /\ FlushGood(flush, log, failed, head) /\ pending \in Seq(1..head) /\ applied \in 0..head
      /\ timer \in BOOLEAN /\ revoke \in {"idle", "clearing", "cleared"}
      /\ queue = NoQueue \/ queue \in Seq(1..head)
  BY Rows DEF Core, FlushInv, ClientTyped, HistoryTyped, RebuildGood
<1>1. ids \in Seq(1..head) /\ (queue = NoQueue => ids = <<>>) /\ (queue # NoQueue => ids = queue)
  <2>1. <<>> \in Seq(1..head)
    OBVIOUS
  <2>2. CASE queue = NoQueue
    BY <2>1, <2>2 DEF Waiting
  <2>3. CASE queue # NoQueue
    BY <1>0, <2>3 DEF Waiting
  <2>4. QED
    BY <2>2, <2>3
<1>2. /\ queue' = NoQueue
      /\ applied' = MaxOf(Range(ids) \cup {applied}, 0)
      /\ revoke' = IF Removals(ids) # {} THEN "clearing" ELSE revoke
      /\ rebuild' = (rb \/ Removals(ids) # {})
      /\ revokedAt' = IF Removals(ids) # {} THEN MaxOf({ids[k] : k \in Removals(ids)}, 0)
                      ELSE since
      /\ IF \E id \in Range(ids) : ~IsRemoval(id)
         THEN FlushPendingDeltas(Running(ids), Appended(ids)) /\ timer' = FALSE
         ELSE pending' = Appended(ids) /\ flush' = Running(ids) /\ UNCHANGED timer
  BY DEF ReplayQueuedDeltas, Waiting
<1> HIDE DEF ids
<1>3. Taken(ids) /\ timer' \in BOOLEAN
  BY <1>0, <1>2 DEF Taken
<1>4. /\ FlushGood(flush', log, failed, head) /\ pending' \in Seq(1..head)
      /\ \A dur : Stored(flush, dur) => Stored(flush', dur)
  BY <1>0, <1>1, <1>3, TakenFacts
<1>5. applied' \in 0..head
  BY <1>0, <1>1, <1>2, AppliedType
<1>6. revokedAt' \in 0..head
  <2>1. CASE Removals(ids) = {}
    BY <1>2, <2>1
  <2>2. CASE Removals(ids) # {}
    <3>1. revokedAt' \in 1..head
      BY <1>0, <1>1, <1>2, <2>2, RemovedFacts
    <3>2. QED
      BY <3>1, <1>0
  <2>3. QED
    BY <2>1, <2>2
<1>7. queue = NoQueue => flush' = flush /\ pending' = pending /\ Removals(ids) = {}
  <2>1. SUFFICES ASSUME queue = NoQueue
                 PROVE  flush' = flush /\ pending' = pending /\ Removals(ids) = {}
    OBVIOUS
  <2>2. ids = <<>> /\ Range(ids) = {} /\ Len(ids) = 0
    BY <1>1, <2>1, RangeEmpty
  <2>3. Removals(ids) = {}
    BY <2>2 DEF Removals
  <2>4. Appended(ids) = pending \o ids /\ Running(ids) = flush
    BY <1>0, <1>1, <2>3, AppendedFacts DEF Running
  <2>5. pending \o ids = pending
    BY <1>0, <2>2
  <2>6. QED
    BY <1>2, <2>2, <2>3, <2>4, <2>5
<1>8. queue # NoQueue => \A dur : Stored(flush', dur)
  <2>1. \A dur : Stored(Idle, dur)
    BY DEF Stored, Idle
  <2>2. queue # NoQueue => flush = Idle
    BY DEF Core, RebuildGood
  <2>3. QED
    BY <1>4, <2>1, <2>2
<1>9. revoke' \in {"idle", "clearing", "cleared"} /\ rebuild' \in BOOLEAN
  BY <1>0, <1>2
<1>10. QED
  BY <1>1, <1>2, <1>3, <1>4, <1>5, <1>6, <1>7, <1>8, <1>9 DEF ids

(* BootStore keeps Core.                                                   *)
LEMMA BootStoreCore ==
    ASSUME Core, BootStore
    PROVE  Core'
<1> DEFINE rb == revoke # "idle"
           since == IF snapshot >= revokedAt THEN 0 ELSE revokedAt
<1>0. /\ head \in Nat /\ snapshot \in 0..head /\ revokedAt \in 0..head
      /\ stored \in [Row -> [Field -> 0..head]] /\ pool \in [Row -> 0..head]
      /\ \A i \in 1..head : i \in Ids
  BY Rows DEF Core, ClientTyped, HistoryTyped
<1>1. rb \in BOOLEAN /\ since \in 0..head /\ (revoke # "idle" => rb)
  BY <1>0
<1>2. ReplayQueuedDeltas(rb, since)
  BY DEF BootStore
<1>2a. ~rb => revoke = "idle"
  OBVIOUS
<1> HIDE DEF rb, since
<1>3. /\ queue' = NoQueue /\ applied' \in 0..head /\ pending' \in Seq(1..head)
      /\ timer' \in BOOLEAN /\ revoke' \in {"idle", "clearing", "cleared"}
      /\ rebuild' \in BOOLEAN /\ revokedAt' \in 0..head
      /\ FlushGood(flush', log, failed, head)
      /\ revoke' # "idle" => rebuild'
      /\ queue = NoQueue => flush' = flush
      /\ queue # NoQueue => \A dur : Stored(flush', dur)
  BY <1>1, <1>2, ReplayFacts
<1>4. /\ boot = "cleared" /\ boot' = "idle" /\ meta' = snapshot /\ snapshot' = 0
      /\ durable' = durable \cup 1..snapshot /\ pool' = SnapshotPool
      /\ stored' = [r \in Row |-> IF ImageAt(log, snapshot, r) # NoRow
                                THEN ImageAt(log, snapshot, r) ELSE stored[r]]
      /\ UNCHANGED <<server, cursor, persisted, lane, laneOk, failed, lost, deferred, faults>>
  BY DEF BootStore
<1>5. stored' \in [Row -> [Field -> 0..head]]
  <2>1. \A r : ImageAt(log, snapshot, r) \in [Field -> 0..snapshot]
    BY <1>0, ImageAtType
  <2>2. 0..snapshot \subseteq 0..head
    BY <1>0
  <2>3. [Field -> 0..snapshot] \subseteq [Field -> 0..head]
    BY <2>2
  <2>4. \A r : ImageAt(log, snapshot, r) \in [Field -> 0..head]
    BY <2>1, <2>3
  <2>5. QED
    BY <1>0, <1>4, <2>4
<1>6. pool' \in [Row -> 0..head]
  <2>1. \A r \in Row : Max2(pool[r], snapshot) \in 0..head /\ pool[r] \in 0..head
    BY <1>0 DEF Max2
  <2>2. 0 \in 0..head
    BY <1>0
  <2>3. SnapshotPool \in [Row -> 0..head]
    BY <2>1, <2>2 DEF SnapshotPool
  <2>4. QED
    BY <1>4, <2>3
<1>7. durable' \subseteq Ids
  BY <1>0, <1>4 DEF Core, HistoryTyped
<1>8. DurableGood'
  <2>1. CASE queue # NoQueue
    BY <1>3, <2>1 DEF DurableGood
  <2>2. CASE queue = NoQueue
    <3>1. \A i \in Range(flush.ids) : i <= snapshot
      BY <1>4, <2>2 DEF Core, RebuildGood
    <3>2. flush.ok \subseteq Range(flush.ids) /\ Range(flush.ids) \subseteq 1..head
      BY FlushFields DEF FlushGood, BatchGood
    <3>3. flush.ok \subseteq 1..snapshot
      BY <1>0, <3>1, <3>2
    <3>4. QED
      BY <1>3, <1>4, <2>2, <3>3 DEF DurableGood, Stored
  <2>3. QED
    BY <2>1, <2>2
<1> USE DEF Core
<1>9. ServerTyped'
  BY <1>4 DEF ServerTyped, server
<1>10. ClientTyped'
  <2>1. head' = head /\ 0 \in 0..head
    BY <1>0, <1>4 DEF server
  <2>2. QED
    BY <1>0, <1>3, <1>4, <1>5, <1>6, <2>1 DEF ClientTyped
<1>11. HistoryTyped'
  BY <1>3, <1>4, <1>7 DEF HistoryTyped, Ids, server
<1>12. WireGood'
  BY <1>4, WireSame DEF server
<1>13. FlushInv'
  BY <1>3, <1>4 DEF FlushInv, server
<1>14. RebuildGood'
  BY <1>3, <1>4 DEF RebuildGood
<1>15. QED
  BY <1>8, <1>9, <1>10, <1>11, <1>12, <1>13, <1>14

(* BootFails keeps Core.                                                   *)
LEMMA BootFailsCore ==
    ASSUME Core, BootFails
    PROVE  Core'
<1>0. /\ head \in Nat /\ rebuild \in BOOLEAN /\ revokedAt \in 0..head
      /\ (revoke # "idle" => rebuild) /\ faults \in Nat
  BY Rows DEF Core, HistoryTyped, RebuildGood
<1>1. ReplayQueuedDeltas(rebuild, revokedAt)
  BY DEF BootFails
<1>2. /\ queue' = NoQueue /\ applied' \in 0..head /\ pending' \in Seq(1..head)
      /\ timer' \in BOOLEAN /\ revoke' \in {"idle", "clearing", "cleared"}
      /\ rebuild' \in BOOLEAN /\ revokedAt' \in 0..head
      /\ FlushGood(flush', log, failed, head)
      /\ revoke' # "idle" => rebuild'
      /\ Removals(Waiting) # {} => rebuild'
      /\ Removals(Waiting) = {} => (rebuild' <=> rebuild)
      /\ queue = NoQueue => flush' = flush /\ pending' = pending /\ Removals(Waiting) = {}
      /\ queue # NoQueue => \A dur : Stored(flush', dur)
  BY <1>0, <1>1, ReplayFacts
<1>3. /\ boot # "idle" /\ boot' = (IF queue # NoQueue THEN "idle" ELSE "fetching")
      /\ snapshot' = 0 /\ faults' \in Nat
      /\ UNCHANGED <<server, cursor, persisted, meta, lane, laneOk, tables, durable, failed, lost,
                     deferred>>
  BY <1>0 DEF BootFails, Fault
<1>4. DurableGood'
  <2>1. CASE queue # NoQueue
    BY <1>2, <2>1 DEF DurableGood
  <2>2. CASE queue = NoQueue
    BY <1>2, <1>3, <2>2 DEF Core, DurableGood
  <2>3. QED
    BY <2>1, <2>2
<1> USE DEF Core
<1>5. ServerTyped'
  BY <1>3 DEF ServerTyped, server
<1>6. ClientTyped'
  <2>1. head' = head /\ 0 \in 0..head
    BY <1>0, <1>3 DEF server
  <2>2. QED
    BY <1>2, <1>3, <2>1 DEF ClientTyped, tables
<1>7. HistoryTyped'
  BY <1>2, <1>3 DEF HistoryTyped, Ids, server
<1>8. WireGood'
  BY <1>3, WireSame DEF server
<1>9. FlushInv'
  BY <1>2, <1>3 DEF FlushInv, server
<1>10. RebuildGood'
  BY <1>2, <1>3 DEF RebuildGood, server
<1>11. QED
  BY <1>4, <1>5, <1>6, <1>7, <1>8, <1>9, <1>10


(* Core holds when the session starts.                                     *)
LEMMA InitCore ==
    ASSUME Init
    PROVE  Core
<1>0. /\ log \in Seq(Delta) /\ mode \in {"batch", "chunks"} /\ Start <= Len(log)
      /\ InOnePiece(log) /\ Start \in Nat /\ Len(log) \in Nat /\ head = Start
  BY DeltaAssumption DEF Init
<1>1. head \in Nat /\ head \in Start..Len(log) /\ 0 \in 0..head /\ head \in 0..head
  BY <1>0
<1>2. \A A : <<>> \in Seq(A)
  OBVIOUS
<1>3. ServerTyped
  BY <1>0, <1>1, <1>2 DEF Init, ServerTyped
<1>4. stored \in [Row -> [Field -> 0..head]] /\ pool \in [Row -> 0..head]
  <2>1. \A r : ImageAt(log, head, r) \in [Field -> 0..head]
    BY <1>1, ImageAtType
  <2>2. /\ stored = [r \in Row |-> ImageAt(log, head, r)]
        /\ pool = [r \in Row |-> IF ImageAt(log, head, r) = NoRow THEN 0 ELSE head]
    BY <1>0 DEF Init
  <2>3. QED
    BY <1>1, <2>1, <2>2
<1>5. ClientTyped
  <2>1. cursor = head /\ applied = head /\ persisted = head /\ meta = head
    BY <1>0 DEF Init
  <2>2. QED
    BY <1>1, <1>2, <1>4, <2>1 DEF Init, ClientTyped
<1>6. HistoryTyped
  <2>1. 1..Start \subseteq Ids
    BY <1>0 DEF Ids
  <2>2. QED
    BY <1>1, <2>1 DEF Init, HistoryTyped
<1>7. WireGood
  <2>1. wire = <<>> /\ Len(wire) = 0
    BY DEF Init
  <2>2. QED
    BY <2>1 DEF WireGood
<1>8. FlushInv /\ DurableGood
  <2>1. flush = Idle
    BY DEF Init
  <2>2. Idle \in FlushType(head)
    BY <1>1, IdleType
  <2>3. Resting(Idle)
    BY DEF Resting, Idle
  <2>4. FlushGood(Idle, log, failed, head)
    BY <1>1, <2>2, <2>3, RestingGood
  <2>5. Stored(Idle, durable)
    BY <2>3 DEF Resting, Stored
  <2>6. QED
    BY <2>1, <2>4, <2>5 DEF FlushInv, DurableGood
<1>9. RebuildGood
  <2>1. queue # NoQueue
    <3>1. queue = <<>> /\ queue \in Seq(1..head)
      BY <1>2 DEF Init
    <3>2. QED
      BY <1>1, <3>1, NoQueueFacts
  <2>2. QED
    BY <2>1 DEF Init, RebuildGood
<1>10. QED
  BY <1>3, <1>5, <1>6, <1>7, <1>8, <1>9 DEF Core

(* A step that changes nothing keeps Core.                                 *)
LEMMA StutterCore ==
    ASSUME Core, UNCHANGED vars
    PROVE  Core'
<1>1. /\ UNCHANGED <<log, mode, head, sent, request, wire, link>>
      /\ UNCHANGED <<cursor, applied, persisted, meta>>
      /\ UNCHANGED <<pending, timer, queue, lane, laneOk>>
      /\ UNCHANGED <<flush, stored, pool, revoke, boot, snapshot, faults>>
      /\ UNCHANGED <<durable, failed, lost, deferred, rebuild, revokedAt>>
  BY DEF vars, server, positions, queues, tables, rebuilds, history
<1> USE DEF Core
<1>2. ServerTyped' /\ ClientTyped' /\ HistoryTyped'
  BY <1>1 DEF ServerTyped, ClientTyped, HistoryTyped, Ids
<1>3. WireGood'
  BY <1>1, WireSame
<1>4. FlushInv' /\ DurableGood' /\ RebuildGood'
  BY <1>1 DEF FlushInv, DurableGood, RebuildGood
<1>5. QED
  BY <1>2, <1>3, <1>4

(* Every step keeps Core.                                                  *)
LEMMA NextCore ==
    ASSUME Core, [Next]_vars
    PROVE  Core'
<1>1. CASE UNCHANGED vars
  BY <1>1, StutterCore
<1>2. CASE Publish \/ Open \/ Poll \/ Answer \/ Drop \/ Receive
  BY <1>2, PublishCore, OpenCore, PollCore, AnswerCore, DropCore, ReceiveCore
<1>3. CASE LaneStart \/ LaneAck \/ TimerFires
  BY <1>3, LaneStartCore, LaneAckCore, TimerFiresCore
<1>4. CASE PersistRead \/ PersistWrite \/ PersistDone
  BY <1>4, PersistReadCore, PersistWriteCore, PersistDoneCore
<1>5. CASE ApplySlice \/ ApplyThrows \/ Acknowledge \/ DrainLoop
  BY <1>5, ApplySliceCore, ApplyThrowsCore, AcknowledgeCore, DrainLoopCore
<1>6. CASE RevokeClear \/ ForceFullRebootstrap
  BY <1>6, RevokeClearCore, ForceFullRebootstrapCore
<1>7. CASE BootFetch \/ BootClear \/ BootStore \/ BootFails
  BY <1>7, BootFetchCore, BootClearCore, BootStoreCore, BootFailsCore
<1>8. QED
  BY <1>1, <1>2, <1>3, <1>4, <1>5, <1>6, <1>7 DEF Next

(* The invariant of the drain. In every reachable state the batch being    *)
(* drained is in order, each of its deltas waits for its store or has a    *)
(* result that is stored or failed, the prefix to acknowledge is exactly   *)
(* the stored prefix, and nothing is counted as stored that is not in the  *)
(* stores, unless they are being rebuilt                                   *)
(* (deltaPipeline.drainPendingDeltas, Database.processDeltaBatch).         *)
THEOREM DrainInvariant == Spec => []Core
<1>1. Init => Core
  BY InitCore
<1>2. Core /\ [Next]_vars => Core'
  BY NextCore
<1>3. QED
  BY <1>1, <1>2, PTL DEF Spec

(* Every variable of the pipeline keeps its type, for every log, batch     *)
(* size, slice size and number of faults.                                  *)
THEOREM DeltaTypes == Spec => []TypeOK
<1>1. Core => TypeOK
  <2>1. SUFFICES ASSUME Core PROVE TypeOK
    OBVIOUS
  <2>2. \A k \in 1..Len(wire) : Range(wire[k].ids) \subseteq 1..head
    <3>1. SUFFICES ASSUME NEW k \in 1..Len(wire) PROVE Range(wire[k].ids) \subseteq 1..head
      OBVIOUS
    <3> DEFINE F == FrameType(head)
               w == wire[k].ids
    <3>2. wire \in Seq(F)
      BY <2>1 DEF Core, ServerTyped
    <3> HIDE DEF F
    <3>3. wire[k] \in F
      BY <3>2
    <3>4. w \in Seq(1..head)
      BY <3>3 DEF F, FrameType
    <3> HIDE DEF w
    <3>5. Range(w) \subseteq 1..head
      BY <3>4, RangeIn
    <3>6. QED
      BY <3>5 DEF w
  <2>3. Range(pending) \subseteq 1..head /\ (queue = NoQueue \/ Range(queue) \subseteq 1..head)
    <3>1. pending \in Seq(1..head) /\ (queue = NoQueue \/ queue \in Seq(1..head))
      BY <2>1 DEF Core, ClientTyped
    <3>2. QED
      BY <3>1, RangeIn
  <2>4. flush.phase \in Phases /\ Range(flush.ids) \subseteq 1..head /\ flush.done \in 0..Len(flush.ids)
    BY <2>1, FlushFields DEF FlushType
  <2>5. QED
    BY <2>1, <2>2, <2>3, <2>4 DEF Core, ServerTyped, ClientTyped, HistoryTyped, TypeOK
<1>2. QED
  BY <1>1, DrainInvariant, PTL

(* Between two slices no commit is half visible, unless one of its changes *)
(* failed or was superseded (sliceApplyChanges): the slice ends where the  *)
(* transaction id changes, and all changes of an intact commit carry it.   *)
THEOREM CommitsRevealedWhole == Spec => []IntactCommitRevealedWhole
<1>1. Core => IntactCommitRevealedWhole
  <2>1. SUFFICES ASSUME Core, NEW t \in HalfVisible
                 PROVE  Excused(flush, log, failed, t)
    BY DEF IntactCommitRevealedWhole, Excused
  <2>2. PICK j \in 1..flush.done :
            /\ t = log[flush.ids[j]].tx /\ flush.phase = "apply"
            /\ \E k \in (flush.done + 1)..Len(flush.ids) : OneCommit(flush.ids[j], flush.ids[k])
    BY <2>1 DEF HalfVisible
  <2>3. PICK k \in (flush.done + 1)..Len(flush.ids) : OneCommit(flush.ids[j], flush.ids[k])
    BY <2>2
  <2>4. WholeGood(flush, log, failed)
    BY <2>1, FlushFields DEF FlushGood
  <2>5. QED
    BY <2>2, <2>3, <2>4 DEF WholeGood, OneCommit
<1>2. QED
  BY <1>1, DrainInvariant, PTL

(* An acknowledgement covers only stored deltas: when the persisted        *)
(* position moves, every delta of the batch up to it is in the stores      *)
(* (getHighestPersistedPrefix and the acknowledgement that ends a drain).  *)
THEOREM AcknowledgedIsDurable == Spec => AckIsDurable
<1>1. Core /\ [Next]_vars =>
        [persisted' # persisted =>
            rebuild \/ \A id \in Range(flush.ids) : id <= persisted' => id \in durable]_vars
  <2>1. SUFFICES ASSUME Core, [Next]_vars, persisted' # persisted, ~rebuild,
                        NEW id \in Range(flush.ids), id <= persisted'
                 PROVE  id \in durable
    OBVIOUS
  <2>2. Acknowledge
    BY <2>1 DEF Next, vars, positions, Publish, Open, Poll, Answer, Drop, Receive, LaneStart,
                LaneAck, TimerFires, PersistRead, PersistWrite, PersistDone, ApplySlice,
                ApplyThrows, DrainLoop, RevokeClear, ForceFullRebootstrap, BootFetch, BootClear,
                BootStore, BootFails
  <2>3. flush.phase = "apply" /\ persisted' = flush.prefix
    BY <2>1, <2>2 DEF Acknowledge
  <2>4. flush.prefix = HighestPersistedPrefix(flush.ids, flush.ok)
    BY <2>1, <2>3, FlushFields DEF FlushGood, PrefixGood
  <2>5. id \in flush.ok
    BY <2>1, <2>3, <2>4, FlushFields, PrefixFacts
  <2>6. flush.ok \subseteq durable
    BY <2>1, <2>3 DEF Core, DurableGood, Stored
  <2>7. QED
    BY <2>5, <2>6
<1>2. QED
  BY <1>1, DrainInvariant, PTL DEF Spec, AckIsDurable


-----------------------------------------------------------------------------
(* Every step preserves Fenced when the server answers in one response.    *)

(* The wire without its first frame is ordered, and later than anything    *)
(* that frame reaches.                                                     *)
LEMMA OrderedTail ==
    ASSUME NEW h \in Nat, NEW w \in Seq(FrameType(h)), w # <<>>, NEW last, NEW q,
           OrderedWire(w, last, q), NEW b \in Int, b <= w[1].to, NEW r,
           r # NoQueue => \A x \in 1..Len(r) : r[x] \in Int /\ r[x] <= w[1].to
    PROVE  OrderedWire(Tail(w), b, r)
<1> DEFINE F == FrameType(h)
           u == Tail(w)
<1>1. \A f \in F : f.to \in Int
  BY DEF FrameType
<1>2. w \in Seq(F)
  OBVIOUS
<1> HIDE DEF F
<1>3. /\ u \in Seq(F) /\ Len(u) = Len(w) - 1 /\ Len(w) \in Nat
      /\ \A k \in 1..Len(u) : u[k] = w[k + 1] /\ k + 1 \in 1..Len(w)
      /\ 1 \in 1..Len(w)
  BY <1>2, TailFacts
<1>4. \A k \in 1..Len(w) : w[k].to \in Int
  BY <1>1, <1>2
<1> HIDE DEF u
<1>5. \A k \in 1..Len(u) : 1 \in 1..(k + 1) /\ \A j \in 1..k : j + 1 \in 1..(k + 1) /\ j \in 1..Len(u)
  BY <1>3
<1>6. ASSUME NEW k \in 1..Len(u)
      PROVE  /\ u[k].type \in {"delta", "batch"}
             /\ b <= u[k].to
             /\ r # NoQueue => \A x \in 1..Len(r) : r[x] <= u[k].to
             /\ \A j \in 1..k : u[j].to <= u[k].to
  <2>1. u[k] = w[k + 1] /\ k + 1 \in 1..Len(w) /\ w[1].to <= w[k + 1].to
        /\ w[1].to \in Int /\ w[k + 1].to \in Int
    BY <1>3, <1>4, <1>5 DEF OrderedWire
  <2>2. u[k].type \in {"delta", "batch"}
    BY <2>1 DEF OrderedWire
  <2>3. b <= u[k].to
    BY <2>1
  <2>4. r # NoQueue => \A x \in 1..Len(r) : r[x] <= u[k].to
    BY <2>1
  <2>5. ASSUME NEW j \in 1..k PROVE u[j].to <= u[k].to
    BY <1>3, <1>5, <2>1 DEF OrderedWire
  <2>6. QED
    BY <2>2, <2>3, <2>4, <2>5
<1>7. QED
  BY <1>6 DEF OrderedWire, u

(* A frame that reaches the head may be appended to an ordered wire.       *)
LEMMA OrderedAppend ==
    ASSUME NEW h \in Nat, NEW w \in Seq(FrameType(h)), NEW last, NEW q, OrderedWire(w, last, q),
           NEW f, f.type \in {"delta", "batch"}, f.to \in Nat, h <= f.to, last <= f.to,
           q # NoQueue => \A x \in 1..Len(q) : q[x] <= f.to
    PROVE  OrderedWire(Append(w, f), last, q)
<1> DEFINE F == FrameType(h)
           u == Append(w, f)
           n == Len(w)
<1>1. \A e \in F : e.to \in Int /\ e.to <= f.to
  BY DEF FrameType
<1>2. w \in Seq(F)
  OBVIOUS
<1> HIDE DEF F
<1>3. n \in Nat /\ Len(u) = n + 1 /\ u[n + 1] = f /\ \A k \in 1..n : u[k] = w[k]
  BY <1>2
<1>4. \A k \in 1..n : w[k].to <= f.to
  BY <1>1, <1>2
<1> HIDE DEF u, n
<1>5. ASSUME NEW k \in 1..Len(u)
      PROVE  /\ u[k].type \in {"delta", "batch"}
             /\ last <= u[k].to
             /\ q # NoQueue => \A x \in 1..Len(q) : q[x] <= u[k].to
             /\ \A j \in 1..k : u[j].to <= u[k].to
  <2>1. CASE k \in 1..n
    <3>1. u[k] = w[k] /\ \A j \in 1..k : u[j] = w[j]
      BY <1>3, <2>1
    <3>2. QED
      BY <2>1, <3>1 DEF OrderedWire, n
  <2>2. CASE k = n + 1
    <3>1. u[k] = f
      BY <1>3, <2>2
    <3>2. ASSUME NEW j \in 1..k PROVE u[j].to <= f.to
      <4>1. j = n + 1 \/ j \in 1..n
        BY <1>3, <2>2
      <4>2. f.to <= f.to
        OBVIOUS
      <4>3. QED
        BY <1>3, <1>4, <4>1, <4>2
    <3>3. QED
      BY <3>1, <3>2
  <2>3. QED
    BY <1>3, <2>1, <2>2
<1>6. QED
  BY <1>5 DEF OrderedWire, u

(* A frame that reaches at least as far as the queue may follow it: a      *)
(* frame that reaches back over a removal delivers that removal again,     *)
(* because it is visible.                                                  *)
LEMMA FollowsConcat ==
    ASSUME NEW h \in Nat, NEW s \in Seq(1..h), NEW f \in OkFrames(h), Follows(s),
           \A x \in 1..Len(s) : s[x] <= f.to
    PROVE  Follows(s \o f.ids)
<1> DEFINE ids == f.ids
           u == s \o ids
           n == Len(s)
<1>1. ids \in Seq(1..h) /\ Increasing(ids) /\ f.to \in 0..h
  BY DEF OkFrames, FrameType, Spans
<1>2. PICK lo \in 0..f.to : Range(ids) = {i \in (lo + 1)..f.to : Visible(i)}
  BY DEF OkFrames, Spans
<1> HIDE DEF ids
<1>3. /\ n \in Nat /\ Len(ids) \in Nat /\ Len(u) = n + Len(ids)
      /\ \A k \in 1..n : u[k] = s[k]
      /\ \A k \in 1..Len(ids) : u[k + n] = ids[k]
  <2>1. Len(u) = n + Len(ids) /\ n \in Nat /\ Len(ids) \in Nat
    BY <1>1, LenProperties, ConcatProperties
  <2>2. \A k \in 1..n : u[k] = s[k]
    BY <1>1
  <2>3. \A k \in 1..Len(ids) : u[k + n] = ids[k]
    BY <1>1, <2>1
  <2>4. QED
    BY <2>1, <2>2, <2>3
<1>4. /\ \A k \in 1..n : s[k] \in Int
      /\ \A k \in 1..Len(ids) : ids[k] \in Int /\ ids[k] \in Range(ids)
  <2>1. \A k \in 1..n : s[k] \in Int
    OBVIOUS
  <2>2. \A k \in 1..Len(ids) : ids[k] \in Int
    BY <1>1
  <2>3. \A k \in 1..Len(ids) : ids[k] \in Range(ids)
    BY <1>1, RangeIn
  <2>4. QED
    BY <2>1, <2>2, <2>3
<1>5. \A x : x \in Range(ids) => \E k \in 1..Len(ids) : ids[k] = x
  BY <1>1, RangeIn
<1> HIDE DEF u, n
<1>6. ASSUME NEW p \in 1..Len(u), NEW q \in 1..Len(u), p < q, IsRemoval(u[p]), u[q] <= u[p]
      PROVE  \E r \in q..Len(u) : IsRemoval(u[r]) /\ u[r] >= u[p]
  <2>1. CASE q <= n
    <3>1. p \in 1..n /\ q \in 1..n /\ u[p] = s[p] /\ u[q] = s[q]
      BY <1>3, <1>6, <2>1
    <3>2. PICK r \in q..n : IsRemoval(s[r]) /\ s[r] >= s[p]
      BY <1>6, <3>1 DEF Follows, n
    <3>3. r \in q..Len(u) /\ u[r] = s[r]
      BY <1>3, <3>1, <3>2
    <3>4. QED
      BY <3>1, <3>2, <3>3
  <2>2. CASE q > n /\ p > n
    <3>1. p - n \in 1..Len(ids) /\ q - n \in 1..Len(ids) /\ p - n < q - n
          /\ (p - n) + n = p /\ (q - n) + n = q
      BY <1>3, <1>6, <2>2
    <3>2. u[p] = ids[p - n] /\ u[q] = ids[q - n]
      BY <1>3, <3>1
    <3>3. ids[p - n] < ids[q - n]
      BY <1>1, <3>1 DEF Increasing
    <3>4. QED
      BY <1>4, <1>6, <3>1, <3>2, <3>3
  <2>3. CASE q > n /\ p <= n
    <3>1. p \in 1..n /\ q - n \in 1..Len(ids) /\ (q - n) + n = q
      BY <1>3, <1>6, <2>3
    <3>2. u[p] = s[p] /\ u[q] = ids[q - n] /\ s[p] <= f.to
      BY <1>3, <3>1 DEF n
    <3>3. s[p] \in (lo + 1)..f.to
      <4>1. ids[q - n] \in (lo + 1)..f.to
        BY <1>2, <1>4, <3>1
      <4>2. s[p] \in Int /\ lo \in Int /\ f.to \in Int
        BY <1>1, <1>2, <1>4, <3>1
      <4>3. ids[q - n] <= s[p] /\ s[p] <= f.to
        BY <1>6, <3>2
      <4>4. QED
        BY <4>1, <4>2, <4>3
    <3>4. s[p] \in Range(ids)
      <4>1. Visible(s[p])
        BY <1>6, <3>2 DEF IsRemoval, Visible
      <4>2. QED
        BY <1>2, <3>3, <4>1
    <3>5. PICK r \in 1..Len(ids) : ids[r] = s[p]
      BY <1>5, <3>4
    <3>6. r >= q - n
      <4>1. SUFFICES ASSUME r < q - n PROVE FALSE
        BY <3>1, <3>5, <1>3
      <4>2. ids[r] < ids[q - n]
        BY <1>1, <3>1, <3>5, <4>1 DEF Increasing
      <4>3. QED
        BY <1>4, <1>6, <3>1, <3>2, <3>5, <4>2
    <3>7. r + n \in q..Len(u) /\ u[r + n] = s[p]
      BY <1>3, <3>1, <3>5, <3>6
    <3>8. s[p] >= s[p]
      BY <1>4, <3>1
    <3>9. QED
      BY <1>6, <3>2, <3>7, <3>8
  <2>4. QED
    BY <1>3, <2>1, <2>2, <2>3
<1>7. QED
  BY <1>6 DEF Follows, u, ids


(* A step that leaves the removal and the queue alone keeps Fenced if what *)
(* may still be shown, the snapshot and the pool are later than the        *)
(* removal.                                                                *)
LEMMA StepFenced ==
    ASSUME Fenced, log' = log, revokedAt' = revokedAt, queue' = queue,
           lane' = <<>>, wire' = wire \/ wire' = <<>>,
           LaterThan(revokedAt, pending', flush'),
           queue = NoQueue /\ boot' \in {"fetched", "cleared"} => revokedAt <= snapshot',
           revokedAt > 0 /\ revoke' # "clearing" =>
                \A r \in Row : pool'[r] # 0 => pool'[r] > revokedAt
    PROVE  Fenced'
<1>1. OrderedWire(wire', revokedAt, queue)
  <2>1. OrderedWire(<<>>, revokedAt, queue)
    <3>1. 1..Len(<<>>) = {}
      OBVIOUS
    <3>2. QED
      BY <3>1 DEF OrderedWire
  <2>2. QED
    BY <2>1 DEF Fenced, InOrderWire
<1>2. queue # NoQueue => Follows(queue)'
  BY DEF Fenced, InOrderWire, Follows, IsRemoval
<1>3. InOrderWire'
  BY <1>1, <1>2 DEF InOrderWire
<1>4. RemovalGood'
  BY DEF Fenced, RemovalGood, NoStaleReveal, IsRemoval
<1>5. QED
  BY <1>3, <1>4 DEF Fenced

(* The same batch, no more current than before, is as late.                *)
LEMMA LaterSame ==
    ASSUME NEW b, NEW q, NEW f, NEW g, LaterThan(b, q, f), g.ids = f.ids, g.current => f.current
    PROVE  LaterThan(b, q, g)
BY DEF LaterThan

(* A drain without a batch has nothing to show.                            *)
LEMMA LaterResting ==
    ASSUME NEW b, NEW q, NEW f, NEW g, LaterThan(b, q, f), Resting(g)
    PROVE  LaterThan(b, q, g)
BY RangeEmpty DEF LaterThan, Resting

(* The parts of Fenced that most steps need.                               *)
LEMMA FencedParts ==
    ASSUME Fenced
    PROVE  /\ lane = <<>> /\ LaterThan(revokedAt, pending, flush)
           /\ queue = NoQueue /\ boot \in {"fetched", "cleared"} => revokedAt <= snapshot
           /\ revokedAt > 0 /\ revoke # "clearing" =>
                \A r \in Row : pool[r] # 0 => pool[r] > revokedAt
BY DEF Fenced, InOrderWire, RemovalGood, NoStaleReveal

(* Opening, polling, dropping and stuttering keep Fenced.                  *)
LEMMA QuietFenced ==
    ASSUME Core, Fenced, Open \/ Poll \/ Drop \/ UNCHANGED vars
    PROVE  Fenced'
<1>1. /\ UNCHANGED <<log, revokedAt, queue, lane, pending, flush, snapshot, revoke, pool>>
      /\ wire' = wire \/ wire' = <<>>
      /\ boot' \in {"fetched", "cleared"} => boot' = boot
  BY DEF Open, Poll, Drop, Disconnected, PerformReconnect, vars, server, queues, tables, rebuilds,
         history
<1>2. QED
  BY <1>1, FencedParts, StepFenced

(* TimerFires keeps Fenced.                                                *)
LEMMA TimerFiresFenced ==
    ASSUME Core, Fenced, TimerFires
    PROVE  Fenced'
<1>1. UNCHANGED <<log, wire, revokedAt, queue, lane, snapshot, revoke, boot, pool>>
  BY DEF TimerFires, server, tables, rebuilds, history
<1>2. LaterThan(revokedAt, pending', flush')
  <2>1. head \in Nat /\ \A i \in 1..head : log[i].row \in Row
    BY Rows DEF Core
  <2>2. FlushPendingDeltas(flush, pending)
    BY DEF TimerFires
  <2>3. QED
    BY <2>1, <2>2, FlushFields, FencedParts, FlushPendingFacts
<1>3. QED
  BY <1>1, <1>2, FencedParts, StepFenced

(* PersistRead keeps Fenced.                                               *)
LEMMA PersistReadFenced ==
    ASSUME Core, Fenced, PersistRead
    PROVE  Fenced'
<1>1. UNCHANGED <<log, wire, revokedAt, queue, lane, snapshot, revoke, boot, pool, pending>>
  BY DEF PersistRead, server, tables, rebuilds, queues
<1>2. flush'.ids = flush.ids /\ flush'.current = flush.current
  <2>1. stored \in [Row -> [Field -> 0..head]]
    BY DEF Core, ClientTyped
  <2>2. QED
    BY <2>1, FlushFields, PersistReadFlush
<1>3. LaterThan(revokedAt, pending', flush')
  BY <1>1, <1>2, FencedParts, LaterSame
<1>4. QED
  BY <1>1, <1>3, FencedParts, StepFenced

(* PersistWrite keeps Fenced.                                              *)
LEMMA PersistWriteFenced ==
    ASSUME Core, Fenced, PersistWrite
    PROVE  Fenced'
<1>1. UNCHANGED <<log, wire, revokedAt, queue, lane, snapshot, revoke, boot, pool, pending>>
  BY DEF PersistWrite, server, rebuilds, queues
<1>2. flush'.ids = flush.ids /\ flush'.current = flush.current
  BY FlushFields, PersistWriteFlush
<1>3. LaterThan(revokedAt, pending', flush')
  BY <1>1, <1>2, FencedParts, LaterSame
<1>4. QED
  BY <1>1, <1>3, FencedParts, StepFenced

(* The end of a batch keeps the parts of Fenced it touches.                *)
LEMMA FinishFenced ==
    ASSUME Core, Fenced, NEW f, f.held \in Flags, FinishBatch(f)
    PROVE  lane' = <<>> /\ LaterThan(revokedAt, pending, flush')
<1>1. /\ Resting(flush') /\ Len(lane') = Len(lane) /\ lane' \in Seq(JobType(head))
  BY FlushFields, FinishFacts
<1>2. Len(lane) = 0
  BY FencedParts
<1>3. lane' = <<>>
  BY <1>1, <1>2
<1>4. QED
  BY <1>1, <1>3, FencedParts, LaterResting

(* PersistDone keeps Fenced.                                               *)
LEMMA PersistDoneFenced ==
    ASSUME Core, Fenced, PersistDone
    PROVE  Fenced'
<1>1. UNCHANGED <<log, wire, revokedAt, queue, snapshot, revoke, boot, pool, pending>>
  BY DEF PersistDone, server, tables, rebuilds, history
<1>2. lane' = <<>> /\ LaterThan(revokedAt, pending', flush')
  <2>1. CASE flush.current
    <3> DEFINE f == [flush EXCEPT !.phase = "apply",
                             !.prefix = HighestPersistedPrefix(flush.ids, flush.ok),
                             !.acts = [id \in DOMAIN flush.acts |-> Revived(id)]]
    <3>1. flush' = f /\ lane' = lane /\ flush.phase = "persist" /\ flush.todo = {}
      BY <2>1 DEF PersistDone
    <3>2. f.ids = flush.ids /\ f.current = flush.current
      BY <3>1, FlushFields, PersistDoneFlush
    <3>3. QED
      BY <1>1, <3>1, <3>2, FencedParts, LaterSame
  <2>2. CASE ~flush.current
    <3>1. FinishBatch(flush) /\ flush.held \in Flags
      BY <2>2, FlushFields DEF PersistDone
    <3>2. QED
      BY <1>1, <3>1, FinishFenced
  <2>3. QED
    BY <2>1, <2>2
<1>3. QED
  BY <1>1, <1>2, FencedParts, StepFenced

(* ApplySlice keeps Fenced.                                                *)
LEMMA ApplySliceFenced ==
    ASSUME Core, Fenced, ApplySlice
    PROVE  Fenced'
<1>1. UNCHANGED <<log, wire, revokedAt, queue, snapshot, revoke, boot, pending>>
  BY DEF ApplySlice, server, rebuilds, history
<1>2. CASE flush.current
  <2>1. flush'.ids = flush.ids /\ flush'.current = flush.current /\ lane' = lane
    BY <1>2, ApplySliceFacts
  <2>2. PICK slice \in SUBSET Range(flush.ids) : pool' = Reveal(log, pool, slice, flush.acts)
    BY <1>2, ApplySliceFacts
  <2>3. slice \in SUBSET (1..head) /\ \A id \in slice : id > revokedAt
    BY <1>2, <2>2, FlushFields, FencedParts DEF LaterThan
  <2>4. revokedAt \in Nat
    BY FlushFields DEF Core, HistoryTyped
  <2>5. ASSUME revokedAt > 0, revoke' # "clearing", NEW r \in Row
        PROVE  pool'[r] # 0 => pool'[r] > revokedAt
    <3>1. pool[r] # 0 => pool[r] > revokedAt
      BY <1>1, <2>5, FencedParts
    <3>2. QED
      BY <2>2, <2>3, <2>4, <3>1, FlushFields, RevealFacts
  <2>6. LaterThan(revokedAt, pending', flush')
    BY <1>1, <2>1, FencedParts, LaterSame
  <2>7. QED
    BY <1>1, <2>1, <2>5, <2>6, FencedParts, StepFenced
<1>3. CASE ~flush.current
  <2>1. FinishBatch(flush) /\ flush.held \in Flags /\ pool' = pool
    BY <1>3, FlushFields DEF ApplySlice
  <2>2. lane' = <<>> /\ LaterThan(revokedAt, pending', flush')
    BY <1>1, <2>1, FinishFenced
  <2>3. QED
    BY <1>1, <2>1, <2>2, FencedParts, StepFenced
<1>4. QED
  BY <1>2, <1>3

(* ApplyThrows keeps Fenced.                                               *)
LEMMA ApplyThrowsFenced ==
    ASSUME Core, Fenced, ApplyThrows
    PROVE  Fenced'
<1>1. /\ UNCHANGED <<log, wire, revokedAt, queue, snapshot, revoke, boot, pool>>
      /\ flush.current /\ pending' = flush.ids \o pending /\ lane' \in {lane, <<>>}
  BY DEF ApplyThrows, server, rebuilds, tables
<1>2. flush'.ids = <<>>
  BY DEF ApplyThrows, Idle
<1>3. Range(pending') = Range(flush.ids) \cup Range(pending)
  <2> DEFINE w == flush.ids
  <2>1. w \in Seq(1..head) /\ pending \in Seq(1..head) /\ pending' = w \o pending
    BY <1>1, FlushFields
  <2> HIDE DEF w
  <2>2. Range(w \o pending) = Range(w) \cup Range(pending)
    BY <2>1, RangeConcat
  <2>3. QED
    BY <2>1, <2>2 DEF w
<1>4. LaterThan(revokedAt, pending', flush')
  BY <1>1, <1>2, <1>3, FencedParts, RangeEmpty DEF LaterThan
<1>5. lane' = <<>>
  BY <1>1, FencedParts
<1>6. QED
  BY <1>1, <1>4, <1>5, FencedParts, StepFenced


(* Acknowledge keeps Fenced.                                               *)
LEMMA AcknowledgeFenced ==
    ASSUME Core, Fenced, Acknowledge
    PROVE  Fenced'
<1>1. /\ UNCHANGED <<log, wire, revokedAt, queue, snapshot, revoke, boot, pool, pending>>
      /\ FinishBatch(Applied(flush))
  BY DEF Acknowledge, server, tables, rebuilds, history
<1>2. lane' = <<>> /\ LaterThan(revokedAt, pending', flush')
  BY <1>1, AppliedHeld, FinishFenced
<1>3. QED
  BY <1>1, <1>2, FencedParts, StepFenced

(* DrainLoop keeps Fenced.                                                 *)
LEMMA DrainLoopFenced ==
    ASSUME Core, Fenced, DrainLoop
    PROVE  Fenced'
<1>1. UNCHANGED <<log, wire, revokedAt, queue, snapshot, revoke, boot, pool>> /\ flush.phase = "loop"
  BY DEF DrainLoop, server, tables, rebuilds, history
<1>2. CASE pending # <<>>
  <2>1. flush' = Detached(flush, pending) /\ pending' = <<>> /\ lane' = lane
    BY <1>2 DEF DrainLoop
  <2>2. \A i \in 1..head : log[i].row \in Row
    BY Rows DEF Core
  <2>3. Range(flush'.ids) = Range(pending)
    BY <1>2, <2>1, <2>2, FlushFields, DetachedFacts
  <2>4. LaterThan(revokedAt, pending', flush')
    BY <2>1, <2>3, FencedParts, RangeEmpty DEF LaterThan
  <2>5. QED
    BY <1>1, <2>1, <2>4, FencedParts, StepFenced
<1>3. CASE pending = <<>>
  <2>1. FinishBatch(flush) /\ UNCHANGED pending /\ flush.held \in Flags
    BY <1>1, <1>3, FlushFields DEF DrainLoop, FinishBatch
  <2>2. lane' = <<>> /\ LaterThan(revokedAt, pending', flush')
    BY <2>1, FinishFenced
  <2>3. QED
    BY <1>1, <2>2, FencedParts, StepFenced
<1>4. QED
  BY <1>2, <1>3

(* RevokeClear keeps Fenced.                                               *)
LEMMA RevokeClearFenced ==
    ASSUME Core, Fenced, RevokeClear
    PROVE  Fenced'
<1>1. /\ UNCHANGED <<log, wire, revokedAt, queue, lane, snapshot, boot, pending, flush>>
      /\ pool' = Emptied
  BY DEF RevokeClear, server, queues
<1>2. \A r \in Row : pool'[r] = 0
  BY <1>1 DEF Emptied
<1>3. QED
  BY <1>1, <1>2, FencedParts, StepFenced

(* A rebootstrap and the first two steps of a bootstrap keep Fenced: the   *)
(* snapshot is taken at the head, past the removal.                        *)
LEMMA RebuildFenced ==
    ASSUME Core, Fenced, ForceFullRebootstrap \/ BootFetch \/ BootClear
    PROVE  Fenced'
<1>1. /\ UNCHANGED <<log, revokedAt, queue, lane, pending, flush, pool>>
      /\ wire' = wire \/ wire' = <<>>
      /\ revoke' # "clearing" => revoke # "clearing"
  BY DEF ForceFullRebootstrap, BootFetch, BootClear, Disconnected, server, queues, tables, history
<1>2. queue = NoQueue /\ boot' \in {"fetched", "cleared"} => revokedAt <= snapshot'
  <2>1. revokedAt <= head
    BY FlushFields DEF Core, HistoryTyped
  <2>2. CASE BootFetch
    BY <2>1, <2>2 DEF BootFetch
  <2>3. CASE ForceFullRebootstrap \/ BootClear
    <3>1. snapshot' = snapshot /\ (boot' \in {"fetched", "cleared"} => boot \in {"fetched", "cleared"})
      BY <2>3 DEF ForceFullRebootstrap, BootClear, Disconnected, PerformReconnect
    <3>2. QED
      BY <3>1, FencedParts
  <2>4. QED
    BY <2>2, <2>3
<1>3. QED
  BY <1>1, <1>2, FencedParts, StepFenced

(* The wire grows at its end, and nothing of the client changes.           *)
LEMMA WireFenced ==
    ASSUME Fenced, OrderedWire(wire', revokedAt, queue),
           UNCHANGED <<log, revokedAt, queue, lane, pending, flush, snapshot, boot, revoke, pool>>
    PROVE  Fenced'
<1>1. queue # NoQueue => Follows(queue)'
  BY DEF Fenced, InOrderWire, Follows, IsRemoval
<1>2. InOrderWire'
  BY <1>1 DEF Fenced, InOrderWire
<1>3. RemovalGood'
  BY DEF Fenced, RemovalGood, NoStaleReveal, IsRemoval
<1>4. QED
  BY <1>2, <1>3 DEF Fenced

(* A frame that reaches the head keeps the wire ordered.                   *)
LEMMA NewFrame ==
    ASSUME Core, Fenced, NEW f, f.type \in {"delta", "batch"}, f.to \in Nat, head <= f.to
    PROVE  OrderedWire(Append(wire, f), revokedAt, queue)
<1>1. head \in Nat /\ revokedAt <= f.to /\ wire \in Seq(FrameType(head))
  BY FlushFields DEF Core, HistoryTyped, ServerTyped
<1>2. ASSUME queue # NoQueue, NEW x \in 1..Len(queue) PROVE queue[x] <= f.to
  <2>1. queue \in Seq(1..head)
    BY <1>2 DEF Core, ClientTyped
  <2>2. queue[x] \in 1..head
    BY <1>2, <2>1, ElementOfSeq
  <2>3. QED
    BY <1>1, <2>2
<1>3. QED
  BY <1>1, <1>2, OrderedAppend DEF Fenced, InOrderWire

(* Publish keeps Fenced.                                                   *)
LEMMA PublishFenced ==
    ASSUME Core, Fenced, Publish
    PROVE  Fenced'
<1> DEFINE f == Frame("delta", <<head + 1>>, head + 1)
<1>1. UNCHANGED <<log, revokedAt, queue, lane, pending, flush, snapshot, boot, revoke, pool>>
  BY DEF Publish, queues, rebuilds, tables
<1>2. head \in Nat /\ (wire' = wire \/ wire' = Append(wire, f))
  BY PublishFacts
<1>3. f.type \in {"delta", "batch"} /\ f.to \in Nat /\ head <= f.to
  BY <1>2 DEF Frame
<1> HIDE DEF f
<1>4. OrderedWire(Append(wire, f), revokedAt, queue)
  BY <1>3, NewFrame
<1>5. OrderedWire(wire', revokedAt, queue)
  BY <1>2, <1>4 DEF Fenced, InOrderWire
<1>6. QED
  BY <1>1, <1>5, WireFenced

(* Concatenating a sequence of one element is appending it.                *)
LEMMA ConcatOne ==
    ASSUME NEW O, NEW w \in Seq(O), NEW X \in Seq(O), Len(X) = 1
    PROVE  w \o X = Append(w, X[1])
<1> DEFINE u == w \o X
           v == Append(w, X[1])
<1>1. X[1] \in O /\ Len(w) \in Nat
  OBVIOUS
<1>2. u \in Seq(O) /\ v \in Seq(O) /\ Len(u) = Len(w) + 1 /\ Len(v) = Len(w) + 1
  <2>0. u \in Seq(O)
    OBVIOUS
  <2>1. Len(u) = Len(w) + Len(X)
    BY LenProperties, ConcatProperties
  <2>2. v \in Seq(O) /\ Len(v) = Len(w) + 1
    BY <1>1
  <2>3. QED
    BY <2>0, <2>1, <2>2
<1>3. ASSUME NEW i \in 1..Len(u) PROVE u[i] = v[i]
  <2>1. CASE i \in 1..Len(w)
    BY <2>1, <1>1
  <2>2. CASE i = Len(w) + 1
    BY <2>2, <1>1
  <2>3. QED
    BY <1>1, <1>2, <1>3, <2>1, <2>2
<1> HIDE DEF u, v
<1>4. u = v
  BY <1>2, <1>3, SeqEqual
<1>5. QED
  BY <1>4 DEF u, v

(* Answer keeps Fenced.                                                    *)
LEMMA AnswerFenced ==
    ASSUME Core, Fenced, mode = "batch", Answer
    PROVE  Fenced'
<1>1. UNCHANGED <<log, revokedAt, queue, lane, pending, flush, snapshot, boot, revoke, pool>>
  BY DEF Answer, queues, rebuilds, tables, history
<1>2. PICK X \in Seq(OkFrames(head)) :
          wire' = wire \o X /\ Len(X) = 1 /\ X[1].type = "batch" /\ X[1].to = head
  BY AnswerFrames
<1>3. wire' = Append(wire, X[1])
  <2> DEFINE O == OkFrames(head)
  <2>1. X \in Seq(O) /\ wire \in Seq(O)
    BY <1>2, WireOk, FlushFields DEF Core, ServerTyped
  <2> HIDE DEF O
  <2>2. QED
    BY <1>2, <2>1, ConcatOne
<1>4. head \in Nat
  BY FlushFields
<1>5. OrderedWire(wire', revokedAt, queue)
  BY <1>2, <1>3, <1>4, NewFrame
<1>6. QED
  BY <1>1, <1>5, WireFenced


(* Fenced in the next state, part by part.                                 *)
LEMMA FencedNext ==
    ASSUME log' = log, lane' = <<>>, OrderedWire(wire', revokedAt', queue'),
           queue' # NoQueue => Follows(queue'),
           revokedAt' > 0 => IsRemoval(revokedAt'),
           LaterThan(revokedAt', pending', flush'),
           queue' = NoQueue /\ boot' \in {"fetched", "cleared"} => revokedAt' <= snapshot',
           revokedAt' > 0 /\ revoke' # "clearing" =>
                \A r \in Row : pool'[r] # 0 => pool'[r] > revokedAt'
    PROVE  Fenced'
<1>1. InOrderWire'
  BY DEF InOrderWire, Follows, IsRemoval
<1>2. RemovalGood'
  BY DEF RemovalGood, NoStaleReveal, IsRemoval
<1>3. QED
  BY <1>1, <1>2 DEF Fenced

(* Ids are integers.                                                       *)
LEMMA SeqInts ==
    ASSUME NEW h \in Nat, NEW s \in Seq(1..h)
    PROVE  \A k \in 1..Len(s) : s[k] \in Int
<1>1. ASSUME NEW k \in 1..Len(s) PROVE s[k] \in 1..h
  BY ElementOfSeq
<1>2. \A x \in 1..h : x \in Int
  OBVIOUS
<1>3. QED
  BY <1>1, <1>2

(* The ids of a good frame: increasing, at most its end, and with every    *)
(* visible position between one of them and its end.                       *)
LEMMA FrameIds ==
    ASSUME NEW h \in Nat, NEW f \in OkFrames(h)
    PROVE  /\ f.ids \in Seq(1..h) /\ Increasing(f.ids) /\ f.to \in 0..h
           /\ \A i \in Range(f.ids) : i \in 1..h /\ i <= f.to
           /\ \A k \in 1..Len(f.ids) : f.ids[k] \in Range(f.ids) /\ f.ids[k] \in Int
           /\ \A i \in Range(f.ids) : \A j \in i..f.to : Visible(j) => j \in Range(f.ids)
           /\ \A i \in Range(f.ids) : \E k \in 1..Len(f.ids) : f.ids[k] = i
<1> DEFINE s == f.ids
<1>1. s \in Seq(1..h) /\ Increasing(s) /\ f.to \in 0..h
  BY DEF OkFrames, FrameType, Spans
<1>2. PICK lo \in 0..f.to : Range(s) = {i \in (lo + 1)..f.to : Visible(i)}
  BY DEF OkFrames, Spans
<1> HIDE DEF s
<1>3. /\ Range(s) \subseteq 1..h /\ \A k \in 1..Len(s) : s[k] \in Range(s)
      /\ \A i \in Range(s) : \E k \in 1..Len(s) : s[k] = i
  BY <1>1, RangeIn
<1>4. \A i \in Range(s) : i \in (lo + 1)..f.to
  BY <1>2
<1>5. \A i \in Range(s) : \A j \in i..f.to : j \in (lo + 1)..f.to
  BY <1>1, <1>2, <1>4
<1>6. \A i \in Range(s) : \A j \in i..f.to : Visible(j) => j \in Range(s)
  BY <1>2, <1>5
<1>7. \A i \in Range(s) : i \in 1..h /\ i <= f.to
  BY <1>1, <1>3, <1>4
<1>8. \A k \in 1..Len(s) : s[k] \in Range(s) /\ s[k] \in Int
  BY <1>1, <1>3, SeqInts
<1>9. QED
  BY <1>1, <1>3, <1>6, <1>7, <1>8 DEF s

(* Receiving a frame keeps Fenced. Without a removal in it, none of its    *)
(* ids is at or before the last removal: such a frame would reach back     *)
(* over the removal, which is visible, and deliver it again.               *)
LEMMA ReceiveFenced ==
    ASSUME Core, Fenced, Receive
    PROVE  Fenced'
<1> DEFINE f == Head(wire)
           ids == f.ids
<1>1. /\ link /\ wire # <<>> /\ wire' = Tail(wire)
      /\ Took(f.ids) \/ Untouched
      /\ UNCHANGED <<log, pool, boot, snapshot>>
      /\ lane' = lane \/ f.type \in {"chunk", "end"}
  BY ReceiveFacts
<1>2. /\ f = wire[1] /\ 1 \in 1..Len(wire) /\ f \in OkFrames(head)
  BY <1>1, HeadFrame
<1>3. /\ head \in Nat /\ revokedAt \in 0..head /\ wire \in Seq(FrameType(head))
      /\ pending \in Seq(1..head) /\ FlushGood(flush, log, failed, head)
      /\ \A i \in 1..head : log[i].row \in Row
  <2>1. revokedAt \in 0..head /\ wire \in Seq(FrameType(head)) /\ \A i \in 1..head : log[i].row \in Row
    BY Rows DEF Core, HistoryTyped, ServerTyped
  <2>2. QED
    BY <2>1, FlushFields
<1>4. /\ ids \in Seq(1..head) /\ Increasing(ids) /\ f.to \in 0..head
      /\ \A i \in Range(ids) : i \in 1..head /\ i <= f.to
      /\ \A k \in 1..Len(ids) : ids[k] \in Range(ids) /\ ids[k] \in Int
      /\ \A i \in Range(ids) : \A j \in i..f.to : Visible(j) => j \in Range(ids)
      /\ \A i \in Range(ids) : \E k \in 1..Len(ids) : ids[k] = i
  BY <1>2, <1>3, FrameIds
<1>5. /\ f.type \in {"delta", "batch"} /\ revokedAt <= f.to
      /\ queue # NoQueue => \A x \in 1..Len(queue) : queue[x] <= f.to
  BY <1>2 DEF Fenced, InOrderWire, OrderedWire
<1>6. lane' = <<>>
  BY <1>1, <1>5, FencedParts
<1>7. /\ LaterThan(revokedAt, pending, flush)
      /\ queue # NoQueue => Follows(queue)
      /\ revokedAt > 0 => IsRemoval(revokedAt)
      /\ OrderedWire(wire, revokedAt, queue)
      /\ queue = NoQueue /\ boot \in {"fetched", "cleared"} => revokedAt <= snapshot
      /\ revokedAt > 0 /\ revoke # "clearing" =>
                \A r \in Row : pool[r] # 0 => pool[r] > revokedAt
  BY DEF Fenced, InOrderWire, RemovalGood, NoStaleReveal
<1>8. boot # "idle" => queue # NoQueue
  BY <1>1 DEF Core, RebuildGood
<1>9. queue # NoQueue => queue \in Seq(1..head) /\ \A x \in 1..Len(queue) : queue[x] \in Int
  <2>1. SUFFICES ASSUME queue # NoQueue
                 PROVE  queue \in Seq(1..head) /\ \A x \in 1..Len(queue) : queue[x] \in Int
    OBVIOUS
  <2>2. queue \in Seq(1..head)
    BY <2>1 DEF Core, ClientTyped
  <2>3. QED
    BY <1>3, <2>2, SeqInts
<1> HIDE DEF f, ids
<1>10. CASE Untouched
  <2>1. OrderedWire(wire', revokedAt, queue)
    BY <1>1, <1>2, <1>3, <1>5, <1>7, <1>9, OrderedTail
  <2>2. QED
    BY <1>1, <1>6, <1>7, <1>10, <2>1, FencedNext DEF Untouched
<1>11. CASE /\ queue # NoQueue /\ queue' = queue \o ids
            /\ UNCHANGED <<applied, revoke, rebuild, revokedAt, pending, timer, flush>>
  <2>1. Follows(queue')
    BY <1>2, <1>3, <1>5, <1>7, <1>9, <1>11, FollowsConcat DEF ids
  <2>2. queue' \in Seq(1..head) /\ Range(queue') = Range(queue) \cup Range(ids)
    BY <1>3, <1>4, <1>9, <1>11, RangeConcat
  <2>3. \A i \in Range(queue) : i <= f.to
    BY <1>5, <1>9, <1>11, RangeIn
  <2>4. \A x \in 1..Len(queue') : queue'[x] \in Int /\ queue'[x] <= f.to
    <3>1. \A x \in 1..Len(queue') : queue'[x] \in Range(queue') /\ queue'[x] \in 1..head
      BY <2>2, RangeIn, ElementOfSeq
    <3>2. QED
      BY <1>3, <1>4, <2>2, <2>3, <3>1
  <2>5. OrderedWire(wire', revokedAt, queue')
    BY <1>1, <1>2, <1>3, <1>5, <1>7, <2>4, OrderedTail
  <2>6. queue' # NoQueue
    BY <1>3, <2>2, NoQueueFacts
  <2>7. QED
    BY <1>1, <1>6, <1>7, <1>11, <2>1, <2>5, <2>6, FencedNext
<1>12. CASE /\ queue = NoQueue /\ queue' = queue
            /\ EnqueueSideEffects(ids) /\ Taken(ids) /\ timer' \in BOOLEAN
  <2>1. CASE Removals(ids) = {}
    <3>1. revokedAt' = revokedAt /\ revoke' = revoke
      BY <1>12, <2>1 DEF EnqueueSideEffects
    <3>2. ASSUME NEW i \in Range(ids), ~(i > revokedAt) PROVE FALSE
      <4>1. i \in Nat /\ i > 0 /\ i <= revokedAt
        BY <1>3, <1>4, <3>2
      <4>2. revokedAt > 0 /\ revokedAt \in i..f.to
        BY <1>3, <1>4, <1>5, <4>1
      <4>3. IsRemoval(revokedAt) /\ Visible(revokedAt)
        BY <1>7, <4>2 DEF IsRemoval, Visible
      <4>4. PICK k \in 1..Len(ids) : ids[k] = revokedAt
        BY <1>4, <3>2, <4>2, <4>3
      <4>5. QED
        BY <2>1, <4>3, <4>4 DEF Removals
    <3>3. LaterThan(revokedAt, Appended(ids), Running(ids))
      BY <1>3, <1>4, <1>7, <2>1, <3>2, TakenLater
    <3>4. LaterThan(revokedAt, pending', flush')
      BY <1>3, <1>4, <1>12, <3>3, TakenFacts
    <3>5. OrderedWire(wire', revokedAt, queue)
      BY <1>1, <1>2, <1>3, <1>5, <1>7, <1>12, OrderedTail
    <3>6. QED
      BY <1>1, <1>6, <1>7, <1>12, <3>1, <3>4, <3>5, FencedNext
  <2>2. CASE Removals(ids) # {}
    <3> DEFINE m == MaxOf({ids[k] : k \in Removals(ids)}, 0)
    <3>1. revokedAt' = m /\ revoke' = "clearing"
      BY <1>12, <2>2 DEF EnqueueSideEffects
    <3>2. m \in 1..head /\ IsRemoval(m) /\ m \in Range(ids) /\ \E k \in Removals(ids) : m = ids[k]
      BY <1>3, <1>4, <2>2, RemovedFacts
    <3> HIDE DEF m
    <3>3. ASSUME NEW q \in 1..Len(ids), \A k \in Removals(ids) : k < q PROVE ids[q] > m
      <4>1. PICK k \in Removals(ids) : m = ids[k]
        BY <3>2
      <4>2. k \in 1..Len(ids) /\ k < q
        BY <3>3, <4>1 DEF Removals
      <4>3. ids[k] < ids[q]
        BY <1>4, <4>2 DEF Increasing
      <4>4. QED
        BY <1>4, <4>1, <4>2, <4>3
    <3>4. LaterThan(m, Appended(ids), Running(ids))
      BY <1>3, <1>4, <2>2, <3>3, TakenLater
    <3>5. LaterThan(m, pending', flush')
      BY <1>3, <1>4, <1>12, <3>4, TakenFacts
    <3>6. m \in Int /\ m <= f.to
      BY <1>3, <1>4, <3>2
    <3>7. OrderedWire(wire', m, queue)
      BY <1>1, <1>2, <1>3, <1>7, <1>12, <3>6, OrderedTail
    <3>8. ~(boot' \in {"fetched", "cleared"})
      BY <1>1, <1>8, <1>12
    <3>9. QED
      BY <1>1, <1>6, <1>12, <3>1, <3>2, <3>5, <3>7, <3>8, FencedNext
  <2>3. QED
    BY <2>1, <2>2
<1>13. QED
  BY <1>1, <1>10, <1>11, <1>12 DEF Took, ids


(* When no removal is outstanding Fenced asks only for types and an        *)
(* ordered wire.                                                           *)
LEMMA ZeroFenced ==
    ASSUME Core, Fenced, log' = log, lane' = lane, wire' = wire, queue' = NoQueue, revokedAt' = 0,
           pending' \in Seq(1..head), FlushGood(flush', log, failed, head),
           boot' \notin {"fetched", "cleared"}
    PROVE  Fenced'
<1>1. head \in Nat /\ wire \in Seq(FrameType(head))
  <2>1. wire \in Seq(FrameType(head))
    BY DEF Core, ServerTyped
  <2>2. QED
    BY <2>1, FlushFields
<1>2. OrderedWire(wire', revokedAt', queue')
  <2>1. ASSUME NEW k \in 1..Len(wire) PROVE 0 <= wire[k].to
    <3> DEFINE F == FrameType(head)
    <3>1. \A e \in F : 0 <= e.to
      BY <1>1 DEF FrameType
    <3>2. wire \in Seq(F)
      BY <1>1
    <3> HIDE DEF F
    <3>3. wire[k] \in F
      BY <2>1, <3>2, ElementOfSeq
    <3>4. QED
      BY <3>1, <3>3
  <2>2. QED
    BY <2>1 DEF Fenced, InOrderWire, OrderedWire
<1>3. LaterThan(revokedAt', pending', flush')
  <2> DEFINE g == flush'
             s == g.ids
  <2>1. s \in Seq(1..head)
    BY DEF FlushGood, FlushType
  <2> HIDE DEF s
  <2>2. Range(s) \subseteq 1..head /\ Range(pending') \subseteq 1..head
    BY <2>1, RangeIn
  <2>3. \A i \in 1..head : i > 0
    BY <1>1
  <2>4. QED
    BY <2>2, <2>3 DEF LaterThan, s
<1>4. lane' = <<>> /\ ~(revokedAt' > 0)
  BY FencedParts
<1>5. QED
  BY <1>2, <1>3, <1>4, FencedNext

(* Replaying the deferred deltas keeps Fenced: what follows the last       *)
(* removal among them is later than the greatest one, because no later     *)
(* frame reached back without delivering it again.                         *)
LEMMA ReplayFenced ==
    ASSUME Core, Fenced, NEW rb \in BOOLEAN, revoke # "idle" => rb, NEW since,
           since = 0 \/ (since = revokedAt /\ (queue = NoQueue => pool' = pool)),
           ReplayQueuedDeltas(rb, since), log' = log, lane' = lane, wire' = wire,
           boot' \notin {"fetched", "cleared"}
    PROVE  Fenced'
<1>1. head \in Nat /\ revokedAt \in 0..head /\ since \in 0..head
      /\ pending \in Seq(1..head) /\ FlushGood(flush, log, failed, head)
      /\ \A i \in 1..head : log[i].row \in Row
  <2>1. revokedAt \in 0..head /\ \A i \in 1..head : log[i].row \in Row
    BY Rows DEF Core, HistoryTyped
  <2>2. 0 \in 0..head
    BY FlushFields
  <2>3. QED
    BY <2>1, <2>2, FlushFields
<1>2. /\ queue' = NoQueue /\ pending' \in Seq(1..head) /\ FlushGood(flush', log, failed, head)
      /\ Taken(Waiting) /\ Waiting \in Seq(1..head)
      /\ Removals(Waiting) # {} =>
            /\ revoke' = "clearing"
            /\ revokedAt' = MaxOf({Waiting[k] : k \in Removals(Waiting)}, 0)
      /\ Removals(Waiting) = {} => revoke' = revoke /\ revokedAt' = since
      /\ queue = NoQueue => flush' = flush /\ pending' = pending /\ Removals(Waiting) = {}
  BY <1>1, ReplayFacts
<1>3. CASE revokedAt' = 0
  BY <1>2, <1>3, ZeroFenced
<1>4. CASE queue = NoQueue /\ revokedAt' # 0
  <2>1. /\ UNCHANGED <<flush, pending, revoke, revokedAt, pool>>
    BY <1>2, <1>4
  <2>2. QED
    BY <1>2, <1>4, <2>1, FencedParts, StepFenced
<1>5. CASE queue # NoQueue /\ revokedAt' # 0
  <2>1. revokedAt = 0 /\ Waiting = queue /\ Removals(Waiting) # {}
    BY <1>2, <1>5 DEF Core, RebuildGood, Waiting
  <2> DEFINE m == MaxOf({queue[k] : k \in Removals(queue)}, 0)
  <2>2. revokedAt' = m /\ revoke' = "clearing" /\ queue \in Seq(1..head) /\ Taken(queue)
    BY <1>2, <2>1
  <2>3. m \in 1..head /\ IsRemoval(m) /\ \E k \in Removals(queue) : m = queue[k]
    BY <1>1, <2>1, <2>2, RemovedFacts
  <2> HIDE DEF m
  <2>4. PICK p \in Removals(queue) : m = queue[p]
    BY <2>3
  <2>5. p \in 1..Len(queue) /\ Len(queue) \in Nat /\ \A k \in 1..Len(queue) : queue[k] \in Int
    BY <1>1, <2>2, <2>4, SeqInts DEF Removals
  <2>6. ASSUME NEW q \in 1..Len(queue), \A k \in Removals(queue) : k < q, ~(queue[q] > m)
        PROVE  FALSE
    <3>1. p < q /\ IsRemoval(queue[p]) /\ queue[q] <= queue[p]
      BY <2>4, <2>5, <2>6 DEF Removals
    <3>2. PICK r \in q..Len(queue) : IsRemoval(queue[r])
      BY <1>5, <2>5, <2>6, <3>1 DEF Fenced, InOrderWire, Follows
    <3>3. r \in 1..Len(queue) /\ ~(r < q)
      BY <2>5, <2>6, <3>2
    <3>4. r \in Removals(queue)
      BY <3>2, <3>3 DEF Removals
    <3>5. QED
      BY <2>6, <3>3, <3>4
  <2>7. LaterThan(m, Appended(queue), Running(queue))
    BY <1>1, <2>1, <2>2, <2>6, TakenLater
  <2>8. LaterThan(m, pending', flush')
    BY <1>1, <2>2, <2>7, TakenFacts
  <2>9. OrderedWire(wire', m, queue')
    <3>1. \A k \in 1..Len(wire) : m <= wire[k].to
      BY <1>5, <2>4, <2>5 DEF Fenced, InOrderWire, OrderedWire
    <3>2. QED
      BY <1>2, <3>1 DEF Fenced, InOrderWire, OrderedWire
  <2>10. lane' = <<>>
    BY FencedParts
  <2>11. QED
    BY <1>2, <2>2, <2>3, <2>8, <2>9, <2>10, FencedNext
<1>6. QED
  BY <1>3, <1>4, <1>5

(* The end of a bootstrap, stored or failed, keeps Fenced.                 *)
LEMMA BootFenced ==
    ASSUME Core, Fenced, BootStore \/ BootFails
    PROVE  Fenced'
<1>0. rebuild \in BOOLEAN /\ (revoke # "idle" => rebuild)
  BY DEF Core, HistoryTyped, RebuildGood
<1>1. CASE BootStore
  <2> DEFINE since == IF snapshot >= revokedAt THEN 0 ELSE revokedAt
  <2>1. /\ boot = "cleared" /\ boot' = "idle" /\ log' = log /\ lane' = lane /\ wire' = wire
        /\ ReplayQueuedDeltas(revoke # "idle", since)
    BY <1>1 DEF BootStore, server
  <2>2. since = 0 \/ (since = revokedAt /\ (queue = NoQueue => pool' = pool))
    <3>1. snapshot \in Int /\ revokedAt \in Int
      <4>1. head \in Nat /\ snapshot \in 0..head /\ revokedAt \in 0..head
        BY FlushFields DEF Core, ClientTyped, HistoryTyped
      <4>2. QED
        BY <4>1
    <3>2. CASE queue = NoQueue
      <4>1. revokedAt <= snapshot
        BY <2>1, <3>2, FencedParts
      <4>2. QED
        BY <3>1, <4>1
    <3>3. CASE queue # NoQueue
      BY <3>3
    <3>4. QED
      BY <3>2, <3>3
  <2> HIDE DEF since
  <2>3. (revoke # "idle") \in BOOLEAN
    OBVIOUS
  <2>4. boot' \notin {"fetched", "cleared"}
    BY <2>1
  <2>5. QED
    BY <2>1, <2>2, <2>3, <2>4, ReplayFenced
<1>2. CASE BootFails
  <2>1. /\ boot' \notin {"fetched", "cleared"} /\ log' = log /\ lane' = lane /\ wire' = wire
        /\ ReplayQueuedDeltas(rebuild, revokedAt) /\ pool' = pool
    BY <1>2 DEF BootFails, server, tables
  <2>2. QED
    BY <1>0, <2>1, ReplayFenced
<1>3. QED
  BY <1>1, <1>2

(* Fenced holds when the session starts.                                   *)
LEMMA InitFenced == Init => Fenced
<1>1. SUFFICES ASSUME Init PROVE Fenced
  OBVIOUS
<1>2. /\ wire = <<>> /\ lane = <<>> /\ queue = <<>> /\ revokedAt = 0 /\ pending = <<>>
      /\ flush = Idle /\ boot = "fetching"
  BY <1>1 DEF Init
<1>3. 1..Len(wire) = {} /\ 1..Len(queue) = {} /\ Range(pending) = {} /\ Range(flush.ids) = {}
  BY <1>2, RangeEmpty DEF Idle
<1>4. InOrderWire
  BY <1>2, <1>3 DEF InOrderWire, OrderedWire, Follows
<1>5. RemovalGood
  BY <1>2, <1>3 DEF RemovalGood, LaterThan, NoStaleReveal
<1>6. QED
  BY <1>4, <1>5 DEF Fenced

(* Every step keeps Fenced when the server answers in one response; the    *)
(* catch-up lane is empty then.                                            *)
LEMMA NextFenced ==
    ASSUME Core, Fenced, mode = "batch", [Next]_vars
    PROVE  Fenced'
<1>1. ~LaneStart /\ ~LaneAck
  BY FencedParts DEF LaneStart, LaneAck
<1>2. QED
  BY <1>1, QuietFenced, PublishFenced, AnswerFenced, ReceiveFenced, TimerFiresFenced,
     PersistReadFenced, PersistWriteFenced, PersistDoneFenced, ApplySliceFenced,
     ApplyThrowsFenced, AcknowledgeFenced, DrainLoopFenced, RevokeClearFenced, RebuildFenced,
     BootFenced DEF Next

(* The way the server answers does not change.                             *)
LEMMA ModeFixed ==
    ASSUME [Next]_vars
    PROVE  mode' = mode
BY DEF Next, vars, server, Publish, Open, Poll, Answer, Drop, Receive, LaneStart, LaneAck,
       TimerFires, PersistRead, PersistWrite, PersistDone, ApplySlice, ApplyThrows, Acknowledge,
       DrainLoop, RevokeClear, ForceFullRebootstrap, BootFetch, BootClear, BootStore, BootFails

(* The invariant of the whole pipeline: Core, and Fenced for a server that *)
(* answers a request in one response.                                      *)
THEOREM PipelineInvariant == Spec => []PipelineInv
<1>1. Init => PipelineInv
  BY InitCore, InitFenced DEF PipelineInv
<1>2. PipelineInv /\ [Next]_vars => PipelineInv'
  BY NextCore, NextFenced, ModeFixed DEF PipelineInv
<1>3. QED
  BY <1>1, <1>2, PTL DEF Spec

(* Nothing of a removed sync group comes back into the pool between the    *)
(* clear and the next bootstrap, when the server answers catch-up requests *)
(* in one response: the batch in flight was invalidated                    *)
(* (clearPendingPublications), the queue was cut, and every later frame    *)
(* that reaches back over the removal delivers it again, which clears once *)
(* more.                                                                   *)
THEOREM RevealsInOrder == Spec => []InOrderReveal
<1>1. PipelineInv => InOrderReveal
  BY DEF PipelineInv, Fenced, RemovalGood, InOrderReveal
<1>2. QED
  BY <1>1, PipelineInvariant, PTL

=============================================================================
