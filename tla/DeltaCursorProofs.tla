------------------------- MODULE DeltaCursorProofs -------------------------
(***************************************************************************)
(* The resume cursor. A catch-up request asks for what lies after the      *)
(* cursor, so a delta below it that the client does not have is never      *)
(* asked for again. Cover states that there is none, and has to say it of  *)
(* every place a position comes from: the applied position, below which    *)
(* live deltas are skipped; a request in flight; the frames on the wire,   *)
(* where a live delta relies on what was sent before it and an answer on   *)
(* the cursor it started from; the batch whose stored prefix is            *)
(* acknowledged; the deltas a bootstrap defers; and the jobs of the catch- *)
(* up lane, which acknowledge their position when their ids are only in    *)
(* memory.                                                                 *)
(***************************************************************************)
EXTENDS DeltaPipelineProofs

(* The positions that may lie at or below the cursor: those a client never *)
(* stores, those it has stored or is known to have lost, those a bootstrap *)
(* or the catch-up lane has put into memory, and, while a bootstrap is     *)
(* writing its snapshot, those the snapshot has.                           *)
Unstored == {i \in Ids : log[i].kind \in {"S", "X"}}
Snap  == IF boot = "cleared" THEN 1..snapshot ELSE {}
Loose == Unstored \cup durable \cup failed \cup lost \cup (deferred \cap InMemory) \cup Snap
Safe  == Loose \cup InLane

(* ... and those that may lie below a delta the client is about to take.   *)
Held  == Safe \cup Range(flush.ids) \cup Range(pending)

Down(n, S) == \A i \in 1..n : i \in S

(* A live delta has everything below it in the client or ahead of it on    *)
(* the wire; an answer starts from a cursor, so it brings what is missing  *)
(* below its end itself, a chunked one together with its earlier chunks.   *)
Laden(w, S, H) ==
    \A k \in 1..Len(w) : \A i \in 1..w[k].to :
        /\ w[k].type = "delta" => i \in H \/ \E j \in 1..k : i \in Range(w[j].ids)
        /\ w[k].type = "batch" => i \in S \/ i \in Range(w[k].ids)
        /\ w[k].type \in {"chunk", "end"} =>
                i \in S \/ \E j \in 1..k : w[j].type = "chunk" /\ i \in Range(w[j].ids)

Sent(w, n, H) == \A i \in 1..n : i \in H \/ \E j \in 1..Len(w) : i \in Range(w[j].ids)

Stream(S, H, c, a, rq, sn, w) ==
    Down(c, S) /\ Down(a, H) /\ Down(rq, S) /\ Laden(w, S, H) /\ Sent(w, sn, H)

(* What is drained has nothing unsafe below it outside the batch.          *)
Batches(S, H, f, p, q) ==
    /\ \A j \in Range(f.ids) : Down(j, S \cup Range(f.ids))
    /\ \A j \in Range(p) : Down(j, H)
    /\ q # NoQueue => \A j \in Range(q) : Down(j, S)

(* Only the first job has been started, and what it took is in memory.     *)
Jobs(S, L, l) ==
    \A k \in 1..Len(l) : /\ Down(l[k].position, S)
                         /\ l[k].state # "new" => \A i \in Range(l[k].ids) : i \in L

(* The clauses together: nothing the client would still have to fetch lies *)
(* below the cursor, a request or the positions it is about to take.       *)
Cover ==
    /\ Stream(Safe, Held, cursor, applied, request, sent, wire)
    /\ Batches(Safe, Held, flush, pending, queue)
    /\ Jobs(Safe, Loose, lane)

(* Nothing is on the wire of a closed link.                                *)
LinkGood == ~link => wire = <<>> /\ request = -1 /\ sent = -1

(* A lane that has rejected holds nothing; only its first job is running;  *)
(* a job's ids lie at or below the position it acknowledges.               *)
LaneStopped == laneOk \/ lane = <<>>

LaneFront ==
    \A k \in 1..Len(lane) :
        /\ lane[k].state # "new" => k = 1
        /\ \A i \in Range(lane[k].ids) : i <= lane[k].position

(* The first bootstrap of a session finds what the last one left, later    *)
(* ones take a snapshot past everything the client has.                    *)
BootGood ==
    /\ queue # NoQueue /\ boot # "cleared" => ~rebuild /\ durable \subseteq 1..Start
    /\ queue # NoQueue /\ boot \in {"fetched", "cleared"} => Start <= snapshot
    /\ queue = NoQueue /\ boot \in {"fetched", "cleared"} =>
            /\ cursor <= snapshot /\ applied <= snapshot
            /\ \A k \in 1..Len(lane) : lane[k].position <= snapshot

Side == LinkGood /\ LaneStopped /\ LaneFront /\ BootGood

(* While stored data is incomplete and nothing is deferred, a bootstrap is *)
(* still to run that brings everything, and nothing is claimed.            *)
Incomplete == rebuild /\ queue = NoQueue

CursorInv == Core /\ Side /\ (Incomplete \/ Cover)

-----------------------------------------------------------------------------
(* Sets that grow.                                                         *)

(* A position covered by a set is covered by a larger one.                 *)
LEMMA DownMono ==
    ASSUME NEW n, NEW S, NEW T, Down(n, S), S \subseteq T
    PROVE  Down(n, T)
BY DEF Down

(* The clauses about the positions and the wire survive when the covering  *)
(* sets grow.                                                              *)
LEMMA StreamMono ==
    ASSUME NEW S, NEW H, NEW T, NEW G, S \subseteq T, H \subseteq G,
           NEW c, NEW a, NEW rq, NEW sn, NEW w, Stream(S, H, c, a, rq, sn, w)
    PROVE  Stream(T, G, c, a, rq, sn, w)
<1>1. Down(c, T) /\ Down(a, G) /\ Down(rq, T)
  BY DEF Stream, Down
<1>2. Laden(w, T, G)
  BY DEF Stream, Laden
<1>3. Sent(w, sn, G)
  BY DEF Stream, Sent
<1>4. QED
  BY <1>1, <1>2, <1>3 DEF Stream

(* How the covering sets contain each other and what they are made of.     *)
LEMMA Within ==
    /\ Loose \subseteq Safe /\ Safe \subseteq Held /\ InLane \subseteq Safe
    /\ Range(flush.ids) \subseteq Held /\ Range(pending) \subseteq Held
    /\ durable \subseteq Loose /\ failed \subseteq Loose /\ lost \subseteq Loose
    /\ Snap \subseteq Loose
    /\ \A i : i \in deferred /\ i \in InMemory => i \in Loose
    /\ \A i \in Ids : log[i].kind \in {"S", "X"} => i \in Loose
BY DEF Loose, Safe, Held, Unstored

(* Loose grows when history grows and a delta that leaves memory is stored *)
(* or has failed.                                                          *)
LEMMA LooseNext ==
    ASSUME log' = log, durable \subseteq durable', failed \subseteq failed', lost \subseteq lost',
           deferred \subseteq deferred', Snap \subseteq Snap' \cup durable',
           \A i \in InMemory : i \in InMemory' \/ i \in durable' \/ i \in failed'
    PROVE  Loose \subseteq Loose'
<1>1. Unstored' = Unstored
  BY DEF Unstored, Ids
<1>2. QED
  BY <1>1 DEF Loose

(* ... and so do Safe and Held, when what was in the lane, the batch or    *)
(* the queue is still accounted for.                                       *)
LEMMA HeldNext ==
    ASSUME Loose \subseteq Loose', InLane \subseteq Safe',
           \A i \in Range(flush.ids) \cup Range(pending) : i \in Held'
    PROVE  Safe \subseteq Safe' /\ Held \subseteq Held'
<1>1. Loose' \subseteq Safe' /\ Safe' \subseteq Held'
  BY DEF Safe, Held
<1>2. Safe \subseteq Safe'
  BY <1>1 DEF Safe
<1>3. QED
  BY <1>1, <1>2 DEF Held

(* What is in memory: the queue and the batch, or the bootstrap's queue    *)
(* while both are empty.                                                   *)
LEMMA MemoryIs ==
    ASSUME Core
    PROVE  /\ \A i : i \in InMemory <=> \/ i \in Range(pending) \/ i \in Range(flush.ids)
                                        \/ queue # NoQueue /\ i \in Range(queue)
           /\ queue # NoQueue => Range(flush.ids) = {} /\ Range(pending) = {}
                                 /\ queue \in Seq(1..head)
<1>1. \A i : i \in InMemory <=> \/ i \in Range(pending) \/ i \in Range(flush.ids)
                                \/ queue # NoQueue /\ i \in Range(queue)
  BY DEF InMemory
<1>2. queue # NoQueue => flush = Idle /\ pending = <<>> /\ queue \in Seq(1..head)
  BY DEF Core, RebuildGood, ClientTyped
<1>3. Idle.ids = <<>>
  BY DEF Idle
<1>4. QED
  BY <1>1, <1>2, <1>3, RangeEmpty

-----------------------------------------------------------------------------
(* Taking ids into memory.                                                 *)

(* Enqueueing a frame without a removal: its ids join the queue, or the    *)
(* queue with them becomes the batch.                                      *)
LEMMA TakenMoves ==
    ASSUME Core, NEW ids \in Seq(1..head), Removals(ids) = {}, Taken(ids)
    PROVE  \/ /\ flush' = flush
              /\ Range(pending') = Range(pending) \cup Range(ids)
           \/ /\ Range(flush.ids) = {} /\ Range(pending') = {}
              /\ Range(flush'.ids) = Range(pending) \cup Range(ids)
<1>1. /\ head \in Nat /\ \A i \in 1..head : log[i].row \in Row
      /\ pending \in Seq(1..head) /\ flush \in FlushType(head) /\ FlushGood(flush, log, failed, head)
  <2>1. \A i \in 1..head : log[i].row \in Row
    BY Rows DEF Core
  <2>2. QED
    BY <2>1, FlushFields
<1>2. Appended(ids) = pending \o ids /\ Running(ids) = flush
  BY <1>1, AppendedFacts DEF Running
<1> DEFINE p == pending \o ids
<1>3. p \in Seq(1..head) /\ Range(p) = Range(pending) \cup Range(ids)
  BY <1>1, RangeConcat
<1> HIDE DEF p
<1>4. FlushPendingDeltas(flush, p) \/ (pending' = p /\ flush' = flush)
  BY <1>2 DEF Taken, p
<1>5. CASE flush' = flush /\ pending' = p
  BY <1>3, <1>5
<1>6. CASE flush.phase = "idle" /\ p # <<>> /\ flush' = Detached(flush, p) /\ pending' = <<>>
  <2>1. Range(flush'.ids) = Range(p)
    BY <1>1, <1>3, <1>6, DetachedFacts
  <2>2. flush.ids = <<>>
    BY <1>1, <1>6 DEF FlushGood, BatchGood
  <2>3. QED
    BY <1>3, <1>6, <2>1, <2>2, RangeEmpty
<1>7. QED
  BY <1>4, <1>5, <1>6 DEF FlushPendingDeltas

(* The applied position after a frame is the old one or one of the frame's *)
(* ids.                                                                    *)
LEMMA AppliedOne ==
    ASSUME NEW h \in Nat, NEW ids \in Seq(1..h), NEW a \in 0..h
    PROVE  MaxOf(Range(ids) \cup {a}, 0) \in Range(ids) \cup {a}
<1> DEFINE T == Range(ids) \cup {a}
<1>1. T \in SUBSET (0..h) /\ T # {}
  <2>1. Range(ids) \subseteq 1..h
    BY RangeIn
  <2>2. QED
    BY <2>1
<1> HIDE DEF T
<1>2. MaxOf(T, 0) \in T
  BY <1>1, MaxOfMember
<1>3. QED
  BY <1>2 DEF T

(* A frame or a replayed queue is enqueued: if nothing unknown lies below  *)
(* its ids, the covering sets grow, its ids are in memory, and the batch,  *)
(* the queue and the applied position stay covered (enqueueDelta,          *)
(* replayQueuedDeltas).                                                    *)
LEMMA TakenCover ==
    ASSUME Core, Cover, NEW ids \in Seq(1..head), Removals(ids) = {}, Taken(ids), queue' = NoQueue,
           queue = NoQueue \/ ids = queue,
           \A j \in Range(ids) : Down(j, Held \cup Range(ids)),
           applied' = MaxOf(Range(ids) \cup {applied}, 0),
           log' = log, durable \subseteq durable', failed \subseteq failed', lost \subseteq lost',
           deferred \subseteq deferred', Snap \subseteq Snap' \cup durable',
           \A i \in InLane : i \in InLane'
    PROVE  /\ Loose \subseteq Loose' /\ Safe \subseteq Safe' /\ Held \subseteq Held'
           /\ \A i \in Range(ids) : i \in InMemory' /\ i \in Held'
           /\ Batches(Safe', Held', flush', pending', queue') /\ Down(applied', Held')
<1>1. \/ /\ flush' = flush
         /\ Range(pending') = Range(pending) \cup Range(ids)
      \/ /\ Range(flush.ids) = {} /\ Range(pending') = {}
         /\ Range(flush'.ids) = Range(pending) \cup Range(ids)
  BY TakenMoves
<1>2. \A i \in Range(flush.ids) \cup Range(pending) \cup Range(ids) :
          i \in Range(flush'.ids) \cup Range(pending')
  BY <1>1
<1>3. \A i : i \in Range(flush'.ids) \cup Range(pending') => i \in InMemory' /\ i \in Held'
  BY DEF InMemory, Held
<1>4. \A i \in InMemory : i \in InMemory'
  BY <1>2, <1>3, MemoryIs
<1>5. Loose \subseteq Loose'
  BY <1>4, LooseNext
<1>6. InLane \subseteq Safe'
  BY DEF Safe
<1>7. Safe \subseteq Safe' /\ Held \subseteq Held'
  BY <1>2, <1>3, <1>5, <1>6, HeldNext
<1>8. \A i \in Range(ids) : i \in InMemory' /\ i \in Held'
  BY <1>2, <1>3
<1>9. \A j \in Range(pending) \cup Range(ids) : Down(j, Held \cup Range(ids))
  BY DEF Cover, Batches, Down
<1>10. \A j \in Range(flush'.ids) : Down(j, Safe' \cup Range(flush'.ids))
  <2>1. CASE flush' = flush
    BY <1>7, <2>1 DEF Cover, Batches, Down
  <2>2. CASE /\ Range(flush.ids) = {}
             /\ Range(flush'.ids) = Range(pending) \cup Range(ids)
    <3>1. Held \cup Range(ids) \subseteq Safe' \cup Range(flush'.ids)
      BY <1>7, <2>2 DEF Held
    <3>2. QED
      BY <1>9, <2>2, <3>1 DEF Down
  <2>3. QED
    BY <1>1, <2>1, <2>2
<1>11. \A j \in Range(pending') : Down(j, Held')
  <2>1. Held \cup Range(ids) \subseteq Held'
    BY <1>7, <1>8
  <2>2. \A j \in Range(pending') : j \in Range(pending) \cup Range(ids)
    BY <1>1
  <2>3. QED
    BY <1>9, <2>1, <2>2 DEF Down
<1>12. Batches(Safe', Held', flush', pending', queue')
  BY <1>10, <1>11 DEF Batches
<1>13. Down(applied', Held')
  <2>1. applied' \in Range(ids) \cup {applied}
    BY FlushFields, AppliedOne
  <2>2. Down(applied, Held)
    BY DEF Cover, Stream
  <2>3. Held \cup Range(ids) \subseteq Held'
    BY <1>7, <1>8
  <2>4. QED
    BY <2>1, <2>2, <2>3, <1>7 DEF Down
<1>14. QED
  BY <1>5, <1>7, <1>8, <1>12, <1>13

(* The same when the frame is deferred behind a bootstrap, where its ids   *)
(* count as deferred and in memory.                                        *)
LEMMA DeferCover ==
    ASSUME Core, Cover, NEW ids \in Seq(1..head), queue # NoQueue, queue' = queue \o ids,
           UNCHANGED <<applied, pending, flush>>,
           \A j \in Range(ids) : Down(j, Held \cup Range(ids)), \A i \in Range(ids) : i \in deferred',
           log' = log, durable \subseteq durable', failed \subseteq failed', lost \subseteq lost',
           deferred \subseteq deferred', Snap \subseteq Snap' \cup durable',
           \A i \in InLane : i \in InLane'
    PROVE  /\ Loose \subseteq Loose' /\ Safe \subseteq Safe' /\ Held \subseteq Held'
           /\ \A i \in Range(ids) : i \in InMemory' /\ i \in Held'
           /\ Batches(Safe', Held', flush', pending', queue') /\ Down(applied', Held')
<1>1. /\ queue \in Seq(1..head) /\ Range(flush.ids) = {} /\ Range(pending) = {} /\ head \in Nat
  BY MemoryIs, FlushFields
<1>2. queue' \in Seq(1..head) /\ Range(queue') = Range(queue) \cup Range(ids) /\ queue' # NoQueue
  <2>1. queue' \in Seq(1..head) /\ Range(queue') = Range(queue) \cup Range(ids)
    BY <1>1, RangeConcat
  <2>2. QED
    BY <1>1, <2>1, NoQueueFacts
<1>3. \A i : i \in Range(queue') => i \in InMemory'
  BY <1>2 DEF InMemory
<1>4. \A i \in InMemory : i \in InMemory'
  BY <1>1, <1>2, <1>3, MemoryIs
<1>5. Loose \subseteq Loose'
  BY <1>4, LooseNext
<1>6. InLane \subseteq Safe'
  BY DEF Safe
<1>7. Safe \subseteq Safe' /\ Held \subseteq Held'
  BY <1>1, <1>5, <1>6, HeldNext
<1>8. \A i \in Range(ids) : i \in InMemory' /\ i \in Loose' /\ i \in Safe' /\ i \in Held'
  BY <1>2, <1>3 DEF Loose, Safe, Held
<1>9. Held \cup Range(ids) \subseteq Safe'
  BY <1>1, <1>7, <1>8 DEF Held
<1>10. \A j \in Range(queue') : Down(j, Safe')
  <2>1. \A j \in Range(queue) : Down(j, Safe)
    BY DEF Cover, Batches
  <2>2. QED
    BY <1>2, <1>7, <1>9, <2>1 DEF Down
<1>11. Batches(Safe', Held', flush', pending', queue')
  BY <1>1, <1>10 DEF Batches
<1>12. Down(applied', Held')
  BY <1>7 DEF Cover, Stream, Down
<1>13. QED
  BY <1>5, <1>7, <1>8, <1>11, <1>12

(* The same for a frame that is enqueued or deferred.                      *)
LEMMA TookCover ==
    ASSUME Core, Cover, NEW ids \in Seq(1..head), Took(ids), ~Incomplete',
           \A j \in Range(ids) : Down(j, Held \cup Range(ids)),
           queue # NoQueue => \A i \in Range(ids) : i \in deferred',
           log' = log, durable \subseteq durable', failed \subseteq failed', lost \subseteq lost',
           deferred \subseteq deferred', Snap \subseteq Snap' \cup durable',
           \A i \in InLane : i \in InLane'
    PROVE  /\ Loose \subseteq Loose' /\ Safe \subseteq Safe' /\ Held \subseteq Held'
           /\ \A i \in Range(ids) : i \in InMemory' /\ i \in Held'
           /\ Batches(Safe', Held', flush', pending', queue') /\ Down(applied', Held')
<1>1. CASE /\ queue # NoQueue /\ queue' = queue \o ids
           /\ UNCHANGED <<applied, revoke, rebuild, revokedAt, pending, timer, flush>>
  BY <1>1, DeferCover
<1>2. CASE /\ queue = NoQueue /\ queue' = queue
           /\ EnqueueSideEffects(ids) /\ Taken(ids) /\ timer' \in BOOLEAN
  <2>1. Removals(ids) = {} /\ applied' = MaxOf(Range(ids) \cup {applied}, 0)
    BY <1>2 DEF Incomplete, EnqueueSideEffects
  <2>2. QED
    BY <1>2, <2>1, TakenCover
<1>3. QED
  BY <1>1, <1>2 DEF Took

(* A step that leaves the wire and the bootstrap's queue alone keeps Cover *)
(* when the covering sets grow and the new positions are covered.          *)
LEMMA MoveCover ==
    ASSUME Cover, UNCHANGED <<request, sent, wire, queue>>,
           Loose \subseteq Loose', InLane \subseteq Safe',
           \A i \in Range(flush.ids) \cup Range(pending) : i \in Held',
           Down(cursor', Safe'), Down(applied', Held'),
           \A j \in Range(flush'.ids) : Down(j, Safe' \cup Range(flush'.ids)),
           \A j \in Range(pending') : j \in Range(pending) \cup Range(flush.ids),
           Jobs(Safe', Loose', lane')
    PROVE  Cover'
<1>1. Safe \subseteq Safe' /\ Held \subseteq Held'
  BY HeldNext
<1>2. Stream(Safe', Held', cursor', applied', request', sent', wire')
  BY <1>1, StreamMono DEF Cover, Stream
<1>3. \A j \in Range(pending') : Down(j, Held')
  <2>1. \A j \in Range(flush.ids) \cup Range(pending) : Down(j, Held)
    <3>1. Safe \cup Range(flush.ids) \subseteq Held
      BY DEF Held
    <3>2. QED
      BY <3>1 DEF Cover, Batches, Down
  <2>2. QED
    BY <1>1, <2>1 DEF Down
<1>4. queue' # NoQueue => \A j \in Range(queue') : Down(j, Safe')
  BY <1>1 DEF Cover, Batches, Down
<1>5. Batches(Safe', Held', flush', pending', queue')
  BY <1>3, <1>4 DEF Batches
<1>6. QED
  BY <1>2, <1>5 DEF Cover

-----------------------------------------------------------------------------
(* The wire.                                                               *)

(* Receiving the first frame keeps the clauses about the rest of the wire, *)
(* when the frame's ids are now in the client, and for a chunk safe.       *)
LEMMA WireTail ==
    ASSUME NEW A, NEW w \in Seq(A), w # <<>>, NEW S, NEW H, NEW T, NEW G,
           S \subseteq T, H \subseteq G, \A i \in Range(w[1].ids) : i \in G,
           w[1].type = "chunk" => \A i \in Range(w[1].ids) : i \in T
    PROVE  /\ Laden(w, S, H) => Laden(Tail(w), T, G)
           /\ \A n : Sent(w, n, H) => Sent(Tail(w), n, G)
<1> DEFINE u == Tail(w)
<1>1. /\ Len(u) = Len(w) - 1 /\ Len(w) \in Nat /\ 1 \in 1..Len(w)
      /\ \A k \in 1..Len(u) : u[k] = w[k + 1] /\ k + 1 \in 1..Len(w)
  BY TailFacts
<1> HIDE DEF u
<1>2. \A k \in 1..Len(u) : \A j \in 1..(k + 1) : j = 1 \/ (j - 1 \in 1..k /\ u[j - 1] = w[j])
  <2>1. SUFFICES ASSUME NEW k \in 1..Len(u), NEW j \in 1..(k + 1), j # 1
                 PROVE  j - 1 \in 1..k /\ u[j - 1] = w[j]
    OBVIOUS
  <2>2. j - 1 \in 1..k /\ j - 1 \in 1..Len(u) /\ (j - 1) + 1 = j
    BY <1>1, <2>1
  <2>3. QED
    BY <1>1, <2>2
<1>3. ASSUME Laden(w, S, H), NEW k \in 1..Len(u), NEW i \in 1..u[k].to
      PROVE  /\ u[k].type = "delta" => i \in G \/ \E j \in 1..k : i \in Range(u[j].ids)
             /\ u[k].type = "batch" => i \in T \/ i \in Range(u[k].ids)
             /\ u[k].type \in {"chunk", "end"} =>
                    i \in T \/ \E j \in 1..k : u[j].type = "chunk" /\ i \in Range(u[j].ids)
  <2>1. /\ u[k] = w[k + 1] /\ k + 1 \in 1..Len(w)
        /\ w[k + 1].type = "delta" => i \in H \/ \E j \in 1..(k + 1) : i \in Range(w[j].ids)
        /\ w[k + 1].type = "batch" => i \in S \/ i \in Range(w[k + 1].ids)
        /\ w[k + 1].type \in {"chunk", "end"} =>
               i \in S \/ \E j \in 1..(k + 1) : w[j].type = "chunk" /\ i \in Range(w[j].ids)
    BY <1>1, <1>3 DEF Laden
  <2>2. u[k].type = "delta" => i \in G \/ \E j \in 1..k : i \in Range(u[j].ids)
    BY <1>2, <2>1
  <2>3. u[k].type = "batch" => i \in T \/ i \in Range(u[k].ids)
    BY <2>1
  <2>4. u[k].type \in {"chunk", "end"} =>
            i \in T \/ \E j \in 1..k : u[j].type = "chunk" /\ i \in Range(u[j].ids)
    BY <1>2, <2>1
  <2>5. QED
    BY <2>2, <2>3, <2>4
<1>4. ASSUME NEW n, Sent(w, n, H), NEW i \in 1..n
      PROVE  i \in G \/ \E j \in 1..Len(u) : i \in Range(u[j].ids)
  <2>1. i \in H \/ \E j \in 1..Len(w) : i \in Range(w[j].ids)
    BY <1>4 DEF Sent
  <2>2. ASSUME NEW j \in 1..Len(w), i \in Range(w[j].ids)
        PROVE  i \in G \/ \E m \in 1..Len(u) : i \in Range(u[m].ids)
    <3>1. CASE j = 1
      BY <2>2, <3>1
    <3>2. CASE j # 1
      <4>1. j - 1 \in 1..Len(u) /\ (j - 1) + 1 = j
        BY <1>1, <2>2, <3>2
      <4>2. u[j - 1] = w[j]
        BY <1>1, <4>1
      <4>3. QED
        BY <2>2, <4>1, <4>2
    <3>3. QED
      BY <3>1, <3>2
  <2>3. QED
    BY <2>1, <2>2
<1>5. Laden(w, S, H) => Laden(u, T, G)
  BY <1>3 DEF Laden
<1>6. \A n : Sent(w, n, H) => Sent(u, n, G)
  BY <1>4 DEF Sent
<1>7. QED
  BY <1>5, <1>6 DEF u

(* An answer that is covered by itself can be appended to the wire.        *)
LEMMA WireConcat ==
    ASSUME NEW A, NEW w \in Seq(A), NEW X \in Seq(A), NEW S, NEW H,
           Laden(w, S, H), Laden(X, S, H)
    PROVE  /\ Laden(w \o X, S, H)
           /\ \A n : Sent(X, n, H) => Sent(w \o X, n, H)
<1> DEFINE u == w \o X
           m == Len(w)
<1>1. /\ m \in Nat /\ Len(X) \in Nat /\ Len(u) = m + Len(X)
      /\ \A k \in 1..m : u[k] = w[k]
      /\ \A k \in 1..Len(X) : u[k + m] = X[k]
  <2>1. Len(u) = m + Len(X) /\ m \in Nat /\ Len(X) \in Nat
    BY LenProperties, ConcatProperties
  <2>2. \A k \in 1..m : u[k] = w[k]
    OBVIOUS
  <2>3. \A k \in 1..Len(X) : u[k + m] = X[k]
    BY <2>1
  <2>4. QED
    BY <2>1, <2>2, <2>3
<1>2. Laden(w, S, H) /\ Laden(X, S, H)
  OBVIOUS
<1> HIDE DEF u, m
<1>3. ASSUME NEW k \in 1..Len(u), NEW i \in 1..u[k].to
      PROVE  /\ u[k].type = "delta" => i \in H \/ \E j \in 1..k : i \in Range(u[j].ids)
             /\ u[k].type = "batch" => i \in S \/ i \in Range(u[k].ids)
             /\ u[k].type \in {"chunk", "end"} =>
                    i \in S \/ \E j \in 1..k : u[j].type = "chunk" /\ i \in Range(u[j].ids)
  <2>1. CASE k \in 1..m
    <3>1. u[k] = w[k] /\ \A j \in 1..k : u[j] = w[j]
      BY <1>1, <2>1
    <3>2. k \in 1..Len(w) /\ i \in 1..w[k].to
      BY <2>1, <3>1 DEF m
    <3>3. /\ w[k].type = "delta" => i \in H \/ \E j \in 1..k : i \in Range(w[j].ids)
          /\ w[k].type = "batch" => i \in S \/ i \in Range(w[k].ids)
          /\ w[k].type \in {"chunk", "end"} =>
                 i \in S \/ \E j \in 1..k : w[j].type = "chunk" /\ i \in Range(w[j].ids)
      BY <1>2, <3>2 DEF Laden
    <3>4. QED
      BY <3>1, <3>3
  <2>2. CASE k \notin 1..m
    <3>1. k - m \in 1..Len(X) /\ (k - m) + m = k
      BY <1>1, <2>2
    <3>2. u[k] = X[k - m]
      BY <1>1, <3>1
    <3>3. \A j \in 1..(k - m) : j + m \in 1..k /\ u[j + m] = X[j]
      BY <1>1, <3>1
    <3>4. /\ X[k - m].type = "delta" => i \in H \/ \E j \in 1..(k - m) : i \in Range(X[j].ids)
          /\ X[k - m].type = "batch" => i \in S \/ i \in Range(X[k - m].ids)
          /\ X[k - m].type \in {"chunk", "end"} =>
                 i \in S \/ \E j \in 1..(k - m) : X[j].type = "chunk" /\ i \in Range(X[j].ids)
      BY <1>2, <3>1, <3>2 DEF Laden
    <3>5. QED
      BY <3>2, <3>3, <3>4
  <2>3. QED
    BY <2>1, <2>2
<1>4. ASSUME NEW n, Sent(X, n, H), NEW i \in 1..n
      PROVE  i \in H \/ \E j \in 1..Len(u) : i \in Range(u[j].ids)
  <2>1. i \in H \/ \E j \in 1..Len(X) : i \in Range(X[j].ids)
    BY <1>4 DEF Sent
  <2>2. \A j \in 1..Len(X) : j + m \in 1..Len(u) /\ u[j + m] = X[j]
    BY <1>1
  <2>3. QED
    BY <2>1, <2>2
<1>5. Laden(u, S, H)
  BY <1>3 DEF Laden
<1>6. \A n : Sent(X, n, H) => Sent(u, n, H)
  BY <1>4 DEF Sent
<1>7. QED
  BY <1>5, <1>6 DEF u

(* A live delta can be appended to the wire of a connection to which       *)
(* everything before it has been sent.                                     *)
LEMMA WireLive ==
    ASSUME NEW A, NEW w \in Seq(A), NEW n \in Nat, NEW f, f.type = "delta", f.to = n + 1,
           n + 1 \in Range(f.ids), NEW S, NEW H, Laden(w, S, H), Sent(w, n, H)
    PROVE  Laden(Append(w, f), S, H) /\ Sent(Append(w, f), n + 1, H)
<1> DEFINE u == Append(w, f)
           m == Len(w)
<1>1. m \in Nat /\ Len(u) = m + 1 /\ u[m + 1] = f /\ \A k \in 1..m : u[k] = w[k]
  OBVIOUS
<1>2. Laden(w, S, H) /\ Sent(w, n, H)
  OBVIOUS
<1> HIDE DEF u
<1>3. ASSUME NEW i \in 1..(n + 1) PROVE i \in H \/ \E j \in 1..(m + 1) : i \in Range(u[j].ids)
  <2>1. CASE i \in 1..n
    <3>1. i \in H \/ \E j \in 1..m : i \in Range(w[j].ids)
      BY <1>2, <2>1 DEF Sent
    <3>2. QED
      BY <1>1, <3>1
  <2>2. CASE i = n + 1
    <3>1. m + 1 \in 1..(m + 1)
      BY <1>1
    <3>2. QED
      BY <1>1, <2>2, <3>1
  <2>3. QED
    BY <2>1, <2>2
<1> HIDE DEF m
<1>4. ASSUME NEW k \in 1..Len(u), NEW i \in 1..u[k].to
      PROVE  /\ u[k].type = "delta" => i \in H \/ \E j \in 1..k : i \in Range(u[j].ids)
             /\ u[k].type = "batch" => i \in S \/ i \in Range(u[k].ids)
             /\ u[k].type \in {"chunk", "end"} =>
                    i \in S \/ \E j \in 1..k : u[j].type = "chunk" /\ i \in Range(u[j].ids)
  <2>1. CASE k \in 1..m
    <3>1. u[k] = w[k] /\ \A j \in 1..k : u[j] = w[j]
      BY <1>1, <2>1
    <3>2. k \in 1..Len(w) /\ i \in 1..w[k].to
      BY <1>4, <2>1, <3>1 DEF m
    <3>3. /\ w[k].type = "delta" => i \in H \/ \E j \in 1..k : i \in Range(w[j].ids)
          /\ w[k].type = "batch" => i \in S \/ i \in Range(w[k].ids)
          /\ w[k].type \in {"chunk", "end"} =>
                 i \in S \/ \E j \in 1..k : w[j].type = "chunk" /\ i \in Range(w[j].ids)
      BY <1>2, <3>2 DEF Laden
    <3>4. QED
      BY <3>1, <3>3
  <2>2. CASE k = m + 1
    <3>1. u[k] = f /\ i \in 1..(n + 1)
      BY <1>1, <1>4, <2>2
    <3>2. i \in H \/ \E j \in 1..k : i \in Range(u[j].ids)
      BY <1>3, <2>2, <3>1
    <3>3. QED
      BY <3>1, <3>2
  <2>3. QED
    BY <1>1, <2>1, <2>2
<1>5. Laden(u, S, H)
  BY <1>4 DEF Laden
<1>6. Sent(u, n + 1, H)
  BY <1>1, <1>3 DEF Sent
<1>7. QED
  BY <1>5, <1>6 DEF u

(* The range of a one-element sequence.                                    *)
LEMMA RangeOne ==
    ASSUME NEW i \in Nat
    PROVE  <<i>> \in Seq({i}) /\ Range(<<i>>) = {i}
<1> DEFINE s == <<i>>
<1>1. s \in Seq({i}) /\ 1 \in 1..Len(s) /\ s[1] = i
  OBVIOUS
<1> HIDE DEF s
<1>2. i \in Range(s) /\ Range(s) \subseteq {i}
  BY <1>1, RangeIn
<1>3. QED
  BY <1>1, <1>2 DEF s

(* visibleIn lists the visible positions of a stretch of the log.          *)
LEMMA VisibleRange ==
    ASSUME NEW h \in Nat, NEW lo \in 0..h, NEW hi \in lo..h
    PROVE  Range(VisibleIn(lo, hi)) = {i \in (lo + 1)..hi : Visible(i)}
<1> DEFINE V == {i \in (lo + 1)..hi : Visible(i)}
<1>1. V \in SUBSET (1..h)
  OBVIOUS
<1> HIDE DEF V
<1>2. Range(InOrder(V)) = V
  BY <1>1, InOrderFacts
<1>3. QED
  BY <1>2 DEF V, VisibleIn

-----------------------------------------------------------------------------
(* The server and the connection.                                          *)

(* The covering sets depend on the client's queues and history only.       *)
LEMMA SameSets ==
    ASSUME UNCHANGED <<log, durable, failed, lost, deferred, pending, flush, queue, lane>>,
           Snap' = Snap
    PROVE  Loose' = Loose /\ Safe' = Safe /\ Held' = Held
<1>1. Unstored' = Unstored /\ InMemory' = InMemory /\ InLane' = InLane
  BY DEF Unstored, Ids, InMemory, InLane
<1>2. Loose' = Loose
  BY <1>1 DEF Loose
<1>3. Safe' = Safe
  BY <1>1, <1>2 DEF Safe
<1>4. QED
  BY <1>2, <1>3 DEF Held

(* The clauses of Cover, one by one.                                       *)
LEMMA CoverParts ==
    ASSUME Cover
    PROVE  /\ Down(cursor, Safe) /\ Down(applied, Held) /\ Down(request, Safe)
           /\ Laden(wire, Safe, Held) /\ Sent(wire, sent, Held)
           /\ \A j \in Range(flush.ids) : Down(j, Safe \cup Range(flush.ids))
           /\ \A j \in Range(pending) : Down(j, Held)
           /\ queue # NoQueue => \A j \in Range(queue) : Down(j, Safe)
           /\ Jobs(Safe, Loose, lane)
BY DEF Cover, Stream, Batches

(* The position -1 and the empty wire claim nothing.                       *)
LEMMA Nothing ==
    /\ \A S : Down(-1, S)
    /\ \A S, H : Laden(<<>>, S, H)
    /\ \A w, H : Sent(w, -1, H)
<1>1. 1..(-1) = {} /\ 1..Len(<<>>) = {}
  OBVIOUS
<1>2. QED
  BY <1>1 DEF Down, Laden, Sent

(* Only the server's side changes: the request, what was sent, the wire.   *)
LEMMA ServerCover ==
    ASSUME Cover, UNCHANGED <<log, durable, failed, lost, deferred, pending, flush, queue, lane>>,
           UNCHANGED <<cursor, applied>>, Snap' = Snap,
           Down(request', Safe), Laden(wire', Safe, Held), Sent(wire', sent', Held)
    PROVE  Cover'
<1>1. Loose' = Loose /\ Safe' = Safe /\ Held' = Held
  BY SameSets
<1>2. Stream(Safe', Held', cursor', applied', request', sent', wire')
  BY <1>1, CoverParts DEF Stream
<1>3. Batches(Safe', Held', flush', pending', queue') /\ Jobs(Safe', Loose', lane')
  BY <1>1 DEF Cover
<1>4. QED
  BY <1>2, <1>3 DEF Cover

(* Opening, polling, losing the connection, forcing a bootstrap and        *)
(* fetching its snapshot keep the invariant: a request starts at the       *)
(* cursor, which is covered, and a snapshot is taken past everything the   *)
(* client has.                                                             *)
LEMMA QuietCursor ==
    ASSUME CursorInv, Open \/ Poll \/ Drop \/ ForceFullRebootstrap \/ BootFetch \/ UNCHANGED vars
    PROVE  Side' /\ (Incomplete' \/ Cover')
<1>1. /\ UNCHANGED <<log, durable, failed, lost, deferred, pending, flush, queue, lane>>
      /\ UNCHANGED <<cursor, applied, rebuild, laneOk>>
      /\ \/ wire' = wire /\ sent' = sent /\ request' = request /\ link' = link
         \/ wire' = wire /\ sent' \in {sent, -1} /\ request' = cursor /\ link'
         \/ wire' = <<>> /\ sent' = -1 /\ request' = -1
      /\ \/ boot' = boot /\ snapshot' = snapshot
         \/ boot' = "fetching" /\ boot # "cleared"
         \/ boot = "fetching" /\ boot' = "fetched" /\ snapshot' = head
  BY DEF Open, Poll, Drop, ForceFullRebootstrap, BootFetch, Disconnected, PerformReconnect, vars,
         server, positions, queues, rebuilds, history
<1>2. Snap' = Snap
  BY <1>1 DEF Snap
<1>3. LinkGood' /\ LaneStopped' /\ LaneFront'
  BY <1>1 DEF CursorInv, Side, LinkGood, LaneStopped, LaneFront
<1>4. BootGood'
  <2>1. CASE (boot' = boot /\ snapshot' = snapshot) \/ (boot' = "fetching" /\ boot # "cleared")
    BY <1>1, <2>1 DEF CursorInv, Side, BootGood
  <2>2. CASE boot = "fetching" /\ boot' = "fetched" /\ snapshot' = head
    <3>1. /\ queue # NoQueue => ~rebuild /\ durable \subseteq 1..Start
      BY <2>2 DEF CursorInv, Side, BootGood
    <3>2. Start <= head /\ cursor <= head /\ applied <= head
      BY Rows, FlushFields DEF CursorInv, Core
    <3>3. \A k \in 1..Len(lane) : lane[k].position <= head
      <4> DEFINE J == JobType(head)
      <4>1. lane \in Seq(J) /\ \A e \in J : e.position <= head
        BY FlushFields DEF CursorInv, JobType
      <4> HIDE DEF J
      <4>2. \A k \in 1..Len(lane) : lane[k] \in J
        BY <4>1
      <4>3. QED
        BY <4>1, <4>2
    <3>4. QED
      BY <1>1, <2>2, <3>1, <3>2, <3>3 DEF BootGood
  <2>3. QED
    BY <1>1, <2>1, <2>2
<1>5. ASSUME ~Incomplete' PROVE Cover'
  <2>1. Cover
    BY <1>1, <1>5 DEF CursorInv, Incomplete
  <2>2. Down(request', Safe)
    BY <1>1, <2>1, CoverParts, Nothing
  <2>3. Laden(wire', Safe, Held)
    BY <1>1, <2>1, CoverParts, Nothing
  <2>4. Sent(wire', sent', Held)
    BY <1>1, <2>1, CoverParts, Nothing
  <2>5. QED
    BY <1>1, <1>2, <2>1, <2>2, <2>3, <2>4, ServerCover
<1>6. QED
  BY <1>3, <1>4, <1>5 DEF Side

(* Publishing a delta keeps the invariant: a live connection gets it after *)
(* everything below it, and a lost broadcast is known to be lost.          *)
LEMMA PublishCursor ==
    ASSUME CursorInv, Publish
    PROVE  Side' /\ (Incomplete' \/ Cover')
<1> DEFINE f == Frame("delta", <<head + 1>>, head + 1)
<1>0. Core
  BY DEF CursorInv
<1>1. /\ UNCHANGED <<log, link, request, durable, failed, deferred, pending, flush, queue, lane>>
      /\ UNCHANGED <<cursor, applied, rebuild, boot, snapshot, laneOk>>
      /\ \/ ~(link /\ sent = head) /\ wire' = wire /\ lost' = lost /\ sent' = sent
         \/ /\ link /\ sent = head /\ sent' = head + 1
            /\ \/ wire' = Append(wire, f) /\ lost' = lost
               \/ wire' = wire /\ lost' = lost \cup {head + 1}
               \/ ~Visible(head + 1) /\ wire' = wire /\ lost' = lost
  BY DEF Publish, positions, queues, rebuilds
<1>2. Side'
  BY <1>1 DEF CursorInv, Side, LinkGood, LaneStopped, LaneFront, BootGood
<1>3. ASSUME ~Incomplete' PROVE Cover'
  <2>1. Cover
    BY <1>1, <1>3 DEF CursorInv, Incomplete
  <2>2. head \in Nat /\ head + 1 \in Ids /\ wire \in Seq(OkFrames(head))
    <3>1. head \in Nat /\ head' = head + 1 /\ head' <= Len(log) /\ wire \in Seq(OkFrames(head))
      BY <1>0, PublishFacts
    <3>2. Len(log) \in Nat
      BY <1>0, Rows DEF Core
    <3>3. QED
      BY <3>1, <3>2 DEF Ids
  <2>3. Snap' = Snap /\ InMemory' = InMemory /\ InLane' = InLane
    BY <1>1 DEF Snap, InMemory, InLane
  <2>4. Loose \subseteq Loose'
    BY <1>1, <2>3, LooseNext
  <2>5. InLane \subseteq Safe' /\ \A i \in Range(flush.ids) \cup Range(pending) : i \in Held'
    BY <1>1, <2>3 DEF Safe, Held
  <2>6. Safe \subseteq Safe' /\ Held \subseteq Held'
    BY <2>4, <2>5, HeldNext
  <2>7. Stream(Safe', Held', cursor, applied, request, sent, wire)
    BY <2>1, <2>6, StreamMono DEF Cover
  <2>8. Laden(wire', Safe', Held') /\ Sent(wire', sent', Held')
    <3>1. CASE sent' = sent /\ wire' = wire
      BY <2>7, <3>1 DEF Stream
    <3>2. CASE sent = head /\ sent' = head + 1 /\ wire' = Append(wire, f)
      <4>1. f.type = "delta" /\ f.to = head + 1 /\ f.ids = <<head + 1>>
        BY DEF Frame
      <4>2. head + 1 \in Range(<<head + 1>>)
        BY <2>2, RangeOne
      <4> HIDE DEF f
      <4>3. QED
        BY <2>2, <2>7, <3>2, <4>1, <4>2, WireLive DEF Stream
    <3>3. CASE /\ sent = head /\ sent' = head + 1 /\ wire' = wire
               /\ ~Visible(head + 1) \/ head + 1 \in lost'
      <4>1. head + 1 \in Held'
        <5>1. CASE head + 1 \in lost'
          BY <5>1 DEF Loose, Safe, Held
        <5>2. CASE ~Visible(head + 1)
          <6>1. head + 1 \in Unstored'
            BY <1>1, <2>2, <5>2 DEF Unstored, Ids, Visible
          <6>2. QED
            BY <6>1 DEF Loose, Safe, Held
        <5>3. QED
          BY <3>3, <5>1, <5>2
      <4>2. \A i \in 1..(head + 1) : i \in 1..head \/ i = head + 1
        BY <2>2
      <4>3. QED
        BY <2>7, <3>3, <4>1, <4>2 DEF Stream, Sent
    <3>4. QED
      BY <1>1, <3>1, <3>2, <3>3
  <2>9. Jobs(Safe', Loose', lane')
    BY <1>1, <2>1, <2>4, <2>6 DEF Cover, Jobs, Down
  <2>10. Batches(Safe', Held', flush', pending', queue')
    BY <1>1, <2>1, <2>6 DEF Cover, Batches, Down
  <2>11. Stream(Safe', Held', cursor', applied', request', sent', wire')
    BY <1>1, <2>7, <2>8 DEF Stream
  <2>12. QED
    BY <2>9, <2>10, <2>11 DEF Cover
<1>4. QED
  BY <1>2, <1>3

(* An answer in one response brings every visible position between the     *)
(* request and its end.                                                    *)
LEMMA BatchLaden ==
    ASSUME NEW h \in Nat, NEW r \in 0..h, NEW S, NEW H, Down(r, S), S \subseteq H,
           \A i \in 1..h : Visible(i) \/ i \in S,
           NEW B, B.type = "batch", B.to = h, Range(B.ids) = {i \in (r + 1)..h : Visible(i)}
    PROVE  Laden(<<B>>, S, H) /\ Sent(<<B>>, h, H)
<1> DEFINE X == <<B>>
<1>1. Len(X) = 1 /\ X[1] = B /\ 1..Len(X) = {1}
  OBVIOUS
<1> HIDE DEF X
<1>2. ASSUME NEW i \in 1..h PROVE i \in S \/ i \in Range(B.ids)
  <2>1. i \in 1..r \/ i \in (r + 1)..h
    OBVIOUS
  <2>2. QED
    BY <2>1 DEF Down
<1>3. Laden(X, S, H)
  BY <1>1, <1>2 DEF Laden
<1>4. Sent(X, h, H)
  BY <1>1, <1>2 DEF Sent
<1>5. QED
  BY <1>3, <1>4 DEF X

(* A chunked answer brings them together: the chunk of a position comes no *)
(* later than any frame that claims it.                                    *)
LEMMA ChunksLaden ==
    ASSUME NEW h \in Nat, NEW r \in 0..h, NEW S, NEW H, Down(r, S), S \subseteq H,
           \A i \in 1..h : Visible(i) \/ i \in S,
           NEW X, Len(X) = h - r + 1,
           \A k \in 1..(h - r) : X[k].type = "chunk" /\ X[k].to = r + k
                                 /\ (Visible(r + k) => r + k \in Range(X[k].ids)),
           X[h - r + 1].type = "end", X[h - r + 1].to = h
    PROVE  Laden(X, S, H) /\ Sent(X, h, H)
<1>1. ASSUME NEW m \in 0..(h - r), NEW i \in 1..(r + m)
      PROVE  i \in S \/ \E j \in 1..m : X[j].type = "chunk" /\ i \in Range(X[j].ids)
  <2>1. CASE i \in 1..r
    BY <2>1 DEF Down
  <2>2. CASE i \notin 1..r
    <3>1. i - r \in 1..m /\ i - r \in 1..(h - r) /\ r + (i - r) = i /\ i \in 1..h
      BY <2>2
    <3>2. X[i - r].type = "chunk" /\ (Visible(i) => i \in Range(X[i - r].ids))
      BY <3>1
    <3>3. QED
      BY <3>1, <3>2
  <2>3. QED
    BY <2>1, <2>2
<1>2. ASSUME NEW k \in 1..Len(X), NEW i \in 1..X[k].to
      PROVE  /\ X[k].type \in {"chunk", "end"}
             /\ i \in S \/ \E j \in 1..k : X[j].type = "chunk" /\ i \in Range(X[j].ids)
  <2>1. CASE k \in 1..(h - r)
    <3>1. k \in 0..(h - r) /\ i \in 1..(r + k) /\ X[k].type = "chunk"
      BY <2>1, <1>2
    <3>2. QED
      BY <1>1, <3>1
  <2>2. CASE k = h - r + 1
    <3>1. h - r \in 0..(h - r) /\ i \in 1..(r + (h - r)) /\ X[k].type = "end"
      BY <2>2, <1>2
    <3>2. i \in S \/ \E j \in 1..(h - r) : X[j].type = "chunk" /\ i \in Range(X[j].ids)
      BY <1>1, <3>1
    <3>3. \A j \in 1..(h - r) : j \in 1..k
      BY <2>2
    <3>4. QED
      BY <3>1, <3>2, <3>3
  <2>3. QED
    BY <2>1, <2>2
<1>3. Laden(X, S, H)
  BY <1>2 DEF Laden
<1>4. Sent(X, h, H)
  <2>1. SUFFICES ASSUME NEW i \in 1..h PROVE i \in H \/ \E j \in 1..Len(X) : i \in Range(X[j].ids)
    BY DEF Sent
  <2>2. h - r \in 0..(h - r) /\ i \in 1..(r + (h - r)) /\ \A j \in 1..(h - r) : j \in 1..Len(X)
    OBVIOUS
  <2>3. QED
    BY <1>1, <2>2
<1>5. QED
  BY <1>3, <1>4

(* Either kind of answer, appended to the wire, is covered, and after it   *)
(* everything up to the head has been sent.                                *)
LEMMA AnswerLaden ==
    ASSUME Core, Answer, NEW S, NEW H, Down(request, S), S \subseteq H,
           \A i \in 1..head : Visible(i) \/ i \in S
    PROVE  \E X \in Seq(OkFrames(head)) :
               wire' = wire \o X /\ Laden(X, S, H) /\ Sent(X, head, H)
<1>1. head \in Nat /\ request \in 0..head /\ mode \in {"batch", "chunks"}
  BY Rows DEF Core, ServerTyped, Answer
<1> DEFINE O == OkFrames(head)
           B == Frame("batch", VisibleIn(request, head), head)
           n == head - request
           C == [k \in 1..n |-> Frame("chunk", VisibleIn(request + k - 1, request + k), request + k)]
           E == Frame("end", <<>>, head)
           X == IF mode = "batch" THEN <<B>> ELSE C \o <<E>>
<1>2. wire' = wire \o X
  BY DEF Answer
<1>3. X \in Seq(O)
  <2>1. CASE mode = "batch"
    <3>1. head \in request..head
      BY <1>1
    <3>2. B \in O
      BY <1>1, <3>1, SpanFrame
    <3> HIDE DEF B, O
    <3>3. QED
      BY <2>1, <3>2
  <2>2. CASE mode # "batch"
    <3>1. n \in Nat
      BY <1>1
    <3>2. ASSUME NEW k \in 1..n
          PROVE  Frame("chunk", VisibleIn(request + k - 1, request + k), request + k) \in O
      <4> DEFINE lo == request + k - 1
                 hi == request + k
      <4>1. lo \in 0..head /\ hi \in lo..head
        BY <1>1
      <4> HIDE DEF lo, hi
      <4>2. Frame("chunk", VisibleIn(lo, hi), hi) \in O
        BY <1>1, <4>1, SpanFrame
      <4>3. QED
        BY <4>2 DEF lo, hi
    <3>3. E \in O
      <4>1. head \in 0..head /\ head \in head..head
        BY <1>1
      <4>2. Frame("end", VisibleIn(head, head), head) \in O
        BY <1>1, <4>1, SpanFrame
      <4>3. VisibleIn(head, head) = <<>>
        <5> DEFINE s == VisibleIn(head, head)
        <5>1. Range(s) = {i \in (head + 1)..head : Visible(i)}
          BY <1>1, <4>1, VisibleRange
        <5>2. {i \in (head + 1)..head : Visible(i)} = {}
          BY <1>1
        <5>3. s \in Seq(1..head)
          BY <4>2 DEF OkFrames, FrameType, Frame
        <5> HIDE DEF s
        <5>4. Len(s) \in Nat /\ 1..Len(s) = {}
          BY <5>1, <5>2, <5>3, RangeIn
        <5>5. s = <<>>
          <6>1. Len(s) = 0
            BY <5>4
          <6>2. QED
            BY <5>3, <6>1, EmptySeq
        <5>6. QED
          BY <5>5 DEF s
      <4>4. QED
        BY <4>2, <4>3
    <3> HIDE DEF n
    <3>4. C \in Seq(O)
      BY <3>1, <3>2
    <3> HIDE DEF C, E, O
    <3>5. X = C \o <<E>>
      BY <2>2
    <3>6. QED
      BY <3>3, <3>4, <3>5
  <2>3. QED
    BY <2>1, <2>2
<1>4. Laden(X, S, H) /\ Sent(X, head, H)
  <2>1. CASE mode = "batch"
    <3>1. head \in request..head
      BY <1>1
    <3>2. Range(VisibleIn(request, head)) = {i \in (request + 1)..head : Visible(i)}
      BY <1>1, <3>1, VisibleRange
    <3>3. B.type = "batch" /\ B.to = head /\ Range(B.ids) = {i \in (request + 1)..head : Visible(i)}
      BY <3>2 DEF Frame
    <3> HIDE DEF B
    <3>4. Laden(<<B>>, S, H) /\ Sent(<<B>>, head, H)
      BY <1>1, <3>3, BatchLaden
    <3>5. QED
      BY <2>1, <3>4
  <2>2. CASE mode # "batch"
    <3>1. n \in Nat /\ n = head - request
      BY <1>1
    <3>2. ASSUME NEW k \in 1..n
          PROVE  /\ C[k].type = "chunk" /\ C[k].to = request + k
                 /\ Visible(request + k) => request + k \in Range(C[k].ids)
      <4> DEFINE lo == request + k - 1
                 hi == request + k
      <4>1. lo \in 0..head /\ hi \in lo..head /\ hi \in (lo + 1)..hi
        BY <1>1
      <4>2. C[k] = Frame("chunk", VisibleIn(lo, hi), hi)
        OBVIOUS
      <4> HIDE DEF lo, hi, C
      <4>3. Range(VisibleIn(lo, hi)) = {i \in (lo + 1)..hi : Visible(i)}
        BY <1>1, <4>1, VisibleRange
      <4>4. C[k].type = "chunk" /\ C[k].to = hi /\ C[k].ids = VisibleIn(lo, hi)
        BY <4>2 DEF Frame
      <4>5. QED
        BY <4>1, <4>3, <4>4 DEF hi
    <3>3. E.type = "end" /\ E.to = head
      BY DEF Frame
    <3>4. C \in Seq(Range(C)) /\ Len(C) = n
      BY <3>1 DEF Range
    <3> HIDE DEF n, C, E
    <3>5. /\ Len(C \o <<E>>) = n + 1 /\ (C \o <<E>>)[n + 1] = E
          /\ \A k \in 1..n : (C \o <<E>>)[k] = C[k]
      BY <3>1, <3>4
    <3>6. X = C \o <<E>>
      BY <2>2
    <3> HIDE DEF X
    <3>7. /\ Len(X) = head - request + 1
          /\ X[head - request + 1].type = "end" /\ X[head - request + 1].to = head
      BY <3>1, <3>3, <3>5, <3>6
    <3>8. \A k \in 1..(head - request) :
              X[k].type = "chunk" /\ X[k].to = request + k
              /\ (Visible(request + k) => request + k \in Range(X[k].ids))
      BY <3>1, <3>2, <3>5, <3>6
    <3>9. QED
      BY <1>1, <3>7, <3>8, ChunksLaden
  <2>3. QED
    BY <2>1, <2>2
<1> HIDE DEF X, O
<1>5. QED
  BY <1>2, <1>3, <1>4 DEF O

(* Answering a catch-up request keeps the invariant.                       *)
LEMMA AnswerCursor ==
    ASSUME CursorInv, Answer
    PROVE  Side' /\ (Incomplete' \/ Cover')
<1>0. Core
  BY DEF CursorInv
<1>1. /\ UNCHANGED <<log, durable, failed, lost, deferred, pending, flush, queue, lane>>
      /\ UNCHANGED <<cursor, applied, rebuild, boot, snapshot, link, laneOk>>
      /\ link /\ request' = -1 /\ sent' = head
  BY DEF Answer, positions, queues, rebuilds, history
<1>2. Side'
  BY <1>1 DEF CursorInv, Side, LinkGood, LaneStopped, LaneFront, BootGood
<1>3. ASSUME ~Incomplete' PROVE Cover'
  <2>1. Cover
    BY <1>1, <1>3 DEF CursorInv, Incomplete
  <2>2. \A i \in 1..head : Visible(i) \/ i \in Safe
    <3>1. \A i \in 1..head : i \in Ids
      BY <1>0, Rows DEF Core
    <3>2. QED
      BY <3>1, Within DEF Visible
  <2>3. Down(request, Safe) /\ Laden(wire, Safe, Held) /\ Safe \subseteq Held
    BY <2>1, CoverParts, Within
  <2>4. PICK X \in Seq(OkFrames(head)) :
            wire' = wire \o X /\ Laden(X, Safe, Held) /\ Sent(X, head, Held)
    BY <1>0, <2>2, <2>3, AnswerLaden
  <2>5. wire \in Seq(OkFrames(head))
    BY <1>0, Rows, WireOk DEF Core, ServerTyped
  <2>6. Laden(wire', Safe, Held) /\ Sent(wire', sent', Held)
    BY <1>1, <2>3, <2>4, <2>5, WireConcat
  <2>7. Snap' = Snap
    BY <1>1 DEF Snap
  <2>8. QED
    BY <1>1, <2>1, <2>6, <2>7, Nothing, ServerCover
<1>4. QED
  BY <1>2, <1>3

-----------------------------------------------------------------------------
(* Receiving a frame.                                                      *)

(* A received frame keeps Cover when its ids are now accounted for and the *)
(* client's clauses hold.                                                  *)
LEMMA ReceivedCover ==
    ASSUME Core, Cover, wire # <<>>, wire' = Tail(wire), UNCHANGED <<request, sent>>,
           Safe \subseteq Safe', Held \subseteq Held',
           \A i \in Range(Head(wire).ids) : i \in Held',
           Head(wire).type = "chunk" => \A i \in Range(Head(wire).ids) : i \in Safe',
           Down(cursor', Safe'), Down(applied', Held'),
           Batches(Safe', Held', flush', pending', queue'), Jobs(Safe', Loose', lane')
    PROVE  Cover'
<1>1. Head(wire) = wire[1] /\ wire \in Seq(OkFrames(head))
  BY HeadFrame, Rows, WireOk DEF Core, ServerTyped
<1>2. Laden(wire', Safe', Held') /\ Sent(wire', sent', Held')
  BY <1>1, CoverParts, WireTail
<1>3. Down(request', Safe')
  BY CoverParts, DownMono
<1>4. Stream(Safe', Held', cursor', applied', request', sent', wire')
  BY <1>2, <1>3 DEF Stream
<1>5. QED
  BY <1>4 DEF Cover

(* What the first frame of the wire may claim: nothing unknown lies below  *)
(* a delta or a batch; an empty response and a chunk cover everything to   *)
(* their end.                                                              *)
LEMMA FrameLaden ==
    ASSUME Core, Cover, wire # <<>>
    PROVE  LET f == Head(wire)
           IN  /\ f.type \in {"delta", "batch"} =>
                    \A j \in Range(f.ids) : Down(j, Held \cup Range(f.ids))
               /\ f.type = "batch" /\ f.ids = <<>> => Down(f.to, Safe)
               /\ f.type \in {"chunk", "end"} => Down(f.to, Safe \cup Range(f.ids))
               /\ \A j \in Range(f.ids) : j \in 1..f.to
               /\ f.to \in 0..head
<1> DEFINE f == Head(wire)
<1>1. f = wire[1] /\ 1 \in 1..Len(wire) /\ f \in OkFrames(head) /\ f.to \in 0..head
  BY HeadFrame
<1>2. head \in Nat
  BY FlushFields
<1>3. \A j \in Range(f.ids) : j \in 1..f.to
  <2>1. Spans(f)
    BY <1>1 DEF OkFrames
  <2>2. PICK lo \in 0..f.to : Range(f.ids) = {i \in (lo + 1)..f.to : Visible(i)}
    BY <2>1 DEF Spans
  <2>3. QED
    BY <1>1, <1>2, <2>2
<1> HIDE DEF f
<1>4. ASSUME NEW i \in 1..f.to
      PROVE  /\ f.type = "delta" => i \in Held \/ i \in Range(f.ids)
             /\ f.type = "batch" => i \in Safe \/ i \in Range(f.ids)
             /\ f.type \in {"chunk", "end"} => i \in Safe \/ i \in Range(f.ids)
  <2>1. Laden(wire, Safe, Held)
    BY CoverParts
  <2>2. i \in 1..wire[1].to
    BY <1>1, <1>4
  <2>3. /\ wire[1].type = "delta" => i \in Held \/ \E j \in 1..1 : i \in Range(wire[j].ids)
        /\ wire[1].type = "batch" => i \in Safe \/ i \in Range(wire[1].ids)
        /\ wire[1].type \in {"chunk", "end"} =>
                i \in Safe \/ \E j \in 1..1 : wire[j].type = "chunk" /\ i \in Range(wire[j].ids)
    BY <1>1, <2>1, <2>2 DEF Laden
  <2>4. \A j \in 1..1 : j = 1
    OBVIOUS
  <2>5. QED
    BY <1>1, <2>3, <2>4
<1>5. ASSUME f.type \in {"delta", "batch"}, NEW j \in Range(f.ids), NEW i \in 1..j
      PROVE  i \in Held \cup Range(f.ids)
  <2>1. i \in 1..f.to
    BY <1>1, <1>2, <1>3, <1>5
  <2>2. QED
    BY <1>4, <1>5, <2>1, Within
<1>6. f.type = "batch" /\ f.ids = <<>> => Down(f.to, Safe)
  BY <1>4, RangeEmpty DEF Down
<1>7. f.type \in {"chunk", "end"} => Down(f.to, Safe \cup Range(f.ids))
  BY <1>4 DEF Down
<1>8. f.type \in {"delta", "batch"} => \A j \in Range(f.ids) : Down(j, Held \cup Range(f.ids))
  BY <1>5 DEF Down
<1>9. QED
  BY <1>1, <1>3, <1>6, <1>7, <1>8 DEF f

(* The clauses about the lane survive when the covering sets grow.         *)
LEMMA JobsMono ==
    ASSUME NEW S, NEW T, NEW L, NEW M, S \subseteq T, L \subseteq M, NEW l, Jobs(S, L, l)
    PROVE  Jobs(T, M, l)
BY DEF Jobs, Down

(* A new job whose position is covered can join the lane.                  *)
LEMMA JobsAppend ==
    ASSUME NEW J, NEW l \in Seq(J), NEW j \in J, j.state = "new", NEW S, NEW L, Jobs(S, L, l),
           Down(j.position, S)
    PROVE  Jobs(S, L, Append(l, j))
<1> DEFINE u == Append(l, j)
           m == Len(l)
<1>1. m \in Nat /\ Len(u) = m + 1 /\ u[m + 1] = j /\ \A k \in 1..m : u[k] = l[k]
  OBVIOUS
<1>2. \A k \in 1..m : /\ Down(l[k].position, S)
                      /\ l[k].state # "new" => \A i \in Range(l[k].ids) : i \in L
  BY DEF Jobs
<1> HIDE DEF u, m
<1>3. ASSUME NEW k \in 1..Len(u)
      PROVE  /\ Down(u[k].position, S)
             /\ u[k].state # "new" => \A i \in Range(u[k].ids) : i \in L
  <2>1. k \in 1..m \/ k = m + 1
    BY <1>1
  <2>2. QED
    BY <1>1, <1>2, <2>1
<1>4. Jobs(S, L, u)
  BY <1>3 DEF Jobs
<1>5. QED
  BY <1>4 DEF u

(* A live delta is skipped because it is at or below the applied position, *)
(* or taken.                                                               *)
LEMMA LiveCases ==
    ASSUME NEW id \in Nat, timer \in BOOLEAN, ReceiveLive(id)
    PROVE  \/ /\ id <= applied
              /\ UNCHANGED <<applied, revoke, rebuild, revokedAt, deferred, queue, pending, timer,
                             flush>>
           \/ /\ Took(<<id>>) /\ deferred \subseteq deferred'
              /\ queue # NoQueue => id \in deferred'
<1>1. CASE id > applied /\ queue # NoQueue /\ Defer(<<id>>) /\ deferred' = deferred \cup {id}
  BY <1>1 DEF Took, Defer
<1>2. CASE /\ id > applied /\ queue = NoQueue
           /\ EnqueueSideEffects(<<id>>)
           /\ UNCHANGED <<queue, deferred>>
           /\ LET p == Appended(<<id>>)
              IN  IF IsRemoval(id)
                  THEN pending' = p /\ flush' = Running(<<id>>) /\ UNCHANGED timer
                  ELSE IF Len(p) >= MaxBatchSize
                  THEN FlushPendingDeltas(flush, p) /\ timer' = FALSE
                  ELSE pending' = p /\ timer' = TRUE /\ UNCHANGED flush
  <2>1. ~IsRemoval(id) => Running(<<id>>) = flush
    <3>1. ASSUME ~IsRemoval(id) PROVE Removals(<<id>>) = {}
      BY <3>1 DEF Removals
    <3>2. QED
      BY <3>1 DEF Running
  <2>2. Taken(<<id>>) /\ timer' \in BOOLEAN
    BY <1>2, <2>1 DEF Taken
  <2>3. QED
    BY <1>2, <2>2 DEF Took
<1>3. QED
  BY <1>1, <1>2 DEF ReceiveLive

(* A frame is skipped, taken, adopted as the new position, or joins the    *)
(* catch-up lane.                                                          *)
LEMMA ReceiveCases ==
    ASSUME Core, Receive
    PROVE  LET f == Head(wire)
               job == [ids |-> f.ids, position |-> f.to, state |-> "new"]
           IN  \/ /\ f.type = "delta" /\ f.to <= applied /\ Range(f.ids) = {f.to}
                  /\ UNCHANGED <<cursor, lane, lost, applied, deferred, queue, pending, flush>>
               \/ /\ f.type \in {"delta", "batch"} /\ Took(f.ids) /\ deferred \subseteq deferred'
                  /\ queue # NoQueue => \A i \in Range(f.ids) : i \in deferred'
                  /\ UNCHANGED <<cursor, lane, lost>>
               \/ /\ f.type = "batch" /\ f.ids = <<>> /\ cursor' = f.to
                  /\ UNCHANGED <<lane, lost, applied, deferred, queue, pending, flush>>
               \/ /\ f.type \in {"chunk", "end"}
                  /\ \/ lane' = Append(lane, job) /\ lost' = lost
                     \/ lost' = lost \cup Range(f.ids) /\ lane' = lane
                  /\ UNCHANGED <<cursor, applied, deferred, queue, pending, flush>>
<1> DEFINE f == Head(wire)
           job == [ids |-> f.ids, position |-> f.to, state |-> "new"]
<1>0. timer \in BOOLEAN /\ head \in Nat
  BY FlushFields
<1>1. link /\ wire # <<>>
  BY DEF Receive
<1>2. CASE f.type = "delta" /\ ReceiveLive(f.ids[1]) /\ UNCHANGED <<cursor, lane, lost>>
  <2>1. f.ids = <<f.to>> /\ f.to \in 0..head
    BY <1>1, <1>2, HeadFrame DEF OkFrames
  <2>2. f.ids[1] = f.to /\ f.to \in Nat
    BY <1>0, <2>1
  <2>3. Range(f.ids) = {f.to}
    BY <2>1, <2>2, RangeOne
  <2>4. \/ /\ f.to <= applied
           /\ UNCHANGED <<applied, revoke, rebuild, revokedAt, deferred, queue, pending, timer,
                          flush>>
        \/ /\ Took(<<f.to>>) /\ deferred \subseteq deferred'
           /\ queue # NoQueue => f.to \in deferred'
    BY <1>0, <1>2, <2>2, LiveCases
  <2>5. QED
    BY <1>2, <2>1, <2>3, <2>4
<1>3. CASE /\ f.type = "batch" /\ f.ids # <<>> /\ ReceiveFrame(f.ids)
           /\ deferred' = IF queue = NoQueue THEN deferred ELSE deferred \cup Range(f.ids)
           /\ UNCHANGED <<cursor, lane, lost>>
  BY <1>0, <1>3, TookFrame
<1>4. CASE /\ f.type = "batch" /\ f.ids = <<>> /\ cursor' = f.to
           /\ UNCHANGED <<applied, revoke, rebuild, revokedAt, deferred, queue, pending,
                          timer, flush, lane, lost>>
  BY <1>4
<1>5. CASE /\ f.type \in {"chunk", "end"}
           /\ IF laneOk
                 THEN /\ lane' = Append(lane, job)
                      /\ lost' = lost
                 ELSE lost' = lost \cup Range(f.ids) /\ lane' = lane
           /\ UNCHANGED <<cursor, applied, revoke, rebuild, revokedAt, deferred, queue,
                          pending, timer, flush>>
  BY <1>5
<1>6. QED
  BY <1>2, <1>3, <1>4, <1>5 DEF Receive

(* The ids in the lane after a job has joined it.                          *)
LEMMA LaneGrows ==
    ASSUME NEW J, lane \in Seq(J), NEW j \in J, lane' = Append(lane, j)
    PROVE  InLane' = InLane \cup Range(j.ids)
<1> DEFINE m == Len(lane)
<1>1. /\ m \in Nat /\ Len(lane') = m + 1 /\ lane'[m + 1] = j
      /\ \A k \in 1..m : lane'[k] = lane[k]
  OBVIOUS
<1>2. 1..(m + 1) = 1..m \cup {m + 1}
  BY <1>1
<1>3. InLane' = UNION {Range(lane'[k].ids) : k \in 1..(m + 1)}
  BY <1>1 DEF InLane
<1>4. \A i : i \in InLane' <=> (\E k \in 1..m : i \in Range(lane[k].ids)) \/ i \in Range(j.ids)
  BY <1>1, <1>2, <1>3
<1>5. \A i : i \in InLane <=> \E k \in 1..m : i \in Range(lane[k].ids)
  BY DEF InLane
<1>6. QED
  BY <1>4, <1>5

(* Receiving a frame keeps the clauses about the link, the lane and the    *)
(* bootstrap.                                                              *)
LEMMA ReceiveSide ==
    ASSUME CursorInv, Receive
    PROVE  Side'
<1> DEFINE f == Head(wire)
           job == [ids |-> f.ids, position |-> f.to, state |-> "new"]
<1>0. Core
  BY DEF CursorInv
<1>1. /\ link /\ link' /\ wire # <<>> /\ UNCHANGED <<boot, snapshot, durable, laneOk>>
      /\ Took(f.ids) \/ Untouched
      /\ lane' = lane \/ lane' = Append(lane, job)
  BY <1>0, ReceiveFacts
<1>2. LinkGood' /\ LaneStopped'
  <2>1. laneOk \/ lane' = lane
    BY DEF Receive
  <2>2. QED
    BY <1>1, <2>1 DEF CursorInv, Side, LinkGood, LaneStopped
<1>3. LaneFront'
  <2>1. /\ \A i \in Range(f.ids) : i \in 1..f.to
        /\ f.to \in 0..head /\ f.ids \in Seq(1..head) /\ head \in Nat
    <3>1. /\ f \in OkFrames(head) /\ head \in Nat
      BY <1>0, <1>1, HeadFrame, FlushFields
    <3>2. /\ f.ids \in Seq(1..head) /\ f.to \in 0..head
          /\ \A i \in Range(f.ids) : i \in 1..head /\ i <= f.to
      BY <3>1, FrameIds
    <3>3. QED
      BY <3>1, <3>2
  <2>2. /\ job.state = "new" /\ \A i \in Range(job.ids) : i <= job.position
        /\ job \in JobType(head) /\ lane \in Seq(JobType(head))
    BY <1>0, <2>1, FlushFields DEF JobType
  <2>3. \A k \in 1..Len(lane) : /\ lane[k].state # "new" => k = 1
                                /\ \A i \in Range(lane[k].ids) : i <= lane[k].position
    BY DEF CursorInv, Side, LaneFront
  <2>4. CASE lane' = lane
    BY <2>3, <2>4 DEF LaneFront
  <2>5. CASE lane' = Append(lane, job)
    <3> HIDE DEF job
    <3>1. /\ Len(lane) \in Nat /\ Len(lane') = Len(lane) + 1 /\ lane'[Len(lane) + 1] = job
          /\ \A k \in 1..Len(lane) : lane'[k] = lane[k]
      BY <2>2, <2>5
    <3>2. ASSUME NEW k \in 1..Len(lane')
          PROVE  /\ lane'[k].state # "new" => k = 1
                 /\ \A i \in Range(lane'[k].ids) : i <= lane'[k].position
      <4>1. k \in 1..Len(lane) \/ k = Len(lane) + 1
        BY <3>1
      <4>2. QED
        BY <2>2, <2>3, <3>1, <4>1
    <3>3. QED
      BY <3>2 DEF LaneFront
  <2>6. QED
    BY <1>1, <2>4, <2>5
<1>4. BootGood'
  <2>1. boot = "idle" \/ queue # NoQueue
    BY <1>0, <1>1 DEF Core, RebuildGood
  <2>2. f.ids \in Seq(1..head)
    BY <1>0, <1>1, HeadFrame
  <2>3. queue' = NoQueue <=> queue = NoQueue
    BY <1>0, <1>1, <2>2, TookFacts
  <2>4. queue # NoQueue => rebuild' = rebuild
    BY <1>1 DEF Took, Untouched
  <2>5. QED
    BY <1>1, <2>1, <2>3, <2>4 DEF CursorInv, Side, BootGood
<1>5. QED
  BY <1>2, <1>3, <1>4 DEF Side

(* Receiving a frame keeps the invariant. A skipped delta is at or below   *)
(* the applied position and so already held; an empty response may move    *)
(* the cursor, because it had nothing visible to bring; a chunk joins the  *)
(* lane or is known to be lost.                                            *)
LEMMA ReceiveCursor ==
    ASSUME CursorInv, Receive
    PROVE  Side' /\ (Incomplete' \/ Cover')
<1> DEFINE f == Head(wire)
           job == [ids |-> f.ids, position |-> f.to, state |-> "new"]
<1>0. Core
  BY DEF CursorInv
<1>1. /\ wire # <<>> /\ wire' = Tail(wire) /\ UNCHANGED <<log, boot, snapshot, durable, failed>>
      /\ UNCHANGED <<request, sent>> /\ (Took(f.ids) \/ Untouched)
  BY <1>0, ReceiveFacts
<1>2. f.ids \in Seq(1..head) /\ lane \in Seq(JobType(head)) /\ job \in JobType(head)
  BY <1>0, <1>1, HeadFrame, FlushFields DEF JobType
<1>3. ASSUME ~Incomplete' PROVE Cover'
  <2>1. Cover
    <3>1. (queue' = NoQueue <=> queue = NoQueue) /\ (rebuild => rebuild')
      BY <1>0, <1>1, <1>2, TookFacts
    <3>2. QED
      BY <1>3, <3>1 DEF CursorInv, Incomplete
  <2>2. /\ f.type \in {"delta", "batch"} => \A j \in Range(f.ids) : Down(j, Held \cup Range(f.ids))
        /\ f.type = "batch" /\ f.ids = <<>> => Down(f.to, Safe)
        /\ f.type \in {"chunk", "end"} => Down(f.to, Safe \cup Range(f.ids))
        /\ \A j \in Range(f.ids) : j \in 1..f.to
        /\ f.to \in 0..head
    BY <1>0, <1>1, <2>1, FrameLaden
  <2>3. Snap' = Snap
    BY <1>1 DEF Snap
  <2>4. job.ids = f.ids /\ job.position = f.to /\ job.state = "new"
    OBVIOUS
  <2>5. \/ /\ f.type = "delta" /\ f.to <= applied /\ Range(f.ids) = {f.to}
           /\ UNCHANGED <<cursor, lane, lost, applied, deferred, queue, pending, flush>>
        \/ /\ f.type \in {"delta", "batch"} /\ Took(f.ids) /\ deferred \subseteq deferred'
           /\ queue # NoQueue => \A i \in Range(f.ids) : i \in deferred'
           /\ UNCHANGED <<cursor, lane, lost>>
        \/ /\ f.type = "batch" /\ f.ids = <<>> /\ cursor' = f.to
           /\ UNCHANGED <<lane, lost, applied, deferred, queue, pending, flush>>
        \/ /\ f.type \in {"chunk", "end"}
           /\ \/ lane' = Append(lane, job) /\ lost' = lost
              \/ lost' = lost \cup Range(f.ids) /\ lane' = lane
           /\ UNCHANGED <<cursor, applied, deferred, queue, pending, flush>>
    BY <1>0, ReceiveCases
  <2> HIDE DEF job
  <2>6. CASE /\ f.type \in {"delta", "batch"}
             /\ f.ids = <<>> \/ (Range(f.ids) = {f.to} /\ f.to <= applied)
             /\ cursor' = cursor \/ (f.type = "batch" /\ f.ids = <<>> /\ cursor' = f.to)
             /\ UNCHANGED <<lane, lost, applied, deferred, queue, pending, flush>>
    <3>1. Loose' = Loose /\ Safe' = Safe /\ Held' = Held
      BY <1>1, <2>3, <2>6, SameSets
    <3>2. \A i \in Range(f.ids) : i \in Held
      <4>1. applied \in Int /\ f.to \in Int
        <5>1. applied \in 0..head /\ f.to \in 0..head /\ head \in Nat
          BY <1>0, <2>2, FlushFields
        <5>2. QED
          BY <5>1
      <4>2. CASE f.ids = <<>>
        BY <4>2, RangeEmpty
      <4>3. CASE Range(f.ids) = {f.to} /\ f.to <= applied
        <5>1. f.to \in 1..applied
          BY <2>2, <4>1, <4>3
        <5>2. Down(applied, Held)
          BY <2>1, CoverParts
        <5>3. QED
          BY <4>3, <5>1, <5>2 DEF Down
      <4>4. QED
        BY <2>6, <4>2, <4>3
    <3>3. Down(cursor', Safe') /\ Down(applied', Held')
      BY <2>1, <2>2, <2>6, <3>1, CoverParts
    <3>4. Batches(Safe', Held', flush', pending', queue') /\ Jobs(Safe', Loose', lane')
      BY <2>1, <2>6, <3>1 DEF Cover
    <3>5. QED
      BY <1>0, <1>1, <2>1, <2>6, <3>1, <3>2, <3>3, <3>4, ReceivedCover
  <2>7. CASE /\ f.type \in {"delta", "batch"} /\ Took(f.ids) /\ deferred \subseteq deferred'
             /\ queue # NoQueue => \A i \in Range(f.ids) : i \in deferred'
             /\ UNCHANGED <<cursor, lane, lost>>
    <3>1. InLane' = InLane
      BY <2>7 DEF InLane
    <3>2. /\ Loose \subseteq Loose' /\ Safe \subseteq Safe' /\ Held \subseteq Held'
          /\ \A i \in Range(f.ids) : i \in InMemory' /\ i \in Held'
          /\ Batches(Safe', Held', flush', pending', queue') /\ Down(applied', Held')
      <4> DEFINE ids == f.ids
      <4>1. /\ ids \in Seq(1..head) /\ Took(ids)
            /\ \A j \in Range(ids) : Down(j, Held \cup Range(ids))
            /\ queue # NoQueue => \A i \in Range(ids) : i \in deferred'
        BY <1>2, <2>2, <2>7
      <4> HIDE DEF ids
      <4>2. /\ Loose \subseteq Loose' /\ Safe \subseteq Safe' /\ Held \subseteq Held'
            /\ \A i \in Range(ids) : i \in InMemory' /\ i \in Held'
            /\ Batches(Safe', Held', flush', pending', queue') /\ Down(applied', Held')
        BY <1>0, <1>1, <1>3, <2>1, <2>3, <2>7, <3>1, <4>1, TookCover
      <4>3. QED
        BY <4>2 DEF ids
    <3>3. Down(cursor', Safe')
      BY <2>1, <2>7, <3>2, CoverParts, DownMono
    <3>4. Jobs(Safe', Loose', lane')
      BY <2>1, <2>7, <3>2, CoverParts, JobsMono
    <3>5. QED
      BY <1>0, <1>1, <2>1, <2>7, <3>2, <3>3, <3>4, ReceivedCover
  <2>8. CASE /\ f.type \in {"chunk", "end"}
             /\ \/ lane' = Append(lane, job) /\ lost' = lost
                \/ lost' = lost \cup Range(f.ids) /\ lane' = lane
             /\ UNCHANGED <<cursor, applied, deferred, queue, pending, flush>>
    <3>1. InMemory' = InMemory /\ lost \subseteq lost'
      BY <2>8 DEF InMemory
    <3>2. Loose \subseteq Loose'
      BY <1>1, <2>3, <2>8, <3>1, LooseNext
    <3>3. InLane \subseteq InLane' /\ Range(f.ids) \subseteq Safe'
      <4>1. CASE lane' = Append(lane, job)
        <5>1. InLane' = InLane \cup Range(job.ids)
          BY <1>2, <4>1, LaneGrows
        <5>2. QED
          BY <2>4, <5>1 DEF Safe
      <4>2. CASE lost' = lost \cup Range(f.ids) /\ lane' = lane
        BY <4>2 DEF InLane, Safe, Loose
      <4>3. QED
        BY <2>8, <4>1, <4>2
    <3>4. InLane \subseteq Safe' /\ \A i \in Range(flush.ids) \cup Range(pending) : i \in Held'
      BY <2>8, <3>3 DEF Safe, Held
    <3>5. Safe \subseteq Safe' /\ Held \subseteq Held' /\ Safe' \subseteq Held'
      <4>1. Safe \subseteq Safe' /\ Held \subseteq Held'
        BY <3>2, <3>4, HeldNext
      <4>2. Safe' \subseteq Held'
        BY DEF Held
      <4>3. QED
        BY <4>1, <4>2
    <3>6. Down(f.to, Safe')
      BY <2>2, <2>8, <3>3, <3>5, DownMono
    <3>7. Jobs(Safe', Loose', lane)
      BY <2>1, <3>2, <3>5, CoverParts, JobsMono
    <3>8. Jobs(Safe', Loose', lane')
      BY <1>2, <2>4, <2>8, <3>6, <3>7, JobsAppend
    <3>9. Batches(Safe', Held', flush', pending', queue')
      BY <2>1, <2>8, <3>5 DEF Cover, Batches, Down
    <3>10. Down(cursor', Safe') /\ Down(applied', Held')
      BY <2>1, <2>8, <3>5, CoverParts, DownMono
    <3>11. QED
      BY <1>0, <1>1, <2>1, <3>3, <3>5, <3>8, <3>9, <3>10, <2>8, ReceivedCover
  <2>9. QED
    BY <2>5, <2>6, <2>7, <2>8
<1>4. QED
  BY <1>3, ReceiveSide

-----------------------------------------------------------------------------
(* The catch-up lane.                                                      *)

(* What is in the lane.                                                    *)
LEMMA LaneMember ==
    ASSUME NEW i
    PROVE  i \in InLane <=> \E k \in 1..Len(lane) : i \in Range(lane[k].ids)
BY DEF InLane

(* Starting the first job changes its state only.                          *)
LEMMA StartedLane ==
    ASSUME Core, LaneStart
    PROVE  /\ Len(lane') = Len(lane) /\ 1 \in 1..Len(lane)
           /\ \A k \in 1..Len(lane) : /\ lane'[k].ids = lane[k].ids
                                      /\ lane'[k].position = lane[k].position
                                      /\ k # 1 => lane'[k].state = lane[k].state
<1> DEFINE st == IF queue = NoQueue /\ \E id \in Range(lane[1].ids) : ~IsRemoval(id)
                 THEN "await" ELSE "done"
           j == [lane[1] EXCEPT !.state = st]
<1>1. lane # <<>> /\ lane' = [lane EXCEPT ![1].state = st]
  BY DEF LaneStart
<1>2. lane[1] \in JobType(head) /\ 1 \in 1..Len(lane) /\ lane \in Seq(JobType(head))
  BY <1>1, LaneHead, FlushFields DEF Core
<1>3. lane' = [lane EXCEPT ![1] = j]
  BY <1>1
<1> HIDE DEF st
<1>4. j.ids = lane[1].ids /\ j.position = lane[1].position
  BY <1>2 DEF JobType
<1> HIDE DEF j
<1>5. QED
  BY <1>2, <1>3, <1>4

(* Starting a catch-up job keeps the invariant: what it takes is in        *)
(* memory, which is all that its later acknowledgement relies on.          *)
LEMMA LaneStartCursor ==
    ASSUME CursorInv, LaneStart
    PROVE  Side' /\ (Incomplete' \/ Cover')
<1> DEFINE ids == lane[1].ids
<1>0. Core /\ head \in Nat
  BY FlushFields DEF CursorInv
<1>1. /\ lane # <<>> /\ ReceiveFrame(ids) /\ deferred' = deferred \cup Range(ids)
      /\ UNCHANGED <<log, link, sent, request, wire, cursor, boot, snapshot, durable, failed, lost>>
      /\ laneOk' = laneOk
  BY DEF LaneStart, server
<1>2. ids \in Seq(1..head) /\ lane[1].position \in 0..head /\ Took(ids)
  BY <1>0, <1>1, LaneHead, FlushFields, TookFrame DEF Core
<1>3. /\ Len(lane') = Len(lane) /\ 1 \in 1..Len(lane)
      /\ \A k \in 1..Len(lane) : /\ lane'[k].ids = lane[k].ids
                                 /\ lane'[k].position = lane[k].position
                                 /\ k # 1 => lane'[k].state = lane[k].state
  BY <1>0, StartedLane
<1>4. \A i \in Range(ids) : i \in 1..head /\ i <= lane[1].position
  <2>1. \A i \in Range(ids) : i <= lane[1].position
    BY <1>3 DEF CursorInv, Side, LaneFront
  <2>2. Range(ids) \subseteq 1..head
    BY <1>0, <1>1, JobIds DEF Core
  <2>3. QED
    BY <2>1, <2>2
<1>5. (queue' = NoQueue <=> queue = NoQueue) /\ (rebuild => rebuild')
  BY <1>0, <1>2, TookFacts
<1>6. LinkGood'
  BY <1>1 DEF CursorInv, Side, LinkGood
<1>7. LaneFront' /\ LaneStopped'
  BY <1>1, <1>3 DEF CursorInv, Side, LaneFront, LaneStopped
<1> HIDE DEF ids
<1>8. BootGood'
  <2>1. CASE queue # NoQueue
    <3>1. rebuild' = rebuild
      BY <1>2, <2>1 DEF Took
    <3>2. QED
      BY <1>1, <1>5, <2>1, <3>1 DEF CursorInv, Side, BootGood
  <2>2. CASE queue = NoQueue /\ boot \in {"fetched", "cleared"}
    <3>1. /\ cursor <= snapshot /\ applied <= snapshot
          /\ \A k \in 1..Len(lane) : lane[k].position <= snapshot
      BY <2>2 DEF CursorInv, Side, BootGood
    <3>2. snapshot \in 0..head /\ applied \in 0..head
      BY <1>0, FlushFields DEF Core, ClientTyped
    <3>3. applied' = MaxOf(Range(ids) \cup {applied}, 0)
      BY <1>2, <2>2 DEF Took, EnqueueSideEffects
    <3>4. applied' \in Range(ids) \cup {applied}
      BY <1>0, <1>2, <3>2, <3>3, AppliedOne
    <3>5. lane[1].position <= snapshot
      BY <1>3, <3>1
    <3>6. applied' <= snapshot
      BY <1>0, <1>2, <1>4, <3>1, <3>2, <3>4, <3>5
    <3>7. QED
      BY <1>1, <1>3, <1>5, <2>2, <3>1, <3>6 DEF BootGood
  <2>3. CASE boot \notin {"fetched", "cleared"} /\ queue = NoQueue
    BY <1>1, <1>5, <2>3 DEF BootGood
  <2>4. QED
    BY <2>1, <2>2, <2>3
<1>9. ASSUME ~Incomplete' PROVE Cover'
  <2>1. Cover
    BY <1>5, <1>9 DEF CursorInv, Incomplete
  <2>2. \A k \in 1..Len(lane) : /\ Down(lane[k].position, Safe)
                                /\ lane[k].state # "new" => \A i \in Range(lane[k].ids) : i \in Loose
    BY <2>1, CoverParts DEF Jobs
  <2>3. \A j \in Range(ids) : Down(j, Held \cup Range(ids))
    <3>1. SUFFICES ASSUME NEW j \in Range(ids), NEW i \in 1..j PROVE i \in Held
      BY DEF Down
    <3>2. i \in 1..lane[1].position
      BY <1>0, <1>2, <1>4, <3>1
    <3>3. i \in Safe
      BY <1>3, <2>2, <3>2 DEF Down
    <3>4. QED
      BY <3>3, Within
  <2>4. InLane' = InLane
    BY <1>3, LaneMember DEF InLane
  <2>5. Snap' = Snap
    BY <1>1 DEF Snap
  <2>6. \A i \in Range(ids) : i \in deferred'
    BY <1>1
  <2>7. /\ Loose \subseteq Loose' /\ Safe \subseteq Safe' /\ Held \subseteq Held'
        /\ \A i \in Range(ids) : i \in InMemory' /\ i \in Held'
        /\ Batches(Safe', Held', flush', pending', queue') /\ Down(applied', Held')
    BY <1>0, <1>1, <1>2, <1>9, <2>1, <2>3, <2>4, <2>5, <2>6, TookCover
  <2>8. \A i \in Range(ids) : i \in Loose'
    BY <2>6, <2>7 DEF Loose
  <2>9. Jobs(Safe', Loose', lane')
    <3>1. SUFFICES ASSUME NEW k \in 1..Len(lane)
                   PROVE  /\ Down(lane'[k].position, Safe')
                          /\ lane'[k].state # "new" => \A i \in Range(lane'[k].ids) : i \in Loose'
      BY <1>3 DEF Jobs
    <3>2. Down(lane'[k].position, Safe')
      BY <1>3, <2>2, <2>7, DownMono
    <3>3. CASE k = 1
      BY <1>3, <2>8, <3>2, <3>3 DEF ids
    <3>4. CASE k # 1
      BY <1>3, <2>2, <2>7, <3>2, <3>4
    <3>5. QED
      BY <3>3, <3>4
  <2>10. Stream(Safe', Held', cursor', applied', request', sent', wire')
    <3>1. Stream(Safe', Held', cursor, applied, request, sent, wire)
      BY <2>1, <2>7, StreamMono DEF Cover
    <3>2. QED
      BY <1>1, <2>7, <3>1 DEF Stream
  <2>11. QED
    BY <2>7, <2>9, <2>10 DEF Cover
<1>10. QED
  BY <1>6, <1>7, <1>8, <1>9 DEF Side

(* Acknowledging a catch-up job keeps the invariant, though its deltas may *)
(* not be stored yet: they are deferred and in memory.                     *)
LEMMA LaneAckCursor ==
    ASSUME CursorInv, LaneAck
    PROVE  Side' /\ (Incomplete' \/ Cover')
<1>0. Core /\ head \in Nat
  BY FlushFields DEF CursorInv
<1>1. /\ lane # <<>> /\ lane[1].state = "done" /\ cursor' = Max2(cursor, lane[1].position)
      /\ lane' = Tail(lane)
      /\ UNCHANGED <<log, link, sent, request, wire, applied, pending, queue, flush, boot, snapshot>>
      /\ UNCHANGED <<durable, failed, lost, deferred, rebuild, laneOk>>
  BY DEF LaneAck, server, rebuilds, history
<1>2. /\ Len(lane') = Len(lane) - 1 /\ Len(lane) \in Nat /\ 1 \in 1..Len(lane)
      /\ \A k \in 1..Len(lane') : lane'[k] = lane[k + 1] /\ k + 1 \in 1..Len(lane)
  <2>1. lane \in Seq(JobType(head))
    BY <1>0, FlushFields
  <2>2. QED
    BY <1>1, <2>1, TailFacts
<1>3. cursor' \in {cursor, lane[1].position}
  BY <1>1 DEF Max2
<1>4. LinkGood'
  BY <1>1 DEF CursorInv, Side, LinkGood
<1>5. LaneFront' /\ LaneStopped'
  <2>1. \A k \in 1..Len(lane') : k + 1 # 1
    BY <1>2
  <2>2. QED
    BY <1>1, <1>2, <2>1 DEF CursorInv, Side, LaneFront, LaneStopped
<1>6. BootGood'
  BY <1>1, <1>2, <1>3 DEF CursorInv, Side, BootGood
<1>7. ASSUME ~Incomplete' PROVE Cover'
  <2>1. Cover
    BY <1>1, <1>7 DEF CursorInv, Incomplete
  <2>2. \A k \in 1..Len(lane) : /\ Down(lane[k].position, Safe)
                                /\ lane[k].state # "new" => \A i \in Range(lane[k].ids) : i \in Loose
    BY <2>1, CoverParts DEF Jobs
  <2>3. Loose' = Loose
    <3>1. Unstored' = Unstored /\ InMemory' = InMemory /\ Snap' = Snap
      BY <1>1 DEF Unstored, Ids, InMemory, Snap
    <3>2. QED
      BY <1>1, <3>1 DEF Loose
  <2>4. InLane \subseteq Safe'
    <3>1. SUFFICES ASSUME NEW k \in 1..Len(lane), NEW i \in Range(lane[k].ids) PROVE i \in Safe'
      BY LaneMember
    <3>2. CASE k = 1
      BY <1>1, <1>2, <2>2, <2>3, <3>1, <3>2 DEF Safe
    <3>3. CASE k # 1
      <4>1. k - 1 \in 1..Len(lane') /\ (k - 1) + 1 = k
        BY <1>2, <3>1, <3>3
      <4>2. lane'[k - 1] = lane[k]
        BY <1>2, <4>1
      <4>3. i \in InLane'
        BY <3>1, <4>1, <4>2 DEF InLane
      <4>4. QED
        BY <4>3 DEF Safe
    <3>4. QED
      BY <3>2, <3>3
  <2>5. \A i \in Range(flush.ids) \cup Range(pending) : i \in Held'
    BY <1>1 DEF Held
  <2>6. Safe \subseteq Safe' /\ Held \subseteq Held'
    BY <2>3, <2>4, <2>5, HeldNext
  <2>7. Down(cursor', Safe') /\ Down(applied', Held')
    BY <1>1, <1>2, <1>3, <2>1, <2>2, <2>6, CoverParts, DownMono
  <2>8. \A j \in Range(flush'.ids) : Down(j, Safe' \cup Range(flush'.ids))
    BY <1>1, <2>1, <2>6, CoverParts DEF Down
  <2>9. Jobs(Safe', Loose', lane')
    BY <1>2, <2>2, <2>3, <2>6 DEF Jobs, Down
  <2>10. QED
    BY <1>1, <2>1, <2>3, <2>4, <2>5, <2>7, <2>8, <2>9, MoveCover
<1>8. QED
  BY <1>4, <1>5, <1>6, <1>7 DEF Side

-----------------------------------------------------------------------------
(* The drain.                                                              *)

(* The jobs stay as they are, but for one that is waiting or done.         *)
Kept(l, m) ==
    /\ Len(m) = Len(l) /\ (l = <<>> => m = <<>>)
    /\ \A k \in 1..Len(l) : /\ m[k].ids = l[k].ids /\ m[k].position = l[k].position
                            /\ m[k].state = "new" <=> l[k].state = "new"

(* The jobs behind the first are given up.                                 *)
GivenUp ==
    /\ lane' = <<>>
    /\ \A k \in 1..Len(lane) : IF k = 1 THEN lane[k].state # "new"
                               ELSE Range(lane[k].ids) \subseteq lost'

(* A step of the drain keeps Cover: the batch stays, ends with every delta *)
(* stored or failed, is detached from the queue, or goes back to it; the   *)
(* cursor moves only to an id of a batch that has ended that way; and of   *)
(* the lane only jobs known to be lost are dropped.                        *)
LEMMA DrainCover ==
    ASSUME Core, Cover, UNCHANGED <<log, sent, request, wire, queue, deferred, boot, snapshot>>,
           durable \subseteq durable', failed \subseteq failed', lost \subseteq lost',
           \/ /\ Range(flush'.ids) = Range(flush.ids) /\ Range(pending') = Range(pending)
           \/ /\ Range(flush'.ids) = {} /\ Range(pending') = Range(pending)
              /\ Range(flush.ids) \subseteq durable' \cup failed'
           \/ /\ Range(flush.ids) = {} /\ Range(flush'.ids) = Range(pending) /\ Range(pending') = {}
           \/ /\ Range(flush'.ids) = {} /\ Range(pending') = Range(pending) \cup Range(flush.ids),
           \/ cursor' = cursor
           \/ cursor' \in Range(flush.ids) /\ Range(flush.ids) \subseteq durable' \cup failed',
           applied' \in {applied} \cup Range(flush.ids),
           Kept(lane, lane') \/ GivenUp
    PROVE  Cover'
<1>1. \A i \in Range(flush.ids) \cup Range(pending) :
          \/ i \in Range(flush'.ids) \cup Range(pending') \/ i \in durable' \/ i \in failed'
  OBVIOUS
<1>2. \A i : i \in Range(flush'.ids) \cup Range(pending') => i \in InMemory' /\ i \in Held'
  BY DEF InMemory, Held
<1>3. \A i \in InMemory : i \in InMemory' \/ i \in durable' \/ i \in failed'
  <2>1. \A i : queue # NoQueue /\ i \in Range(queue) => i \in InMemory'
    BY DEF InMemory
  <2>2. QED
    BY <1>1, <1>2, <2>1, MemoryIs
<1>4. Snap' = Snap
  BY DEF Snap
<1>5. Loose \subseteq Loose'
  BY <1>3, <1>4, LooseNext
<1>6. durable' \subseteq Safe' /\ failed' \subseteq Safe' /\ lost' \subseteq Safe'
      /\ Safe' \subseteq Held' /\ Loose' \subseteq Safe' /\ InLane' \subseteq Safe'
  BY DEF Loose, Safe, Held
<1>7. \A k \in 1..Len(lane) : /\ Down(lane[k].position, Safe)
                              /\ lane[k].state # "new" => \A i \in Range(lane[k].ids) : i \in Loose
  BY CoverParts DEF Jobs
<1>8. InLane \subseteq Safe'
  <2>1. SUFFICES ASSUME NEW k \in 1..Len(lane), NEW i \in Range(lane[k].ids) PROVE i \in Safe'
    BY LaneMember
  <2>2. CASE Kept(lane, lane')
    <3>1. i \in InLane'
      BY <2>1, <2>2 DEF Kept, InLane
    <3>2. QED
      BY <1>6, <3>1
  <2>3. CASE GivenUp
    <3>1. CASE k = 1
      BY <1>5, <1>6, <1>7, <2>1, <2>3, <3>1 DEF GivenUp
    <3>2. CASE k # 1
      BY <1>6, <2>1, <2>3, <3>2 DEF GivenUp
    <3>3. QED
      BY <3>1, <3>2
  <2>4. QED
    BY <2>2, <2>3
<1>9. \A i \in Range(flush.ids) \cup Range(pending) : i \in Held'
  BY <1>1, <1>2, <1>6
<1>10. Safe \subseteq Safe' /\ Held \subseteq Held'
  BY <1>5, <1>8, <1>9, HeldNext
<1>11. \A j \in Range(flush.ids) : Down(j, Safe \cup Range(flush.ids))
  BY CoverParts
<1>12. Down(cursor', Safe')
  <2>1. CASE cursor' = cursor
    BY <1>10, <2>1, CoverParts, DownMono
  <2>2. CASE cursor' \in Range(flush.ids) /\ Range(flush.ids) \subseteq durable' \cup failed'
    <3>1. Safe \cup Range(flush.ids) \subseteq Safe'
      BY <1>6, <1>10, <2>2
    <3>2. QED
      BY <1>11, <2>2, <3>1, DownMono
  <2>3. QED
    BY <2>1, <2>2
<1>13. Down(applied', Held')
  <2>1. CASE applied' = applied
    BY <1>10, <2>1, CoverParts, DownMono
  <2>2. CASE applied' \in Range(flush.ids)
    <3>1. Safe \cup Range(flush.ids) \subseteq Held'
      BY <1>6, <1>9, <1>10
    <3>2. QED
      BY <1>11, <2>2, <3>1, DownMono
  <2>3. QED
    BY <2>1, <2>2
<1>14. \A j \in Range(flush'.ids) : Down(j, Safe' \cup Range(flush'.ids))
  <2>1. CASE Range(flush'.ids) = Range(flush.ids)
    BY <1>10, <1>11, <2>1 DEF Down
  <2>2. CASE Range(flush.ids) = {} /\ Range(flush'.ids) = Range(pending)
    <3>1. \A j \in Range(pending) : Down(j, Held)
      BY CoverParts
    <3>2. Held \subseteq Safe' \cup Range(flush'.ids)
      BY <1>10, <2>2 DEF Held
    <3>3. QED
      BY <2>2, <3>1, <3>2 DEF Down
  <2>3. CASE Range(flush'.ids) = {}
    BY <2>3
  <2>4. QED
    BY <2>1, <2>2, <2>3
<1>15. \A j \in Range(pending') : j \in Range(pending) \cup Range(flush.ids)
  OBVIOUS
<1>16. Jobs(Safe', Loose', lane')
  <2>1. CASE Kept(lane, lane')
    <3>1. SUFFICES ASSUME NEW k \in 1..Len(lane)
                   PROVE  /\ Down(lane'[k].position, Safe')
                          /\ lane'[k].state # "new" => \A i \in Range(lane'[k].ids) : i \in Loose'
      BY <2>1 DEF Jobs, Kept
    <3>2. Down(lane[k].position, Safe')
      BY <1>7, <1>10, DownMono
    <3>3. QED
      BY <1>5, <1>7, <2>1, <3>2 DEF Kept
  <2>2. CASE GivenUp
    <3>1. 1..Len(lane') = {}
      BY <2>2 DEF GivenUp
    <3>2. QED
      BY <3>1 DEF Jobs
  <2>3. QED
    BY <2>1, <2>2
<1>17. QED
  BY <1>5, <1>8, <1>9, <1>12, <1>13, <1>14, <1>15, <1>16, MoveCover

(* ... and it keeps the clauses about the lane and the bootstrap.          *)
LEMMA DrainSide ==
    ASSUME CursorInv, UNCHANGED <<link, sent, request, wire, queue, boot, snapshot, rebuild>>,
           queue # NoQueue => durable' = durable,
           \/ Kept(lane, lane') /\ laneOk' = laneOk
           \/ lane' = <<>>,
           cursor' \in {cursor} \cup Range(flush.ids), applied' \in {applied} \cup Range(flush.ids)
    PROVE  Side'
<1>0. Core
  BY DEF CursorInv
<1>1. LinkGood'
  BY DEF CursorInv, Side, LinkGood
<1>2. LaneStopped' /\ LaneFront'
  <2>1. CASE Kept(lane, lane') /\ laneOk' = laneOk
    <3>1. LaneFront'
      BY <2>1 DEF CursorInv, Side, LaneFront, Kept
    <3>2. LaneStopped'
      <4>1. CASE laneOk
        BY <2>1, <4>1 DEF LaneStopped
      <4>2. CASE lane = <<>>
        BY <2>1, <4>2 DEF LaneStopped, Kept
      <4>3. QED
        BY <4>1, <4>2 DEF CursorInv, Side, LaneStopped
    <3>3. QED
      BY <3>1, <3>2
  <2>2. CASE lane' = <<>>
    <3>1. 1..Len(lane') = {}
      BY <2>2
    <3>2. QED
      BY <2>2, <3>1 DEF LaneStopped, LaneFront
  <2>3. QED
    BY <2>1, <2>2
<1>3. BootGood'
  <2>1. CASE queue # NoQueue
    BY <2>1 DEF CursorInv, Side, BootGood
  <2>2. CASE queue = NoQueue /\ boot \in {"fetched", "cleared"}
    <3>1. /\ cursor <= snapshot /\ applied <= snapshot
          /\ \A k \in 1..Len(lane) : lane[k].position <= snapshot
      BY <2>2 DEF CursorInv, Side, BootGood
    <3>2. \A i \in Range(flush.ids) : i <= snapshot
      BY <1>0, <2>2 DEF Core, RebuildGood
    <3>3. \A k \in 1..Len(lane') : lane'[k].position <= snapshot
      <4>1. CASE Kept(lane, lane')
        BY <3>1, <4>1 DEF Kept
      <4>2. CASE lane' = <<>>
        <5>1. 1..Len(lane') = {}
          BY <4>2
        <5>2. QED
          BY <5>1
      <4>3. QED
        BY <4>1, <4>2
    <3>4. QED
      BY <2>2, <3>1, <3>2, <3>3 DEF BootGood
  <2>3. CASE queue = NoQueue /\ boot \notin {"fetched", "cleared"}
    BY <2>3 DEF BootGood
  <2>4. QED
    BY <2>1, <2>2, <2>3
<1>4. QED
  BY <1>1, <1>2, <1>3 DEF Side

(* A lane that does not change is kept.                                    *)
LEMMA SameLane ==
    ASSUME lane' = lane
    PROVE  Kept(lane, lane')
BY DEF Kept

(* finishBatch empties the batch and keeps the lane, but for the jobs that *)
(* waited for it.                                                          *)
LEMMA FinishLane ==
    ASSUME Core, NEW f, f.held \in Flags, FinishBatch(f)
    PROVE  Kept(lane, lane') /\ flush'.ids = <<>>
<1>1. lane \in Seq(JobType(head)) /\ head \in Nat /\ pending \in Seq(1..head) /\ timer \in BOOLEAN
  BY FlushFields
<1>2. /\ Resting(flush') /\ lane' \in Seq(JobType(head)) /\ Len(lane') = Len(lane)
      /\ \A k \in 1..Len(lane) : lane'[k].ids = lane[k].ids
  <2> DEFINE g == f.held
  <2>1. g \in Flags /\ f.held = g
    OBVIOUS
  <2> HIDE DEF g
  <2>2. QED
    BY <1>1, <2>1, FinishFacts
<1>3. lane' = lane \/ lane' = Settled(lane)
  BY DEF FinishBatch
<1>4. CASE lane' = lane
  BY <1>2, <1>4, SameLane DEF Resting
<1>5. CASE lane' = Settled(lane)
  <2>1. ASSUME NEW k \in 1..Len(lane)
        PROVE  /\ lane'[k].position = lane[k].position
               /\ lane'[k].state = "new" <=> lane[k].state = "new"
    <3>1. lane'[k] = IF lane[k].state = "await" THEN [lane[k] EXCEPT !.state = "done"]
                     ELSE lane[k]
      BY <1>5 DEF Settled
    <3>2. lane[k] \in JobType(head)
      BY <1>1
    <3>3. QED
      BY <3>1, <3>2 DEF JobType
  <2>2. lane = <<>> => lane' = <<>>
    <3>1. SUFFICES ASSUME lane = <<>> PROVE lane' = <<>>
      OBVIOUS
    <3>2. Len(lane') = 0
      BY <1>2, <3>1
    <3>3. QED
      BY <1>2, <3>2, EmptySeq
  <2>3. Kept(lane, lane')
    BY <1>2, <2>1, <2>2 DEF Kept
  <2>4. QED
    BY <1>2, <2>3 DEF Resting
<1>6. QED
  BY <1>3, <1>4, <1>5

(* When the store step is over every delta of the batch is stored or has   *)
(* failed, unless data is being rebuilt.                                   *)
LEMMA Settles ==
    ASSUME Core, ~rebuild, flush.phase # "persist" \/ flush.todo = {}
    PROVE  Range(flush.ids) \subseteq durable \cup failed
<1>1. ResultsGood(flush, log, failed) /\ Stored(flush, durable)
  BY DEF Core, FlushInv, FlushGood, DurableGood
<1>2. flush.ok \subseteq durable
  BY <1>1 DEF Stored
<1>3. \A id \in Range(flush.ids) : id \in flush.ok \cup failed
  BY <1>1 DEF ResultsGood, Waits
<1>4. QED
  BY <1>2, <1>3

(* Detaching moves the pending ids into an empty batch.                    *)
LEMMA Detaches ==
    ASSUME Core, flush.phase \in {"idle", "loop"}, pending # <<>>,
           flush' = Detached(flush, pending), pending' = <<>>
    PROVE  /\ Range(flush.ids) = {} /\ Range(flush'.ids) = Range(pending) /\ Range(pending') = {}
<1>1. /\ head \in Nat /\ pending \in Seq(1..head) /\ flush \in FlushType(head)
      /\ \A i \in 1..head : log[i].row \in Row
  <2>1. \A i \in 1..head : log[i].row \in Row
    BY Rows DEF Core
  <2>2. QED
    BY <2>1, FlushFields
<1>2. Range(flush'.ids) = Range(pending)
  BY <1>1, DetachedFacts
<1>3. flush.ids = <<>>
  BY DEF Core, FlushInv, FlushGood, BatchGood
<1>4. QED
  BY <1>2, <1>3, RangeEmpty

(* The steps of the drain keep the invariant, in the four forms they have. *)
LEMMA DrainCursor ==
    ASSUME CursorInv,
           UNCHANGED <<log, link, sent, request, wire, queue, boot, snapshot, rebuild, deferred>>,
           durable \subseteq durable', failed \subseteq failed', lost \subseteq lost',
           queue # NoQueue => durable' = durable,
           \/ Kept(lane, lane') /\ laneOk' = laneOk
           \/ GivenUp,
           \/ /\ Range(flush'.ids) = Range(flush.ids) /\ Range(pending') = Range(pending)
              /\ UNCHANGED <<cursor, applied>>
           \/ /\ flush'.ids = <<>> /\ Range(pending') = Range(pending)
              /\ flush.phase # "persist" \/ flush.todo = {}
              /\ queue = NoQueue
              /\ cursor' \in {cursor} \cup Range(flush.ids)
              /\ applied' \in {applied} \cup Range(flush.ids)
           \/ /\ Range(flush.ids) = {} /\ Range(flush'.ids) = Range(pending) /\ Range(pending') = {}
              /\ UNCHANGED <<cursor, applied>>
           \/ /\ flush'.ids = <<>> /\ Range(pending') = Range(pending) \cup Range(flush.ids)
              /\ UNCHANGED <<cursor, applied>>
    PROVE  Side' /\ (Incomplete' \/ Cover')
<1>1. Side'
  <2>1. (Kept(lane, lane') /\ laneOk' = laneOk) \/ lane' = <<>>
    BY DEF GivenUp
  <2>2. cursor' \in {cursor} \cup Range(flush.ids) /\ applied' \in {applied} \cup Range(flush.ids)
    OBVIOUS
  <2>3. QED
    BY <2>1, <2>2, DrainSide
<1>2. ASSUME ~Incomplete' PROVE Cover'
  <2>1. Cover /\ Core
    BY <1>2 DEF CursorInv, Incomplete
  <2>2. applied' \in {applied} \cup Range(flush.ids)
    OBVIOUS
  <2>3. CASE /\ flush'.ids = <<>> /\ Range(pending') = Range(pending)
             /\ flush.phase # "persist" \/ flush.todo = {}
             /\ queue = NoQueue
             /\ cursor' \in {cursor} \cup Range(flush.ids)
    <3>1. ~rebuild
      BY <1>2, <2>3 DEF Incomplete
    <3>2. Range(flush.ids) \subseteq durable' \cup failed'
      BY <2>1, <2>3, <3>1, Settles
    <3>3. Range(flush'.ids) = {}
      BY <2>3, RangeEmpty
    <3>4. QED
      BY <2>1, <2>2, <2>3, <3>2, <3>3, DrainCover
  <2>4. CASE /\ cursor' = cursor
             /\ \/ /\ Range(flush'.ids) = Range(flush.ids) /\ Range(pending') = Range(pending)
                \/ /\ Range(flush.ids) = {} /\ Range(flush'.ids) = Range(pending)
                   /\ Range(pending') = {}
                \/ /\ flush'.ids = <<>> /\ Range(pending') = Range(pending) \cup Range(flush.ids)
    BY <2>1, <2>2, <2>4, RangeEmpty, DrainCover
  <2>5. QED
    BY <2>3, <2>4
<1>3. QED
  BY <1>1, <1>2

(* getHighestPersistedPrefix returns an id of the batch or 0.              *)
LEMMA PrefixMember ==
    ASSUME NEW h \in Nat, NEW ids \in Seq(1..h), NEW ok
    PROVE  HighestPersistedPrefix(ids, ok) \in {0} \cup Range(ids)
<1> DEFINE P == {ids[i] : i \in {j \in 1..Len(ids) : \A k \in 1..j : ids[k] \in ok}}
<1>1. P \subseteq Range(ids) /\ Range(ids) \subseteq 1..h
  BY RangeIn
<1>2. HighestPersistedPrefix(ids, ok) = MaxOf(P, 0)
  BY DEF HighestPersistedPrefix
<1> HIDE DEF P
<1>3. P \in SUBSET (0..h)
  BY <1>1
<1>4. CASE P = {}
  BY <1>2, <1>4, MaxOfEmpty
<1>5. CASE P # {}
  <2>1. MaxOf(P, 0) \in P
    BY <1>3, <1>5, MaxOfMember
  <2>2. QED
    BY <1>1, <1>2, <2>1
<1>6. QED
  BY <1>4, <1>5

(* The debounce timer keeps the invariant.                                 *)
LEMMA TimerFiresCursor ==
    ASSUME CursorInv, TimerFires
    PROVE  Side' /\ (Incomplete' \/ Cover')
<1>0. Core
  BY DEF CursorInv
<1>1. /\ UNCHANGED <<log, link, sent, request, wire, queue, boot, snapshot, rebuild, deferred>>
      /\ UNCHANGED <<durable, failed, lost, lane, laneOk, cursor, applied>>
      /\ FlushPendingDeltas(flush, pending)
  BY DEF TimerFires, server, positions, rebuilds, history
<1>2. Kept(lane, lane')
  BY <1>1, SameLane
<1>3. CASE flush.phase = "idle" /\ pending # <<>>
  <2>1. flush' = Detached(flush, pending) /\ pending' = <<>>
    BY <1>1, <1>3 DEF FlushPendingDeltas
  <2>2. Range(flush.ids) = {} /\ Range(flush'.ids) = Range(pending) /\ Range(pending') = {}
    BY <1>0, <1>3, <2>1, Detaches
  <2>3. QED
    BY <1>1, <1>2, <2>2, DrainCursor
<1>4. CASE ~(flush.phase = "idle" /\ pending # <<>>)
  <2>1. flush' = flush /\ pending' = pending
    BY <1>1, <1>4 DEF FlushPendingDeltas
  <2>2. QED
    BY <1>1, <1>2, <2>1, DrainCursor
<1>5. QED
  BY <1>3, <1>4

(* Reading a store's records, or failing to, keeps the invariant.          *)
LEMMA PersistReadCursor ==
    ASSUME CursorInv, PersistRead
    PROVE  Side' /\ (Incomplete' \/ Cover')
<1>0. Core
  BY DEF CursorInv
<1>1. /\ UNCHANGED <<log, link, sent, request, wire, queue, boot, snapshot, rebuild, deferred>>
      /\ UNCHANGED <<durable, lost, lane, laneOk, cursor, applied, pending>>
  BY DEF PersistRead, server, positions, queues, rebuilds
<1>2. flush'.ids = flush.ids /\ failed \subseteq failed'
  <2>1. head \in Nat /\ FlushGood(flush, log, failed, head)
    BY <1>0, FlushFields
  <2>2. stored \in [Row -> [Field -> 0..head]]
    BY <1>0 DEF Core, ClientTyped
  <2>3. QED
    BY <2>1, <2>2, PersistReadFlush
<1>3. Kept(lane, lane')
  BY <1>1, SameLane
<1>4. QED
  BY <1>1, <1>2, <1>3, DrainCursor

(* Writing a store, or failing to, keeps the invariant.                    *)
LEMMA PersistWriteCursor ==
    ASSUME CursorInv, PersistWrite
    PROVE  Side' /\ (Incomplete' \/ Cover')
<1>0. Core
  BY DEF CursorInv
<1>1. /\ UNCHANGED <<log, link, sent, request, wire, queue, boot, snapshot, rebuild, deferred>>
      /\ UNCHANGED <<lost, lane, laneOk, cursor, applied, pending>>
      /\ flush.phase = "persist" /\ durable \subseteq durable'
  BY DEF PersistWrite, server, positions, queues, rebuilds
<1>2. flush'.ids = flush.ids /\ failed \subseteq failed'
  <2>1. head \in Nat /\ FlushGood(flush, log, failed, head)
    BY <1>0, FlushFields
  <2>2. QED
    BY <2>1, PersistWriteFlush
<1>3. Kept(lane, lane')
  BY <1>1, SameLane
<1>4. queue = NoQueue
  BY <1>0, <1>1, Draining
<1>5. QED
  BY <1>1, <1>2, <1>3, <1>4, DrainCursor

(* The end of a batch keeps the invariant.                                 *)
LEMMA FinishCursor ==
    ASSUME CursorInv, NEW f, f.held \in Flags, FinishBatch(f), flush.phase # "idle",
           UNCHANGED <<server, pending, queue, laneOk, rebuilds, history>>,
           flush.phase # "persist" \/ flush.todo = {},
           cursor' \in {cursor} \cup Range(flush.ids), applied' \in {applied} \cup Range(flush.ids)
    PROVE  Side' /\ (Incomplete' \/ Cover')
<1>0. Core
  BY DEF CursorInv
<1>1. Kept(lane, lane') /\ flush'.ids = <<>>
  BY <1>0, FinishLane
<1>2. queue = NoQueue
  BY <1>0, Draining
<1>3. /\ UNCHANGED <<log, link, sent, request, wire, queue, boot, snapshot, rebuild, deferred>>
      /\ UNCHANGED <<durable, failed, lost, laneOk, pending>>
  BY DEF server, rebuilds, history
<1>4. QED
  BY <1>1, <1>2, <1>3, DrainCursor

(* The end of the store step keeps the invariant.                          *)
LEMMA PersistDoneCursor ==
    ASSUME CursorInv, PersistDone
    PROVE  Side' /\ (Incomplete' \/ Cover')
<1>0. Core
  BY DEF CursorInv
<1>1. /\ UNCHANGED <<server, pending, queue, laneOk, rebuilds, history>>
      /\ UNCHANGED <<cursor, applied>>
      /\ flush.phase = "persist" /\ flush.todo = {}
  BY DEF PersistDone
<1>2. CASE flush.current
  <2> DEFINE top == HighestPersistedPrefix(flush.ids, flush.ok)
             ac == [id \in DOMAIN flush.acts |-> Revived(id)]
             f == [flush EXCEPT !.phase = "apply", !.prefix = top, !.acts = ac]
  <2>1. flush' = f /\ UNCHANGED <<timer, lane>>
    BY <1>2 DEF PersistDone
  <2> HIDE DEF top, ac
  <2>2. f.ids = flush.ids
    <3>1. flush \in FlushType(head)
      BY <1>0, FlushFields
    <3>2. QED
      BY <3>1 DEF FlushType
  <2> HIDE DEF f
  <2>3. Kept(lane, lane') /\ flush'.ids = flush.ids
    BY <2>1, <2>2, SameLane
  <2>4. /\ UNCHANGED <<log, link, sent, request, wire, queue, boot, snapshot, rebuild, deferred>>
        /\ UNCHANGED <<durable, failed, lost, laneOk, pending>>
    BY <1>1 DEF server, rebuilds, history
  <2>5. QED
    BY <1>1, <2>3, <2>4, DrainCursor
<1>3. CASE ~flush.current
  <2>1. FinishBatch(flush) /\ flush.held \in Flags
    BY <1>0, <1>3, FlushFields DEF PersistDone
  <2>2. QED
    BY <1>1, <2>1, FinishCursor
<1>4. QED
  BY <1>2, <1>3

(* Revealing a slice keeps the invariant.                                  *)
LEMMA ApplySliceCursor ==
    ASSUME CursorInv, ApplySlice
    PROVE  Side' /\ (Incomplete' \/ Cover')
<1>0. Core
  BY DEF CursorInv
<1>1. /\ UNCHANGED <<server, pending, queue, laneOk, rebuilds, history>>
      /\ UNCHANGED <<cursor, applied>>
      /\ flush.phase = "apply"
  BY DEF ApplySlice, positions
<1>2. CASE flush.current
  <2>1. flush'.ids = flush.ids /\ UNCHANGED <<timer, lane>>
    BY <1>0, <1>2, ApplySliceFacts
  <2>2. Kept(lane, lane')
    BY <2>1, SameLane
  <2>3. /\ UNCHANGED <<log, link, sent, request, wire, queue, boot, snapshot, rebuild, deferred>>
        /\ UNCHANGED <<durable, failed, lost, laneOk, pending>>
    BY <1>1 DEF server, rebuilds, history
  <2>4. QED
    BY <1>1, <2>1, <2>2, <2>3, DrainCursor
<1>3. CASE ~flush.current
  <2>1. FinishBatch(flush) /\ flush.held \in Flags
    BY <1>0, <1>3, FlushFields DEF ApplySlice
  <2>2. QED
    BY <1>1, <2>1, FinishCursor
<1>4. QED
  BY <1>2, <1>3

(* The acknowledgement keeps the invariant: below the durable prefix       *)
(* everything is covered or of the batch, and the batch has been stored or *)
(* has failed.                                                             *)
LEMMA AcknowledgeCursor ==
    ASSUME CursorInv, Acknowledge
    PROVE  Side' /\ (Incomplete' \/ Cover')
<1>0. Core
  BY DEF CursorInv
<1>1. /\ UNCHANGED <<server, pending, queue, laneOk, rebuilds, history>>
      /\ flush.phase = "apply" /\ FinishBatch(Applied(flush))
      /\ \/ UNCHANGED <<cursor, applied>>
         \/ /\ flush.prefix > persisted
            /\ cursor' = Max2(cursor, flush.prefix) /\ applied' = Max2(applied, flush.prefix)
  BY DEF Acknowledge
<1>2. Applied(flush).held \in Flags
  BY <1>0, AppliedHeld
<1>3. flush.prefix \in {0} \cup Range(flush.ids)
  <2>1. flush.prefix = HighestPersistedPrefix(flush.ids, flush.ok)
    BY <1>0, <1>1, FlushFields DEF FlushGood, PrefixGood
  <2>2. QED
    BY <1>0, <2>1, FlushFields, PrefixMember
<1>4. flush.prefix > persisted => flush.prefix \in Range(flush.ids)
  <2>1. persisted \in 0..head /\ head \in Nat
    BY <1>0, FlushFields
  <2>2. QED
    BY <1>3, <2>1
<1>5. cursor' \in {cursor} \cup Range(flush.ids) /\ applied' \in {applied} \cup Range(flush.ids)
  BY <1>1, <1>4 DEF Max2
<1>6. QED
  BY <1>1, <1>2, <1>5, FinishCursor

(* A pool that throws keeps the invariant: the batch returns to the queue, *)
(* and what the rejected lane drops is known to be lost.                   *)
LEMMA ApplyThrowsCursor ==
    ASSUME CursorInv, ApplyThrows
    PROVE  Side' /\ (Incomplete' \/ Cover')
<1>0. Core
  BY DEF CursorInv
<1>1. /\ UNCHANGED <<log, link, sent, request, wire, queue, boot, snapshot, rebuild, deferred>>
      /\ UNCHANGED <<durable, failed, cursor, applied>>
      /\ flush.phase = "apply" /\ pending' = flush.ids \o pending
      /\ laneOk' = (laneOk /\ \A k \in 1..Len(lane) : lane[k].state # "await")
      /\ lane' = IF laneOk' THEN lane ELSE <<>>
      /\ lost' = IF laneOk' THEN lost
                 ELSE lost \cup UNION {Range(lane[k].ids) : k \in 2..Len(lane)}
  BY DEF ApplyThrows, server, positions, rebuilds
<1>2. flush'.ids = <<>>
  <2> DEFINE shown == {id \in Range(flush.ids) : flush.acts[id] # "verify"}
             g == [id \in shown \cup DOMAIN flush.held |->
                            IF id \in shown THEN flush.acts[id] ELSE flush.held[id]]
  <2>1. flush' = [Idle EXCEPT !.held = g]
    BY DEF ApplyThrows
  <2> HIDE DEF g
  <2>2. QED
    BY <2>1 DEF Idle
<1>3. Range(pending') = Range(pending) \cup Range(flush.ids)
  <2> DEFINE w == flush.ids
  <2>1. w \in Seq(1..head) /\ pending \in Seq(1..head) /\ pending' = w \o pending
    BY <1>0, <1>1, FlushFields
  <2> HIDE DEF w
  <2>2. Range(w \o pending) = Range(w) \cup Range(pending)
    BY <2>1, RangeConcat
  <2>3. QED
    BY <2>1, <2>2 DEF w
<1>4. lost \subseteq lost'
  BY <1>1
<1>5. (Kept(lane, lane') /\ laneOk' = laneOk) \/ GivenUp
  <2>0. laneOk \in BOOLEAN /\ lane \in Seq(JobType(head))
    BY <1>0, FlushFields
  <2>1. CASE laneOk'
    <3>1. lane' = lane /\ laneOk
      BY <1>1, <2>1
    <3>2. laneOk' = laneOk
      BY <1>1, <2>0, <2>1, <3>1
    <3>3. QED
      BY <3>1, <3>2, SameLane
  <2>2. CASE ~laneOk'
    <3>1. lane' = <<>> /\ lost' = lost \cup UNION {Range(lane[k].ids) : k \in 2..Len(lane)}
      BY <1>1, <2>2
    <3>2. lane = <<>> \/ lane[1].state # "new"
      <4>1. lane = <<>> \/ \E k \in 1..Len(lane) : lane[k].state = "await"
        BY <1>1, <2>2 DEF CursorInv, Side, LaneStopped
      <4>2. \A k \in 1..Len(lane) : lane[k].state # "new" => k = 1
        BY DEF CursorInv, Side, LaneFront
      <4>3. QED
        BY <4>1, <4>2
    <3>3. ASSUME NEW k \in 1..Len(lane)
          PROVE  IF k = 1 THEN lane[k].state # "new" ELSE Range(lane[k].ids) \subseteq lost'
      <4>1. CASE k = 1
        <5>1. lane # <<>>
          BY <3>3
        <5>2. QED
          BY <3>2, <4>1, <5>1
      <4>2. CASE k # 1
        <5>1. k \in 2..Len(lane)
          BY <2>0, <3>3, <4>2
        <5>2. QED
          BY <3>1, <4>2, <5>1
      <4>3. QED
        BY <4>1, <4>2
    <3>4. QED
      BY <3>1, <3>3 DEF GivenUp
  <2>3. QED
    BY <2>1, <2>2
<1>6. queue = NoQueue
  BY <1>0, <1>1, Draining
<1>7. QED
  BY <1>1, <1>2, <1>3, <1>4, <1>5, <1>6, DrainCursor

(* The next turn of the drain keeps the invariant.                         *)
LEMMA DrainLoopCursor ==
    ASSUME CursorInv, DrainLoop
    PROVE  Side' /\ (Incomplete' \/ Cover')
<1>0. Core
  BY DEF CursorInv
<1>1. /\ UNCHANGED <<server, queue, laneOk, rebuilds, history>> /\ UNCHANGED <<cursor, applied>>
      /\ flush.phase = "loop"
  BY DEF DrainLoop, positions
<1>2. CASE pending # <<>>
  <2>1. flush' = Detached(flush, pending) /\ pending' = <<>> /\ lane' = lane
    BY <1>2 DEF DrainLoop
  <2>2. Range(flush.ids) = {} /\ Range(flush'.ids) = Range(pending) /\ Range(pending') = {}
    BY <1>0, <1>1, <1>2, <2>1, Detaches
  <2>3. Kept(lane, lane')
    BY <2>1, SameLane
  <2>4. /\ UNCHANGED <<log, link, sent, request, wire, queue, boot, snapshot, rebuild, deferred>>
        /\ UNCHANGED <<durable, failed, lost, laneOk>>
    BY <1>1 DEF server, rebuilds, history
  <2>5. QED
    BY <1>1, <2>2, <2>3, <2>4, DrainCursor
<1>3. CASE pending = <<>>
  <2>1. FinishBatch(flush) /\ UNCHANGED pending /\ flush.held \in Flags
    BY <1>0, <1>1, <1>3, FlushFields DEF DrainLoop, FinishBatch
  <2>2. QED
    BY <1>1, <2>1, FinishCursor
<1>4. QED
  BY <1>2, <1>3

-----------------------------------------------------------------------------
(* Removal and bootstrap.                                                  *)

(* Clearing storage after a group removal leaves a bootstrap to be done.   *)
LEMMA RevokeClearCursor ==
    ASSUME CursorInv, RevokeClear
    PROVE  Side' /\ (Incomplete' \/ Cover')
<1>1. /\ UNCHANGED <<link, sent, request, wire, queue, boot, snapshot, rebuild, cursor, applied>>
      /\ UNCHANGED <<lane, laneOk>> /\ revoke = "clearing"
  BY DEF RevokeClear, server, positions, queues
<1>2. rebuild /\ queue = NoQueue
  BY <1>1 DEF CursorInv, Core, RebuildGood
<1>3. Side'
  BY <1>1, <1>2 DEF CursorInv, Side, LinkGood, LaneStopped, LaneFront, BootGood
<1>4. QED
  BY <1>1, <1>2, <1>3 DEF Incomplete

(* Clearing storage before a snapshot is written keeps the invariant: what *)
(* the first bootstrap of a session clears, its snapshot has.              *)
LEMMA BootClearCursor ==
    ASSUME CursorInv, BootClear
    PROVE  Side' /\ (Incomplete' \/ Cover')
<1>0. Core
  BY DEF CursorInv
<1>1. /\ UNCHANGED <<log, link, sent, request, wire, queue, snapshot, cursor, applied, pending>>
      /\ UNCHANGED <<flush, lane, laneOk, failed, lost, deferred>>
      /\ boot = "fetched" /\ boot' = "cleared" /\ durable' = {} /\ rebuild'
  BY DEF BootClear, server, positions, queues
<1>2. LinkGood' /\ LaneStopped' /\ LaneFront'
  BY <1>1 DEF CursorInv, Side, LinkGood, LaneStopped, LaneFront
<1>3. BootGood'
  BY <1>1 DEF CursorInv, Side, BootGood
<1>4. ASSUME ~Incomplete' PROVE Cover'
  <2>1. Cover /\ queue # NoQueue
    BY <1>1, <1>4 DEF CursorInv, Incomplete
  <2>2. durable \subseteq 1..Start /\ Start <= snapshot
    BY <1>1, <2>1 DEF CursorInv, Side, BootGood
  <2>3. Start \in Nat /\ snapshot \in Int
    <3>1. Start \in Nat /\ head \in Nat /\ snapshot \in 0..head
      BY <1>0, Rows DEF Core, ClientTyped
    <3>2. QED
      BY <3>1
  <2>4. durable \subseteq Snap' /\ Snap = {}
    <3>1. Snap' = 1..snapshot /\ Snap = {}
      BY <1>1 DEF Snap
    <3>2. 1..Start \subseteq 1..snapshot
      BY <2>2, <2>3
    <3>3. QED
      BY <2>2, <3>1, <3>2
  <2>5. Loose \subseteq Loose'
    <3>1. Unstored' = Unstored /\ InMemory' = InMemory
      BY <1>1 DEF Unstored, Ids, InMemory
    <3>2. QED
      BY <1>1, <2>4, <3>1 DEF Loose
  <2>6. InLane \subseteq Safe' /\ \A i \in Range(flush.ids) \cup Range(pending) : i \in Held'
    <3>1. InLane' = InLane
      BY <1>1 DEF InLane
    <3>2. QED
      BY <1>1, <3>1 DEF Safe, Held
  <2>7. Safe \subseteq Safe' /\ Held \subseteq Held'
    BY <2>5, <2>6, HeldNext
  <2>8. Down(cursor', Safe') /\ Down(applied', Held')
    BY <1>1, <2>1, <2>7, CoverParts, DownMono
  <2>9. \A j \in Range(flush'.ids) : Down(j, Safe' \cup Range(flush'.ids))
    BY <1>1, <2>1, <2>7, CoverParts DEF Down
  <2>10. Jobs(Safe', Loose', lane')
    BY <1>1, <2>1, <2>5, <2>7, CoverParts, JobsMono
  <2>11. QED
    BY <1>1, <2>1, <2>5, <2>6, <2>8, <2>9, <2>10, MoveCover
<1>5. QED
  BY <1>2, <1>3, <1>4 DEF Side

(* Replaying the deferred deltas keeps Cover.                              *)
LEMMA ReplayCover ==
    ASSUME Core, Cover, Taken(Waiting), Waiting \in Seq(1..head), Removals(Waiting) = {},
           queue' = NoQueue, applied' = MaxOf(Range(Waiting) \cup {applied}, 0),
           UNCHANGED <<log, sent, request, wire, cursor, lane, failed, lost, deferred>>,
           durable \subseteq durable', Snap \subseteq Snap' \cup durable'
    PROVE  Cover'
<1> DEFINE ids == Waiting
<1>1. queue = NoQueue \/ ids = queue
  BY DEF Waiting
<1>2. \A j \in Range(ids) : Down(j, Held \cup Range(ids))
  <2>1. CASE queue = NoQueue
    BY <2>1, RangeEmpty DEF Waiting
  <2>2. CASE queue # NoQueue
    <3>1. \A j \in Range(queue) : Down(j, Safe)
      BY <2>2, CoverParts
    <3>2. ids = queue /\ Safe \subseteq Held
      BY <2>2, Within DEF Waiting
    <3>3. QED
      BY <3>1, <3>2 DEF Down
  <2>3. QED
    BY <2>1, <2>2
<1>3. \A i \in InLane : i \in InLane'
  BY DEF InLane
<1> HIDE DEF ids
<1>4. ids \in Seq(1..head) /\ Removals(ids) = {} /\ Taken(ids)
      /\ applied' = MaxOf(Range(ids) \cup {applied}, 0)
  BY DEF ids
<1>5. /\ Loose \subseteq Loose' /\ Safe \subseteq Safe' /\ Held \subseteq Held'
      /\ Batches(Safe', Held', flush', pending', queue') /\ Down(applied', Held')
  BY <1>1, <1>2, <1>3, <1>4, TakenCover
<1>6. Stream(Safe', Held', cursor, applied, request, sent, wire)
  BY <1>5, StreamMono DEF Cover
<1>7. Stream(Safe', Held', cursor', applied', request', sent', wire')
  BY <1>5, <1>6 DEF Stream
<1>8. Jobs(Safe', Loose', lane')
  BY <1>5, CoverParts, JobsMono
<1>9. QED
  BY <1>5, <1>7, <1>8 DEF Cover

(* The end of a bootstrap keeps the clauses about the link and the lane.   *)
LEMMA BootSide ==
    ASSUME CursorInv, UNCHANGED <<link, sent, request, wire, lane, laneOk>>,
           queue' = NoQueue, boot' \in {"idle", "fetching"}
    PROVE  Side'
<1>1. LinkGood' /\ LaneStopped' /\ LaneFront'
  BY DEF CursorInv, Side, LinkGood, LaneStopped, LaneFront
<1>2. BootGood'
  BY DEF BootGood
<1>3. QED
  BY <1>1, <1>2 DEF Side

(* A failed bootstrap keeps the invariant.                                 *)
LEMMA BootFailsCursor ==
    ASSUME CursorInv, BootFails
    PROVE  Side' /\ (Incomplete' \/ Cover')
<1>0. Core
  BY DEF CursorInv
<1>1. /\ UNCHANGED <<log, link, sent, request, wire, cursor, lane, laneOk, failed, lost, deferred>>
      /\ durable' = durable /\ boot' \in {"idle", "fetching"}
      /\ ReplayQueuedDeltas(rebuild, revokedAt)
  BY DEF BootFails, server
<1>2. /\ queue' = NoQueue /\ Taken(Waiting) /\ Waiting \in Seq(1..head)
      /\ Removals(Waiting) # {} => rebuild'
      /\ Removals(Waiting) = {} => (rebuild' <=> rebuild)
  <2>1. rebuild \in BOOLEAN /\ revokedAt \in 0..head /\ (revoke # "idle" => rebuild)
    BY <1>0 DEF Core, HistoryTyped, RebuildGood
  <2>2. QED
    BY <1>0, <1>1, <2>1, ReplayFacts
<1>3. applied' = MaxOf(Range(Waiting) \cup {applied}, 0)
  BY <1>1 DEF ReplayQueuedDeltas, Waiting
<1>4. Side'
  BY <1>1, <1>2, BootSide
<1>5. ASSUME ~Incomplete' PROVE Cover'
  <2>1. Removals(Waiting) = {} /\ ~rebuild
    BY <1>2, <1>5 DEF Incomplete
  <2>2. Cover
    BY <2>1 DEF CursorInv, Incomplete
  <2>3. Snap = {}
    BY <1>0, <2>1 DEF Core, RebuildGood, Snap
  <2>4. QED
    BY <1>0, <1>1, <1>2, <1>3, <2>1, <2>2, <2>3, ReplayCover
<1>6. QED
  BY <1>4, <1>5

(* Storing a snapshot keeps the invariant: deferred deltas are replayed on *)
(* top of it, and on a reconnect everything the client had is at or below  *)
(* it.                                                                     *)
LEMMA BootStoreCursor ==
    ASSUME CursorInv, BootStore
    PROVE  Side' /\ (Incomplete' \/ Cover')
<1> DEFINE rb == revoke # "idle"
           since == IF snapshot >= revokedAt THEN 0 ELSE revokedAt
<1>0. Core /\ head \in Nat /\ snapshot \in 0..head /\ revokedAt \in 0..head
  BY FlushFields DEF CursorInv, Core, ClientTyped, HistoryTyped
<1>1. /\ UNCHANGED <<log, link, sent, request, wire, cursor, lane, laneOk, failed, lost, deferred>>
      /\ boot = "cleared" /\ boot' = "idle" /\ durable' = durable \cup 1..snapshot
      /\ ReplayQueuedDeltas(rb, since)
  BY DEF BootStore, server
<1>2. rb \in BOOLEAN /\ since \in 0..head /\ (revoke # "idle" => rb)
  BY <1>0
<1> HIDE DEF rb, since
<1>3. /\ queue' = NoQueue /\ Taken(Waiting) /\ Waiting \in Seq(1..head)
      /\ Removals(Waiting) # {} => rebuild'
      /\ queue = NoQueue => flush' = flush /\ pending' = pending
  BY <1>0, <1>1, <1>2, ReplayFacts
<1>4. applied' = MaxOf(Range(Waiting) \cup {applied}, 0)
  BY <1>1 DEF ReplayQueuedDeltas, Waiting
<1>5. Side'
  BY <1>1, <1>3, BootSide
<1>6. Snap \subseteq durable'
  BY <1>1 DEF Snap
<1>7. CASE queue # NoQueue
  <2>1. SUFFICES ASSUME ~Incomplete' PROVE Cover'
    BY <1>5
  <2>2. Cover
    BY <1>7 DEF CursorInv, Incomplete
  <2>3. Removals(Waiting) = {}
    BY <1>3, <2>1 DEF Incomplete
  <2>4. QED
    BY <1>0, <1>1, <1>3, <1>4, <1>6, <2>2, <2>3, ReplayCover
<1>8. CASE queue = NoQueue
  <2>1. /\ cursor <= snapshot /\ applied <= snapshot
        /\ \A k \in 1..Len(lane) : lane[k].position <= snapshot
    BY <1>1, <1>8 DEF CursorInv, Side, BootGood
  <2>2. /\ \A i \in Range(pending) : i <= snapshot
        /\ \A i \in Range(flush.ids) : i <= snapshot
        /\ \A k \in 1..Len(lane) : \A i \in Range(lane[k].ids) : i <= snapshot
        /\ ~link
    BY <1>0, <1>1, <1>8 DEF Core, RebuildGood
  <2>3. wire = <<>> /\ request = -1 /\ sent = -1
    BY <2>2 DEF CursorInv, Side, LinkGood
  <2>4. applied' = applied
    <3>1. Waiting = <<>> /\ Range(<<>>) = {} /\ <<>> \in Seq(1..head)
      BY <1>8, RangeEmpty DEF Waiting
    <3>2. applied \in 0..head
      BY <1>0, FlushFields
    <3>3. applied' \in Range(Waiting) \cup {applied}
      BY <1>0, <1>3, <1>4, <3>2, AppliedOne
    <3>4. QED
      BY <3>1, <3>3
  <2>5. 1..snapshot \subseteq Loose' /\ Loose' \subseteq Safe' /\ Safe' \subseteq Held'
    <3>1. durable' \subseteq Loose' /\ Loose' \subseteq Safe' /\ Safe' \subseteq Held'
      BY DEF Loose, Safe, Held
    <3>2. QED
      BY <1>1, <3>1
  <2>6. \A n \in Int : n <= snapshot => \A i \in 1..n : i \in Loose' /\ i \in Safe' /\ i \in Held'
    <3>1. \A n \in Int : n <= snapshot => \A i \in 1..n : i \in 1..snapshot
      BY <1>0
    <3>2. QED
      BY <2>5, <3>1
  <2>7. cursor \in Int /\ applied \in Int
    <3>1. cursor \in 0..head /\ applied \in 0..head
      BY <1>0, FlushFields
    <3>2. QED
      BY <1>0, <3>1
  <2>8. Down(cursor', Safe') /\ Down(applied', Held')
    BY <1>1, <2>1, <2>4, <2>6, <2>7 DEF Down
  <2>9. Stream(Safe', Held', cursor', applied', request', sent', wire')
    BY <1>1, <2>3, <2>8, Nothing DEF Stream
  <2>10. \A j \in Range(flush'.ids) \cup Range(pending') : j \in Int /\ j <= snapshot
    <3>1. Range(flush.ids) \subseteq 1..head
      BY <1>0, FlushFields
    <3>2. Range(pending) \subseteq 1..head
      BY <1>0, FlushFields, RangeIn
    <3>3. QED
      BY <1>0, <1>3, <1>8, <2>2, <3>1, <3>2
  <2>11. Batches(Safe', Held', flush', pending', queue')
    BY <1>3, <2>6, <2>10 DEF Batches, Down
  <2>12. Jobs(Safe', Loose', lane')
    <3>1. \A k \in 1..Len(lane) :
              /\ lane[k].position \in Int
              /\ \A i \in Range(lane[k].ids) : i \in 1..head
      <4>1. \A k \in 1..Len(lane) : Range(lane[k].ids) \subseteq 1..head
        BY <1>0, JobIds DEF Core
      <4> DEFINE J == JobType(head)
      <4>2. lane \in Seq(J) /\ \A e \in J : e.position \in Int
        BY <1>0, FlushFields DEF JobType
      <4> HIDE DEF J
      <4>3. \A k \in 1..Len(lane) : lane[k] \in J
        BY <4>2
      <4>4. QED
        BY <4>1, <4>2, <4>3
    <3>2. \A k \in 1..Len(lane) : Down(lane[k].position, Safe')
      BY <2>1, <2>6, <3>1 DEF Down
    <3>3. \A k \in 1..Len(lane) : \A i \in Range(lane[k].ids) : i \in Loose'
      <4>1. \A k \in 1..Len(lane) : \A i \in Range(lane[k].ids) : i \in 1..snapshot
        BY <1>0, <2>2, <3>1
      <4>2. QED
        BY <2>5, <4>1
    <3>4. QED
      BY <1>1, <3>2, <3>3 DEF Jobs
  <2>13. QED
    BY <1>5, <2>9, <2>11, <2>12 DEF Cover
<1>9. QED
  BY <1>7, <1>8

-----------------------------------------------------------------------------
(* The invariant, and what it says of the cursor.                          *)

(* The invariant holds when the session starts.                            *)
LEMMA InitCursor ==
    ASSUME Init
    PROVE  CursorInv
<1>1. Core
  BY InitCore
<1>2. /\ link = FALSE /\ sent = -1 /\ request = -1 /\ wire = <<>> /\ cursor = Start /\ applied = Start
      /\ pending = <<>> /\ queue = <<>> /\ lane = <<>> /\ laneOk = TRUE /\ flush = Idle
      /\ boot = "fetching" /\ durable = 1..Start /\ rebuild = FALSE
  BY DEF Init
<1>3. Range(<<>>) = {} /\ 1..Len(<<>>) = {}
  BY RangeEmpty
<1>4. Range(flush.ids) = {} /\ Range(pending) = {} /\ Range(queue) = {} /\ 1..Len(lane) = {}
  <2>1. flush.ids = <<>>
    BY <1>2 DEF Idle
  <2>2. QED
    BY <1>2, <1>3, <2>1
<1>5. Side
  <2>1. queue # NoQueue
    BY <1>2, RangeEmpty, <1>1, FlushFields, NoQueueFacts
  <2>2. BootGood
    BY <1>2, <2>1 DEF BootGood
  <2>3. QED
    BY <1>2, <1>4, <2>2 DEF Side, LinkGood, LaneStopped, LaneFront
<1>6. Cover
  <2>1. 1..Start \subseteq Safe /\ Safe \subseteq Held
    BY <1>2, Within
  <2>2. Down(cursor, Safe) /\ Down(applied, Held)
    BY <1>2, <2>1 DEF Down
  <2>3. Stream(Safe, Held, cursor, applied, request, sent, wire)
    BY <1>2, <2>2, Nothing DEF Stream
  <2>4. Batches(Safe, Held, flush, pending, queue) /\ Jobs(Safe, Loose, lane)
    BY <1>4 DEF Batches, Jobs
  <2>5. QED
    BY <2>3, <2>4 DEF Cover
<1>7. QED
  BY <1>1, <1>5, <1>6 DEF CursorInv

(* Every step keeps the invariant.                                         *)
LEMMA NextCursor ==
    ASSUME CursorInv, [Next]_vars
    PROVE  CursorInv'
<1>1. Core'
  BY NextCore DEF CursorInv
<1>2. Side' /\ (Incomplete' \/ Cover')
  <2>1. CASE Open \/ Poll \/ Drop \/ ForceFullRebootstrap \/ BootFetch \/ UNCHANGED vars
    BY <2>1, QuietCursor
  <2>2. CASE Publish
    BY <2>2, PublishCursor
  <2>3. CASE Answer
    BY <2>3, AnswerCursor
  <2>4. CASE Receive
    BY <2>4, ReceiveCursor
  <2>5. CASE LaneStart
    BY <2>5, LaneStartCursor
  <2>6. CASE LaneAck
    BY <2>6, LaneAckCursor
  <2>7. CASE TimerFires
    BY <2>7, TimerFiresCursor
  <2>8. CASE PersistRead
    BY <2>8, PersistReadCursor
  <2>9. CASE PersistWrite
    BY <2>9, PersistWriteCursor
  <2>10. CASE PersistDone
    BY <2>10, PersistDoneCursor
  <2>11. CASE ApplySlice
    BY <2>11, ApplySliceCursor
  <2>12. CASE ApplyThrows
    BY <2>12, ApplyThrowsCursor
  <2>13. CASE Acknowledge
    BY <2>13, AcknowledgeCursor
  <2>14. CASE DrainLoop
    BY <2>14, DrainLoopCursor
  <2>15. CASE RevokeClear
    BY <2>15, RevokeClearCursor
  <2>16. CASE BootClear
    BY <2>16, BootClearCursor
  <2>17. CASE BootStore
    BY <2>17, BootStoreCursor
  <2>18. CASE BootFails
    BY <2>18, BootFailsCursor
  <2>19. QED
    BY <2>1, <2>2, <2>3, <2>4, <2>5, <2>6, <2>7, <2>8, <2>9, <2>10, <2>11, <2>12, <2>13, <2>14,
       <2>15, <2>16, <2>17, <2>18 DEF Next
<1>3. QED
  BY <1>1, <1>2 DEF CursorInv

(* The invariant of the resume cursor: in every reachable state the        *)
(* cursor, a catch-up request in flight, the applied position and          *)
(* everything on its way to the client have nothing below them that the    *)
(* client would still have to fetch (syncCursor.ts, deltaPipeline.ts,      *)
(* socketEventWiring.ts).                                                  *)
THEOREM CursorInvariant == Spec => []CursorInv
<1>1. Init => CursorInv
  BY InitCursor
<1>2. CursorInv /\ [Next]_vars => CursorInv'
  BY NextCursor
<1>3. QED
  BY <1>1, <1>2, PTL DEF Spec

(* No catch-up request skips a delta the client still lacks: every visible *)
(* position at or below the resume cursor is stored, or failed, was lost   *)
(* in delivery, or was deferred and is still in memory, for every log,     *)
(* batch size and number of faults.                                        *)
THEOREM CursorCovered == Spec => []CursorCovers
<1>1. CursorInv => CursorCovers
  <2>1. SUFFICES ASSUME CursorInv, ~rebuild, NEW i \in 1..cursor
                 PROVE  \/ log[i].kind \in {"S", "X"}
                        \/ i \in durable \cup failed \cup lost
                        \/ i \in (deferred \cap InMemory) \cup InLane
    BY DEF CursorCovers
  <2>2. Core /\ Cover
    BY <2>1 DEF CursorInv, Incomplete
  <2>3. i \in Safe
    BY <2>2, CoverParts DEF Down
  <2>4. Snap = {}
    BY <2>1, <2>2 DEF Core, RebuildGood, Snap
  <2>5. QED
    BY <2>3, <2>4 DEF Safe, Loose, Unstored
<1>2. QED
  BY <1>1, CursorInvariant, PTL

=============================================================================
