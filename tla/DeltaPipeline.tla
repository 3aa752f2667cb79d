---------------------------- MODULE DeltaPipeline ----------------------------
(***************************************************************************)
(* The client side of delta delivery: frames from the WebSocket, the       *)
(* pending queue and its debounce, the single-flight drain that writes a   *)
(* detached batch to IndexedDB store by store and then reveals it to the   *)
(* pool slice by slice, the acknowledgement that moves the resume cursor,  *)
(* the catch-up lane, the sync-group removal that clears everything, and   *)
(* the bootstrap that rebuilds it.  The server is external: a log that is  *)
(* published in order, live broadcasts, and answers to catch-up requests.  *)
(***************************************************************************)
EXTENDS DeltaBatch

CONSTANTS
    Scenarios,      \* the server's logs, each with the way it answers catch-up requests
    Start,          \* how much of the log was stored before this session
    MaxBatchSize,   \* smartSyncOptions.maxBatchSize
    SliceDeltas,    \* smartSyncOptions.applySliceDeltas
    MaxQueued,      \* bound: frames and deltas not yet dealt with when a poll is sent
    MaxFaults       \* bound: broadcasts lost, store transactions and record fetches that
                    \* fail, pool applications that throw, connections lost, bootstraps failed

(* The server logs a commit in one piece: between two positions of one     *)
(* transaction there is no position of another.                            *)
InOnePiece(l) ==
    \A i, k \in 1..Len(l) : l[i].tx # NoTx /\ l[i].tx = l[k].tx =>
                                \A j \in i..k : l[j].tx = l[i].tx

ASSUME DeltaAssumption ==
    /\ \A s \in Scenarios : /\ s.log \in Seq(Delta) /\ s.mode \in {"batch", "chunks"}
                            /\ Start <= Len(s.log) /\ InOnePiece(s.log)
    /\ MaxBatchSize \in Nat \ {0} /\ SliceDeltas \in Nat \ {0}
    /\ {Start, MaxQueued, MaxFaults} \subseteq Nat

VARIABLES
    log, mode, head, \* the server's log, its way to answer, how much of the log is published
    link,           \* is the socket open
    sent,           \* how far the server has sent on this connection, -1 before its first answer
    request,        \* the sync_request in flight: its cursor, or -1
    wire,           \* frames in flight to the client, in order
    cursor,         \* SyncCursor.lastSyncId
    applied,        \* LogPosition.applied, the duplicate threshold of live deltas
    persisted,      \* LogPosition.persisted
    meta,           \* workspace metadata lastSyncId on disk
    pending,        \* pendingDeltas
    timer,          \* is the debounce timer running
    queue,          \* bootstrapDeltaQueue, or NoQueue
    lane,           \* catch-up jobs: [ids, position, state]
    laneOk,         \* FALSE once the lane's promise has rejected
    flush,          \* the drain in progress
    stored, pool,   \* IndexedDB records, and the watermarks of resident rows
    revoke,         \* the group-removed handler: "idle", "clearing", "cleared"
    boot, snapshot, \* bootstrapFromServer: its phase and its snapshot position
    durable, failed, lost, deferred, rebuild, revokedAt,    \* history
    faults          \* how many faults have happened

server    == <<log, mode, head, sent, request, wire, link>>
positions == <<cursor, applied, persisted, meta>>
queues    == <<pending, timer, queue, lane, laneOk>>
tables    == <<stored, pool>>
rebuilds  == <<revoke, boot, snapshot>>
history   == <<durable, failed, lost, deferred, rebuild, revokedAt>>
vars == <<server, positions, queues, flush, tables, rebuilds, history, faults>>

NoQueue == <<-1>>

(* The drain.  `current` is FALSE once clearPendingPublications has run    *)
(* since the batch was detached: its publication generation is outdated.   *)
(* `held` are the actions of unappliedChanges, which outlive their batch.  *)
Idle == [phase |-> "idle", current |-> TRUE, ids |-> <<>>, todo |-> {}, read |-> <<>>,
         ok |-> {}, acts |-> <<>>, prefix |-> 0, done |-> 0, held |-> <<>>]
Rested(f) == [Idle EXCEPT !.held = f.held]

Visible(i) == log[i].kind # "X"
VisibleIn(lo, hi) == InOrder({i \in (lo + 1)..hi : Visible(i)})
IsRemoval(id) == log[id].kind = "S"
Frame(type, ids, to) == [type |-> type, ids |-> ids, to |-> to]

Fault == faults < MaxFaults /\ faults' = faults + 1

(* The session starts on hydrated local data with the background bootstrap *)
(* running, live deltas deferred, and the socket about to open.            *)
Init ==
    /\ \E s \in Scenarios : log = s.log /\ mode = s.mode
    /\ head = Start
    /\ link = FALSE /\ sent = -1 /\ request = -1 /\ wire = <<>>
    /\ cursor = Start /\ applied = Start /\ persisted = Start /\ meta = Start
    /\ pending = <<>> /\ timer = FALSE /\ queue = <<>>
    /\ lane = <<>> /\ laneOk = TRUE
    /\ flush = Idle
    /\ stored = [r \in Row |-> ImageAt(log, Start, r)]
    /\ pool = [r \in Row |-> IF ImageAt(log, Start, r) = NoRow THEN 0 ELSE Start]
    /\ revoke = "idle" /\ boot = "fetching" /\ snapshot = 0
    /\ durable = 1..Start /\ failed = {} /\ lost = {} /\ deferred = {}
    /\ rebuild = FALSE /\ revokedAt = 0
    /\ faults = 0

-----------------------------------------------------------------------------
(* The server (external) and the connection.                               *)

(* A delta is committed.  A connection the server has brought up to date   *)
(* gets it live, or the broadcast is lost: delivery is best effort.        *)
Publish ==
    /\ head < Len(log)
    /\ head' = head + 1
    /\ LET i == head + 1
           live == link /\ sent = head
       IN  /\ sent' = IF live THEN i ELSE sent
           /\ \/ /\ live /\ Visible(i)
                 /\ wire' = Append(wire, Frame("delta", <<i>>, i))
                 /\ UNCHANGED <<lost, faults>>
              \/ /\ live /\ Visible(i) /\ Fault
                 /\ lost' = lost \cup {i}
                 /\ wire' = wire
              \/ /\ ~live \/ ~Visible(i)
                 /\ UNCHANGED <<wire, lost, faults>>
    /\ UNCHANGED <<log, mode, link, request, positions, queues, flush, tables,
                   rebuilds, durable, failed, deferred, rebuild, revokedAt>>

(* onOpened: the socket opens and asks for everything after the cursor.    *)
Open ==
    /\ ~link /\ (boot = "idle" \/ queue # NoQueue)
    /\ link' = TRUE /\ sent' = -1 /\ request' = cursor
    /\ UNCHANGED <<log, mode, head, wire, positions, queues, flush, tables, rebuilds, history,
                   faults>>

(* The 30 second catch-up poll.  What earlier answers left to do bounds it. *)
Backlog ==
    Len(wire) + Len(lane) + (IF queue = NoQueue THEN 0 ELSE Len(queue))
              + (IF flush.phase = "idle" THEN 0 ELSE Len(pending))

Poll ==
    /\ link /\ request = -1 /\ Backlog <= MaxQueued
    /\ request' = cursor
    /\ UNCHANGED <<log, mode, head, link, sent, wire, positions, queues, flush, tables,
                   rebuilds, history, faults>>

(* The answer to a catch-up request: one sync_response, or an exchange of  *)
(* chunks, here of one position each, that ends at the server's head.      *)
Answer ==
    /\ link /\ request # -1
    /\ request' = -1 /\ sent' = head
    /\ wire' = wire \o
            IF mode = "batch"
            THEN <<Frame("batch", VisibleIn(request, head), head)>>
            ELSE [k \in 1..(head - request) |->
                    Frame("chunk", VisibleIn(request + k - 1, request + k), request + k)]
                 \o <<Frame("end", <<>>, head)>>
    /\ UNCHANGED <<log, mode, head, link, positions, queues, flush, tables, rebuilds, history,
                   faults>>

(* The socket is gone, with the frames in flight.                          *)
Disconnected == link' = FALSE /\ wire' = <<>> /\ request' = -1 /\ sent' = -1

(* performReconnect fetches a full bootstrap before it opens the socket.   *)
PerformReconnect == boot' = IF boot = "idle" THEN "fetching" ELSE boot

(* The connection drops.  The transport's own retry opens a socket that    *)
(* only sends the cursor again; a reconnect of the manager bootstraps.     *)
Drop ==
    /\ link /\ Fault
    /\ Disconnected
    /\ PerformReconnect \/ boot' = boot
    /\ UNCHANGED <<log, mode, head, positions, queues, flush, tables, revoke, snapshot,
                   history>>

-----------------------------------------------------------------------------
(* Enqueue and the start of a drain.                                       *)

(* enqueueDelta over the ids of one frame: the applied position advances,  *)
(* a group removal drops what was queued before it, invalidates the batch  *)
(* being drained and starts its handler, and the rest is appended.         *)
Removals(ids) == {k \in 1..Len(ids) : IsRemoval(ids[k])}
Appended(ids) ==
    LET cut == MaxOf(Removals(ids), 0)
    IN  (IF cut = 0 THEN pending ELSE <<>>) \o SubSeq(ids, cut + 1, Len(ids))
RunningStaysCurrent(ids) == flush     \* mutant: a removal leaves the batch being drained alone
Running(ids) ==
    IF Removals(ids) = {} THEN flush
    ELSE [flush EXCEPT !.current = flush.phase = "idle", !.held = <<>>]

EnqueueSideEffects(ids) ==
    /\ applied' = MaxOf(Range(ids) \cup {applied}, 0)
    /\ IF Removals(ids) # {}
       THEN /\ revoke' = "clearing"
            /\ rebuild' = TRUE
            /\ revokedAt' = MaxOf({ids[k] : k \in Removals(ids)}, 0)
       ELSE UNCHANGED <<revoke, rebuild, revokedAt>>

(* drainPendingDeltas detaches the queue before its first await.           *)
Detached(running, ids) ==
    LET batch == DeduplicateDeltas(ids)
        super == {id \in Range(batch) : Superseded(log, batch, id)}
    IN  [Rested(running) EXCEPT !.phase = "persist", !.ids = batch,
                                !.todo = StoresOf(log, batch), !.ok = super,
                                !.acts = [id \in super |-> "verify"]]

(* flushPendingDeltas: single flight.  A drain in progress picks up what   *)
(* is pending before it ends.                                              *)
FlushPendingDeltas(running, p) ==
    IF running.phase = "idle" /\ p # <<>>
    THEN flush' = Detached(running, p) /\ pending' = <<>>
    ELSE flush' = running /\ pending' = p

(* persistDeltaFrame: an authoritative frame bypasses the duplicate check  *)
(* and is flushed at once.                                                 *)
PersistDeltaFrame(ids) ==
    /\ EnqueueSideEffects(ids)
    /\ IF \E id \in Range(ids) : ~IsRemoval(id)
       THEN FlushPendingDeltas(Running(ids), Appended(ids)) /\ timer' = FALSE
       ELSE pending' = Appended(ids) /\ flush' = Running(ids) /\ UNCHANGED timer

(* While a background bootstrap runs, deltas wait in its queue.            *)
Defer(ids) ==
    /\ queue' = queue \o ids
    /\ UNCHANGED <<applied, revoke, rebuild, revokedAt, pending, timer, flush>>

ReceiveFrame(ids) ==
    \/ queue # NoQueue /\ Defer(ids)
    \/ queue = NoQueue /\ PersistDeltaFrame(ids) /\ UNCHANGED queue

(* One live delta: skipped at or below the applied position, otherwise     *)
(* queued behind the debounce timer or flushed at the batch size.          *)
ReceiveLive(id) ==
    \/ /\ id <= applied
       /\ UNCHANGED <<applied, revoke, rebuild, revokedAt, deferred, queue, pending, timer, flush>>
    \/ id > applied /\ queue # NoQueue /\ Defer(<<id>>) /\ deferred' = deferred \cup {id}
    \/ /\ id > applied /\ queue = NoQueue
       /\ EnqueueSideEffects(<<id>>)
       /\ UNCHANGED <<queue, deferred>>
       /\ LET p == Appended(<<id>>)
          IN  IF IsRemoval(id)
              THEN pending' = p /\ flush' = Running(<<id>>) /\ UNCHANGED timer
              ELSE IF Len(p) >= MaxBatchSize
              THEN FlushPendingDeltas(flush, p) /\ timer' = FALSE
              ELSE pending' = p /\ timer' = TRUE /\ UNCHANGED flush

Receive ==
    /\ link /\ wire # <<>>
    /\ wire' = Tail(wire)
    /\ LET f == Head(wire)
       IN  \/ /\ f.type = "delta"
              /\ ReceiveLive(f.ids[1])
              /\ UNCHANGED <<cursor, lane, lost>>
           \/ /\ f.type = "batch" /\ f.ids # <<>>
              /\ ReceiveFrame(f.ids)
              /\ deferred' = IF queue = NoQueue THEN deferred ELSE deferred \cup Range(f.ids)
              /\ UNCHANGED <<cursor, lane, lost>>
           \/ /\ f.type = "batch" /\ f.ids = <<>>     \* nothing visible: adopt the head
              /\ cursor' = f.to
              /\ UNCHANGED <<applied, revoke, rebuild, revokedAt, deferred, queue, pending,
                             timer, flush, lane, lost>>
           \/ /\ f.type \in {"chunk", "end"}      \* a rejected lane runs nothing more
              /\ IF laneOk
                 THEN /\ lane' = Append(lane, [ids |-> f.ids, position |-> f.to,
                                               state |-> "new"])
                      /\ lost' = lost
                 ELSE lost' = lost \cup Range(f.ids) /\ lane' = lane
              /\ UNCHANGED <<cursor, applied, revoke, rebuild, revokedAt, deferred, queue,
                             pending, timer, flush>>
    /\ UNCHANGED <<log, mode, head, link, sent, request, persisted, meta, laneOk, tables, boot,
                   snapshot, durable, failed, faults>>

(* catchUpLane: each chunk is persisted as a frame, then its raw position  *)
(* is acknowledged.  A frame that queued nothing resolves at once.         *)
LaneStart ==
    /\ lane # <<>> /\ lane[1].state = "new"
    /\ ReceiveFrame(lane[1].ids)
    /\ deferred' = deferred \cup Range(lane[1].ids)
    /\ lane' = [lane EXCEPT ![1].state =
                    IF queue = NoQueue /\ \E id \in Range(lane[1].ids) : ~IsRemoval(id)
                    THEN "await" ELSE "done"]
    /\ UNCHANGED <<server, cursor, persisted, meta, laneOk, tables, boot, snapshot, durable,
                   failed, lost, faults>>

LaneAck ==
    /\ lane # <<>> /\ lane[1].state = "done"
    /\ cursor' = Max2(cursor, lane[1].position)
    /\ lane' = Tail(lane)
    /\ UNCHANGED <<server, applied, persisted, meta, pending, timer, queue, laneOk, flush,
                   tables, rebuilds, history, faults>>

(* The debounce timer fires.                                               *)
TimerFires ==
    /\ timer /\ timer' = FALSE
    /\ FlushPendingDeltas(flush, pending)
    /\ UNCHANGED <<server, positions, queue, lane, laneOk, tables, rebuilds, history, faults>>

-----------------------------------------------------------------------------
(* The drain: Database.processDeltaBatch, the pool, the acknowledgement.   *)

CurrentStore == FirstStore(log, flush.ids, flush.todo)
CurrentDeltas == StoreDeltas(log, flush.ids, CurrentStore)

(* Step 1-2: read the records the store's updates need; a missing one is   *)
(* fetched from the server, which may fail.                                *)
PersistRead ==
    /\ flush.phase = "persist" /\ flush.todo # {} /\ flush.read = <<>>
    /\ \E fetched \in BOOLEAN :
        LET lacking == {id \in CurrentDeltas : /\ log[id].kind = "U"
                                               /\ stored[log[id].row] = NoRow
                                               /\ ImageAt(log, head, log[id].row) # NoRow}
        IN  /\ IF fetched THEN UNCHANGED faults ELSE lacking # {} /\ Fault
            /\ flush' = [flush EXCEPT !.read =
                    [r \in Row |-> IF stored[r] # NoRow THEN stored[r]
                                   ELSE IF fetched THEN ImageAt(log, head, r) ELSE NoRow]]
            /\ failed' = IF fetched THEN failed ELSE failed \cup lacking
    /\ UNCHANGED <<server, positions, queues, tables, rebuilds, durable, lost, deferred,
                   rebuild, revokedAt>>

(* Step 3-4: one read-write transaction for the store; it commits or fails *)
(* as a whole.                                                             *)
PersistWrite ==
    /\ flush.phase = "persist" /\ flush.read # <<>>
    /\ LET D == CurrentDeltas
           rest == flush.todo \ {CurrentStore}
           Acts(A(_)) == [id \in DOMAIN flush.acts \cup D |->
                            IF id \in D THEN A(id) ELSE flush.acts[id]]
       IN  \/ /\ stored' = AfterStore(log, stored, flush.read, D)
              /\ durable' = durable \cup D \cup flush.ok
              /\ flush' = [flush EXCEPT !.todo = rest, !.read = <<>>, !.ok = @ \cup D,
                                        !.acts = Acts(LAMBDA id : Action(log, flush.read, id))]
              /\ UNCHANGED <<failed, faults>>
           \/ /\ Fault
              /\ failed' = failed \cup D
              /\ flush' = [flush EXCEPT !.todo = rest, !.read = <<>>,
                                        !.acts = Acts(LAMBDA id : "verify")]
              /\ durable' = durable \cup flush.ok
              /\ UNCHANGED stored
    /\ UNCHANGED <<server, positions, queues, pool, rebuilds, lost, deferred, rebuild,
                   revokedAt>>

(* The end of a batch: the drain goes on while something is pending, and   *)
(* otherwise settles every caller that joined it.                          *)
Settled(l) == [k \in 1..Len(l) |-> IF l[k].state = "await" THEN [l[k] EXCEPT !.state = "done"]
                                   ELSE l[k]]
FinishBatch(f) ==
    IF pending # <<>>
    THEN flush' = [Rested(f) EXCEPT !.phase = "loop"] /\ UNCHANGED <<timer, lane>>
    ELSE flush' = Rested(f) /\ timer' = FALSE /\ lane' = Settled(lane)

(* A result of an earlier attempt that the pool did not take stands in for *)
(* one that has nothing to reveal.                                         *)
Revived(id) ==
    IF flush.acts[id] = "verify" /\ id \in DOMAIN flush.held THEN flush.held[id]
    ELSE flush.acts[id]

(* Every store is done: the metadata cursor moves to the durable prefix.   *)
(* An outdated batch ends here, unrevealed and unacknowledged.             *)
PersistDone ==
    /\ flush.phase = "persist" /\ flush.todo = {}
    /\ LET prefix == HighestPersistedPrefix(flush.ids, flush.ok)
       IN  /\ meta' = IF prefix > 0 THEN prefix ELSE meta
           /\ IF flush.current
              THEN /\ flush' = [flush EXCEPT !.phase = "apply", !.prefix = prefix,
                                             !.acts = [id \in DOMAIN @ |-> Revived(id)]]
                   /\ UNCHANGED <<timer, lane>>
              ELSE FinishBatch(flush)
    /\ UNCHANGED <<server, cursor, applied, persisted, pending, queue, laneOk, tables,
                   rebuilds, history, faults>>

(* One slice of the results becomes visible; a clear in the meantime ends  *)
(* the batch.                                                              *)
ApplySlice ==
    /\ flush.phase = "apply" /\ flush.done < Len(flush.ids)
    /\ IF flush.current
       THEN LET end == SliceEnd(ResultTxs(log, flush.ids, flush.ok, DOMAIN flush.held), flush.done,
                                SliceDeltas)
                slice == {flush.ids[k] : k \in (flush.done + 1)..end}
            IN  /\ pool' = Reveal(log, pool, slice, flush.acts)
                /\ flush' = [flush EXCEPT !.done = end]
                /\ UNCHANGED <<timer, lane>>
       ELSE FinishBatch(flush) /\ UNCHANGED pool
    /\ UNCHANGED <<server, positions, pending, queue, laneOk, stored, rebuilds, history,
                   faults>>

(* The pool throws: the batch goes back ahead of newer deltas, and the     *)
(* drain and the callers that joined it reject.  What it had to reveal is  *)
(* held for the next attempt.  When the catch-up lane is among the         *)
(* callers, its later jobs never run.                                      *)
ApplyThrows ==
    /\ flush.phase = "apply" /\ flush.done < Len(flush.ids) /\ flush.current
    /\ Fault
    /\ pending' = flush.ids \o pending
    /\ LET shown == {id \in Range(flush.ids) : flush.acts[id] # "verify"}
       IN  flush' = [Idle EXCEPT !.held =
                        [id \in shown \cup DOMAIN flush.held |->
                            IF id \in shown THEN flush.acts[id] ELSE flush.held[id]]]
    /\ laneOk' = (laneOk /\ \A k \in 1..Len(lane) : lane[k].state # "await")
    /\ lane' = IF laneOk' THEN lane ELSE <<>>
    /\ lost' = IF laneOk' THEN lost
               ELSE lost \cup UNION {Range(lane[k].ids) : k \in 2..Len(lane)}
    /\ UNCHANGED <<server, positions, timer, queue, tables, rebuilds, durable, failed, deferred,
                   rebuild, revokedAt>>

(* The batch is revealed: nothing of it is held any more.                  *)
Applied(f) ==
    IF f.current
    THEN [f EXCEPT !.held = [id \in DOMAIN f.held \ Range(f.ids) |-> f.held[id]]]
    ELSE f

(* Mutants: the applied position is acknowledged; the prefix is compared   *)
(* with the applied position instead of the persisted one.                 *)
AcknowledgeApplied ==
    /\ flush.phase = "apply" /\ flush.done = Len(flush.ids)
    /\ cursor' = Max2(cursor, applied) /\ persisted' = applied
    /\ FinishBatch(Applied(flush))
    /\ UNCHANGED <<server, applied, meta, pending, queue, laneOk, tables, rebuilds, history,
                   faults>>

AcknowledgeBeyondApplied ==
    /\ flush.phase = "apply" /\ flush.done = Len(flush.ids)
    /\ IF flush.current /\ flush.prefix > applied
       THEN cursor' = Max2(cursor, flush.prefix) /\ persisted' = flush.prefix
       ELSE UNCHANGED <<cursor, persisted>>
    /\ FinishBatch(Applied(flush))
    /\ UNCHANGED <<server, applied, meta, pending, queue, laneOk, tables, rebuilds, history,
                   faults>>

(* Every slice is visible: the durable prefix is acknowledged when it is   *)
(* beyond the last one.                                                    *)
Acknowledge ==
    /\ flush.phase = "apply" /\ flush.done = Len(flush.ids)
    /\ IF flush.current /\ flush.prefix > persisted
       THEN /\ cursor' = Max2(cursor, flush.prefix)
            /\ persisted' = flush.prefix
            /\ applied' = Max2(applied, flush.prefix)
       ELSE UNCHANGED <<cursor, persisted, applied>>
    /\ FinishBatch(Applied(flush))
    /\ UNCHANGED <<server, meta, pending, queue, laneOk, tables, rebuilds, history, faults>>

(* The next turn of the drain's loop, after it yielded to the host.        *)
DrainLoop ==
    /\ flush.phase = "loop"
    /\ IF pending # <<>>
       THEN flush' = Detached(flush, pending) /\ pending' = <<>> /\ lane' = lane
       ELSE flush' = Rested(flush) /\ UNCHANGED pending /\ lane' = Settled(lane)
    /\ timer' = FALSE
    /\ UNCHANGED <<server, positions, queue, laneOk, tables, rebuilds, history, faults>>

-----------------------------------------------------------------------------
(* Sync-group removal and bootstrap.                                       *)

Cleared == [r \in Row |-> NoRow]
Emptied == [r \in Row |-> 0]

(* groupChange.handleGroupRemoved after the storage clear, or, when that   *)
(* rejects, deltaPipeline.handleGroupHandlerFailure, which only drops the  *)
(* pool.                                                                   *)
RevokeClear ==
    /\ revoke = "clearing"
    /\ revoke' = "cleared" /\ pool' = Emptied
    /\ \/ stored' = Cleared /\ durable' = {} /\ UNCHANGED faults
       \/ Fault /\ UNCHANGED <<stored, durable>>
    /\ UNCHANGED <<server, positions, queues, flush, boot, snapshot, failed, lost, deferred,
                   rebuild, revokedAt>>

(* forceFullRebootstrap: mark, close the socket, let reconnecting rebuild. *)
ForceFullRebootstrap ==
    /\ revoke = "cleared"
    /\ revoke' = "idle"
    /\ Disconnected /\ PerformReconnect
    /\ UNCHANGED <<log, mode, head, positions, queues, flush, tables, snapshot, history, faults>>

(* Database.bootstrapFromServer: fetch, refuse a snapshot older than the   *)
(* metadata cursor, clear, store, and let the caller fill the pool.        *)
BootFetch ==
    /\ boot = "fetching" /\ head >= meta
    /\ snapshot' = head /\ boot' = "fetched"
    /\ UNCHANGED <<server, positions, queues, flush, tables, revoke, history, faults>>

BootClear ==
    /\ boot = "fetched"
    /\ boot' = "cleared" /\ stored' = Cleared /\ durable' = {} /\ rebuild' = TRUE
    /\ UNCHANGED <<server, positions, queues, flush, pool, revoke, snapshot, failed, lost,
                   deferred, revokedAt, faults>>

(* withDeltaQueuing's finally: the deferred deltas are replayed as one     *)
(* frame.  `rebuilding` and `since` are the history the bootstrap leaves:  *)
(* is local data incomplete, and which removal is not yet reflected.       *)
ReplayQueuedDeltas(rebuilding, since) ==
    /\ queue' = NoQueue
    /\ LET ids == IF queue = NoQueue THEN <<>> ELSE queue
           removed == Removals(ids)
       IN  /\ applied' = MaxOf(Range(ids) \cup {applied}, 0)
           /\ revoke' = IF removed # {} THEN "clearing" ELSE revoke
           /\ rebuild' = (rebuilding \/ removed # {})
           /\ revokedAt' = IF removed # {} THEN MaxOf({ids[k] : k \in removed}, 0) ELSE since
           /\ IF \E id \in Range(ids) : ~IsRemoval(id)
              THEN FlushPendingDeltas(Running(ids), Appended(ids)) /\ timer' = FALSE
              ELSE pending' = Appended(ids) /\ flush' = Running(ids) /\ UNCHANGED timer

(* The snapshot is shown: rows it lacks leave the pool unless a deferred   *)
(* delta names them.                                                       *)
SnapshotPool ==
    LET protected == IF queue = NoQueue THEN {}
                     ELSE {log[id].row : id \in {i \in Range(queue) : log[i].kind # "D"}}
    IN  [r \in Row |-> IF ImageAt(log, snapshot, r) # NoRow THEN Max2(pool[r], snapshot)
                       ELSE IF r \in protected THEN pool[r] ELSE 0]

BootStore ==
    /\ boot = "cleared"
    /\ boot' = "idle" /\ meta' = snapshot /\ snapshot' = 0
    /\ stored' = [r \in Row |-> IF ImageAt(log, snapshot, r) # NoRow
                                THEN ImageAt(log, snapshot, r) ELSE stored[r]]
    /\ durable' = durable \cup 1..snapshot
    /\ pool' = SnapshotPool
    /\ ReplayQueuedDeltas(revoke # "idle", IF snapshot >= revokedAt THEN 0 ELSE revokedAt)
    /\ UNCHANGED <<server, cursor, persisted, lane, laneOk, failed, lost, deferred, faults>>

(* The bootstrap fails: at the start of a session the client goes on with  *)
(* what it has, on a reconnect the connection manager tries again.         *)
BootFails ==
    /\ boot # "idle" /\ Fault
    /\ boot' = IF queue # NoQueue THEN "idle" ELSE "fetching"
    /\ snapshot' = 0
    /\ ReplayQueuedDeltas(rebuild, revokedAt)
    /\ UNCHANGED <<server, cursor, persisted, meta, lane, laneOk, tables, durable, failed, lost,
                   deferred>>

-----------------------------------------------------------------------------
Drain == PersistRead \/ PersistWrite \/ PersistDone \/ ApplySlice \/ Acknowledge \/ DrainLoop

Next ==
    \/ Publish \/ Open \/ Poll \/ Answer \/ Drop \/ Receive
    \/ LaneStart \/ LaneAck \/ TimerFires
    \/ PersistRead \/ PersistWrite \/ PersistDone
    \/ ApplySlice \/ ApplyThrows \/ Acknowledge \/ DrainLoop
    \/ RevokeClear \/ ForceFullRebootstrap
    \/ BootFetch \/ BootClear \/ BootStore \/ BootFails

Spec == Init /\ [][Next]_vars

(* The server and the network go on, the poll's interval and the debounce  *)
(* timer fire, and every promise the client waits for settles.             *)
FairSpec ==
    /\ Spec
    /\ WF_vars(Publish) /\ WF_vars(Open) /\ WF_vars(Poll) /\ WF_vars(Answer)
    /\ WF_vars(Receive) /\ WF_vars(LaneStart \/ LaneAck) /\ WF_vars(TimerFires)
    /\ WF_vars(Drain)
    /\ WF_vars(RevokeClear \/ ForceFullRebootstrap)
    /\ WF_vars(BootFetch \/ BootClear \/ BootStore)

-----------------------------------------------------------------------------
(* Properties.                                                             *)

Ids == 1..Len(log)
Phases == {"idle", "persist", "apply", "loop"}

(* The variables hold what the client and the server keep.                 *)
TypeOK ==
    /\ head \in Start..Len(log) /\ link \in BOOLEAN
    /\ sent \in {-1} \cup 0..head /\ request \in {-1} \cup 0..head
    /\ \A k \in 1..Len(wire) : Range(wire[k].ids) \subseteq 1..head
    /\ {cursor, applied, persisted, meta, snapshot} \subseteq 0..head
    /\ Range(pending) \subseteq 1..head /\ timer \in BOOLEAN
    /\ queue = NoQueue \/ Range(queue) \subseteq 1..head
    /\ flush.phase \in Phases /\ Range(flush.ids) \subseteq 1..head
    /\ flush.done \in 0..Len(flush.ids)
    /\ stored \in [Row -> [Field -> 0..head]] /\ pool \in [Row -> 0..head]
    /\ revoke \in {"idle", "clearing", "cleared"}
    /\ boot \in {"idle", "fetching", "fetched", "cleared"}
    /\ durable \cup failed \cup lost \cup deferred \subseteq Ids

InMemory == Range(pending) \cup Range(flush.ids)
            \cup (IF queue = NoQueue THEN {} ELSE Range(queue))
InLane == UNION {Range(lane[k].ids) : k \in 1..Len(lane)}

(* A catch-up request never skips a delta the client still lacks: every    *)
(* visible position at or below the cursor is stored, or is one of the     *)
(* known kinds of exception: its store transaction failed, its delivery    *)
(* was lost, or it was deferred, behind a bootstrap or in the catch-up     *)
(* lane, and is still in memory.  While local data is being rebuilt        *)
(* nothing is claimed.                                                     *)
CursorCovers ==
    rebuild \/ \A i \in 1..cursor :
        \/ log[i].kind \in {"S", "X"}
        \/ i \in durable \cup failed \cup lost
        \/ i \in (deferred \cap InMemory) \cup InLane

(* The acknowledgement of a batch covers only what that batch has stored:  *)
(* a delta whose store transaction failed holds it back, whichever of the  *)
(* batch's transactions came first.                                        *)
AckIsDurable ==
    [][persisted' # persisted =>
        rebuild \/ \A id \in Range(flush.ids) : id <= persisted' => id \in durable]_vars

(* Nothing of a removed sync group comes back: from the moment the handler *)
(* has emptied the pool until a later bootstrap fills it, what is resident *)
(* was delivered after the removal.  A removal that overtakes the catch-up *)
(* lane breaks this: the lane's later chunks are shown after the clear.    *)
NoStaleReveal ==
    revokedAt > 0 /\ revoke # "clearing" =>
        \A r \in Row : pool[r] # 0 => pool[r] > revokedAt

(* ... it holds when the server answers a request in one response, even    *)
(* though a batch from before the removal may still be on its way through  *)
(* storage, and an answer may deliver again what the removal dropped.      *)
InOrderReveal == mode = "batch" => NoStaleReveal

(* Two changes of one transaction, both with something to show.            *)
OneCommit(a, b) ==
    /\ log[a].tx # NoTx /\ log[a].tx = log[b].tx
    /\ "verify" \notin {flush.acts[a], flush.acts[b]}

(* The transactions one slice has shown a part of and a later one has to.  *)
HalfVisible ==
    {log[flush.ids[j]].tx : j \in
        {j \in 1..flush.done : /\ flush.phase = "apply"
                               /\ \E k \in (flush.done + 1)..Len(flush.ids) :
                                    OneCommit(flush.ids[j], flush.ids[k])}}

(* A commit becomes visible as a whole: between two slices no transaction  *)
(* of the batch has one effective change revealed and another still        *)
(* hidden.  A transaction that lost a change to a failed store transaction *)
(* is not whole to begin with.  An insert or update that a later delete    *)
(* supersedes breaks this: its result has no transaction id, and the slice *)
(* may end there, in the middle of the commit.                             *)
CommitRevealedWhole ==
    \A t \in HalfVisible : \E i \in failed : log[i].tx = t

(* ... it holds for the transactions none of whose changes is superseded.  *)
IntactCommitRevealedWhole ==
    \A t \in HalfVisible :
        \E i \in Range(flush.ids) \cup failed :
            log[i].tx = t /\ (i \in failed \/ Superseded(log, flush.ids, i))

(* Nothing is under way and the cursor has reached the server.             *)
Quiet ==
    /\ wire = <<>> /\ request = -1 /\ pending = <<>> /\ flush.phase = "idle" /\ lane = <<>>
    /\ queue = NoQueue /\ revoke = "idle" /\ boot = "idle" /\ ~rebuild
    /\ cursor = head

Spared(r) == \A i \in failed \cup lost : log[i].row # r

StoredAgrees == \A r \in Row : Spared(r) => stored[r] = ImageAt(log, head, r)
PoolAgrees == \A r \in Row : Spared(r) => (pool[r] # 0) = (ImageAt(log, head, r) # NoRow)

(* When everything has settled, storage holds what the server holds, for   *)
(* every row that no failed transaction and no lost delivery touched.      *)
StoredConverges == Quiet => StoredAgrees

(* ... and the pool shows exactly the rows the server has.                 *)
PoolConverges == Quiet => PoolAgrees

(* The client catches up with the server and stays there, for every row    *)
(* that no failed transaction and no lost broadcast touched: answers and   *)
(* frames that a dropped connection takes with it are asked for again when *)
(* the transport opens the next socket, with or without a bootstrap, and a *)
(* batch whose application threw is applied again. Left out is what the    *)
(* code does not repair: a catch-up lane that rejected never runs again, a *)
(* removal that was not acknowledged is redelivered over and over, and a   *)
(* session whose first bootstrap failed after its clear goes on without    *)
(* the rows it cleared.                                                    *)
CatchesUp ==
    <>[] \/ ~laneOk
         \/ \E i \in Ids : IsRemoval(i)
         \/ rebuild /\ boot = "idle" /\ revoke = "idle"
         \/ cursor = Len(log) /\ StoredAgrees /\ PoolAgrees
=============================================================================
