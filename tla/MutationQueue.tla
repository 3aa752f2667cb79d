---------------------------- MODULE MutationQueue ----------------------------
(***************************************************************************)
(* The local client's mutation queue, from a model write to its receipt.   *)
(*                                                                         *)
(*   create/update/archive/remove -> journal save -> staged -> queue       *)
(*     -> batch -> prepare -> seal -> dispatch -> receipt -> settlement    *)
(*                                                                         *)
(* One JavaScript thread runs the handlers; an action is the code between  *)
(* two awaits (or one timer or storage callback).  Storage (IndexedDB) and *)
(* the server are external: storage runs its requests in order and may     *)
(* fail one, a sent request may be answered late or never, and the server  *)
(* keeps one verdict per idempotency key.  A crash loses the process and   *)
(* keeps storage; the restart replays sealed envelopes on the commit lane  *)
(* and reloads the journal into the queue.                                 *)
(***************************************************************************)
EXTENDS ExecutionQueue

CONSTANTS
    Rows,        \* rows the application writes
    NewRows,     \* the ones that do not exist at the start
    MissingRows, \* rows the server reports missing or out of scope
    Kinds,       \* write types the application uses
    Opts,        \* write options the application uses
    Replies,     \* verdicts the server may give
    MaxRetries,  \* config.maxRetries
    MaxTx,       \* bound: writes
    MaxKeys,     \* bound: idempotency keys minted
    FaultKinds,  \* where transient failures strike: "save", "prepare", "seal",
                 \* "answer", "expiry", "lane"; or the "basis" of an intent is lost
    MaxFaults,   \* bound: transient failures
    MaxCrashes   \* bound: crashes

Accepting == {"confirmed", "zero", "queued"}
Rejecting == {"rejected", "norows"}

ASSUME QueueAssumption ==
    /\ NewRows \subseteq Rows /\ MissingRows \subseteq Rows /\ ChildRows \subseteq Rows
    /\ Kinds \subseteq {"create", "update", "archive", "delete"}
    /\ Opts \subseteq {"plain", "reorder", "intent", "keyed"}
    /\ Replies \subseteq Accepting \cup Rejecting
    /\ FaultKinds \subseteq {"save", "prepare", "basis", "seal", "answer", "expiry", "lane"}
    /\ {MaxRetries, MaxTx, MaxKeys, MaxFaults, MaxCrashes} \subseteq Nat

VARIABLES
    tx,        \* the mutation store, indexed by write id in creation order
    sources,   \* sourceMutationIds of each write
    saving,    \* journal saves under way, in request order
    staged,    \* createdTransactions
    queue,     \* executionQueue
    scheduled, \* processScheduled
    backoff,   \* groups of writes waiting for a retry timer
    parked,    \* deferredDeletesByCreate: deletes behind a sent create
    phase,     \* where processBatch is
    batch,     \* the batch it is processing
    blocked,   \* durableReplayBlock
    lane,      \* commitLane: restored keys, in order
    laneBusy,  \* the head of the lane is on the wire
    laneWaits, \* restored keys in awaiting_delta
    journal,   \* pending_mutation rows in storage
    saved,     \* writes that ever had one (history)
    purging,   \* journal rows whose fire-and-forget removal is under way
    envelope,  \* keys minted so far: [ops, rows consumed, sealed]
    outbox,    \* keys whose commit_envelope is in storage
    wire,      \* keys sent at least once
    verdict,   \* the server's mutation log by key
    log,       \* accepted keys in the order the server applied them
    faults, crashes

memory  == <<tx, sources, saving, staged, queue, scheduled, backoff, parked>>
runner  == <<phase, batch, blocked>>
laneVars == <<lane, laneBusy, laneWaits>>
storage == <<journal, saved, purging, envelope, outbox>>
server  == <<wire, verdict, log>>
bounds  == <<faults, crashes>>
vars    == <<memory, runner, laneVars, storage, server, bounds>>

TxIds == 1..MaxTx
Keys  == 1..MaxKeys

Statuses == {"none", "pending", "executing", "awaiting_delta", "completed",
             "failed", "rolled_back", "gone"}
Outstanding == {"pending", "executing", "awaiting_delta"}

NoTx == [type |-> "none", row |-> "none", opt |-> "plain", high |-> FALSE,
         status |-> "none", attempts |-> 0, env |-> 0, conf |-> "none"]

Issued    == {t \in TxIds : tx[t].status # "none"}
NextId    == Cardinality(Issued) + 1
Key       == tx[batch[1]].env

(* A step that spends one fault of the given kind.                         *)
Fault(kind) == /\ kind \in FaultKinds /\ faults < MaxFaults
               /\ faults' = faults + 1
-----------------------------------------------------------------------------
TypeOK ==
    /\ tx \in [TxIds -> [type : {"none", "create", "update", "archive", "delete"},
                         row : Rows \cup {"none"}, opt : Opts \cup {"plain"},
                         high : BOOLEAN, status : Statuses, attempts : Nat,
                         env : Keys \cup {0},
                         conf : {"none", "open", "resolved", "cancelled", "rejected", "lost"}]]
    /\ sources \in [TxIds -> SUBSET TxIds]
    /\ \A s \in {saving, staged, queue, batch} \cup backoff :
        s \in Seq(TxIds) /\ ToSet(s) \subseteq Issued
    /\ scheduled \in BOOLEAN /\ blocked \in BOOLEAN /\ laneBusy \in BOOLEAN
    /\ parked \cup journal \cup saved \cup purging \subseteq Issued
    /\ phase \in {"idle", "preparing", "sealing", "ready", "inflight"}
    /\ phase = "idle" <=> batch = <<>>
    /\ envelope \in Seq([ops : Seq(TxIds), rows : SUBSET TxIds, sealed : BOOLEAN])
    /\ Len(envelope) <= MaxKeys
    /\ lane \in Seq(Keys) /\ log \in Seq(Keys)
    /\ ToSet(lane) \cup laneWaits \cup outbox \cup wire \cup ToSet(log) \subseteq DOMAIN envelope
    /\ verdict \in [Keys -> Replies \cup {"none"}]
    /\ faults \in 0..MaxFaults /\ crashes \in 0..MaxCrashes

Init ==
    /\ tx = [t \in TxIds |-> NoTx]
    /\ sources = [t \in TxIds |-> {}]
    /\ saving = <<>> /\ staged = <<>> /\ queue = <<>>
    /\ scheduled = FALSE
    /\ backoff = {} /\ parked = {}
    /\ phase = "idle" /\ batch = <<>> /\ blocked = FALSE
    /\ lane = <<>> /\ laneBusy = FALSE /\ laneWaits = {}
    /\ journal = {} /\ saved = {} /\ purging = {}
    /\ envelope = <<>> /\ outbox = {}
    /\ wire = {} /\ verdict = [k \in Keys |-> "none"] /\ log = <<>>
    /\ faults = 0 /\ crashes = 0
-----------------------------------------------------------------------------
(* Settlement.  MutationStore.updateStatus moves a write to a status       *)
(* whatever its status was; the transaction:completed and                  *)
(* transaction:failed listeners answer the caller that still waits.        *)
WithStatus(T, S, status) ==
    [t \in TxIds |-> IF t \in S THEN [T[t] EXCEPT !.status = status] ELSE T[t]]

Answered(T, S, answer) ==
    [t \in TxIds |-> IF t \in S /\ T[t].conf = "open"
                     THEN [T[t] EXCEPT !.conf = answer] ELSE T[t]]

Completed(T, S) == Answered(WithStatus(T, S, "completed"), S, "resolved")
Failed(T, S)    == Answered(WithStatus(T, S, "failed"), S, "rejected")

(* removePersistedTransaction: removals of rows storage has, or will have. *)
Purged(S) == (UNION {{t} \cup sources[t] : t \in S}) \cap (journal \cup ToSet(saving))

(* When a create settles, the deletes parked behind it enter the queue.    *)
ReleasedBy(S) ==
    {d \in parked : \E t \in S : tx[t].type = "create" /\ tx[t].row = tx[d].row}

(* All the effects of settling writes: done complete and lost fail, with   *)
(* their events; again are retried after a delay; wait await a delta.      *)
Settle(done, lost, again, wait) ==
    LET S == done \cup lost
        U == [t \in TxIds |-> IF t \in lost \cup again
                              THEN [tx[t] EXCEPT !.attempts = @ + 1] ELSE tx[t]]
        W == WithStatus(WithStatus(U, again, "pending"), wait, "awaiting_delta")
        T == Failed(Completed(W, done), lost)
    IN  /\ tx' = T
        /\ parked' = parked \ ReleasedBy(S)
        /\ queue' = EnqueueAll(queue, InOrder(ReleasedBy(S)), T)
        /\ purging' = purging \cup Purged(S)
        /\ backoff' = backoff \cup {<<t>> : t \in again}
        /\ UNCHANGED <<sources, saving, staged>>

(* Mutant: the finally block does not schedule the next run.               *)
BatchDoneIdles ==
    phase' = "idle" /\ batch' = <<>> /\ scheduled' = scheduled

(* processBatch's finally block: the lane is free and runs again.  The     *)
(* array whose length it tests is the one captured before the selection,   *)
(* which still holds the batch, so the test never fails.                   *)
BatchDone ==
    /\ phase' = "idle" /\ batch' = <<>>
    /\ scheduled' = TRUE

(* handleFailure skips writes that settled meanwhile.                      *)
Failing == {t \in ToSet(batch) : tx[t].status \in {"pending", "executing"}}
-----------------------------------------------------------------------------
(* Model writes.                                                           *)

(* The application writes rows it can see and creates each row once.       *)
Visible(r) ==
    /\ r \in NewRows => \E t \in Issued : /\ tx[t].type = "create" /\ tx[t].row = r
                                          /\ tx[t].status \notin {"failed", "rolled_back"}
    /\ ~\E t \in Issued : /\ tx[t].type = "delete" /\ tx[t].row = r
                          /\ tx[t].status \notin {"failed", "rolled_back"}

NewTx(type, r, opt) ==
    [NoTx EXCEPT !.type = type, !.row = r, !.opt = opt, !.status = "pending",
                 !.high = (type = "delete" \/ opt = "reorder"), !.conf = "open"]

CanIssue(type) == /\ type \in Kinds /\ NextId \in TxIds /\ ~blocked

(* create, update, archive (which also stands for unarchive): add to the   *)
(* store and save to the journal.                                          *)
Write(type, r, opt) ==
    LET t == NextId IN
    /\ CanIssue(type) /\ type # "delete"
    /\ opt = "reorder" \/ opt = "intent" => type = "update"
    /\ IF type = "create"
       THEN r \in NewRows /\ ~\E u \in Issued : tx[u].type = "create" /\ tx[u].row = r
       ELSE Visible(r)
    /\ tx' = [tx EXCEPT ![t] = NewTx(type, r, opt)]
    /\ sources' = [sources EXCEPT ![t] = {t}]
    /\ saving' = Append(saving, t)
    /\ UNCHANGED <<staged, queue, scheduled, backoff, parked,
                   runner, laneVars, storage, server, bounds>>

(* takeUnsentCreateForModel: a pending create that was never attempted,    *)
(* wherever it is.                                                         *)
UnsentCreates(r) ==
    {c \in Issued : /\ tx[c].type = "create" /\ tx[c].row = r
                    /\ tx[c].status = "pending" /\ tx[c].attempts = 0}

(* remove, unsent create: both writes end locally, the create rolled back  *)
(* and the delete completed, and both callers are answered; the create's   *)
(* journal rows are removed.                                               *)
RemoveUnsent(r) ==
    LET d == NextId IN
    /\ CanIssue("delete") /\ Visible(r)
    /\ \E c \in UnsentCreates(r) :
        /\ tx' = Answered([WithStatus(tx, {c}, "rolled_back") EXCEPT
                             ![d] = [NewTx("delete", r, "plain") EXCEPT !.status = "completed"]],
                          {c, d}, "cancelled")
        /\ purging' = purging \cup Purged({c})
        /\ staged' = Keep(staged, TxIds \ {c})
        /\ queue' = IF Contains(staged, c) THEN queue ELSE Keep(queue, TxIds \ {c})
    /\ UNCHANGED <<sources, saving, scheduled, backoff, parked, runner, laneVars,
                   journal, saved, envelope, outbox, server, bounds>>

(* cancelTransactionsForModel(id, 'update').                               *)
Superseded(r) ==
    {u \in Issued : /\ tx[u].type = "update" /\ tx[u].row = r
                    /\ tx[u].status \in {"pending", "executing"}}

(* remove, otherwise: the delete cancels the row's updates and takes over  *)
(* the journal rows of those without an envelope.                          *)
RemoveRow(r) ==
    LET d == NextId
        inherited == UNION {sources[u] : u \in {v \in Superseded(r) : tx[v].env = 0}}
    IN
    /\ CanIssue("delete") /\ Visible(r)
    /\ UnsentCreates(r) = {}
    /\ tx' = [WithStatus(tx, Superseded(r), "rolled_back") EXCEPT
                ![d] = NewTx("delete", r, "plain")]
    /\ sources' = [sources EXCEPT ![d] = {d} \cup inherited]
    /\ saving' = Append(saving, d)
    /\ UNCHANGED <<staged, queue, scheduled, backoff, parked,
                   runner, laneVars, storage, server, bounds>>

(* cancelTransactionsByForeignKey: the parent of child row r was deleted.  *)
(* Cancelled are the writes whose payload names it: the row's create and   *)
(* those of its updates that set the foreign key.                          *)
CascadeCancel(r) ==
    LET unsettled(type) == {t \in Issued : /\ tx[t].type = type /\ tx[t].row = r
                                           /\ tx[t].status \in Outstanding}
    IN
    /\ r \in ChildRows
    /\ \E orphans \in {unsettled("create") \cup moves : moves \in SUBSET unsettled("update")} :
        /\ orphans # {}
        /\ tx' = WithStatus(tx, orphans, "rolled_back")
    /\ UNCHANGED <<sources, saving, staged, queue, scheduled, backoff, parked,
                   runner, laneVars, storage, server, bounds>>
-----------------------------------------------------------------------------
(* Journal and staging.                                                    *)

(* Mutant: only a create that is executing holds deletes back, not one     *)
(* that waits for a retry.                                                 *)
HasExecutingCreate(d) ==
    \E c \in Issued : /\ tx[c].type = "create" /\ tx[c].row = tx[d].row
                      /\ tx[c].status = "executing"

(* findCreateBarrierForDelete: a sent create of the row is unsettled.      *)
HasCreateBarrier(d) ==
    \E c \in Issued : /\ tx[c].type = "create" /\ tx[c].row = tx[d].row
                      /\ tx[c].status \in Outstanding
                      /\ tx[c].status = "pending" => tx[c].attempts > 0

(* A save lands; the write is staged, or parked behind its row's create.   *)
Persisted ==
    LET t == Head(saving) IN
    /\ saving # <<>>
    /\ saving' = Tail(saving)
    /\ journal' = journal \cup {t}
    /\ saved' = saved \cup {t}
    /\ IF tx[t].type = "delete" /\ HasCreateBarrier(t)
       THEN parked' = parked \cup {t} /\ UNCHANGED staged
       ELSE staged' = Append(staged, t) /\ UNCHANGED parked
    /\ UNCHANGED <<tx, sources, queue, scheduled, backoff, runner, laneVars,
                   purging, envelope, outbox, server, bounds>>

(* A save fails: the write is reported failed, whatever its status.        *)
PersistFailed ==
    LET t == Head(saving)
        T == Failed(tx, {t})
    IN
    /\ saving # <<>>
    /\ Fault("save")
    /\ saving' = Tail(saving)
    /\ tx' = T
    /\ parked' = parked \ ReleasedBy({t})
    /\ queue' = EnqueueAll(queue, InOrder(ReleasedBy({t})), T)
    /\ scheduled' = (scheduled \/ queue' # queue)
    /\ purging' = (purging \cup Purged({t})) \ {t}
    /\ UNCHANGED <<sources, staged, backoff, runner, laneVars, journal, saved,
                   envelope, outbox, server, crashes>>

(* A fire-and-forget removal lands, after the save it follows.             *)
PurgeLands(t) ==
    /\ t \in purging \ ToSet(saving)
    /\ purging' = purging \ {t}
    /\ journal' = journal \ {t}
    /\ UNCHANGED <<memory, runner, laneVars, saved, envelope, outbox, server, bounds>>

(* commitCreatedTransactions: everything staged moves to the queue.        *)
CommitStaged ==
    /\ staged # <<>>
    /\ queue' = EnqueueAll(queue, staged, tx)
    /\ staged' = <<>>
    /\ scheduled' = (scheduled \/ queue' # queue)
    /\ UNCHANGED <<tx, sources, saving, backoff, parked, runner, laneVars,
                   storage, server, bounds>>

(* drainPending on reconnect drives the same lane while it can select.     *)
DrainPending ==
    /\ ~scheduled /\ phase = "idle" /\ ~blocked
    /\ queue' = EnqueueAll(queue, staged, tx)
    /\ staged' = <<>>
    /\ TakeNextBatch(Pending(queue', tx), Fresh(Pending(queue', tx), tx), tx, envelope) # <<>>
    /\ scheduled' = TRUE
    /\ UNCHANGED <<tx, sources, saving, backoff, parked, runner, laneVars,
                   storage, server, bounds>>

(* A retry timer fires.                                                    *)
RetryTimer(g) ==
    /\ g \in backoff
    /\ backoff' = backoff \ {g}
    /\ queue' = EnqueueAll(queue, g, tx)
    /\ scheduled' = (scheduled \/ queue' # queue)
    /\ UNCHANGED <<tx, sources, saving, staged, parked, runner, laneVars,
                   storage, server, bounds>>
-----------------------------------------------------------------------------
(* The batch lane.                                                         *)

(* Mutant: the run goes on to prepare and send a selection that is empty.  *)
StartBatchEmpty ==
    /\ scheduled /\ phase = "idle"
    /\ scheduled' = FALSE
    /\ IF blocked \/ queue = <<>> THEN UNCHANGED <<queue, batch, phase>>
       ELSE \E pending \in {Pending(SortByPriority(queue, tx), tx)} :
            /\ batch' = TakeNextBatch(pending, Fresh(pending, tx), tx, envelope)
            /\ queue' = Remaining(pending, tx, batch')
            /\ phase' = "preparing"
    /\ UNCHANGED <<tx, sources, saving, staged, backoff, parked, blocked, laneVars,
                   storage, server, bounds>>

(* The scheduled run: select the next batch.  When no write is eligible    *)
(* the run ends and nothing schedules another.                             *)
StartBatch ==
    /\ scheduled /\ phase = "idle"
    /\ scheduled' = FALSE
    /\ IF blocked \/ queue = <<>> THEN UNCHANGED <<queue, batch, phase>>
       ELSE \E pending \in {Pending(SortByPriority(queue, tx), tx)} :
            \E fresh \in {Fresh(pending, tx)} :
            \E next \in {TakeNextBatch(pending, fresh, tx, envelope)} :
                /\ batch' = next
                /\ queue' = Remaining(pending, tx, next)
                /\ phase' = IF next = <<>> THEN "idle" ELSE "preparing"
    /\ UNCHANGED <<tx, sources, saving, staged, backoff, parked, blocked, laneVars,
                   storage, server, bounds>>

Unsealed(t) == tx[t].opt = "intent" /\ tx[t].env = 0

(* prepareUnsealedOperations succeeds: the batch gets its key and is       *)
(* marked executing; an envelope sealed earlier is not sealed again.       *)
Prepared ==
    LET fresh == Key = 0
        k     == IF fresh THEN Len(envelope) + 1 ELSE Key
    IN
    /\ phase = "preparing"
    /\ k \in Keys
    /\ envelope' = IF fresh THEN Append(envelope, [ops |-> batch, rows |-> {}, sealed |-> FALSE])
                   ELSE envelope
    /\ tx' = [t \in TxIds |-> IF Contains(batch, t)
                              THEN [tx[t] EXCEPT !.status = "executing", !.env = k]
                              ELSE tx[t]]
    /\ phase' = IF envelope'[k].sealed THEN "ready" ELSE "sealing"
    /\ UNCHANGED <<sources, saving, staged, queue, scheduled, backoff, parked,
                   batch, blocked, laneVars, journal, saved, purging, outbox, server, bounds>>

(* It fails for want of a basis: the batch is held, unconditionally        *)
(* pending, and retried as a group.                                        *)
PrepareTransient ==
    /\ phase = "preparing"
    /\ \E t \in ToSet(batch) : Unsealed(t)
    /\ Fault("prepare")
    /\ tx' = [t \in TxIds |-> IF Contains(batch, t)
                              THEN [tx[t] EXCEPT !.status = "pending", !.attempts = @ + 1]
                              ELSE tx[t]]
    /\ backoff' = backoff \cup {batch}
    /\ BatchDone
    /\ UNCHANGED <<sources, saving, staged, queue, parked, blocked, laneVars,
                   storage, server, crashes>>

(* It fails for good: the queue blocks and the callers are told.           *)
PreparePermanent ==
    /\ phase = "preparing"
    /\ \E t \in ToSet(batch) : Unsealed(t)
    /\ Fault("basis")
    /\ blocked' = TRUE
    /\ tx' = Answered(WithStatus(tx, ToSet(batch), "pending"), ToSet(batch), "rejected")
    /\ queue' = queue \o batch
    /\ BatchDone
    /\ UNCHANGED <<sources, saving, staged, backoff, parked, laneVars, storage,
                   server, crashes>>

BatchRows == UNION {sources[t] : t \in ToSet(batch)}

(* Mutant: the envelope is stored without checking that the rows exist.    *)
SealUnchecked ==
    /\ phase = "sealing"
    /\ journal' = journal \ BatchRows
    /\ envelope' = [envelope EXCEPT ![Key].sealed = TRUE, ![Key].rows = BatchRows]
    /\ outbox' = outbox \cup {Key}
    /\ phase' = "ready"
    /\ UNCHANGED <<memory, batch, blocked, laneVars, saved, purging, server, bounds>>

(* Mutant: the rows are deleted before the envelope is stored.             *)
SealLosesEnvelope ==
    /\ phase = "sealing"
    /\ BatchRows \subseteq journal
    /\ journal' = journal \ BatchRows
    /\ envelope' = [envelope EXCEPT ![Key].sealed = TRUE, ![Key].rows = BatchRows]
    /\ phase' = "ready"
    /\ UNCHANGED <<memory, batch, blocked, laneVars, saved, purging, outbox, server, bounds>>

(* sealTransactionRecord: one storage transaction checks the rows, stores  *)
(* the envelope and deletes the rows.                                      *)
Seal ==
    /\ phase = "sealing"
    /\ BatchRows \subseteq journal
    /\ journal' = journal \ BatchRows
    /\ envelope' = [envelope EXCEPT ![Key].sealed = TRUE, ![Key].rows = BatchRows]
    /\ outbox' = outbox \cup {Key}
    /\ phase' = "ready"
    /\ UNCHANGED <<memory, batch, blocked, laneVars, saved, purging, server, bounds>>

(* A row is gone: idempotency_conflict, which is permanent.                *)
SealConflict ==
    /\ phase = "sealing"
    /\ ~(BatchRows \subseteq journal)
    /\ Settle({}, Failing, {}, {})
    /\ BatchDone
    /\ UNCHANGED <<blocked, laneVars, journal, saved, envelope, outbox, server, bounds>>

(* handleFailure's retry decision, with the availability window open or    *)
(* expired.                                                                *)
Retrying(expired) == {t \in Failing : ~expired \/ tx[t].attempts + 1 < MaxRetries}

(* The transaction aborts for another reason, before anything is sent.     *)
SealTransient(expired) ==
    /\ phase = "sealing"
    /\ Fault("seal")
    /\ Settle({}, Failing \ Retrying(expired), Retrying(expired), {})
    /\ BatchDone
    /\ UNCHANGED <<blocked, laneVars, journal, saved, envelope, outbox, server, crashes>>

Dispatch ==
    /\ phase = "ready"
    /\ phase' = "inflight"
    /\ wire' = wire \cup {Key}
    /\ UNCHANGED <<memory, batch, blocked, laneVars, storage, verdict, log, bounds>>

(* assertEnvelopeInsideReplayWindow: an envelope sealed longer ago than    *)
(* the server's window (a late retry, or the device slept after the seal)  *)
(* blocks the queue and fails the batch; the envelope stays.               *)
Expire ==
    /\ phase = "ready"
    /\ Fault("expiry")
    /\ blocked' = TRUE
    /\ Settle({}, Failing, {}, {})
    /\ BatchDone
    /\ UNCHANGED <<laneVars, journal, saved, envelope, outbox, server, crashes>>
-----------------------------------------------------------------------------
(* Receipts.  removeDurableCommit may fail silently.                       *)

Removed(k) == outbox' \in {outbox, outbox \ {k}}

MissingIn(S) == {t \in S : tx[t].row \in MissingRows}
(* Mutant: rows the server did not find settle like the others.            *)
SettlingMissing == ToSet(batch)
Settling     == ToSet(batch) \ MissingIn(ToSet(batch))
Lost         == MissingIn(Failing)

(* A confirmed receipt completes every member the server did not report    *)
(* missing, whatever its status.                                           *)
AckConfirmed ==
    /\ phase = "inflight" /\ verdict[Key] = "confirmed"
    /\ Removed(Key)
    /\ Settle(Settling, Lost, {}, {})
    /\ BatchDone
    /\ UNCHANGED <<blocked, laneVars, journal, saved, envelope, server, bounds>>

(* A receipt that must be confirmed by a delta: sync id 0, or a write      *)
(* forwarded to the source database, whose envelope stays in storage.      *)
AckAwaiting ==
    LET zero == verdict[Key] = "zero"
        done == IF zero THEN {t \in Settling : tx[t].type = "delete"} ELSE {}
    IN
    /\ phase = "inflight" /\ verdict[Key] \in {"zero", "queued"}
    /\ IF zero \/ Settling = {} THEN Removed(Key) ELSE UNCHANGED outbox
    /\ Settle(done, Lost, {}, Settling \ done)
    /\ BatchDone
    /\ UNCHANGED <<blocked, laneVars, journal, saved, envelope, server, bounds>>

(* A definitive rejection fails the whole batch.                           *)
AckRejected ==
    /\ phase = "inflight" /\ verdict[Key] = "rejected"
    /\ Removed(Key)
    /\ Settle({}, Failing, {}, {})
    /\ BatchDone
    /\ UNCHANGED <<blocked, laneVars, journal, saved, envelope, server, bounds>>

(* 'no rows in result set': updates and deletes count as done, creates and *)
(* archives go to handleFailure, where the error is permanent (a 4xx, or   *)
(* neither a status nor a code; it would be retried only with a 5xx).      *)
AckNoRows ==
    LET done == {t \in ToSet(batch) : tx[t].type \in {"update", "delete"}} IN
    /\ phase = "inflight" /\ verdict[Key] = "norows"
    /\ Removed(Key)
    /\ Settle(done, Failing \ done, {}, {})
    /\ BatchDone
    /\ UNCHANGED <<blocked, laneVars, journal, saved, envelope, server, bounds>>

(* No usable answer: disconnect, timeout, throttling.  The request may     *)
(* still reach the server.                                                 *)
AckTransient(expired) ==
    /\ phase = "inflight"
    /\ Fault("answer")
    /\ Settle({}, Failing \ Retrying(expired), Retrying(expired), {})
    /\ BatchDone
    /\ UNCHANGED <<blocked, laneVars, journal, saved, envelope, outbox, server, crashes>>

(* A write forwarded to the source database waits for its own echo.        *)
Correlated(t) == tx[t].env # 0 /\ verdict[tx[t].env] = "queued"
Awaiting      == {t \in Issued : tx[t].status = "awaiting_delta"}

(* Confirmations that arrive outside a batch.                              *)
Confirm(S) ==
    /\ S # {}
    /\ Settle(S, {}, {}, {})
    /\ scheduled' = (scheduled \/ queue' # queue)
    /\ UNCHANGED <<runner, laneVars, journal, saved, envelope, server, bounds>>

(* Any delta confirms the writes whose receipt named sync id 0.            *)
DeltaReceived ==
    /\ Confirm({t \in Awaiting : ~Correlated(t)})
    /\ UNCHANGED outbox

(* confirmSourceCommit: an echo led to the server's complete receipt.      *)
SourceConfirmed(k) ==
    /\ Confirm({t \in Awaiting : Correlated(t) /\ tx[t].env = k})
    /\ Removed(k)

(* The wait for the echo timed out: only the caller is told.               *)
ReplicationLag(t) ==
    /\ t \in Awaiting /\ Correlated(t) /\ tx[t].conf = "open"
    /\ tx' = Answered(tx, {t}, "rejected")
    /\ UNCHANGED <<sources, saving, staged, queue, scheduled, backoff, parked,
                   runner, laneVars, storage, server, bounds>>
-----------------------------------------------------------------------------
(* Crash and recovery.                                                     *)

(* restoreDurableCommits puts every stored envelope on the commit lane, in *)
(* the order the keys were minted.                                         *)
RestoredLane == InOrder(outbox)

(* loadPersistedTransactions turns the journal rows it loads into fresh    *)
(* writes that have no caller; the rest of the memory is gone.             *)
Reloaded(loaded) ==
    [t \in TxIds |->
        IF t \notin Issued THEN NoTx
        ELSE [tx[t] EXCEPT !.status   = IF Contains(loaded, t) THEN "pending" ELSE "gone",
                           !.attempts = 0, !.env = 0, !.high = FALSE,
                           !.conf     = IF @ = "open" THEN "lost" ELSE @]]

(* The rows come in the order of their random ids; rows of another scope   *)
(* and rows older than the server's window are not loaded, but stay.       *)
CrashRestart ==
    /\ crashes < MaxCrashes
    /\ crashes' = crashes + 1
    /\ \E loaded \in SetToAllKPermutations(journal) :
        /\ tx' = Reloaded(loaded)
        /\ queue' = loaded
        /\ scheduled' = (loaded # <<>>)
    /\ sources' = [t \in TxIds |-> IF sources[t] = {} THEN {} ELSE {t}]
    /\ saving' = <<>> /\ staged' = <<>> /\ purging' = {}
    /\ backoff' = {} /\ parked' = {}
    /\ phase' = "idle" /\ batch' = <<>> /\ blocked' = FALSE
    /\ lane' = RestoredLane
    /\ laneBusy' = FALSE /\ laneWaits' = {}
    /\ UNCHANGED <<journal, saved, envelope, outbox, server, faults>>

(* processCommitLane sends the head and waits for its receipt.             *)
LaneSend ==
    /\ lane # <<>> /\ ~laneBusy /\ ~blocked
    /\ laneBusy' = TRUE
    /\ wire' = wire \cup {Head(lane)}
    /\ UNCHANGED <<memory, runner, lane, laneWaits, storage, verdict, log, bounds>>

LaneReceipt ==
    LET k == Head(lane) IN
    /\ laneBusy /\ verdict[k] # "none"
    /\ laneBusy' = FALSE
    /\ lane' = Tail(lane)
    /\ IF verdict[k] = "queued"
       THEN laneWaits' = laneWaits \cup {k} /\ UNCHANGED outbox
       ELSE Removed(k) /\ UNCHANGED laneWaits
    /\ UNCHANGED <<memory, runner, journal, saved, purging, envelope, server, bounds>>

(* A transient failure leaves the head for a later retry; an exhausted one *)
(* drops it from the lane and keeps its envelope.                          *)
LaneTransient(exhausted) ==
    /\ laneBusy
    /\ Fault("lane")
    /\ laneBusy' = FALSE
    /\ lane' = IF exhausted THEN Tail(lane) ELSE lane
    /\ UNCHANGED <<memory, runner, laneWaits, storage, server, crashes>>

LaneConfirmed(k) ==
    /\ k \in laneWaits
    /\ laneWaits' = laneWaits \ {k}
    /\ Removed(k)
    /\ UNCHANGED <<memory, runner, lane, laneBusy, journal, saved, purging, envelope,
                   server, bounds>>
-----------------------------------------------------------------------------
(* The server decides a request it has received, once per key.             *)
ServerDecides(k, reply) ==
    /\ k \in wire /\ verdict[k] = "none"
    /\ verdict' = [verdict EXCEPT ![k] = reply]
    /\ log' = IF reply \in Accepting THEN Append(log, k) ELSE log
    /\ UNCHANGED <<memory, runner, laneVars, storage, wire, bounds>>

Next ==
    \/ \E r \in Rows : \/ \E type \in Kinds, opt \in Opts : Write(type, r, opt)
                       \/ RemoveUnsent(r)
                       \/ RemoveRow(r)
                       \/ CascadeCancel(r)
    \/ Persisted \/ PersistFailed \/ CommitStaged \/ DrainPending
    \/ \E t \in TxIds : PurgeLands(t) \/ ReplicationLag(t)
    \/ \E g \in backoff : RetryTimer(g)
    \/ StartBatch
    \/ Prepared \/ PrepareTransient \/ PreparePermanent
    \/ Seal \/ SealConflict
    \/ Dispatch \/ Expire
    \/ AckConfirmed \/ AckAwaiting \/ AckRejected \/ AckNoRows
    \/ \E expired \in BOOLEAN : SealTransient(expired) \/ AckTransient(expired)
    \/ DeltaReceived
    \/ CrashRestart
    \/ LaneSend \/ LaneReceipt
    \/ \E exhausted \in BOOLEAN : LaneTransient(exhausted)
    \/ \E k \in Keys : \/ SourceConfirmed(k)
                       \/ LaneConfirmed(k)
                       \/ \E reply \in Replies : ServerDecides(k, reply)

Spec == Init /\ [][Next]_vars
-----------------------------------------------------------------------------
(* The queue implements the durability protocol: batching, retries,        *)
(* cancellation, parking and recovery are steps of it or leave it alone.   *)
Consumed == UNION {envelope[k].rows : k \in DOMAIN envelope}

Durability == INSTANCE WriteDurability WITH
    Tx       <- TxIds,
    Key      <- Keys,
    saving   <- ToSet(saving),
    released <- saved \ (journal \cup Consumed),
    claims   <- sources,
    members  <- [k \in Keys |-> IF k \in DOMAIN envelope THEN ToSet(envelope[k].ops) ELSE {}],
    sources  <- [k \in Keys |-> IF k \in DOMAIN envelope THEN envelope[k].rows ELSE {}],
    sealed   <- {k \in DOMAIN envelope : envelope[k].sealed},
    accepted <- {k \in Keys : verdict[k] \in Accepting},
    rejected <- {k \in Keys : verdict[k] \in Rejecting}

ImplementsDurability == Durability!Spec

(* Writes the server applied, in the order of its log and, within one      *)
(* envelope, in the order of its operations.                               *)
OpsAt(i) == envelope[log[i]].ops
Applied  == UNION {ToSet(OpsAt(i)) : i \in DOMAIN log}

AppliedBefore(a, b) ==
    \E i, j \in DOMAIN log : \E m \in DOMAIN OpsAt(i), n \in DOMAIN OpsAt(j) :
        /\ i < j \/ (i = j /\ m < n)
        /\ OpsAt(i)[m] = a /\ OpsAt(j)[n] = b

(* Two writes to one row are applied in the order they were issued, unless *)
(* the first was given up or superseded: batching, sorting, retries and    *)
(* backoff never let a later write of the row overtake an earlier one.     *)
SameRowOrder ==
    \A a, b \in Applied :
        /\ AppliedBefore(a, b) /\ tx[a].row = tx[b].row
        /\ tx[b].status \notin {"failed", "rolled_back"}
        => a < b

(* A write that is still under way, whose row was not deleted since and    *)
(* whose caller was not told otherwise, survives a crash: it is being      *)
(* saved, has its journal row, is sealed in storage or has been applied.   *)
LiveIsRecoverable ==
    \A t \in Issued :
        /\ tx[t].status \in Outstanding /\ tx[t].conf \in {"open", "lost"}
        /\ ~\E d \in Issued : tx[d].type = "delete" /\ tx[d].row = tx[t].row /\ t < d
        =>  \/ Contains(saving, t) \/ t \in journal \/ t \in Applied
            \/ \E k \in outbox : Contains(envelope[k].ops, t)

(* The queue never drops a pending write: it is being saved, staged,       *)
(* queued, in the batch, parked behind a create or in retry backoff.  A    *)
(* queued one need not be selected again, though: the members of a group   *)
(* that lost one to a cancellation stay in the queue.                      *)
NoOrphanPending ==
    \A t \in Issued : tx[t].status = "pending" =>
        t \in ToSet(saving \o staged \o queue \o batch) \cup parked
              \cup UNION {ToSet(g) : g \in backoff}

(* A retry is the same request: the batch under a key is, from its first   *)
(* attempt to its last, the group the key was minted for, in its order.    *)
RetriesAreIdentical ==
    phase \in {"sealing", "ready", "inflight"} => batch = envelope[Key].ops

(* A caller told that its write is confirmed has it applied by the server, *)
(* or the server found its row already gone.                               *)
ResolvedWasApplied ==
    \A t \in Issued : tx[t].conf = "resolved" =>
        \/ t \in Applied /\ tx[t].row \notin MissingRows
        \/ \E k \in DOMAIN envelope : verdict[k] = "norows" /\ Contains(envelope[k].ops, t)

(* A delete of a sent create waits for it to settle: an envelope with the  *)
(* delete is on the wire undecided only when every other envelope with the *)
(* create is decided, and the create is settled, or was given up.          *)
DeleteWaitsForCreate ==
    \A c, d \in Issued, k, l \in wire :
        /\ tx[c].type = "create" /\ tx[d].type = "delete" /\ tx[c].row = tx[d].row
        /\ Contains(envelope[k].ops, c) /\ Contains(envelope[l].ops, d) /\ k # l
        /\ verdict[l] = "none" /\ tx[c].status # "failed"
        => verdict[k] # "none" /\ tx[c].status \notin Outstanding

(* Liveness.  Storage, timers, microtasks and the server's answers run     *)
(* eventually; faults, crashes and reconnects are never owed.              *)
Progress ==
    \/ Persisted \/ CommitStaged
    \/ \E g \in backoff : RetryTimer(g)
    \/ StartBatch \/ Prepared \/ Seal \/ SealConflict \/ Dispatch
    \/ AckConfirmed \/ AckAwaiting \/ AckRejected \/ AckNoRows
    \/ DeltaReceived
    \/ \E k \in Keys : SourceConfirmed(k) \/ \E reply \in Replies : ServerDecides(k, reply)

LiveSpec == Spec /\ WF_vars(Progress)

(* The three ways a caller is left waiting: a delete cancelled the update, *)
(* which emits nothing; the row has a request that is never complete again *)
(* because one of its members was cancelled; the row was passed over for a *)
(* newer write whose save then failed.                                     *)
Stranded(t) ==
    \/ tx[t].status = "rolled_back"
    \/ \E u, v \in Issued : /\ tx[u].status = "rolled_back" /\ tx[u].env # 0
                            /\ tx[v].env = tx[u].env /\ tx[v].row = tx[t].row
    \/ \E u \in Issued \ saved : /\ tx[u].status = "failed" /\ t < u
                                  /\ tx[u].row = tx[t].row

(* "guarantees the call-site promise always settles" (MutationQueue.ts     *)
(* 1113), as far as the code keeps it.  The application of this model      *)
(* stops writing; then the queue blocks, or every caller but the stranded  *)
(* is answered, by a receipt, a rejection, an echo, a failed save or the   *)
(* end of the retries, through parking and backoff.                        *)
AnsweredUnlessStranded ==
    []<>(blocked \/ \A t \in Issued : tx[t].conf = "open" => Stranded(t))
=============================================================================
