# A verification project for Ablo

Ablo is a sync engine. An application reads and writes *models*; the package
`packages/humans` keeps a local copy of them in the browser, applies writes
optimistically, journals them in IndexedDB and commits them to a server, which
orders all commits and streams them back as *deltas*. `packages/transaction` is
the protocol below: commits, claims (leases on rows), transports, credentials and
the delivery of writes to a customer's own source database.
`packages/resource-adapter` extends claims to files: a supervisor that publishes
the edits of several workers to a shared directory.

The project models five parts of the system, each a protocol between actors that
fail separately:

* the **mutation queue**, from a write to its receipt (`MutationQueue` and its
  abstract specification `WriteDurability`);
* the **delta pipeline**, from a server frame to storage, screen and cursor
  (`DeltaPipeline`);
* the **claims** of the socket client (`ClaimStream`);
* the **connection**: machine, socket, credential, sign-out (`Connection`);
* the **resource adapter** (`ResourceAdapter`).

Paths below are relative to `src/packages/humans/src/local/` unless they start with
`src/`; `T/` stands for `src/packages/transaction/src/` and `R/` for
`src/packages/resource-adapter/`.

## 1. Inventory

### The mutation queue (modelled)

| part | state | operations |
|---|---|---|
| coordinator, `MutationQueue.ts` | staging area, execution queue, commit lane, parked deletes, retry timers, `durableReplayBlock`, confirmation promises | `create`, `update`, `archive`, `remove`, `drainPending`, `onDeltaReceived`, `loadPersistedTransactions`, `restoreDurableCommits` |
| model writes, `modelOperations.ts`, `coalesceRules.ts` | – | build a write, cancel a never-sent create together with its delete, let a delete supersede updates, park a delete behind a sent create |
| selection, `executionQueue.ts`, `commitPayload.ts` | – (pure) | `enqueueTransaction`, `takeNextExecutionBatch`, priority score |
| batch lane, `batchProcessing.ts` | the batch in progress | `processBatch`: select, prepare, mint a key, seal, dispatch, settle by receipt |
| failure, `failureHandling.ts`, `failurePolicy.ts` | attempts | permanent or transient; retry with backoff |
| scheduling, `processingScheduler.ts` | `processScheduled`, `executingCount` | arm at most one run, refuse while too many writes execute |
| journal, `mutationPersistence.ts`, `durableCommitRestore.ts` | – | save, remove, reload, replay sealed envelopes |
| transport, `commitTransport.ts` | – | seal, bounded dispatch, remove the envelope |
| commit lane, `commitLane.ts` | FIFO of sealed commits | send the head, retry it, wait for its delta |
| delta confirmation, `deltaConfirmation.ts` | – | complete writes that await a delta |
| storage, `Database.ts` | `__transactions` | save, remove, `sealTransactionRecord` |

How they interact: everything runs on one JavaScript thread, so the interleaving
is that of the code between two `await`s, timers, storage callbacks and answers
of the server. The parts share the mutable `QueuedMutation` objects: a delete
that runs while a batch awaits its storage transaction changes the status of the
batch's members under it. Storage survives a crash, the queue does not. The
server keeps one verdict per idempotency key, and a request that timed out on the
client may still be applied.

What makes it correct: a journalled write is applied at most once and is never
lost between journal and envelope; a retry is the identical request; the writes
of a row are applied in the order they were made; a delete does not overtake its
row's create; a caller is told success only for an applied write, and is told
something; no queued write waits for an event that will not come.

### The delta pipeline (modelled)

| part | state | operations |
|---|---|---|
| `sync/SyncWebSocket.ts`, `sync/socketEventWiring.ts` | cursor, catch-up lane | open, poll, receive a delta, a batch or a chunk, acknowledge |
| `sync/deltaPipeline.ts` | pending deltas, debounce timer, the drain, changes held from a failed reveal | enqueue, flush, drain, slices, acknowledge |
| `Database.ts` | object stores, metadata cursor | `processDeltaBatch`, `bootstrapFromServer`, `clear` |
| `logPosition.ts`, `sync/syncCursor.ts`, `sync/persistedPrefix.ts` | applied, persisted and acknowledged positions | advance |
| `SyncClient.ts`, `sync/bootstrapApply.ts`, `sync/groupChange.ts`, `sync/reconnect.ts`, `BaseSyncedStore.ts` | the pool, the queue of deferred deltas | reveal a slice, show a snapshot, replay, group removal, rebuild |

Hard: a batch is detached, written store by store and revealed slice by slice with
an await between any two steps, while frames arrive, a group removal clears
everything, a bootstrap rebuilds it, or the connection drops. Correct means: the
cursor never passes a delta that is neither stored nor on its way to storage; data
the client lost access to is not shown again; the rows of a commit appear
together; storage and pool converge on the server's rows.

### Claims (modelled)

A handle goes through `claims.create` (`client/reactiveEngine.ts`), the wait for the
grant (`T/claims/awaitGrant.ts`), the fresh read (`client/createModelOperations.ts`),
a heartbeat loop (`T/claims/heartbeat.ts`) and its end (`T/claims/lifetime.ts`);
`sync/createClaimStream.ts` keeps the stream's own handles, pending heartbeats and
the releases that wait for a connection. Hard: the loss is observed before the
grant, during the read or in the answer to somebody else's beat; the socket drops
with a beat or a release in flight. Correct means: the indexes agree on what has
ended, a lost lease ends its handle and its holder is told, and a release reaches the
server.

### The connection (modelled)

`T/transport/connection/manager.ts` is a state machine with effects (probe, refresh,
reconnect, backoff) that answer later; `T/transport/websocket/transport.ts` owns the
socket and its own retry; `T/sessions/lifecycle.ts` re-mints the credential, one
request at a time for several who wait; `sync/reconnect.ts`, `BaseSyncedStore.ts`
and `sync/terminalSessionLifecycle.ts` reconnect, disconnect and sign out. Hard:
answers to effects of a state that has been left, close events of replaced sockets,
lost browser events. Correct means: one live socket at most, no sign-out unless an
answer ended the session, no state in which everybody waits for nobody, and the
machine comes to rest connected.

### The resource adapter (modelled)

`R/linux/store.py` keeps files, leases, operations, staging and read dependencies in
one SQLite database behind one lock; `R/linux/daemon.py` runs requests in threads
and talks to the claim gateway `R/src/index.ts`; `R/linux/filesystem.py` gives a
command its private view; `R/linux/publication.py` publishes a project command under
claims taken when it ends; `R/linux/file_removal.py` removes exact files in phases.
Hard: leases lapse, are taken over, renewed or granted late while an operation
runs; the supervisor restarts. Correct means: files change only under the server's
lease and only from what the operation really saw; a prepared removal is alone;
every admitted operation gets its receipt.

### The rest (not modelled)

| component | state | hard behaviour |
|---|---|---|
| direct commits, offline grace, `commitApi.ts` | `commitStore` | grace timer against a late answer |
| echo suppression, `UnconfirmedWrites.ts` | unconfirmed ids | echo before receipt |
| source delivery, `T/source/` | push queue, idempotency table | retry after a lost answer |
| on-demand loading, subscriptions, `sync/` | loaded scopes | load against live deltas |
| undo, instance cache, model facade | stacks and caches over the above | – |
| HTTP transport, commit helpers, CLI, facade, reporting | – | input/output and formatting |
| process isolation and Rust coordinator of the adapter | operating-system resources | – |

`PROJECT.json` lists every component with its sources, and the hazards, each at
its line.

## 2. Plan

1. *(done)* `WriteDurability`: the abstract protocol of journal, seal, outbox and
   server log, with its proofs.
2. *(done)* `ExecutionQueue` and `MutationQueue`: the detailed queue; it is checked
   and proved to implement `WriteDurability`.
3. *(done)* `ProcessingScheduler`: backpressure, with its proofs.
4. *(done)* `DeltaBatch` and `DeltaPipeline`: the pure parts of a batch, and the
   pipeline around them.
5. *(done)* `ClaimStream`.
6. *(done)* `Connection`.
7. *(done)* `ResourceAdapter`.
8. Proofs. *(done)* every safety property of `ProcessingScheduler`, `ClaimStream`,
   `Connection`, `ResourceAdapter` and `MutationQueue` (each of its steps a
   `WriteDurability` step or a stutter), and of `DeltaPipeline` all but convergence.
9. `CommitLane`: direct atomic commits, offline grace and dispose; the delta
   confirmation timers and the bounded echo maps.
10. `PushQueue` with the idempotency adapter of a source database.

Runs for 9 and 10 stay within three or four messages, two rows and two faults,
which is what one overtaking, one loss and one repair need.

## 3. The modules

| module | models |
|---|---|
| `WriteDurability` | what recovery depends on: saves, journal rows, groups under a key, seals, outbox, server log |
| `ExecutionQueue` | pure selection and ordering rules, as operators |
| `MutationQueue` | the life cycle of writes; extends `ExecutionQueue`, instantiates `WriteDurability` |
| `ProcessingScheduler` | when the batch lane runs |
| `DeltaBatch` | pure parts of applying a batch: deduplication, delete-wins, merge, durable prefix, slices |
| `DeltaPipeline` | frames, drain, cursor, group removal, bootstrap; extends `DeltaBatch` |
| `ClaimStream` | the claims of one row, their clients' sockets, and the server's lease |
| `Connection` | connection machine, socket, credential, sign-out |
| `ResourceAdapter` | store, daemon, gateway and removal of a shared directory |
| `MC...` | instances for TLC |
| `WriteDurabilityProofs`, `MutationQueueProofs`, `ProcessingSchedulerProofs`, `ClaimStreamProofs`, `ConnectionProofs`, `ResourceAdapterProofs` | theorems about the module of that name |
| `DeltaPipelineProofs` | theorems about the drain and group removals |
| `DeltaCursorProofs` | the theorem about the resume cursor; extends `DeltaPipelineProofs` |

### WriteDurability

A write `t` enters with `Issue`, which starts its journal save and fixes its
`claims` (`sourceMutationIds`): its own journal row, plus the rows of updates a
delete supersedes. `Mint` groups writes under a key in memory. `Seal` is
`sealTransactionRecord`: one storage transaction that requires every claimed row,
deletes the rows and stores the envelope. `Dispatch` may be repeated for ever;
the server decides a key once; `Remove` needs a decision. `Crash` forgets the
saves under way (each lands or not) and what deletes had taken over. `Mint` may
group the same writes twice: that stands for a restart, and for a second tab that
loaded the same journal. The strict IndexedDB path is modelled; the in-memory
fallback of `sealTransactionRecord`, which has nothing to recover, is not.

### ExecutionQueue

`EnqueueAll` (the `Admitted` writes, high priority at the head), the stable
`SortByPriority` (parents created first), and `TakeNextBatch`: the first *complete*
retry group in its original order, otherwise the `Fresh` writes, whose rows are not
reserved, cut at `MaxBatch` and at explicit keys (`Candidates`), with barriers
between writes that must not share a commit (`Selected`). The loops of the code are
written as the sets of positions they select, and `Keep` (`Array.filter`) lists the
writes in their order. Models are rows of `Rows`; a row in `ChildRows` belongs to a model that
references another.

### MutationQueue

One action per piece of code between two awaits:

| actions | code |
|---|---|
| `Write`, `RemoveUnsent`, `RemoveRow`, `CascadeCancel` | `modelOperations.ts`, `coalesceRules.ts`, the cancel functions |
| `Persisted`, `PersistFailed`, `PurgeLands` | storage callbacks of the journal |
| `CommitStaged`, `DrainPending`, `RetryTimer` | the microtask, reconnect, and `scheduleRetry` |
| `StartBatch`, `Prepared`, `PrepareTransient`, `PreparePermanent` | `processBatch` up to and after `prepareUnsealedOperations` |
| `Seal`, `SealConflict`, `SealTransient` | `sealDurableCommit` succeeds, finds a row gone, aborts |
| `Dispatch`, `Expire` | `dispatchCommitBounded`, the replay window |
| `AckConfirmed`, `AckAwaiting`, `AckRejected`, `AckNoRows`, `AckTransient` | the ways a receipt, a rejection or silence ends a batch |
| `DeltaReceived`, `SourceConfirmed`, `ReplicationLag` | confirmation after the batch |
| `CrashRestart` | the process dies; envelopes go to the lane, journal rows to the queue |
| `LaneSend`, `LaneReceipt`, `LaneTransient`, `LaneConfirmed` | `processCommitLane` |
| `ServerDecides` | the server (external) |

`Settle` collects what every settlement does: status, the caller's promise,
release of parked deletes, removal of journal rows, retry timers. `tx[t].conf` is
the caller's promise: `open`, `resolved`, `rejected`, `cancelled` (answered
without a server operation) or `lost` (the process that held it died).

Abstractions:

* A save and the staging after it are one step. The code stages a same-tick group
  after all its saves have settled, in the same order.
* Awaits of `rollbackOptimistic` and of the acceptance record of a queued receipt
  are collapsed into the step they belong to. An echo that arrives before its
  receipt is `AckAwaiting` followed by `SourceConfirmed`.
* The availability window of retries is open or expired as an environment choice
  at every failure; backoff delays are arbitrary.
* Write ids are numbers in creation order; `archive` stands for `unarchive` too;
  options are `plain`, `reorder`, `intent` and `keyed`.
* Cascade cancellation takes the create of a child row and any of its updates: which of
  them set the foreign key is left open.
* After "no rows in result set" the creates and archives of the batch fail for good. The
  code decides by the status of the error, and would retry them only after a 5xx, which
  that message does not come with.
* A restart loads any of the journal's rows in any order: rows are keyed by random ids,
  and those of another scope or past the server's window are skipped and stay.
* `waitForOperationAncestors`, which makes a field intent wait for restored
  commits, is left out, so intents may be prepared earlier than in the code.
* `executingCount` is left out: `ProcessingScheduler` shows that it never keeps a
  selectable write from being run.
* `BatchDone` always arms the next run. The code tests the length of the array
  captured before the selection, which still holds the batch.

### ProcessingScheduler

Counts instead of writes: how many are selectable, how large the batch in
progress is, `executingCount` as the code computes it (from the context's stale
copy), armed and waiting runs.

### DeltaBatch and DeltaPipeline

A delta is an entry of the server's log and its position the sync id. A stored
record maps a field to the sync id of the delta that wrote it last, so two records
are equal exactly when the same writes made them; `ImageAt` is what the server
holds. The pool keeps the watermark of each resident row. `InOrder` sorts a set of
sync ids. The server's logs are arbitrary sequences of deltas except that a commit is
logged in one piece (`InOnePiece`), which is how the server assigns sync ids and what
`sliceApplyChanges` relies on.

| actions | code |
|---|---|
| `Open`, `Poll`, `Receive`, `LaneStart`, `LaneAck` | `SyncWebSocket`, `socketEventWiring` |
| `TimerFires`, `DrainLoop` | `scheduleDeltaFlush`, `drainPendingDeltas` |
| `PersistRead`, `PersistWrite`, `PersistDone` | the reads, the store transactions and the prefix of `processDeltaBatch` |
| `ApplySlice`, `ApplyThrows`, `Acknowledge` | `flushDeltaBatchInner` after persisting |
| `RevokeClear`, `ForceFullRebootstrap` | `handleGroupRemoved`, its fallback, the rebuild it forces |
| `BootFetch`, `BootClear`, `BootStore`, `BootFails` | `bootstrapFromServer` with the queue of deferred deltas |
| `Drop` | the socket closes: the transport's own retry only sends the cursor again, a reconnect of the manager bootstraps first (`PerformReconnect`) |
| `Publish`, `Answer` | the server (external) |

Left out: group additions, custom entities, echo detection, the preparation of
model operations and the cap of the headless cache before a slice is applied,
partial bootstraps, and `checkSyncGroupShrinkage`. The covering kinds of delta take
the path of an insert. `failed`, `lost`, `deferred`, `rebuild`, `revokedAt` and
`durable` are history variables that the properties use: `deferred` are the deltas
that went into memory ahead of the cursor, behind a bootstrap or as a chunk the lane
has started; `lost` are dropped broadcasts, and the chunks of a lane whose promise
has rejected.

### ClaimStream

One row and a set of claims, each with a socket of its own and frames in order both
ways. `holder` and `line` are the server's (external). `Request` to `Dispose` follow
one handle through the code; `Tick`, `SendHeartbeat`, `AckTimeout` and
`HeartbeatAck` are the loop and its pending beat, `OnLost` says when the loop calls the
caller's callback; `Disconnect` and `Connect` the stream's listeners, with the recheck of handles and the resend of releases.
`lostAbandon` and `missed` record the two losses the code accepts: a release lost in
flight, and an answer that came after its beat was given up.

### Connection

`m` is the client: the machine's `state`, its timers, `sock` with the state of every
socket ever opened, `ws` the transport's current one, the effects in flight
(`probes`, `reconnects`, `waiters` of the re-mint) and `life`. The environment is
`online`, `net`, `key` and `login`. `Transition` is the transition table;
`OnEnterState` starts the effects; `ProbeAnswers`, `ReconnectSucceeds`,
`ReconnectFails`, `ReconnectRefused` and `MintAnswers` end them, whatever the state
is by then. A terminal close or a refused bootstrap is an answer the client believes,
whether or not the login exists; `told` records that there was one. `ForwardSocketEvent` is the bridge from socket events to the machine; it
does nothing, because the code copies the hook before it is set (finding 1).
Replacing its body by `Send(w, e)` gives the intended system. Left out: the variant
without a refresher, `checkSyncGroupShrinkage`, and delays, which are arbitrary.

### ResourceAdapter

Every action is one critical section of the store's lock, or a step of the gateway,
of a command or of the clock. `lease` is the adapter's table, `srv` the server's
lease, `gate` the gateway's cache, `call[t]` what a thread waits for from the
gateway. Time is kept per file as terms: each grant or renewal is a term, `Lapse`
passes the adapter's deadlines in order, and `Expire` ends the server's lease only
after the adapter's deadline, which is what the gateway subtracts `skew` for. The
order is an assumption: it holds when the requests for a file name one ttl, as all do
that take the default of 30 s. After a long grant and a shorter renewal, an old answer
that is installed late would outlive the server's lease. The operator of a removal
sends its grants with the request; the model takes them from the server (`Granted`),
which is the same as long as the operator releases none before the removal ends, since
a grant that expired at the server has lapsed here and is not installed.
Evidence of a read is any revision the file has had: older tokens are stale.

| actions | code |
|---|---|
| `Claim`, `ClaimInstall`, `Heartbeat`, `HeartbeatEnds`, `Release`, `AnswerLost` | `daemon.py` requests, `store.install`, `renew` |
| `Grant`, `Renew`, `Refuse`, `Free`, `Forget` | the gateway; a release is two steps, and the second may forget a lease granted in between |
| `StartAny`, `ToolStage`, `PublishStaged` | `start`, the tool edits, `publish` |
| `Pin`, `Look`, `List`, `Edit`, `Move`, `CommandFails`, `CommandExits`, `OpHeartbeat` | `run_isolated` and the file system |
| `Freeze`, `ProjectClaim` … `ProjectDone` | `publish_project` |
| `Prepare`, `RemovalCommit`, `RemovalAbort`, `RemovalRelease` | the phases of `file_removal.execute` |
| `Restart` | `Store.__init__` on existing state |

Left out: git refs and their claims, sandbox masks, profiles, gVisor, the
interactive channel, the event feed, the waiting claim, subdirectories, kinds and
modes, "unpublished" evidence in receipts, and a clock that goes backwards. `seen`,
`listed` and `returned` (per file, the fences a refused install gave back to the
server) are history. A project that cannot install a grant releases it with the
others, which ends the row; `returned` gets the fence only when the row has not seen it.

## 4. Runs

Deadlock is checked in the runs of `DeltaPipeline`, where the poll never ends. It is
not in the others: an idle client, a closed one, and one whose bounds are used up,
rightly stop. The fields of each cfg are the bounds.

| run | properties | instance and what it shows |
|---|---|---|
| `durability` | `DurabilityInv`, `ExactlyOnce`, `NoMissingHandoff`, `UndecidedIsDurable` | three writes, two keys that may group the same writes, with symmetry; the promises hold |
| `queue_order` | `SameRowOrder`, `NoOrphanPending`, `RetriesAreIdentical`, `DeleteWaitsForCreate`, `AnsweredUnlessStranded` | creates, updates and deletes of two rows, three writes; one failed save, aborted seal or lost answer; receipts that reject or leave a write to its source echo. Order, retries and the delete's wait hold, and every caller is answered except the three kinds that "cancelled update", "lost wake-up" and "partial retry" are about |
| `queue_recovery` | `LiveIsRecoverable`, `ImplementsDurability` | one row, three writes, two crashes at any point, a failing commit lane; every step is a step of `WriteDurability` |
| `queue_receipts` | `TypeOK`, `ResolvedWasApplied` | every write kind, plain, intent and keyed; every receipt; missing rows; preparation failures, expiry |
| `scheduler` | `NoLostRun`, `SchedulerInv` | a limit of two, batches of three, six enqueues |
| `deltas` | `TypeOK`, `CursorCovers`, `AckIsDurable`, `InOrderReveal`, `IntactCommitRevealedWhole`, `StoredConverges`, `PoolConverges`, `CatchesUp` | three logs (a commit over two stores and a delete; chunks with a position the client may not see; a group removal) with one fault anywhere |
| `claims` | `TypeOK`, `IndexesAgree`, `NoSilentLoss`, `RevokedIsReleased`, `LostLeaseEndsHandle`, `ReleaseArrives` | two claims, one with a heartbeat loop; one disconnect, one lost answer, one expired lease |
| `connection` | `TypeOK`, `NoOrphanSocket`, `SignOutWasTold`, `NoEmptyWait`, `MachineSettles`, `SignOutConverges` | three sockets, two faults among a dead network, an unannounced return, an expired key, a lost login |
| `workspace` | `TypeOK`, `FencedPublication`, `SerialPublication`, `PreparedIsExclusive`, `EverySettles` | two workers, two files, eight casts of operations: edit against command with a takeover or a restart, edit against project command, removal against both, edits and commands of two files |
| `ws_events` | `NoDeadEnd` (violated) | finding 1 |
| `batch_merge` | `StoredConverges` (violated) | finding 2 |
| `on_lost` | `LossIsReported` (violated) | two claims, one disconnect and one expired lease: finding 3 |

Why the bounds suffice. In the queue, overtaking needs two writes of a row and one of
another to share a batch with; a partial retry needs a group of two; a second fault
(`queue_receipts`) or crash (`queue_recovery`) meets the repair of the first. In the pipeline, one delta is stored at the
start, a batch holds two, a slice one: enough for a batch to fail in one of two
stores, to be split, to be overtaken by a removal and to meet a bootstrap. A claim
is lost, waited for and taken over by two. A replaced socket, its replacement and
the one after it are three. A takeover in the adapter is two terms of a file, a
takeover and a late renewal three. Each property has a mutant of the code (a dropped
check, a swapped order, a missing reschedule) that these bounds expose.

**Fairness.** What JavaScript and the platform owe is weakly fair: storage
callbacks, microtasks, timers, the scheduled run, answers to requests that arrived.
Faults, crashes, disconnects and what the application asks for are not owed.

* `LiveSpec` of `MutationQueue`: the disjunction of those steps; with finitely much
  to do nothing can starve. `AnsweredUnlessStranded` allows `blocked`: the code
  announces that state and stops.
* `DeltaPipeline`: frames are delivered, the poll is sent, the drain and the
  bootstrap go on, a closed socket is opened again. `CatchesUp` is about the rows that no
  failed transaction and no lost broadcast touched, and has three exceptions, all stated
  in it: a catch-up lane whose promise rejected, a removal that is delivered again, and
  a session whose first bootstrap failed after its clear.
* `ClaimStream`: frames are delivered, a socket that dropped reconnects, the loop
  ticks.
* `Connection`: effects answer, timers and the watchdog fire, the server comes back,
  the socket's events arrive. `SignOutConverges` also assumes the pre-roll timer.
* `ResourceAdapter`: the gateway answers, and the thread of an admitted operation
  goes on; a command ends by itself or at its deadline.

**The limits of what passes.** `SameRowOrder` is about plain writes of one process:
with `intent` and failing preparation, with `reorder`, with archives and after a crash it
is violated (section 5). The logs of
`deltas` never have two partial updates of one row in one batch (finding 2), nor a
row deleted and created again in one slice. `InOrderReveal` is `NoStaleReveal` for a
server that answers a request in one response ("overtaken chunks" below), and
`IntactCommitRevealedWhole` is `CommitRevealedWhole` for commits none of whose changes
is superseded ("split commit"). `FencedPublication` has one exception, stated in it (see
"refused install" below). `NoSilentLoss` is
about every handle in use, with or without a heartbeat loop. `NoOrphanPending` says that
a pending write is kept somewhere, not that it will be selected ("partial retry");
`SignOutWasTold`, that an answer ended the session, not that the answer was right
("believed refusal").

## 5. Findings

1. *Socket events* (`ws_events`). `wireSocketEvents` copies `onConnectionEvent` when
   the store is constructed, before the hook is installed, so nothing the socket
   reports reaches the connection machine, against `BaseSyncedStore.ts:1516-1517`
   ("WS events fire the hook, the hook forwards into the FSM"). When the first
   handshake fails, the transport leaves the retry to its owner
   (`T/transport/websocket/transport.ts:1003`), and the machine stays `connected`
   without a socket. With the bridge in place (`ForwardSocketEvent` as `Send`)
   `NoDeadEnd` holds on the same instance.
2. *Merged updates* (`batch_merge`). `processDeltaBatch` merges each update onto the
   record read before the batch, so of two partial updates of one row in a batch the
   second stores the old value of the first one's field, against
   `Database.ts:998-999` ("so fields the delta omits are preserved"). The pool is
   right until it is rebuilt from storage.
3. *Silent callback* (`on_lost`). `onLost` is "called once when a beat learns the lease is
   no longer yours" (`T/claims/heartbeat.ts:55-57`; `client/createModelOperations.ts:941`).
   On the socket the lifetime ends before the beat is rejected
   (`sync/createClaimStream.ts:395-397`); its listener stops the loop, whose catch then
   returns early (`T/claims/heartbeat.ts:143`), and the callback is never called.

### Further observations

Each was found with these modules. The first seven are disagreements with a statement
of the repository; to reproduce one, check the given formula on `MutationQueue` with
the constants of the named cfg, changed as said.

* *Cancelled update.* `cancelTransactionsForModel` moves a superseded update to
  `rolled_back` and emits nothing (`MutationQueue.ts:1777`), so its caller's promise
  stays open, although the listeners should guarantee "the call-site promise always
  settles" (`MutationQueue.ts:1113`). `queue_order` with `Kinds = {"update", "delete"}`
  and no faults; `AnsweredUnlessStranded` without `Stranded`.
* *Lost wake-up.* A row is passed over while a newer write of it is being saved; a run
  that selects nothing arms no other (`batchProcessing.ts:415`), and if the save then
  fails, nothing does for the older write, whose caller waits, against the same line.
  `queue_order` with `Kinds = {"update"}` and `FaultKinds = {"save"}`, the same formula.
* *Cancelled create.* A delete that arrives while the create's batch awaits
  `prepareUnsealedOperations` cancels the create and completes both locally;
  `processBatch` then marks the batch executing without looking at the status and
  sends the create (`batchProcessing.ts:103`), although "terminal or currently
  executing rows have no authority to cross the dispatch boundary"
  (`executionQueue.ts:25`). `queue_order`; the invariant: no key on the wire has a
  member whose promise is `cancelled`.
* *Partial retry.* When a delete rolls back one member of an executing batch and the
  answer is lost, the other members wait for a group that is never complete again
  (`executionQueue.ts:38`), until a restart. `queue_order`; the invariant: with the
  queue idle and nothing scheduled, no pending write is in a group with a settled one.
* *Delete after restart.* The create barrier looks at the mutation store
  (`coalesceRules.ts:74`). After a restart the create is on the commit lane, and the
  delete from the journal is sent concurrently, although "a delete must wait for it
  to settle" (`coalesceRules.ts:11`). `queue_order` with one crash violates
  `DeleteWaitsForCreate`.
* *Cascade-cancelled create.* A parent's delete rolls back the create of a child row
  also when that create is executing. A rolled-back create is no barrier, so a delete
  of the child row is sent while the create has no answer yet. `queue_order` with
  `ChildRows = {"r"}` violates `DeleteWaitsForCreate`. This and the previous one are
  why the theorem about that property has two hypotheses (section 6).
* *Held intent.* A batch held because its basis is unavailable comes back at the end
  of the queue, behind later writes of its rows (`MutationQueue.ts:437`), although the
  test `MutationQueue.idempotency-retry.test.ts:194` is named "… or letting a
  descendant overtake". `queue_order` with `Opts = {"plain", "intent"}` and
  `FaultKinds = {"prepare"}` violates `SameRowOrder`.
* *Reordered drags.* Updates of order or position are `high` and put at the head one
  by one, which reverses two of them on one row. `queue_order` with
  `Opts = {"reorder"}` violates `SameRowOrder`.
* *Overtaken archive.* A delete cancels the waiting updates of its row, not its waiting
  archives (`modelOperations.ts:79`), and enters the queue at the head: the server gets
  the delete first and then the archive of a deleted row. `queue_order` with `"archive"`
  in `Kinds` violates `SameRowOrder`.
* *Overtaken envelope.* After a restart a sealed write is replayed by the commit lane
  while a later write of its row, from the journal, goes out with the queue: the store
  the queue looks at for rows in flight does not know the restored envelope.
  `queue_order` with one crash violates `SameRowOrder`.
* *Reloaded order.* The journal is read in the order of its random row ids
  (`mutationPersistence.ts`), so two unsent writes of a row may change places over a
  restart. This and the four before it are why the theorem about `SameRowOrder` has its hypotheses
  (section 6).
* *Inherited rows.* The window of the cancelled create also lets a delete take over
  journal rows that the superseded update's envelope then consumes; the delete's seal
  fails with `idempotency_conflict`.
* *Executing count.* The finally block of `processBatch` stores the count from before
  the batch *minus* the batch, so `executingCount` drifts below zero and
  `maxExecutingTransactions` soon limits nothing. `ProcessingScheduler` has this
  arithmetic, and proves that the drift at least strands no write.

In the pipeline, the first three against a statement of the repository. The second and
the third came out of proofs: the invariant was not inductive, and TLC then found how
the failing step's state is reached.

* *Lost broadcast.* The catch-up poll asks from the cursor, and the cursor follows what
  arrived. After a lost broadcast the next one moves it past the gap, and neither the
  poll nor a socket the transport reopens asks for the lost delta, although "this
  interval guarantees eventual consistency by fetching any deltas that were committed
  but whose broadcast was lost in transit" (`sync/SyncWebSocket.ts:156-158`). A full
  bootstrap repairs it. `deltas` violates `<>[](lost \subseteq durable)`.
* *Overtaken chunks.* Catch-up chunks wait in a promise chain
  (`sync/socketEventWiring.ts:85-96`), live deltas do not. A group removal that is
  broadcast while chunks wait clears stores and pool before they are processed, and
  `clearPendingPublications` does not reach them: a chunk from before the removal is
  stored and shown after the clear, until the rebuild the removal forces, although
  "Security clears invalidate detached work as well as queued and persisted
  projections" (`sync/deltaPipeline.ts:134`). `batch_merge` with
  `Scenarios <- McOvertaken` and `Field = {title}` violates `NoStaleReveal`.
* *Split commit.* The result of an insert or update that a delete of the batch
  supersedes carries no transaction id (`Database.ts:1236`), so `sliceApplyChanges`
  takes it for the end of the transaction and may end a slice there, although "a
  transaction never splits across slices" (`sync/deltaPipeline.ts:552`). `batch_merge`
  with `Scenarios <- McSuperseded` and `Field = {title}` violates `CommitRevealedWhole`.
* *Rejected lane.* When the pool throws under a catch-up chunk, the lane's promise
  rejects and no later chunk is processed (`sync/socketEventWiring.ts:85-96`),
  although the poll should guarantee "eventual consistency"
  (`sync/SyncWebSocket.ts:156`).
* *Failed store.* A store transaction that failed is not retried in the session; a
  later batch acknowledges past it (compare `SyncClient.ts:1871-1877`).
* *Deferred chunks.* A chunk deferred during a bootstrap counts as persisted, so its
  position is acknowledged before it is stored (`sync/socketEventWiring.ts:85-92`).
* *Recreated row.* A row deleted and created again in one slice is not added to the
  pool.
* *Removal again.* After a group removal the cursor is still below the removal, which
  is delivered, and obeyed, again.
* *Unqueued rebuild.* `performReconnect` rebuilds without deferring live deltas, and
  the metadata cursor may move back.

In the claims:

* If the fresh read fails after the grant (`client/createModelOperations.ts:877`), the
  lease stays with nobody who could release it, until it expires.
* A release lost in flight is not sent again; a grant that arrives while the socket
  is down leaves `create` waiting; a `claim_begin` while disconnected is dropped; an
  answer after the beat's timeout is ignored.

In the connection:

* *Believed refusal.* A close with 4001 other than `credential_expired`, with 4003 or
  1008, and a bootstrap answered with a bare 401 or 403 or an expired token
  (`T/transport/websocket/transport.ts:974-995`, `sync/BootstrapFetcher.ts:868-876`) end
  the session although the login may exist and a re-mint would succeed. If the refusal
  answers a reconnect whose state has been left, the machine ignores it but the socket
  stays latched shut: only a fresh client clears it
  (`T/transport/websocket/transport.ts:658-664`).
* `disconnect()` is terminal by its comment (`BaseSyncedStore.ts:1364-1370`), but a
  reconnect or re-mint in flight opens the socket again, without listeners.
* `performReconnect` reports success before the socket opens, which resets the
  attempts; `validating_session` is never entered; a protocol mismatch (close 4010) is
  announced to nobody on this path.

In the adapter:

* *Refused install.* A claim whose grant cannot be installed is given back upstream
  without touching the lease row (`R/linux/daemon.py:149-151`). If another thread of
  the worker still holds that very lease, it goes on publishing under a lease the
  server has freed, until its deadline. Another owner's grant only counts once it is
  installed, so two owners never publish under it. A project's refused install ends the
  row when it releases, and is an exception only for a thread that installs that grant
  afterwards.
* *Forgotten lease.* The gateway releases a lease and only then deletes its entry
  (`R/src/index.ts:138`); a lease granted to the same worker and file in between is
  forgotten with it, can no longer be renewed or released, and runs out at the server.
* After a failed heartbeat the gateway offers its cached lease again, which `install`
  refuses once as stale; the release that follows makes the next claim succeed.
* While a removal is fenced, an operation sent again gets `adapter_busy` rather than
  its receipt (`R/linux/store.py:252`).
* An abort before `prepare` sets the fence while other operations run.

## 6. Proofs

`tlapm` checks eight modules. The properties were checked with TLC before they were
proved, and so were the largest strengthenings: `Cover` of `DeltaCursorProofs` on the
instance of `deltas`, `Sequenced` of `MutationQueueProofs` on that of `queue_order`,
`RowByRow` on instances with keyed writes, child rows, faults and all the replies. The
theorems hold for every value of the constants that the named assumptions allow.

**WriteDurabilityProofs**, for any sets `Tx` and `Key`, without assumptions on them.

* `TypeCorrect`.
* `DurabilityInvariant`: `DurabilityInv` is inductive. `ExactlyOnce` alone is not: it
  speaks of accepted keys, and nothing in it forbids that two keys with a common
  write are about to be accepted. The strengthening follows the journal row. A write
  has one home (`OneHome`): its save is under way, or it has its row, or sealed
  envelopes consumed the row, and a consumed row never returns. A group seals at
  least the rows of its members (`GroupsClaimTheirRows`), so two seals share nothing
  (`SealsAreDisjoint`): the second would have found a row gone. Only sealed keys
  travel (`OnlySealedTravels`).
* `WritesApplyOnce` (`ExactlyOnce`) follows from that invariant;
  `HandoffIsNeverMissing` (`NoMissingHandoff`) and `UndecidedStaysDurable`
  (`UndecidedIsDurable`) are proved with it.

**MutationQueueProofs**, for any rows, models, options, replies and bounds
(`QueueAssumption`: the sets are subsets of what the code knows and the bounds are
natural numbers; `MaxBatchAssumption`: a batch is not empty).

* `QueueCore`: the inductive invariant `Core`, kept by each of the handlers and by a crash
  with its restart. Beside the types: write ids are given out in order (`Numbered`); a
  write owns its own journal row, and a delete those of the earlier writes it supersedes
  (`SourcesGood`); whatever is past its save has had a row (`Homes`); a sealed envelope has
  consumed the rows of its operations (`Envelopes`); only sealed keys are stored, travel or
  wait in the lane, and the log is what the verdicts accept (`Ledger`); and a write with a
  key, or in the batch, belongs to the group of that key (`Groups`, `BatchGood`). The last
  two are what retries rest on: a group comes back in pieces, through timers and drains.
  Lemmas say what `InOrder`, `Keep`, `EnqueueAll`, `SortByPriority`, `CompleteRetries`,
  `TakeNextBatch` and `Remaining` return.
* `QueueTypes` (`TypeOK`) and `RetriesSendTheSameRequest` (`RetriesAreIdentical`) follow.
  The second needs a count: the pending members of a group are among the key's operations
  and as many as these, so none is left out.
* `QueueImplementsDurability` (`ImplementsDurability`), one lemma per handler. Issuing a
  write is `Issue`, the end of a save is `Persist` or `PersistFail`, `PurgeLands` is
  `Release`, `Prepared` is `Mint` or, on a retry, a stutter, `Seal` is `Seal` because it
  demands every row, `Dispatch` and `LaneSend` are `Dispatch`, the server's decision is
  `ServerAccept` or `ServerReject`, a receipt is `Remove` because its key is decided, and
  `CrashRestart` is `Crash`. Everything else leaves the durable state alone: cancelling,
  parking, batching and backoff are stutters. With `WritesApplyOnce` this gives exactly-once for the detailed queue.
* `PendingWritesAreHeld` (`NoOrphanPending`): `PendingHeld` is inductive with `Core`. The
  step to argue about is `StartBatch`, where what is neither in the batch nor in
  `Remaining` must not be pending.
* `ResolvedMeansApplied` (`ResolvedWasApplied`): `AnswersGood` adds the writes that await
  their delta, which have been applied already; a step only adds to the history of keys,
  log and verdicts (`HistoryGrows`), so an answer once justified stays so.
* `LiveWritesSurviveCrashes` (`LiveIsRecoverable`): `Recovery` adds that only rows of settled
  or superseded writes are being removed, and that what the lane replays has no write in
  memory.
* `DeletesFollowCreates` (`DeleteWaitsForCreate`), as long as no crash has happened and no
  row of a child model is created; without either hypothesis the property is false
  (section 5), and the run `queue_order` is an instance with both. `Sequenced` follows the
  create from the moment the delete was issued: the create was sent by then
  (`CreatesFirst`), a row has one create (`OneCreate`), a write belongs to one key (`Keyed`),
  it is confirmed only under a decided one (`Decided`), and a delete leaves its save or the
  parking lot only when the create is settled.
* `RowsAreAppliedInOrder` (`SameRowOrder`), as long as no crash has happened, writes are
  plain or keyed and nothing is archived; without any of these the property is false
  (section 5), and the run `queue_order` is an instance with all. The log alone says nothing
  of what comes next, so `RowByRow` follows a write from its issue to the log:
  + in the store (`Store`), a row's create comes first, only deletes have priority, nothing
    follows a delete that did not fail, nothing issued before a delete is still without a
    key, and a write is confirmed or completed only under a decided key;
  + in the places (`Tidy`), saves, the staging area and the queue hold the writes of a row
    in the order they were issued, among those that have no key yet. The queue as a whole
    is not in that order: deletes are put at the head, and it is sorted by score. Lemmas say
    that filtering, `EnqueueAll` and `SortByPriority` keep the order within a row;
  + at the selection (`First`), a fresh batch leaves no live write of its rows behind that
    is undecided: `SealedRows` keeps the rows of requests in flight or in backoff, and of
    writes still on their way to the queue, out of the batch, and `Selected` takes the
    writes of a row from the front;
  + among the keys (`InKey`, `AcrossKeys`), a write has a key only when the live ones before
    it have the same or a decided one; so a key that the server decides goes to the end of
    a log that is in order (`InLog`).

**ProcessingSchedulerProofs**, for every limit, batch size and number of enqueues
above the zeros that `SchedulerAssumption` excludes.

* `SchedulerInvariant`: `NoLostRun` is not inductive, because `Schedule` may refuse.
  The strengthening `IdleBelowLimit` says that an idle lane never looks busy to
  `scheduleProcessing`: the count before a batch was below the limit, and the stale
  subtraction only lowers it.
* `BackpressureStrandsNothing` (`NoLostRun`).

**ClaimStreamProofs**, for any set of claims and any bounds (`ClaimAssumption`: the
value for "nobody" is no claim, the bounds are natural numbers).

* `IndexesAlwaysAgree` (`IndexesAgree`): the proof goes through every path on which a
  claim can end, before and after its grant, and through the two paths that fill the
  indexes. It needs that a claim is the stream's own from its request on
  (`HandlesKnown`).
* `StreamInvariant`: the inductive invariant `StreamInv`. The promises about losses and
  releases are about frames on their way, so they are not inductive: a grant may
  arrive for a lease that is already gone. `GrantTold` says that whatever tells a client
  that it holds its lease is true or is followed by the loss on the same connection;
  `Asked`, that a request is made once and ahead of its abandon; `Dark`, that a closed
  connection carries nothing; `LineOK`, that nobody is in the server's line twice.
* `ClaimTypes` (`TypeOK`), `LossIsNeverSilent` (`NoSilentLoss`) and
  `RevokedClaimsAreReleased` (`RevokedIsReleased`) follow from it.

**ConnectionProofs**, for any finite non-empty set of sockets and any bounds
(`ConnectionAssumption`; it must not be empty because `Init` opens the first socket).

* `ConnectionInvariant`: the inductive invariant `ConnInv`. One step makes several calls
  on the client (an event enters a state, which starts an effect, which disconnects),
  so the invariant is a predicate of the client record (`ClientOK`, `Waiting`) that is
  carried from call to call. `NoOrphanSocket` needs that an opening socket has
  `connecting` set; `SignOutWasTold`, that no step of a timer, a failed mint or a late
  answer reaches a terminal state by itself, and that an answer once given stays
  recorded (`StillTold`); `NoEmptyWait`, while the mint's answer is handed to those who
  wait, who of them has still to be told (`Half`).
* `ConnectionTypes` (`TypeOK`), `OneLiveSocket` (`NoOrphanSocket`),
  `SignsOutOnlyWhenTold` (`SignOutWasTold`) and `WaitsAreAnswered` (`NoEmptyWait`)
  follow from it.

**ResourceAdapterProofs**, for any workers, files, operations and casts
(`AdapterAssumption`: distinct kinds of names, every operation has an owner).

* `AdapterInvariant`: the inductive invariant `AdapterInv`. `OpsGood`: what an operation
  was shown is what it captured; its view is an earlier state of the files, and as long
  as the directory has the view's revision it has the same members. `FenceGood`: a
  removal that is prepared has the fence and is alone. `RowsGood`, for the leases: a row
  that counts is the server's lease or was given back by a refused install
  (`RowGood`); a grant on its way that can still be installed is the server's lease, and
  a lease that is being released counts no more (`CallGood`); what a project has to give
  back was installed or refused (`AcqGood`); and a fence has one owner wherever it is
  written down (`Agree`).
* `AdapterTypes` (`TypeOK`), `RemovalsAreExclusive` (`PreparedIsExclusive`), and the action
  properties `PublicationIsSerial` (`SerialPublication`) and `PublicationIsFenced`
  (`FencedPublication`). The attempt to prove the last one showed that a file may have
  several fences given back by a refused install, a worker's or a project's; the model's
  history keeps them all.

**DeltaPipelineProofs**, for any rows, fields, stores and logs, either way of answering,
any batch and slice size and number of faults (`DeltaAssumption`: logs are sequences of
deltas that hold each commit in one piece, the sizes are positive).

* `DrainInvariant`: the inductive invariant `Core`. Beside the types: a frame is what is
  visible of a stretch of the log (`WireGood`); the batch in the drain is in order, each
  of its deltas waits for its store or has a result that is stored or failed, the prefix
  to acknowledge is `HighestPersistedPrefix` of what is stored, and no slice so far has
  cut an intact commit (`FlushInv`); what the batch counts as stored is in the stores
  (`DurableGood`); and a rebuild runs with the link down or with everything deferred
  (`RebuildGood`). Lemmas say what `InOrder`, `DeduplicateDeltas`,
  `HighestPersistedPrefix`, `SliceEnd` and `Reveal` return.
* `DeltaTypes` (`TypeOK`), `CommitsRevealedWhole` (`IntactCommitRevealedWhole`) and
  `AcknowledgedIsDurable` (the action property `AckIsDurable`) follow from it. The first
  needs `InOnePiece`: the slice ends where the transaction id changes, and only in a log
  that holds commits in one piece is that the end of the commit.
* `PipelineInvariant` and `RevealsInOrder` (`InOrderReveal`). With answers in one response,
  no frame on the wire ends before the last removal (`InOrderWire`), and what is queued
  or may still be shown is later than it (`RemovalGood`). A frame may reach back over
  the removal, but then it delivers the removal again, which clears once more
  (`Follows`).

**DeltaCursorProofs**, under the same assumptions.

* `CursorInvariant`: the inductive invariant `CursorInv`. `CursorCovers` speaks of the
  cursor only, and the cursor takes its values from elsewhere, so `Cover` says of every
  place a position comes from that nothing the client lacks lies below it: the applied
  position, a request in flight, each frame (a live delta relies on what was sent before
  it, an answer on the cursor it started from), the batch and the queue, the deferred
  deltas, and the lane's jobs (`Stream`, `Batches`, `Jobs`). `Side` says how link, lane and
  bootstrap go together. While the stores are incomplete and nothing is deferred
  (`Incomplete`), a rebuild has still to run and nothing is claimed.
* `CursorCovered` (`CursorCovers`).

**Only model-checked.** `StoredConverges` and `PoolConverges`: the first is false for some logs (finding 2), both compare the outcome
of a whole log with `ImageAt`, and the logs for which they hold are listed, not
characterised. All liveness (`CatchesUp`, `LostLeaseEndsHandle`, `ReleaseArrives`,
`MachineSettles`, `SignOutConverges`, `EverySettles`, `AnsweredUnlessStranded`), which is out of
the reach of the prover.

## 7. Not modelled

In the queue: payload building and projection, optimistic rollback, statistics,
latency reports, attachment uploads, legacy journal formats and scopes, expiry of
envelopes at restore, delta confirmation timers, offline grace, dispose,
`handleConflict`, the special case of Activity deletes, direct commits. In the other
modelled parts: what section 3 lists under "left out". Outside them: the components
of the last table of section 1. Most of the repository's remaining lines are of kinds
that hold no protocol state: schemas and error tables, typed facades, request and
response plumbing, code generation, the command line, reporting, examples and
operating-system integration.
