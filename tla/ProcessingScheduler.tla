------------------------- MODULE ProcessingScheduler -------------------------
(***************************************************************************)
(* When the execution lane of the mutation queue runs.                     *)
(*                                                                         *)
(* scheduleProcessing arms at most one run, and none while too many writes *)
(* are executing.  A run that finds a batch in progress waits for it and   *)
(* then looks at the queue again.  processBatch works on a context object  *)
(* built when it starts: the executingCount it reads in its finally block  *)
(* is the value from before the batch, and the queue whose length it tests *)
(* there is the array from before the selection.                           *)
(*                                                                         *)
(* Writes are counted, not named, from the moment the selection may take   *)
(* them: which writes are held back behind others of their row is the      *)
(* business of ExecutionQueue and MutationQueue, which have no             *)
(* executingCount and rely on the result that backpressure never strands   *)
(* a write that could be sent.                                             *)
(***************************************************************************)
EXTENDS Integers

CONSTANTS MaxExecuting,  \* config.maxExecutingTransactions
          BatchLimit,    \* config.maxBatchSize
          MaxAdds        \* bound: enqueue calls, retries included

ASSUME SchedulerAssumption ==
    /\ MaxExecuting \in Nat \ {0}
    /\ BatchLimit \in Nat \ {0}
    /\ MaxAdds \in Nat

VARIABLES
    queued,          \* selectable writes in executionQueue
    scheduled,       \* processScheduled: a run is armed
    waiting,         \* runs awaiting modelProcessingPromise
    batch,           \* size of the batch in progress, 0 when idle
    executingCount,
    snapshot,        \* executingCount in that batch's context
    adds             \* enqueue calls so far

vars == <<queued, scheduled, waiting, batch, executingCount, snapshot, adds>>

TypeOK ==
    /\ queued \in Nat /\ waiting \in Nat /\ batch \in 0..BatchLimit
    /\ scheduled \in BOOLEAN
    /\ executingCount \in Int /\ snapshot \in Int
    /\ adds \in 0..MaxAdds

Init ==
    /\ queued = 0 /\ waiting = 0 /\ batch = 0
    /\ scheduled = FALSE
    /\ executingCount = 0 /\ snapshot = 0
    /\ adds = 0

(* scheduleProcessing under an executing count of n.                       *)
Schedule(n) == scheduled' = (scheduled \/ n < MaxExecuting)

(* A write enters the queue, and may be selected.                          *)
Enqueue ==
    /\ adds < MaxAdds
    /\ adds' = adds + 1
    /\ queued' = queued + 1
    /\ Schedule(executingCount)
    /\ UNCHANGED <<waiting, batch, executingCount, snapshot>>

(* processBatch in an idle lane: an empty queue is left alone, otherwise   *)
(* n writes are taken and counted.                                         *)
StartBatch ==
    IF queued = 0 THEN UNCHANGED <<queued, batch, executingCount, snapshot>>
    ELSE \E n \in 1..BatchLimit :
            /\ n <= queued
            /\ queued' = queued - n
            /\ batch' = n
            /\ snapshot' = executingCount
            /\ executingCount' = executingCount + n

(* The armed run fires.                                                    *)
Run ==
    /\ scheduled
    /\ scheduled' = FALSE
    /\ IF batch = 0 THEN StartBatch /\ UNCHANGED waiting
       ELSE waiting' = waiting + 1 /\ UNCHANGED <<queued, batch, executingCount, snapshot>>
    /\ UNCHANGED adds

(* A run that waited for the batch in progress continues.                  *)
Resume ==
    /\ waiting > 0 /\ batch = 0
    /\ waiting' = waiting - 1
    /\ StartBatch
    /\ UNCHANGED <<scheduled, adds>>

(* Mutant: the next run is scheduled before the count is brought down.     *)
FinishSchedulesFirst ==
    /\ batch > 0
    /\ Schedule(executingCount)
    /\ executingCount' = snapshot - batch
    /\ batch' = 0
    /\ UNCHANGED <<queued, waiting, snapshot, adds>>

(* Mutant: the count is not brought down.                                  *)
FinishKeepsCount ==
    /\ batch > 0
    /\ batch' = 0
    /\ Schedule(executingCount)
    /\ UNCHANGED <<queued, waiting, executingCount, snapshot, adds>>

(* processBatch's finally block.                                           *)
Finish ==
    /\ batch > 0
    /\ executingCount' = snapshot - batch
    /\ batch' = 0
    /\ Schedule(executingCount')
    /\ UNCHANGED <<queued, waiting, snapshot, adds>>

Next == Enqueue \/ Run \/ Resume \/ Finish

Spec == Init /\ [][Next]_vars
-----------------------------------------------------------------------------
(* Backpressure never strands a write: whenever the lane is idle with      *)
(* writes queued, a run is armed or about to continue.                     *)
NoLostRun == queued > 0 /\ batch = 0 => scheduled \/ waiting > 0

(* What makes it inductive: an idle lane never looks busy.                 *)
IdleBelowLimit ==
    /\ batch = 0 => executingCount < MaxExecuting
    /\ batch > 0 => snapshot < MaxExecuting

SchedulerInv == TypeOK /\ IdleBelowLimit /\ NoLostRun
=============================================================================
