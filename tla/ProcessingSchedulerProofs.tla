---------------------- MODULE ProcessingSchedulerProofs ----------------------
(***************************************************************************)
(* Backpressure never strands a queued write, for every limit on executing *)
(* writes, every batch size and any number of writes.                      *)
(***************************************************************************)
EXTENDS ProcessingScheduler, TLAPS

(* scheduleProcessing below the limit arms a run.                          *)
LEMMA ScheduleArms ==
    ASSUME scheduled \in BOOLEAN, NEW n, Schedule(n)
    PROVE  /\ scheduled' \in BOOLEAN
           /\ scheduled => scheduled'
           /\ n < MaxExecuting => scheduled'
  BY Zenon DEF Schedule

(* An idle lane that starts keeps the invariant: either nothing is queued  *)
(* and nothing changes, or a batch is now in progress under a count that   *)
(* was below the limit.                                                    *)
LEMMA StartBatchKeepsInv ==
    ASSUME TypeOK, IdleBelowLimit, batch = 0, StartBatch
    PROVE  /\ queued' \in Nat /\ batch' \in 0..BatchLimit
           /\ executingCount' \in Int /\ snapshot' \in Int
           /\ batch' = 0 => queued' = 0 /\ executingCount' < MaxExecuting
           /\ batch' > 0 => snapshot' < MaxExecuting
<1>1. CASE queued = 0
  BY <1>1, SchedulerAssumption DEF TypeOK, IdleBelowLimit, StartBatch
<1>2. CASE queued # 0
  <2>1. PICK n \in 1..BatchLimit :
          /\ n <= queued
          /\ queued' = queued - n
          /\ batch' = n
          /\ snapshot' = executingCount
          /\ executingCount' = executingCount + n
    BY <1>2 DEF StartBatch
  <2>2. QED
    BY <2>1, SchedulerAssumption DEF TypeOK, IdleBelowLimit
<1>3. QED
  BY <1>1, <1>2

(* Every step of the scheduler keeps the invariant.                        *)
LEMMA StepKeepsSchedulerInv ==
    ASSUME SchedulerInv, [Next]_vars
    PROVE  SchedulerInv'
<1>a. TypeOK /\ IdleBelowLimit /\ NoLostRun
  BY DEF SchedulerInv
<1>1. CASE Enqueue
  <2>1. scheduled' \in BOOLEAN /\ (executingCount < MaxExecuting => scheduled')
    BY <1>a, <1>1, ScheduleArms DEF TypeOK, Enqueue
  <2>2. TypeOK' /\ IdleBelowLimit'
    BY <1>a, <1>1, <2>1, SchedulerAssumption DEF TypeOK, IdleBelowLimit, Enqueue
  <2>3. NoLostRun'
    BY <1>a, <1>1, <2>1 DEF IdleBelowLimit, NoLostRun, Enqueue
  <2>4. QED
    BY <2>2, <2>3 DEF SchedulerInv
<1>2. CASE Run
  <2>1. CASE batch = 0
    <3>1. StartBatch /\ waiting' = waiting /\ scheduled' = FALSE /\ adds' = adds
      BY <1>2, <2>1 DEF Run
    <3>2. scheduled' \in BOOLEAN
      BY <3>1, Zenon
    <3>3. TypeOK' /\ IdleBelowLimit'
      BY <1>a, <2>1, <3>1, <3>2, StartBatchKeepsInv DEF TypeOK, IdleBelowLimit
    <3>4. NoLostRun'
      BY <1>a, <2>1, <3>1, StartBatchKeepsInv DEF NoLostRun
    <3>5. QED
      BY <3>3, <3>4 DEF SchedulerInv
  <2>2. CASE batch # 0
    <3>1. scheduled' \in BOOLEAN
      BY <1>2, Zenon DEF Run
    <3>2. TypeOK' /\ IdleBelowLimit' /\ waiting' > 0
      BY <1>a, <1>2, <2>2, <3>1 DEF TypeOK, IdleBelowLimit, Run
    <3>3. QED
      BY <3>2 DEF SchedulerInv, NoLostRun
  <2>3. QED
    BY <2>1, <2>2
<1>3. CASE Resume
  <2>1. batch = 0 /\ StartBatch /\ waiting > 0 /\ waiting' = waiting - 1
        /\ scheduled' = scheduled /\ adds' = adds
    BY <1>3 DEF Resume
  <2>2. QED
    BY <1>a, <2>1, StartBatchKeepsInv, SchedulerAssumption
       DEF SchedulerInv, TypeOK, IdleBelowLimit, NoLostRun
<1>4. CASE Finish
  <2>1. executingCount' \in Int /\ executingCount' < MaxExecuting
    BY <1>a, <1>4, SchedulerAssumption DEF TypeOK, IdleBelowLimit, Finish
  <2>2. scheduled' \in BOOLEAN /\ scheduled'
    <3>1. scheduled \in BOOLEAN /\ Schedule(executingCount')
      BY <1>a, <1>4 DEF TypeOK, Finish
    <3>2. QED
      BY <2>1, <3>1, Zenon DEF Schedule
  <2>3. TypeOK' /\ IdleBelowLimit'
    BY <1>a, <1>4, <2>1, <2>2, SchedulerAssumption DEF TypeOK, IdleBelowLimit, Finish
  <2>4. NoLostRun'
    BY <2>2 DEF NoLostRun
  <2>5. QED
    BY <2>3, <2>4 DEF SchedulerInv
<1>5. CASE UNCHANGED vars
  BY <1>a, <1>5 DEF vars, SchedulerInv, TypeOK, IdleBelowLimit, NoLostRun
<1>6. QED
  BY <1>1, <1>2, <1>3, <1>4, <1>5 DEF Next

(* The inductive invariant holds throughout: an idle lane never looks      *)
(* busy, although processBatch counts with a stale executingCount.         *)
THEOREM SchedulerInvariant == Spec => []SchedulerInv
<1>1. Init => SchedulerInv
  <2>1. Init => scheduled \in BOOLEAN
    BY Zenon DEF Init
  <2>2. QED
    BY <2>1, SchedulerAssumption DEF Init, SchedulerInv, TypeOK, IdleBelowLimit, NoLostRun
<1>2. SchedulerInv /\ [Next]_vars => SchedulerInv'
  BY StepKeepsSchedulerInv
<1>3. QED
  BY <1>1, <1>2, PTL DEF Spec

(* Whenever scheduleProcessing refused to arm a run because too many       *)
(* writes were executing, the end of the batch arms it.                    *)
THEOREM BackpressureStrandsNothing == Spec => []NoLostRun
<1>1. SchedulerInv => NoLostRun
  BY DEF SchedulerInv
<1>2. QED
  BY <1>1, SchedulerInvariant, PTL
=============================================================================
