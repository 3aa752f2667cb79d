CONSTANTS
    MaxExecuting = 2
    BatchLimit = 3
    MaxAdds = 6
SPECIFICATION Spec
CHECK_DEADLOCK FALSE
INVARIANTS NoLostRun SchedulerInv
