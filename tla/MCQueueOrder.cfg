CONSTANTS
    MaxBatch = 2
    ChildRows = {}
    Rows = {"r", "s"}
    NewRows = {"r"}
    MissingRows = {}
    Kinds = {"create", "update", "delete"}
    Opts = {"plain"}
    Replies = {"queued", "rejected"}
    MaxRetries = 2
    MaxTx = 3
    MaxKeys = 3
    FaultKinds = {"save", "seal", "answer"}
    MaxFaults = 1
    MaxCrashes = 0
SPECIFICATION LiveSpec
CHECK_DEADLOCK FALSE
INVARIANTS SameRowOrder NoOrphanPending RetriesAreIdentical DeleteWaitsForCreate
PROPERTIES AnsweredUnlessStranded
