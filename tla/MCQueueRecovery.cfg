CONSTANTS
    MaxBatch = 2
    ChildRows = {}
    Rows = {"r"}
    NewRows = {"r"}
    MissingRows = {}
    Kinds = {"create", "update", "delete"}
    Opts = {"plain"}
    Replies = {"confirmed", "queued"}
    MaxRetries = 2
    MaxTx = 3
    MaxKeys = 3
    FaultKinds = {"lane"}
    MaxFaults = 1
    MaxCrashes = 2
SPECIFICATION Spec
CHECK_DEADLOCK FALSE
INVARIANTS LiveIsRecoverable
PROPERTIES ImplementsDurability
