CONSTANTS
    MaxBatch = 2
    ChildRows = {"r"}
    Rows = {"r", "s"}
    NewRows = {"r"}
    MissingRows = {"s"}
    Kinds = {"create", "update", "archive", "delete"}
    Opts = {"plain", "intent", "keyed"}
    Replies = {"confirmed", "zero", "queued", "rejected", "norows"}
    MaxRetries = 2
    MaxTx = 2
    MaxKeys = 3
    FaultKinds = {"save", "prepare", "basis", "answer", "expiry"}
    MaxFaults = 2
    MaxCrashes = 0
SPECIFICATION Spec
CHECK_DEADLOCK FALSE
INVARIANTS TypeOK ResolvedWasApplied
