SPECIFICATION Spec
CONSTANTS
    r1 = r1
    r2 = r2
    title = title
    body = body
    Tx = {"t1", "t2"}
    NoTx = NoTx
    Row <- McRow
    StoreOf <- McStoreOf
    Field = {title, body}
    Scenarios <- McPartial
    Start = 1
    MaxBatchSize = 2
    SliceDeltas = 1
    MaxQueued = 0
    MaxFaults = 0
INVARIANT StoredConverges
