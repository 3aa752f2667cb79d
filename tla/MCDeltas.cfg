SPECIFICATION FairSpec
CONSTANTS
    r1 = r1
    r2 = r2
    title = title
    body = body
    Tx = {"t1", "t2"}
    NoTx = NoTx
    Row <- McRow
    StoreOf <- McStoreOf
    Field = {title}
    Scenarios <- McScenarios
    Start = 1
    MaxBatchSize = 2
    SliceDeltas = 1
    MaxQueued = 0
    MaxFaults = 1
INVARIANTS TypeOK CursorCovers InOrderReveal IntactCommitRevealedWhole StoredConverges PoolConverges
PROPERTIES AckIsDurable CatchesUp
