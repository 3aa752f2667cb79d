SPECIFICATION FairSpec
CONSTANTS
    c1 = c1
    c2 = c2
    Claim = {c1, c2}
    NoClaim = NoClaim
    Looping = {c1}
    MaxDrops = 1
    MaxTimeouts = 1
    MaxLosses = 1
INVARIANTS TypeOK IndexesAgree NoSilentLoss RevokedIsReleased
PROPERTIES LostLeaseEndsHandle ReleaseArrives
CHECK_DEADLOCK FALSE
