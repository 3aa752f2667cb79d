SPECIFICATION Spec
CONSTANTS
    c1 = c1
    c2 = c2
    Claim = {c1, c2}
    NoClaim = NoClaim
    Looping = {c1}
    MaxDrops = 1
    MaxTimeouts = 1
    MaxLosses = 1
PROPERTIES LossIsReported
CHECK_DEADLOCK FALSE
