CONSTANTS
    t1 = t1
    t2 = t2
    t3 = t3
    k1 = k1
    k2 = k2
    Tx <- MCTx
    Key <- MCKey
SPECIFICATION Spec
SYMMETRY MCSymmetry
CHECK_DEADLOCK FALSE
INVARIANTS DurabilityInv ExactlyOnce NoMissingHandoff UndecidedIsDurable
