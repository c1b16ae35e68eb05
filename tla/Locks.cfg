SPECIFICATION Spec
CONSTANTS
    Txns = {x1, x2, x3}
    Unlocked = Unlocked
INVARIANTS
    NoCancelledHeld
    DeadlocksNeedEscrowFirst
PROPERTIES
    CommitsAreAtomic
SYMMETRY MCSymmetry
CHECK_DEADLOCK FALSE
