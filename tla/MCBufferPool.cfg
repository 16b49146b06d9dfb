CONSTANTS
    Thread = {t1, t2, t3}
    NumPages = 3
    NumFrames = 2
    Attempts = 2
    None = None
SPECIFICATION Spec
SYMMETRY Symmetry
CONSTRAINT Unstolen
INVARIANTS
    HandleStable
    PinsAreOwned
    OneFramePerPage
    BarrierExcludesPins
    LocksProtectPages
    CloseLeavesNoOwner
CHECK_DEADLOCK FALSE
