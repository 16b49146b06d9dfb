CONSTANTS
    Thread = {t1, t2}
    NumPages = 2
    NumFrames = 1
    Attempts = 2
    None = None
SPECIFICATION Spec
SYMMETRY Symmetry
INVARIANTS
    PinnedFrameKept
CHECK_DEADLOCK FALSE
