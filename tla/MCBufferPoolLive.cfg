CONSTANTS
    Thread = {t1, t2}
    NumPages = 3
    NumFrames = 1
    Attempts = 3
    None = None
SPECIFICATION FairSpec
PROPERTIES
    PinAnswers
    BarrierLifted
CHECK_DEADLOCK FALSE
