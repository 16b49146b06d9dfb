SPECIFICATION Spec
CONSTANTS
    Root = 1
    Capacity = 2
    MaxKeys = 2
    MaxPages = 56
    Key <- MCKey
    Size = {1, 2}
    Loads <- MCLoads
INVARIANTS TypeOK PagesPartitioned SeparatorsExact RowsReachable
    RefusedForCauseOnly
CHECK_DEADLOCK FALSE
