CONSTANTS
    RowId = {i1}
    Value = {a, b}
    MaxEpoch = 3
    None = None
    Absent = Absent
    Torn = Torn
    MaxId = 3
    MaxVal = 1
    NoLimit = NoLimit
    NoOrder = NoOrder
    NoResult = NoResult
    NoWork = NoWork
    NoUndo = NoUndo
    Loads <- MCLoads
    Use <- MCUse
SPECIFICATION MCSpec
SYMMETRY Symmetry
INVARIANTS
    UsernameIndexComplete
    SnapshotsComplete
    RoutesAgree
    StatementAllOrNothing
PROPERTY
    DurableByWholeSteps
