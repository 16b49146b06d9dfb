SPECIFICATION Spec
CONSTANTS
    Users = users
    Other = other
    KeyOf <- MCStaleKeyOf
    Version = {0}
    MaxCells = 3
    MaxKeys = 2
    MaxPages = 6
INVARIANT EveryRowFound
CHECK_DEADLOCK FALSE
