SPECIFICATION Spec
CONSTANTS
    Users = users
    Other = other
    KeyOf <- MCKeyOf
    Version = {0, 1}
    MaxCells = 2
    MaxKeys = 2
    MaxPages = 6
INVARIANTS TreesInv PagesPartitioned RowsReachable PolicyAcceptsHealthyTree
PROPERTY VersionSurvivesGrowth
CONSTRAINT OneMisrouted
CHECK_DEADLOCK FALSE
