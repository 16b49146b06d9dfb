CONSTANTS
    MaxPages = 3
    Datum = {d1, d2}
    Name = {s1}
    PoolSize = 3
    MaxSavepoints = 0
    Uses = {"autocommit", "begin", "truncate", "ddl", "crash"}
    None = None
    Hole = Hole
    Blank = Blank
SPECIFICATION Spec
SYMMETRY Symmetry
INVARIANTS
    IInv
    RecoveredFreeListSound
    NoPageLost
PROPERTIES
    LeaksOnlyInCreateTable
    LogRemovedWhenRedundant
    StoreSpec
