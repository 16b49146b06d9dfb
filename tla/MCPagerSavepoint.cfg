CONSTANTS
    MaxPages = 2
    Datum = {d1, d2}
    Name = {s1, s2}
    PoolSize = 1
    MaxSavepoints = 2
    Uses = {"autocommit", "begin", "truncate", "ddl", "read", "close"}
    None = None
    Hole = Hole
    Blank = Blank
SPECIFICATION Spec
SYMMETRY Symmetry
INVARIANTS
    FreeListSound
    DirtyHasImage
PROPERTIES
    StoreSpec
