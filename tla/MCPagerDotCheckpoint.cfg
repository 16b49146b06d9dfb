CONSTANTS
    MaxPages = 2
    Datum = {d1, d2}
    Name = {s1}
    PoolSize = 2
    MaxSavepoints = 0
    Uses = {"begin", "dotckpt"}
    None = None
    Hole = Hole
    Blank = Blank
SPECIFICATION Spec
SYMMETRY Symmetry
PROPERTIES
    NoUncommittedInFile
