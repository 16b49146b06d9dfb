CONSTANTS
    MaxPages = 3
    Datum = {d1, d2}
    Name = {s1}
    PoolSize = 3
    MaxSavepoints = 1
    Uses = {"begin"}
    None = None
    Hole = Hole
    Blank = Blank
SPECIFICATION Spec
SYMMETRY Symmetry
PROPERTIES
    NoChecksumExit
