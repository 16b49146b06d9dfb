CONSTANTS
    MaxPages = 3
    MaxRecords = 2
    a = a
    b = b
    o = o
    Records <- McRecords
    Originals <- McOriginals
    None = None
    Hole = Hole
    StagePages = 3
    MaxDiskPages = 6
    MaxTables = 2
    MaxRows = 1
    MaxWidth = 1
    MaxColumns = 1
    Absent = Absent
    Torn = Torn
    Short = Short
SPECIFICATION MCSpec
CONSTRAINT Known
INVARIANTS
    RecoveryIsIdempotent
    FreeListMatchesLog
    ComposedLogAgrees
    TablesIntact
    OpenRefusedForCauseOnly
PROPERTIES
    PublishedAfterSync
    PagesLostOnlyByDying
    GenerationsAdvance
CHECK_DEADLOCK FALSE
