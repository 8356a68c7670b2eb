\* Failing writes and several runs appending to one file.
SPECIFICATION Spec
CONSTANTS
    LogElapsed = TRUE
    LogExceptions = TRUE
    Capacity = 8
    StampWidth = 1
    FieldWidth = 1
    SegmentWidth = 2
    TextSizes = {1, 2}
    HeaderSize = 1
    Seekable = TRUE
    MayFail = TRUE
    TornSizes = {0, 2}
    MayRunOut = FALSE
    MaxRuns = 2
    MaxLines = 3
    MaxRecords = 3
INVARIANTS
    TypeOK
    CursorIsEndOfFile
    PatchesHitTheirOwnLine
    PendingWhileOnStack
