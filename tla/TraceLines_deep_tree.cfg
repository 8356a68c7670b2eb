\* A tree deeper than the line buffer.
SPECIFICATION Spec
CONSTANTS
    LogElapsed = TRUE
    LogExceptions = TRUE
    Capacity = 8
    StampWidth = 1
    FieldWidth = 1
    SegmentWidth = 2
    TextSizes = {1}
    HeaderSize = 1
    Seekable = TRUE
    MayFail = FALSE
    TornSizes = {0, 2}
    MayRunOut = FALSE
    MaxRuns = 1
    MaxLines = 4
    MaxRecords = 4
INVARIANTS
    PatchesHitTheirOwnLine
