\* An object file whose section-name table is typed SHT_NULL.
SPECIFICATION Spec
CONSTANTS
    Digits = 2
    Scopes = {}
    MaxScopes = 0
    Word = 256
    HeaderSize = 8
    EntrySize = 8
    MaxHeaders = 3
    XIndex = 250
    OldXIndexes <- MCOldXIndexes
    NoteHeader = 12
    NameSize = 25
    FileSizes = {4, 40}
    Words = {0, 8, 32, 255}
    Counts = {0, 1, 2, 4, 32, 249, 250}
    NoteSizes = {0, 1, 4, 63}
    MaxOpens = 3
INVARIANTS
    EveryReadStaysInside
CHECK_DEADLOCK FALSE
