\* Exceptions under GCC, an alternate signal stack, and running out of memory.
SPECIFICATION Spec
CONSTANTS
    Bounds <- Stack
    NoName = ""
    Bodies <- SigBodies
    Fn <- SigFn
    BaseName <- SigFn
    TailExit = {}
    Dwarf <- SigBodies
    Noexcept = {}
    LogOutcomes <- SigOutcomes
    Sites <- SigSites
    Kind <- SigKind
    Host <- SigHost
    Target <- SigTarget
    Drop <- SigTwo
    Up <- SigTwo
    Cleanup = {"m_cleanup", "w_cleanup"}
    Parent <- SigParent
    EntryLevel = 20
    SignalLevel = 200
    StubDrop = 2
    Compiler = "gcc"
    LogExceptions = TRUE
    InitialCapacity = 2
    JumpTargets = {}
    Throws = TRUE
    MayRunOut = TRUE
    MaxDepth = 8
    MaxRecords = 10
    MaxInFlight = 2
INVARIANTS
    LiveRecordsKept
    MarksTellHowFramesEnded
PROPERTIES
    ExitsPopTheirOwnRecord
