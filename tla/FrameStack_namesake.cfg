\* An inlined filtered function with its host's base name.
SPECIFICATION Spec
CONSTANTS
    Bounds <- Stack
    NoName = ""
    Bodies <- SwapBodies
    Fn <- SwapFn
    BaseName <- SwapName
    TailExit = {}
    Dwarf <- SwapBodies
    Noexcept = {}
    LogOutcomes <- SwapOutcomes
    Sites <- SwapSites
    Kind <- SwapKind
    Host <- SwapHost
    Target <- SwapTarget
    Drop <- SwapTwo
    Up <- SwapTwo
    Cleanup = {}
    Parent <- SwapParent
    EntryLevel = 20
    SignalLevel = 0
    StubDrop = 2
    Compiler = "clang"
    LogExceptions = FALSE
    InitialCapacity = 2
    JumpTargets = {}
    Throws = FALSE
    MayRunOut = FALSE
    MaxDepth = 5
    MaxRecords = 7
    MaxInFlight = 2
INVARIANTS
    LiveRecordsKept
