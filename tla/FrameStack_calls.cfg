\* Calls, recursion, inlining, tail-called exits, longjmp and Clang exceptions.
SPECIFICATION Spec
CONSTANTS
    Bounds <- Stack
    NoName = ""
    Bodies <- CallsBodies
    Fn <- CallsFn
    BaseName <- CallsFn
    TailExit = {"leaf", "host"}
    Dwarf <- CallsBodies
    Noexcept = {"task"}
    LogOutcomes <- CallsOutcomes
    Sites <- CallsSites
    Kind <- CallsKind
    Host <- CallsHost
    Target <- CallsTarget
    Drop <- CallsDrop
    Up <- CallsUp
    Cleanup = {"m_cleanup", "t_cleanup", "w_cleanup", "h_cleanup", "r_cleanup"}
    Parent <- CallsParent
    EntryLevel = 20
    SignalLevel = 0
    StubDrop = 2
    Compiler = "clang"
    LogExceptions = TRUE
    InitialCapacity = 2
    JumpTargets = {"main", "walk", "leaf", "sort", "host", "retry", "step"}
    Throws = TRUE
    MayRunOut = FALSE
    MaxDepth = 7
    MaxRecords = 10
    MaxInFlight = 2
INVARIANTS
    TypeOK
    DepthCountsLoggedRecords
    LiveRecordsKept
PROPERTIES
    CallLinesAtTrueDepth
    ExitsPopTheirOwnRecord
    CatchLinesUnderTheCatcher
\* A program that meets a noexcept boundary ends in Clang's stub.
CHECK_DEADLOCK FALSE
