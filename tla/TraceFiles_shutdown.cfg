\* Main and a worker: safety and liveness.
SPECIFICATION Spec
CONSTANTS
    Threads = {main, worker}
    Main = main
    NoThread = none
    MaxCancels = 2
INVARIANTS
    TypeOK
    NoUseAfterClose
    RegistryNotDangling
    NoHookAfterDestruction
    ShutdownFlushesWhatItLeavesOpen
    EndedThreadsClosedTheirFile
    CancellationSparesTheHooks
PROPERTIES
    HooksReturn
    ShutdownEnds
CHECK_DEADLOCK FALSE
