\* Two threads and two plugins that are mapped to overlapping ranges in turn.
SPECIFICATION Spec
CONSTANTS
    Threads = {t1, t2}
    NoThread = NoThread
    Images = {"exe", "a", "b"}
    NoImage = "none"
    Hosts = {t1}
    Exe = "exe"
    Debug <- MCDebug
    DynamicSymbol <- MCDynamicSymbol
    LinkageNames <- MCLinkageNames
    SameFunction <- MCSameFunction
    StdNames <- MCStdNames
    Demangled <- MCDemangled
    BaseOf <- MCBaseOf
    Base <- MCBase
    Code <- MCCode
    SlotOf <- MCSlotOf
    HookCalls <- MCHookCalls
    ApiCalls <- MCApiCalls
    LostSets <- MCLostSets
    MaxCalls = 2
    MaxLoads = 2
INVARIANTS
    TypeOK
    GuardTellsWhereTheThreadIs
PROPERTIES
    ImplementsMemoTable
    UnloadedObjectsNeverAnswer
    ResolvesReturn
\* The program may stop calling the resolver, and the calls are bounded.
CHECK_DEADLOCK FALSE
