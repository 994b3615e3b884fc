SPECIFICATION FairSpec
CONSTANTS
    Main = main
    LoopThreads = {}
    PlainThreads = {pt1}
    FdLoops = {}
    Sigs = {term, pipe}
    Defaults = {term}
    Ignored = {pipe}
    PipeCap = 2
    MaxRaises = 2
    MaxCalls = 2
INVARIANTS
    MainInOrder
PROPERTIES
    ApiCallsEnd
    CaughtIsHandled
CHECK_DEADLOCK FALSE
