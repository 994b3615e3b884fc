SPECIFICATION FairSpec
CONSTANTS
    Main = main
    LoopThreads = {lt1}
    PlainThreads = {}
    FdLoops = {lt1}
    Sigs = {usr}
    Defaults = {}
    Ignored = {}
    PipeCap = 2
    MaxRaises = 1
    MaxCalls = 1
PROPERTIES
    EventReachesUserThread
CHECK_DEADLOCK FALSE
