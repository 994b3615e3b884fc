SPECIFICATION Spec
CONSTANTS
    Main = main
    LoopThreads = {}
    PlainThreads = {pt1}
    FdLoops = {}
    Sigs = {term}
    Defaults = {term}
    Ignored = {}
    PipeCap = 2
    MaxRaises = 0
    MaxCalls = 2
PROPERTIES
    ResetRestoresDefault
CHECK_DEADLOCK FALSE
