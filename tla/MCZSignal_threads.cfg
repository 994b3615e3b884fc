SPECIFICATION Spec
CONSTANTS
    Main = main
    LoopThreads = {lt1}
    PlainThreads = {pt1}
    FdLoops = {lt1}
    Sigs = {term}
    Defaults = {term}
    Ignored = {}
    PipeCap = 1
    MaxRaises = 2
    MaxCalls = 3
INVARIANTS
    RecordBeforeDeath
    NoneVanishes
PROPERTIES
    KeepsPromise
CHECK_DEADLOCK FALSE
