SPECIFICATION MCSpec
CONSTANTS
    Timeout = 3
    Wrap = 64
    Start = 1
    MaxTime = 10
    MaxSets = 1
    MaxFalls = 5
    Clients = {c1, c2}
    Nowhere = Nowhere
    RequestIds = {i1, i2}
    MaxTurns = 5
    Crossings = {1, 2, 3, 4}
    Broken = Broken
    Documents <- MCDocuments
    Maps <- MCMaps
    MaxFiles = 5
    MaxCalls = 2
INVARIANTS
    PairsAreClose
    NoPairMissed
    AnswerIsWay
    RequestsAnswered
    BlockedTold
    PathEveryThird
PROPERTIES
    OneEvent
    CallReturns
CHECK_DEADLOCK FALSE
