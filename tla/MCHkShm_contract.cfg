SPECIFICATION Spec
CONSTANTS
    N = 3
    Writers = {w1}
    Readers = {r1}
    Words = {a, b}
    MaxPuts = 4
    TimeRange = 1
    Start = 2
    MaxTime = 4
    Wrap = 16
    Crc32 <- MCCrc32
    ZeroCrc <- MCZeroCrc
    MaxCrashes = 1
    Fresh = FALSE
    InitIndexes <- MCInitIndexes
PROPERTIES
    GetContract
    PublishedStable
    ActsAsLatestValue
CHECK_DEADLOCK FALSE
