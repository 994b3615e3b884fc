SPECIFICATION Spec
CONSTANTS
    N = 3
    Writers = {w1}
    Readers = {r1}
    Words = {a, b}
    MaxPuts = 4
    TimeRange = 0
    Start = 1
    MaxTime = 2
    Wrap = 16
    Crc32 <- MCCrc32
    ZeroCrc <- MCZeroCrc
    MaxCrashes = 0
    Fresh = FALSE
    InitIndexes <- MCIndexZero
SYMMETRY Symmetry
PROPERTIES
    FreshPayload
CHECK_DEADLOCK FALSE
