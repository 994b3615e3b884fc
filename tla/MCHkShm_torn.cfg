SPECIFICATION Spec
CONSTANTS
    N = 3
    Writers = {w1, w2}
    Readers = {r1}
    Words = {a, b}
    MaxPuts = 4
    TimeRange = 0
    Start = 1
    MaxTime = 1
    Wrap = 16
    Crc32 <- MCCrc32
    ZeroCrc <- MCZeroCrc
    MaxCrashes = 1
    Fresh = FALSE
    InitIndexes <- MCIndexesOfBuilds
SYMMETRY Symmetry
INVARIANTS
    StaysInRing
    NoTornRead
CHECK_DEADLOCK FALSE
