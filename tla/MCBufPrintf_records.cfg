SPECIFICATION Spec
CONSTANTS
    Size = 8
    Calls <- MCCalls
    Output <- MCOutput
    Char <- MCChar
    NUL = NUL
    NoCall = NoCall
    Garbage = Garbage
    MaxPrints = 2
    UShort = 16
    UInt = 256
    ULong = 1024
INVARIANTS
    InBounds
    HoldsBeginning
    AgreesWithC
CHECK_DEADLOCK FALSE
