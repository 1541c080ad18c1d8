SPECIFICATION FairSpec
CONSTANTS
    Buffers = {b1, b2}
    Lengths = {1, 2, 4}
    SendBuffer = 3
    MaxBytes = 6
    Codes = {k1, k2}
    None = None
INVARIANTS
    Accounted
    FinIsWhole
    NullExplained
PROPERTIES
    WriteCompletes
CHECK_DEADLOCK FALSE
