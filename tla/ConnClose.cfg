SPECIFICATION FairSpec
CONSTANTS
    Codes = {k1, k2}
    MaxData = 3
    None = None
INVARIANTS
    DataBeforeClose
    FirstCodeSent
PROPERTIES
    InfoIsFrozen
    CloseReturns
CHECK_DEADLOCK FALSE
