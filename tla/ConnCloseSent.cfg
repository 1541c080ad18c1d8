SPECIFICATION FairSpec
CONSTANTS
    Codes = {k1, k2}
    MaxData = 3
    None = None
CHECK_DEADLOCK FALSE
PROPERTY CloseIsSent
