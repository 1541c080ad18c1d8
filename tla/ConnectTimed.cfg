SPECIFICATION FairSpec
CONSTANTS
    Timeouts = {1, 3, 6}
    Timers = {1, 2, 4}
    IntMax = 4
    MaxTime = 9
INVARIANTS
    ResultIsHonest
    WakesInTime
PROPERTY Returns
CHECK_DEADLOCK FALSE
