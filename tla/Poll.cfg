SPECIFICATION Spec
CONSTANTS
    Handles = {h1, h2}
    Events = {r, e}
    MaxItems = 2
    StackItems = 1
    Timeouts <- SomeTimeouts
    Unit = 4
    Limit = 3
    LongMax = 4
    Null = Null
    NaN = NaN
INVARIANTS
    HeapBalanced
    ResultByKey
    StaleOnlyByConversion
    TimevalNeverLonger
CHECK_DEADLOCK FALSE
