SPECIFICATION FairSpec
CONSTANTS
    Chunk = 2
    Lengths = {1, 3, 5, 8}
    MaxBytes = 9
INVARIANTS
    LoopBounds
    NoByteLost
PROPERTIES
    Drains
    ReadReturns
    ImplementsPipe
