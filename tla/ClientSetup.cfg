SPECIFICATION Spec
CONSTANTS
    MaxAddrs = 2
    MaxEntries = 2
INVARIANTS
    ThrowLeavesNothing
    LedgerSound
    DoneIsVerified
    PinnedToAll
CHECK_DEADLOCK FALSE
