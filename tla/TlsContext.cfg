SPECIFICATION TlsSpec
INVARIANTS
    PeerVerified
    ContextComplete
CHECK_DEADLOCK FALSE
