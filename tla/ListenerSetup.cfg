SPECIFICATION Spec
CONSTANT MaxAddrs = 3
INVARIANTS
    LedgerSound
    AllOrNothing
    AlpnWhileListening
