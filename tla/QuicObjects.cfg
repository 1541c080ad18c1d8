SPECIFICATION FairSpec
CONSTANTS
    Listeners = {l1}
    Connections = {c1, c2}
    Streams = {s1}
    Resources = {r1}
    Engines = {e1, e2}
    Fds = {f1, f2}
    None = None
INVARIANTS
    TypeOK
    NoDanglingReference
    NothingForgotten
    DescriptorOwnedOnce
    FdIsEngineSocket
    StreamOnItsConnection
PROPERTIES
    ShutdownReleasesAll
    ImplementsTable
