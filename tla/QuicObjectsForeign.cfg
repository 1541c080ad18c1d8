SPECIFICATION Spec
CONSTANTS
    Listeners = {l1}
    Connections = {c1, c2}
    Streams = {s1}
    Resources = {r1}
    Engines = {e1, e2}
    Fds = {f1, f2}
    None = None
INVARIANT EngineNeverOnForeignSocket
