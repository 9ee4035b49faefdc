SPECIFICATION Spec
CONSTANTS
    m = m
    a = a
    b = b
    f = f
    Threads <- MCThreads
    Main = m
    NULL = NULL
    Unset = Unset
    Ports = {p1, p2}
    Timeouts = {1000}
    Functions = {f}
    MaxInits = 2
SYMMETRY Symmetric
INVARIANTS
    TypeOK
    WsaCoversSockets
    LoopHasListener
PROPERTIES
    NullOnlyInCreation
    TaskConfigured
