SPECIFICATION Spec
CONSTANTS
    Tasks = {t1, t2, t3}
    Handles = {h1, h2, h3}
    Free = Free
    NoSocket = NoSocket
    Recycled = TRUE
    MaxThreads = 2
    Backlog = 2
    MaxCalls = 1
PROPERTIES
    OneKeepsConnection
