SPECIFICATION Spec
CONSTANTS
    Client = Client
    Server = Server
    NoGroup = NoGroup
    Strings <- MCStrings
    Size <- MCSize
    Empty = ""
    Gbk <- MCGbk
    Codes <- MCCodes
    Groups <- MCGroups
    Added <- MCAdded
    MaxParameters = 3
INVARIANTS
    BufferFilled
    ArrivesAsSent
    RefusedForItsStrings
    LastGroupOnly
CHECK_DEADLOCK FALSE
