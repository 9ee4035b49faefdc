SPECIFICATION Spec
CONSTANTS
    Messages <- MCMessages
    EmptyMessage = "empty"
    Size <- MCSize
    Utf8Messages <- MCUtf8
    NULL = NULL
    UIntMod = 8
    SndBuf = 4
    TimeoutOn = TRUE
    Returns <- MCReturns
    MaxRounds = 2
INVARIANTS
    TypeOK
    BufferConserved
    NothingResent
    TurnTaking
    FieldsInStep
    HeadersAccepted
    StallsOnlyWhenFull
PROPERTY Exchanges
