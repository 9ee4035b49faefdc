SPECIFICATION Spec
CONSTANTS
    Messages <- MCMessages
    EmptyMessage = "empty"
    Size <- MCSize
    Utf8Messages <- MCUtf8
    NULL = NULL
    UIntMod = 8
    SndBuf = 4
    TimeoutOn = FALSE
    Returns <- MCDocumented
    MaxRounds = 1
PROPERTY ElevenKeepsReceiving
