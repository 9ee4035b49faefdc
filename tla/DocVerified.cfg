SPECIFICATION Spec
CONSTANTS
    Base = 256
    Width = 3
    Sizes <- MCFewSizes
    MaxFrames = 2
INVARIANTS
    VerifiedIsSent
CHECK_DEADLOCK FALSE
