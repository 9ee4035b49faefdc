SPECIFICATION Spec
CONSTANTS
    Base = 256
    Width = 3
    Sizes <- MCSizes
    MaxFrames = 2
INVARIANTS
    WholeFieldsSuffice
    FirstHeaderHolds
CHECK_DEADLOCK FALSE
