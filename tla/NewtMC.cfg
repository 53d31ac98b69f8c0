SPECIFICATION Spec
CONSTANTS
    Base = 2
    LenBytes = 2
    Messages <- MCMessages
    MaxSent = 3
INVARIANTS
    NothingLost
PROPERTY
    Delivered
CHECK_DEADLOCK FALSE
