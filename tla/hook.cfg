SPECIFICATION CallFairSpec
CONSTANTS
    Events <- ReadWrite
    Connects <- WriteOnly
    Timed <- ReadWrite
    MaxCalls = 2
    MaxSpurious = 1
INVARIANTS
    WokenOnce
    NoTimerLeft
PROPERTIES
    TimeoutIsOwn
    ReadyEndsCall
CHECK_DEADLOCK FALSE
