SPECIFICATION Spec
CONSTANTS
    s1 = s1
    s2 = s2
    c1 = c1
    None = None
    Socks = {s1, s2}
    Clients = {c1}
    MaxStarts = 2
    MaxStops = 2
INVARIANTS
    NoFdLeak
    AbortNeedsEarlyStart
PROPERTIES
    StopEndsAccept
    BacklogServed
CHECK_DEADLOCK FALSE
