SPECIFICATION Spec
CONSTANTS
    p1 = p1
    p2 = p2
    None = None
    Fds <- TwoFds
    Kinds <- ReadWrite
    Pollers <- TwoPollers
    InitialSize = 32
    MaxWaiters = 3
SYMMETRY PollerSymmetry
INVARIANTS
    RegistrationExact
    PendingExact
    NoLostWaiter
    CloseCleansUnlessTorn
CHECK_DEADLOCK FALSE
