SPECIFICATION Spec
CONSTANTS
    t1 = t1
    t2 = t2
    t3 = t3
    None = None
    Fds <- TwoFds
    Threads <- ThreeThreads
    Unhooked <- OneOfThem
    InitialSize = 64
    Timeouts <- OneTimeout
    MaxOpens = 4
INVARIANTS
    CtxIsCurrent
    HookedIsNonblocking
CHECK_DEADLOCK FALSE
