SPECIFICATION Spec
CONSTANTS
    t1 = t1
    t2 = t2
    p1 = p1
    c1 = c1
    c2 = c2
    AnyThread = AnyThread
    Threads = {t1, t2}
    Plain = {p1, c1}
    Timed = {c1, c2}
    Io = {c2}
    Home <- MCHome
    MaxBytes = 1
    MaxWorks = 2
INVARIANTS
    NoSilentSleep
PROPERTIES
    ImplementsWorkPool
