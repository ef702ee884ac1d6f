SPECIFICATION Spec
CONSTANTS
    f1 = f1
    f2 = f2
    f3 = f3
    f4 = f4
    None = None
    Fibers <- FourFibers
    MaxLocks = 2
SYMMETRY FiberSymmetry
INVARIANTS
    MutualExclusion
    OneWakeUp
CHECK_DEADLOCK FALSE
