SPECIFICATION Spec
CONSTANTS
    t1 = t1
    t2 = t2
    f1 = f1
    f2 = f2
    w1 = w1
    w2 = w2
    AnyThread = AnyThread
    None = None
    Threads <- OneThread
    Fibers <- TwoFibers
    Works <- TwoWorks
    CbTargets <- Unpinned
    FiberTargets <- Unpinned
    Groups <- PairGroup
    CanPark <- TwoWorks
    MaxYields = 2
    MaxStarts = 2
SYMMETRY FiberSymmetry
INVARIANTS
    ResumeLegal
