SPECIFICATION TimerFairSpec
CONSTANTS
    a = a
    b = b
    p1 = p1
    None = None
    Timers <- TwoTimers
    Recurring <- OneRecurs
    Pollers <- OnePoller
    Periods <- ZeroAndTwo
    MaxSlot = 2
    MaxNow = 2
    MaxHanded = 1
INVARIANTS
    TimelyWake
    CancelledNeverRuns
PROPERTIES
    NeverEarly
    RefreshNeverEarlier
    DueIsCollected
CHECK_DEADLOCK FALSE
