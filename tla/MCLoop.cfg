SPECIFICATION LoopFairSpec
CONSTANTS
    n1 = n1
    n2 = n2
    c1 = c1
    t1 = t1
    t2 = t2
    Normal = {n1, n2}
    Control = {c1}
    BatchSize = 1
    INFINITE = INFINITE
    NoTimer = NoTimer
    Timers = {t1, t2}
    Repeats = {1}
    PeriodRepeats = {2}
INVARIANTS
    WakeNotLost
    ControlKept
    NormalInOrder
    TimersInv
PROPERTIES
    FiresOnlyDue
    LoopServes
