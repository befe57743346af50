CONSTANTS
    w1 = w1
    w2 = w2
    i1 = i1
    i2 = i2
    NoItem = NoItem
    Workers = {w1, w2}
    Timer = w1
    Items = {i1, i2}
    Owner <- MCOwner
    Key <- MCKey
    InitCap = 1
    MaxEntries = 3
    MaxTime = 2
    MaxRefusals = 1
    DrainAfterQuiesce = TRUE
SPECIFICATION FairSpec
INVARIANTS IdleInv HandlesValid
PROPERTIES CallbackOnlyHeld HeldEnds
