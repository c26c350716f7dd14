CONSTANTS
    Keys = {k1}
    NoEntry = NoEntry
    Capacity = 3
    Workers = {w1, w2}
    NoPush = NoPush
    StartTime = 2
    MaxTime = 4
    MaxPending = 1
    TTLs = {0, 1}
SPECIFICATION Spec
SYMMETRY MCSymmetry
PROPERTY PushReturnsLength
CHECK_DEADLOCK FALSE
