CONSTANTS
    Keys = {k1, k2, k3}
    NoEntry = NoEntry
    Capacity = 3
    Workers = {w1, w2}
    NoPush = NoPush
    StartTime = 2
    MaxTime = 4
    MaxPending = 1
    TTLs = {0, 1}
SPECIFICATION Spec
SYMMETRY MCSymmetry
INVARIANTS
    TypeOK
    ZoneConsistent
    GentleCallsSpareOthers
    EvictionIsLRU
CHECK_DEADLOCK FALSE
