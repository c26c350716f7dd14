CONSTANTS
    w1 = w1
    w2 = w2
    l1 = l1
    l2 = l2
    Keys = {k1, k2}
    NoEntry = NoEntry
    Capacity = 1
    Workers = {w1, w2}
    Lockers = {l1, l2}
    Home <- MCHome
    LockKey = k1
    NoLocker = NoLocker
    Exptime = 2
    Timeout = 4
    Step = 1
    MaxStep = 2
    Base = 4
    MaxLag = 2
SPECIFICATION FairLockSpec
INVARIANTS
    HandlesSound
    MutualExclusion
PROPERTY NobodyStuck
