CONSTANTS
    Timers = {t1, t2, t3, t4}
    Requests = {r1}
    NoOne = NoOne
    MaxPending = 2
    MaxRunning = 1
    Failures = {"timer", "copy", "connection", "request"}
SPECIFICATION Spec
INVARIANTS
    PoolsHaveOwners
CHECK_DEADLOCK FALSE
