CONSTANTS
    Entry = Entry
    Threads = {t1, t2}
    Coros = {}
    Wrapped = {}
    NoCo = NoCo
    MaxArgs = 2
    KillsResumer = FALSE
SPECIFICATION Spec
PROPERTY ResumedByRight
CHECK_DEADLOCK FALSE
