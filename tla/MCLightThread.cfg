CONSTANTS
    Entry = Entry
    Threads = {t1, t2}
    Coros = {k1, k2}
    Wrapped = {k2}
    NoCo = NoCo
    MaxArgs = 1
    KillsResumer = FALSE
SPECIFICATION Spec
SYMMETRY Symmetry
INVARIANTS
    TypeOK
    UthreadsCounted
    NoneStranded
    OnlyZombiesKeepHandler
PROPERTIES
    ResumedByRight
CHECK_DEADLOCK FALSE
