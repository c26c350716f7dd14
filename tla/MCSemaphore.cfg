CONSTANTS
    Threads = {t1, t2, t3}
    NoThread = NoThread
    InitCount = 1
    MaxPosts = 2
SPECIFICATION FairSpec
INVARIANTS
    TypeOK
    NoLostWakeup
    WaitersConsistent
    ResourcesConserved
PROPERTIES
    FirstComeFirstServed
    EveryWaitEnds
    ImplementsAbstract
