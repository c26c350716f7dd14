CONSTANTS
    NumPerBlock = 2
    MaxEpoch = 4
SPECIFICATION PoolSpec
INVARIANTS
    PoolTypeOK
    BlocksFollowUse
    CountsAgree
CHECK_DEADLOCK FALSE
