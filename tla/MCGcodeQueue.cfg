SPECIFICATION FairSpec
CONSTANTS
    QUEUE_MSG_NUM = 3
    QUEUE_MAX_MSG = 2
    CountMod = 6
    MaxPut = 5
    MaxClears = 1
CHECK_DEADLOCK FALSE
INVARIANTS TypeOK InOrder
PROPERTIES CallsReturn Recovers
