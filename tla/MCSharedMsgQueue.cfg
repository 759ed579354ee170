SPECIFICATION FairSpec
CONSTANTS
    mq_maxmsg = 1
    MaxSend = 6
INVARIANTS TypeOK NoneRefused
PROPERTIES NeverBack NewestArrives
