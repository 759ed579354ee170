SPECIFICATION FairSpec
CONSTANTS
    Axes <- XAndZ
    EndStops <- SomeEndStops
    Far = 4
    Blocked = 1
    MaxSize = 4
    Offset = 2
    Raise = 2
    Lag = 1
    QueueLen = 2
    Jogs <- SomeJogs
INVARIANTS TypeOK EndsAtSwitch
PROPERTY HomingEnds
