SPECIFICATION FairSpec
CONSTANTS
    File <- HeatAndMove
    UartCmds = {"heat"}
    Faults = {"open", "read"}
    QUEUE_MAX_MSG = 1
    QUEUE_MSG_NUM = 1
    Patient = TRUE
    SlowCmds = FALSE
    MaxRequests = 4
    MaxUart = 1
INVARIANTS TypeOK StoppedCold
PROPERTIES FileInOrder PausedMeansStill RequestsCarriedOut PrintEnds HeatersEndOff
