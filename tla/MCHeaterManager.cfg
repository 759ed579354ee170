SPECIFICATION FairSpec
CONSTANTS
    Degree = 2
    Temps <- MCTemps
    Targets <- MCTargets
    PID_EFFECT_RANGE = 20
    UPPER_TEMPERATURE_LIMIT = 700
    LOWER_TEMPERATURE_LIMIT <- MCLower
    Kp = 10
    Kd = 160
    IntegralTerms <- MCIntegralTerms
    IntegralSaturation = 20
    SystemSaturation = 255
    ReachedPolls = 1
    MaxTemps = 1
    MaxCmds = 1
    MaxMsgs = 1
INVARIANTS TypeOK
PROPERTIES HotEndsOff WaitEnds
