SPECIFICATION MCSpec
CONSTANTS
    AxisNum = 2
    StepBound = 4
    Lines <- AllLines
    MotionNum = 3
    FifoLen = 2
    QueueLen = 2
    MaxLines = 3
INVARIANTS TypeOK LongestAxisFound LineDoneExact ZeroPeriodNeverMoves
PROPERTIES StepsConserved MotionDrains
