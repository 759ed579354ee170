SPECIFICATION FairSpec
CONSTANTS
    BuffMaxSize = 4
    Ticks = 2
    FifoLen = 2
    MaxLines = 9
    MaxStops = 0
INVARIANTS TypeOK CopiesNextLine
PROPERTIES ImplementsLineStream PollingEnds
