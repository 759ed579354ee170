SPECIFICATION StopSpec
CONSTANTS
    BuffMaxSize = 4
    Ticks = 1
    FifoLen = 1
    MaxLines = 3
    MaxStops = 1
INVARIANT StopEmptiesRing
