SPECIFICATION FairSpec
CONSTANTS
    FifoLen = 3
    Tick = {t1, t2}
    ZeroTick = zero
    MaxBatch = 3
INVARIANTS TypeOK IndexConsistent CheckedSpaceStays
PROPERTIES ImplementsTickStream WriteEnds
