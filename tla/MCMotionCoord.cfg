SPECIFICATION PrintSpec
CONSTANTS
    K = 3
    Values <- SmallValues
    JogDis <- Jogs
    FlowRatios <- Ratios
    MinEChange = 3
    InchMm = 2
    ParkX = 6
    RaiseZ = 6
    RetractE = 15
INVARIANTS TypeOK LatestTracksHead RemainderIsDifference
PROPERTY ZKeptByOtherMoves
CONSTRAINT Near
