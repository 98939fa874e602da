SPECIFICATION FairSpec
CONSTANTS
    Count = 2
    TotalFrames <- ShortUtterances
    First = 1
    Max = 3
    GrowthNum = 3
    GrowthDen = 2
    Overlap = 1
    MinWindow = 2
INVARIANTS TypeOK WindowFits ContextComplete ReleasedOnce
PROPERTIES KeepsPromise StreamsEnd
CHECK_DEADLOCK FALSE
