SPECIFICATION FairBuild
CONSTANTS
    Tags <- OneTag
    Served = "fp16"
    MaxVersion = 2
    MaxRuns = 5
    MaxKills = 1
INVARIANTS ReportsAreEarned Pinned NoHalfEngines
PROPERTY FallsBack
CHECK_DEADLOCK FALSE
