SPECIFICATION FairLoad
CONSTANTS
    Slots = {1, 2}
    Threads = 2
    Rates = {1, 2, 9}
    Valid = {1, 2}
    Default = 1
    Levels <- Ramp
    Duration = 3
    WarmUp = 1
    Timeout = 4
INVARIANTS RateOfTheMoment SamplesFitTheWindow RampStops
PROPERTY RampEnds
CHECK_DEADLOCK FALSE
