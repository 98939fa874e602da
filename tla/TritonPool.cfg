SPECIFICATION FairSpec
CONSTANTS
    N = 2
    Workers = {w1, w2}
    Probers = {p1}
    UnhealthyAfterFailures = 1
    MaxFailures = 1
INVARIANTS TypeOK LeasesCounted ChoiceSound
PROPERTIES Reinstated DeadLeavesRotation
