SPECIFICATION Spec
CONSTANTS
    N = 1
    Workers = {w1, w2}
    Probers = {}
    UnhealthyAfterFailures = 3
    MaxFailures = 3
INVARIANT RecoveredIsHealthy
