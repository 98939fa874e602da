SPECIFICATION Spec
CONSTANTS
    s1 = s1
    s2 = s2
    none = none
    Streams <- MCStreams
    Lengths = {0, 1, 2, 4, 7}
    Hop = 2
    Receptive = 1
    Configs <- MCConfigs
CHECK_DEADLOCK FALSE
INVARIANTS NoSeam Aligned SeamsWhereTold
PROPERTY KeepsPromise
