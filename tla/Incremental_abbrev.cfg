SPECIFICATION Spec
CONSTANTS
    Fragments <- MCFragments
    MaxPushes = 3
    MaxFlushes = 2
    Generators = {1, 2}
    MinChars = 3
    CacheSize = 2
CHECK_DEADLOCK FALSE
INVARIANT NoClauseEndsInAbbreviation
