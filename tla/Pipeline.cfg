SPECIFICATION FairSpec
CONSTANTS
    c1 = c1
    c2 = c2
    Count = 3
    CallerOf <- MCCallerOf
    Texts <- MCTexts
    MaxChars = 2
    Pads = {0, 1}
    MaxBatch = 2
    Cuts = {1}
    MaxFrames = 2
    MinFrames = 2
    TokenProfile = {2, 3}
    FrameProfile = {2, 3}
    BatchProfile = {1, 2}
    Reach = 1
CHECK_DEADLOCK FALSE
INVARIANT BatchingDoesNotShow
PROPERTIES KeepsPromise CallsEnd
