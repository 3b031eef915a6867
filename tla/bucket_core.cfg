SPECIFICATION BucketSpec
CONSTANTS
    w1 = w1
    w2 = w2
    m1 = m1
    Waiting = {w1, w2}
    Immediate = {m1}
    MaxTokens = 2
    K = 3
    Resets = TRUE
    Nobody = Nobody
INVARIANTS
    BucketTypeOK
    WaitsAsNeeded
    ExactUntilAWaitEnds
PROPERTIES
    EveryCallReturns
