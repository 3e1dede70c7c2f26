SPECIFICATION FairSpec
CONSTANTS
    Calls = {c1, c2, c3}
    c1 = c1
    c2 = c2
    c3 = c3
    Ids = {i1}
    Keys = {k1}
    Payloads = {p1}
    Reasons = {x1}
    i1 = i1
    k1 = k1
    p1 = p1
    x1 = x1
    ForgedToken = forged
    Undefined = undefined
    Hashes <- MCTokenHashes
    Requests <- RetryRequests
    TokenTtl = 1
    MaxTime = 1
    MonotoneClock = FALSE
CHECK_DEADLOCK FALSE
PROPERTY ExactRetryReturnsFirstOutcome
PROPERTY CallsTerminate
PROPERTY LifecycleSpec
