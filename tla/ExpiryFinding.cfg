SPECIFICATION Spec
CONSTANTS
    Calls = {c1, c2, c3}
    c1 = c1
    c2 = c2
    c3 = c3
    Ids = {i1}
    Keys = {k1}
    Payloads = {p1}
    Reasons = {}
    i1 = i1
    k1 = k1
    p1 = p1
    ForgedToken = forged
    Undefined = undefined
    Hashes <- MCTokenHashes
    Requests <- ResumeRequests
    TokenTtl = 1
    MaxTime = 1
    MonotoneClock = TRUE
SYMMETRY CallSymmetry
CHECK_DEADLOCK FALSE
INVARIANT ResumedBeforeExpiry
