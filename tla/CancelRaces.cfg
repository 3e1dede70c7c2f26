SPECIFICATION Spec
CONSTANTS
    Calls = {c1, c2, c3, c4}
    c1 = c1
    c2 = c2
    c3 = c3
    c4 = c4
    Ids = {i1}
    Keys = {k1}
    Payloads = {p1}
    Reasons = {x1}
    i1 = i1
    k1 = k1
    p1 = p1
    x1 = x1
    ForgedToken = forged
    Undefined = undefined
    Hashes <- MCTokenHashes
    Requests <- CancelRequests
    TokenTtl = 1
    MaxTime = 1
    MonotoneClock = FALSE
SYMMETRY CallSymmetry
CHECK_DEADLOCK FALSE
INVARIANT AnswersAreRecorded
INVARIANT OneDecision
INVARIANT ExpiryIsRespected
INVARIANT RefusalsAreJustified
