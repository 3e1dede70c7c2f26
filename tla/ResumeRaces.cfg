SPECIFICATION Spec
CONSTANTS
    Calls = {c1, c2, c3, c4}
    c1 = c1
    c2 = c2
    c3 = c3
    c4 = c4
    Ids = {i1}
    Keys = {k1, k2}
    Payloads = {p1, p2}
    Reasons = {}
    i1 = i1
    k1 = k1
    k2 = k2
    p1 = p1
    p2 = p2
    ForgedToken = forged
    Undefined = undefined
    Hashes <- MCTokenHashes
    Requests <- ResumeRequests
    TokenTtl = 1
    MaxTime = 1
    MonotoneClock = FALSE
SYMMETRY CallSymmetry
CHECK_DEADLOCK FALSE
INVARIANT TypeOK
INVARIANT HistoryReplays
INVARIANT CreateIsExclusive
INVARIANT AnswersAreRecorded
INVARIANT OneDecision
INVARIANT ResumeNeedsToken
INVARIANT RefusalsAreJustified
