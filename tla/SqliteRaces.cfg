SPECIFICATION Spec
CONSTANTS
    Calls = {c1, c2, c3, c4}
    c1 = c1
    c2 = c2
    c3 = c3
    c4 = c4
    NoCall = none
    Ids = {i1}
    i1 = i1
    Hashes = {h1, h2}
    h1 = h1
    h2 = h2
    Keys = {}
    Payloads = {}
    Reasons = {}
    Undefined = undefined
    Requests <- MCRequests
SYMMETRY CallSymmetry
CHECK_DEADLOCK FALSE
INVARIANT TypeOK
INVARIANT AnswersStand
INVARIANT LockIsReturned
PROPERTY BatchesAreWhole
PROPERTY StoreContract
