SPECIFICATION FairSpec
CONSTANTS
    Calls = {c1, c2, c3}
    c1 = c1
    c2 = c2
    c3 = c3
    NoCall = none
    Absent = absent
    Ids = {i1}
    i1 = i1
    Hashes = {h1, h2}
    h1 = h1
    h2 = h2
    Keys = {}
    Payloads = {}
    Reasons = {}
    Undefined = undefined
    Requests <- MCRequests
    MaxEventsPerStream = 2
    PoolSize = 2
CHECK_DEADLOCK FALSE
PROPERTY StoreContract
PROPERTY CallsFinish
