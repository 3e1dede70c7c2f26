SPECIFICATION HostSpec
CONSTANTS
    Attempts = {a1, a2}
    a1 = a1
    a2 = a2
    i1 = i1
    i2 = i2
    p1 = p1
    p2 = p2
    t1 = t1
    t2 = t2
    r1 = r1
    direct = direct
    schema = schema
    Calls <- MCCalls
    Ids <- MCIds
    Keys <- MCKeys
    Payloads = {p1, p2}
    Reasons <- MCReasons
    Threads = {t1, t2}
    Runs = {r1}
    Schemas = {schema}
    CorrelationId <- MCCorrelationId
    PayloadOf <- MCPayloadOf
    Validates <- MCValidates
    Cohort <- MCCohort
    Binding <- MCBinding
    Deliveries <- MCDeliveries
    OutsideRequests <- MCOutsideRequests
    Unreadable = unreadable
    ForgedToken = forged
    Undefined = undefined
    Hashes <- MCTokenHashes
    Requests <- MCRequests
    TokenTtl = 1
    MaxTime = 1
    MonotoneClock = TRUE
SYMMETRY AttemptSymmetry
CHECK_DEADLOCK FALSE
INVARIANT HostTypeOK
INVARIANT OneBatchDecides
INVARIANT BatchRefusalsAreJustified
