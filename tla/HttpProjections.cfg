SPECIFICATION HttpSpec
CONSTANTS
    creator = creator
    x1 = x1
    x2 = x2
    x3 = x3
    form = form
    form2 = form2
    login = login
    t1 = t1
    m1 = m1
    task = task
    key = key
    Calls = {creator, x1, x2, x3}
    Ids <- MCIds
    Keys = {key}
    Payloads <- MCPayloads
    Reasons = {}
    Threads = {t1}
    Runs = {m1}
    Schemas <- MCSchemas
    CorrelationId <- MCCorrelationId
    PayloadOf <- MCPayloadOf
    Validates = {}
    Strings <- MCStrings
    LengthOf <- MCLengthOf
    HasFormat <- MCHasFormat
    Policy <- MCPolicy
    Offered <- MCOffered
    Unreadable = unreadable
    ForgedToken = forged
    Undefined = undefined
    Hashes <- MCTokenHashes
    Requests <- MCRequests
    TokenTtl = 1
    MaxTime = 1
    MonotoneClock = TRUE
CHECK_DEADLOCK FALSE
INVARIANT HttpTypeOK
INVARIANT RefusedRequestsDecideNothing
INVARIANT ProjectionsStayBound
INVARIANT ProtocolAnswersAreBound
