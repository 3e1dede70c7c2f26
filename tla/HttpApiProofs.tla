--------------------------- MODULE HttpApiProofs ----------------------------
(***************************************************************************)
(* The HTTP API only ever takes steps of the continuation service, so what *)
(* is proved of the service holds of every behaviour of the API.  Its own  *)
(* state follows the service's: a status is given once the call behind it  *)
(* has ended, and a call that committed something ended in "ok" or lost    *)
(* its answer, neither of which is a 4xx (HttpInv).                        *)
(***************************************************************************)
EXTENDS HttpApi, ContinuationServiceProofs

-----------------------------------------------------------------------------
(* One lemma per kind of step: it is a step of the service or stutters. *)

\* Accepting a request is starting the service call it asks for.
LEMMA AcceptIsServiceStep ==
    ASSUME NEW c \in Calls, NEW h \in Offered[c], Accept(c, h)
    PROVE  Next \/ UNCHANGED vars
<1>1. h.call \in Requests
  BY HttpAssumption DEF IsHttpRequest
<1>2. CASE EarlyStatus(h) # 0
  BY <1>2 DEF Accept
<1>3. CASE EarlyStatus(h) = 0
  <2>1. Invoke(c, h.call)
    BY <1>3 DEF Accept
  <2> QED
    BY <1>1, <2>1 DEF Next
<1> QED
  BY <1>2, <1>3

\* Every HTTP step is a step of the service or leaves it alone.
LEMMA HttpStepIsServiceStep ==
    ASSUME [HttpNext]_httpVars
    PROVE  [Next]_vars
<1>1. CASE UNCHANGED httpVars
  BY <1>1 DEF httpVars
<1>2. ASSUME NEW c \in Calls, NEW h \in Offered[c], Accept(c, h)
      PROVE  [Next]_vars
  BY <1>2, AcceptIsServiceStep
<1>3. ASSUME NEW c \in Calls, NEW h \in Offered[c], GetEvents(c, h)
      PROVE  [Next]_vars
  BY <1>3 DEF GetEvents
<1>4. ASSUME NEW c \in Calls, Respond(c) \/ Project(c)
      PROVE  [Next]_vars
  BY <1>4 DEF Respond, Project
<1>5. CASE ServiceStep
  BY <1>5 DEF ServiceStep, Next
<1> QED
  BY <1>1, <1>2, <1>3, <1>4, <1>5 DEF HttpNext

-----------------------------------------------------------------------------

\* Every behaviour of the HTTP API is a behaviour of the service: no handler
\* reaches the streams but through a method of the service.
THEOREM HttpImplementsService == HttpSpec => Spec
<1>1. HttpInit => Init
  BY DEF HttpInit
<1>2. [HttpNext]_httpVars => [Next]_vars
  BY HttpStepIsServiceStep
<1> QED
  BY <1>1, <1>2, PTL DEF HttpSpec, Spec

\* Behind the API too, whatever clients send over any number of connections, a
\* continuation is decided once: all successful resumes are one decision.
THEOREM HttpDecidesOnce == HttpSpec => []OneDecision
BY HttpImplementsService, DecidedOnce, PTL

\* Behind the API too, the streams follow the one-shot life cycle.
THEOREM HttpImplementsLifecycle == HttpSpec => LifecycleSpec
BY HttpImplementsService, ImplementsLifecycle, PTL

\* The call behind a request that repeats the resume or the cancel that decided a
\* continuation returns that ending, whatever came between the two; only a fault can
\* keep it from answering.
THEOREM HttpRetriesReturnFirstOutcome == HttpSpec => ExactRetryReturnsFirstOutcome
BY HttpImplementsService, RetriesReturnFirstOutcome, PTL

-----------------------------------------------------------------------------
(* The API's own state *)

\* 0 stands for no answer yet.
Statuses == {0, 200, 201, 400, 401, 404, 409, 410, 413, 500}

\* A projection that was answered is the one of the envelope that was inspected.
ProjectionStands(c) ==
    projected[c] # Undefined =>
        /\ pc[c] = "done" /\ reply[c].code = "ok"
        /\ ProjectionOf(c).code = "ok"
        /\ projected[c] = ProjectionOf(c).message

\* What is known of the request that connection c carries.
HttpOf(c) ==
    /\ http[c] = NoHttp => pc[c] = "idle" /\ status[c] = 0
    /\ http[c] # NoHttp => http[c] \in Offered[c]
    /\ http[c] # NoHttp /\ pc[c] = "idle" => status[c] # 0
    /\ pc[c] # "idle" => req[c] = http[c].call
    /\ pc[c] = "done" => reply[c].code # "none"
    /\ status[c] \in Statuses
    /\ status[c] # 0 => pc[c] \in {"idle", "done"}
    /\ projected[c] # Undefined => status[c] = 200
    /\ ProjectionStands(c)
    /\ Committed(c) /\ req[c].op \in {"resume", "cancel"} => status[c] \notin 400 .. 499

\* The inductive invariant of the API, on top of those of the service.
HttpInv ==
    /\ DOMAIN http = Calls
    /\ DOMAIN status = Calls
    /\ DOMAIN projected = Calls
    /\ \A c \in Calls : HttpOf(c)

\* The status codes the handlers can answer with: for a body,
LEMMA BodyStatuses == ASSUME NEW body PROVE BodyStatus(body) \in {0, 400, 413, 500}
BY DEF BodyStatus

\* ... before the service is called,
LEMMA EarlyStatuses == ASSUME NEW h PROVE EarlyStatus(h) \in Statuses
BY BodyStatuses DEF EarlyStatus, Statuses

\* ... for an error of the service, and a 500 for a lost answer,
LEMMA ErrorStatuses ==
    ASSUME NEW code \in ErrorCodes \cup {"failed"}
    PROVE  /\ ErrorStatus(code) \in Statuses \ {0}
           /\ code = "failed" => ErrorStatus(code) = 500
<1>1. CASE code = "CONTINUATION_NOT_FOUND"
  BY <1>1 DEF ErrorStatus, Statuses
<1>2. CASE code = "TOKEN_MISMATCH"
  BY <1>2 DEF ErrorStatus, Statuses
<1>3. CASE code = "CONTINUATION_EXPIRED"
  BY <1>3 DEF ErrorStatus, Statuses
<1>4. CASE code \in {"CONTINUATION_CANCELLED", "TOKEN_ALREADY_USED", "IDEMPOTENCY_CONFLICT",
                     "INVALID_TRANSITION", "VERSION_CONFLICT"}
  BY <1>4 DEF ErrorStatus, Statuses
<1>5. CASE code \in {"RANGE_ERROR", "failed"}
  BY <1>5 DEF ErrorStatus, Statuses
<1> QED
  BY <1>1, <1>2, <1>3, <1>4, <1>5 DEF ErrorCodes

\* ... and for a projection.
LEMMA ProjectionStatuses == ASSUME NEW code PROVE ProjectionStatus(code) \in {200, 400, 409}
BY DEF ProjectionStatus

\* Initially no connection carries a request.
LEMMA HttpInitInv == HttpInit => HttpInv
<1> SUFFICES ASSUME HttpInit PROVE HttpInv
  OBVIOUS
<1>1. /\ DOMAIN http = Calls /\ DOMAIN status = Calls /\ DOMAIN projected = Calls
      /\ \A c \in Calls : /\ http[c] = NoHttp /\ status[c] = 0 /\ projected[c] = Undefined
                          /\ pc[c] = "idle"
  BY DEF HttpInit, Init
<1>2. ASSUME NEW c \in Calls PROVE HttpOf(c)
  BY <1>1 DEF HttpOf, Statuses, Committed, ProjectionStands
<1> QED
  BY <1>1, <1>2 DEF HttpInv

\* A request that a connection offers is none of "no request".
LEMMA OfferedIsRequest ==
    ASSUME NEW c \in Calls, NEW h \in Offered[c]
    PROVE  /\ h # NoHttp
           /\ h.call.op \in {"resume", "cancel"} => h.route = h.call.op
           /\ h.route = "project" => h.call.op = "inspect"
BY HttpAssumption DEF IsHttpRequest, Routes, NoHttp

\* A connection keeps its part of the invariant while the others move.
LEMMA OtherConnection ==
    ASSUME NEW d \in Calls, HttpOf(d),
           http'[d] = http[d], status'[d] = status[d], projected'[d] = projected[d],
           pc'[d] = pc[d], reply'[d] = reply[d], req'[d] = req[d]
    PROVE  HttpOf(d)'
<1>1. ProjectionOf(d)' = ProjectionOf(d)
  BY DEF ProjectionOf
<1> QED
  BY <1>1 DEF HttpOf, Committed, ProjectionStands

\* A request is turned away or becomes a call of the service.
LEMMA AcceptKeeps ==
    ASSUME SafetyInv, HttpInv, NEW c \in Calls, NEW h \in Offered[c], Accept(c, h)
    PROVE  HttpInv'
<1>1. /\ http[c] = NoHttp
      /\ http' = [http EXCEPT ![c] = h]
      /\ UNCHANGED projected
  BY DEF Accept
<1>2. pc[c] = "idle" /\ status[c] = 0 /\ projected[c] = Undefined
  BY <1>1 DEF HttpInv, HttpOf
<1>3. h # NoHttp
  BY OfferedIsRequest
<1>4. CASE EarlyStatus(h) # 0
  <2>1. status' = [status EXCEPT ![c] = EarlyStatus(h)] /\ UNCHANGED <<pc, req, reply>>
    BY <1>4 DEF Accept, vars
  <2>2. HttpOf(c)'
    BY <1>1, <1>2, <1>3, <1>4, <2>1, EarlyStatuses
    DEF HttpOf, Committed, HttpInv, ProjectionStands
  <2>3. ASSUME NEW d \in Calls \ {c} PROVE HttpOf(d)'
    BY <1>1, <2>1, OtherConnection DEF HttpInv
  <2> QED
    BY <1>1, <2>1, <2>2, <2>3 DEF HttpInv
<1>5. CASE EarlyStatus(h) = 0
  <2>1. /\ UNCHANGED <<status, reply>>
        /\ pc' = [pc EXCEPT ![c] = "begin"]
        /\ req' = [req EXCEPT ![c] = h.call]
    BY <1>5 DEF Accept, Invoke, Goto
  <2>2. pc'[c] = "begin" /\ req'[c] = h.call /\ http'[c] = h /\ status'[c] = 0
    BY <1>1, <1>2, <2>1 DEF SafetyInv, TypeOK, HttpInv
  <2>3. HttpOf(c)'
    BY <1>1, <1>2, <1>3, <2>1, <2>2
    DEF HttpOf, Committed, Statuses, ProjectionStands
  <2>4. ASSUME NEW d \in Calls \ {c} PROVE HttpOf(d)'
    <3>1. pc'[d] = pc[d] /\ req'[d] = req[d] /\ http'[d] = http[d]
      BY <1>1, <2>1 DEF SafetyInv, TypeOK, HttpInv
    <3> QED
      BY <1>1, <2>1, <3>1, OtherConnection DEF HttpInv
  <2> QED
    BY <1>1, <2>1, <2>3, <2>4 DEF HttpInv
<1> QED
  BY <1>4, <1>5

\* The history handler answers without a call of the service.
LEMMA GetEventsKeeps ==
    ASSUME SafetyInv, HttpInv, NEW c \in Calls, NEW h \in Offered[c], GetEvents(c, h)
    PROVE  HttpInv'
<1>1. /\ http[c] = NoHttp
      /\ http' = [http EXCEPT ![c] = h]
      /\ UNCHANGED <<pc, req, reply, projected>>
  BY DEF GetEvents, vars
<1>2. pc[c] = "idle" /\ status[c] = 0 /\ projected[c] = Undefined
  BY <1>1 DEF HttpInv, HttpOf
<1>3. PICK code \in HistoryStatuses(h.call.continuationId) :
            status' = [status EXCEPT ![c] = code]
  BY Zenon DEF GetEvents
<1>4. code \in {200, 404, 500}
  BY DEF HistoryStatuses
<1>5. HttpOf(c)'
  BY <1>1, <1>2, <1>3, <1>4, OfferedIsRequest
  DEF HttpOf, Committed, HttpInv, Statuses, ProjectionStands
<1>6. ASSUME NEW d \in Calls \ {c} PROVE HttpOf(d)'
  BY <1>1, <1>3, OtherConnection DEF HttpInv
<1> QED
  BY <1>1, <1>3, <1>5, <1>6 DEF HttpInv

\* An answer for a call that has ended, with a status that a committed resume or
\* cancel is never refused with.
LEMMA AnsweredKeeps ==
    ASSUME SafetyInv, HttpInv, NEW c \in Calls, pc[c] = "done",
           NEW code \in Statuses \ {0}, status' = [status EXCEPT ![c] = code],
           DOMAIN projected' = Calls,
           \A d \in Calls \ {c} : projected'[d] = projected[d],
           projected'[c] # Undefined => code = 200, ProjectionStands(c)',
           Committed(c) /\ req[c].op \in {"resume", "cancel"} => code \notin 400 .. 499,
           UNCHANGED <<vars, http>>
    PROVE  HttpInv'
<1>1. UNCHANGED <<pc, req, reply>>
  BY DEF vars
<1>2. HttpOf(c)'
  BY <1>1 DEF HttpOf, Committed, HttpInv
<1>3. ASSUME NEW d \in Calls \ {c} PROVE HttpOf(d)'
  BY <1>1, OtherConnection DEF HttpInv
<1> QED
  BY <1>2, <1>3 DEF HttpInv

\* The handler reports what the service method returned or threw.
LEMMA RespondKeeps ==
    ASSUME SafetyInv, HttpInv, NEW c \in Calls, Respond(c)
    PROVE  HttpInv'
<1> DEFINE code == IF reply[c].code # "ok" THEN ErrorStatus(reply[c].code)
                   ELSE IF http[c].route = "create" THEN 201 ELSE 200
<1>1. /\ pc[c] = "done" /\ status[c] = 0
      /\ status' = [status EXCEPT ![c] = code]
      /\ UNCHANGED <<vars, http, projected>>
  BY DEF Respond
<1>2. reply[c].code \in ErrorCodes \cup {"ok", "failed"}
  BY <1>1 DEF HttpInv, HttpOf, SafetyInv, TypeOK, Reply
<1>3. /\ code \in Statuses \ {0}
      /\ Committed(c) => code \notin 400 .. 499
  <2>1. CASE reply[c].code = "ok"
    BY <2>1 DEF Statuses
  <2>2. CASE reply[c].code # "ok"
    <3>1. code = ErrorStatus(reply[c].code)
      BY <2>2
    <3>2. Committed(c) => reply[c].code = "failed"
      BY <1>1, <2>2 DEF Committed
    <3> HIDE DEF code
    <3> QED
      BY <1>2, <2>2, <3>1, <3>2, ErrorStatuses
  <2> QED
    BY <2>1, <2>2
<1>4. projected[c] = Undefined
  BY <1>1 DEF HttpInv, HttpOf
<1>5. ProjectionStands(c)'
  BY <1>1, <1>4 DEF ProjectionStands
<1> HIDE DEF code
<1> QED
  BY <1>1, <1>3, <1>4, <1>5, AnsweredKeeps DEF HttpInv

\* Only inspect is projected, whatever comes of it.
LEMMA ProjectKeeps ==
    ASSUME SafetyInv, HttpInv, NEW c \in Calls, Project(c)
    PROVE  HttpInv'
<1> DEFINE projection == ProjectionOf(c)
           code == IF http[c].protocol = "other" THEN 404
                   ELSE IF BodyStatus(http[c].body) # 0 THEN BodyStatus(http[c].body)
                   ELSE ProjectionStatus(projection.code)
           answer == IF code = 200 THEN projection.message ELSE Undefined
<1>1. /\ pc[c] = "done" /\ status[c] = 0 /\ http[c].route = "project"
      /\ status' = [status EXCEPT ![c] = code]
      /\ projected' = [projected EXCEPT ![c] = answer]
      /\ UNCHANGED <<vars, http>>
  BY DEF Project, IsProjecting
<1>2. req[c].op = "inspect"
  <2>1. http[c] \in Offered[c] /\ req[c] = http[c].call
    BY <1>1 DEF HttpInv, HttpOf
  <2> QED
    BY <1>1, <2>1, OfferedIsRequest
<1> HIDE DEF projection
<1>3. code \in Statuses \ {0}
  BY BodyStatuses, ProjectionStatuses DEF Statuses
<1>4. answer # Undefined => code = 200
  OBVIOUS
<1>5. answer # Undefined => projection.code = "ok" /\ answer = projection.message
  BY BodyStatuses DEF ProjectionStatus
<1> HIDE DEF code, answer
<1>6. /\ DOMAIN projected' = Calls
      /\ projected'[c] = answer
      /\ \A d \in Calls \ {c} : projected'[d] = projected[d]
  BY <1>1 DEF HttpInv
<1>7. ProjectionStands(c)'
  <2>1. pc'[c] = "done" /\ reply'[c].code = "ok"
    BY <1>1 DEF Project, IsProjecting, vars
  <2>2. ProjectionOf(c)' = projection
    BY <1>1 DEF ProjectionOf, projection, vars
  <2> QED
    BY <1>5, <1>6, <2>1, <2>2 DEF ProjectionStands
<1> QED
  BY <1>1, <1>2, <1>3, <1>4, <1>6, <1>7, AnsweredKeeps

\* The service moves; a call that moves has not been answered to its client.
LEMMA ServiceStepKeeps ==
    ASSUME SafetyInv, HttpInv, ServiceStep
    PROVE  HttpInv'
<1>0. TypeOK /\ UNCHANGED <<http, status, projected>>
  BY DEF SafetyInv, ServiceStep
<1>1. CASE Tick
  <2>1. UNCHANGED <<pc, req, reply>>
    BY <1>1 DEF Tick
  <2>2. ASSUME NEW d \in Calls PROVE HttpOf(d)'
    BY <1>0, <2>1, OtherConnection DEF HttpInv
  <2> QED
    BY <1>0, <2>2 DEF HttpInv
<1>2. ASSUME NEW c \in Calls, Step(c) \/ Fail(c)
      PROVE  HttpInv'
  <2>1. pc[c] \notin {"idle", "done"} /\ Frame(c) /\ UNCHANGED req
    BY <1>0, <1>2, StepFrame
  <2>2. pc'[c] # "idle" /\ (pc'[c] = "done" => reply'[c].code # "none")
    BY <1>0, <1>2, StepLands
  <2>3. status[c] = 0
    BY <2>1 DEF HttpInv, HttpOf
  <2>4. HttpOf(c)'
    BY <1>0, <2>1, <2>2, <2>3 DEF HttpOf, HttpInv, ProjectionStands
  <2>5. ASSUME NEW d \in Calls \ {c} PROVE HttpOf(d)'
    BY <1>0, <2>1, OtherConnection DEF HttpInv, Frame
  <2> QED
    BY <1>0, <2>4, <2>5 DEF HttpInv
<1> QED
  BY <1>1, <1>2 DEF ServiceStep

\* Every step of the API keeps its invariant.
LEMMA HttpStepInv ==
    ASSUME SafetyInv, HttpInv, [HttpNext]_httpVars
    PROVE  HttpInv'
<1>1. CASE UNCHANGED httpVars
  <2>1. UNCHANGED <<pc, req, reply, http, status, projected>>
    BY <1>1 DEF httpVars, vars
  <2>2. ASSUME NEW d \in Calls PROVE HttpOf(d)'
    BY <2>1, OtherConnection DEF HttpInv
  <2> QED
    BY <2>1, <2>2 DEF HttpInv
<1>2. CASE HttpNext
  BY <1>2, AcceptKeeps, GetEventsKeeps, RespondKeeps, ProjectKeeps, ServiceStepKeeps
  DEF HttpNext
<1> QED
  BY <1>1, <1>2

\* The API's invariant holds throughout, for any requests on any connections.
THEOREM HttpSafety == HttpSpec => [](SafetyInv /\ AuthorInv /\ HttpInv)
<1>1. HttpSpec => []SafetyInv
  BY HttpImplementsService, Safety, PTL
<1>2. HttpSpec => []AuthorInv
  BY HttpImplementsService, OnlyCommittedCallsWrite, PTL
<1>3. SafetyInv /\ HttpInv /\ [HttpNext]_httpVars => HttpInv'
  BY HttpStepInv
<1> QED
  BY <1>1, <1>2, <1>3, HttpInitInv, PTL DEF HttpSpec

\* Types of the API, and that no client is answered before its service call ended.
THEOREM HttpTypeCorrect == HttpSpec => []HttpTypeOK
<1>1. HttpInv => HttpTypeOK
  BY DEF HttpInv, HttpOf, HttpTypeOK, Statuses
<1> QED
  BY HttpSafety, <1>1, PTL

\* A resume or cancellation on record was asked for by a request that was not
\* answered 4xx.
THEOREM RefusedDecideNothing == HttpSpec => []RefusedRequestsDecideNothing
<1>1. SafetyInv /\ AuthorInv /\ HttpInv => RefusedRequestsDecideNothing
  <2> SUFFICES ASSUME SafetyInv, AuthorInv, HttpInv, NEW i \in Ids,
                      Recorded(i).status \in {"resumed", "cancelled"}
               PROVE  \E c \in Calls :
                        /\ status[c] \notin 400 .. 499
                        /\ \/ /\ Recorded(i).status = "resumed"
                              /\ req[c].op = "resume" /\ Id(c) = i
                              /\ req[c].idempotencyKey = Recorded(i).idempotencyKey
                              /\ req[c].resumePayload = Recorded(i).resumePayload
                           \/ /\ Recorded(i).status = "cancelled"
                              /\ req[c].op = "cancel" /\ Id(c) = i
                              /\ req[c].reason = Recorded(i).reason
    BY DEF RefusedRequestsDecideNothing
  <2> DEFINE s == streams[i]
             e == Recorded(i)
  <2>1. WellFormed(s, i)
    BY DEF SafetyInv, StreamInv
  <2>2. Records(s, e)
    BY <2>1, LoadFacts DEF Recorded, Missing
  <2>3. Len(s) = 2 /\ e = Ending(s)
    BY <2>1, <2>2, RecordFacts
  <2>4. /\ e.status = s[2].type
        /\ s[2].type = "resumed" =>
             e.idempotencyKey = s[2].idempotencyKey /\ e.resumePayload = s[2].resumePayload
        /\ s[2].type = "cancelled" => e.reason = s[2].reason
    BY <2>1, <2>3, RecordTypes
  <2>5. PICK c \in Calls : Ended(c, s, i)
    BY <2>3, <2>4 DEF AuthorInv
  <2>6. status[c] \notin 400 .. 499
    BY <2>5 DEF Ended, HttpInv, HttpOf
  <2> QED
    BY <2>4, <2>5, <2>6 DEF Ended
<1> QED
  BY HttpSafety, <1>1, PTL
-----------------------------------------------------------------------------
(* Projections *)

\* A request and receipt that the MCP adapter issued, in terms of the envelope.
LEMMA McpIssued ==
    ASSUME NEW e, NEW x, IssueMcpElicitation(e, x, Policy).code = "ok"
    PROVE  LET m == IssueMcpElicitation(e, x, Policy).message
               i == e.continuationId
           IN  /\ m = [request |-> m.request, receipt |-> CreateMcpElicitationReceipt(e, m.request)]
               /\ PayloadIsProjectable(i)
               /\ m.request.meta = ProjectionMetadata(e, x)
               /\ m.request.id = x.requestId
               /\ m.request.mode = IF PayloadOf[i].kind = "authorization" THEN "url" ELSE "form"
               /\ m.request.mode = "form" => m.request.requestedSchema = RequestedSchemaOf(i)
<1> DEFINE p == ToMcpElicitRequest(e, x, Policy)
           i == e.continuationId
<1>1. /\ p.code = "ok"
      /\ IssueMcpElicitation(e, x, Policy).message =
           [request |-> p.message, receipt |-> CreateMcpElicitationReceipt(e, p.message)]
  BY DEF IssueMcpElicitation, Projected
<1>2. PayloadIsProjectable(i)
  BY <1>1 DEF ToMcpElicitRequest, Refused
<1>3. CASE PayloadOf[i].kind = "authorization"
  <2>1. p.message = [id |-> x.requestId, mode |-> "url", requestedSchema |-> Undefined,
                     urlBinding |-> x.urlBinding, meta |-> ProjectionMetadata(e, x)]
    BY <1>1, <1>3 DEF ToMcpElicitRequest, Refused, Projected
  <2> HIDE DEF p
  <2> QED
    BY <1>1, <1>2, <1>3, <2>1
<1>4. CASE PayloadOf[i].kind # "authorization"
  <2>1. p.message = [id |-> x.requestId, mode |-> "form", requestedSchema |-> RequestedSchemaOf(i),
                     urlBinding |-> Undefined, meta |-> ProjectionMetadata(e, x)]
    BY <1>1, <1>4 DEF ToMcpElicitRequest, Refused, Projected
  <2> HIDE DEF p
  <2> QED
    BY <1>1, <1>2, <1>4, <2>1
<1> QED
  BY <1>3, <1>4

\* A task that the A2A adapter issued.
LEMMA A2aIssued ==
    ASSUME NEW e, NEW x, ToA2AInterruptedTask(e, x).code = "ok"
    PROVE  LET m == ToA2AInterruptedTask(e, x).message IN
           /\ m.continuationId = e.continuationId
           /\ m.expiresAt = e.expiresAt
           /\ m.state = IF PayloadOf[e.continuationId].kind = "authorization"
                          THEN "TASK_STATE_AUTH_REQUIRED" ELSE "TASK_STATE_INPUT_REQUIRED"
BY DEF ToA2AInterruptedTask, Refused, Projected

\* A receipt that the AG-UI adapter issued for one continuation.
LEMMA AguiIssued ==
    ASSUME NEW e, NEW x, IssueAguiInterrupts(<<e>>, x).code = "ok"
    PROVE  /\ x # Unreadable
           /\ e.status = "pending"
           /\ CorrelationId[e.continuationId] = x.threadId
           /\ IssueAguiInterrupts(<<e>>, x).message =
                [threadId |-> x.threadId, runId |-> x.runId, interrupts |-> Interrupts(<<e>>),
                 cohortId |-> CohortId(x.threadId, x.runId, Interrupts(<<e>>))]
<1> DEFINE s == <<e>>
           refusal == [k \in DOMAIN s |-> MemberRefusal(s, x, k)]
           failing == {k \in DOMAIN s : refusal[k] # "ok"}
           first == CHOOSE k \in failing : \A j \in failing : k <= j
<1>1. /\ IssueAguiInterrupts(s, x) =
           IF x = Unreadable \/ s = << >> THEN Refused("INVALID_PROTOCOL_BINDING")
           ELSE IF failing # {} THEN Refused(refusal[first])
           ELSE Projected([threadId |-> x.threadId, runId |-> x.runId,
                           interrupts |-> Interrupts(s),
                           cohortId |-> CohortId(x.threadId, x.runId, Interrupts(s))])
  BY DEF IssueAguiInterrupts
<1>2. DOMAIN s = {1} /\ s[1] = e
  OBVIOUS
<1>3. failing # {} => refusal[first] # "ok"
  <2> SUFFICES ASSUME failing # {} PROVE refusal[first] # "ok"
    OBVIOUS
  <2>1. failing = {1}
    <3>1. failing \subseteq {1}
      BY <1>2
    <3> HIDE DEF failing
    <3> QED
      BY <3>1
  <2>2. first = 1
    <3> HIDE DEF failing
    <3> QED
      BY <2>1
  <2> QED
    BY <2>1, <2>2
<1> HIDE DEF first
<1>4. x # Unreadable /\ failing = {}
  BY <1>1, <1>3 DEF Refused
<1>5. MemberRefusal(s, x, 1) = "ok"
  BY <1>2, <1>4
<1>6. e.status = "pending" /\ CorrelationId[e.continuationId] = x.threadId
  BY <1>2, <1>5 DEF MemberRefusal
<1> HIDE DEF failing, refusal
<1> QED
  BY <1>1, <1>4, <1>6 DEF Projected

\* The envelope behind a projection, and the record of the same continuation.
LEMMA ProjectedFacts ==
    ASSUME SafetyInv, HttpInv, NEW c \in Calls, reply[c].code = "ok"
    PROVE  LET e == reply[c].envelope
               r == Recorded(Id(c))
           IN  /\ Id(c) \in Ids
               /\ Records(streams[Id(c)], e) /\ WellFormed(streams[Id(c)], Id(c))
               /\ e.continuationId = Id(c) /\ r.continuationId = Id(c)
               /\ e.expiresAt = r.expiresAt /\ e.expiresAt \in Nat
               /\ e.status = "pending" => e.version = 1
               /\ r.version = IF r.status = "pending" THEN 1 ELSE 2
<1> DEFINE i == Id(c)
           s == streams[i]
           e == reply[c].envelope
           r == Recorded(i)
<1>1. i \in Ids /\ WellFormed(s, i) /\ Records(s, e)
  BY AnswerFacts
<1>2. Len(s) \in {1, 2}
  BY <1>1, RecordFacts
<1>3. Records(s, r)
  BY <1>1, <1>2, LoadFacts DEF Recorded
<1> HIDE DEF s, e, r, i
<1> QED
  BY <1>1, <1>3, RecordFacts DEF s, e, r, i

\* A call whose projection was issued inspected successfully.
LEMMA IssuedFrom ==
    ASSUME HttpInv, NEW c \in Calls, projected[c] # Undefined
    PROVE  /\ reply[c].code = "ok"
           /\ http[c] \in Offered[c]
           /\ ProjectionOf(c).code = "ok"
           /\ projected[c] = ProjectionOf(c).message
<1>1. HttpOf(c)
  BY DEF HttpInv
<1> QED
  BY <1>1 DEF HttpOf, ProjectionStands

\* An AG-UI receipt passes its validation whatever became of its continuation.
LEMMA AguiStaysBound ==
    ASSUME SafetyInv, HttpInv, NEW c \in IssuedBy("ag-ui")
    PROVE  /\ ValidateReceipt(projected[c]) = "ok"
           /\ ValidateCurrentCohort(projected[c], <<Recorded(Id(c))>>) = "ok"
<1> DEFINE e == reply[c].envelope
           r == Recorded(Id(c))
           x == http[c].context
           m == projected[c]
           i == Id(c)
<1>1. c \in Calls /\ m # Undefined /\ http[c].protocol = "ag-ui"
  BY DEF IssuedBy
<1>2. /\ reply[c].code = "ok" /\ x \in AguiBinding \cup {Unreadable}
      /\ IssueAguiInterrupts(<<e>>, x).code = "ok"
      /\ m = IssueAguiInterrupts(<<e>>, x).message
  BY <1>1, IssuedFrom, HttpAssumption DEF ProjectionOf, IsHttpRequest
<1>3. /\ i \in Ids /\ e.continuationId = i /\ r.continuationId = i
      /\ e.expiresAt = r.expiresAt /\ e.expiresAt \in Nat
      /\ e.status = "pending" => e.version = 1
      /\ r.version = IF r.status = "pending" THEN 1 ELSE 2
  BY <1>1, <1>2, ProjectedFacts
<1> HIDE DEF e, r, x, m, i
<1>4. /\ x # Unreadable /\ e.status = "pending" /\ CorrelationId[i] = x.threadId
      /\ m = [threadId |-> x.threadId, runId |-> x.runId, interrupts |-> Interrupts(<<e>>),
              cohortId |-> CohortId(x.threadId, x.runId, Interrupts(<<e>>))]
  BY <1>2, <1>3, AguiIssued
<1> DEFINE issued == [continuationId |-> i, expiresAt |-> r.expiresAt, issuedVersion |-> 1,
                      payloadHash |-> HashJson(PayloadOf[i])]
<1>5. Interrupts(<<e>>) = <<issued>>
  BY <1>3, <1>4 DEF Interrupts
<1>6. issued \in ReceiptInterrupt
  BY <1>3 DEF ReceiptInterrupt
<1> HIDE DEF issued
<1>7. m \in AguiReceipt
  <2>1. x.threadId \in Threads /\ x.runId \in Runs
    BY <1>2, <1>4 DEF AguiBinding
  <2>2. <<issued>> \in Seq(ReceiptInterrupt)
    BY <1>6
  <2> QED
    BY <1>4, <1>5, <2>1, <2>2 DEF AguiReceipt, CohortId, HashJson
<1>8. m.interrupts = <<issued>> /\ m.threadId = x.threadId
      /\ m.cohortId = CohortId(m.threadId, m.runId, m.interrupts)
  BY <1>4, <1>5
<1>9. \A s : DOMAIN s = {1} => ~ HasDuplicates(s)
  BY DEF HasDuplicates
<1>10. DOMAIN m.interrupts = {1} /\ m.interrupts[1] = issued /\ Len(m.interrupts) = 1
  BY <1>8
<1>11. ValidateReceipt(m) = "ok"
  <2>1. m # Unreadable
    BY <1>7, UnreadableAssumption
  <2>2. ~ HasDuplicates([k \in DOMAIN m.interrupts |-> m.interrupts[k].continuationId])
    BY <1>9, <1>10
  <2> QED
    BY <1>8, <2>1, <2>2 DEF ValidateReceipt
<1> DEFINE current == <<r>>
<1>12. DOMAIN current = {1} /\ current[1] = r /\ Len(current) = 1
  OBVIOUS
<1> HIDE DEF current
<1>13. ValidateCurrentCohort(m, current) = "ok"
  <2>1. {current[k] : k \in DOMAIN current} = {r}
    BY <1>12
  <2>2. (CHOOSE y \in {current[k] : k \in DOMAIN current} : y.continuationId = i) = r
    BY <1>3, <2>1
  <2>3. issued.continuationId = i /\ issued.expiresAt = r.expiresAt
        /\ issued.issuedVersion = 1 /\ issued.payloadHash = HashJson(PayloadOf[i])
    BY DEF issued
  <2>4. r.version = VersionNow(issued, r)
    BY <1>3, <2>3 DEF VersionNow
  <2>5. ~ HasDuplicates([k \in DOMAIN current |-> current[k].continuationId])
    BY <1>9, <1>12
  <2>6. {k \in DOMAIN m.interrupts : m.interrupts[k].continuationId
            \notin {current[j].continuationId : j \in DOMAIN current}} = {}
    BY <1>3, <1>10, <1>12, <2>3
  <2> QED
    BY <1>3, <1>4, <1>8, <1>10, <1>12, <2>2, <2>3, <2>4, <2>5, <2>6 DEF ValidateCurrentCohort
<1> QED
  BY <1>11, <1>13 DEF current, m, r, i

\* What an MCP projection is bound to.
LEMMA McpBound ==
    ASSUME SafetyInv, HttpInv, NEW c \in IssuedBy("mcp")
    PROVE  LET request == projected[c].request
               i == Id(c)
           IN  /\ i \in Ids
               /\ projected[c] = [request |-> request, receipt |-> projected[c].receipt]
               /\ projected[c].receipt =
                    [continuationId |-> i, correlationId |-> CorrelationId[i],
                     mode |-> request.mode, requestId |-> request.id,
                     requestHash |-> HashJson(request)]
               /\ PayloadIsProjectable(i)
               /\ request.meta.continuationId = i
               /\ request.meta.correlationId = CorrelationId[i]
               /\ request.meta.expiresAt = Recorded(i).expiresAt
               /\ request.meta.requestId = request.id
               /\ request.mode = IF PayloadOf[i].kind = "authorization" THEN "url" ELSE "form"
               /\ request.mode = "form" => request.requestedSchema = RequestedSchemaOf(i)
<1> DEFINE e == reply[c].envelope
           x == http[c].context
           m == projected[c]
           i == Id(c)
<1>1. c \in Calls /\ m # Undefined /\ http[c].protocol = "mcp"
  BY DEF IssuedBy
<1>2. /\ reply[c].code = "ok"
      /\ IssueMcpElicitation(e, x, Policy).code = "ok"
      /\ m = IssueMcpElicitation(e, x, Policy).message
  BY <1>1, IssuedFrom DEF ProjectionOf
<1>3. i \in Ids /\ e.continuationId = i /\ e.expiresAt = Recorded(i).expiresAt
  BY <1>1, <1>2, ProjectedFacts
<1> HIDE DEF e, x, m, i
<1>4. /\ m = [request |-> m.request, receipt |-> CreateMcpElicitationReceipt(e, m.request)]
      /\ PayloadIsProjectable(i)
      /\ m.request.meta = ProjectionMetadata(e, x)
      /\ m.request.id = x.requestId
      /\ m.request.mode = IF PayloadOf[i].kind = "authorization" THEN "url" ELSE "form"
      /\ m.request.mode = "form" => m.request.requestedSchema = RequestedSchemaOf(i)
  BY <1>2, <1>3, McpIssued
<1>5. /\ m.receipt = CreateMcpElicitationReceipt(e, m.request)
      /\ m = [request |-> m.request, receipt |-> m.receipt]
  BY <1>4
<1>6. m.receipt = [continuationId |-> i, correlationId |-> CorrelationId[i],
                   mode |-> m.request.mode, requestId |-> m.request.id,
                   requestHash |-> HashJson(m.request)]
  BY <1>3, <1>5 DEF CreateMcpElicitationReceipt
<1>7. /\ m.request.meta.continuationId = i
      /\ m.request.meta.correlationId = CorrelationId[i]
      /\ m.request.meta.expiresAt = Recorded(i).expiresAt
      /\ m.request.meta.requestId = m.request.id
  BY <1>3, <1>4 DEF ProjectionMetadata
<1> QED
  BY <1>3, <1>4, <1>5, <1>6, <1>7 DEF m, i

\* However a continuation ended while the body of a projection was on its way, the
\* request and receipt of the projection stay bound to what is recorded.
THEOREM ProjectionsBound == HttpSpec => []ProjectionsStayBound
<1>1. SafetyInv /\ HttpInv => ProjectionsStayBound
  <2> SUFFICES ASSUME SafetyInv, HttpInv PROVE ProjectionsStayBound
    OBVIOUS
  <2>1. ASSUME NEW c \in IssuedBy("mcp")
        PROVE  /\ RequestIsBound(Recorded(Id(c)), projected[c].request)
               /\ ReceiptMatches(Recorded(Id(c)), projected[c].request, projected[c].receipt)
    <3>1. Recorded(Id(c)).continuationId = Id(c)
      BY IssuedFrom, ProjectedFacts DEF IssuedBy
    <3>2. RequestIsBound(Recorded(Id(c)), projected[c].request)
      BY <3>1, McpBound DEF RequestIsBound
    <3>3. ReceiptMatches(Recorded(Id(c)), projected[c].request, projected[c].receipt)
      <4> DEFINE request == projected[c].request
                 receipt == projected[c].receipt
      <4>1. receipt = [continuationId |-> Id(c), correlationId |-> CorrelationId[Id(c)],
                       mode |-> request.mode, requestId |-> request.id,
                       requestHash |-> HashJson(request)]
        BY McpBound
      <4> HIDE DEF request, receipt
      <4>2. ReceiptMatches(Recorded(Id(c)), request, receipt)
        BY <3>1, <4>1 DEF ReceiptMatches
      <4> QED
        BY <4>2 DEF request, receipt
    <3> QED
      BY <3>2, <3>3
  <2>2. ASSUME NEW c \in IssuedBy("a2a")
        PROVE  /\ projected[c].continuationId = Id(c)
               /\ projected[c].expiresAt = Recorded(Id(c)).expiresAt
    <3>1. c \in Calls /\ projected[c] # Undefined /\ http[c].protocol = "a2a"
      BY DEF IssuedBy
    <3>2. /\ reply[c].code = "ok"
          /\ ToA2AInterruptedTask(reply[c].envelope, http[c].context).code = "ok"
          /\ projected[c] = ToA2AInterruptedTask(reply[c].envelope, http[c].context).message
      BY <3>1, IssuedFrom DEF ProjectionOf
    <3> QED
      BY <3>1, <3>2, A2aIssued, ProjectedFacts
  <2> QED
    BY <2>1, <2>2, AguiStaysBound DEF ProjectionsStayBound
<1> QED
  BY HttpSafety, <1>1, PTL

\* What the MCP adapter has tested when it accepts a result,
LEMMA AcceptedResult ==
    ASSUME NEW e, NEW request, NEW receipt, NEW r,
           ParseMcpElicitResult(e, request, receipt, r).code = "ok"
    PROVE  /\ RequestIsBound(e, request)
           /\ ReceiptMatches(e, request, receipt)
           /\ r.content # Undefined =>
                request.mode # "url" /\ FormContentIsValid(r.content, request.requestedSchema)
BY DEF ParseMcpElicitResult, Refused

\* ... and when it announces a completion.
LEMMA AnnouncedCompletion ==
    ASSUME NEW e, NEW request, NEW receipt,
           ToMcpElicitationCompleteNotification(e, request, receipt).code = "ok"
    PROVE  /\ e.status = "resumed"
           /\ request.mode = "url"
           /\ RequestIsBound(e, request)
           /\ ReceiptMatches(e, request, receipt)
BY DEF ToMcpElicitationCompleteNotification, Refused

\* A receipt that matches a request was issued with it: the digest covers the request,
\* and the request names the continuation.
LEMMA PairedAsIssued ==
    ASSUME SafetyInv, HttpInv, NEW e, NEW c \in IssuedBy("mcp"), NEW d \in IssuedBy("mcp"),
           RequestIsBound(e, projected[c].request),
           ReceiptMatches(e, projected[c].request, projected[d].receipt)
    PROVE  projected[c] = projected[d] /\ Id(c) = e.continuationId
<1> DEFINE q == projected[c].request
           p == projected[d].request
           i == Id(c)
           j == Id(d)
<1>1. /\ projected[c] = [request |-> q, receipt |-> projected[c].receipt]
      /\ projected[c].receipt =
           [continuationId |-> i, correlationId |-> CorrelationId[i],
            mode |-> q.mode, requestId |-> q.id, requestHash |-> HashJson(q)]
      /\ q.meta.continuationId = i
  BY McpBound
<1>2. /\ projected[d] = [request |-> p, receipt |-> projected[d].receipt]
      /\ projected[d].receipt =
           [continuationId |-> j, correlationId |-> CorrelationId[j],
            mode |-> p.mode, requestId |-> p.id, requestHash |-> HashJson(p)]
      /\ p.meta.continuationId = j
  BY McpBound
<1>3. projected[d].receipt.requestHash = HashJson(q)
  BY DEF ReceiptMatches
<1> HIDE DEF p, q, i, j
<1>4. HashJson(p) = HashJson(q)
  BY <1>2, <1>3
<1>5. p = q
  BY <1>4 DEF HashJson
<1>6. i = j
  BY <1>1, <1>2, <1>5
<1>7. projected[c] = projected[d]
  BY <1>1, <1>2, <1>5, <1>6
<1>8. i = e.continuationId
  BY <1>1 DEF RequestIsBound, q
<1> QED
  BY <1>7, <1>8 DEF i

\* Whatever request, receipt and envelope a host pairs: a result is accepted only for
\* what was issued together, with content that the continuation's schema admits; a
\* completion is announced only for a recorded authorization; a message answers a task
\* in the state it was shown in.
THEOREM ProtocolAnswersBound == HttpSpec => []ProtocolAnswersAreBound
<1>1. SafetyInv /\ HttpInv => ProtocolAnswersAreBound
  <2> SUFFICES ASSUME SafetyInv, HttpInv, NEW b \in Calls, reply[b].code = "ok"
               PROVE  LET e == reply[b].envelope IN
        /\ \A c, d \in IssuedBy("mcp") :
             LET request == projected[c].request
                 receipt == projected[d].receipt
                 accepted ==
                     {r \in [action : Actions, content : Payloads \cup {Undefined}] :
                         ParseMcpElicitResult(e, request, receipt, r).code = "ok"}
                 announced ==
                     ToMcpElicitationCompleteNotification(e, request, receipt).code = "ok"
             IN  /\ accepted # {} \/ announced =>
                      projected[c] = projected[d] /\ Id(c) = e.continuationId
                 /\ \A r \in accepted : r.content # Undefined =>
                      /\ PayloadOf[Id(c)].kind = "input"
                      /\ FormContentIsValid(r.content, RequestedSchemaOf(Id(c)))
                 /\ announced => /\ Recorded(Id(c)).status = "resumed"
                                 /\ PayloadOf[Id(c)].kind = "authorization"
        /\ \A c \in IssuedBy("a2a") : e.continuationId = Id(c) =>
             /\ \A p \in Payloads :
                  ToA2AInputMessage(e, http[c].context, p).code = "ok" =>
                      projected[c].state = "TASK_STATE_INPUT_REQUIRED"
             /\ ToA2AAuthorizationControlMessage(e, http[c].context, "retry").code = "ok" =>
                      projected[c].state = "TASK_STATE_AUTH_REQUIRED"
    BY DEF ProtocolAnswersAreBound, HeldEnvelopes
  <2> DEFINE e == reply[b].envelope
  <2>1. /\ Id(b) \in Ids /\ e.continuationId = Id(b)
        /\ WellFormed(streams[Id(b)], Id(b)) /\ Records(streams[Id(b)], e)
    BY ProjectedFacts
  <2> HIDE DEF e
  <2>2. ASSUME NEW c \in IssuedBy("mcp"), NEW d \in IssuedBy("mcp"), NEW r,
               ParseMcpElicitResult(e, projected[c].request, projected[d].receipt, r).code = "ok"
        PROVE  /\ projected[c] = projected[d] /\ Id(c) = e.continuationId
               /\ r.content # Undefined =>
                    /\ PayloadOf[Id(c)].kind = "input"
                    /\ FormContentIsValid(r.content, RequestedSchemaOf(Id(c)))
    <3> DEFINE q == projected[c].request
    <3>1. /\ RequestIsBound(e, q)
          /\ ReceiptMatches(e, q, projected[d].receipt)
          /\ r.content # Undefined =>
               q.mode # "url" /\ FormContentIsValid(r.content, q.requestedSchema)
      BY <2>2, AcceptedResult
    <3>2. projected[c] = projected[d] /\ Id(c) = e.continuationId
      BY <3>1, PairedAsIssued
    <3>3. /\ PayloadIsProjectable(Id(c))
          /\ q.mode = IF PayloadOf[Id(c)].kind = "authorization" THEN "url" ELSE "form"
          /\ q.mode = "form" => q.requestedSchema = RequestedSchemaOf(Id(c))
      BY McpBound
    <3> HIDE DEF q
    <3>4. q.mode # "url" => PayloadOf[Id(c)].kind = "input" /\ q.mode = "form"
      BY <3>3 DEF PayloadIsProjectable
    <3> QED
      BY <3>1, <3>2, <3>3, <3>4
  <2>3. ASSUME NEW c \in IssuedBy("mcp"), NEW d \in IssuedBy("mcp"),
               ToMcpElicitationCompleteNotification(
                   e, projected[c].request, projected[d].receipt).code = "ok"
        PROVE  /\ projected[c] = projected[d] /\ Id(c) = e.continuationId
               /\ Recorded(Id(c)).status = "resumed"
               /\ PayloadOf[Id(c)].kind = "authorization"
    <3> DEFINE q == projected[c].request
    <3>1. /\ e.status = "resumed" /\ q.mode = "url"
          /\ RequestIsBound(e, q)
          /\ ReceiptMatches(e, q, projected[d].receipt)
      BY <2>3, AnnouncedCompletion
    <3>2. projected[c] = projected[d] /\ Id(c) = e.continuationId
      BY <3>1, PairedAsIssued
    <3>3. Recorded(Id(c)) = e
      BY <2>1, <3>1, <3>2, TerminalIsLast DEF Recorded
    <3>4. q.mode = IF PayloadOf[Id(c)].kind = "authorization" THEN "url" ELSE "form"
      BY McpBound
    <3> QED
      BY <3>1, <3>2, <3>3, <3>4
  <2>4. ASSUME NEW c \in IssuedBy("a2a"), e.continuationId = Id(c)
        PROVE  /\ \A p \in Payloads :
                     ToA2AInputMessage(e, http[c].context, p).code = "ok" =>
                         projected[c].state = "TASK_STATE_INPUT_REQUIRED"
               /\ ToA2AAuthorizationControlMessage(e, http[c].context, "retry").code = "ok" =>
                     projected[c].state = "TASK_STATE_AUTH_REQUIRED"
    <3>1. c \in Calls /\ projected[c] # Undefined /\ http[c].protocol = "a2a"
      BY DEF IssuedBy
    <3>2. /\ reply[c].code = "ok"
          /\ ToA2AInterruptedTask(reply[c].envelope, http[c].context).code = "ok"
          /\ projected[c] = ToA2AInterruptedTask(reply[c].envelope, http[c].context).message
      BY <3>1, IssuedFrom DEF ProjectionOf
    <3>3. reply[c].envelope.continuationId = e.continuationId
      BY <2>4, <3>1, <3>2, ProjectedFacts
    <3>4. projected[c].state = IF PayloadOf[e.continuationId].kind = "authorization"
                                 THEN "TASK_STATE_AUTH_REQUIRED" ELSE "TASK_STATE_INPUT_REQUIRED"
      BY <3>2, <3>3, A2aIssued
    <3>5. ASSUME NEW p, ToA2AInputMessage(e, http[c].context, p).code = "ok"
          PROVE  PayloadOf[e.continuationId].kind # "authorization"
      BY <3>5 DEF ToA2AInputMessage, Refused
    <3>6. ASSUME ToA2AAuthorizationControlMessage(e, http[c].context, "retry").code = "ok"
          PROVE  PayloadOf[e.continuationId].kind = "authorization"
      BY <3>6 DEF ToA2AAuthorizationControlMessage, Refused
    <3> QED
      BY <3>4, <3>5, <3>6
  <2> QED
    BY <2>2, <2>3, <2>4 DEF e
<1> QED
  BY HttpSafety, <1>1, PTL
=============================================================================
