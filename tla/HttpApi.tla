------------------------------ MODULE HttpApi -------------------------------
(***************************************************************************)
(* The HTTP API, src/adapters/http/app.ts, on the continuation service: a  *)
(* call of the service is made by the handler of one HTTP request.  The    *)
(* handlers of create, resume and cancel read the whole request before     *)
(* they call the service; the projection handler inspects the continuation *)
(* first, and only then reads the body that says how to project it.        *)
(*                                                                         *)
(* Every step of the API is a step of the service or leaves the service    *)
(* alone.  /healthz keeps no state; /readyz is the readiness probe of      *)
(* module PostgresMigration.                                               *)
(***************************************************************************)
EXTENDS ContinuationServiceProperties, AguiAdapter, McpElicitation, A2aTask

CONSTANTS
    Offered         \* Offered[c]: the HTTP requests that connection c may carry

VARIABLES
    http,           \* the HTTP request each connection carries
    status,         \* the status code it was answered with, 0 before
    projected       \* the projection (and receipt) in the answer

httpVars == <<vars, http, status, projected>>

Routes == {"create", "inspect", "events", "project", "resume", "cancel"}

\* body: what readBoundedJson and the route's schema make of it; "malformed" is no
\* JSON, "declared" has a Content-Length that is already too large.  headers: those of resume.
\* call: the service request.  context: the body of a projection.
NoHttp == [route |-> "none"]

IsHttpRequest(h) ==
    /\ h.route \in Routes
    /\ h.body \in {"valid", "invalid", "malformed", "declared", "tooLarge"}
    /\ h.headers \in {"valid", "noKey", "noToken"}
    /\ h.call \in Requests
    /\ h.protocol \in {"none", "mcp", "a2a", "ag-ui", "other"}
    /\ h.protocol = "ag-ui" => h.context \in AguiBinding \cup {Unreadable}
    /\ h.call.op = IF h.route \in {"project", "events"} THEN "inspect" ELSE h.route

ASSUME HttpAssumption ==
    \A c \in Calls : \A h \in Offered[c] : IsHttpRequest(h)

HttpInit ==
    /\ Init
    /\ http = [c \in Calls |-> NoHttp]
    /\ status = [c \in Calls |-> 0]
    /\ projected = [c \in Calls |-> Undefined]

-----------------------------------------------------------------------------
(* Statuses *)

\* The status of a body that cannot be used, 0 if it can.  One that is no JSON
\* makes the parser throw a SyntaxError, which onError does not know.
BodyStatus(body) ==
    CASE body \in {"declared", "tooLarge"} -> 413
      [] body = "invalid" -> 400
      [] body = "malformed" -> 500
      [] OTHER -> 0

\* The answer of a request that is turned away before the service is called.
EarlyStatus(h) ==
    IF h.route \in {"create", "resume", "cancel"} /\ BodyStatus(h.body) # 0
      THEN BodyStatus(h.body)
    ELSE IF h.route = "project" /\ h.body = "declared" THEN 413
    ELSE IF h.route = "resume" /\ h.headers = "noKey" THEN 400
    ELSE IF h.route = "resume" /\ h.headers = "noToken" THEN 401
    ELSE 0

\* Mutant of ErrorStatus: what is no PauseMeshError is a bad request too.
ErrorStatusOfAny(code) ==
    CASE code = "CONTINUATION_NOT_FOUND" -> 404
      [] code = "TOKEN_MISMATCH" -> 401
      [] code = "CONTINUATION_EXPIRED" -> 410
      [] code \in {"CONTINUATION_CANCELLED", "TOKEN_ALREADY_USED", "IDEMPOTENCY_CONFLICT",
                   "INVALID_TRANSITION", "VERSION_CONFLICT"} -> 409
      [] OTHER -> 400

\* errorStatus and app.onError for what a service method throws.  create's
\* RangeError is no PauseMeshError.  "failed" is an error of the store, or a
\* process that dies: the client gets a 500 or no answer at all.
ErrorStatus(code) ==
    CASE code = "CONTINUATION_NOT_FOUND" -> 404
      [] code = "TOKEN_MISMATCH" -> 401
      [] code = "CONTINUATION_EXPIRED" -> 410
      [] code \in {"CONTINUATION_CANCELLED", "TOKEN_ALREADY_USED", "IDEMPOTENCY_CONFLICT",
                   "INVALID_TRANSITION", "VERSION_CONFLICT"} -> 409
      [] code \in {"RANGE_ERROR", "failed"} -> 500

\* app.onError for a ProtocolAdapterError.
ProjectionStatus(code) ==
    CASE code = "ok" -> 200
      [] code = "INVALID_PROTOCOL_TRANSITION" -> 409
      [] OTHER -> 400

-----------------------------------------------------------------------------
(* Handlers *)

\* The request is turned away, or its handler calls the service.
Accept(c, h) ==
    /\ http[c] = NoHttp
    /\ h.route # "events"
    /\ http' = [http EXCEPT ![c] = h]
    /\ IF EarlyStatus(h) # 0
         THEN status' = [status EXCEPT ![c] = EarlyStatus(h)] /\ UNCHANGED vars
         ELSE Invoke(c, h.call) /\ UNCHANGED status
    /\ UNCHANGED projected

\* What history answers: one load, which may fail, and the raw events if there are any.
HistoryStatuses(id) == {500, IF streams[id] = << >> THEN 404 ELSE 200}

GetEvents(c, h) ==
    /\ http[c] = NoHttp
    /\ h.route = "events"
    /\ http' = [http EXCEPT ![c] = h]
    /\ \E code \in HistoryStatuses(h.call.continuationId) :
         status' = [status EXCEPT ![c] = code]
    /\ UNCHANGED <<vars, projected>>

IsProjecting(c) == http[c].route = "project" /\ reply[c].code = "ok"

\* Mutant of Respond: the answer does not wait for the end of the method.
RespondUnawaited(c) ==
    /\ pc[c] \in {"observe", "done"}
    /\ status[c] = 0
    /\ ~ IsProjecting(c)
    /\ status' = [status EXCEPT ![c] =
           IF reply[c].code \notin {"none", "ok"} THEN ErrorStatus(reply[c].code) ELSE 200]
    /\ UNCHANGED <<vars, http, projected>>

\* The service method has returned or thrown.
Respond(c) ==
    /\ pc[c] = "done"
    /\ status[c] = 0
    /\ ~ IsProjecting(c)
    /\ status' = [status EXCEPT ![c] =
           IF reply[c].code # "ok" THEN ErrorStatus(reply[c].code)
           ELSE IF http[c].route = "create" THEN 201 ELSE 200]
    /\ UNCHANGED <<vars, http, projected>>

\* What the continuation, as inspected, is projected to.
ProjectionOf(c) ==
    LET continuation == reply[c].envelope
        context == http[c].context
    IN  CASE http[c].protocol = "mcp" -> IssueMcpElicitation(continuation, context, Policy)
          [] http[c].protocol = "a2a" -> ToA2AInterruptedTask(continuation, context)
          [] http[c].protocol = "ag-ui" -> IssueAguiInterrupts(<<continuation>>, context)

\* inspect has returned and the body has arrived, any time later.
Project(c) ==
    /\ pc[c] = "done"
    /\ status[c] = 0
    /\ IsProjecting(c)
    /\ LET projection == ProjectionOf(c)
           code == IF http[c].protocol = "other" THEN 404
                   ELSE IF BodyStatus(http[c].body) # 0 THEN BodyStatus(http[c].body)
                   ELSE ProjectionStatus(projection.code)
       IN  /\ status' = [status EXCEPT ![c] = code]
           /\ projected' = [projected EXCEPT ![c] =
                  IF code = 200 THEN projection.message ELSE Undefined]
    /\ UNCHANGED <<vars, http>>

ServiceStep ==
    /\ Tick \/ \E c \in Calls : Step(c) \/ Fail(c)
    /\ UNCHANGED <<http, status, projected>>

HttpNext ==
    \/ \E c \in Calls : \E h \in Offered[c] : Accept(c, h) \/ GetEvents(c, h)
    \/ \E c \in Calls : Respond(c) \/ Project(c)
    \/ ServiceStep

HttpSpec == HttpInit /\ [][HttpNext]_httpVars

-----------------------------------------------------------------------------

\* Types of the API's variables, and that a status is only given once the service
\* call behind it, if there was one, has ended.
HttpTypeOK ==
    \A c \in Calls :
        /\ http[c] = NoHttp \/ http[c] \in Offered[c]
        /\ status[c] \in {0, 200, 201, 400, 401, 404, 409, 410, 413, 500}
        /\ status[c] # 0 => pc[c] \in {"idle", "done"}
        /\ projected[c] # Undefined => status[c] = 200

\* A client that is answered 4xx gives up, so such a request must not have resumed or
\* cancelled anything: for every resume or cancellation on record, some request
\* that asked for exactly that was answered with success, with a 500 or not yet.
\* (Expiries are no request's decision: the resume that is answered 410 may well
\* have recorded the expiry itself.)
RefusedRequestsDecideNothing ==
    \A i \in Ids : Recorded(i).status \in {"resumed", "cancelled"} =>
        \E c \in Calls :
            /\ status[c] \notin 400 .. 499
            /\ \/ /\ Recorded(i).status = "resumed" /\ req[c].op = "resume" /\ Id(c) = i
                  /\ req[c].idempotencyKey = Recorded(i).idempotencyKey
                  /\ req[c].resumePayload = Recorded(i).resumePayload
               \/ /\ Recorded(i).status = "cancelled" /\ req[c].op = "cancel" /\ Id(c) = i
                  /\ req[c].reason = Recorded(i).reason

IssuedBy(protocol) == {c \in Calls : projected[c] # Undefined /\ http[c].protocol = protocol}

\* A projection is made from an envelope that may have ended while the body was
\* on its way.  However it ended, request and receipt stay bound to the recorded
\* continuation: an answer to a late projection is judged by the continuation's
\* status, and never mistaken for an answer to something else.
ProjectionsStayBound ==
    /\ \A c \in IssuedBy("ag-ui") :
         /\ ValidateReceipt(projected[c]) = "ok"
         /\ ValidateCurrentCohort(projected[c], <<Recorded(Id(c))>>) = "ok"
    /\ \A c \in IssuedBy("mcp") :
         /\ RequestIsBound(Recorded(Id(c)), projected[c].request)
         /\ ReceiptMatches(Recorded(Id(c)), projected[c].request, projected[c].receipt)
    /\ \A c \in IssuedBy("a2a") :
         /\ projected[c].continuationId = Id(c)
         /\ projected[c].expiresAt = Recorded(Id(c)).expiresAt

\* The envelopes the host holds: what some call answered, current or stale.
HeldEnvelopes == {reply[c].envelope : c \in {d \in Calls : reply[d].code = "ok"}}

Actions == {"accept", "decline", "cancel"}

\* A host keeps request and receipt of an elicitation separately and may pair
\* them wrongly after a crash or a second projection, and the envelope it reads
\* an answer with may be stale.  Whatever it pairs: a result is accepted only for
\* a request that was issued with that receipt for that very continuation, with
\* content that the continuation's schema admits; a completion is announced only
\* for an authorization that is on record as resumed; and an A2A message answers
\* a task in the state it was shown in, credentials never in band.
ProtocolAnswersAreBound ==
    \A e \in HeldEnvelopes :
        /\ \A c, d \in IssuedBy("mcp") :
             LET request == projected[c].request
                 receipt == projected[d].receipt
                 accepted ==
                     {r \in [action : Actions, content : Payloads \cup {Undefined}] :
                         ParseMcpElicitResult(e, request, receipt, r).code = "ok"}
                 announced ==
                     ToMcpElicitationCompleteNotification(e, request, receipt).code = "ok"
             IN  /\ accepted # {} \/ announced =>
                      projected[c] = projected[d] /\ Id(c) = e.continuationId
                 /\ \A r \in accepted : r.content # Undefined =>
                      /\ PayloadOf[Id(c)].kind = "input"
                      /\ FormContentIsValid(r.content, RequestedSchemaOf(Id(c)))
                 /\ announced => /\ Recorded(Id(c)).status = "resumed"
                                 /\ PayloadOf[Id(c)].kind = "authorization"
        /\ \A c \in IssuedBy("a2a") : e.continuationId = Id(c) =>
             /\ \A p \in Payloads :
                  ToA2AInputMessage(e, http[c].context, p).code = "ok" =>
                      projected[c].state = "TASK_STATE_INPUT_REQUIRED"
             /\ ToA2AAuthorizationControlMessage(e, http[c].context, "retry").code = "ok" =>
                      projected[c].state = "TASK_STATE_AUTH_REQUIRED"
=============================================================================
