------------------------ MODULE ContinuationService -------------------------
(***************************************************************************)
(* The application service of pausemesh: create, inspect, resume and       *)
(* cancel of src/application/continuation-service.ts, run by any number of *)
(* concurrent calls against one event store.                               *)
(*                                                                         *)
(* A call is one invocation of a service method.  It advances from await   *)
(* to await: what the method does between two awaits touches only its own  *)
(* locals and the clock, so it is one step, and the steps of other calls   *)
(* interleave at the awaits.  The awaits of the token issuer and of the    *)
(* observer change nothing that is shared; only those after which the call *)
(* reads the clock, or after which a committed call can still lose its     *)
(* answer, are kept apart.                                                 *)
(*                                                                         *)
(* Tokens are fresh random values: the token that create call c issues is  *)
(* c itself, and ForgedToken stands for every string nobody issued.        *)
(***************************************************************************)
EXTENDS EventStore

CONSTANTS
    Calls,          \* the calls made of the service
    Requests,       \* the requests that clients make
    ForgedToken,    \* a resume token that was never issued
    TokenTtl,       \* tokenTtlSeconds, the default life of a continuation
    MaxTime,        \* bound: the clock's last value
    MonotoneClock   \* FALSE if the wall clock may be stepped back

VARIABLES
    clock,          \* what Clock.now() returns
    pc,             \* where each call is
    req,            \* the request each call serves
    env,            \* the envelope a call holds (locals loaded, continuation, pending, ...)
    tokenHash,      \* the resumeTokenHash of a call's ResumeContext
    now,            \* the clock value a call read last
    reply           \* what each call answered

vars == <<streams, clock, pc, req, env, tokenHash, now, reply>>

Tokens == Calls \cup {ForgedToken}

\* Mutant of Hash: the token itself is stored.
RawToken(token) == token

\* SHA-256: distinct tokens have distinct digests, and a digest is no token.
Hash(token) == [sha256 |-> token]
TokenHashes == [sha256 : Tokens]
NoHash == [sha256 |-> ForgedToken]

CreateRequest ==
    [op : {"create"}, continuationId : Ids, expiresAt : Nat \cup {Undefined}]
InspectRequest ==
    [op : {"inspect"}, continuationId : Ids]
ResumeRequest ==
    [op : {"resume"}, continuationId : Ids, resumeToken : Tokens,
     idempotencyKey : Keys, resumePayload : Payloads]
CancelRequest ==
    [op : {"cancel"}, continuationId : Ids, reason : Reasons \cup {Undefined},
     expectedVersion : Nat \cup {Undefined}]
Request == CreateRequest \cup InspectRequest \cup ResumeRequest \cup CancelRequest
NoRequest == [op |-> "none"]

ASSUME ServiceAssumption ==
    /\ Requests \subseteq Request
    /\ ForgedToken \notin Calls
    /\ Hashes = TokenHashes
    /\ Undefined \notin Nat
    /\ TokenTtl \in Nat \ {0}
    /\ MaxTime \in Nat
    /\ MonotoneClock \in BOOLEAN

ErrorCodes ==
    {"RANGE_ERROR", "CONTINUATION_NOT_FOUND", "CONTINUATION_EXPIRED",
     "CONTINUATION_CANCELLED", "TOKEN_MISMATCH", "TOKEN_ALREADY_USED",
     "IDEMPOTENCY_CONFLICT", "INVALID_TRANSITION", "VERSION_CONFLICT"}

\* "none": not answered yet.  "failed": the answer never reached the client.
NoReply == [code |-> "none", envelope |-> Missing]
Reply == [code : ErrorCodes \cup {"none", "ok", "failed"}, envelope : Envelope \cup {Missing}]

PC == {"idle", "begin", "loaded", "expire", "reload", "settle", "append", "reresolve",
       "observe", "done"}

Init ==
    /\ StoreInit
    /\ clock = 0
    /\ pc = [c \in Calls |-> "idle"]
    /\ req = [c \in Calls |-> NoRequest]
    /\ env = [c \in Calls |-> Missing]
    /\ tokenHash = [c \in Calls |-> NoHash]
    /\ now = [c \in Calls |-> 0]
    /\ reply = [c \in Calls |-> NoReply]

-----------------------------------------------------------------------------
(* Steps of a call *)

Id(c) == req[c].continuationId

Goto(c, label) == pc' = [pc EXCEPT ![c] = label]

\* The method returns an envelope, or throws; its locals go out of scope.
Answer(c, code, envelope) ==
    /\ Goto(c, "done")
    /\ reply' = [reply EXCEPT ![c] = [code |-> code, envelope |-> envelope]]
    /\ env' = [env EXCEPT ![c] = Missing]
    /\ tokenHash' = [tokenHash EXCEPT ![c] = NoHash]

Return(c, envelope) == Answer(c, "ok", envelope)
Throw(c, code) == Answer(c, code, Missing)

\* The call goes on with envelope e.
Continue(c, label, e) ==
    /\ Goto(c, label)
    /\ env' = [env EXCEPT ![c] = e]
    /\ UNCHANGED <<tokenHash, reply>>

ReadClock(c) == now' = [now EXCEPT ![c] = clock]

\* The wall clock moves on; with MonotoneClock = FALSE it may also be set back.
Tick ==
    /\ \E t \in 0 .. MaxTime : t # clock /\ (MonotoneClock => t > clock) /\ clock' = t
    /\ UNCHANGED <<streams, pc, req, env, tokenHash, now, reply>>

\* Tokens that clients hold: those a create call returned.
DeliveredTokens == {c \in Calls : req[c].op = "create" /\ reply[c].code = "ok"}

\* A client calls a method of the service.
Invoke(c, r) ==
    /\ pc[c] = "idle"
    /\ r.op = "resume" => r.resumeToken \in DeliveredTokens \cup {ForgedToken}
    /\ Goto(c, "begin")
    /\ req' = [req EXCEPT ![c] = r]
    /\ UNCHANGED <<streams, clock, env, tokenHash, now, reply>>

\* The answer is lost: the process dies, or the store (or the token issuer)
\* throws something other than VersionConflictError, which every method rethrows.
\* After a committed append this is a lost answer, or an ambiguous COMMIT.
Fail(c) ==
    /\ pc[c] \notin {"idle", "done"}
    /\ Throw(c, "failed")
    /\ UNCHANGED <<streams, clock, req, now>>

\* loadRequired and loadResumeContext: load the stream and replay it.
Load(c) ==
    /\ pc[c] = "begin"
    /\ req[c].op # "create"
    /\ LET loaded == ReplayContinuation(streams[Id(c)]) IN
       IF loaded = Missing
         THEN Throw(c, "CONTINUATION_NOT_FOUND")
         ELSE /\ Goto(c, "loaded")
              /\ env' = [env EXCEPT ![c] = loaded]
              /\ tokenHash' = [tokenHash EXCEPT
                     ![c] = IF req[c].op = "resume"
                              THEN Head(streams[Id(c)]).resumeTokenHash ELSE NoHash]
              /\ UNCHANGED reply
    /\ UNCHANGED <<streams, clock, req, now>>

-----------------------------------------------------------------------------
(* expireIfDue, shared by inspect, resume and cancel *)

\* Mutant of Due: the boundary instant counts as not yet expired.
DueLate(e, t) == e.status = "pending" /\ t > e.expiresAt

\* Whether expireIfDue, entered with clock value t, appends an expiry.
Due(e, t) == e.status = "pending" /\ t >= e.expiresAt

\* The entry of expireIfDue: read the clock, then append or hand back the envelope.
EnterExpireIfDue(c) ==
    /\ ReadClock(c)
    /\ Continue(c, IF Due(env[c], clock) THEN "expire" ELSE "settle", env[c])

ExpiredEvent(c) ==
    [type |-> "expired", schemaVersion |-> CONTINUATION_SCHEMA_VERSION,
     continuationId |-> Id(c), version |-> env[c].version + 1, occurredAt |-> now[c]]

\* The expiry is committed; what the observer does is swallowed here too
\* (ObserveSafely, below).
ExpireCommits(c) ==
    /\ pc[c] = "expire"
    /\ AppendAccepted(Id(c), env[c].version, <<ExpiredEvent(c)>>)
    /\ Continue(c, "settle", ReduceContinuation(env[c], ExpiredEvent(c)))
    /\ UNCHANGED <<clock, req, now>>

\* Mutant of ExpireConflicts: a conflict is taken for somebody else's expiry.
ExpireConflictAssumed(c) ==
    /\ pc[c] = "expire"
    /\ AppendConflicts(Id(c), env[c].version)
    /\ Continue(c, "settle", ReduceContinuation(env[c], ExpiredEvent(c)))
    /\ UNCHANGED <<clock, req, now>>

\* Mutant of ExpireConflicts: the append is tried again with the stale version.
ExpireConflictRetried(c) ==
    /\ pc[c] = "expire"
    /\ AppendConflicts(Id(c), env[c].version)
    /\ Continue(c, "expire", env[c])
    /\ UNCHANGED <<clock, req, now>>

\* Somebody else ended the continuation first.
ExpireConflicts(c) ==
    /\ pc[c] = "expire"
    /\ AppendConflicts(Id(c), env[c].version)
    /\ Continue(c, "reload", env[c])
    /\ UNCHANGED <<clock, req, now>>

Reload(c) ==
    /\ pc[c] = "reload"
    /\ LET loaded == ReplayContinuation(streams[Id(c)]) IN
       IF loaded = Missing THEN Throw(c, "CONTINUATION_NOT_FOUND") ELSE Continue(c, "settle", loaded)
    /\ UNCHANGED <<streams, clock, req, now>>

-----------------------------------------------------------------------------
(* create *)

\* Mutant of CreateBegin: an expiry at the very instant of the creation is let pass.
CreateBeginAtExpiry(c) ==
    /\ pc[c] = "begin"
    /\ req[c].op = "create"
    /\ ReadClock(c)
    /\ IF req[c].expiresAt # Undefined /\ req[c].expiresAt < clock
         THEN Throw(c, "RANGE_ERROR")
         ELSE Continue(c, "append", Missing)
    /\ UNCHANGED <<streams, clock, req>>

CreateBegin(c) ==
    /\ pc[c] = "begin"
    /\ req[c].op = "create"
    /\ ReadClock(c)
    /\ IF req[c].expiresAt # Undefined /\ req[c].expiresAt <= clock
         THEN Throw(c, "RANGE_ERROR")
         ELSE Continue(c, "append", Missing)
    /\ UNCHANGED <<streams, clock, req>>

CreatedEvent(c) ==
    [type |-> "created", schemaVersion |-> CONTINUATION_SCHEMA_VERSION,
     continuationId |-> Id(c), version |-> 1, occurredAt |-> now[c],
     expiresAt |-> IF req[c].expiresAt = Undefined THEN now[c] + TokenTtl
                   ELSE req[c].expiresAt,
     resumeTokenHash |-> Hash(c)]

-----------------------------------------------------------------------------
(* inspect *)

InspectDecide(c) ==
    /\ pc[c] = "loaded"
    /\ req[c].op = "inspect"
    /\ EnterExpireIfDue(c)
    /\ UNCHANGED <<streams, clock, req>>

InspectSettle(c) ==
    /\ pc[c] = "settle"
    /\ req[c].op = "inspect"
    /\ Return(c, env[c])
    /\ UNCHANGED <<streams, clock, req, now>>

-----------------------------------------------------------------------------
(* resume *)

\* Mutant of ResolveCompletedResume: the idempotency key is not compared.
ResolveAnyKey(c, e) ==
    IF e.resumePayload # req[c].resumePayload THEN Throw(c, "IDEMPOTENCY_CONFLICT")
    ELSE Return(c, e)

\* Mutant of ResolveCompletedResume: a used token is refused, retry or not.
ResolveNoRetry(c, e) == Throw(c, "TOKEN_ALREADY_USED")

\* resolveCompletedResume on an envelope that is resumed.
ResolveCompletedResume(c, e) ==
    IF e.idempotencyKey # req[c].idempotencyKey THEN Throw(c, "TOKEN_ALREADY_USED")
    ELSE IF e.resumePayload # req[c].resumePayload THEN Throw(c, "IDEMPOTENCY_CONFLICT")
    ELSE Return(c, e)

\* Mutant of ResumeDecide: requireMatchingToken is left out.
ResumeDecideUntested(c) ==
    /\ pc[c] = "loaded"
    /\ req[c].op = "resume"
    /\ \/ env[c].status = "resumed" /\ ResolveCompletedResume(c, env[c]) /\ UNCHANGED now
       \/ env[c].status # "resumed" /\ EnterExpireIfDue(c)
    /\ UNCHANGED <<streams, clock, req>>

\* requireMatchingToken, resolveCompletedResume, and requireResumable as far as
\* the first clock reading.
ResumeDecide(c) ==
    /\ pc[c] = "loaded"
    /\ req[c].op = "resume"
    /\ \/ /\ tokenHash[c] # Hash(req[c].resumeToken)
          /\ Throw(c, "TOKEN_MISMATCH")
          /\ UNCHANGED now
       \/ /\ tokenHash[c] = Hash(req[c].resumeToken)
          /\ env[c].status = "resumed"
          /\ ResolveCompletedResume(c, env[c])
          /\ UNCHANGED now
       \/ /\ tokenHash[c] = Hash(req[c].resumeToken)
          /\ env[c].status # "resumed"
          /\ EnterExpireIfDue(c)
    /\ UNCHANGED <<streams, clock, req>>

\* requireResumable's answer, and the second clock reading, which stamps the event.
ResumeSettle(c) ==
    /\ pc[c] = "settle"
    /\ req[c].op = "resume"
    /\ \/ env[c].status = "pending" /\ ReadClock(c) /\ Continue(c, "append", env[c])
       \/ env[c].status = "expired" /\ Throw(c, "CONTINUATION_EXPIRED") /\ UNCHANGED now
       \/ env[c].status = "cancelled" /\ Throw(c, "CONTINUATION_CANCELLED") /\ UNCHANGED now
       \/ env[c].status = "resumed" /\ Throw(c, "TOKEN_ALREADY_USED") /\ UNCHANGED now
    /\ UNCHANGED <<streams, clock, req>>

ResumedEvent(c) ==
    [type |-> "resumed", schemaVersion |-> CONTINUATION_SCHEMA_VERSION,
     continuationId |-> Id(c), version |-> env[c].version + 1, occurredAt |-> now[c],
     idempotencyKey |-> req[c].idempotencyKey, resumePayload |-> req[c].resumePayload]

\* After a conflict: load again, test the token again, and return the first
\* outcome if it is this request's; otherwise rethrow the conflict.
ResumeReresolve(c) ==
    /\ pc[c] = "reresolve"
    /\ req[c].op = "resume"
    /\ LET current == ReplayContinuation(streams[Id(c)]) IN
       IF current = Missing THEN Throw(c, "CONTINUATION_NOT_FOUND")
       ELSE IF Head(streams[Id(c)]).resumeTokenHash # Hash(req[c].resumeToken)
         THEN Throw(c, "TOKEN_MISMATCH")
       ELSE IF current.status = "resumed" THEN ResolveCompletedResume(c, current)
       ELSE Throw(c, "VERSION_CONFLICT")
    /\ UNCHANGED <<streams, clock, req, now>>

-----------------------------------------------------------------------------
(* cancel *)

\* resolveCompletedCancellation: an exact retry returns the first cancellation.
ResolveCompletedCancellation(c, e) ==
    IF e.reason # req[c].reason THEN Throw(c, "INVALID_TRANSITION")
    ELSE IF req[c].expectedVersion # Undefined /\ e.version # req[c].expectedVersion + 1
      THEN Throw(c, "VERSION_CONFLICT")
    ELSE Return(c, e)

CancelDecide(c) ==
    /\ pc[c] = "loaded"
    /\ req[c].op = "cancel"
    /\ \/ /\ env[c].status = "cancelled"
          /\ ResolveCompletedCancellation(c, env[c])
          /\ UNCHANGED now
       \/ /\ env[c].status # "cancelled"
          /\ EnterExpireIfDue(c)
    /\ UNCHANGED <<streams, clock, req>>

\* The event will carry the clock value that expireIfDue was entered with.
CancelSettle(c) ==
    /\ pc[c] = "settle"
    /\ req[c].op = "cancel"
    /\ \/ env[c].status = "cancelled" /\ ResolveCompletedCancellation(c, env[c])
       \/ env[c].status = "expired" /\ Throw(c, "CONTINUATION_EXPIRED")
       \/ env[c].status = "resumed" /\ Throw(c, "INVALID_TRANSITION")
       \/ /\ env[c].status = "pending"
          /\ IF req[c].expectedVersion \notin {Undefined, env[c].version}
               THEN Throw(c, "VERSION_CONFLICT")
               ELSE Continue(c, "append", env[c])
    /\ UNCHANGED <<streams, clock, req, now>>

CancelledEvent(c) ==
    [type |-> "cancelled", schemaVersion |-> CONTINUATION_SCHEMA_VERSION,
     continuationId |-> Id(c), version |-> env[c].version + 1, occurredAt |-> now[c],
     reason |-> req[c].reason]

\* Mutant of CancelReresolve: every conflict is reported as an expiry.
CancelReresolveExpired(c) ==
    /\ pc[c] = "reresolve"
    /\ req[c].op = "cancel"
    /\ Throw(c, "CONTINUATION_EXPIRED")
    /\ UNCHANGED <<streams, clock, req, now>>

CancelReresolve(c) ==
    /\ pc[c] = "reresolve"
    /\ req[c].op = "cancel"
    /\ LET current == ReplayContinuation(streams[Id(c)]) IN
       IF current = Missing THEN Throw(c, "CONTINUATION_NOT_FOUND")
       ELSE IF current.status = "cancelled" THEN ResolveCompletedCancellation(c, current)
       ELSE IF current.status = "expired" THEN Throw(c, "CONTINUATION_EXPIRED")
       ELSE Throw(c, "VERSION_CONFLICT")
    /\ UNCHANGED <<streams, clock, req, now>>

-----------------------------------------------------------------------------
(* The append that create, resume and cancel end in *)

DecisionEvent(c) ==
    CASE req[c].op = "create" -> CreatedEvent(c)
      [] req[c].op = "resume" -> ResumedEvent(c)
      [] req[c].op = "cancel" -> CancelledEvent(c)

AppendCommits(c) ==
    /\ pc[c] = "append"
    /\ AppendAccepted(Id(c), env[c].version, <<DecisionEvent(c)>>)
    /\ Continue(c, "observe", ReduceContinuation(env[c], DecisionEvent(c)))
    /\ UNCHANGED <<clock, req, now>>

\* Mutant of AppendFails: the conflict is swallowed and the call reports success.
AppendFailureSwallowed(c) ==
    /\ pc[c] = "append"
    /\ AppendConflicts(Id(c), env[c].version)
    /\ Continue(c, "observe", ReduceContinuation(env[c], DecisionEvent(c)))
    /\ UNCHANGED <<clock, req, now>>

\* create lets the conflict through; resume and cancel look again.
AppendFails(c) ==
    /\ pc[c] = "append"
    /\ AppendConflicts(Id(c), env[c].version)
    /\ IF req[c].op = "create" THEN Throw(c, "VERSION_CONFLICT")
       ELSE Continue(c, "reresolve", env[c])
    /\ UNCHANGED <<clock, req, now>>

\* What the observer does with an event: it takes it, or throws; "VERSION_CONFLICT"
\* stands for an error that the methods would mistake for one of the store's.
ObserverOutcomes == {"taken", "failed", "VERSION_CONFLICT"}

\* Mutant of ObserveSafely: what the observer throws is let through.
ObserveUnsafely(outcome) == outcome

\* observeSafely: the catch clause swallows whatever the observer throws.
ObserveSafely(outcome) == "taken"

\* The committed decision has been observed and the method returns; only what
\* observeSafely threw could still keep it from that.
Observed(c) ==
    /\ pc[c] = "observe"
    /\ \E outcome \in ObserverOutcomes :
         IF ObserveSafely(outcome) = "taken" THEN Return(c, env[c])
         ELSE Throw(c, ObserveSafely(outcome))
    /\ UNCHANGED <<streams, clock, req, now>>

-----------------------------------------------------------------------------

Step(c) ==
    \/ Load(c)
    \/ ExpireCommits(c)
    \/ ExpireConflicts(c)
    \/ Reload(c)
    \/ CreateBegin(c)
    \/ InspectDecide(c)
    \/ InspectSettle(c)
    \/ ResumeDecide(c)
    \/ ResumeSettle(c)
    \/ ResumeReresolve(c)
    \/ CancelDecide(c)
    \/ CancelSettle(c)
    \/ CancelReresolve(c)
    \/ AppendCommits(c)
    \/ AppendFails(c)
    \/ Observed(c)

Next ==
    \/ Tick
    \/ \E c \in Calls, r \in Requests : Invoke(c, r)
    \/ \E c \in Calls : Fail(c)
    \/ \E c \in Calls : Step(c)

Spec == Init /\ [][Next]_vars

\* Every await of a running call settles in the end: the event loop runs each
\* ready continuation, and store, issuer and observer answer or throw.
FairSpec == Spec /\ \A c \in Calls : WF_vars(Step(c))

-----------------------------------------------------------------------------

\* Types of all variables: among them that no call ever holds the rejection of a
\* replay or of a reduction in place of an envelope.
TypeOK ==
    /\ StreamsType
    /\ clock \in 0 .. MaxTime
    /\ pc \in [Calls -> PC]
    /\ req \in [Calls -> Requests \cup {NoRequest}]
    /\ env \in [Calls -> Envelope \cup {Missing}]
    /\ tokenHash \in [Calls -> TokenHashes]
    /\ now \in [Calls -> Nat]
    /\ reply \in [Calls -> Reply]
=============================================================================
