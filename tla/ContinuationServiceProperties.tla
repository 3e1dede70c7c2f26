-------------------- MODULE ContinuationServiceProperties --------------------
(***************************************************************************)
(* What ContinuationService promises: to the streams, to the callers and   *)
(* to the clock.                                                           *)
(***************************************************************************)
EXTENDS ContinuationService

\* The recorded state of a continuation.
Recorded(id) == ReplayContinuation(streams[id])

\* Whatever the calls do to each other, every stream the service writes is one
\* that replayContinuation accepts: a creation and at most one ending, numbered
\* without a gap, so no later load of it throws.
HistoryReplays ==
    \A id \in Ids :
        \/ streams[id] = << >>
        \/ /\ Len(streams[id]) \in 1 .. 2
           /\ Recorded(id) \in Envelope
           /\ Recorded(id).version = Len(streams[id])

\* A successful answer is what the stream records: the envelope that a method
\* reduced locally, or loaded earlier, is the replay of the stream up to that
\* version, for good.
AnswersAreRecorded ==
    \A c \in Calls : reply[c].code = "ok" =>
        LET e == reply[c].envelope IN
        /\ e.version \in 1 .. Len(streams[Id(c)])
        /\ e = ReplayContinuation(SubSeq(streams[Id(c)], 1, e.version))

\* Exactly-once decision: all resumes of a continuation that succeed carry the
\* same key and payload and get the same answer, and none succeeds beside a
\* successful cancel.  A retry may succeed, a rival may not.
OneDecision ==
    \A c, d \in Calls :
        (/\ reply[c].code = "ok" /\ req[c].op = "resume"
         /\ reply[d].code = "ok" /\ req[d].op \in {"resume", "cancel"}
         /\ Id(c) = Id(d)) =>
            /\ req[d].op = "resume"
            /\ req[d].idempotencyKey = req[c].idempotencyKey
            /\ req[d].resumePayload = req[c].resumePayload
            /\ reply[d] = reply[c]

\* A create that answers owns the stream: the token it hands out is the one
\* whose digest is stored, so of two creates with one identifier one fails.
CreateIsExclusive ==
    \A c \in Calls : (reply[c].code = "ok" /\ req[c].op = "create") =>
        /\ streams[Id(c)] # << >>
        /\ Head(streams[Id(c)]).resumeTokenHash = Hash(c)

\* A continuation is resumed only by a request that held its token, and with
\* exactly that request's key and payload.
ResumeNeedsToken ==
    \A id \in Ids : Recorded(id).status = "resumed" =>
        \E c \in Calls :
            /\ req[c].op = "resume"
            /\ Id(c) = id
            /\ Hash(req[c].resumeToken) = Head(streams[id]).resumeTokenHash
            /\ req[c].idempotencyKey = Recorded(id).idempotencyKey
            /\ req[c].resumePayload = Recorded(id).resumePayload

\* Time of the endings: an expiry is stamped at or after expiresAt, a
\* cancellation strictly before it (one clock reading serves the test and the
\* stamp), and inspect never shows as pending what was due when it looked.
ExpiryIsRespected ==
    /\ \A id \in Ids :
        /\ Recorded(id).status = "expired" => Recorded(id).expiredAt >= Recorded(id).expiresAt
        /\ Recorded(id).status = "cancelled" => Recorded(id).cancelledAt < Recorded(id).expiresAt
    /\ \A c \in Calls :
        (reply[c].code = "ok" /\ req[c].op = "inspect" /\ reply[c].envelope.status = "pending")
            => now[c] < reply[c].envelope.expiresAt

\* Stream s bears out what call c was told by error code, t being the clock value
\* the call read last.  TOKEN_ALREADY_USED can meet an exact retry only if that
\* call found the continuation due.
BearsOut(s, c, code, t) ==
    LET r == ReplayContinuation(s) IN
    /\ code = "RANGE_ERROR" => req[c].op = "create" /\ req[c].expiresAt <= t
    /\ code = "VERSION_CONFLICT" =>
         \/ req[c].op = "create" /\ s # << >> /\ Head(s).resumeTokenHash # Hash(c)
         \/ req[c].op = "resume" /\ r.status \in {"cancelled", "expired"}
         \/ /\ req[c].op = "cancel"
            /\ r.status = "resumed" \/ req[c].expectedVersion \notin {Undefined, 1}
    /\ code = "TOKEN_MISMATCH" =>
         /\ req[c].op = "resume" /\ s # << >>
         /\ Head(s).resumeTokenHash # Hash(req[c].resumeToken)
    /\ code = "TOKEN_ALREADY_USED" =>
         /\ req[c].op = "resume" /\ r.status = "resumed"
         /\ r.idempotencyKey # req[c].idempotencyKey \/ t >= r.expiresAt
    /\ code = "IDEMPOTENCY_CONFLICT" =>
         /\ req[c].op = "resume" /\ r.status = "resumed"
         /\ r.idempotencyKey = req[c].idempotencyKey
         /\ r.resumePayload # req[c].resumePayload
    /\ code = "CONTINUATION_EXPIRED" => r.status = "expired"
    /\ code = "CONTINUATION_CANCELLED" => req[c].op = "resume" /\ r.status = "cancelled"
    /\ code = "INVALID_TRANSITION" =>
         /\ req[c].op = "cancel"
         /\ r.status = "resumed" \/ (r.status = "cancelled" /\ r.reason # req[c].reason)

\* Call c is a resume that carries the token of the continuation it is about.
HoldsToken(c) ==
    /\ req[c].op = "resume"
    /\ streams[Id(c)] # << >>
    /\ Head(streams[Id(c)]).resumeTokenHash = Hash(req[c].resumeToken)

\* A refusal names something the record bears out, for good: the error each
\* method throws after its races is true of the stream, however it went on since.
\* And who holds the token of a continuation is never told that there is none.
RefusalsAreJustified ==
    \A c \in Calls : pc[c] = "done" =>
        /\ BearsOut(streams[Id(c)], c, reply[c].code, now[c])
        /\ reply[c].code = "CONTINUATION_NOT_FOUND" => ~ HoldsToken(c)

\* The request asks for exactly the ending that is on record.
IsExactRetry(c) ==
    LET r == Recorded(Id(c)) IN
    \/ /\ req[c].op = "resume"
       /\ r.status = "resumed"
       /\ Hash(req[c].resumeToken) = Head(streams[Id(c)]).resumeTokenHash
       /\ r.idempotencyKey = req[c].idempotencyKey
       /\ r.resumePayload = req[c].resumePayload
    \/ /\ req[c].op = "cancel"
       /\ r.status = "cancelled"
       /\ r.reason = req[c].reason
       /\ req[c].expectedVersion \in {Undefined, 1}

\* An exact retry that has not loaded the stream yet when the ending is on
\* record returns that ending, however late it is and whatever became of the
\* first call's answer; only a fault can keep it from answering.
ExactRetryReturnsFirstOutcome ==
    \A c \in Calls :
        [](pc[c] = "begin" /\ IsExactRetry(c) => [](reply[c].code \in {"none", "failed", "ok"}))

\* README: "Exact retries use an independent idempotency key and return the
\* first outcome."  For every resume, those that overlap the first one included.
ExactRetryNeverRefused ==
    \A c \in Calls : (pc[c] = "done" /\ IsExactRetry(c) /\ req[c].op = "resume")
        => reply[c].code \in {"failed", "ok"}

\* Delivery contract R4: "Expired and cancelled continuations cannot resume".
ResumedBeforeExpiry ==
    \A id \in Ids :
        Recorded(id).status = "resumed" => Recorded(id).resumedAt < Recorded(id).expiresAt

\* Every call of the service is answered: whatever it loses to, and however often
\* the clock is stepped, it comes to an end.
CallsTerminate == \A c \in Calls : pc[c] = "begin" ~> pc[c] = "done"

\* The abstract life cycle, with the replays of the streams for the envelopes.
Life == INSTANCE Lifecycle WITH life <- [id \in Ids |-> Recorded(id)]

\* The streams implement the one-shot life cycle: what the calls commit is a
\* creation, then one resume, cancellation or expiry, and nothing else.
LifecycleSpec == Life!Spec
=============================================================================
