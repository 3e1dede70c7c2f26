---------------------------- MODULE Continuation ----------------------------
(***************************************************************************)
(* The domain layer of pausemesh (src/domain): the four lifecycle events,  *)
(* the envelope they fold into, the pure reducer and the replay of a       *)
(* stream.                                                                 *)
(*                                                                         *)
(* Time stamps are natural numbers.  The fields that every operation       *)
(* passes through untouched (correlationId, payload and metadata of the    *)
(* request) are left out: no decision reads them.                          *)
(***************************************************************************)
EXTENDS Naturals, Sequences

CONSTANTS
    Ids,            \* continuation identifiers
    Hashes,         \* digests of resume tokens
    Keys,           \* idempotency keys of resume requests
    Payloads,       \* resume payloads, up to canonical JSON
    Reasons,        \* cancellation reasons
    Undefined       \* JavaScript's undefined, for an optional field

CONTINUATION_SCHEMA_VERSION == 1

TerminalStatus == {"resumed", "cancelled", "expired"}

-----------------------------------------------------------------------------
(* Events *)

ContinuationCreated ==
    [type : {"created"}, schemaVersion : Nat, continuationId : Ids, version : Nat,
     occurredAt : Nat, expiresAt : Nat, resumeTokenHash : Hashes]

ContinuationResumed ==
    [type : {"resumed"}, schemaVersion : Nat, continuationId : Ids, version : Nat,
     occurredAt : Nat, idempotencyKey : Keys, resumePayload : Payloads]

ContinuationCancelled ==
    [type : {"cancelled"}, schemaVersion : Nat, continuationId : Ids, version : Nat,
     occurredAt : Nat, reason : Reasons \cup {Undefined}]

ContinuationExpired ==
    [type : {"expired"}, schemaVersion : Nat, continuationId : Ids, version : Nat,
     occurredAt : Nat]

ContinuationEvent ==
    ContinuationCreated \cup ContinuationResumed \cup ContinuationCancelled
        \cup ContinuationExpired

-----------------------------------------------------------------------------
(* Envelopes.  Only a pending envelope holds the token's digest. *)

PendingEnvelope ==
    [status : {"pending"}, continuationId : Ids, version : Nat, createdAt : Nat,
     expiresAt : Nat, resumeTokenHash : Hashes]

ResumedEnvelope ==
    [status : {"resumed"}, continuationId : Ids, version : Nat, createdAt : Nat,
     expiresAt : Nat, resumedAt : Nat, idempotencyKey : Keys, resumePayload : Payloads]

CancelledEnvelope ==
    [status : {"cancelled"}, continuationId : Ids, version : Nat, createdAt : Nat,
     expiresAt : Nat, cancelledAt : Nat, reason : Reasons \cup {Undefined}]

ExpiredEnvelope ==
    [status : {"expired"}, continuationId : Ids, version : Nat, createdAt : Nat,
     expiresAt : Nat, expiredAt : Nat]

Envelope == PendingEnvelope \cup ResumedEnvelope \cup CancelledEnvelope \cup ExpiredEnvelope

\* The absent state a stream starts from, and the state of a fold that threw.
Missing == [status |-> "missing", version |-> 0]
Rejected(code) == [status |-> "rejected", code |-> code]

-----------------------------------------------------------------------------
(* The reducer *)

\* The error the reducer throws, in the order in which it makes its tests.
Rejection(state, event) ==
    IF event.schemaVersion # CONTINUATION_SCHEMA_VERSION
      THEN "UNSUPPORTED_SCHEMA_VERSION"
    ELSE IF state # Missing /\ state.continuationId # event.continuationId
      THEN "CONTINUATION_ID_MISMATCH"
    ELSE IF event.version # state.version + 1
      THEN "VERSION_CONFLICT"
    ELSE IF state = Missing
      THEN IF event.type = "created" THEN "none" ELSE "INVALID_TRANSITION"
    ELSE IF event.type = "created" \/ state.status # "pending"
      THEN "INVALID_TRANSITION"
    ELSE "none"

\* The envelope an accepted event produces.
CreatedEnvelope(event) ==
    [status |-> "pending", continuationId |-> event.continuationId,
     version |-> event.version, createdAt |-> event.occurredAt,
     expiresAt |-> event.expiresAt, resumeTokenHash |-> event.resumeTokenHash]

TerminalEnvelope(state, event) ==
    CASE event.type = "resumed" ->
           [status |-> "resumed", continuationId |-> state.continuationId,
            version |-> event.version, createdAt |-> state.createdAt,
            expiresAt |-> state.expiresAt, resumedAt |-> event.occurredAt,
            idempotencyKey |-> event.idempotencyKey,
            resumePayload |-> event.resumePayload]
      [] event.type = "cancelled" ->
           [status |-> "cancelled", continuationId |-> state.continuationId,
            version |-> event.version, createdAt |-> state.createdAt,
            expiresAt |-> state.expiresAt, cancelledAt |-> event.occurredAt,
            reason |-> event.reason]
      [] event.type = "expired" ->
           [status |-> "expired", continuationId |-> state.continuationId,
            version |-> event.version, createdAt |-> state.createdAt,
            expiresAt |-> state.expiresAt, expiredAt |-> event.occurredAt]

ReduceContinuation(state, event) ==
    IF Rejection(state, event) # "none"
      THEN Rejected(Rejection(state, event))
    ELSE IF state = Missing
      THEN CreatedEnvelope(event)
    ELSE TerminalEnvelope(state, event)

\* The left fold of the reducer over a stream; the first error ends it.
ReplayContinuation(events) ==
    LET fold[i \in 0 .. Len(events)] ==
          IF i = 0 THEN Missing
          ELSE IF fold[i - 1].status = "rejected" THEN fold[i - 1]
          ELSE ReduceContinuation(fold[i - 1], events[i])
    IN  fold[Len(events)]

-----------------------------------------------------------------------------
(* The persistence contract of the stores *)

\* What serializeAppendBatch accepts: events of this stream, numbered on from
\* expectedVersion, of the one supported schema version.
SerializesAppendBatch(id, expectedVersion, events) ==
    \A i \in 1 .. Len(events) :
        /\ events[i].continuationId = id
        /\ events[i].version = expectedVersion + i
        /\ events[i].schemaVersion = CONTINUATION_SCHEMA_VERSION
=============================================================================
