------------------------ MODULE ContinuationPayload -------------------------
(***************************************************************************)
(* What the protocol adapters (src/adapters/agui, mcp and a2a) read of a   *)
(* continuation beside its lifecycle.  The reducer copies correlationId    *)
(* and payload from the creation to every later envelope, so they are      *)
(* functions of the identifier.  Of a payload the adapters tell apart its  *)
(* kind and the response schema it declares; the message is copied to the  *)
(* protocol untouched and is left out.                                     *)
(***************************************************************************)
EXTENDS Continuation

CONSTANTS
    Threads,        \* correlation identifiers (AG-UI threads, A2A contexts)
    Schemas,        \* response schemas a payload can declare
    CorrelationId,  \* CorrelationId[i]: the correlation identifier of continuation i
    PayloadOf       \* PayloadOf[i]: the payload continuation i was created with

\* "malformed": the payload matches no ContinuationPayloadSchema (a payload
\* without kind is an "input").
Kinds == {"input", "authorization", "malformed"}

ASSUME PayloadAssumption ==
    /\ CorrelationId \in [Ids -> Threads]
    /\ PayloadOf \in [Ids -> [kind : Kinds, responseSchema : Schemas \cup {Undefined}]]

\* SHA-256 of the canonical JSON of a value: distinct values, distinct digests.
HashJson(value) == [sha256 |-> value]

\* A projection that succeeded, and one that threw a ProtocolAdapterError.
Projected(message) == [code |-> "ok", message |-> message]
Refused(code) == [code |-> code, message |-> Undefined]
=============================================================================
