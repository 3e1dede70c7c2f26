------------------------------ MODULE A2aTask -------------------------------
(***************************************************************************)
(* The A2A adapter, src/adapters/a2a/task.ts: a pending continuation as an *)
(* interrupted task of the A2A server, and the messages that answer it.    *)
(* The functions are pure.                                                 *)
(***************************************************************************)
EXTENDS ContinuationPayload

\* requireBinding: binding is [contextId, taskId].
A2aBindingMatches(continuation, binding) ==
    binding.contextId = CorrelationId[continuation.continuationId]

A2aMessage(continuation, binding, data) ==
    [taskId |-> binding.taskId, contextId |-> binding.contextId, data |-> data,
     continuationId |-> continuation.continuationId]

ToA2AInterruptedTask(continuation, binding) ==
    LET kind == PayloadOf[continuation.continuationId].kind IN
    IF continuation.status # "pending" THEN Refused("INVALID_PROTOCOL_TRANSITION")
    ELSE IF kind = "malformed" THEN Refused("INVALID_PROTOCOL_MESSAGE")
    ELSE IF ~ A2aBindingMatches(continuation, binding) THEN Refused("INVALID_PROTOCOL_BINDING")
    ELSE Projected([id |-> binding.taskId, contextId |-> binding.contextId,
                    state |-> IF kind = "authorization" THEN "TASK_STATE_AUTH_REQUIRED"
                              ELSE "TASK_STATE_INPUT_REQUIRED",
                    continuationId |-> continuation.continuationId,
                    expiresAt |-> continuation.expiresAt])

\* Input goes back in a message; the credentials of an authorization never do.
ToA2AInputMessage(continuation, binding, response) ==
    LET kind == PayloadOf[continuation.continuationId].kind IN
    IF continuation.status # "pending" THEN Refused("INVALID_PROTOCOL_TRANSITION")
    ELSE IF kind = "malformed" THEN Refused("INVALID_PROTOCOL_MESSAGE")
    ELSE IF kind = "authorization" THEN Refused("INVALID_PROTOCOL_TRANSITION")
    ELSE IF ~ A2aBindingMatches(continuation, binding) THEN Refused("INVALID_PROTOCOL_BINDING")
    ELSE Projected(A2aMessage(continuation, binding, response))

\* An authorization is answered with a control action only.
ToA2AAuthorizationControlMessage(continuation, binding, action) ==
    IF continuation.status # "pending" THEN Refused("INVALID_PROTOCOL_TRANSITION")
    ELSE IF PayloadOf[continuation.continuationId].kind # "authorization"
      THEN Refused("INVALID_PROTOCOL_TRANSITION")
    ELSE IF action \notin {"reject", "retry"} THEN Refused("INVALID_PROTOCOL_MESSAGE")
    ELSE IF ~ A2aBindingMatches(continuation, binding) THEN Refused("INVALID_PROTOCOL_BINDING")
    ELSE Projected(A2aMessage(continuation, binding, action))
=============================================================================
