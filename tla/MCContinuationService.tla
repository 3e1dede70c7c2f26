----------------------- MODULE MCContinuationService ------------------------
(* Instances of ContinuationService for TLC. *)
EXTENDS ContinuationServiceProperties, TLC

CallSymmetry == Permutations(Calls)

MCTokenHashes == [sha256 : Calls \cup {ForgedToken}]

Creates(expiries) ==
    {[op |-> "create", continuationId |-> i, expiresAt |-> t] : i \in Ids, t \in expiries}
Inspects == {[op |-> "inspect", continuationId |-> i] : i \in Ids}
ResumesWith(tokens) ==
    {[op |-> "resume", continuationId |-> i, resumeToken |-> t, idempotencyKey |-> k,
      resumePayload |-> p] : i \in Ids, t \in tokens, k \in Keys, p \in Payloads}
Cancels(reasons, fences) ==
    {[op |-> "cancel", continuationId |-> i, reason |-> x, expectedVersion |-> v] :
        i \in Ids, x \in reasons, v \in fences}

\* Rival creates, one of them with an expiry that has passed; rival resumes and
\* retries, with a forged token among them, around an expiry.
ResumeRequests == Creates({Undefined, 0}) \cup ResumesWith(Tokens) \cup Inspects

\* Cancels with every kind of fence, and with another reason, against a resume.
CancelRequests ==
    Creates({Undefined}) \cup ResumesWith(Calls) \cup Inspects
        \cup Cancels({Undefined}, {Undefined, 1, 2}) \cup Cancels(Reasons, {Undefined})

\* One decision of each kind, and its exact retries; and a creation whose expiry is
\* the first instant itself.
RetryRequests == Creates({Undefined, 0}) \cup ResumesWith(Calls) \cup Cancels(Reasons, {1})
=============================================================================
