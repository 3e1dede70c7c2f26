---------------------------- MODULE AguiAdapter -----------------------------
(***************************************************************************)
(* The AG-UI adapter, src/adapters/agui/interrupt.ts: a cohort of pending  *)
(* continuations becomes one interrupt with a host-side receipt, and a     *)
(* resume batch becomes service commands, all of them or none.             *)
(*                                                                         *)
(* The functions are pure.  The shape tests of the protocol schemas are    *)
(* one test: an input, binding or receipt that fails them is Unreadable,   *)
(* as is one that the preflight (module InputPreflight) turns away.        *)
(***************************************************************************)
EXTENDS ContinuationPayload

CONSTANTS
    Runs,           \* run identifiers
    Unreadable,     \* what no protocol schema accepts, and a payload that is no JSON
    Validates       \* the <<id, payload>> pairs the host's validatePayload accepts

AguiBinding == [threadId : Threads, runId : Runs]

ReceiptInterrupt ==
    [continuationId : Ids, expiresAt : Nat, issuedVersion : Nat,
     payloadHash : {HashJson(PayloadOf[i]) : i \in Ids}]

\* What the receipt's schema accepts; its digest is tested by ValidateReceipt.
AguiReceipt ==
    [threadId : Threads, runId : Runs, interrupts : Seq(ReceiptInterrupt),
     cohortId : [sha256 : Threads \X Runs \X Seq(ReceiptInterrupt)]]

ASSUME UnreadableAssumption == Unreadable \notin AguiReceipt

ResumeEntry ==
    [interruptId : Ids, status : {"resolved", "cancelled"},
     payload : Payloads \cup {Undefined, Unreadable}]

\* resume is a sequence of entries, or Undefined.
IsRunAgentInput(input) ==
    /\ input # Unreadable
    /\ input.threadId \in Threads
    /\ input.resume # Undefined => input.resume \in Seq(ResumeEntry)

CANCEL_REASON == "agui:cancelled"

\* The digest of threadId, interruptId and payload that makes a redelivery a retry.
ResumeIdempotencyKey(threadId, interruptId, payload) ==
    [agui |-> <<threadId, interruptId, payload>>]

\* Mutant of CohortId: the members are hashed as a set.
UnorderedCohortId(threadId, runId, interrupts) ==
    HashJson(<<threadId, runId, {interrupts[k] : k \in DOMAIN interrupts}>>)

CohortId(threadId, runId, interrupts) == HashJson(<<threadId, runId, interrupts>>)

HasDuplicates(s) == \E j, k \in DOMAIN s : j # k /\ s[j] = s[k]

-----------------------------------------------------------------------------
(* Issuing *)

\* The error that stops the projection of member k of the cohort.
MemberRefusal(continuations, binding, k) ==
    LET c == continuations[k] IN
    IF c.status # "pending" THEN "INVALID_PROTOCOL_TRANSITION"
    ELSE IF CorrelationId[c.continuationId] # binding.threadId THEN "INVALID_PROTOCOL_BINDING"
    ELSE IF \E j \in 1 .. k - 1 : continuations[j].continuationId = c.continuationId
      THEN "INVALID_PROTOCOL_BINDING"
    ELSE IF PayloadOf[c.continuationId].kind = "malformed" THEN "INVALID_PROTOCOL_MESSAGE"
    ELSE "ok"

Interrupts(continuations) ==
    [k \in DOMAIN continuations |->
        [continuationId |-> continuations[k].continuationId,
         expiresAt |-> continuations[k].expiresAt,
         issuedVersion |-> continuations[k].version,
         payloadHash |-> HashJson(PayloadOf[continuations[k].continuationId])]]

\* issueAguiInterrupts; the first member that fails decides the error.
IssueAguiInterrupts(continuations, binding) ==
    LET refusal == [k \in DOMAIN continuations |-> MemberRefusal(continuations, binding, k)]
        failing == {k \in DOMAIN continuations : refusal[k] # "ok"}
        first == CHOOSE k \in failing : \A j \in failing : k <= j
        interrupts == Interrupts(continuations)
    IN  IF binding = Unreadable \/ continuations = << >> THEN Refused("INVALID_PROTOCOL_BINDING")
        ELSE IF failing # {} THEN Refused(refusal[first])
        ELSE Projected([threadId |-> binding.threadId, runId |-> binding.runId,
                        interrupts |-> interrupts,
                        cohortId |-> CohortId(binding.threadId, binding.runId, interrupts)])

\* toAguiResumeEntry: the client's decision about one interrupt.
ToAguiResumeEntry(interruptId, status, payload) ==
    IF status = "cancelled"
      THEN Projected([interruptId |-> interruptId, status |-> status, payload |-> Undefined])
    ELSE IF payload \notin Payloads THEN Refused("INVALID_PROTOCOL_MESSAGE")
    ELSE Projected([interruptId |-> interruptId, status |-> status, payload |-> payload])

-----------------------------------------------------------------------------
(* Validating a resume batch.  Every test returns "ok" or an error code. *)

ValidateReceipt(receipt) ==
    IF \/ receipt = Unreadable
       \/ receipt.cohortId # CohortId(receipt.threadId, receipt.runId, receipt.interrupts)
       \/ HasDuplicates([k \in DOMAIN receipt.interrupts |->
                            receipt.interrupts[k].continuationId])
    THEN "INVALID_INPUT" ELSE "ok"

\* Mutant of VersionNow: an ending does not advance the version.
VersionAsIssued(issued, continuation) == issued.issuedVersion

\* The version a current envelope must have: a continuation ends in one event.
VersionNow(issued, continuation) ==
    IF continuation.status = "pending" THEN issued.issuedVersion ELSE issued.issuedVersion + 1

\* The current envelopes are the cohort of the receipt, each in a state that the
\* issued one can have reached.
ValidateCurrentCohort(receipt, current) ==
    LET byId(i) == CHOOSE c \in {current[k] : k \in DOMAIN current} : c.continuationId = i
        ids == {current[k].continuationId : k \in DOMAIN current}
        matches(issued) ==
            LET c == byId(issued.continuationId) IN
            /\ CorrelationId[c.continuationId] = receipt.threadId
            /\ c.expiresAt = issued.expiresAt
            /\ c.version = VersionNow(issued, c)
            /\ HashJson(PayloadOf[c.continuationId]) = issued.payloadHash
        omitted == {k \in DOMAIN receipt.interrupts :
                       receipt.interrupts[k].continuationId \notin ids}
        altered == {k \in DOMAIN receipt.interrupts \ omitted : ~ matches(receipt.interrupts[k])}
    IN  IF \/ HasDuplicates([k \in DOMAIN current |-> current[k].continuationId])
           \/ Len(current) # Len(receipt.interrupts)
          THEN "RESUME_SET_MISMATCH"
        ELSE IF \E k \in altered : \A j \in omitted : k < j THEN "REPLAY_CONFLICT"
        ELSE IF omitted # {} THEN "RESUME_SET_MISMATCH"
        ELSE "ok"

\* The batch addresses every issued interrupt exactly once.
ValidateEntries(receipt, entries) ==
    IF HasDuplicates([k \in DOMAIN entries |-> entries[k].interruptId])
      THEN "DUPLICATE_INTERRUPT"
    ELSE IF {entries[k].interruptId : k \in DOMAIN entries}
              # {receipt.interrupts[k].continuationId : k \in DOMAIN receipt.interrupts}
      THEN "RESUME_SET_MISMATCH"
    ELSE "ok"

\* A cancelled entry against the current state of its continuation.
ValidateCancelled(continuation, entry, now) ==
    IF entry.payload # Undefined THEN "INVALID_ENTRY"
    ELSE IF \/ continuation.status = "resumed"
            \/ continuation.status = "cancelled" /\ continuation.reason # CANCEL_REASON
      THEN "REPLAY_CONFLICT"
    ELSE IF \/ continuation.status = "expired"
            \/ continuation.status = "pending" /\ now >= continuation.expiresAt
      THEN "RESUME_EXPIRED"
    ELSE "ok"

\* The host's validator may accept, reject, throw, change its copy of the payload
\* or be missing: Validates is what it accepts.
PayloadPassesPolicy(i, payload) == <<i, payload>> \in Validates

\* A resolved entry.  The replay of a recorded outcome meets neither the expiry
\* nor the response schema again.
ValidateResolved(threadId, continuation, entry, now) ==
    LET i == continuation.continuationId IN
    IF entry.payload \notin Payloads THEN "INVALID_PAYLOAD"
    ELSE IF PayloadOf[i].kind = "authorization" THEN "INVALID_ENTRY"
    ELSE IF continuation.status = "resumed"
      THEN IF /\ continuation.idempotencyKey = ResumeIdempotencyKey(threadId, i, entry.payload)
              /\ continuation.resumePayload = entry.payload
           THEN "ok" ELSE "REPLAY_CONFLICT"
    ELSE IF continuation.status = "cancelled" THEN "REPLAY_CONFLICT"
    ELSE IF continuation.status = "expired" \/ now >= continuation.expiresAt THEN "RESUME_EXPIRED"
    ELSE IF PayloadOf[i].responseSchema # Undefined /\ ~ PayloadPassesPolicy(i, entry.payload)
      THEN "INVALID_PAYLOAD"
    ELSE "ok"

ValidateMember(threadId, continuation, entry, now) ==
    IF PayloadOf[continuation.continuationId].kind = "malformed" THEN "INVALID_INPUT"
    ELSE IF entry.status = "cancelled" THEN ValidateCancelled(continuation, entry, now)
    ELSE ValidateResolved(threadId, continuation, entry, now)

\* Mutant of ResumeCommand: the fence of a cancel is the version after it.
ResumeCommandLate(threadId, issued, entry) ==
    IF entry.status = "cancelled"
      THEN [action |-> "cancel", continuationId |-> issued.continuationId,
            expectedVersion |-> issued.issuedVersion + 1, reason |-> CANCEL_REASON]
      ELSE [action |-> "resume", continuationId |-> issued.continuationId,
            idempotencyKey |->
                ResumeIdempotencyKey(threadId, issued.continuationId, entry.payload),
            resumePayload |-> entry.payload]

ResumeCommand(threadId, issued, entry) ==
    IF entry.status = "cancelled"
      THEN [action |-> "cancel", continuationId |-> issued.continuationId,
            expectedVersion |-> issued.issuedVersion, reason |-> CANCEL_REASON]
      ELSE [action |-> "resume", continuationId |-> issued.continuationId,
            idempotencyKey |->
                ResumeIdempotencyKey(threadId, issued.continuationId, entry.payload),
            resumePayload |-> entry.payload]

RunError(code) == [code |-> code, commands |-> << >>]

\* One command per issued interrupt, in the receipt's order, unless a member fails.
Commands(receipt, entries, current, now) ==
    LET members == receipt.interrupts
        entry(k) == CHOOSE e \in {entries[j] : j \in DOMAIN entries} :
                        e.interruptId = members[k].continuationId
        continuation(k) == CHOOSE c \in {current[j] : j \in DOMAIN current} :
                               c.continuationId = members[k].continuationId
        verdicts == [k \in DOMAIN members |->
            ValidateMember(receipt.threadId, continuation(k), entry(k), now)]
        failing == {k \in DOMAIN members : verdicts[k] # "ok"}
        first == CHOOSE k \in failing : \A j \in failing : k <= j
    IN  IF failing # {} THEN RunError(verdicts[first])
        ELSE [code |-> "ok", commands |->
                [k \in DOMAIN members |-> ResumeCommand(receipt.threadId, members[k], entry(k))]]

FromAguiRunAgentInput(input, receipt, current, now) ==
    IF ~ IsRunAgentInput(input) THEN RunError("INVALID_INPUT")
    ELSE IF ValidateReceipt(receipt) # "ok" THEN RunError(ValidateReceipt(receipt))
    ELSE IF ValidateCurrentCohort(receipt, current) # "ok"
      THEN RunError(ValidateCurrentCohort(receipt, current))
    ELSE IF input.threadId # receipt.threadId THEN RunError("THREAD_MISMATCH")
    ELSE IF input.resume = Undefined THEN RunError("RESUME_REQUIRED")
    ELSE IF ValidateEntries(receipt, input.resume) # "ok"
      THEN RunError(ValidateEntries(receipt, input.resume))
    ELSE Commands(receipt, input.resume, current, now)
=============================================================================
