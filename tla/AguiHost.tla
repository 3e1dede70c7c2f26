------------------------------ MODULE AguiHost ------------------------------
(***************************************************************************)
(* A host that runs AG-UI interrupts on the continuation service, as the   *)
(* repository's README and example describe it: it creates a cohort of     *)
(* continuations, issues one interrupt for them and keeps the receipt;     *)
(* every resume input a client sends is handled by inspecting the members  *)
(* one after the other, validating the batch and executing its commands in *)
(* order, up to the first that fails.                                      *)
(*                                                                         *)
(* Every step of the host is a step of the service or leaves the service   *)
(* alone.  Each service call of the host is named by who makes it, for     *)
(* what and about which continuation.                                      *)
(***************************************************************************)
EXTENDS ContinuationServiceProperties, AguiAdapter

CONSTANTS
    Attempts,       \* the resume inputs the host receives, redeliveries included
    Cohort,         \* the continuations of the interrupt, in order
    Binding,        \* the run the interrupt belongs to
    Deliveries,     \* the inputs that arrive, each with the receipt's condition
    OutsideRequests \* what others ask of the service directly

VARIABLES
    receipt,        \* the receipt the host stored
    delivery,       \* the delivery each attempt handles
    verdict,        \* what fromAguiRunAgentInput returned to it
    checkedAt       \* the clock reading it passed as now

hostVars == <<vars, receipt, delivery, verdict, checkedAt>>

CreateCall(i) == [actor |-> "host", does |-> "create", id |-> i]
OutsideCall(i) == [actor |-> "outside", does |-> "call", id |-> i]
InspectCall(a, i) == [actor |-> a, does |-> "inspect", id |-> i]
ExecuteCall(a, i) == [actor |-> a, does |-> "execute", id |-> i]

HostCalls ==
    {CreateCall(i) : i \in Ids} \cup {OutsideCall(i) : i \in Ids}
        \cup {InspectCall(a, i) : a \in Attempts, i \in Ids}
        \cup {ExecuteCall(a, i) : a \in Attempts, i \in Ids}

NoReceipt == [interrupts |-> << >>]
NoDelivery == [input |-> Unreadable, held |-> "none"]
NoVerdict == [code |-> "none", commands |-> << >>]

CreateOf(i) == [op |-> "create", continuationId |-> i, expiresAt |-> Undefined]
InspectOf(i) == [op |-> "inspect", continuationId |-> i]

\* The service request for a command; the host attaches the resume token.
RequestOf(command) ==
    IF command.action = "cancel"
      THEN [op |-> "cancel", continuationId |-> command.continuationId,
            reason |-> command.reason, expectedVersion |-> command.expectedVersion]
      ELSE [op |-> "resume", continuationId |-> command.continuationId,
            resumeToken |-> CreateCall(command.continuationId),
            idempotencyKey |-> command.idempotencyKey,
            resumePayload |-> command.resumePayload]

\* The commands a batch can hold about continuation i, which was issued at version 1.
CommandsAbout(i) ==
    {[action |-> "cancel", continuationId |-> i, expectedVersion |-> 1,
      reason |-> CANCEL_REASON]}
    \cup {[action |-> "resume", continuationId |-> i,
           idempotencyKey |-> ResumeIdempotencyKey(Binding.threadId, i, p),
           resumePayload |-> p] : p \in Payloads}

\* The requests the host can make.
HostRequests ==
    {CreateOf(i) : i \in Ids} \cup {InspectOf(i) : i \in Ids}
        \cup UNION {{RequestOf(command) : command \in CommandsAbout(i)} : i \in Ids}

\* The receipt is read back as it was stored, or damaged in one of two ways.
Conditions == {"intact", "reversed", "truncated"}

ASSUME HostAssumption ==
    /\ Calls = HostCalls
    /\ Cohort \in Seq(Ids) /\ Cohort # << >>
    /\ Binding \in AguiBinding \cup {Unreadable}
    /\ \A d \in Deliveries : d.held \in Conditions
    /\ HostRequests \cup OutsideRequests \subseteq Requests

\* Nobody else uses the keys and the reason that the adapter gives its commands.
ASSUME OutsideAssumption ==
    \A r \in OutsideRequests :
        /\ r.op = "resume" => \A i \in Ids, p \in Payloads :
             r.idempotencyKey # ResumeIdempotencyKey(Binding.threadId, i, p)
        /\ r.op = "cancel" => r.reason # CANCEL_REASON

Succeeded(c) == reply[c].code = "ok"

\* The receipt as the host reads it back: intact, or damaged by accident.
HeldReceipt(held) ==
    LET s == receipt.interrupts IN
    CASE held = "intact" -> receipt
      [] held = "reversed" ->
           [receipt EXCEPT !.interrupts = [k \in DOMAIN s |-> s[Len(s) + 1 - k]]]
      [] held = "truncated" -> [receipt EXCEPT !.interrupts = SubSeq(s, 1, Len(s) - 1)]

HostInit ==
    /\ Init
    /\ receipt = NoReceipt
    /\ delivery = [a \in Attempts |-> NoDelivery]
    /\ verdict = [a \in Attempts |-> NoVerdict]
    /\ checkedAt = [a \in Attempts |-> 0]

-----------------------------------------------------------------------------
(* Issuing the interrupt *)

CreateMember(k) ==
    /\ \A j \in 1 .. k - 1 : Succeeded(CreateCall(Cohort[j]))
    /\ Invoke(CreateCall(Cohort[k]), CreateOf(Cohort[k]))
    /\ UNCHANGED <<receipt, delivery, verdict, checkedAt>>

\* The interrupt is issued from the envelopes that create returned.
Issue ==
    /\ receipt = NoReceipt
    /\ \A k \in DOMAIN Cohort : Succeeded(CreateCall(Cohort[k]))
    /\ LET issuance == IssueAguiInterrupts(
               [k \in DOMAIN Cohort |-> reply[CreateCall(Cohort[k])].envelope], Binding)
       IN  issuance.code = "ok" /\ receipt' = issuance.message
    /\ UNCHANGED <<vars, delivery, verdict, checkedAt>>

-----------------------------------------------------------------------------
(* Handling one resume input *)

Receive(a, d) ==
    /\ receipt # NoReceipt
    /\ delivery[a] = NoDelivery
    /\ delivery' = [delivery EXCEPT ![a] = d]
    /\ UNCHANGED <<vars, receipt, verdict, checkedAt>>

Members(a) ==
    LET s == HeldReceipt(delivery[a].held).interrupts
    IN  [k \in DOMAIN s |-> s[k].continuationId]

\* The current cohort is read member by member: it is no snapshot.
InspectMember(a, k) ==
    /\ delivery[a] # NoDelivery
    /\ k \in DOMAIN Members(a)
    /\ \A j \in 1 .. k - 1 : Succeeded(InspectCall(a, Members(a)[j]))
    /\ Invoke(InspectCall(a, Members(a)[k]), InspectOf(Members(a)[k]))
    /\ UNCHANGED <<receipt, delivery, verdict, checkedAt>>

Validate(a) ==
    /\ delivery[a] # NoDelivery
    /\ verdict[a] = NoVerdict
    /\ \A k \in DOMAIN Members(a) : Succeeded(InspectCall(a, Members(a)[k]))
    /\ checkedAt' = [checkedAt EXCEPT ![a] = clock]
    /\ verdict' = [verdict EXCEPT ![a] =
           FromAguiRunAgentInput(
               delivery[a].input, HeldReceipt(delivery[a].held),
               [k \in DOMAIN Members(a) |-> reply[InspectCall(a, Members(a)[k])].envelope],
               clock)]
    /\ UNCHANGED <<vars, receipt, delivery>>

Execute(a, k) ==
    LET commands == verdict[a].commands IN
    /\ k \in DOMAIN commands
    /\ \A j \in 1 .. k - 1 : Succeeded(ExecuteCall(a, commands[j].continuationId))
    /\ Invoke(ExecuteCall(a, commands[k].continuationId), RequestOf(commands[k]))
    /\ UNCHANGED <<receipt, delivery, verdict, checkedAt>>

-----------------------------------------------------------------------------

\* Somebody else resumes or cancels a member directly.
Outside(r) ==
    /\ receipt # NoReceipt
    /\ Invoke(OutsideCall(r.continuationId), r)
    /\ UNCHANGED <<receipt, delivery, verdict, checkedAt>>

ServiceStep ==
    /\ Tick \/ \E c \in Calls : Step(c) \/ Fail(c)
    /\ UNCHANGED <<receipt, delivery, verdict, checkedAt>>

HostNext ==
    \/ \E k \in DOMAIN Cohort : CreateMember(k)
    \/ Issue
    \/ \E a \in Attempts, d \in Deliveries : Receive(a, d)
    \/ \E a \in Attempts, k \in DOMAIN Cohort : InspectMember(a, k)
    \/ \E a \in Attempts : Validate(a)
    \/ \E a \in Attempts, k \in DOMAIN Cohort : Execute(a, k)
    \/ \E r \in OutsideRequests : Outside(r)
    \/ ServiceStep

HostSpec == HostInit /\ [][HostNext]_hostVars

-----------------------------------------------------------------------------

AguiErrors ==
    {"INVALID_INPUT", "RESUME_REQUIRED", "THREAD_MISMATCH", "DUPLICATE_INTERRUPT",
     "RESUME_SET_MISMATCH", "RESUME_EXPIRED", "INVALID_ENTRY", "INVALID_PAYLOAD",
     "REPLAY_CONFLICT"}

\* Types of the host's variables; of its commands, that each is a request the
\* service can be asked and that an accepted batch has one for every member.
HostTypeOK ==
    /\ receipt = NoReceipt \/ receipt.interrupts \in Seq(ReceiptInterrupt)
    /\ delivery \in [Attempts -> Deliveries \cup {NoDelivery}]
    /\ checkedAt \in [Attempts -> 0 .. MaxTime]
    /\ \A a \in Attempts :
         \/ verdict[a] = NoVerdict
         \/ verdict[a].code \in AguiErrors /\ verdict[a].commands = << >>
         \/ /\ verdict[a].code = "ok"
            /\ Len(verdict[a].commands) = Len(Cohort)
            /\ \A k \in DOMAIN Cohort : RequestOf(verdict[a].commands[k]) \in Requests

\* The recorded ending of a continuation is the one this command asks for.
Fulfils(command, e) ==
    \/ /\ command.action = "resume" /\ e.status = "resumed"
       /\ e.idempotencyKey = command.idempotencyKey
       /\ e.resumePayload = command.resumePayload
    \/ command.action = "cancel" /\ e.status = "cancelled" /\ e.reason = command.reason

\* The member was ended by a command of the adapter, not from outside.
DecidedByBatch(i) ==
    \/ /\ Recorded(i).status = "resumed"
       /\ \E p \in Payloads :
            Recorded(i).idempotencyKey = ResumeIdempotencyKey(Binding.threadId, i, p)
    \/ Recorded(i).status = "cancelled" /\ Recorded(i).reason = CANCEL_REASON

\* fromAguiRunAgentInput promises a batch that is applied all or nothing; the
\* service has no batches.  Whatever batches race, are redelivered or stop
\* half-way, all members ended through AG-UI were ended as one single validated
\* batch asked: two rival batches are never mixed.
OneBatchDecides ==
    (\E i \in Ids : DecidedByBatch(i)) =>
        \E a \in Attempts :
            /\ verdict[a].code = "ok"
            /\ \A i \in Ids : DecidedByBatch(i) =>
                 \E k \in DOMAIN verdict[a].commands :
                     /\ verdict[a].commands[k].continuationId = i
                     /\ Fulfils(verdict[a].commands[k], Recorded(i))

\* A batch nothing is wrong with: right thread, one valid entry per member.
IsProper(d) ==
    /\ d.held = "intact"
    /\ IsRunAgentInput(d.input)
    /\ d.input.threadId = Binding.threadId
    /\ d.input.resume # Undefined
    /\ Len(d.input.resume) = Len(Cohort)
    /\ \A k \in DOMAIN Cohort : \E j \in DOMAIN d.input.resume :
         LET entry == d.input.resume[j] IN
         /\ entry.interruptId = Cohort[k]
         /\ \/ entry.status = "cancelled" /\ entry.payload = Undefined
            \/ /\ entry.status = "resolved"
               /\ PayloadOf[Cohort[k]].kind = "input"
               /\ entry.payload \in Payloads
               /\ \/ PayloadOf[Cohort[k]].responseSchema = Undefined
                  \/ <<Cohort[k], entry.payload>> \in Validates

\* What the entry of a delivery about member i asks for is not what happened, or
\* the member was due when the attempt, or its command, looked at the clock: the
\* attempt having seen it pending, the command having got as far as its clock reading,
\* which the replay of an ending that it asks for does not.
Thwarted(a, i) ==
    LET s == delivery[a].input.resume
        issued == CHOOSE r \in {receipt.interrupts[k] : k \in DOMAIN receipt.interrupts} :
                      r.continuationId = i
        entry == CHOOSE e \in {s[j] : j \in DOMAIN s} : e.interruptId = i
    IN  \/ /\ checkedAt[a] >= issued.expiresAt
           /\ reply[InspectCall(a, i)].envelope.status = "pending"
        \/ now[ExecuteCall(a, i)] >= issued.expiresAt
        \/ /\ Recorded(i).status \in TerminalStatus
           /\ ~ Fulfils(ResumeCommand(Binding.threadId, issued, entry), Recorded(i))

\* Redelivery is safe: a proper batch is turned away, by the validation or by a
\* command, only if some member really ended in another way or was due.  A batch
\* that was applied in part can be sent again while its other members are not due, one
\* that was applied wholly can be sent again at any time, after the expiry too.
BatchRefusalsAreJustified ==
    \A a \in Attempts :
        (/\ IsProper(delivery[a])
         /\ \/ verdict[a].code \notin {"none", "ok"}
            \/ \E i \in Ids :
                 reply[ExecuteCall(a, i)].code \notin {"none", "ok", "failed"})
        => \E k \in DOMAIN Cohort : Thwarted(a, Cohort[k])
=============================================================================
