--------------------------- MODULE AguiHostProofs ---------------------------
(***************************************************************************)
(* The AG-UI host for any number of attempts, members and deliveries.      *)
(*                                                                         *)
(* The argument: a receipt that passes validation is the one that was      *)
(* issued, whatever happened to it meanwhile, because its digest covers    *)
(* the members in their order.  So all batches hold commands about the     *)
(* same members in the same order (VerdictOf), and a command is executed   *)
(* only after those before it succeeded (AskedOf).  Of the members         *)
(* decided by batches take the last: the batch that decided it found every *)
(* earlier member as it wanted it.                                         *)
(***************************************************************************)
EXTENDS AguiHost, ContinuationServiceProofs, WellFoundedInduction, FiniteSetTheorems

-----------------------------------------------------------------------------
(* The inductive invariant of the host *)

\* What was issued about member k, and what it says of the member's stream.
IssuedOf(k) ==
    LET issued == receipt.interrupts[k]
        s == streams[Cohort[k]]
    IN  /\ issued.continuationId = Cohort[k]
        /\ issued.issuedVersion = 1
        /\ issued.payloadHash = HashJson(PayloadOf[Cohort[k]])
        /\ PayloadOf[Cohort[k]].kind # "malformed"
        /\ CorrelationId[Cohort[k]] = Binding.threadId
        /\ Len(s) >= 1
        /\ issued.expiresAt = s[1].expiresAt
        /\ s[1].resumeTokenHash = Hash(CreateCall(Cohort[k]))

\* No continuation is a member twice.
CohortIsDistinct == \A j, k \in DOMAIN Cohort : Cohort[j] = Cohort[k] => j = k

ReceiptOf ==
    receipt # NoReceipt =>
        /\ receipt = [threadId |-> Binding.threadId, runId |-> Binding.runId,
                      interrupts |-> receipt.interrupts,
                      cohortId |-> CohortId(Binding.threadId, Binding.runId, receipt.interrupts)]
        /\ Binding \in AguiBinding
        /\ receipt.interrupts \in Seq(ReceiptInterrupt)
        /\ Len(receipt.interrupts) = Len(Cohort)
        /\ \A k \in DOMAIN Cohort : IssuedOf(k)
        /\ CohortIsDistinct

\* The entry of attempt a about continuation i, and the command it becomes.
EntryOf(a, i) ==
    LET s == delivery[a].input.resume
    IN  CHOOSE e \in {s[j] : j \in DOMAIN s} : e.interruptId = i
CommandOf(a, k) ==
    ResumeCommand(Binding.threadId, receipt.interrupts[k], EntryOf(a, Cohort[k]))

\* Member k had ended otherwise than the entry asks, or was due, when a looked.
Contradicted(a, k) ==
    \/ /\ checkedAt[a] >= receipt.interrupts[k].expiresAt
       /\ reply[InspectCall(a, Cohort[k])].envelope.status = "pending"
    \/ /\ Recorded(Cohort[k]).status \in TerminalStatus
       /\ ~ Fulfils(CommandOf(a, k), Recorded(Cohort[k]))

VerdictOf(a) ==
    \/ verdict[a] = NoVerdict
    \/ /\ verdict[a].code \in AguiErrors
       /\ verdict[a].commands = << >>
       /\ IsProper(delivery[a]) => \E k \in DOMAIN Cohort : Contradicted(a, k)
    \/ /\ verdict[a].code = "ok"
       /\ verdict[a].commands = [k \in DOMAIN Cohort |-> CommandOf(a, k)]
       /\ \A k \in DOMAIN Cohort : CommandOf(a, k) \in CommandsAbout(Cohort[k])

\* What attempt a went through so far.
AttemptOf(a) ==
    /\ delivery[a] # NoDelivery => receipt # NoReceipt
    /\ verdict[a] # NoVerdict => delivery[a] # NoDelivery
    /\ VerdictOf(a)

\* Attempt a executes the command about i only after all commands before it.
Executes(a, i) ==
    \E k \in DOMAIN Cohort :
        /\ Cohort[k] = i
        /\ verdict[a].code = "ok"
        /\ req[ExecuteCall(a, i)] = RequestOf(CommandOf(a, k))
        /\ \A j \in 1 .. k - 1 : Succeeded(ExecuteCall(a, Cohort[j]))

\* What call c, by its name, was asked.
AskedOf(c) ==
    \A i \in Ids :
        /\ c = CreateCall(i) => req[c] = CreateOf(i)
        /\ c = OutsideCall(i) => req[c] \in OutsideRequests /\ req[c].continuationId = i
        /\ \A a \in Attempts :
             /\ c = InspectCall(a, i) => req[c] = InspectOf(i)
             /\ c = ExecuteCall(a, i) =>
                   Executes(a, i) /\ reply[c].code # "CONTINUATION_NOT_FOUND"

HostInv ==
    /\ delivery \in [Attempts -> Deliveries \cup {NoDelivery}]
    /\ checkedAt \in [Attempts -> 0 .. MaxTime]
    /\ DOMAIN verdict = Attempts
    /\ ReceiptOf
    /\ \A a \in Attempts : AttemptOf(a)
    /\ \A c \in Calls : pc[c] # "idle" => AskedOf(c)

-----------------------------------------------------------------------------
(* Preliminaries *)

\* A non-empty set of natural numbers has a least element.
LEMMA Least ==
    ASSUME NEW T, T \subseteq Nat, T # {}
    PROVE  \E x \in T : \A y \in T : x <= y
<1> DEFINE R == OpToRel(<, Nat)
<1>1. IsWellFoundedOn(R, Nat)
  BY NatLessThanWellFounded
<1>2. \A x, y \in Nat : <<y, x>> \in R <=> y < x
  BY DEF OpToRel
<1> HIDE DEF R
<1>3. PICK x \in T : \A y \in T : ~ (<<y, x>> \in R)
  BY <1>1, WFMin, Zenon
<1>4. ASSUME NEW y \in T PROVE x <= y
  <2>1. x \in Nat /\ y \in Nat /\ ~ (<<y, x>> \in R)
    BY <1>3
  <2>2. ~ (y < x)
    BY <1>2, <2>1
  <2> QED
    BY <2>1, <2>2
<1> QED
  BY <1>3, <1>4

\* The calls of the host, and that their names are distinct.
LEMMA CallNames ==
    ASSUME NEW i \in Ids
    PROVE  /\ CreateCall(i) \in Calls
           /\ OutsideCall(i) \in Calls
           /\ \A a \in Attempts : InspectCall(a, i) \in Calls /\ ExecuteCall(a, i) \in Calls
BY HostAssumption DEF HostCalls

\* Calls of different kinds, or about different continuations, are different.
LEMMA CallsDiffer ==
    ASSUME NEW i, NEW j, NEW a, NEW b
    PROVE  /\ CreateCall(i) = CreateCall(j) => i = j
           /\ OutsideCall(i) = OutsideCall(j) => i = j
           /\ InspectCall(a, i) = InspectCall(b, j) => a = b /\ i = j
           /\ ExecuteCall(a, i) = ExecuteCall(b, j) => a = b /\ i = j
           /\ CreateCall(i) # OutsideCall(j)
           /\ CreateCall(i) # InspectCall(b, j)
           /\ CreateCall(i) # ExecuteCall(b, j)
           /\ OutsideCall(i) # InspectCall(b, j)
           /\ OutsideCall(i) # ExecuteCall(b, j)
           /\ InspectCall(a, i) # ExecuteCall(b, j)
BY DEF CreateCall, OutsideCall, InspectCall, ExecuteCall

\* Every call is one of the four kinds.
LEMMA CallKinds ==
    ASSUME NEW c \in Calls
    PROVE  \E i \in Ids :
              \/ c = CreateCall(i)
              \/ c = OutsideCall(i)
              \/ \E a \in Attempts : c = InspectCall(a, i) \/ c = ExecuteCall(a, i)
BY HostAssumption DEF HostCalls

\* Member k of the cohort is a continuation.
LEMMA CohortMembers ==
    /\ Len(Cohort) \in Nat \ {0}
    /\ DOMAIN Cohort = 1 .. Len(Cohort)
    /\ \A k \in DOMAIN Cohort : Cohort[k] \in Ids
BY HostAssumption

\* A call that was made keeps its request, and its answer once it has one.
LEMMA CallGoesOn ==
    ASSUME SafetyInv, [Next]_vars, NEW d \in Calls, pc[d] # "idle"
    PROVE  /\ pc'[d] # "idle"
           /\ req'[d] = req[d]
           /\ reply[d].code # "none" => reply'[d] = reply[d]
<1>0. TypeOK /\ (reply[d].code # "none" => pc[d] = "done")
  BY DEF SafetyInv, CallInv, CallInvOf, NoReply
<1>1. CASE Tick \/ UNCHANGED vars
  BY <1>1 DEF Tick, vars
<1>2. ASSUME NEW c \in Calls, NEW r \in Requests, Invoke(c, r)
      PROVE  pc'[d] # "idle" /\ req'[d] = req[d] /\ reply'[d] = reply[d]
  BY <1>0, <1>2 DEF Invoke, Goto, TypeOK
<1>3. ASSUME NEW c \in Calls, Step(c) \/ Fail(c), c # d
      PROVE  pc'[d] # "idle" /\ req'[d] = req[d] /\ reply'[d] = reply[d]
  BY <1>0, <1>3, StepFrame DEF Frame
<1>4. CASE Step(d) \/ Fail(d)
  BY <1>0, <1>4, StepFrame, StepLands
<1> QED
  BY <1>1, <1>2, <1>3, <1>4 DEF Next

\* A call that has ended does nothing more.
LEMMA AnswerStays ==
    ASSUME SafetyInv, [Next]_vars, NEW d \in Calls, pc[d] = "done"
    PROVE  reply'[d] = reply[d]
<1>0. TypeOK
  BY DEF SafetyInv
<1>1. CASE Tick \/ UNCHANGED vars
  BY <1>1 DEF Tick, vars
<1>2. ASSUME NEW c \in Calls, NEW r \in Requests, Invoke(c, r) PROVE reply'[d] = reply[d]
  BY <1>2 DEF Invoke
<1>3. ASSUME NEW c \in Calls, Step(c) \/ Fail(c) PROVE reply'[d] = reply[d]
  BY <1>0, <1>3, StepFrame DEF Frame
<1> QED
  BY <1>1, <1>2, <1>3 DEF Next

-----------------------------------------------------------------------------
(* The adapter *)

\* The error codes of the single tests.
LEMMA TestCodes ==
    /\ \A r : ValidateReceipt(r) \in {"ok", "INVALID_INPUT"}
    /\ \A r, c : ValidateCurrentCohort(r, c) \in {"ok", "RESUME_SET_MISMATCH", "REPLAY_CONFLICT"}
    /\ \A r, e : ValidateEntries(r, e) \in {"ok", "DUPLICATE_INTERRUPT", "RESUME_SET_MISMATCH"}
    /\ \A t, c, e, x : ValidateMember(t, c, e, x) \in AguiErrors \cup {"ok"}
<1>1. \A r : ValidateReceipt(r) \in {"ok", "INVALID_INPUT"}
  BY DEF ValidateReceipt
<1>2. \A r, c : ValidateCurrentCohort(r, c) \in {"ok", "RESUME_SET_MISMATCH", "REPLAY_CONFLICT"}
  BY DEF ValidateCurrentCohort
<1>3. \A r, e : ValidateEntries(r, e) \in {"ok", "DUPLICATE_INTERRUPT", "RESUME_SET_MISMATCH"}
  BY DEF ValidateEntries
<1>4. ASSUME NEW t, NEW c, NEW e, NEW x
      PROVE  ValidateMember(t, c, e, x) \in AguiErrors \cup {"ok"}
  <2>1. ValidateCancelled(c, e, x) \in AguiErrors \cup {"ok"}
    BY DEF ValidateCancelled, AguiErrors
  <2>2. ValidateResolved(t, c, e, x) \in AguiErrors \cup {"ok"}
    BY DEF ValidateResolved, AguiErrors
  <2> QED
    BY <2>1, <2>2 DEF ValidateMember, AguiErrors
<1> QED
  BY <1>1, <1>2, <1>3, <1>4

\* A held receipt lists issued interrupts, and passes validation only if it is the
\* issued receipt: its digest covers the members and their order.
LEMMA HeldFacts ==
    ASSUME ReceiptOf, receipt # NoReceipt, NEW held \in Conditions
    PROVE  LET h == HeldReceipt(held) IN
           /\ DOMAIN h.interrupts \subseteq DOMAIN Cohort
           /\ \A k \in DOMAIN h.interrupts : h.interrupts[k].continuationId \in Ids
           /\ ValidateReceipt(h) = "ok" => h = receipt
<1> DEFINE s == receipt.interrupts
           n == Len(Cohort)
           h == HeldReceipt(held)
<1>1. /\ receipt = [threadId |-> Binding.threadId, runId |-> Binding.runId, interrupts |-> s,
                    cohortId |-> CohortId(Binding.threadId, Binding.runId, s)]
      /\ s \in Seq(ReceiptInterrupt) /\ Len(s) = n /\ n \in Nat \ {0}
      /\ DOMAIN Cohort = 1 .. n
      /\ \A k \in 1 .. n : s[k] \in ReceiptInterrupt
  BY CohortMembers DEF ReceiptOf
<1>2. \A k \in 1 .. n : s[k].continuationId \in Ids
  BY <1>1 DEF ReceiptInterrupt
<1>3. ASSUME NEW t, h = [receipt EXCEPT !.interrupts = t]
      PROVE  h.interrupts = t /\ (ValidateReceipt(h) = "ok" => h = receipt)
  <2> HIDE DEF s, h
  <2>1. h = [threadId |-> Binding.threadId, runId |-> Binding.runId, interrupts |-> t,
             cohortId |-> CohortId(Binding.threadId, Binding.runId, s)]
    BY <1>1, <1>3
  <2>2. ASSUME ValidateReceipt(h) = "ok" PROVE t = s
    <3>1. h.cohortId = CohortId(h.threadId, h.runId, h.interrupts)
      BY <2>2 DEF ValidateReceipt
    <3>2. CohortId(Binding.threadId, Binding.runId, s) = CohortId(Binding.threadId, Binding.runId, t)
      BY <2>1, <3>1
    <3> QED
      BY <3>2 DEF CohortId, HashJson
  <2> QED
    BY <1>1, <2>1, <2>2
<1>4. CASE held = "intact"
  <2>1. h = receipt
    BY <1>4 DEF HeldReceipt
  <2> QED
    BY <1>1, <1>2, <2>1
<1>5. CASE held = "reversed"
  <2> DEFINE t == [k \in DOMAIN s |-> s[Len(s) + 1 - k]]
  <2>1. h = [receipt EXCEPT !.interrupts = t]
    BY <1>5 DEF HeldReceipt
  <2>2. DOMAIN t = 1 .. n /\ \A k \in 1 .. n : t[k] = s[n + 1 - k] /\ n + 1 - k \in 1 .. n
    BY <1>1
  <2>3. h.interrupts = t /\ (ValidateReceipt(h) = "ok" => h = receipt)
    BY <1>3, <2>1
  <2> HIDE DEF t, h, s
  <2>4. \A k \in DOMAIN t : t[k].continuationId \in Ids
    BY <1>2, <2>2
  <2> QED
    BY <1>1, <2>2, <2>3, <2>4 DEF h
<1>6. CASE held = "truncated"
  <2> DEFINE t == SubSeq(s, 1, Len(s) - 1)
  <2>1. h = [receipt EXCEPT !.interrupts = t]
    BY <1>6 DEF HeldReceipt
  <2>2. DOMAIN t = 1 .. n - 1 /\ \A k \in 1 .. n - 1 : t[k] = s[k] /\ k \in 1 .. n
    BY <1>1
  <2>3. h.interrupts = t /\ (ValidateReceipt(h) = "ok" => h = receipt)
    BY <1>3, <2>1
  <2> HIDE DEF t, h, s
  <2>4. \A k \in DOMAIN t : t[k].continuationId \in Ids
    BY <1>2, <2>2
  <2> QED
    BY <1>1, <2>2, <2>3, <2>4 DEF h
<1> QED
  BY <1>4, <1>5, <1>6 DEF Conditions

\* The interrupt is issued from creations that succeeded.
LEMMA IssueKeeps ==
    ASSUME SafetyInv, HostInv, Issue
    PROVE  ReceiptOf'
<1> DEFINE n == Len(Cohort)
           envs == [k \in DOMAIN Cohort |-> reply[CreateCall(Cohort[k])].envelope]
           refusal == [k \in DOMAIN envs |-> MemberRefusal(envs, Binding, k)]
           s == Interrupts(envs)
<1>1. n \in Nat \ {0} /\ DOMAIN Cohort = 1 .. n /\ \A k \in 1 .. n : Cohort[k] \in Ids
  BY CohortMembers
<1>2. /\ IssueAguiInterrupts(envs, Binding).code = "ok"
      /\ receipt' = IssueAguiInterrupts(envs, Binding).message
      /\ UNCHANGED vars
      /\ \A k \in 1 .. n : reply[CreateCall(Cohort[k])].code = "ok"
  BY <1>1 DEF Issue, Succeeded
<1>3. DOMAIN envs = 1 .. n /\ \A k \in 1 .. n : envs[k] = reply[CreateCall(Cohort[k])].envelope
  BY <1>1
<1>4. ASSUME NEW k \in 1 .. n
      PROVE  LET q == streams[Cohort[k]] IN
             /\ envs[k].continuationId = Cohort[k]
             /\ envs[k].version = 1
             /\ Len(q) >= 1
             /\ envs[k].expiresAt = q[1].expiresAt
             /\ envs[k].expiresAt \in Nat
             /\ q[1].resumeTokenHash = Hash(CreateCall(Cohort[k]))
  <2> DEFINE i == Cohort[k]
             c == CreateCall(i)
             q == streams[i]
             e == reply[c].envelope
  <2>1. i \in Ids /\ c \in Calls /\ reply[c].code = "ok" /\ envs[k] = e
    BY <1>1, <1>2, <1>3, CallNames
  <2>2. pc[c] # "idle"
    BY <2>1 DEF SafetyInv, CallInv, CallInvOf, NoReply
  <2>3. req[c] = CreateOf(i)
    BY <2>1, <2>2 DEF HostInv, AskedOf
  <2>4. Id(c) = i /\ req[c].op = "create"
    BY <2>3 DEF Id, CreateOf
  <2>5. WellFormed(q, i) /\ Records(q, e) /\ Reports(c, e)
    BY <2>1, <2>4, AnswerFacts
  <2>6. e.status = "pending" /\ e.resumeTokenHash = Hash(c)
    BY <2>4, <2>5 DEF Reports
  <2> HIDE DEF e, q, c, i
  <2>7. /\ e.continuationId = i /\ e.version = 1 /\ Len(q) \in {1, 2}
        /\ e.expiresAt = q[1].expiresAt /\ e.expiresAt \in Nat /\ e = Birth(q)
    BY <2>1, <2>5, <2>6, RecordFacts
  <2>8. Birth(q).resumeTokenHash = q[1].resumeTokenHash /\ Len(q) >= 1
    BY <2>1, <2>5, <2>7, RecordTypes
  <2> QED
    BY <2>1, <2>6, <2>7, <2>8 DEF i, c, q
<1> HIDE DEF envs, n
<1>5. /\ Binding # Unreadable
      /\ \A k \in 1 .. n : MemberRefusal(envs, Binding, k) = "ok"
      /\ receipt' = [threadId |-> Binding.threadId, runId |-> Binding.runId, interrupts |-> s,
                     cohortId |-> CohortId(Binding.threadId, Binding.runId, s)]
  <2>1. ~ (Binding = Unreadable \/ envs = << >>)
    BY <1>2 DEF IssueAguiInterrupts, Refused
  <2> DEFINE failing == {k \in DOMAIN envs : refusal[k] # "ok"}
             first == CHOOSE k \in failing : \A j \in failing : k <= j
  <2>2. ASSUME failing # {} PROVE FALSE
    <3>1. failing \subseteq Nat
      BY <1>1, <1>3
    <3> HIDE DEF failing
    <3>2. \E x \in failing : \A y \in failing : x <= y
      BY <2>2, <3>1, Least
    <3>3. first \in failing
      BY <3>2
    <3>4. refusal[first] # "ok"
      BY <3>3 DEF failing
    <3>5. IssueAguiInterrupts(envs, Binding) = Refused(refusal[first])
      BY <2>1, <2>2 DEF IssueAguiInterrupts, failing
    <3> QED
      BY <1>2, <3>4, <3>5 DEF Refused
  <2>3. IssueAguiInterrupts(envs, Binding) =
          Projected([threadId |-> Binding.threadId, runId |-> Binding.runId, interrupts |-> s,
                     cohortId |-> CohortId(Binding.threadId, Binding.runId, s)])
    BY <2>1, <2>2 DEF IssueAguiInterrupts
  <2> QED
    BY <1>2, <1>3, <2>1, <2>2, <2>3 DEF Projected
<1>6. /\ DOMAIN s = 1 .. n
      /\ \A k \in 1 .. n :
           s[k] = [continuationId |-> envs[k].continuationId, expiresAt |-> envs[k].expiresAt,
                   issuedVersion |-> envs[k].version,
                   payloadHash |-> HashJson(PayloadOf[envs[k].continuationId])]
  BY <1>3 DEF Interrupts
<1>7. ASSUME NEW k \in 1 .. n
      PROVE  /\ PayloadOf[Cohort[k]].kind # "malformed"
             /\ CorrelationId[Cohort[k]] = Binding.threadId
             /\ \A j \in 1 .. k - 1 : Cohort[j] # Cohort[k]
  <2>1. \A j \in 1 .. k - 1 : j \in 1 .. n
    BY <1>1
  <2>2. MemberRefusal(envs, Binding, k) = "ok" /\ envs[k].continuationId = Cohort[k]
        /\ \A j \in 1 .. k - 1 : envs[j].continuationId = Cohort[j]
    BY <1>4, <1>5, <2>1
  <2> QED
    BY <2>2 DEF MemberRefusal
<1> HIDE DEF s
<1>8. \A k \in 1 .. n : s[k] \in ReceiptInterrupt
  BY <1>1, <1>4, <1>6, SMTT(30) DEF ReceiptInterrupt
<1>9. s \in Seq(ReceiptInterrupt) /\ Len(s) = n
  <2>1. s = [k \in 1 .. n |-> s[k]]
    BY <1>6 DEF s, Interrupts
  <2>2. s \in [1 .. n -> ReceiptInterrupt]
    BY <1>8, <2>1
  <2> QED
    BY <1>1, <2>2
<1>10. receipt'.interrupts = s
  BY <1>5
<1>11. ASSUME NEW k \in DOMAIN Cohort PROVE IssuedOf(k)'
  <2>1. k \in 1 .. n
    BY <1>1
  <2>2. /\ s[k].continuationId = Cohort[k] /\ s[k].issuedVersion = 1
        /\ s[k].payloadHash = HashJson(PayloadOf[Cohort[k]])
        /\ s[k].expiresAt = streams[Cohort[k]][1].expiresAt
    BY <1>4, <1>6, <2>1
  <2> QED
    BY <1>2, <1>4, <1>7, <1>10, <2>1, <2>2 DEF IssuedOf, vars, Hash
<1>12. CohortIsDistinct
  <2> SUFFICES ASSUME NEW j \in 1 .. n, NEW k \in 1 .. n, Cohort[j] = Cohort[k] PROVE j = k
    BY <1>1 DEF CohortIsDistinct
  <2>1. j \notin 1 .. k - 1 /\ k \notin 1 .. j - 1
    BY <1>7
  <2> QED
    BY <1>1, <2>1
<1> QED
  BY <1>5, <1>9, <1>10, <1>11, <1>12, HostAssumption DEF ReceiptOf, n

\* The entry and the current envelope for interrupt k of receipt r, and its test.
EntryFor(r, entries, k) ==
    CHOOSE e \in {entries[j] : j \in DOMAIN entries} :
        e.interruptId = r.interrupts[k].continuationId
EnvelopeAbout(current, i) ==
    CHOOSE c \in {current[k] : k \in DOMAIN current} : c.continuationId = i
CurrentFor(r, current, k) == EnvelopeAbout(current, r.interrupts[k].continuationId)
TestOf(r, entries, current, t, k) ==
    ValidateMember(r.threadId, CurrentFor(r, current, k), EntryFor(r, entries, k), t)

\* A batch is turned away for the first member that fails, with that member's
\* error, or becomes one command per member.
LEMMA CommandsFacts ==
    ASSUME NEW r, NEW entries, NEW current, NEW t, DOMAIN r.interrupts \subseteq Nat
    PROVE  LET v == Commands(r, entries, current, t) IN
           \/ /\ v.code \in AguiErrors /\ v.commands = << >>
              /\ \E k \in DOMAIN r.interrupts : TestOf(r, entries, current, t, k) # "ok"
           \/ /\ v.code = "ok"
              /\ v.commands = [k \in DOMAIN r.interrupts |->
                    ResumeCommand(r.threadId, r.interrupts[k], EntryFor(r, entries, k))]
              /\ \A k \in DOMAIN r.interrupts : TestOf(r, entries, current, t, k) = "ok"
<1> DEFINE D == DOMAIN r.interrupts
           test(k) == TestOf(r, entries, current, t, k)
           verdicts == [k \in D |-> test(k)]
           failing == {k \in D : verdicts[k] # "ok"}
           first == CHOOSE k \in failing : \A j \in failing : k <= j
           v == Commands(r, entries, current, t)
<1>0. v = IF failing # {} THEN RunError(verdicts[first])
          ELSE [code |-> "ok", commands |->
                  [k \in D |-> ResumeCommand(r.threadId, r.interrupts[k], EntryFor(r, entries, k))]]
  BY DEF Commands, TestOf, EntryFor, CurrentFor, EnvelopeAbout
<1>1. CASE failing # {}
  <2>1. failing \subseteq Nat
    OBVIOUS
  <2>2. first \in failing
    <3> HIDE DEF failing
    <3>1. \E x \in failing : \A y \in failing : x <= y
      BY <1>1, <2>1, Least
    <3> QED
      BY <3>1
  <2>3. v = RunError(verdicts[first])
    BY <1>0, <1>1
  <2>4. first \in D /\ verdicts[first] # "ok" /\ verdicts[first] = test(first)
    BY <2>2
  <2>5. test(first) \in AguiErrors \cup {"ok"}
    BY TestCodes DEF TestOf
  <2> HIDE DEF first, verdicts, v
  <2> QED
    BY <2>3, <2>4, <2>5 DEF RunError, v
<1>2. CASE failing = {}
  <2>1. \A k \in D : test(k) = "ok"
    BY <1>2, Zenon
  <2> QED
    BY <1>0, <1>2, <2>1
<1> QED
  BY <1>1, <1>2

\* If there are no commands then some member failed its test.
LEMMA FailingMember ==
    ASSUME NEW r, NEW entries, NEW current, NEW t,
           Commands(r, entries, current, t).code # "ok"
    PROVE  \E k \in DOMAIN r.interrupts : TestOf(r, entries, current, t, k) # "ok"
<1> SUFFICES ASSUME \A k \in DOMAIN r.interrupts : TestOf(r, entries, current, t, k) = "ok"
             PROVE  Commands(r, entries, current, t).code = "ok"
  OBVIOUS
<1> QED
  BY ZenonT(30) DEF Commands, TestOf, EntryFor, CurrentFor, EnvelopeAbout

\* A batch is turned away by a test that names its error, or passes all tests.
LEMMA VerdictFacts ==
    ASSUME NEW input, NEW r, NEW current, NEW t
    PROVE  LET v == FromAguiRunAgentInput(input, r, current, t) IN
           \/ /\ v.code \in AguiErrors /\ v.commands = << >>
              /\ \/ ~ IsRunAgentInput(input)
                 \/ ValidateReceipt(r) # "ok"
                 \/ ValidateCurrentCohort(r, current) # "ok"
                 \/ input.threadId # r.threadId
                 \/ input.resume = Undefined
                 \/ ValidateEntries(r, input.resume) # "ok"
           \/ /\ v = Commands(r, input.resume, current, t)
              /\ IsRunAgentInput(input)
              /\ ValidateReceipt(r) = "ok"
              /\ input.threadId = r.threadId
              /\ input.resume # Undefined
              /\ ValidateEntries(r, input.resume) = "ok"
<1>1. /\ ValidateReceipt(r) \in AguiErrors \cup {"ok"}
      /\ ValidateCurrentCohort(r, current) \in AguiErrors \cup {"ok"}
      /\ ValidateEntries(r, input.resume) \in AguiErrors \cup {"ok"}
  BY TestCodes, Zenon DEF AguiErrors
<1>2. \A code : RunError(code).code = code /\ RunError(code).commands = << >>
  BY DEF RunError
<1>3. {"INVALID_INPUT", "THREAD_MISMATCH", "RESUME_REQUIRED"} \subseteq AguiErrors
  BY DEF AguiErrors
<1> QED
  BY <1>1, <1>2, <1>3 DEF FromAguiRunAgentInput

\* The commands of an accepted batch: one per member, in the order of the cohort.
LEMMA AcceptedFacts ==
    ASSUME ReceiptOf, receipt # NoReceipt, NEW a, NEW current, NEW t,
           delivery[a].held \in Conditions
    PROVE  LET v == FromAguiRunAgentInput(delivery[a].input, HeldReceipt(delivery[a].held),
                                          current, t)
           IN  \/ v.code \in AguiErrors /\ v.commands = << >>
               \/ /\ v.code = "ok"
                  /\ v.commands = [k \in DOMAIN Cohort |-> CommandOf(a, k)]
                  /\ \A k \in DOMAIN Cohort : CommandOf(a, k) \in CommandsAbout(Cohort[k])
<1> DEFINE input == delivery[a].input
           h == HeldReceipt(delivery[a].held)
           entries == input.resume
           v == FromAguiRunAgentInput(input, h, current, t)
           n == Len(Cohort)
<1> SUFFICES ASSUME ~ (v.code \in AguiErrors /\ v.commands = << >>)
             PROVE  /\ v.code = "ok"
                    /\ v.commands = [k \in DOMAIN Cohort |-> CommandOf(a, k)]
                    /\ \A k \in DOMAIN Cohort : CommandOf(a, k) \in CommandsAbout(Cohort[k])
  OBVIOUS
<1>1. /\ v = Commands(h, entries, current, t)
      /\ IsRunAgentInput(input) /\ ValidateReceipt(h) = "ok"
      /\ entries # Undefined /\ ValidateEntries(h, entries) = "ok"
  BY VerdictFacts
<1>2. h = receipt
  BY <1>1, HeldFacts
<1>3. /\ DOMAIN Cohort = 1 .. n /\ n \in Nat
      /\ DOMAIN receipt.interrupts = DOMAIN Cohort
      /\ receipt.threadId = Binding.threadId
      /\ \A k \in DOMAIN Cohort : IssuedOf(k) /\ Cohort[k] \in Ids
  BY CohortMembers DEF ReceiptOf
<1>4. \A k \in DOMAIN Cohort : receipt.interrupts[k].continuationId = Cohort[k]
                             /\ receipt.interrupts[k].issuedVersion = 1
  BY <1>3 DEF IssuedOf
<1> DEFINE entry(k) == EntryFor(receipt, entries, k)
           continuation(k) == CurrentFor(receipt, current, k)
<1>5. \A k \in DOMAIN Cohort : entry(k) = EntryOf(a, Cohort[k])
  BY <1>4 DEF EntryOf, EntryFor
<1>6. /\ v.code = "ok"
      /\ v.commands = [k \in DOMAIN receipt.interrupts |->
                          ResumeCommand(receipt.threadId, receipt.interrupts[k], entry(k))]
      /\ \A k \in DOMAIN receipt.interrupts :
           ValidateMember(receipt.threadId, continuation(k), entry(k), t) = "ok"
  <2>1. DOMAIN receipt.interrupts \subseteq Nat
    BY <1>3
  <2> HIDE DEF entries
  <2>2. v = Commands(receipt, entries, current, t)
    BY <1>1, <1>2
  <2> HIDE DEF v
  <2> QED
    BY <2>1, <2>2, CommandsFacts DEF TestOf, v
<1>7. v.commands = [k \in DOMAIN Cohort |-> CommandOf(a, k)]
  <2> HIDE DEF entry, v
  <2> QED
    BY <1>3, <1>5, <1>6 DEF CommandOf
<1>8. ASSUME NEW k \in DOMAIN Cohort PROVE CommandOf(a, k) \in CommandsAbout(Cohort[k])
  <2> DEFINE e == EntryOf(a, Cohort[k])
  <2>1. \E x \in {entries[j] : j \in DOMAIN entries} : x.interruptId = Cohort[k]
    <3>1. {entries[j].interruptId : j \in DOMAIN entries}
            = {receipt.interrupts[j].continuationId : j \in DOMAIN receipt.interrupts}
      BY <1>1, <1>2 DEF ValidateEntries
    <3>2. Cohort[k] \in {receipt.interrupts[j].continuationId : j \in DOMAIN receipt.interrupts}
      BY <1>3, <1>4
    <3> HIDE DEF entries
    <3> QED
      BY <3>1, <3>2
  <2>2. e \in {entries[j] : j \in DOMAIN entries} /\ e.interruptId = Cohort[k]
    BY <2>1 DEF EntryOf
  <2>3. entries \in Seq(ResumeEntry)
    BY <1>1 DEF IsRunAgentInput
  <2>4. e \in ResumeEntry
    <3> HIDE DEF entries, e
    <3> QED
      BY <2>2, <2>3
  <2>5. ValidateMember(receipt.threadId, continuation(k), e, t) = "ok"
    BY <1>3, <1>5, <1>6
  <2> HIDE DEF e, continuation
  <2>6. CASE e.status = "cancelled"
    <3>1. ResumeCommand(Binding.threadId, receipt.interrupts[k], e) =
            [action |-> "cancel", continuationId |-> Cohort[k], expectedVersion |-> 1,
             reason |-> CANCEL_REASON]
      BY <1>4, <2>6 DEF ResumeCommand
    <3> QED
      BY <3>1 DEF CommandOf, CommandsAbout, e
  <2>7. CASE e.status # "cancelled"
    <3>1. e.payload \in Payloads
      BY <2>5, <2>7 DEF ValidateMember, ValidateResolved
    <3>2. ResumeCommand(Binding.threadId, receipt.interrupts[k], e) =
            [action |-> "resume", continuationId |-> Cohort[k],
             idempotencyKey |-> ResumeIdempotencyKey(Binding.threadId, Cohort[k], e.payload),
             resumePayload |-> e.payload]
      BY <1>4, <2>7 DEF ResumeCommand
    <3> QED
      BY <3>1, <3>2 DEF CommandOf, CommandsAbout, e
  <2> QED
    BY <2>6, <2>7
<1> QED
  BY <1>6, <1>7, <1>8

\* The receipt as issued passes validation.
LEMMA IssuedIsValid ==
    ASSUME ReceiptOf, receipt # NoReceipt
    PROVE  ValidateReceipt(receipt) = "ok"
<1> DEFINE s == receipt.interrupts
           ids == [k \in DOMAIN s |-> s[k].continuationId]
<1>1. /\ receipt = [threadId |-> Binding.threadId, runId |-> Binding.runId, interrupts |-> s,
                    cohortId |-> CohortId(Binding.threadId, Binding.runId, s)]
      /\ Binding.threadId \in Threads /\ Binding.runId \in Runs
      /\ s \in Seq(ReceiptInterrupt)
      /\ DOMAIN s = DOMAIN Cohort
      /\ \A k \in DOMAIN Cohort : s[k].continuationId = Cohort[k]
      /\ CohortIsDistinct
  BY CohortMembers DEF ReceiptOf, AguiBinding, IssuedOf
<1>2. receipt # Unreadable
  <2> HIDE DEF s
  <2>1. receipt \in AguiReceipt
    BY <1>1 DEF AguiReceipt, CohortId, HashJson
  <2> QED
    BY <2>1, UnreadableAssumption
<1>3. ~ HasDuplicates(ids)
  BY <1>1 DEF HasDuplicates, CohortIsDistinct
<1>4. receipt.cohortId = CohortId(receipt.threadId, receipt.runId, receipt.interrupts)
  <2> HIDE DEF s
  <2> QED
    BY <1>1
<1> QED
  BY <1>2, <1>3, <1>4 DEF ValidateReceipt

\* What an inspection that succeeded shows of member k: a record of its stream, in a
\* state that the issued one can have reached.
LEMMA InspectedFacts ==
    ASSUME SafetyInv, HostInv, receipt # NoReceipt, NEW a \in Attempts, NEW k \in DOMAIN Cohort,
           Succeeded(InspectCall(a, Cohort[k]))
    PROVE  LET e == reply[InspectCall(a, Cohort[k])].envelope
               issued == receipt.interrupts[k]
           IN  /\ Cohort[k] \in Ids
               /\ WellFormed(streams[Cohort[k]], Cohort[k])
               /\ Records(streams[Cohort[k]], e)
               /\ e.continuationId = Cohort[k]
               /\ e.expiresAt = issued.expiresAt
               /\ e.version = VersionNow(issued, e)
<1> DEFINE i == Cohort[k]
           c == InspectCall(a, i)
           e == reply[c].envelope
           issued == receipt.interrupts[k]
<1>1. i \in Ids /\ c \in Calls /\ reply[c].code = "ok"
  BY CohortMembers, CallNames DEF Succeeded
<1>2. pc[c] # "idle"
  BY <1>1 DEF SafetyInv, CallInv, CallInvOf, NoReply
<1>3. Id(c) = i
  <2>1. req[c] = InspectOf(i)
    BY <1>1, <1>2 DEF HostInv, AskedOf
  <2> QED
    BY <2>1 DEF Id, InspectOf
<1>4. WellFormed(streams[i], i) /\ Records(streams[i], e)
  BY <1>1, <1>3, AnswerFacts
<1>5. issued.expiresAt = streams[i][1].expiresAt /\ issued.issuedVersion = 1
  BY DEF HostInv, ReceiptOf, IssuedOf
<1> HIDE DEF e, issued, c
<1>6. /\ e.continuationId = i
      /\ e.expiresAt = streams[i][1].expiresAt
      /\ e.status = "pending" => e.version = 1
      /\ e.status # "pending" => e.version = 2
  BY <1>1, <1>4, RecordFacts
<1>7. e.version = VersionNow(issued, e)
  BY <1>5, <1>6 DEF VersionNow
<1> QED
  BY <1>1, <1>4, <1>5, <1>6, <1>7 DEF e, issued, c

\* A list with one element for each member and no longer than the cohort has each
\* of them once and nothing else.
LEMMA OneEach ==
    ASSUME CohortIsDistinct, NEW f, DOMAIN f = 1 .. Len(Cohort),
           \A k \in DOMAIN Cohort : \E j \in DOMAIN f : f[j] = Cohort[k]
    PROVE  /\ \A j \in DOMAIN f : \E k \in DOMAIN Cohort : f[j] = Cohort[k]
           /\ ~ HasDuplicates(f)
<1> DEFINE n == Len(Cohort)
           g == [k \in 1 .. n |-> CHOOSE j \in 1 .. n : f[j] = Cohort[k]]
<1>1. n \in Nat /\ DOMAIN Cohort = 1 .. n
  BY CohortMembers
<1>2. \A k \in 1 .. n : g[k] \in 1 .. n /\ f[g[k]] = Cohort[k]
  BY <1>1
<1>3. g \in [1 .. n -> 1 .. n]
  BY <1>2
<1> HIDE DEF g
<1>4. ASSUME NEW j \in 1 .. n, NEW k \in 1 .. n, g[j] = g[k]
      PROVE  j = k
  <2>1. Cohort[j] = Cohort[k]
    BY <1>2, <1>4, Zenon
  <2> QED
    BY <1>1, <2>1, Zenon DEF CohortIsDistinct
<1>5. g \in Injection(1 .. n, 1 .. n)
  BY <1>3, <1>4 DEF Injection, IsInjective
<1>6. g \in Surjection(1 .. n, 1 .. n)
  <2>1. IsFiniteSet(1 .. n)
    BY <1>1, FS_Interval
  <2> QED
    BY <1>5, <2>1, FS_Injection
<1>7. \A j \in 1 .. n : \E k \in 1 .. n : g[k] = j
  BY <1>6 DEF Surjection
<1>8. ASSUME NEW j \in 1 .. n, NEW m \in 1 .. n, f[j] = f[m]
      PROVE  j = m
  <2>1. PICK x \in 1 .. n : g[x] = j
    BY <1>7
  <2>2. PICK y \in 1 .. n : g[y] = m
    BY <1>7
  <2>3. Cohort[x] = Cohort[y]
    BY <1>2, <1>8, <2>1, <2>2
  <2> QED
    BY <1>1, <2>1, <2>2, <2>3 DEF CohortIsDistinct
<1>9. ASSUME NEW j \in 1 .. n PROVE \E k \in 1 .. n : f[j] = Cohort[k]
  <2>1. PICK x \in 1 .. n : g[x] = j
    BY <1>7, Zenon
  <2> QED
    BY <1>2, <2>1, Zenon
<1> QED
  BY <1>1, <1>8, <1>9 DEF HasDuplicates

\* The tests of a proper batch before those of its members: all pass.
LEMMA ProperPasses ==
    ASSUME SafetyInv, HostInv, receipt # NoReceipt, NEW a \in Attempts,
           \A k \in DOMAIN Cohort : Succeeded(InspectCall(a, Cohort[k])),
           NEW current,
           current = [k \in DOMAIN Cohort |-> reply[InspectCall(a, Cohort[k])].envelope],
           NEW entries \in Seq(ResumeEntry), Len(entries) = Len(Cohort),
           \A k \in DOMAIN Cohort : \E j \in DOMAIN entries : entries[j].interruptId = Cohort[k]
    PROVE  /\ ValidateCurrentCohort(receipt, current) = "ok"
           /\ ValidateEntries(receipt, entries) = "ok"
           /\ \A k \in DOMAIN Cohort :
                /\ CurrentFor(receipt, current, k) = current[k]
                /\ \A j \in DOMAIN entries : entries[j].interruptId = Cohort[k] =>
                      EntryFor(receipt, entries, k) = entries[j]
<1> DEFINE n == Len(Cohort)
           s == receipt.interrupts
<1>1. /\ n \in Nat /\ DOMAIN Cohort = 1 .. n
      /\ s \in Seq(ReceiptInterrupt) /\ Len(s) = n /\ DOMAIN s = 1 .. n
      /\ CohortIsDistinct
      /\ receipt.threadId = Binding.threadId
  BY CohortMembers DEF HostInv, ReceiptOf
<1>2. ASSUME NEW k \in 1 .. n
      PROVE  /\ s[k].continuationId = Cohort[k]
             /\ s[k].payloadHash = HashJson(PayloadOf[Cohort[k]])
             /\ CorrelationId[Cohort[k]] = Binding.threadId
             /\ current[k].continuationId = Cohort[k]
             /\ current[k].expiresAt = s[k].expiresAt
             /\ current[k].version = VersionNow(s[k], current[k])
  <2>1. IssuedOf(k)
    BY <1>1 DEF HostInv, ReceiptOf
  <2>2. current[k] = reply[InspectCall(a, Cohort[k])].envelope
    BY <1>1
  <2> QED
    BY <1>1, <2>1, <2>2, InspectedFacts DEF IssuedOf
<1>3. DOMAIN current = 1 .. n /\ Len(current) = n
  BY <1>1
<1> HIDE DEF s, n
<1>4. ASSUME NEW k \in 1 .. n
      PROVE  EnvelopeAbout(current, s[k].continuationId) = current[k]
  <2> DEFINE i == Cohort[k]
  <2>1. current[k] \in {current[j] : j \in DOMAIN current} /\ current[k].continuationId = i
    BY <1>2, <1>3
  <2>2. \A c \in {current[j] : j \in DOMAIN current} : c.continuationId = i => c = current[k]
    BY <1>1, <1>2, <1>3 DEF CohortIsDistinct
  <2>3. EnvelopeAbout(current, i) = current[k]
    BY <2>1, <2>2 DEF EnvelopeAbout
  <2> QED
    BY <1>2, <2>3
<1>5. ValidateCurrentCohort(receipt, current) = "ok"
  <2> DEFINE byId(i) == EnvelopeAbout(current, i)
             ids == {current[k].continuationId : k \in DOMAIN current}
             matches(issued) ==
                LET c == byId(issued.continuationId) IN
                /\ CorrelationId[c.continuationId] = receipt.threadId
                /\ c.expiresAt = issued.expiresAt
                /\ c.version = VersionNow(issued, c)
                /\ HashJson(PayloadOf[c.continuationId]) = issued.payloadHash
  <2>1. ASSUME NEW k \in 1 .. n PROVE s[k].continuationId \in ids
    <3>1. s[k].continuationId = current[k].continuationId /\ k \in DOMAIN current
      BY <1>2, <1>3, Zenon
    <3> QED
      BY <3>1, Zenon
  <2>2. ASSUME NEW k \in 1 .. n PROVE matches(s[k])
    <3>1. byId(s[k].continuationId) = current[k]
      BY <1>4
    <3> QED
      BY <1>1, <1>2, <3>1
  <2>3. ~ HasDuplicates([k \in DOMAIN current |-> current[k].continuationId])
    BY <1>1, <1>2, <1>3 DEF HasDuplicates, CohortIsDistinct
  <2>4. DOMAIN receipt.interrupts = 1 .. n /\ receipt.interrupts = s /\ Len(current) = Len(s)
    BY <1>1, <1>3 DEF s
  <2> DEFINE omitted == {k \in DOMAIN receipt.interrupts :
                            receipt.interrupts[k].continuationId \notin ids}
             altered == {k \in DOMAIN receipt.interrupts \ omitted :
                            ~ matches(receipt.interrupts[k])}
  <2>5. omitted = {}
    BY <2>1, <2>4
  <2>6. altered = {}
    <3> HIDE DEF matches, omitted
    <3> QED
      BY <2>2, <2>4, <2>5
  <2>7. ValidateCurrentCohort(receipt, current) =
          IF \/ HasDuplicates([k \in DOMAIN current |-> current[k].continuationId])
             \/ Len(current) # Len(receipt.interrupts)
            THEN "RESUME_SET_MISMATCH"
          ELSE IF \E k \in altered : \A j \in omitted : k < j THEN "REPLAY_CONFLICT"
          ELSE IF omitted # {} THEN "RESUME_SET_MISMATCH"
          ELSE "ok"
    BY DEF ValidateCurrentCohort, EnvelopeAbout
  <2> HIDE DEF altered, omitted
  <2> QED
    BY <2>3, <2>4, <2>5, <2>6, <2>7
<1> DEFINE f == [j \in DOMAIN entries |-> entries[j].interruptId]
<1>6. /\ \A j \in DOMAIN entries : \E k \in 1 .. n : entries[j].interruptId = Cohort[k]
      /\ ~ HasDuplicates(f)
  <2>1. DOMAIN f = 1 .. Len(Cohort)
    BY <1>1 DEF n
  <2>2. \A k \in DOMAIN Cohort : \E j \in DOMAIN f : f[j] = Cohort[k]
    OBVIOUS
  <2>3. /\ \A j \in DOMAIN f : \E k \in DOMAIN Cohort : f[j] = Cohort[k]
        /\ ~ HasDuplicates(f)
    <3> HIDE DEF f
    <3> QED
      BY <1>1, <2>1, <2>2, OneEach
  <2> QED
    BY <1>1, <2>3
<1>7. ValidateEntries(receipt, entries) = "ok"
  <2>1. {entries[j].interruptId : j \in DOMAIN entries} = {Cohort[k] : k \in 1 .. n}
    BY <1>1, <1>6
  <2>2. {receipt.interrupts[k].continuationId : k \in DOMAIN receipt.interrupts}
          = {Cohort[k] : k \in 1 .. n}
    BY <1>1, <1>2, SMTT(30) DEF s
  <2> QED
    BY <1>6, <2>1, <2>2 DEF ValidateEntries
<1>8. ASSUME NEW k \in 1 .. n
      PROVE  CurrentFor(receipt, current, k) = current[k]
  BY <1>4 DEF CurrentFor, s
<1>9. ASSUME NEW k \in 1 .. n, NEW j \in DOMAIN entries, entries[j].interruptId = Cohort[k]
      PROVE  EntryFor(receipt, entries, k) = entries[j]
  <2>1. \A m \in DOMAIN entries : entries[m].interruptId = Cohort[k] => m = j
    BY <1>6, <1>9 DEF HasDuplicates
  <2>2. receipt.interrupts[k].continuationId = Cohort[k]
    BY <1>2 DEF s
  <2> QED
    BY <1>9, <2>1, <2>2 DEF EntryFor
<1> QED
  BY <1>1, <1>5, <1>7, <1>8, <1>9

\* An entry that nothing is wrong with, about continuation i.
IsProperEntry(entry, i) ==
    \/ entry.status = "cancelled" /\ entry.payload = Undefined
    \/ /\ entry.status = "resolved"
       /\ PayloadOf[i].kind = "input"
       /\ entry.payload \in Payloads
       /\ PayloadOf[i].responseSchema = Undefined \/ <<i, entry.payload>> \in Validates

\* A proper entry is turned away only if its member is due, or ended otherwise.
LEMMA MemberRefused ==
    ASSUME NEW i \in Ids, NEW s, WellFormed(s, i), NEW e, Records(s, e), NEW entry,
           IsProperEntry(entry, i), PayloadOf[i].kind # "malformed", NEW threadId, NEW issued,
           issued.continuationId = i, NEW t, ValidateMember(threadId, e, entry, t) # "ok"
    PROVE  \/ t >= e.expiresAt /\ e.status = "pending"
           \/ /\ ReplayContinuation(s).status \in TerminalStatus
              /\ ~ Fulfils(ResumeCommand(threadId, issued, entry), ReplayContinuation(s))
<1>1. e.continuationId = i /\ e.status \in {"pending"} \cup TerminalStatus
  BY RecordFacts
<1>2. CASE e.status = "pending"
  <2>1. CASE entry.status = "cancelled"
    BY <1>1, <1>2, <2>1 DEF ValidateMember, ValidateCancelled, IsProperEntry
  <2>2. CASE entry.status # "cancelled"
    BY <1>1, <1>2, <2>2 DEF ValidateMember, ValidateResolved, IsProperEntry, PayloadPassesPolicy
  <2> QED
    BY <2>1, <2>2
<1>3. CASE e.status # "pending"
  <2>1. ReplayContinuation(s) = e /\ e.status \in TerminalStatus
    BY <1>3, TerminalIsLast
  <2>2. CASE entry.status = "cancelled"
    <3>1. /\ ResumeCommand(threadId, issued, entry).action = "cancel"
          /\ ResumeCommand(threadId, issued, entry).reason = CANCEL_REASON
      BY <2>2 DEF ResumeCommand
    <3>2. ~ (e.status = "cancelled" /\ e.reason = CANCEL_REASON)
      BY <1>1, <2>2 DEF ValidateMember, ValidateCancelled, IsProperEntry
    <3> QED
      BY <2>1, <3>1, <3>2 DEF Fulfils
  <2>3. CASE entry.status # "cancelled"
    <3> DEFINE key == ResumeIdempotencyKey(threadId, i, entry.payload)
    <3>1. /\ ResumeCommand(threadId, issued, entry).action = "resume"
          /\ ResumeCommand(threadId, issued, entry).idempotencyKey = key
          /\ ResumeCommand(threadId, issued, entry).resumePayload = entry.payload
      BY <2>3 DEF ResumeCommand
    <3>2. ~ (e.status = "resumed" /\ e.idempotencyKey = key /\ e.resumePayload = entry.payload)
      BY <1>1, <2>3 DEF ValidateMember, ValidateResolved, IsProperEntry
    <3> QED
      BY <2>1, <3>1, <3>2 DEF Fulfils
  <2> QED
    BY <2>2, <2>3
<1> QED
  BY <1>2, <1>3

\* The validation turns a proper batch away only if a member contradicts it.
LEMMA ProperRefused ==
    ASSUME SafetyInv, HostInv, NEW a \in Attempts, Validate(a), IsProper(delivery[a]),
           verdict'[a].code # "ok"
    PROVE  \E k \in DOMAIN Cohort :
              \/ /\ clock >= receipt.interrupts[k].expiresAt
                 /\ reply[InspectCall(a, Cohort[k])].envelope.status = "pending"
              \/ /\ Recorded(Cohort[k]).status \in TerminalStatus
                 /\ ~ Fulfils(CommandOf(a, k), Recorded(Cohort[k]))
<1> DEFINE input == delivery[a].input
           entries == input.resume
           current == [k \in DOMAIN Cohort |-> reply[InspectCall(a, Cohort[k])].envelope]
           v == FromAguiRunAgentInput(input, receipt, current, clock)
<1>1. receipt # NoReceipt /\ ReceiptOf
  BY DEF Validate, HostInv, AttemptOf
<1>2. /\ HeldReceipt(delivery[a].held) = receipt
      /\ DOMAIN receipt.interrupts = DOMAIN Cohort
      /\ receipt.threadId = Binding.threadId
      /\ \A k \in DOMAIN Cohort : receipt.interrupts[k].continuationId = Cohort[k]
      /\ \A k \in DOMAIN Cohort : IssuedOf(k)
  BY <1>1, CohortMembers, SMTT(30) DEF IsProper, HeldReceipt, ReceiptOf, IssuedOf
<1>3. Members(a) = [k \in DOMAIN Cohort |-> Cohort[k]]
  BY <1>2 DEF Members
<1>4. /\ \A k \in DOMAIN Cohort : Succeeded(InspectCall(a, Cohort[k]))
      /\ v.code # "ok"
  <2>1. \A k \in DOMAIN Members(a) : Succeeded(InspectCall(a, Members(a)[k]))
    BY DEF Validate
  <2>2. DOMAIN Members(a) = DOMAIN Cohort /\ \A k \in DOMAIN Cohort : Members(a)[k] = Cohort[k]
    BY <1>3
  <2>3. [k \in DOMAIN Members(a) |-> reply[InspectCall(a, Members(a)[k])].envelope] = current
    BY <2>2
  <2>4. verdict'[a] = FromAguiRunAgentInput(input, HeldReceipt(delivery[a].held),
            [k \in DOMAIN Members(a) |-> reply[InspectCall(a, Members(a)[k])].envelope], clock)
    BY DEF Validate, HostInv
  <2>5. verdict'[a] = v
    BY <1>2, <2>3, <2>4
  <2> QED
    BY <2>1, <2>2, <2>5
<1>5. /\ IsRunAgentInput(input)
      /\ input.threadId = receipt.threadId
      /\ entries # Undefined
      /\ entries \in Seq(ResumeEntry)
      /\ Len(entries) = Len(Cohort)
      /\ \A k \in DOMAIN Cohort : \E j \in DOMAIN entries :
            entries[j].interruptId = Cohort[k] /\ IsProperEntry(entries[j], Cohort[k])
  BY <1>2 DEF IsProper, IsRunAgentInput, IsProperEntry
<1> HIDE DEF input, entries
<1>6. /\ ValidateCurrentCohort(receipt, current) = "ok"
      /\ ValidateEntries(receipt, entries) = "ok"
      /\ \A k \in DOMAIN Cohort :
           /\ CurrentFor(receipt, current, k) = current[k]
           /\ \A j \in DOMAIN entries : entries[j].interruptId = Cohort[k] =>
                 EntryFor(receipt, entries, k) = entries[j]
  BY <1>1, <1>4, <1>5, ProperPasses, Zenon
<1>7. \A k \in DOMAIN Cohort : current[k] = reply[InspectCall(a, Cohort[k])].envelope
  OBVIOUS
<1> HIDE DEF current, v
<1>8. v = Commands(receipt, entries, current, clock)
  BY <1>1, <1>5, <1>6, IssuedIsValid, VerdictFacts DEF v, entries
<1>9. PICK k \in DOMAIN Cohort : TestOf(receipt, entries, current, clock, k) # "ok"
  BY <1>2, <1>4, <1>8, FailingMember
<1>10. PICK j \in DOMAIN entries :
          entries[j].interruptId = Cohort[k] /\ IsProperEntry(entries[j], Cohort[k])
  BY <1>5
<1> DEFINE entry == EntryFor(receipt, entries, k)
<1>11. entry = entries[j] /\ entry = EntryOf(a, Cohort[k])
  BY <1>2, <1>6, <1>10, SMTT(30) DEF EntryFor, EntryOf, entries, input
<1>12. ValidateMember(Binding.threadId, current[k], entry, clock) # "ok"
  BY <1>2, <1>6, <1>9 DEF TestOf
<1>13. /\ Cohort[k] \in Ids
       /\ WellFormed(streams[Cohort[k]], Cohort[k])
       /\ Records(streams[Cohort[k]], current[k])
       /\ current[k].expiresAt = receipt.interrupts[k].expiresAt
  BY <1>1, <1>4, <1>7, InspectedFacts
<1>14. IsProperEntry(entry, Cohort[k]) /\ PayloadOf[Cohort[k]].kind # "malformed"
  BY <1>2, <1>10, <1>11 DEF IssuedOf
<1>15. CommandOf(a, k) = ResumeCommand(Binding.threadId, receipt.interrupts[k], entry)
  BY <1>11 DEF CommandOf
<1> HIDE DEF entry
<1> QED
  BY <1>2, <1>7, <1>12, <1>13, <1>14, <1>15, MemberRefused DEF Recorded

-----------------------------------------------------------------------------
(* Every step of the host is a step of the service or leaves it alone. *)

\* The command at place k of a batch is about member k; the service can be asked it.
LEMMA CommandFacts ==
    ASSUME HostInv, NEW a \in Attempts, NEW k \in DOMAIN verdict[a].commands
    PROVE  /\ verdict[a].code = "ok"
           /\ k \in DOMAIN Cohort
           /\ Cohort[k] \in Ids
           /\ verdict[a].commands[k] = CommandOf(a, k)
           /\ CommandOf(a, k) \in CommandsAbout(Cohort[k])
           /\ CommandOf(a, k).continuationId = Cohort[k]
           /\ RequestOf(CommandOf(a, k)) \in Requests
           /\ DOMAIN verdict[a].commands = DOMAIN Cohort
<1>1. VerdictOf(a)
  BY DEF HostInv, AttemptOf
<1>2. verdict[a].commands # << >>
  OBVIOUS
<1>3. /\ verdict[a].code = "ok"
      /\ verdict[a].commands = [j \in DOMAIN Cohort |-> CommandOf(a, j)]
      /\ \A j \in DOMAIN Cohort : CommandOf(a, j) \in CommandsAbout(Cohort[j])
  BY <1>1, <1>2 DEF VerdictOf, NoVerdict
<1>4. k \in DOMAIN Cohort /\ Cohort[k] \in Ids /\ verdict[a].commands[k] = CommandOf(a, k)
  BY <1>3, CohortMembers
<1>5. CommandOf(a, k) \in CommandsAbout(Cohort[k])
  BY <1>3, <1>4
<1>6. CommandOf(a, k).continuationId = Cohort[k]
  BY <1>5 DEF CommandsAbout
<1>7. RequestOf(CommandOf(a, k)) \in HostRequests
  BY <1>4, <1>5 DEF HostRequests
<1> QED
  BY <1>3, <1>4, <1>5, <1>6, <1>7, HostAssumption

\* The members that an attempt inspects are continuations.
LEMMA MemberIds ==
    ASSUME HostInv, NEW a \in Attempts, delivery[a] # NoDelivery, NEW k \in DOMAIN Members(a)
    PROVE  Members(a)[k] \in Ids
<1>1. ReceiptOf /\ receipt # NoReceipt /\ delivery[a].held \in Conditions
  BY HostAssumption DEF HostInv, AttemptOf
<1> QED
  BY <1>1, HeldFacts DEF Members

\* Every step of the host, and every call made outside it, is a step of the
\* service or leaves it alone.
LEMMA HostStepIsServiceStep ==
    ASSUME HostInv, [HostNext]_hostVars
    PROVE  [Next]_vars
<1>1. CASE UNCHANGED hostVars
  BY <1>1 DEF hostVars
<1>2. ASSUME NEW c \in Calls, NEW r \in Requests, Invoke(c, r) PROVE [Next]_vars
  BY <1>2 DEF Next
<1>3. HostRequests \subseteq Requests /\ OutsideRequests \subseteq Requests
  BY HostAssumption
<1>4. ASSUME NEW k \in DOMAIN Cohort, CreateMember(k) PROVE [Next]_vars
  <2>1. Cohort[k] \in Ids
    BY CohortMembers
  <2>2. CreateOf(Cohort[k]) \in Requests
    BY <1>3, <2>1 DEF HostRequests
  <2> QED
    BY <1>2, <1>4, <2>1, <2>2, CallNames DEF CreateMember
<1>5. CASE Issue \/ (\E a \in Attempts, d \in Deliveries : Receive(a, d))
              \/ (\E a \in Attempts : Validate(a))
  BY <1>5 DEF Issue, Receive, Validate
<1>6. ASSUME NEW a \in Attempts, NEW k \in DOMAIN Cohort, InspectMember(a, k) PROVE [Next]_vars
  <2>1. Members(a)[k] \in Ids
    BY <1>6, MemberIds DEF InspectMember
  <2>2. InspectOf(Members(a)[k]) \in Requests
    BY <1>3, <2>1 DEF HostRequests
  <2> QED
    BY <1>2, <1>6, <2>1, <2>2, CallNames DEF InspectMember
<1>7. ASSUME NEW a \in Attempts, NEW k \in DOMAIN Cohort, Execute(a, k) PROVE [Next]_vars
  <2>1. k \in DOMAIN verdict[a].commands
    BY <1>7 DEF Execute
  <2>2. Invoke(ExecuteCall(a, Cohort[k]), RequestOf(CommandOf(a, k)))
    BY <1>7, <2>1, CommandFacts DEF Execute
  <2> QED
    BY <1>2, <2>1, <2>2, CommandFacts, CallNames
<1>8. ASSUME NEW r \in OutsideRequests, Outside(r) PROVE [Next]_vars
  <2>1. r \in Requests /\ r.continuationId \in Ids
    BY <1>3, ServiceAssumption
       DEF Request, CreateRequest, InspectRequest, ResumeRequest, CancelRequest
  <2> QED
    BY <1>2, <1>8, <2>1, CallNames DEF Outside
<1>9. CASE ServiceStep
  BY <1>9 DEF ServiceStep, Next
<1> QED
  BY <1>1, <1>4, <1>5, <1>6, <1>7, <1>8, <1>9 DEF HostNext

-----------------------------------------------------------------------------
(* What the steps keep *)

\* A receipt stays true of the streams.
LEMMA ReceiptStays ==
    ASSUME SafetyInv, SafetyInv', HostInv, [Next]_vars, UNCHANGED receipt
    PROVE  ReceiptOf'
<1> SUFFICES ASSUME receipt # NoReceipt, NEW k \in DOMAIN Cohort PROVE IssuedOf(k)'
  BY DEF HostInv, ReceiptOf
<1>1. IssuedOf(k)
  BY DEF HostInv, ReceiptOf
<1> DEFINE s == streams[Cohort[k]]
           t == streams'[Cohort[k]]
<1>2. Grows(s, t)
  BY StreamsGrow, CohortMembers
<1> HIDE DEF s, t
<1>3. Len(s) >= 1 => Len(t) >= 1 /\ t[1] = s[1]
  BY <1>2 DEF Grows
<1> QED
  BY <1>1, <1>3 DEF IssuedOf, s, t, Hash

\* A continuation that has ended stays as it is.
LEMMA EndingStays ==
    ASSUME SafetyInv, SafetyInv', [Next]_vars, NEW i \in Ids,
           Recorded(i).status \in TerminalStatus
    PROVE  streams'[i] = streams[i]
<1> DEFINE s == streams[i]
           t == streams'[i]
<1>1. WellFormed(s, i) /\ Grows(s, t)
  BY StreamsGrow
<1>2. ReplayContinuation(s).status \in TerminalStatus
  BY DEF Recorded
<1> HIDE DEF s, t
<1>3. ReplayContinuation(s) # Missing
  BY <1>2 DEF Missing, TerminalStatus
<1>4. Len(s) = 2
  BY <1>1, <1>2, <1>3, LoadFacts, RecordFacts DEF TerminalStatus
<1> QED
  BY <1>1, <1>4 DEF Grows, s, t

\* An attempt that takes no step keeps its verdict and what bears it out.
LEMMA AttemptStays ==
    ASSUME SafetyInv, SafetyInv', HostInv, [Next]_vars, NEW a \in Attempts, UNCHANGED receipt,
           delivery'[a] = delivery[a], verdict'[a] = verdict[a], checkedAt'[a] = checkedAt[a]
    PROVE  AttemptOf(a)'
<1>1. AttemptOf(a)
  BY DEF HostInv
<1>2. \A k : CommandOf(a, k)' = CommandOf(a, k)
  BY DEF CommandOf, EntryOf
<1>3. ASSUME NEW k \in DOMAIN Cohort, Contradicted(a, k) PROVE Contradicted(a, k)'
  <2>1. CASE /\ checkedAt[a] >= receipt.interrupts[k].expiresAt
             /\ reply[InspectCall(a, Cohort[k])].envelope.status = "pending"
    <3> DEFINE d == InspectCall(a, Cohort[k])
    <3>1. d \in Calls
      BY CallNames, CohortMembers
    <3>2. pc[d] = "done"
      BY <2>1, <3>1 DEF SafetyInv, CallInv, CallInvOf, NoReply, Missing
    <3>3. reply'[d] = reply[d]
      BY <3>1, <3>2, AnswerStays
    <3> QED
      BY <2>1, <3>3 DEF Contradicted
  <2>2. CASE /\ Recorded(Cohort[k]).status \in TerminalStatus
             /\ ~ Fulfils(CommandOf(a, k), Recorded(Cohort[k]))
    <3>1. streams'[Cohort[k]] = streams[Cohort[k]]
      BY <2>2, EndingStays, CohortMembers
    <3>2. Recorded(Cohort[k])' = Recorded(Cohort[k])
      BY <3>1 DEF Recorded
    <3>3. Fulfils(CommandOf(a, k), Recorded(Cohort[k]))' = Fulfils(CommandOf(a, k), Recorded(Cohort[k]))
      BY <1>2, <3>2 DEF Fulfils
    <3> QED
      BY <2>2, <3>2, <3>3 DEF Contradicted
  <2> QED
    BY <1>3, <2>1, <2>2 DEF Contradicted
<1>4. VerdictOf(a)'
  <2>1. CASE verdict[a] = NoVerdict
    BY <2>1 DEF VerdictOf
  <2>2. CASE /\ verdict[a].code \in AguiErrors /\ verdict[a].commands = << >>
             /\ IsProper(delivery[a]) => \E k \in DOMAIN Cohort : Contradicted(a, k)
    <3>1. IsProper(delivery'[a]) => \E k \in DOMAIN Cohort : Contradicted(a, k)'
      BY <1>3, <2>2
    <3> QED
      BY <2>2, <3>1 DEF VerdictOf
  <2>3. CASE /\ verdict[a].code = "ok"
             /\ verdict[a].commands = [k \in DOMAIN Cohort |-> CommandOf(a, k)]
             /\ \A k \in DOMAIN Cohort : CommandOf(a, k) \in CommandsAbout(Cohort[k])
    <3>1. [k \in DOMAIN Cohort |-> CommandOf(a, k)]' = [k \in DOMAIN Cohort |-> CommandOf(a, k)]
      BY <1>2
    <3>2. \A k \in DOMAIN Cohort : CommandOf(a, k)' \in CommandsAbout(Cohort[k])
      BY <1>2, <2>3
    <3> QED
      BY <2>3, <3>1, <3>2 DEF VerdictOf
  <2> QED
    BY <1>1, <2>1, <2>2, <2>3 DEF AttemptOf, VerdictOf
<1> QED
  BY <1>1, <1>4 DEF AttemptOf

\* The request for a command about i is about i.
LEMMA RequestAbout ==
    ASSUME NEW i, NEW command \in CommandsAbout(i)
    PROVE  RequestOf(command).continuationId = i
BY DEF CommandsAbout, RequestOf

\* The host's attempts keep what they have decided.
AttemptsStand ==
    \A a \in Attempts : verdict[a] # NoVerdict =>
        verdict'[a] = verdict[a] /\ delivery'[a] = delivery[a]

\* What a call was asked stands, and the commands before it stay executed.
LEMMA AskedStays ==
    ASSUME SafetyInv, HostInv, [Next]_vars, NEW c \in Calls, pc[c] # "idle",
           receipt # NoReceipt => UNCHANGED receipt, AttemptsStand
    PROVE  AskedOf(c)'
<1>1. AskedOf(c) /\ req'[c] = req[c]
  BY CallGoesOn DEF HostInv
<1>2. ASSUME NEW d \in Calls, Succeeded(d) PROVE Succeeded(d)'
  <2>1. pc[d] # "idle"
    BY <1>2 DEF Succeeded, SafetyInv, CallInv, CallInvOf, NoReply
  <2> QED
    BY <1>2, <2>1, CallGoesOn DEF Succeeded
<1>3. ASSUME NEW i \in Ids, NEW a \in Attempts, c = ExecuteCall(a, i)
      PROVE  Executes(a, i)' /\ reply'[c].code # "CONTINUATION_NOT_FOUND"
  <2>1. PICK k \in DOMAIN Cohort :
            /\ Cohort[k] = i
            /\ verdict[a].code = "ok"
            /\ req[c] = RequestOf(CommandOf(a, k))
            /\ \A j \in 1 .. k - 1 : Succeeded(ExecuteCall(a, Cohort[j]))
    BY <1>1, <1>3 DEF AskedOf, Executes
  <2>2. verdict[a] # NoVerdict /\ receipt # NoReceipt /\ VerdictOf(a)
    BY <2>1 DEF NoVerdict, HostInv, AttemptOf
  <2>3. CommandOf(a, k)' = CommandOf(a, k) /\ verdict'[a] = verdict[a]
    BY <2>2 DEF CommandOf, EntryOf, AttemptsStand
  <2>4. ASSUME NEW j \in 1 .. k - 1 PROVE Succeeded(ExecuteCall(a, Cohort[j]))'
    <3>1. j \in DOMAIN Cohort
      BY CohortMembers
    <3>2. ExecuteCall(a, Cohort[j]) \in Calls
      BY <3>1, CohortMembers, CallNames
    <3> QED
      BY <1>2, <2>1, <3>2
  <2>5. Executes(a, i)'
    <3>1. /\ Cohort[k] = i
          /\ verdict'[a].code = "ok"
          /\ req'[ExecuteCall(a, i)] = RequestOf(CommandOf(a, k)')
          /\ \A j \in 1 .. k - 1 : Succeeded(ExecuteCall(a, Cohort[j]))'
      BY <1>1, <1>3, <2>1, <2>3, <2>4
    <3> QED
      BY <3>1 DEF Executes, RequestOf, CreateCall, ExecuteCall
  <2>6. ASSUME reply'[c].code = "CONTINUATION_NOT_FOUND" PROVE FALSE
    <3>1. reply[c].code # "CONTINUATION_NOT_FOUND"
      BY <1>1, <1>3 DEF AskedOf
    <3>2. Step(c) \/ Fail(c)
      <4>1. TypeOK
        BY DEF SafetyInv
      <4>2. reply'[c] # reply[c]
        BY <2>6, <3>1
      <4>3. ASSUME NEW d \in Calls, Step(d) \/ Fail(d), d # c PROVE FALSE
        BY <4>1, <4>2, <4>3, StepFrame DEF Frame
      <4> QED
        BY <4>2, <4>3 DEF Next, Tick, Invoke, vars
    <3>3. Len(streams[Id(c)]) = 0
      BY <2>6, <3>2, NotFoundIsEmpty
    <3>4. CommandOf(a, k) \in CommandsAbout(i)
      BY <2>1, <2>2 DEF VerdictOf, AguiErrors
    <3>5. Id(c) = i
      BY <2>1, <3>4, RequestAbout DEF Id
    <3>6. Len(streams[i]) >= 1
      BY <2>1, <2>2 DEF HostInv, ReceiptOf, IssuedOf
    <3> DEFINE n == Len(streams[i])
    <3>7. n = 0 /\ n >= 1
      BY <3>3, <3>5, <3>6
    <3> HIDE DEF n
    <3> QED
      BY <3>7
  <2> QED
    BY <2>5, <2>6
<1>4. ASSUME NEW i \in Ids
      PROVE  /\ c = CreateCall(i) => req'[c] = CreateOf(i)
             /\ c = OutsideCall(i) => req'[c] \in OutsideRequests /\ req'[c].continuationId = i
             /\ \A a \in Attempts : c = InspectCall(a, i) => req'[c] = InspectOf(i)
  BY <1>1 DEF AskedOf
<1> QED
  BY <1>3, <1>4 DEF AskedOf, CreateCall, OutsideCall, InspectCall, ExecuteCall, CreateOf, InspectOf

\* A step that leaves the host's own variables alone.
LEMMA HostUnmoved ==
    ASSUME SafetyInv, SafetyInv', HostInv, [Next]_vars,
           UNCHANGED <<receipt, delivery, verdict, checkedAt>>,
           \A c \in Calls : pc[c] = "idle" /\ pc'[c] # "idle" => AskedOf(c)'
    PROVE  HostInv'
<1>1. ReceiptOf' /\ \A a \in Attempts : AttemptOf(a)'
  BY ReceiptStays, AttemptStays
<1>2. ASSUME NEW c \in Calls, pc'[c] # "idle" PROVE AskedOf(c)'
  BY <1>2, AskedStays DEF AttemptsStand
<1> QED
  BY <1>1, <1>2 DEF HostInv

\* The host calls the service.
LEMMA HostInvokes ==
    ASSUME SafetyInv, SafetyInv', HostInv, [Next]_vars, NEW c \in Calls, NEW r, Invoke(c, r),
           UNCHANGED <<receipt, delivery, verdict, checkedAt>>,
           req'[c] = r /\ UNCHANGED reply => AskedOf(c)'
    PROVE  HostInv'
<1>1. /\ req'[c] = r /\ UNCHANGED reply
      /\ \A d \in Calls \ {c} : pc'[d] = pc[d]
  BY DEF Invoke, Goto, SafetyInv, TypeOK
<1> QED
  BY <1>1, HostUnmoved

\* Creating a member leaves receipt, batches and verdicts alone.
LEMMA CreateMemberKeeps ==
    ASSUME SafetyInv, SafetyInv', HostInv, [Next]_vars, NEW k \in DOMAIN Cohort, CreateMember(k)
    PROVE  HostInv'
<1> DEFINE c == CreateCall(Cohort[k])
<1>1. c \in Calls
  BY CohortMembers, CallNames
<1>2. ASSUME req'[c] = CreateOf(Cohort[k]) PROVE AskedOf(c)'
  BY <1>2, CallsDiffer DEF AskedOf, CreateCall, OutsideCall, InspectCall, ExecuteCall, CreateOf
<1> QED
  BY <1>1, <1>2, HostInvokes DEF CreateMember

\* A member is inspected only after those before it: AskedOf allows the call.
LEMMA InspectMemberKeeps ==
    ASSUME SafetyInv, SafetyInv', HostInv, [Next]_vars, NEW a \in Attempts,
           NEW k \in DOMAIN Cohort, InspectMember(a, k)
    PROVE  HostInv'
<1>1. PICK i \in Ids : i = Members(a)[k]
  BY MemberIds DEF InspectMember
<1> DEFINE c == InspectCall(a, i)
<1>2. ASSUME req'[c] = InspectOf(i) PROVE AskedOf(c)'
  BY <1>2, CallsDiffer DEF AskedOf, CreateCall, OutsideCall, InspectCall, ExecuteCall, InspectOf
<1>3. Invoke(c, InspectOf(i)) /\ UNCHANGED <<receipt, delivery, verdict, checkedAt>>
  BY <1>1 DEF InspectMember
<1>4. c \in Calls
  BY CallNames
<1> QED
  BY <1>2, <1>3, <1>4, HostInvokes

\* A call made outside the host is none of a batch.
LEMMA OutsideKeeps ==
    ASSUME SafetyInv, SafetyInv', HostInv, [Next]_vars, NEW r \in OutsideRequests, Outside(r)
    PROVE  HostInv'
<1> DEFINE i == r.continuationId
           c == OutsideCall(i)
<1>1. i \in Ids
  BY HostAssumption, ServiceAssumption
     DEF Request, CreateRequest, InspectRequest, ResumeRequest, CancelRequest
<1>2. c \in Calls
  BY <1>1, CallNames
<1>3. ASSUME req'[c] = r PROVE AskedOf(c)'
  BY <1>3, CallsDiffer DEF AskedOf, CreateCall, OutsideCall, InspectCall, ExecuteCall
<1> QED
  BY <1>2, <1>3, HostInvokes DEF Outside

\* A command is executed once those before it have succeeded.
LEMMA ExecuteKeeps ==
    ASSUME SafetyInv, SafetyInv', HostInv, [Next]_vars, NEW a \in Attempts,
           NEW k \in DOMAIN Cohort, Execute(a, k)
    PROVE  HostInv'
<1> DEFINE i == Cohort[k]
           c == ExecuteCall(a, i)
           r == RequestOf(CommandOf(a, k))
<1>1. k \in DOMAIN verdict[a].commands
  BY DEF Execute
<1>2. i \in Ids /\ c \in Calls /\ verdict[a].code = "ok"
  BY <1>1, CommandFacts, CallNames
<1>3. /\ pc[c] = "idle" /\ Invoke(c, r)
      /\ UNCHANGED <<receipt, delivery, verdict, checkedAt>>
  BY <1>1, CommandFacts DEF Execute, Invoke
<1>4. ASSUME NEW j \in 1 .. k - 1 PROVE Succeeded(ExecuteCall(a, Cohort[j]))
  <2>1. j \in DOMAIN Cohort
    BY CohortMembers
  <2>2. DOMAIN verdict[a].commands = DOMAIN Cohort
    BY <1>1, CommandFacts
  <2>3. verdict[a].commands[j].continuationId = Cohort[j]
    BY <2>1, <2>2, CommandFacts
  <2> QED
    BY <2>3 DEF Execute
<1>5. reply[c] = NoReply
  BY <1>2, <1>3 DEF SafetyInv, CallInv, CallInvOf
<1>6. ASSUME req'[c] = r, UNCHANGED reply PROVE AskedOf(c)'
  <2>1. CommandOf(a, k)' = CommandOf(a, k)
    BY <1>3 DEF CommandOf, EntryOf
  <2>2. Executes(a, i)'
    <3>1. /\ Cohort[k] = i
          /\ verdict'[a].code = "ok"
          /\ req'[ExecuteCall(a, i)] = RequestOf(CommandOf(a, k)')
          /\ \A j \in 1 .. k - 1 : Succeeded(ExecuteCall(a, Cohort[j]))'
      BY <1>2, <1>3, <1>4, <1>6, <2>1 DEF Succeeded
    <3> QED
      BY <3>1 DEF Executes, RequestOf, CreateCall, ExecuteCall
  <2>3. reply'[c].code # "CONTINUATION_NOT_FOUND"
    BY <1>5, <1>6 DEF NoReply
  <2> HIDE DEF i
  <2> QED
    BY <2>2, <2>3, CallsDiffer DEF AskedOf, CreateCall, OutsideCall, InspectCall, ExecuteCall
<1> HIDE DEF r, c
<1> QED
  BY <1>2, <1>3, <1>6, HostInvokes

\* A service step of any call keeps what the host knows: streams only grow.
LEMMA ServiceStepKeepsHost ==
    ASSUME SafetyInv, SafetyInv', HostInv, [Next]_vars, ServiceStep
    PROVE  HostInv'
<1>1. ASSUME NEW c \in Calls, pc[c] = "idle" PROVE pc'[c] = "idle"
  <2>1. TypeOK
    BY DEF SafetyInv
  <2>2. CASE Tick
    BY <1>1, <2>2 DEF Tick
  <2>3. ASSUME NEW d \in Calls, Step(d) \/ Fail(d) PROVE pc'[c] = pc[c]
    BY <1>1, <2>1, <2>3, StepFrame DEF Frame
  <2> QED
    BY <1>1, <2>2, <2>3 DEF ServiceStep
<1> QED
  BY <1>1, HostUnmoved DEF ServiceStep

\* A step of the host alone, about attempt a or none.
LEMMA HostAlone ==
    ASSUME SafetyInv, SafetyInv', HostInv, UNCHANGED vars,
           receipt # NoReceipt => UNCHANGED receipt, AttemptsStand
    PROVE  \A c \in Calls : pc'[c] # "idle" => AskedOf(c)'
<1>1. [Next]_vars /\ pc' = pc
  BY DEF vars
<1> QED
  BY <1>1, AskedStays

\* The receipt is issued about the envelopes that the creating calls answered.
LEMMA IssueKeepsHost ==
    ASSUME SafetyInv, SafetyInv', HostInv, Issue
    PROVE  HostInv'
<1>1. receipt = NoReceipt /\ UNCHANGED <<vars, delivery, verdict, checkedAt>>
  BY DEF Issue
<1>2. ReceiptOf'
  BY IssueKeeps
<1>3. ASSUME NEW a \in Attempts PROVE AttemptOf(a)'
  BY <1>1 DEF HostInv, AttemptOf, VerdictOf
<1>4. \A c \in Calls : pc'[c] # "idle" => AskedOf(c)'
  BY <1>1, HostAlone DEF AttemptsStand
<1> QED
  BY <1>1, <1>2, <1>3, <1>4 DEF HostInv

\* A delivery is taken as it comes; nothing is asked for it yet.
LEMMA ReceiveKeeps ==
    ASSUME SafetyInv, SafetyInv', HostInv, NEW a \in Attempts, NEW d \in Deliveries, Receive(a, d)
    PROVE  HostInv'
<1>1. /\ receipt # NoReceipt /\ delivery[a] = NoDelivery
      /\ delivery' = [delivery EXCEPT ![a] = d]
      /\ UNCHANGED <<vars, receipt, verdict, checkedAt>>
  BY DEF Receive
<1>2. [Next]_vars
  BY <1>1
<1>3. verdict[a] = NoVerdict
  BY <1>1 DEF HostInv, AttemptOf
<1>4. ReceiptOf'
  BY <1>1, <1>2, ReceiptStays
<1>5. delivery'[a] = d /\ \A b \in Attempts \ {a} : delivery'[b] = delivery[b]
  BY <1>1 DEF HostInv
<1>6. AttemptOf(a)'
  BY <1>1, <1>3, <1>5 DEF HostInv, AttemptOf, VerdictOf
<1>7. \A b \in Attempts \ {a} : AttemptOf(b)'
  BY <1>1, <1>2, <1>5, AttemptStays
<1>8. \A c \in Calls : pc'[c] # "idle" => AskedOf(c)'
  BY <1>1, <1>3, <1>5, HostAlone DEF AttemptsStand
<1> QED
  BY <1>1, <1>4, <1>6, <1>7, <1>8 DEF HostInv

\* The verdict of an attempt: the commands of the issued receipt, or an error that,
\* for a proper batch, a member bears out.
LEMMA ValidateKeeps ==
    ASSUME SafetyInv, SafetyInv', HostInv, NEW a \in Attempts, Validate(a)
    PROVE  HostInv'
<1>1. /\ delivery[a] # NoDelivery /\ verdict[a] = NoVerdict
      /\ UNCHANGED <<vars, receipt, delivery>>
      /\ receipt # NoReceipt /\ ReceiptOf /\ delivery[a].held \in Conditions
  BY HostAssumption DEF Validate, HostInv, AttemptOf
<1>2. [Next]_vars
  BY <1>1
<1>3. /\ \A b \in Attempts \ {a} : verdict'[b] = verdict[b] /\ checkedAt'[b] = checkedAt[b]
      /\ checkedAt'[a] = clock
      /\ DOMAIN verdict' = Attempts
      /\ checkedAt' \in [Attempts -> 0 .. MaxTime]
  BY DEF Validate, HostInv, SafetyInv, TypeOK
<1> DEFINE current == [k \in DOMAIN Members(a) |-> reply[InspectCall(a, Members(a)[k])].envelope]
           v == FromAguiRunAgentInput(delivery[a].input, HeldReceipt(delivery[a].held),
                                      current, clock)
<1>4. verdict'[a] = v
  BY DEF Validate, HostInv
<1>5. \A k : CommandOf(a, k)' = CommandOf(a, k)
  BY <1>1 DEF CommandOf, EntryOf
<1>6. VerdictOf(a)'
  <2> HIDE DEF current
  <2>1. \/ v.code \in AguiErrors /\ v.commands = << >>
        \/ /\ v.code = "ok"
           /\ v.commands = [k \in DOMAIN Cohort |-> CommandOf(a, k)]
           /\ \A k \in DOMAIN Cohort : CommandOf(a, k) \in CommandsAbout(Cohort[k])
    BY <1>1, AcceptedFacts
  <2> HIDE DEF v
  <2>2. CASE v.code \in AguiErrors /\ v.commands = << >>
    <3>1. ASSUME IsProper(delivery[a]) PROVE \E k \in DOMAIN Cohort : Contradicted(a, k)'
      <4>1. verdict'[a].code # "ok"
        BY <1>4, <2>2 DEF AguiErrors
      <4>2. PICK k \in DOMAIN Cohort :
              \/ /\ clock >= receipt.interrupts[k].expiresAt
                 /\ reply[InspectCall(a, Cohort[k])].envelope.status = "pending"
              \/ /\ Recorded(Cohort[k]).status \in TerminalStatus
                 /\ ~ Fulfils(CommandOf(a, k), Recorded(Cohort[k]))
        BY <3>1, <4>1, ProperRefused
      <4>3. Recorded(Cohort[k])' = Recorded(Cohort[k])
        BY <1>1 DEF Recorded, vars
      <4>4. Fulfils(CommandOf(a, k), Recorded(Cohort[k]))'
              = Fulfils(CommandOf(a, k), Recorded(Cohort[k]))
        BY <1>5, <4>3 DEF Fulfils
      <4> QED
        BY <1>1, <1>3, <4>2, <4>3, <4>4 DEF Contradicted, vars
    <3> QED
      BY <1>1, <1>4, <2>2, <3>1 DEF VerdictOf
  <2>3. CASE /\ v.code = "ok"
             /\ v.commands = [k \in DOMAIN Cohort |-> CommandOf(a, k)]
             /\ \A k \in DOMAIN Cohort : CommandOf(a, k) \in CommandsAbout(Cohort[k])
    <3>1. [k \in DOMAIN Cohort |-> CommandOf(a, k)]' = [k \in DOMAIN Cohort |-> CommandOf(a, k)]
      BY <1>5
    <3>2. \A k \in DOMAIN Cohort : CommandOf(a, k)' \in CommandsAbout(Cohort[k])
      BY <1>5, <2>3
    <3> QED
      BY <1>4, <2>3, <3>1, <3>2 DEF VerdictOf
  <2> QED
    BY <2>1, <2>2, <2>3
<1>7. AttemptOf(a)'
  BY <1>1, <1>3, <1>6 DEF HostInv, AttemptOf
<1>8. \A b \in Attempts \ {a} : AttemptOf(b)'
  BY <1>1, <1>2, <1>3, AttemptStays
<1>9. \A c \in Calls : pc'[c] # "idle" => AskedOf(c)'
  BY <1>1, <1>3, HostAlone DEF AttemptsStand
<1>10. ReceiptOf'
  BY <1>1, <1>2, ReceiptStays
<1> QED
  BY <1>1, <1>3, <1>7, <1>8, <1>9, <1>10 DEF HostInv

-----------------------------------------------------------------------------

\* Initially nothing is issued, received or asked.
LEMMA HostInitInv == HostInit => HostInv
<1> SUFFICES ASSUME HostInit PROVE HostInv
  OBVIOUS
<1>1. /\ receipt = NoReceipt
      /\ delivery = [a \in Attempts |-> NoDelivery] /\ DOMAIN verdict = Attempts
      /\ checkedAt = [a \in Attempts |-> 0]
      /\ \A a \in Attempts :
           delivery[a] = NoDelivery /\ verdict[a] = NoVerdict /\ checkedAt[a] = 0
      /\ \A c \in Calls : pc[c] = "idle"
  BY DEF HostInit, Init
<1>2. 0 \in 0 .. MaxTime
  BY ServiceAssumption
<1> QED
  BY <1>1, <1>2 DEF HostInv, ReceiptOf, AttemptOf, VerdictOf

\* Every step keeps the invariants: one case per action.
LEMMA HostStepInv ==
    ASSUME SafetyInv, HostInv, [HostNext]_hostVars
    PROVE  SafetyInv' /\ HostInv'
<1>1. [Next]_vars
  BY HostStepIsServiceStep
<1>2. SafetyInv'
  BY <1>1, StepSafety
<1>3. CASE UNCHANGED hostVars
  BY <1>1, <1>2, <1>3, HostUnmoved DEF hostVars, vars
<1>4. ASSUME NEW k \in DOMAIN Cohort, CreateMember(k) PROVE HostInv'
  BY <1>1, <1>2, <1>4, CreateMemberKeeps
<1>5. CASE Issue
  BY <1>2, <1>5, IssueKeepsHost
<1>6. ASSUME NEW a \in Attempts, NEW d \in Deliveries, Receive(a, d) PROVE HostInv'
  BY <1>2, <1>6, ReceiveKeeps
<1>7. ASSUME NEW a \in Attempts, NEW k \in DOMAIN Cohort, InspectMember(a, k) PROVE HostInv'
  BY <1>1, <1>2, <1>7, InspectMemberKeeps
<1>8. ASSUME NEW a \in Attempts, Validate(a) PROVE HostInv'
  BY <1>2, <1>8, ValidateKeeps
<1>9. ASSUME NEW a \in Attempts, NEW k \in DOMAIN Cohort, Execute(a, k) PROVE HostInv'
  BY <1>1, <1>2, <1>9, ExecuteKeeps
<1>10. ASSUME NEW r \in OutsideRequests, Outside(r) PROVE HostInv'
  BY <1>1, <1>2, <1>10, OutsideKeeps
<1>11. CASE ServiceStep
  BY <1>1, <1>2, <1>11, ServiceStepKeepsHost
<1> QED
  BY <1>2, <1>3, <1>4, <1>5, <1>6, <1>7, <1>8, <1>9, <1>10, <1>11 DEF HostNext

\* The inductive invariants hold throughout.
THEOREM HostSafety == HostSpec => [](SafetyInv /\ HostInv)
<1>1. HostInit => SafetyInv /\ HostInv
  BY InitSafety, HostInitInv DEF HostInit
<1>2. SafetyInv /\ HostInv /\ [HostNext]_hostVars => SafetyInv' /\ HostInv'
  BY HostStepInv
<1> QED
  BY <1>1, <1>2, PTL DEF HostSpec

\* Every behaviour of the host is a behaviour of the service: whatever batches it is
\* sent, it only ever asks the service what a client may ask.
THEOREM HostImplementsService == HostSpec => Spec
<1>1. HostInit => Init
  BY DEF HostInit
<1>2. HostInv /\ [HostNext]_hostVars => [Next]_vars
  BY HostStepIsServiceStep
<1> QED
  BY HostSafety, <1>1, <1>2, PTL DEF HostSpec, Spec

\* Whatever batches the host is sent, every member's stream follows the one-shot life
\* cycle: a redelivered batch never reopens or redecides a member.
THEOREM HostImplementsLifecycle == HostSpec => LifecycleSpec
BY HostImplementsService, ImplementsLifecycle, PTL

\* Types of the host's variables: an accepted batch has one command for every
\* member, each of them a request the service can be asked.
THEOREM HostTypeCorrect == HostSpec => []HostTypeOK
<1>1. HostInv => HostTypeOK
  <2> SUFFICES ASSUME HostInv PROVE HostTypeOK
    OBVIOUS
  <2>1. receipt = NoReceipt \/ receipt.interrupts \in Seq(ReceiptInterrupt)
    BY DEF HostInv, ReceiptOf
  <2>2. delivery \in [Attempts -> Deliveries \cup {NoDelivery}] /\ checkedAt \in [Attempts -> 0 .. MaxTime]
    BY DEF HostInv
  <2>3. ASSUME NEW a \in Attempts
        PROVE  \/ verdict[a] = NoVerdict
               \/ verdict[a].code \in AguiErrors /\ verdict[a].commands = << >>
               \/ /\ verdict[a].code = "ok"
                  /\ Len(verdict[a].commands) = Len(Cohort)
                  /\ \A k \in DOMAIN Cohort : RequestOf(verdict[a].commands[k]) \in Requests
    <3>1. CASE /\ verdict[a].code = "ok"
               /\ verdict[a].commands = [k \in DOMAIN Cohort |-> CommandOf(a, k)]
      <4>1. Len(verdict[a].commands) = Len(Cohort)
        BY <3>1, CohortMembers
      <4>2. DOMAIN verdict[a].commands = DOMAIN Cohort
        BY <3>1
      <4>3. \A k \in DOMAIN Cohort : RequestOf(verdict[a].commands[k]) \in Requests
        BY <4>2, CommandFacts
      <4> QED
        BY <3>1, <4>1, <4>3
    <3> QED
      BY <3>1 DEF HostInv, AttemptOf, VerdictOf
  <2> QED
    BY <2>1, <2>2, <2>3 DEF HostTypeOK
<1> QED
  BY HostSafety, <1>1, PTL

-----------------------------------------------------------------------------
(* Batches *)

\* A command that succeeded is what its member records.
LEMMA SucceededFulfils ==
    ASSUME SafetyInv, HostInv, NEW a \in Attempts, NEW k \in DOMAIN Cohort,
           Succeeded(ExecuteCall(a, Cohort[k]))
    PROVE  Fulfils(CommandOf(a, k), Recorded(Cohort[k]))
<1> DEFINE i == Cohort[k]
           c == ExecuteCall(a, i)
           e == reply[c].envelope
<1>1. i \in Ids /\ c \in Calls /\ reply[c].code = "ok"
  BY CohortMembers, CallNames DEF Succeeded
<1>2. pc[c] # "idle"
  BY <1>1 DEF SafetyInv, CallInv, CallInvOf, NoReply
<1>3. Executes(a, i)
  BY <1>1, <1>2 DEF HostInv, AskedOf
<1>4. PICK m \in DOMAIN Cohort : Cohort[m] = i /\ verdict[a].code = "ok"
                               /\ req[c] = RequestOf(CommandOf(a, m))
  BY <1>3 DEF Executes
<1>5. receipt # NoReceipt /\ VerdictOf(a)
  BY <1>4 DEF HostInv, AttemptOf, NoVerdict
<1>6. m = k
  BY <1>4, <1>5 DEF HostInv, ReceiptOf, CohortIsDistinct
<1> DEFINE command == CommandOf(a, k)
<1>7. command \in CommandsAbout(i) /\ req[c] = RequestOf(command)
  BY <1>4, <1>5, <1>6 DEF VerdictOf, AguiErrors, NoVerdict
<1>8. Id(c) = i
  BY <1>7, RequestAbout DEF Id
<1>9. WellFormed(streams[i], i) /\ Records(streams[i], e) /\ Reports(c, e)
  BY <1>1, <1>8, AnswerFacts
<1> HIDE DEF command, e, c
<1>10. /\ command.action \in {"resume", "cancel"}
       /\ command.action = "resume" =>
            /\ req[c].op = "resume" /\ req[c].idempotencyKey = command.idempotencyKey
            /\ req[c].resumePayload = command.resumePayload
       /\ command.action = "cancel" => req[c].op = "cancel" /\ req[c].reason = command.reason
  BY <1>7 DEF CommandsAbout, RequestOf
<1>11. Fulfils(command, e)
  BY <1>9, <1>10 DEF Fulfils, Reports
<1>12. e.status # "pending"
  BY <1>11 DEF Fulfils
<1>13. ReplayContinuation(streams[i]) = e
  BY <1>1, <1>9, <1>12, TerminalIsLast
<1> QED
  BY <1>11, <1>13 DEF Recorded, command

\* A member that a batch decided: the attempt whose command it was, with all its
\* earlier commands done.
LEMMA DecidedBy ==
    ASSUME SafetyInv, AuthorInv, HostInv, NEW i \in Ids, DecidedByBatch(i)
    PROVE  \E a \in Attempts : \E k \in DOMAIN Cohort :
              /\ Cohort[k] = i
              /\ verdict[a].code = "ok"
              /\ Fulfils(CommandOf(a, k), Recorded(i))
              /\ \A j \in 1 .. k - 1 : Succeeded(ExecuteCall(a, Cohort[j]))
<1> DEFINE s == streams[i]
           e == Recorded(i)
<1>1. WellFormed(s, i)
  BY DEF SafetyInv, StreamInv
<1>2. e.status \in {"resumed", "cancelled"}
  BY DEF DecidedByBatch
<1>3. e # Missing /\ Records(s, e)
  BY <1>1, <1>2, LoadFacts DEF Missing, Recorded
<1>4. Len(s) = 2 /\ e = Ending(s)
  BY <1>1, <1>2, <1>3, RecordFacts
<1>5. /\ e.status = s[2].type
      /\ s[2].type = "resumed" => e.idempotencyKey = s[2].idempotencyKey
                                /\ e.resumePayload = s[2].resumePayload
      /\ s[2].type = "cancelled" => e.reason = s[2].reason
  <2>1. e.status = s[2].type
    BY <1>1, <1>4, RecordTypes
  <2>2. CASE s[2].type = "resumed"
    BY <1>4, <2>2 DEF Ending, TerminalEnvelope
  <2>3. CASE s[2].type = "cancelled"
    BY <1>4, <2>3 DEF Ending, TerminalEnvelope
  <2> QED
    BY <1>2, <2>1, <2>2, <2>3
<1>6. PICK c \in Calls : Ended(c, s, i)
  BY <1>2, <1>4, <1>5 DEF AuthorInv
<1>7. /\ pc[c] # "idle" /\ Id(c) = i
      /\ \/ /\ req[c].op = "resume" /\ e.status = "resumed"
            /\ req[c].idempotencyKey = e.idempotencyKey
            /\ req[c].resumePayload = e.resumePayload
         \/ /\ req[c].op = "cancel" /\ e.status = "cancelled"
            /\ req[c].reason = e.reason
  BY <1>5, <1>6 DEF Ended, Committed
<1>8. AskedOf(c)
  BY <1>7 DEF HostInv
<1> HIDE DEF e
<1>9. PICK x \in Ids : \/ c = CreateCall(x) \/ c = OutsideCall(x)
                       \/ \E a \in Attempts : c = InspectCall(a, x) \/ c = ExecuteCall(a, x)
  BY CallKinds
<1>10. c # CreateCall(x) /\ \A a \in Attempts : c # InspectCall(a, x)
  <2>1. req[c] # CreateOf(x) /\ req[c] # InspectOf(x)
    BY <1>7 DEF CreateOf, InspectOf
  <2>2. c = CreateCall(x) => req[c] = CreateOf(x)
    BY <1>8 DEF AskedOf
  <2>3. ASSUME NEW a \in Attempts PROVE c = InspectCall(a, x) => req[c] = InspectOf(x)
    BY <1>8 DEF AskedOf
  <2> QED
    BY <2>1, <2>2, <2>3
<1>11. c # OutsideCall(x)
  <2> SUFFICES ASSUME c = OutsideCall(x) PROVE FALSE
    OBVIOUS
  <2>1. req[c] \in OutsideRequests
    BY <1>8 DEF AskedOf
  <2> QED
    BY <1>7, <2>1, OutsideAssumption DEF DecidedByBatch, e
<1>12. PICK a \in Attempts : c = ExecuteCall(a, x)
  BY <1>9, <1>10, <1>11
<1>13. PICK k \in DOMAIN Cohort :
          /\ Cohort[k] = x
          /\ verdict[a].code = "ok"
          /\ req[c] = RequestOf(CommandOf(a, k))
          /\ \A j \in 1 .. k - 1 : Succeeded(ExecuteCall(a, Cohort[j]))
  BY <1>8, <1>12 DEF AskedOf, Executes
<1> DEFINE command == CommandOf(a, k)
<1>14. command \in CommandsAbout(x)
  <2>1. VerdictOf(a)
    BY DEF HostInv, AttemptOf
  <2> QED
    BY <1>13, <2>1 DEF VerdictOf, AguiErrors, NoVerdict
<1>15. x = i
  BY <1>7, <1>13, <1>14, RequestAbout DEF Id
<1> HIDE DEF command
<1>16. /\ command.action \in {"resume", "cancel"}
       /\ command.action = "resume" =>
            /\ req[c].op = "resume" /\ req[c].idempotencyKey = command.idempotencyKey
            /\ req[c].resumePayload = command.resumePayload
       /\ command.action = "cancel" => req[c].op = "cancel" /\ req[c].reason = command.reason
  BY <1>13, <1>14 DEF CommandsAbout, RequestOf, command
<1>17. Fulfils(command, e)
  BY <1>7, <1>16 DEF Fulfils
<1> QED
  BY <1>13, <1>15, <1>17 DEF e, command

\* Rival batches are never mixed: of the members that batches decided take the last;
\* the batch that decided it had succeeded with all the others.
LEMMA LastDecides ==
    ASSUME SafetyInv, AuthorInv, HostInv
    PROVE  OneBatchDecides
<1> DEFINE By(a, i, k) ==
             /\ Cohort[k] = i
             /\ verdict[a].code = "ok"
             /\ Fulfils(CommandOf(a, k), Recorded(i))
             /\ \A j \in 1 .. k - 1 : Succeeded(ExecuteCall(a, Cohort[j]))
           K == {k \in DOMAIN Cohort : DecidedByBatch(Cohort[k])}
           n == Len(Cohort)
           T == {n - k : k \in K}
<1> SUFFICES ASSUME NEW first \in Ids, DecidedByBatch(first)
             PROVE  \E a \in Attempts :
                       /\ verdict[a].code = "ok"
                       /\ \A i \in Ids : DecidedByBatch(i) =>
                            \E k \in DOMAIN verdict[a].commands :
                                /\ verdict[a].commands[k].continuationId = i
                                /\ Fulfils(verdict[a].commands[k], Recorded(i))
  BY DEF OneBatchDecides
<1>1. ASSUME NEW i \in Ids, DecidedByBatch(i)
      PROVE  \E a \in Attempts : \E k \in DOMAIN Cohort : By(a, i, k)
  BY <1>1, DecidedBy
<1> HIDE DEF By
<1>2. n \in Nat /\ DOMAIN Cohort = 1 .. n /\ \A k \in DOMAIN Cohort : Cohort[k] \in Ids
  BY CohortMembers
<1>3. ASSUME NEW i \in Ids, DecidedByBatch(i) PROVE \E k \in K : Cohort[k] = i
  <2>1. PICK a \in Attempts, k \in DOMAIN Cohort : By(a, i, k)
    BY <1>1, <1>3
  <2>2. Cohort[k] = i
    BY <2>1 DEF By
  <2> QED
    BY <1>3, <2>2
<1>4. PICK m \in K : \A k \in K : k <= m
  <2>1. T \subseteq Nat /\ T # {}
    BY <1>2, <1>3
  <2>2. PICK x \in T : \A y \in T : x <= y
    BY <2>1, Least
  <2>3. PICK m \in K : x = n - m
    BY <2>2
  <2>4. ASSUME NEW k \in K PROVE k <= m
    <3>1. n - k \in T
      OBVIOUS
    <3>2. n - m <= n - k
      BY <2>2, <2>3, <3>1
    <3>3. k \in Nat /\ m \in Nat
      BY <1>2
    <3> HIDE DEF n
    <3> QED
      BY <1>2, <3>2, <3>3
  <2> QED
    BY <2>4
<1>5. m \in DOMAIN Cohort /\ DecidedByBatch(Cohort[m]) /\ Cohort[m] \in Ids
  BY <1>2, <1>4
<1>6. PICK a \in Attempts, p \in DOMAIN Cohort : By(a, Cohort[m], p)
  BY <1>1, <1>5
<1>7. verdict[a].code = "ok" /\ Cohort[p] = Cohort[m]
  BY <1>6 DEF By
<1>8. AttemptOf(a) /\ ReceiptOf
  BY DEF HostInv
<1>9. /\ CohortIsDistinct
      /\ DOMAIN verdict[a].commands = DOMAIN Cohort
  BY <1>7, <1>8 DEF AttemptOf, VerdictOf, ReceiptOf, AguiErrors, NoVerdict
<1>10. p = m
  BY <1>5, <1>7, <1>9 DEF CohortIsDistinct
<1>11. ASSUME NEW i \in Ids, DecidedByBatch(i)
       PROVE  \E k \in DOMAIN verdict[a].commands :
                 /\ verdict[a].commands[k].continuationId = i
                 /\ Fulfils(verdict[a].commands[k], Recorded(i))
  <2>1. PICK k \in K : Cohort[k] = i
    BY <1>3, <1>11
  <2>2. k \in DOMAIN Cohort /\ k <= m
    BY <1>4
  <2>3. Fulfils(CommandOf(a, k), Recorded(Cohort[k]))
    <3>1. CASE k = m
      BY <1>6, <1>10, <3>1 DEF By
    <3>2. CASE k # m
      <4>1. k \in 1 .. m - 1
        BY <1>2, <1>5, <2>2, <3>2
      <4>2. Succeeded(ExecuteCall(a, Cohort[k]))
        BY <1>6, <1>10, <4>1 DEF By
      <4> QED
        BY <2>2, <4>2, SucceededFulfils
    <3> QED
      BY <3>1, <3>2
  <2>4. k \in DOMAIN verdict[a].commands
    BY <1>9, <2>2
  <2>5. verdict[a].commands[k] = CommandOf(a, k) /\ CommandOf(a, k).continuationId = Cohort[k]
    BY <2>4, CommandFacts
  <2> QED
    BY <2>1, <2>3, <2>4, <2>5
<1> QED
  BY <1>7, <1>11

\* Whatever batches race, are redelivered or stop half-way, all members ended
\* through AG-UI were ended as one single validated batch asked.
THEOREM OneBatch == HostSpec => []OneBatchDecides
<1>1. SafetyInv /\ AuthorInv /\ HostInv => OneBatchDecides
  BY LastDecides
<1> QED
  BY HostSafety, HostImplementsService, OnlyCommittedCallsWrite, <1>1, PTL

-----------------------------------------------------------------------------
(* Refusals *)

\* What thwarts attempt a at member k, in terms of the invariant.
LEMMA ThwartedAt ==
    ASSUME HostInv, receipt # NoReceipt, NEW a, NEW k \in DOMAIN Cohort,
           \/ /\ checkedAt[a] >= receipt.interrupts[k].expiresAt
              /\ reply[InspectCall(a, Cohort[k])].envelope.status = "pending"
           \/ now[ExecuteCall(a, Cohort[k])] >= receipt.interrupts[k].expiresAt
           \/ /\ Recorded(Cohort[k]).status \in TerminalStatus
              /\ ~ Fulfils(CommandOf(a, k), Recorded(Cohort[k]))
    PROVE  Thwarted(a, Cohort[k])
<1> DEFINE R == {receipt.interrupts[j] : j \in DOMAIN receipt.interrupts}
           issued == CHOOSE r \in R : r.continuationId = Cohort[k]
<1>1. /\ DOMAIN receipt.interrupts = DOMAIN Cohort
      /\ \A j \in DOMAIN Cohort : receipt.interrupts[j].continuationId = Cohort[j]
      /\ CohortIsDistinct
  BY CohortMembers DEF HostInv, ReceiptOf, IssuedOf
<1>2. receipt.interrupts[k] \in R
  BY <1>1
<1>3. \A r \in R : r.continuationId = Cohort[k] => r = receipt.interrupts[k]
  BY <1>1 DEF CohortIsDistinct
<1> HIDE DEF R
<1>4. issued = receipt.interrupts[k]
  BY <1>1, <1>2, <1>3
<1> QED
  BY <1>4 DEF Thwarted, CommandOf, EntryOf, R

\* A command that the service refuses: its member ended otherwise, or was due.
LEMMA RefusedCommand ==
    ASSUME SafetyInv, HostInv, RefusalsAreJustified, NEW a \in Attempts, NEW i \in Ids,
           reply[ExecuteCall(a, i)].code \notin {"none", "ok", "failed"}
    PROVE  \E k \in DOMAIN Cohort : Thwarted(a, Cohort[k])
<1> DEFINE c == ExecuteCall(a, i)
           s == streams[i]
           r == Recorded(i)
<1>1. c \in Calls
  BY CallNames
<1>2. pc[c] = "done"
  BY <1>1 DEF SafetyInv, CallInv, CallInvOf, NoReply
<1>3. Executes(a, i) /\ reply[c].code # "CONTINUATION_NOT_FOUND"
  BY <1>1, <1>2 DEF HostInv, AskedOf
<1>4. PICK k \in DOMAIN Cohort :
         Cohort[k] = i /\ verdict[a].code = "ok" /\ req[c] = RequestOf(CommandOf(a, k))
  BY <1>3 DEF Executes
<1>5. AttemptOf(a) /\ ReceiptOf
  BY DEF HostInv
<1>6. receipt # NoReceipt /\ CommandOf(a, k) \in CommandsAbout(i)
  BY <1>4, <1>5 DEF AttemptOf, VerdictOf, AguiErrors, NoVerdict
<1> DEFINE command == CommandOf(a, k)
<1>7. Id(c) = i
  BY <1>4, <1>6, RequestAbout DEF Id
<1>8. BearsOut(s, c, reply[c].code, now[c])
  BY <1>1, <1>2, <1>7 DEF RefusalsAreJustified
<1>9. /\ WellFormed(s, i) /\ Len(s) >= 1
      /\ s[1].resumeTokenHash = Hash(CreateCall(i))
      /\ receipt.interrupts[k].expiresAt = s[1].expiresAt
  BY <1>4, <1>5, <1>6 DEF ReceiptOf, IssuedOf, SafetyInv, StreamInv
<1>10. r # Missing /\ Records(s, r)
  BY <1>9, LoadFacts DEF Recorded
<1>11. r.expiresAt = receipt.interrupts[k].expiresAt
  BY <1>9, <1>10, RecordFacts
<1>12. Head(s) = s[1]
  BY <1>9 DEF WellFormed
<1>13. reply[c].code \in ErrorCodes
  BY <1>1 DEF SafetyInv, TypeOK, Reply
<1>14. \/ /\ command.action = "cancel" /\ req[c].op = "cancel"
          /\ req[c].expectedVersion = 1 /\ req[c].reason = command.reason
       \/ /\ command.action = "resume" /\ req[c].op = "resume"
          /\ req[c].resumeToken = CreateCall(i)
          /\ req[c].idempotencyKey = command.idempotencyKey
          /\ req[c].resumePayload = command.resumePayload
  BY <1>4, <1>6 DEF CommandsAbout, RequestOf
<1>15. ReplayContinuation(s) = r
  BY DEF Recorded
<1> HIDE DEF c, s, r, command
<1>16. \/ now[c] >= r.expiresAt
       \/ r.status \in TerminalStatus /\ ~ Fulfils(command, r)
  <2>1. CASE reply[c].code = "VERSION_CONFLICT"
    BY <1>8, <1>14, <1>15, <2>1 DEF BearsOut, TerminalStatus, Fulfils
  <2>2. CASE reply[c].code \in {"RANGE_ERROR", "TOKEN_MISMATCH"}
    BY <1>8, <1>9, <1>12, <1>14, <2>2 DEF BearsOut
  <2>3. CASE reply[c].code \in {"TOKEN_ALREADY_USED", "IDEMPOTENCY_CONFLICT"}
    BY <1>8, <1>14, <1>15, <2>3 DEF BearsOut, TerminalStatus, Fulfils
  <2>4. CASE reply[c].code \in {"CONTINUATION_EXPIRED", "CONTINUATION_CANCELLED",
                                "INVALID_TRANSITION"}
    BY <1>8, <1>14, <1>15, <2>4 DEF BearsOut, TerminalStatus, Fulfils
  <2> QED
    BY <1>3, <1>13, <2>1, <2>2, <2>3, <2>4 DEF ErrorCodes
<1>17. Thwarted(a, Cohort[k])
  BY <1>4, <1>6, <1>11, <1>16, ThwartedAt DEF c, r, command
<1> QED
  BY <1>17

\* Redelivery is safe: a proper batch is turned away, by the validation or by a
\* command, only if some member really ended in another way or was due.
THEOREM BatchRefusals == HostSpec => []BatchRefusalsAreJustified
<1>1. SafetyInv /\ HostInv /\ RefusalsAreJustified => BatchRefusalsAreJustified
  <2> SUFFICES ASSUME SafetyInv, HostInv, RefusalsAreJustified, NEW a \in Attempts,
                      IsProper(delivery[a]),
                      \/ verdict[a].code \notin {"none", "ok"}
                      \/ \E i \in Ids :
                           reply[ExecuteCall(a, i)].code \notin {"none", "ok", "failed"}
               PROVE  \E k \in DOMAIN Cohort : Thwarted(a, Cohort[k])
    BY DEF BatchRefusalsAreJustified
  <2>1. CASE verdict[a].code \notin {"none", "ok"}
    <3>1. AttemptOf(a)
      BY DEF HostInv
    <3>2. receipt # NoReceipt /\ \E k \in DOMAIN Cohort : Contradicted(a, k)
      BY <2>1, <3>1 DEF AttemptOf, VerdictOf, NoVerdict
    <3>3. PICK k \in DOMAIN Cohort : Contradicted(a, k)
      BY <3>2
    <3>4. Thwarted(a, Cohort[k])
      BY <3>2, <3>3, ThwartedAt DEF Contradicted
    <3> QED
      BY <3>4
  <2> QED
    BY <2>1, RefusedCommand
<1> QED
  BY HostSafety, HostImplementsService, RefusalsJustified, <1>1, PTL
=============================================================================
