----------------------------- MODULE MCAguiHost -----------------------------
(* An instance of AguiHost for TLC: two members, two attempts. *)
EXTENDS AguiHost, TLC

CONSTANTS i1, i2, p1, p2, t1, t2, r1, direct, schema

AttemptSymmetry == Permutations(Attempts)

MCIds == {i1, i2}
MCCohort == <<i1, i2>>
MCBinding == [threadId |-> t1, runId |-> r1]
MCCorrelationId == [i \in MCIds |-> t1]
MCPayloadOf ==
    [i \in MCIds |-> [kind |-> "input",
                      responseSchema |-> IF i = i2 THEN schema ELSE Undefined]]
MCValidates == {<<i2, p1>>, <<i2, p2>>}
MCCalls == HostCalls
MCTokenHashes == [sha256 : MCCalls \cup {ForgedToken}]
MCKeys == {direct} \cup {[agui |-> <<t1, i, p>>] : i \in MCIds, p \in Payloads}
MCReasons == {"agui:cancelled"}

MCOutsideRequests ==
    {[op |-> "cancel", continuationId |-> i2, reason |-> Undefined,
      expectedVersion |-> Undefined]}

MCRequests == MCOutsideRequests \cup HostRequests

Resolve(i, p) == ToAguiResumeEntry(i, "resolved", p).message
Cancel(i) == ToAguiResumeEntry(i, "cancelled", Undefined).message

Input(entries) == [threadId |-> t1, resume |-> entries]

\* Batches that agree about the first member only (one of them in the client's own
\* order); one that contradicts both, with the receipt's members out of order; and
\* one that answers the part of the cohort that a truncated receipt still lists.
MCDeliveries ==
    [input : {Input(<<Resolve(i1, p1), Resolve(i2, p1)>>),
              Input(<<Cancel(i2), Resolve(i1, p1)>>)}, held : {"intact"}]
    \cup [input : {Input(<<Cancel(i1), Resolve(i2, p2)>>)}, held : {"reversed"}]
    \cup [input : {Input(<<Resolve(i1, p2)>>)}, held : {"truncated"}]
=============================================================================
