----------------------------- MODULE Lifecycle ------------------------------
(***************************************************************************)
(* What pausemesh promises of a continuation: it is created once, stays    *)
(* pending, and ends once, as resumed, cancelled or expired, keeping its   *)
(* identity, creation time and expiry.  Clients, clocks, streams and races *)
(* do not appear.                                                          *)
(***************************************************************************)
EXTENDS Continuation

VARIABLE life       \* life[id]: the envelope of continuation id, or Missing

Init == life = [id \in Ids |-> Missing]

Others(id) == \A other \in Ids \ {id} : life'[other] = life[other]

Create(id) ==
    /\ life[id] = Missing
    /\ life'[id] \in PendingEnvelope
    /\ life'[id].continuationId = id
    /\ life'[id].version = 1
    /\ life'[id].createdAt < life'[id].expiresAt
    /\ Others(id)

\* The fields an ending takes over from the pending envelope.
KeepsBase(id) ==
    /\ life'[id].continuationId = id
    /\ life'[id].version = life[id].version + 1
    /\ life'[id].createdAt = life[id].createdAt
    /\ life'[id].expiresAt = life[id].expiresAt

Resume(id) ==
    /\ life[id].status = "pending"
    /\ life'[id] \in ResumedEnvelope
    /\ KeepsBase(id)
    /\ Others(id)

Cancel(id) ==
    /\ life[id].status = "pending"
    /\ life'[id] \in CancelledEnvelope
    /\ KeepsBase(id)
    /\ life'[id].cancelledAt < life[id].expiresAt
    /\ Others(id)

Expire(id) ==
    /\ life[id].status = "pending"
    /\ life'[id] \in ExpiredEnvelope
    /\ KeepsBase(id)
    /\ life'[id].expiredAt >= life[id].expiresAt
    /\ Others(id)

Next == \E id \in Ids : Create(id) \/ Resume(id) \/ Cancel(id) \/ Expire(id)

Spec == Init /\ [][Next]_life
=============================================================================
