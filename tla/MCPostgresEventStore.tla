------------------------ MODULE MCPostgresEventStore ------------------------
(* An instance of PostgresEventStore for TLC. *)
EXTENDS PostgresEventStore, TLC

CallSymmetry == Permutations(Calls)

Created(id, hash) ==
    [type |-> "created", schemaVersion |-> 1, continuationId |-> id, version |-> 1,
     occurredAt |-> 0, expiresAt |-> 1, resumeTokenHash |-> hash]
Cancelled(id, version) ==
    [type |-> "cancelled", schemaVersion |-> 1, continuationId |-> id, version |-> version,
     occurredAt |-> 0, reason |-> Undefined]
Expired(id, version) ==
    [type |-> "expired", schemaVersion |-> 1, continuationId |-> id, version |-> version,
     occurredAt |-> 1]

AppendOf(id, version, events) ==
    [op |-> "append", continuationId |-> id, expectedVersion |-> version, events |-> events]

\* Rival creations, one of them with its ending in the same batch, rival
\* endings, empty batches, and batches that no store may take.
RequestsFor(id) ==
    UNION {
        {[op |-> "load", continuationId |-> id]},
        {AppendOf(id, 0, <<Created(id, hash)>>) : hash \in Hashes},
        {AppendOf(id, 0, <<Created(id, hash), Expired(id, 2)>>) : hash \in Hashes},
        {AppendOf(id, 1, <<Cancelled(id, 2)>>), AppendOf(id, 1, <<Expired(id, 2)>>)},
        {AppendOf(id, version, << >>) : version \in 0 .. 1},
        {AppendOf(id, 1, <<Expired(id, 1)>>), AppendOf(id, 2, <<Expired(id, 3)>>)}}

MCRequests == UNION {RequestsFor(id) : id \in Ids}
=============================================================================
