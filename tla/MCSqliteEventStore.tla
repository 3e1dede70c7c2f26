------------------------- MODULE MCSqliteEventStore -------------------------
(* An instance of SqliteEventStore for TLC. *)
EXTENDS SqliteEventStore, TLC

CallSymmetry == Permutations(Calls)

Created(id, hash) ==
    [type |-> "created", schemaVersion |-> 1, continuationId |-> id, version |-> 1,
     occurredAt |-> 0, expiresAt |-> 1, resumeTokenHash |-> hash]
Expired(id, version) ==
    [type |-> "expired", schemaVersion |-> 1, continuationId |-> id, version |-> version,
     occurredAt |-> 1]
AppendOf(id, version, events) ==
    [op |-> "append", continuationId |-> id, expectedVersion |-> version, events |-> events]

\* Rival creations, one of them with its ending in the same batch, endings at
\* every version, an empty batch and a batch that is numbered wrongly.
RequestsFor(id) ==
    UNION {
        {[op |-> "load", continuationId |-> id]},
        {AppendOf(id, 0, <<Created(id, hash)>>) : hash \in Hashes},
        {AppendOf(id, 0, <<Created(id, hash), Expired(id, 2)>>) : hash \in Hashes},
        {AppendOf(id, version, <<Expired(id, version + 1)>>) : version \in 1 .. 2},
        {AppendOf(id, 0, << >>), AppendOf(id, 1, <<Expired(id, 1)>>)}}

MCRequests == UNION {RequestsFor(id) : id \in Ids}
=============================================================================
