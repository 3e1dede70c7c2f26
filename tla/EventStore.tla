----------------------------- MODULE EventStore -----------------------------
(***************************************************************************)
(* The contract of the event store port (src/ports/event-store.ts), in     *)
(* the form in which InMemoryEventStore implements it directly: one        *)
(* append-only stream of events per continuation, and an append that       *)
(* compares the stream's version and adds the whole batch in one step.     *)
(* SQLite and PostgreSQL reach the same contract in several steps.         *)
(***************************************************************************)
EXTENDS Continuation

VARIABLE streams        \* streams[id]: the events of continuation id, oldest first

StreamsType == streams \in [Ids -> Seq(ContinuationEvent)]

\* Mutant of AppendAccepted: the stream's version is not compared.
AppendUnchecked(id, expectedVersion, events) ==
    /\ SerializesAppendBatch(id, expectedVersion, events)
    /\ streams' = [streams EXCEPT ![id] = @ \o events]

\* append succeeds: the version matches and the batch goes to the stream's end.
AppendAccepted(id, expectedVersion, events) ==
    /\ Len(streams[id]) = expectedVersion
    /\ SerializesAppendBatch(id, expectedVersion, events)
    /\ streams' = [streams EXCEPT ![id] = @ \o events]

\* append throws VersionConflictError and changes nothing.
AppendConflicts(id, expectedVersion) ==
    /\ Len(streams[id]) # expectedVersion
    /\ UNCHANGED streams

-----------------------------------------------------------------------------
(* The contract on its own: what any implementation may do to the streams. *)

StoreInit == streams = [id \in Ids |-> << >>]

\* The events a step puts behind those that stream id already holds.
Added(id) == SubSeq(streams'[id], Len(streams[id]) + 1, Len(streams'[id]))

StoreAppend(id) == AppendAccepted(id, Len(streams[id]), Added(id))

StoreNext == \E id \in Ids : StoreAppend(id)

StoreSpec == StoreInit /\ [][StoreNext]_streams
=============================================================================
