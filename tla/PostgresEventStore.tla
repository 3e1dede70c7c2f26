------------------------- MODULE PostgresEventStore -------------------------
(***************************************************************************)
(* PostgresEventStore (src/adapters/storage/postgres-event-store.ts):      *)
(* load and append of the multi-replica store, statement by statement,     *)
(* made concurrently by any number of callers through a pool of            *)
(* connections.                                                            *)
(*                                                                         *)
(* PostgreSQL itself is external.  Of it the model keeps what a READ       *)
(* COMMITTED transaction that touches one stream can notice: a statement   *)
(* sees what is committed when it runs, and its own transaction's writes;  *)
(* a head row that another transaction inserted or updated makes a writer  *)
(* wait until that transaction ends, and the writer then tests the row as  *)
(* it has become; the primary key of the events; and a connection that     *)
(* breaks, whose transaction the server aborts only later.                 *)
(***************************************************************************)
EXTENDS Continuation, FiniteSets

CONSTANTS
    Calls,                  \* the calls of load and append
    Requests,               \* what they ask
    MaxEventsPerStream,     \* the store's option of that name
    PoolSize,               \* connections of the pool the application owns
    NoCall,                 \* the holder of a row that is not locked
    Absent                  \* the head of a stream that has no head row

VARIABLES
    heads,      \* continuation_streams, committed: current_version, or Absent
    rows,       \* continuation_events, committed: version -> event, per stream
    holder,     \* the call whose open transaction wrote the head row, or NoCall
    tx,         \* what a call's transaction has written and not committed
    pc,         \* the statement each call makes next
    req,        \* what each call asks
    outcome     \* what each call returned or threw

vars == <<heads, rows, holder, tx, pc, req, outcome>>

NoTx == [head |-> Absent, events |-> << >>]

LoadRequest == [op : {"load"}, continuationId : Ids]
AppendRequest ==
    [op : {"append"}, continuationId : Ids, expectedVersion : Nat,
     events : Seq(ContinuationEvent)]
NoRequest == [op |-> "none"]

ASSUME PostgresAssumption ==
    /\ Requests \subseteq LoadRequest \cup AppendRequest
    /\ NoCall \notin Calls
    /\ Absent \notin Nat
    /\ MaxEventsPerStream \in Nat \ {0}
    /\ PoolSize \in Nat \ {0}

\* "failed": a connection or the server failed.  "REJECTED": what
\* serializeAppendBatch throws for a batch that is not numbered on from
\* expectedVersion or belongs to another stream.
Codes == {"none", "ok", "failed", "REJECTED", "VERSION_CONFLICT", "STREAM_TOO_LARGE",
          "CORRUPT_STREAM"}
NoOutcome == [code |-> "none", events |-> << >>, actualVersion |-> 0]

\* The statements of append's transaction, and the end of it.
InTransaction == {"insertHead", "fence", "readHead", "insertEvents", "commit", "rollback"}
PC == InTransaction \cup {"idle", "load", "append", "abandoned", "done"}

Init ==
    /\ heads = [id \in Ids |-> Absent]
    /\ rows = [id \in Ids |-> << >>]
    /\ holder = [id \in Ids |-> NoCall]
    /\ tx = [c \in Calls |-> NoTx]
    /\ pc = [c \in Calls |-> "idle"]
    /\ req = [c \in Calls |-> NoRequest]
    /\ outcome = [c \in Calls |-> NoOutcome]

-----------------------------------------------------------------------------
Id(c) == req[c].continuationId
NextVersion(c) == req[c].expectedVersion + Len(req[c].events)

\* Mutant of VersionOf: the missing row is not provided for.
VersionOfRow(head) == head

\* actualVersionFromRows: a stream without a head row is at version 0.
VersionOf(head) == IF head = Absent THEN 0 ELSE head

\* The head row as a statement of c sees it.
Visible(c) == IF tx[c].head # Absent THEN tx[c].head ELSE heads[Id(c)]

Unlocked(c) == holder[Id(c)] \in {NoCall, c}

\* A connection of the pool is free: pool.connect() and pool.query() wait for one.
PoolHasConnection == Cardinality({c \in Calls : pc[c] \in InTransaction}) < PoolSize

Goto(c, label) == pc' = [pc EXCEPT ![c] = label]

Answer(c, code, events, actualVersion) ==
    outcome' = [outcome EXCEPT ![c] =
        [code |-> code, events |-> events, actualVersion |-> actualVersion]]

\* A call that no transaction stands behind ends.
Finish(c, code, events, actualVersion) ==
    /\ Goto(c, "done")
    /\ Answer(c, code, events, actualVersion)
    /\ UNCHANGED <<heads, rows, holder, tx, req>>

\* The transaction of c ends and its row lock is free.
EndTransaction(c) ==
    /\ tx' = [tx EXCEPT ![c] = NoTx]
    /\ holder' = [id \in Ids |-> IF holder[id] = c THEN NoCall ELSE holder[id]]

\* The application appends at version 0 or at a version that it has loaded.
Invoke(c) ==
    /\ pc[c] = "idle"
    /\ \E r \in Requests :
        /\ r.op = "append" /\ r.expectedVersion > 0 =>
             /\ heads[r.continuationId] # Absent
             /\ r.expectedVersion <= heads[r.continuationId]
        /\ req' = [req EXCEPT ![c] = r]
        /\ Goto(c, r.op)
    /\ UNCHANGED <<heads, rows, holder, tx, outcome>>

-----------------------------------------------------------------------------
(* load: one statement *)

\* The tests that load makes of the rows it gets, in their order.
LoadCode(id) ==
    LET count == Cardinality(DOMAIN rows[id]) IN
    IF heads[id] = Absent
      THEN "ok"
    ELSE IF heads[id] > MaxEventsPerStream \/ count > MaxEventsPerStream
      THEN "STREAM_TOO_LARGE"
    ELSE IF \/ heads[id] = 0
            \/ DOMAIN rows[id] # 1 .. heads[id]
            \/ \E v \in DOMAIN rows[id] :
                 rows[id][v].continuationId # id \/ rows[id][v].version # v
      THEN "CORRUPT_STREAM"
    ELSE "ok"

Load(c) ==
    /\ pc[c] = "load"
    /\ PoolHasConnection
    /\ LET code == LoadCode(Id(c)) IN
       Finish(c, code, IF code = "ok" /\ heads[Id(c)] # Absent THEN rows[Id(c)] ELSE << >>, 0)

-----------------------------------------------------------------------------
(* append *)

\* Mutant of Serializes: the batch is stored as it comes.
SerializesAnything(r) == TRUE

\* The batch passes serializeAppendBatch.
Serializes(r) == SerializesAppendBatch(r.continuationId, r.expectedVersion, r.events)

\* The tests before the first statement.
RejectAppend(c) ==
    /\ pc[c] = "append"
    /\ \/ /\ NextVersion(c) > MaxEventsPerStream
          /\ Finish(c, "STREAM_TOO_LARGE", << >>, 0)
       \/ /\ NextVersion(c) <= MaxEventsPerStream
          /\ ~ Serializes(req[c])
          /\ Finish(c, "REJECTED", << >>, 0)

Admitted(c) ==
    /\ pc[c] = "append"
    /\ NextVersion(c) <= MaxEventsPerStream
    /\ Serializes(req[c])
    /\ PoolHasConnection

\* An empty batch only compares the head, outside any transaction.
CompareHead(c) ==
    /\ Admitted(c)
    /\ req[c].events = << >>
    /\ LET actual == VersionOf(heads[Id(c)]) IN
       IF actual = req[c].expectedVersion
         THEN Finish(c, "ok", << >>, 0)
         ELSE Finish(c, "VERSION_CONFLICT", << >>, actual)

\* connect and BEGIN ISOLATION LEVEL READ COMMITTED
Begin(c) ==
    /\ Admitted(c)
    /\ req[c].events # << >>
    /\ Goto(c, IF req[c].expectedVersion = 0 THEN "insertHead" ELSE "fence")
    /\ UNCHANGED <<heads, rows, holder, tx, req, outcome>>

\* INSERT ... VALUES (id, 0) ON CONFLICT DO NOTHING: waits for a transaction that
\* has inserted the row and is still open, then inserts it or leaves it alone.
InsertHead(c) ==
    /\ pc[c] = "insertHead"
    /\ IF heads[Id(c)] = Absent
         THEN /\ Unlocked(c)
              /\ tx' = [tx EXCEPT ![c].head = 0]
              /\ holder' = [holder EXCEPT ![Id(c)] = c]
         ELSE UNCHANGED <<tx, holder>>
    /\ Goto(c, "fence")
    /\ UNCHANGED <<heads, rows, req, outcome>>

\* Mutant of FenceMisses: a row that another transaction holds is skipped.
FenceSkipsLocked(c) ==
    /\ pc[c] = "fence"
    /\ Visible(c) # req[c].expectedVersion \/ ~ Unlocked(c)
    /\ Goto(c, "readHead")
    /\ UNCHANGED <<heads, rows, holder, tx, req, outcome>>

\* UPDATE ... WHERE current_version = expectedVersion changes no row.
FenceMisses(c) ==
    /\ pc[c] = "fence"
    /\ Visible(c) # req[c].expectedVersion
    /\ Goto(c, "readHead")
    /\ UNCHANGED <<heads, rows, holder, tx, req, outcome>>

\* Mutant of FenceTakes: the new head is visible at once.
FenceAutocommits(c) ==
    /\ pc[c] = "fence"
    /\ Visible(c) = req[c].expectedVersion
    /\ Unlocked(c)
    /\ tx' = [tx EXCEPT ![c].head = NextVersion(c)]
    /\ heads' = [heads EXCEPT ![Id(c)] = NextVersion(c)]
    /\ holder' = [holder EXCEPT ![Id(c)] = c]
    /\ Goto(c, "insertEvents")
    /\ UNCHANGED <<rows, req, outcome>>

\* The UPDATE changes the row, once no other transaction holds it.
FenceTakes(c) ==
    /\ pc[c] = "fence"
    /\ Visible(c) = req[c].expectedVersion
    /\ Unlocked(c)
    /\ tx' = [tx EXCEPT ![c].head = NextVersion(c)]
    /\ holder' = [holder EXCEPT ![Id(c)] = c]
    /\ Goto(c, "insertEvents")
    /\ UNCHANGED <<heads, rows, req, outcome>>

\* SELECT current_version for the VersionConflictError, which ROLLBACK precedes.
ReadHead(c) ==
    /\ pc[c] = "readHead"
    /\ Answer(c, "VERSION_CONFLICT", << >>, VersionOf(Visible(c)))
    /\ Goto(c, "rollback")
    /\ UNCHANGED <<heads, rows, holder, tx, req>>

\* The rows of stream id with the batch of c behind them.
RowsWithBatch(c) ==
    [v \in DOMAIN rows[Id(c)] \cup (req[c].expectedVersion + 1 .. NextVersion(c)) |->
        IF v > req[c].expectedVersion THEN req[c].events[v - req[c].expectedVersion]
                                      ELSE rows[Id(c)][v]]

\* Mutant of InsertEvents: the rows are inserted outside the transaction.
InsertEventsAutocommits(c) ==
    /\ pc[c] = "insertEvents"
    /\ rows' = [rows EXCEPT ![Id(c)] = RowsWithBatch(c)]
    /\ tx' = [tx EXCEPT ![c].events = req[c].events]
    /\ Goto(c, "commit")
    /\ UNCHANGED <<heads, holder, req, outcome>>

\* INSERT of the whole batch.  The primary key admits no version twice: where it
\* stands in the way the statement fails, which is Fail.
InsertEvents(c) ==
    /\ pc[c] = "insertEvents"
    /\ \A v \in req[c].expectedVersion + 1 .. NextVersion(c) : v \notin DOMAIN rows[Id(c)]
    /\ tx' = [tx EXCEPT ![c].events = req[c].events]
    /\ Goto(c, "commit")
    /\ UNCHANGED <<heads, rows, holder, req, outcome>>

\* COMMIT.  Its answer may be lost: the caller gets an error, ROLLBACK finds no
\* transaction, and the batch stands.
Commit(c) ==
    /\ pc[c] = "commit"
    /\ heads' = [heads EXCEPT ![Id(c)] = tx[c].head]
    /\ rows' = [rows EXCEPT ![Id(c)] = RowsWithBatch(c)]
    /\ EndTransaction(c)
    /\ \E code \in {"ok", "failed"} : Answer(c, code, << >>, 0)
    /\ Goto(c, "done")
    /\ UNCHANGED req

\* A statement, the connection or the pool fails.
Fail(c) ==
    /\ pc[c] \in (InTransaction \ {"rollback"}) \cup {"load", "append"}
    /\ Answer(c, "failed", << >>, 0)
    /\ Goto(c, IF pc[c] \in InTransaction THEN "rollback" ELSE "done")
    /\ UNCHANGED <<heads, rows, holder, tx, req>>

\* Mutants of Rollback: the error is not rethrown; the connection goes back to
\* the pool with its transaction open.
RollbackSwallows(c) ==
    /\ pc[c] = "rollback"
    /\ EndTransaction(c)
    /\ Goto(c, "done")
    /\ Answer(c, "ok", << >>, 0)
    /\ UNCHANGED <<heads, rows, req>>
RollbackForgotten(c) ==
    /\ pc[c] = "rollback"
    /\ Goto(c, "done")
    /\ UNCHANGED <<heads, rows, holder, tx, req, outcome>>

\* ROLLBACK, and the error is thrown.
Rollback(c) ==
    /\ pc[c] = "rollback"
    /\ EndTransaction(c)
    /\ Goto(c, "done")
    /\ UNCHANGED <<heads, rows, req, outcome>>

\* ROLLBACK fails too, or the replica dies: the pool drops the connection and the
\* server keeps the transaction until it notices.
RollbackFails(c) ==
    /\ pc[c] = "rollback"
    /\ Goto(c, "abandoned")
    /\ UNCHANGED <<heads, rows, holder, tx, req, outcome>>

ServerAborts(c) ==
    /\ pc[c] = "abandoned"
    /\ EndTransaction(c)
    /\ Goto(c, "done")
    /\ UNCHANGED <<heads, rows, req, outcome>>

-----------------------------------------------------------------------------
Step(c) ==
    \/ Load(c)
    \/ RejectAppend(c)
    \/ CompareHead(c)
    \/ Begin(c)
    \/ InsertHead(c)
    \/ FenceMisses(c)
    \/ FenceTakes(c)
    \/ ReadHead(c)
    \/ InsertEvents(c)
    \/ Commit(c)
    \/ Rollback(c)
    \/ RollbackFails(c)
    \/ ServerAborts(c)

Next == \E c \in Calls : Invoke(c) \/ Step(c) \/ Fail(c)

Spec == Init /\ [][Next]_vars

\* Awaited statements return, and the server ends the session of a dead client.
FairSpec == Spec /\ \A c \in Calls : WF_vars(Step(c))

-----------------------------------------------------------------------------
(* Properties *)

\* Types of all variables: no statement leaves a head, an error or a version
\* undefined, the missing row of a stream that does not exist included.
TypeOK ==
    /\ heads \in [Ids -> Nat \cup {Absent}]
    /\ DOMAIN rows = Ids
    /\ holder \in [Ids -> Calls \cup {NoCall}]
    /\ tx \in [Calls -> [head : Nat \cup {Absent}, events : Seq(ContinuationEvent)]]
    /\ pc \in [Calls -> PC]
    /\ req \in [Calls -> Requests \cup {NoRequest}]
    /\ outcome \in [Calls -> [code : Codes, events : Seq(ContinuationEvent),
                              actualVersion : Nat]]

\* The committed head counts the committed events, and no version 0 is ever
\* committed: append writes both rows in one transaction, so that load's
\* CORRUPT_STREAM tests find nothing of append's making.
HeadsCountEvents ==
    \A id \in Ids :
        IF heads[id] = Absent THEN DOMAIN rows[id] = {}
        ELSE heads[id] > 0 /\ DOMAIN rows[id] = 1 .. heads[id]

\* A load returns a whole prefix of the stream, for good: it throws neither
\* CORRUPT_STREAM nor STREAM_TOO_LARGE, whichever appends it overlaps.
LoadsAreWhole ==
    \A c \in Calls : (req[c].op = "load" /\ pc[c] = "done") =>
        /\ outcome[c].code \in {"ok", "failed"}
        /\ outcome[c].events = [v \in 1 .. Len(outcome[c].events) |-> rows[Id(c)][v]]

\* An append that returned has its batch in the stream, at the place it asked
\* for, for good; the batch of one that threw a VersionConflictError found the
\* stream beyond that place.
AppendsAreDecided ==
    \A c \in Calls : (req[c].op = "append" /\ pc[c] = "done") =>
        /\ outcome[c].code = "ok" =>
             \A i \in 1 .. Len(req[c].events) :
                 /\ req[c].expectedVersion + i \in DOMAIN rows[Id(c)]
                 /\ rows[Id(c)][req[c].expectedVersion + i] = req[c].events[i]
        /\ outcome[c].code = "VERSION_CONFLICT" =>
             /\ outcome[c].actualVersion > req[c].expectedVersion
             /\ outcome[c].actualVersion \in DOMAIN rows[Id(c)]

\* The port's contract, with the committed rows for the streams.
Store == INSTANCE EventStore WITH streams <- rows

\* The committed rows obey the contract of the port's append: "atomically compare
\* the stream's current version with `expectedVersion` and append all events or
\* none", although append makes several statements of it.
StoreContract == Store!StoreSpec

\* Every call ends, with rows locked, connections short, and transactions left
\* behind by clients that died.
CallsFinish == \A c \in Calls : (pc[c] \in {"load", "append"}) ~> (pc[c] = "done")
=============================================================================
