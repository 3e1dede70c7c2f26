-------------------------- MODULE SqliteEventStore --------------------------
(***************************************************************************)
(* SqliteEventStore (src/adapters/storage/sqlite-event-store.ts): load and *)
(* append on one database file in WAL mode, shared by the processes that   *)
(* have opened it.  A call never yields inside its process, but each of    *)
(* its statements interleaves with those of the other processes.           *)
(*                                                                         *)
(* SQLite is external: it has one writer at a time (BEGIN IMMEDIATE),      *)
(* readers see the last commit, a transaction cut short by a crash leaves  *)
(* nothing, and rows are never updated or deleted (the schema's triggers). *)
(***************************************************************************)
EXTENDS Continuation, FiniteSets, FiniteSetsExt

CONSTANTS
    Calls,          \* the calls of load and append, each in a process of its own
    Requests,       \* what they ask
    NoCall          \* the writer when no transaction is open

VARIABLES
    rows,       \* continuation_events, committed: version -> event, per stream
    writer,     \* the call that holds the write lock, or NoCall
    inserted,   \* how many events of its batch a call has inserted
    pc,         \* the statement each call makes next
    req,        \* what each call asks
    outcome     \* what each call returned or threw

vars == <<rows, writer, inserted, pc, req, outcome>>

LoadRequest == [op : {"load"}, continuationId : Ids]
AppendRequest ==
    [op : {"append"}, continuationId : Ids, expectedVersion : Nat,
     events : Seq(ContinuationEvent)]
NoRequest == [op |-> "none"]

ASSUME SqliteAssumption ==
    /\ Requests \subseteq LoadRequest \cup AppendRequest
    /\ NoCall \notin Calls

\* "failed": SQLITE_BUSY, an I/O error or the end of the process.  "REJECTED":
\* what serializeAppendBatch throws.  "CORRUPT": what load throws for a gap in
\* the versions, or for an event that names another stream or version.
Codes == {"none", "ok", "failed", "REJECTED", "VERSION_CONFLICT", "CORRUPT"}
NoOutcome == [code |-> "none", events |-> << >>, actualVersion |-> 0]

InTransaction == {"compare", "insert", "commit", "rollback"}
PC == InTransaction \cup {"idle", "load", "append", "done"}

Init ==
    /\ rows = [id \in Ids |-> << >>]
    /\ writer = NoCall
    /\ inserted = [c \in Calls |-> 0]
    /\ pc = [c \in Calls |-> "idle"]
    /\ req = [c \in Calls |-> NoRequest]
    /\ outcome = [c \in Calls |-> NoOutcome]

-----------------------------------------------------------------------------
Id(c) == req[c].continuationId
Goto(c, label) == pc' = [pc EXCEPT ![c] = label]
Answer(c, code, events, actualVersion) ==
    outcome' = [outcome EXCEPT ![c] =
        [code |-> code, events |-> events, actualVersion |-> actualVersion]]
EndTransaction(c) ==
    /\ writer' = NoCall
    /\ inserted' = [inserted EXCEPT ![c] = 0]

Invoke(c) ==
    /\ pc[c] = "idle"
    /\ \E r \in Requests :
        /\ req' = [req EXCEPT ![c] = r]
        /\ Goto(c, r.op)
    /\ UNCHANGED <<rows, writer, inserted, outcome>>

\* load: the rows in order of version, each tested against its index.
WholeStream(id) ==
    /\ DOMAIN rows[id] = 1 .. Cardinality(DOMAIN rows[id])
    /\ \A v \in DOMAIN rows[id] :
        rows[id][v].continuationId = id /\ rows[id][v].version = v

Load(c) ==
    /\ pc[c] = "load"
    /\ IF WholeStream(Id(c))
         THEN Answer(c, "ok", rows[Id(c)], 0)
         ELSE Answer(c, "CORRUPT", << >>, 0)
    /\ Goto(c, "done")
    /\ UNCHANGED <<rows, writer, inserted, req>>

\* BEGIN IMMEDIATE waits for the writer, at most busyTimeoutMs; SQLITE_BUSY is
\* thrown before the try, and changes nothing.
BeginImmediate(c) ==
    /\ pc[c] = "append"
    /\ writer = NoCall
    /\ writer' = c
    /\ Goto(c, "compare")
    /\ UNCHANGED <<rows, inserted, req, outcome>>

Busy(c) ==
    /\ pc[c] = "append"
    /\ writer # NoCall
    /\ Answer(c, "failed", << >>, 0)
    /\ Goto(c, "done")
    /\ UNCHANGED <<rows, writer, inserted, req>>

\* Mutant of Serializes: the batch is stored as it comes.
SerializesAnything(r) == TRUE

\* The batch passes serializeAppendBatch.
Serializes(r) == SerializesAppendBatch(r.continuationId, r.expectedVersion, r.events)

\* Mutant of CurrentVersion: MAX of no rows is NULL.
MaxVersion(id) == IF DOMAIN rows[id] = {} THEN Undefined ELSE Max(DOMAIN rows[id])

\* SELECT COALESCE(MAX(version), 0)
CurrentVersion(id) == IF DOMAIN rows[id] = {} THEN 0 ELSE Max(DOMAIN rows[id])

\* Mutant of Compare: the version is not compared.
CompareSkipped(c) ==
    /\ pc[c] = "compare"
    /\ Serializes(req[c])
    /\ Goto(c, IF req[c].events = << >> THEN "commit" ELSE "insert")
    /\ UNCHANGED <<rows, writer, inserted, req, outcome>>

\* The version is compared before the batch is looked at.
Compare(c) ==
    /\ pc[c] = "compare"
    /\ \/ /\ CurrentVersion(Id(c)) # req[c].expectedVersion
          /\ Answer(c, "VERSION_CONFLICT", << >>, CurrentVersion(Id(c)))
          /\ Goto(c, "rollback")
       \/ /\ CurrentVersion(Id(c)) = req[c].expectedVersion
          /\ ~ Serializes(req[c])
          /\ Answer(c, "REJECTED", << >>, 0)
          /\ Goto(c, "rollback")
       \/ /\ CurrentVersion(Id(c)) = req[c].expectedVersion
          /\ Serializes(req[c])
          /\ Goto(c, IF req[c].events = << >> THEN "commit" ELSE "insert")
          /\ UNCHANGED outcome
    /\ UNCHANGED <<rows, writer, inserted, req>>

\* INSERT of one event; a version that is taken fails the statement (Fail).
Insert(c) ==
    /\ pc[c] = "insert"
    /\ req[c].expectedVersion + inserted[c] + 1 \notin DOMAIN rows[Id(c)]
    /\ inserted' = [inserted EXCEPT ![c] = @ + 1]
    /\ Goto(c, IF inserted'[c] = Len(req[c].events) THEN "commit" ELSE "insert")
    /\ UNCHANGED <<rows, writer, req, outcome>>

\* The rows of the stream with the events that c has inserted.
RowsWithBatch(c) ==
    [v \in DOMAIN rows[Id(c)]
            \cup (req[c].expectedVersion + 1 .. req[c].expectedVersion + inserted[c]) |->
        IF v > req[c].expectedVersion THEN req[c].events[v - req[c].expectedVersion]
                                      ELSE rows[Id(c)][v]]

\* COMMIT; the process may end before it has passed the answer on.
Commit(c) ==
    /\ pc[c] = "commit"
    /\ rows' = [rows EXCEPT ![Id(c)] = RowsWithBatch(c)]
    /\ EndTransaction(c)
    /\ \E code \in {"ok", "failed"} : Answer(c, code, << >>, 0)
    /\ Goto(c, "done")
    /\ UNCHANGED req

\* A statement fails; the catch rolls back if a transaction is open.
Fail(c) ==
    /\ pc[c] \in (InTransaction \ {"rollback"}) \cup {"load"}
    /\ Answer(c, "failed", << >>, 0)
    /\ Goto(c, IF pc[c] = "load" THEN "done" ELSE "rollback")
    /\ UNCHANGED <<rows, writer, inserted, req>>

\* Mutant of Rollback: what was inserted is committed.
RollbackCommits(c) ==
    /\ pc[c] = "rollback"
    /\ rows' = [rows EXCEPT ![Id(c)] = RowsWithBatch(c)]
    /\ EndTransaction(c)
    /\ Goto(c, "done")
    /\ UNCHANGED <<req, outcome>>

\* Mutant of Rollback: the transaction is left open.
RollbackMissing(c) ==
    /\ pc[c] = "rollback"
    /\ Goto(c, "done")
    /\ UNCHANGED <<rows, writer, inserted, req, outcome>>

Rollback(c) ==
    /\ pc[c] = "rollback"
    /\ EndTransaction(c)
    /\ Goto(c, "done")
    /\ UNCHANGED <<rows, req, outcome>>

\* The process ends inside the transaction: the lock goes with it, and the next
\* reader of the WAL ignores what was not committed.
Crash(c) ==
    /\ pc[c] \in InTransaction
    /\ Answer(c, "failed", << >>, 0)
    /\ EndTransaction(c)
    /\ Goto(c, "done")
    /\ UNCHANGED <<rows, req>>

-----------------------------------------------------------------------------
Step(c) ==
    \/ Load(c)
    \/ BeginImmediate(c)
    \/ Busy(c)
    \/ Compare(c)
    \/ Insert(c)
    \/ Commit(c)
    \/ Rollback(c)

Next == \E c \in Calls : Invoke(c) \/ Step(c) \/ Fail(c) \/ Crash(c)

Spec == Init /\ [][Next]_vars

-----------------------------------------------------------------------------
(* Properties *)

\* Types of all variables: a conflict always names a version, on a stream that
\* has no rows too.
TypeOK ==
    /\ DOMAIN rows = Ids
    /\ writer \in Calls \cup {NoCall}
    /\ inserted \in [Calls -> Nat]
    /\ pc \in [Calls -> PC]
    /\ req \in [Calls -> Requests \cup {NoRequest}]
    /\ outcome \in [Calls -> [code : Codes, events : Seq(ContinuationEvent),
                              actualVersion : Nat]]

\* A load returns a prefix of the stream, for good, and the batch of an append
\* that returned stays where append put it: no crash, no rollback and no other
\* process takes a row back or leaves a gap.
AnswersStand ==
    \A c \in Calls : pc[c] = "done" =>
        /\ outcome[c].code # "CORRUPT"
        /\ \A v \in DOMAIN outcome[c].events : rows[Id(c)][v] = outcome[c].events[v]
        /\ (req[c].op = "append" /\ outcome[c].code = "ok") =>
             \A i \in 1 .. Len(req[c].events) :
                 /\ req[c].expectedVersion + i \in DOMAIN rows[Id(c)]
                 /\ rows[Id(c)][req[c].expectedVersion + i] = req[c].events[i]

\* When no call is inside append the write lock is free: every path out of the
\* try gives it back, so a failed append never shuts the others out.
LockIsReturned ==
    writer # NoCall => pc[writer] \in InTransaction

\* The rows are inserted one by one and become visible together: whatever fails
\* or crashes between two of them, a stream grows by a caller's whole batch.
BatchesAreWhole ==
    [][\A id \in Ids : rows'[id] # rows[id] =>
        \E c \in Calls :
            /\ req[c].op = "append"
            /\ Id(c) = id
            /\ rows'[id] = rows[id] \o req[c].events]_vars

\* The port's contract, with the committed rows for the streams.
Store == INSTANCE EventStore WITH streams <- rows

\* The committed rows obey the contract of the port's append: events appended in
\* order, at the version compared, and never taken back.
StoreContract == Store!StoreSpec
=============================================================================
