-------------------------- MODULE PostgresMigration --------------------------
(***************************************************************************)
(* migratePostgresEventStore and PostgresEventStore.checkReadiness         *)
(* (src/adapters/storage/postgres-event-store.ts): migrations run by       *)
(* several deployments at once on one database, beside the readiness       *)
(* probes of replicas.                                                     *)
(*                                                                         *)
(* PostgreSQL is external: DDL is transactional, a statement sees what is  *)
(* committed and its own transaction's writes, creating what an open       *)
(* transaction has created waits for that transaction, creating what       *)
(* exists fails, and a transaction-scoped advisory lock is free when its   *)
(* transaction ends.                                                       *)
(***************************************************************************)
EXTENDS Naturals, Sequences, FiniteSets, SequencesExt

CONSTANTS
    Migrators,          \* calls of migratePostgresEventStore
    Probes,             \* calls of checkReadiness
    Objects,            \* the tables, function and triggers, in order of creation
    Checksums,          \* checksums of builds of the adapter
    Databases,          \* the databases that the calls may find
    NoOne               \* the holder of a free advisory lock

VARIABLES
    db,         \* what is committed
    advisory,   \* the migrator that holds the advisory lock, or NoOne
    tx,         \* what a migrator's transaction has created and not committed
    build,      \* the checksum of the build that makes each call
    pc,         \* the statement each call makes next
    outcome     \* what each call returned or threw

vars == <<db, advisory, tx, build, pc, outcome>>

Clients == Migrators \cup Probes
POSTGRES_EVENT_STORE_SCHEMA_VERSION == 1

\* A database, or the part of it that a transaction adds: the objects there, the
\* migration table among them, and that table's rows.
MigrationTable == "pausemesh_schema_migrations"
Catalog == SUBSET (ToSet(Objects) \cup {MigrationTable})
MigrationRow == [version : Nat \ {0}, checksum : Checksums]
Database == [objects : Catalog, migrations : SUBSET MigrationRow]
Nothing == [objects |-> {}, migrations |-> {}]

\* The rows of a database stand in its migration table, whose primary key is version.
RowsStand(d) ==
    /\ d.migrations # {} => MigrationTable \in d.objects
    /\ \A row, other \in d.migrations : row.version = other.version => row = other

ASSUME MigrationAssumption ==
    /\ Migrators \cap Probes = {}
    /\ NoOne \notin Migrators
    /\ Objects \in Seq(STRING)
    /\ MigrationTable \notin ToSet(Objects)
    /\ Databases \subseteq Database
    /\ \A d \in Databases : RowsStand(d)

Codes == {"none", "ok", "failed", "DUPLICATE_OBJECT", "MIGRATION_REQUIRED",
          "MIGRATION_VERSION_AHEAD", "MIGRATION_CHECKSUM_MISMATCH", "SCHEMA_INCOMPLETE"}

InTransaction == {"lock", "table", "read", "create", "verify", "commit", "rollback"}
PC == InTransaction \cup {"idle", "probeRows", "probeObjects", "abandoned", "done"}

Init ==
    /\ db \in Databases
    /\ advisory = NoOne
    /\ tx = [m \in Migrators |-> Nothing]
    /\ build \in [Clients -> Checksums]
    /\ pc = [c \in Clients |-> "idle"]
    /\ outcome = [c \in Clients |-> "none"]

-----------------------------------------------------------------------------
Goto(c, label) == pc' = [pc EXCEPT ![c] = label]
Answer(c, code) == outcome' = [outcome EXCEPT ![c] = code]
Throw(m, code) == Answer(m, code) /\ Goto(m, "rollback")

\* The database as a statement of m's transaction sees it.
Seen(m) == [objects |-> db.objects \cup tx[m].objects,
            migrations |-> db.migrations \cup tx[m].migrations]

\* The row that the build of c records.
RowOf(c) == [version |-> POSTGRES_EVENT_STORE_SCHEMA_VERSION, checksum |-> build[c]]

\* Another transaction is creating the object.
BeingCreated(m, object) == \E other \in Migrators \ {m} : object \in tx[other].objects

\* What requireMigrationRows throws for these rows.
MigrationRowsCode(migrations, checksum) ==
    IF \E row \in migrations : row.version > POSTGRES_EVENT_STORE_SCHEMA_VERSION
      THEN "MIGRATION_VERSION_AHEAD"
    ELSE IF ~ \E row \in migrations : row.version = POSTGRES_EVENT_STORE_SCHEMA_VERSION
      THEN "MIGRATION_REQUIRED"
    ELSE IF ~ \E row \in migrations : /\ row.version = POSTGRES_EVENT_STORE_SCHEMA_VERSION
                                      /\ row.checksum = checksum
      THEN "MIGRATION_CHECKSUM_MISMATCH"
    ELSE "ok"

\* Mutant of SchemaObjectsCode: the catalog is not looked at.
SchemaObjectsAssumed(objects) == "ok"

\* What requireSchemaObjects throws for this catalog.
SchemaObjectsCode(objects) ==
    IF ToSet(Objects) \cup {MigrationTable} \subseteq objects THEN "ok" ELSE "SCHEMA_INCOMPLETE"

EndTransaction(m) ==
    /\ tx' = [tx EXCEPT ![m] = Nothing]
    /\ advisory' = IF advisory = m THEN NoOne ELSE advisory

-----------------------------------------------------------------------------
(* migratePostgresEventStore *)

\* BEGIN ISOLATION LEVEL READ COMMITTED
Begin(m) ==
    /\ pc[m] = "idle"
    /\ Goto(m, "lock")
    /\ UNCHANGED <<db, advisory, tx, build, outcome>>

\* Mutant of TakeLock: the migrations are not serialized.
TakeNoLock(m) ==
    /\ pc[m] = "lock"
    /\ Goto(m, "table")
    /\ UNCHANGED <<db, advisory, tx, build, outcome>>

\* pg_advisory_xact_lock
TakeLock(m) ==
    /\ pc[m] = "lock"
    /\ advisory = NoOne
    /\ advisory' = m
    /\ Goto(m, "table")
    /\ UNCHANGED <<db, tx, build, outcome>>

\* CREATE SCHEMA and CREATE TABLE IF NOT EXISTS for the migration table
CreateMigrationTable(m) ==
    /\ pc[m] = "table"
    /\ ~ BeingCreated(m, MigrationTable)
    /\ tx' = [tx EXCEPT ![m].objects = {MigrationTable} \ db.objects]
    /\ Goto(m, "read")
    /\ UNCHANGED <<db, advisory, build, outcome>>

\* The rows before: a newer schema or a foreign checksum ends the migration, an
\* applied one goes straight to the verification.
ReadMigrationRows(m) ==
    /\ pc[m] = "read"
    /\ LET code == MigrationRowsCode(Seen(m).migrations, build[m]) IN
       CASE code = "ok" -> Goto(m, "verify") /\ UNCHANGED outcome
         [] code = "MIGRATION_REQUIRED" -> Goto(m, "create") /\ UNCHANGED outcome
         [] OTHER -> Throw(m, code)
    /\ UNCHANGED <<db, advisory, tx, build>>

\* Mutant of CreateObject: each statement commits by itself.
CreateObjectAutocommits(m) ==
    /\ pc[m] = "create"
    /\ \E i \in 1 .. Len(Objects) :
        /\ \A j \in 1 .. i - 1 : Objects[j] \in db.objects
        /\ Objects[i] \notin db.objects
        /\ db' = [db EXCEPT !.objects = @ \cup {Objects[i]}]
        /\ Goto(m, IF i = Len(Objects) THEN "verify" ELSE "create")
    /\ UNCHANGED <<advisory, tx, build, outcome>>

\* The next of the migration's statements.
NextObject(m) == Objects[Cardinality(tx[m].objects \cap ToSet(Objects)) + 1]

CreateObject(m) ==
    /\ pc[m] = "create"
    /\ ~ ToSet(Objects) \subseteq tx[m].objects
    /\ ~ BeingCreated(m, NextObject(m))
    /\ IF NextObject(m) \in db.objects
         THEN Throw(m, "DUPLICATE_OBJECT") /\ UNCHANGED tx
         ELSE /\ tx' = [tx EXCEPT ![m].objects = @ \cup {NextObject(m)}]
              /\ UNCHANGED <<pc, outcome>>
    /\ UNCHANGED <<db, advisory, build>>

\* Mutant of RecordMigration: the versions are counted from 0.
RecordMigrationZero(m) ==
    /\ pc[m] = "create"
    /\ ToSet(Objects) \subseteq tx[m].objects
    /\ tx' = [tx EXCEPT ![m].migrations = {[RowOf(m) EXCEPT !.version = @ - 1]}]
    /\ Goto(m, "verify")
    /\ UNCHANGED <<db, advisory, build, outcome>>

\* INSERT of the migration's row, after the last statement
RecordMigration(m) ==
    /\ pc[m] = "create"
    /\ ToSet(Objects) \subseteq tx[m].objects
    /\ tx' = [tx EXCEPT ![m].migrations = {RowOf(m)}]
    /\ Goto(m, "verify")
    /\ UNCHANGED <<db, advisory, build, outcome>>

\* requireMigrationRows and requireSchemaObjects, inside the transaction
Verify(m) ==
    /\ pc[m] = "verify"
    /\ LET rowsCode == MigrationRowsCode(Seen(m).migrations, build[m])
           code == IF rowsCode # "ok" THEN rowsCode ELSE SchemaObjectsCode(Seen(m).objects)
       IN  IF code = "ok" THEN Goto(m, "commit") /\ UNCHANGED outcome ELSE Throw(m, code)
    /\ UNCHANGED <<db, advisory, tx, build>>

\* COMMIT, whose answer may be lost
Commit(m) ==
    /\ pc[m] = "commit"
    /\ db' = Seen(m)
    /\ EndTransaction(m)
    /\ \E code \in {"ok", "failed"} : Answer(m, code)
    /\ Goto(m, "done")
    /\ UNCHANGED build

\* A statement or the connection fails.
Fail(m) ==
    /\ pc[m] \in InTransaction \ {"rollback"}
    /\ Throw(m, "failed")
    /\ UNCHANGED <<db, advisory, tx, build>>

\* Mutant of Rollback: the client is released with its transaction open.
RollbackForgotten(m) ==
    /\ pc[m] = "rollback"
    /\ Goto(m, "done")
    /\ UNCHANGED <<db, advisory, tx, build, outcome>>

Rollback(m) ==
    /\ pc[m] = "rollback"
    /\ EndTransaction(m)
    /\ Goto(m, "done")
    /\ UNCHANGED <<db, build, outcome>>

\* ROLLBACK fails or the process dies: the server ends the session later.
RollbackFails(m) ==
    /\ pc[m] = "rollback"
    /\ Goto(m, "abandoned")
    /\ UNCHANGED <<db, advisory, tx, build, outcome>>

ServerAborts(m) ==
    /\ pc[m] = "abandoned"
    /\ EndTransaction(m)
    /\ Goto(m, "done")
    /\ UNCHANGED <<db, build, outcome>>

-----------------------------------------------------------------------------
(* checkReadiness: statements of their own, outside any transaction *)

BeginProbe(p) ==
    /\ pc[p] = "idle"
    /\ Goto(p, "probeRows")
    /\ UNCHANGED <<db, advisory, tx, build, outcome>>

\* Without the migration table the SELECT itself fails.
ProbeRows(p) ==
    /\ pc[p] = "probeRows"
    /\ LET code == IF MigrationTable \notin db.objects THEN "failed"
                   ELSE MigrationRowsCode(db.migrations, build[p])
       IN  IF code = "ok" THEN Goto(p, "probeObjects") /\ UNCHANGED outcome
           ELSE Answer(p, code) /\ Goto(p, "done")
    /\ UNCHANGED <<db, advisory, tx, build>>

ProbeObjects(p) ==
    /\ pc[p] = "probeObjects"
    /\ Answer(p, SchemaObjectsCode(db.objects))
    /\ Goto(p, "done")
    /\ UNCHANGED <<db, advisory, tx, build>>

-----------------------------------------------------------------------------
Step(m) ==
    \/ TakeLock(m)
    \/ CreateMigrationTable(m)
    \/ ReadMigrationRows(m)
    \/ CreateObject(m)
    \/ RecordMigration(m)
    \/ Verify(m)
    \/ Commit(m)
    \/ Rollback(m)
    \/ RollbackFails(m)
    \/ ServerAborts(m)

Next ==
    \/ \E m \in Migrators : Begin(m) \/ Step(m) \/ Fail(m)
    \/ \E p \in Probes : BeginProbe(p) \/ ProbeRows(p) \/ ProbeObjects(p)

Spec == Init /\ [][Next]_vars

\* Awaited statements return, and the server ends the session of a dead client.
FairSpec == Spec /\ \A m \in Migrators : WF_vars(Step(m))

-----------------------------------------------------------------------------
(* Properties *)

\* Types of all variables, and with them the constraint that a recorded
\* migration has a positive version.
TypeOK ==
    /\ db \in Database
    /\ advisory \in Migrators \cup {NoOne}
    /\ tx \in [Migrators -> Database]
    /\ build \in [Clients -> Checksums]
    /\ pc \in [Clients -> PC]
    /\ outcome \in [Clients -> Codes]

\* The database changes once: the whole schema and its record appear together,
\* on a database that had neither, whatever fails half-way through the DDL.
MigratesWhole ==
    [][db' # db =>
        /\ \A row \in db.migrations : row.version # POSTGRES_EVENT_STORE_SCHEMA_VERSION
        /\ db.objects \cap ToSet(Objects) = {}
        /\ ToSet(Objects) \cup {MigrationTable} = db'.objects
        /\ \E m \in Migrators : db'.migrations = db.migrations \cup {RowOf(m)}]_vars

\* Migrations that race do not fail each other: a migrator meets a duplicate
\* object only where a table stood there without a migration record, and a
\* foreign checksum only where another build was recorded.
RivalsDoNotCollide ==
    \A m \in Migrators :
        /\ outcome[m] = "DUPLICATE_OBJECT" =>
             /\ db.objects \cap ToSet(Objects) # {}
             /\ db.migrations = {}
        /\ outcome[m] = "MIGRATION_CHECKSUM_MISMATCH" =>
             \E row \in db.migrations : row.checksum # build[m]

\* A client that was told ok, migrator or probe, has a database that its build
\* can work on, for good.
OkMeansUsable ==
    \A c \in Clients : outcome[c] = "ok" =>
        /\ ToSet(Objects) \cup {MigrationTable} \subseteq db.objects
        /\ db.migrations = {RowOf(c)}

\* Every migration ends, those that wait for the lock of a dead one included.
MigrationsFinish == \A m \in Migrators : (pc[m] = "lock") ~> (pc[m] = "done")
=============================================================================
