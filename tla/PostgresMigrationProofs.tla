----------------------- MODULE PostgresMigrationProofs ------------------------
(***************************************************************************)
(* Proofs about migratePostgresEventStore and checkReadiness, for any      *)
(* number of deployments and replicas, any list of objects and any         *)
(* database they may find.                                                 *)
(*                                                                         *)
(* The argument: from the advisory lock to the end of the transaction only *)
(* one migrator has anything uncommitted (LockInv), so the database it     *)
(* read is the one it commits to; a transaction is either a whole schema   *)
(* on a database without one, or changes nothing (TxOf).                   *)
(***************************************************************************)
EXTENDS PostgresMigration, FiniteSetTheorems, TLAPS

-----------------------------------------------------------------------------
(* The inductive invariant *)

Schema == ToSet(Objects) \cup {MigrationTable}

\* Statements at which a migrator holds the advisory lock.
Locked == {"table", "read", "create", "verify", "commit"}

\* The lock keeps migrators apart: what is uncommitted belongs to its holder.
LockInv ==
    \A m \in Migrators :
        /\ pc[m] \in Locked => advisory = m
        /\ tx[m] # Nothing => advisory = m

\* The transaction of m creates what the database does not have, the migration
\* table first.
Creates(m) ==
    /\ db.migrations = {}
    /\ {MigrationTable} \ db.objects \subseteq tx[m].objects
    /\ tx[m].objects \cap db.objects = {}

\* ... and has created all of it, with the row.
CreatesAll(m) ==
    /\ Creates(m)
    /\ ToSet(Objects) \subseteq tx[m].objects
    /\ tx[m].migrations = {RowOf(m)}

\* The migration of m's build is recorded already, and m adds nothing.
FindsRecord(m) ==
    /\ tx[m] = Nothing
    /\ db.migrations = {RowOf(m)}

\* What the transaction of m holds at each of its statements.
TxOf(m) ==
    /\ pc[m] \in {"idle", "lock", "table", "done"} => tx[m] = Nothing
    /\ pc[m] = "read" =>
          tx[m] = [objects |-> {MigrationTable} \ db.objects, migrations |-> {}]
    /\ pc[m] = "create" => Creates(m) /\ tx[m].migrations = {}
    /\ pc[m] = "verify" => CreatesAll(m) \/ FindsRecord(m)
    /\ pc[m] = "commit" => CreatesAll(m) \/ (FindsRecord(m) /\ Schema \subseteq db.objects)

\* What a call that has been answered knows.
OutcomeOf(c) ==
    /\ outcome[c] = "ok" => Schema \subseteq db.objects /\ db.migrations = {RowOf(c)}
    /\ outcome[c] = "DUPLICATE_OBJECT" =>
          db.objects \cap ToSet(Objects) # {} /\ db.migrations = {}
    /\ outcome[c] = "MIGRATION_CHECKSUM_MISMATCH" =>
          \E row \in db.migrations : row.checksum # build[c]

\* A probe that has seen its row.
ProbeOf(p) == pc[p] = "probeObjects" => db.migrations = {RowOf(p)}

SafetyInv ==
    /\ TypeOK
    /\ RowsStand(db)
    /\ LockInv
    /\ \A m \in Migrators : TxOf(m)
    /\ \A c \in Clients : OutcomeOf(c)
    /\ \A p \in Probes : ProbeOf(p)

-----------------------------------------------------------------------------
(* Operators of the model *)

\* What requireMigrationRows tells of a table with a primary key: a table that
\* passes holds this build's row and no other, one that lacks the version is empty.
LEMMA RowsCodeFacts ==
    ASSUME NEW d \in Database, RowsStand(d), NEW k \in Checksums
    PROVE  LET code == MigrationRowsCode(d.migrations, k)
               row == [version |-> 1, checksum |-> k]
           IN  /\ code \in {"ok", "MIGRATION_REQUIRED", "MIGRATION_VERSION_AHEAD",
                            "MIGRATION_CHECKSUM_MISMATCH"}
               /\ code = "ok" <=> d.migrations = {row}
               /\ code = "MIGRATION_REQUIRED" <=> d.migrations = {}
               /\ code = "MIGRATION_CHECKSUM_MISMATCH" => \E r \in d.migrations : r.checksum # k
<1> DEFINE M == d.migrations
           row == [version |-> 1, checksum |-> k]
<1>1. \A r \in M : r.version \in Nat \ {0} /\ r = [version |-> r.version, checksum |-> r.checksum]
  BY DEF Database, MigrationRow
<1>2. \A r, other \in M : r.version = other.version => r = other
  BY DEF RowsStand
<1> HIDE DEF M
<1>3. ASSUME \A r \in M : ~(r.version > 1)
      PROVE  \A r \in M : r.version = 1
  BY <1>1, <1>3
<1>4. CASE \E r \in M : r.version > 1
  <2>1. MigrationRowsCode(M, k) = "MIGRATION_VERSION_AHEAD"
    BY <1>4 DEF MigrationRowsCode, POSTGRES_EVENT_STORE_SCHEMA_VERSION
  <2>2. M # {row} /\ M # {}
    BY <1>4
  <2> QED
    BY <2>1, <2>2 DEF M
<1>5. CASE M = {}
  <2>1. MigrationRowsCode(M, k) = "MIGRATION_REQUIRED"
    BY <1>5 DEF MigrationRowsCode
  <2> QED
    BY <1>5, <2>1 DEF M
<1>6. CASE M # {} /\ \A r \in M : ~(r.version > 1)
  <2>1. PICK r \in M : r.version = 1
    BY <1>3, <1>6
  <2>2. \A other \in M : other = r
    BY <1>2, <1>3, <1>6, <2>1
  <2>3. M = {r} /\ r = [version |-> 1, checksum |-> r.checksum]
    BY <1>1, <2>1, <2>2
  <2>4. CASE r.checksum = k
    <3>1. MigrationRowsCode(M, k) = "ok"
      BY <1>6, <2>1, <2>4 DEF MigrationRowsCode, POSTGRES_EVENT_STORE_SCHEMA_VERSION
    <3>2. M = {row}
      BY <2>3, <2>4
    <3> QED
      BY <1>6, <3>1, <3>2 DEF M
  <2>5. CASE r.checksum # k
    <3>1. MigrationRowsCode(M, k) = "MIGRATION_CHECKSUM_MISMATCH"
      BY <1>6, <2>1, <2>3, <2>5 DEF MigrationRowsCode, POSTGRES_EVENT_STORE_SCHEMA_VERSION
    <3>2. M # {row}
      BY <2>1, <2>5
    <3> QED
      BY <1>6, <2>1, <2>5, <3>1, <3>2 DEF M
  <2> QED
    BY <2>4, <2>5
<1> QED
  BY <1>4, <1>5, <1>6

\* The next object of a migration that is not finished is one of the list.
LEMMA NextObjectFact ==
    ASSUME NEW m \in Migrators, ~ ToSet(Objects) \subseteq tx[m].objects
    PROVE  NextObject(m) \in ToSet(Objects)
<1> DEFINE T == ToSet(Objects)
           n == Len(Objects)
           A == tx[m].objects \cap T
<1>1. n \in Nat /\ DOMAIN Objects = 1 .. n
  BY MigrationAssumption
<1>2. T = {Objects[i] : i \in 1 .. n}
  BY <1>1 DEF ToSet
<1>3. IsFiniteSet(1 .. n) /\ Cardinality(1 .. n) = n
  BY <1>1, FS_Interval, SMTT(30)
<1>4. Objects \in Surjection(1 .. n, T)
  <2>1. Objects \in [1 .. n -> T]
    BY <1>1, <1>2, MigrationAssumption
  <2> QED
    BY <1>2, <2>1 DEF Surjection
<1>5. IsFiniteSet(T) /\ Cardinality(T) <= n
  BY <1>3, <1>4, FS_Surjection
<1> HIDE DEF T, n
<1>6. A \in SUBSET T /\ A # T
  BY DEF T
<1> HIDE DEF A
<1>7. /\ IsFiniteSet(A)
      /\ Cardinality(A) <= Cardinality(T)
      /\ Cardinality(T) = Cardinality(A) => T = A
  BY <1>5, <1>6, FS_Subset
<1>8. Cardinality(A) \in Nat /\ Cardinality(T) \in Nat
  BY <1>5, <1>7, FS_CardinalityType
<1>9. Cardinality(A) + 1 \in 1 .. n
  BY <1>1, <1>5, <1>6, <1>7, <1>8
<1>10. NextObject(m) = Objects[Cardinality(A) + 1]
  BY DEF NextObject, A, T
<1> QED
  BY <1>2, <1>9, <1>10 DEF T

-----------------------------------------------------------------------------
(* Steps *)

\* The initial states: any database whose rows stand in their table.
LEMMA InitSafety == Init => SafetyInv
<1> SUFFICES ASSUME Init PROVE SafetyInv
  OBVIOUS
<1>1. TypeOK
  BY MigrationAssumption
  DEF Init, TypeOK, Nothing, Database, Catalog, Clients, PC, InTransaction, Codes
<1>2. RowsStand(db)
  BY MigrationAssumption DEF Init
<1>3. ASSUME NEW c \in Clients PROVE pc[c] = "idle" /\ outcome[c] = "none"
  BY DEF Init
<1>4. LockInv /\ \A m \in Migrators : TxOf(m)
  BY <1>3 DEF Init, LockInv, TxOf, Locked, Clients
<1>5. \A c \in Clients : OutcomeOf(c)
  BY <1>3 DEF OutcomeOf
<1>6. \A p \in Probes : ProbeOf(p)
  BY <1>3 DEF ProbeOf, Clients
<1> QED
  BY <1>1, <1>2, <1>4, <1>5, <1>6 DEF SafetyInv

\* The other clients keep their place and their outcome.
Frame(c) ==
    /\ \A d \in Clients \ {c} : pc'[d] = pc[d] /\ outcome'[d] = outcome[d]
    /\ \A n \in Migrators \ {c} : tx'[n] = tx[n]

\* A step of c that commits nothing.
LEMMA StepKeeps ==
    ASSUME SafetyInv, NEW c \in Clients, UNCHANGED <<db, build>>, Frame(c), TypeOK', LockInv',
           c \in Migrators => TxOf(c)', OutcomeOf(c)', c \in Probes => ProbeOf(c)'
    PROVE  SafetyInv'
<1>1. RowsStand(db)'
  BY DEF SafetyInv, RowsStand
<1>2. ASSUME NEW m \in Migrators \ {c} PROVE TxOf(m)'
  <2>1. TxOf(m) /\ pc'[m] = pc[m] /\ tx'[m] = tx[m]
    BY DEF SafetyInv, Frame, Clients
  <2> QED
    BY <2>1 DEF TxOf, Creates, CreatesAll, FindsRecord, RowOf
<1>3. ASSUME NEW d \in Clients \ {c} PROVE OutcomeOf(d)'
  BY DEF SafetyInv, Frame, OutcomeOf, RowOf
<1>4. ASSUME NEW p \in Probes \ {c} PROVE ProbeOf(p)'
  BY DEF SafetyInv, Frame, ProbeOf, RowOf, Clients
<1> QED
  BY <1>1, <1>2, <1>3, <1>4 DEF SafetyInv

\* A step of c that changes only where c is and what it answered.
LEMMA LocalKeeps ==
    ASSUME SafetyInv, NEW c \in Clients, UNCHANGED <<db, advisory, tx, build>>,
           NEW label \in PC, Goto(c, label),
           NEW code \in Codes, Answer(c, code) \/ (code = outcome[c] /\ UNCHANGED outcome),
           label \in Locked => advisory = c,
           (c \in Migrators /\ pc'[c] = label) => TxOf(c)',
           outcome'[c] = code => OutcomeOf(c)',
           (c \in Probes /\ pc'[c] = label) => ProbeOf(c)'
    PROVE  SafetyInv'
<1>1. /\ pc' \in [Clients -> PC]
      /\ outcome' \in [Clients -> Codes]
      /\ pc'[c] = label
      /\ outcome'[c] = code
      /\ Frame(c)
  BY DEF SafetyInv, TypeOK, Goto, Answer, Frame, Clients
<1>2. TypeOK'
  BY <1>1 DEF SafetyInv, TypeOK
<1>3. LockInv'
  BY <1>1 DEF SafetyInv, LockInv, Frame, Clients
<1> QED
  BY <1>1, <1>2, <1>3, StepKeeps

\* A transaction begins with nothing.
LEMMA BeginKeeps ==
    ASSUME SafetyInv, NEW m \in Migrators, Begin(m)
    PROVE  SafetyInv'
<1>1. m \in Clients /\ m \notin Probes /\ "lock" \in PC /\ outcome[m] \in Codes
  BY MigrationAssumption DEF Clients, PC, InTransaction, SafetyInv, TypeOK
<1>2. pc[m] = "idle" /\ Goto(m, "lock") /\ UNCHANGED <<db, advisory, tx, build, outcome>>
  BY DEF Begin
<1>3. tx[m] = Nothing /\ OutcomeOf(m)
  BY <1>1, <1>2 DEF SafetyInv, TxOf
<1>4. OutcomeOf(m)'
  BY <1>2, <1>3 DEF OutcomeOf, RowOf
<1>5. pc'[m] = "lock" => TxOf(m)'
  BY <1>2, <1>3 DEF TxOf
<1> QED
  BY <1>1, <1>2, <1>4, <1>5, LocalKeeps DEF Locked

\* A migrator that gives up keeps its transaction until the rollback.
LEMMA ThrowKeeps ==
    ASSUME SafetyInv, NEW m \in Migrators, NEW code \in Codes, Throw(m, code),
           UNCHANGED <<db, advisory, tx, build>>,
           outcome'[m] = code => OutcomeOf(m)'
    PROVE  SafetyInv'
<1>1. m \in Clients /\ m \notin Probes /\ "rollback" \in PC
  BY MigrationAssumption DEF Clients, PC, InTransaction
<1>2. Goto(m, "rollback") /\ Answer(m, code)
  BY DEF Throw
<1>3. pc'[m] = "rollback" => TxOf(m)'
  BY DEF TxOf
<1> QED
  BY <1>1, <1>2, <1>3, LocalKeeps DEF Locked

\* These outcomes claim nothing of the database.
Silent == {"failed", "MIGRATION_REQUIRED", "MIGRATION_VERSION_AHEAD", "SCHEMA_INCOMPLETE"}

\* A throw that changes nothing but the answer, with a code that says nothing of
\* the rows.
LEMMA SilentThrow ==
    ASSUME SafetyInv, NEW m \in Migrators, NEW code \in Silent, Throw(m, code),
           UNCHANGED <<db, advisory, tx, build>>
    PROVE  SafetyInv'
<1>1. outcome'[m] = code => OutcomeOf(m)'
  BY DEF OutcomeOf, Silent
<1>2. code \in Codes
  BY DEF Codes, Silent
<1> QED
  BY <1>1, <1>2, ThrowKeeps

\* A mismatch is thrown for a committed row of another build.
LEMMA MismatchThrow ==
    ASSUME SafetyInv, NEW m \in Migrators, Throw(m, "MIGRATION_CHECKSUM_MISMATCH"),
           UNCHANGED <<db, advisory, tx, build>>,
           \E row \in db.migrations : row.checksum # build[m]
    PROVE  SafetyInv'
<1>1. outcome'[m] = "MIGRATION_CHECKSUM_MISMATCH" => OutcomeOf(m)'
  BY DEF OutcomeOf
<1>2. "MIGRATION_CHECKSUM_MISMATCH" \in Codes
  BY DEF Codes
<1> QED
  BY <1>1, <1>2, ThrowKeeps

\* A failed statement leads to the rollback; nothing is published.
LEMMA FailKeeps ==
    ASSUME SafetyInv, NEW m \in Migrators, Fail(m)
    PROVE  SafetyInv'
BY SilentThrow DEF Fail, Silent

\* A rollback that fails leaves the transaction to the server.
LEMMA RollbackFailsKeeps ==
    ASSUME SafetyInv, NEW m \in Migrators, RollbackFails(m)
    PROVE  SafetyInv'
<1>1. m \in Clients /\ m \notin Probes /\ "abandoned" \in PC /\ outcome[m] \in Codes
  BY MigrationAssumption DEF Clients, PC, SafetyInv, TypeOK
<1>2. Goto(m, "abandoned") /\ UNCHANGED <<db, advisory, tx, build, outcome>>
  BY DEF RollbackFails
<1>3. OutcomeOf(m)'
  BY <1>1, <1>2 DEF OutcomeOf, RowOf, SafetyInv
<1>4. pc'[m] = "abandoned" => TxOf(m)'
  BY DEF TxOf
<1> QED
  BY <1>1, <1>2, <1>3, <1>4, LocalKeeps DEF Locked

\* The advisory lock is taken when nobody has anything uncommitted.
LEMMA TakeLockKeeps ==
    ASSUME SafetyInv, NEW m \in Migrators, TakeLock(m)
    PROVE  SafetyInv'
<1>1. m \in Clients /\ m \notin Probes /\ m # NoOne
  BY MigrationAssumption DEF Clients
<1>2. /\ pc[m] = "lock" /\ advisory = NoOne /\ advisory' = m /\ Goto(m, "table")
      /\ UNCHANGED <<db, tx, build, outcome>>
  BY DEF TakeLock
<1>3. pc' \in [Clients -> PC] /\ pc'[m] = "table" /\ Frame(m)
  BY <1>1, <1>2 DEF SafetyInv, TypeOK, Goto, Frame, Clients, PC, InTransaction
<1>4. TypeOK'
  BY <1>2, <1>3 DEF SafetyInv, TypeOK
<1>5. LockInv'
  <2>1. \A n \in Migrators : pc[n] \notin Locked /\ tx[n] = Nothing
    BY <1>1, <1>2, MigrationAssumption DEF SafetyInv, LockInv
  <2> QED
    BY <1>2, <1>3, <2>1 DEF LockInv, Frame, Clients
<1>6. TxOf(m)'
  BY <1>2, <1>3 DEF TxOf, SafetyInv
<1>7. OutcomeOf(m)'
  BY <1>1, <1>2 DEF OutcomeOf, RowOf, SafetyInv
<1> QED
  BY <1>1, <1>2, <1>3, <1>4, <1>5, <1>6, <1>7, StepKeeps

\* A statement that changes only the transaction of the lock's holder.
LEMMA TxKeeps ==
    ASSUME SafetyInv, NEW m \in Migrators, pc[m] \in Locked,
           UNCHANGED <<db, advisory, build, outcome>>,
           NEW t \in Database, tx' = [tx EXCEPT ![m] = t],
           NEW label \in PC, pc' = [pc EXCEPT ![m] = label],
           tx'[m] = t /\ pc'[m] = label => TxOf(m)'
    PROVE  SafetyInv'
<1>1. m \in Clients /\ m \notin Probes
  BY MigrationAssumption DEF Clients
<1>2. /\ pc' \in [Clients -> PC] /\ tx' \in [Migrators -> Database]
      /\ tx'[m] = t /\ pc'[m] = label
      /\ Frame(m)
  BY <1>1 DEF SafetyInv, TypeOK, Frame, Clients
<1>3. TypeOK'
  BY <1>2 DEF SafetyInv, TypeOK
<1>4. LockInv'
  BY <1>2 DEF SafetyInv, LockInv, Frame, Clients
<1>5. OutcomeOf(m)'
  BY <1>1 DEF OutcomeOf, RowOf, SafetyInv
<1> QED
  BY <1>1, <1>2, <1>3, <1>4, <1>5, StepKeeps

\* A transaction with one of its two parts replaced.
LEMMA TxUpdates ==
    ASSUME TypeOK, NEW m \in Migrators, NEW X
    PROVE  /\ [tx EXCEPT ![m].objects = X] =
                [tx EXCEPT ![m] = [objects |-> X, migrations |-> tx[m].migrations]]
           /\ [tx EXCEPT ![m].migrations = X] =
                [tx EXCEPT ![m] = [objects |-> tx[m].objects, migrations |-> X]]
<1> DEFINE d == tx[m]
<1>1. d \in Database
  BY DEF TypeOK
<1> HIDE DEF d
<1>2. /\ [d EXCEPT !.objects = X] = [objects |-> X, migrations |-> d.migrations]
      /\ [d EXCEPT !.migrations = X] = [objects |-> d.objects, migrations |-> X]
  BY <1>1 DEF Database
<1> QED
  BY <1>2 DEF d

\* The migration table is created inside the transaction, under the lock.
LEMMA CreateMigrationTableKeeps ==
    ASSUME SafetyInv, NEW m \in Migrators, CreateMigrationTable(m)
    PROVE  SafetyInv'
<1> DEFINE t == [objects |-> {MigrationTable} \ db.objects, migrations |-> {}]
<1>1. /\ pc[m] = "table"
      /\ tx' = [tx EXCEPT ![m].objects = {MigrationTable} \ db.objects]
      /\ pc' = [pc EXCEPT ![m] = "read"]
      /\ UNCHANGED <<db, advisory, build, outcome>>
  BY DEF CreateMigrationTable, Goto
<1>2. tx[m] = Nothing
  BY <1>1 DEF SafetyInv, TxOf
<1>3. tx' = [tx EXCEPT ![m] = t]
  <2>1. tx' = [tx EXCEPT ![m] =
                 [objects |-> {MigrationTable} \ db.objects, migrations |-> tx[m].migrations]]
    BY <1>1, TxUpdates DEF SafetyInv
  <2> QED
    BY <1>2, <2>1 DEF Nothing
<1>4. t \in Database
  BY DEF Database, Catalog
<1>5. tx'[m] = t /\ pc'[m] = "read" => TxOf(m)'
  BY <1>1 DEF TxOf
<1>6. "table" \in Locked /\ "read" \in PC
  BY DEF Locked, PC, InTransaction
<1> HIDE DEF t
<1> QED
  BY <1>1, <1>3, <1>4, <1>5, <1>6, TxKeeps

\* What the holder of the lock sees is the database and its own writes.
LEMMA ReadMigrationRowsKeeps ==
    ASSUME SafetyInv, NEW m \in Migrators, ReadMigrationRows(m)
    PROVE  SafetyInv'
<1> DEFINE code == MigrationRowsCode(Seen(m).migrations, build[m])
<1>1. pc[m] = "read" /\ UNCHANGED <<db, advisory, tx, build>>
  BY DEF ReadMigrationRows
<1>2. /\ m \in Clients /\ m \notin Probes /\ outcome[m] \in Codes
      /\ "verify" \in PC /\ "create" \in PC
      /\ db \in Database /\ build[m] \in Checksums /\ RowsStand(db)
  BY MigrationAssumption DEF Clients, PC, InTransaction, SafetyInv, TypeOK
<1>3. /\ tx[m] = [objects |-> {MigrationTable} \ db.objects, migrations |-> {}]
      /\ advisory = m
  BY <1>1 DEF SafetyInv, TxOf, LockInv, Locked
<1>4. Seen(m).migrations = db.migrations
  BY <1>3 DEF Seen
<1>5. /\ code \in {"ok", "MIGRATION_REQUIRED", "MIGRATION_VERSION_AHEAD",
                   "MIGRATION_CHECKSUM_MISMATCH"}
      /\ code = "ok" => db.migrations = {RowOf(m)}
      /\ code = "MIGRATION_REQUIRED" => db.migrations = {}
      /\ code = "MIGRATION_CHECKSUM_MISMATCH" =>
           \E row \in db.migrations : row.checksum # build[m]
  BY <1>2, <1>4, RowsCodeFacts DEF RowOf, POSTGRES_EVENT_STORE_SCHEMA_VERSION
<1>6. UNCHANGED outcome => OutcomeOf(m)'
  BY <1>1, <1>2 DEF OutcomeOf, RowOf, SafetyInv
<1>7. CASE code = "ok"
  <2>1. Goto(m, "verify") /\ UNCHANGED outcome
    BY <1>7 DEF ReadMigrationRows
  <2>2. tx[m] = Nothing
    <3>1. MigrationTable \in db.objects
      BY <1>2, <1>5, <1>7 DEF RowsStand
    <3> QED
      BY <1>3, <3>1 DEF Nothing
  <2>3. pc'[m] = "verify" => TxOf(m)'
    BY <1>1, <1>5, <1>7, <2>2 DEF TxOf, FindsRecord, RowOf
  <2> QED
    BY <1>1, <1>2, <1>3, <1>6, <2>1, <2>3, LocalKeeps
<1>8. CASE code = "MIGRATION_REQUIRED"
  <2>1. Goto(m, "create") /\ UNCHANGED outcome
    BY <1>8 DEF ReadMigrationRows
  <2>2. pc'[m] = "create" => TxOf(m)'
    BY <1>1, <1>3, <1>5, <1>8 DEF TxOf, Creates
  <2> QED
    BY <1>1, <1>2, <1>3, <1>6, <2>1, <2>2, LocalKeeps
<1>9. CASE code \in {"MIGRATION_VERSION_AHEAD", "MIGRATION_CHECKSUM_MISMATCH"}
  <2>1. Throw(m, code)
    BY <1>9 DEF ReadMigrationRows
  <2>2. CASE code = "MIGRATION_VERSION_AHEAD"
    BY <1>1, <2>1, <2>2, SilentThrow DEF Silent
  <2>3. CASE code = "MIGRATION_CHECKSUM_MISMATCH"
    BY <1>1, <1>5, <2>1, <2>3, MismatchThrow
  <2> QED
    BY <1>9, <2>2, <2>3
<1> QED
  BY <1>5, <1>7, <1>8, <1>9

\* Creating what exists fails; nobody but the lock's holder is creating anything.
LEMMA CreateObjectKeeps ==
    ASSUME SafetyInv, NEW m \in Migrators, CreateObject(m)
    PROVE  SafetyInv'
<1> DEFINE o == NextObject(m)
           t == [objects |-> tx[m].objects \cup {o}, migrations |-> tx[m].migrations]
<1>1. /\ pc[m] = "create"
      /\ UNCHANGED <<db, advisory, build>>
      /\ ~ ToSet(Objects) \subseteq tx[m].objects
  BY DEF CreateObject
<1>2. o \in ToSet(Objects)
  BY <1>1, NextObjectFact
<1>3. Creates(m) /\ tx[m].migrations = {}
  BY <1>1 DEF SafetyInv, TxOf
<1> HIDE DEF o
<1>4. CASE o \in db.objects
  <2>1. Throw(m, "DUPLICATE_OBJECT") /\ UNCHANGED tx
    BY <1>4 DEF CreateObject, o
  <2>2. outcome'[m] = "DUPLICATE_OBJECT" => OutcomeOf(m)'
    BY <1>1, <1>2, <1>3, <1>4 DEF OutcomeOf, Creates
  <2>3. "DUPLICATE_OBJECT" \in Codes
    BY DEF Codes
  <2> QED
    BY <1>1, <2>1, <2>2, <2>3, ThrowKeeps
<1>5. CASE o \notin db.objects
  <2>1. tx' = [tx EXCEPT ![m].objects = @ \cup {o}] /\ UNCHANGED <<pc, outcome>>
    BY <1>5 DEF CreateObject, o
  <2>2. tx' = [tx EXCEPT ![m] = t]
    <3>1. tx' = [tx EXCEPT ![m].objects = tx[m].objects \cup {o}]
      BY <2>1
    <3> QED
      BY <3>1, TxUpdates DEF SafetyInv
  <2>3. pc' = [pc EXCEPT ![m] = "create"]
    BY <1>1, <2>1 DEF SafetyInv, TypeOK
  <2>4. t \in Database
    BY <1>2 DEF SafetyInv, TypeOK, Database, Catalog
  <2>5. tx'[m] = t /\ pc'[m] = "create" => TxOf(m)'
    BY <1>1, <1>3, <1>5 DEF TxOf, Creates
  <2>6. "create" \in Locked /\ "create" \in PC
    BY DEF Locked, PC, InTransaction
  <2> HIDE DEF t
  <2> QED
    BY <1>1, <2>1, <2>2, <2>3, <2>4, <2>5, <2>6, TxKeeps
<1> QED
  BY <1>4, <1>5

\* The row goes in behind the last object.
LEMMA RecordMigrationKeeps ==
    ASSUME SafetyInv, NEW m \in Migrators, RecordMigration(m)
    PROVE  SafetyInv'
<1> DEFINE t == [objects |-> tx[m].objects, migrations |-> {RowOf(m)}]
<1>1. /\ pc[m] = "create"
      /\ ToSet(Objects) \subseteq tx[m].objects
      /\ tx' = [tx EXCEPT ![m].migrations = {RowOf(m)}]
      /\ pc' = [pc EXCEPT ![m] = "verify"]
      /\ UNCHANGED <<db, advisory, build, outcome>>
  BY DEF RecordMigration, Goto
<1>2. Creates(m)
  BY <1>1 DEF SafetyInv, TxOf
<1>3. tx' = [tx EXCEPT ![m] = t]
  BY <1>1, TxUpdates DEF SafetyInv
<1>4. t \in Database
  <2>1. build[m] \in Checksums
    BY DEF SafetyInv, TypeOK, Clients
  <2>2. RowOf(m) \in MigrationRow
    BY <2>1 DEF RowOf, MigrationRow, POSTGRES_EVENT_STORE_SCHEMA_VERSION
  <2>3. tx[m].objects \in Catalog
    BY DEF SafetyInv, TypeOK, Database
  <2> QED
    BY <2>2, <2>3 DEF Database
<1>5. tx'[m] = t /\ pc'[m] = "verify" => TxOf(m)'
  BY <1>1, <1>2 DEF TxOf, Creates, CreatesAll, RowOf
<1>6. "create" \in Locked /\ "verify" \in PC
  BY DEF Locked, PC, InTransaction
<1> HIDE DEF t
<1> QED
  BY <1>1, <1>3, <1>4, <1>5, <1>6, TxKeeps

\* The verification passes only a transaction that leaves the whole schema.
LEMMA VerifyKeeps ==
    ASSUME SafetyInv, NEW m \in Migrators, Verify(m)
    PROVE  SafetyInv'
<1> DEFINE rowsCode == MigrationRowsCode(Seen(m).migrations, build[m])
           objectsCode == SchemaObjectsCode(Seen(m).objects)
<1>1. pc[m] = "verify" /\ UNCHANGED <<db, advisory, tx, build>>
  BY DEF Verify
<1>2. /\ m \in Clients /\ m \notin Probes /\ outcome[m] \in Codes /\ "commit" \in PC
      /\ advisory = m
  BY <1>1, MigrationAssumption
  DEF Clients, PC, InTransaction, SafetyInv, TypeOK, LockInv, Locked
<1>3. CreatesAll(m) \/ FindsRecord(m)
  BY <1>1 DEF SafetyInv, TxOf
<1>4. Seen(m).migrations = {RowOf(m)}
  BY <1>3 DEF Seen, CreatesAll, Creates, FindsRecord, Nothing
<1>5. rowsCode = "ok"
  BY <1>4 DEF MigrationRowsCode, RowOf, POSTGRES_EVENT_STORE_SCHEMA_VERSION
<1>6. objectsCode \in {"ok", "SCHEMA_INCOMPLETE"}
  BY DEF SchemaObjectsCode
<1>7. CASE objectsCode = "SCHEMA_INCOMPLETE"
  <2>1. Throw(m, "SCHEMA_INCOMPLETE")
    BY <1>5, <1>7 DEF Verify
  <2> QED
    BY <1>1, <2>1, SilentThrow DEF Silent
<1>8. CASE objectsCode = "ok"
  <2>1. Goto(m, "commit") /\ UNCHANGED outcome
    BY <1>5, <1>8 DEF Verify
  <2>2. Schema \subseteq Seen(m).objects
    BY <1>8 DEF SchemaObjectsCode, Schema
  <2>3. FindsRecord(m) => Schema \subseteq db.objects
    BY <2>2 DEF FindsRecord, Seen, Nothing
  <2>4. pc'[m] = "commit" => TxOf(m)'
    BY <1>1, <1>3, <2>3 DEF TxOf, FindsRecord, Creates, CreatesAll, RowOf
  <2>5. OutcomeOf(m)'
    BY <1>1, <1>2, <2>1 DEF OutcomeOf, RowOf, SafetyInv
  <2> QED
    BY <1>1, <1>2, <2>1, <2>4, <2>5, LocalKeeps
<1> QED
  BY <1>6, <1>7, <1>8

\* A transaction that ends gives its lock back and leaves nothing behind.
LEMMA EndKeeps ==
    ASSUME SafetyInv, NEW m \in Migrators, pc[m] \in {"rollback", "abandoned"},
           EndTransaction(m), Goto(m, "done"), UNCHANGED <<db, build, outcome>>
    PROVE  SafetyInv'
<1>1. m \in Clients /\ m \notin Probes /\ "done" \in PC /\ Nothing \in Database
  BY MigrationAssumption DEF Clients, PC, Nothing, Database, Catalog
<1>2. /\ pc' \in [Clients -> PC] /\ tx' \in [Migrators -> Database]
      /\ pc'[m] = "done" /\ tx'[m] = Nothing /\ Frame(m)
      /\ advisory' = IF advisory = m THEN NoOne ELSE advisory
  BY <1>1 DEF SafetyInv, TypeOK, EndTransaction, Goto, Frame, Clients
<1>3. TypeOK'
  BY <1>2 DEF SafetyInv, TypeOK
<1>4. LockInv'
  BY <1>2 DEF SafetyInv, LockInv, Locked, Frame, Clients
<1>5. TxOf(m)'
  BY <1>2 DEF TxOf
<1>6. OutcomeOf(m)'
  BY <1>1 DEF OutcomeOf, RowOf, SafetyInv
<1> QED
  BY <1>1, <1>2, <1>3, <1>4, <1>5, <1>6, StepKeeps

\* What the commit of m makes of the database: nothing, or the whole schema on a
\* database that had neither object nor record.
LEMMA CommitFacts ==
    ASSUME SafetyInv, NEW m \in Migrators, Commit(m)
    PROVE  /\ Schema \subseteq db'.objects
           /\ db'.migrations = {RowOf(m)}
           /\ \/ UNCHANGED db
              \/ /\ db.migrations = {}
                 /\ db.objects \cap ToSet(Objects) = {}
                 /\ db'.objects = Schema
                 /\ db' \in Database
                 /\ RowsStand(db')
<1>1. pc[m] = "commit" /\ db' = Seen(m) /\ db \in Database /\ tx[m] \in Database
  BY DEF Commit, SafetyInv, TypeOK
<1>2. db'.objects = db.objects \cup tx[m].objects /\ db'.migrations = db.migrations \cup tx[m].migrations
  BY <1>1 DEF Seen
<1>3. CASE CreatesAll(m)
  <2>1. db'.migrations = {RowOf(m)} /\ db.migrations = {}
    BY <1>2, <1>3 DEF CreatesAll, Creates
  <2>2. db.objects \subseteq Schema /\ tx[m].objects \subseteq Schema
    BY <1>1 DEF Database, Catalog, Schema
  <2>3. db'.objects = Schema /\ db.objects \cap ToSet(Objects) = {}
    BY <1>2, <1>3, <2>2 DEF CreatesAll, Creates, Schema
  <2>4. RowsStand(db')
    BY <2>1, <2>3 DEF RowsStand, Schema
  <2>5. db' \in Database
    <3>1. build[m] \in Checksums
      BY DEF SafetyInv, TypeOK, Clients
    <3>2. RowOf(m) \in MigrationRow
      BY <3>1 DEF RowOf, MigrationRow, POSTGRES_EVENT_STORE_SCHEMA_VERSION
    <3>3. db' = [objects |-> Schema, migrations |-> {RowOf(m)}]
      BY <1>1, <1>2, <2>1, <2>3 DEF Seen
    <3> QED
      BY <3>2, <3>3 DEF Database, Catalog, Schema
  <2> QED
    BY <2>1, <2>3, <2>4, <2>5
<1>4. CASE FindsRecord(m) /\ Schema \subseteq db.objects
  <2>1. db'.objects = db.objects /\ db'.migrations = db.migrations
    BY <1>2, <1>4 DEF FindsRecord, Nothing
  <2>2. db' = db
    <3>1. db = [objects |-> db.objects, migrations |-> db.migrations]
      BY <1>1 DEF Database
    <3>2. db' = [objects |-> db'.objects, migrations |-> db'.migrations]
      BY <1>1 DEF Seen
    <3> QED
      BY <2>1, <3>1, <3>2
  <2> QED
    BY <1>4, <2>1, <2>2 DEF FindsRecord
<1> QED
  BY <1>1, <1>3, <1>4 DEF SafetyInv, TxOf

\* A commit keeps what all calls know: who knows a row meets no change, and who
\* met a stray object keeps the database from changing.
LEMMA CommitKeeps ==
    ASSUME SafetyInv, NEW m \in Migrators, Commit(m)
    PROVE  SafetyInv'
<1>1. /\ pc[m] = "commit"
      /\ EndTransaction(m)
      /\ Goto(m, "done")
      /\ UNCHANGED build
  BY DEF Commit
<1>2. PICK code \in {"ok", "failed"} : Answer(m, code)
  BY DEF Commit
<1>3. /\ m \in Clients /\ m \notin Probes /\ "done" \in PC /\ Nothing \in Database /\ code \in Codes
      /\ advisory = m
  BY <1>1, MigrationAssumption
  DEF Clients, PC, Nothing, Database, Catalog, Codes, SafetyInv, LockInv, Locked
<1>4. /\ pc' \in [Clients -> PC] /\ tx' \in [Migrators -> Database]
      /\ outcome' \in [Clients -> Codes]
      /\ pc'[m] = "done" /\ tx'[m] = Nothing /\ outcome'[m] = code /\ Frame(m)
      /\ advisory' = NoOne
  BY <1>1, <1>2, <1>3 DEF SafetyInv, TypeOK, EndTransaction, Goto, Answer, Frame, Clients
<1>5. /\ Schema \subseteq db'.objects /\ db'.migrations = {RowOf(m)}
      /\ \/ UNCHANGED db
         \/ /\ db.migrations = {}
            /\ db.objects \cap ToSet(Objects) = {}
            /\ db' \in Database
            /\ RowsStand(db')
  BY CommitFacts
<1>6. TypeOK'
  BY <1>1, <1>4, <1>5 DEF SafetyInv, TypeOK
<1>7. LockInv'
  <2>1. ASSUME NEW n \in Migrators \ {m} PROVE pc[n] \notin Locked /\ tx[n] = Nothing
    BY <1>3 DEF SafetyInv, LockInv
  <2> QED
    BY <1>4, <2>1 DEF LockInv, Locked, Frame, Clients
<1>8. TxOf(m)' /\ OutcomeOf(m)'
  BY <1>1, <1>2, <1>4, <1>5 DEF TxOf, OutcomeOf, RowOf
<1>9. CASE UNCHANGED db
  BY <1>1, <1>3, <1>4, <1>6, <1>7, <1>8, <1>9, StepKeeps
<1>10. CASE /\ db.migrations = {}
            /\ db.objects \cap ToSet(Objects) = {}
            /\ RowsStand(db')
  <2>1. ASSUME NEW n \in Migrators \ {m} PROVE TxOf(n)'
    <3>1. pc[n] \notin Locked /\ tx[n] = Nothing
      BY <1>3 DEF SafetyInv, LockInv
    <3>2. pc'[n] = pc[n] /\ tx'[n] = tx[n]
      BY <1>4 DEF Frame, Clients
    <3> QED
      BY <3>1, <3>2 DEF TxOf, Locked
  <2>2. ASSUME NEW c \in Clients \ {m} PROVE OutcomeOf(c)'
    <3>1. OutcomeOf(c) /\ outcome'[c] = outcome[c]
      BY <1>4 DEF SafetyInv, Frame
    <3>2. outcome[c] \notin {"ok", "DUPLICATE_OBJECT", "MIGRATION_CHECKSUM_MISMATCH"}
      BY <1>10, <3>1 DEF OutcomeOf
    <3> QED
      BY <3>1, <3>2 DEF OutcomeOf
  <2>3. ASSUME NEW p \in Probes PROVE ProbeOf(p)'
    <3>1. p \in Clients \ {m}
      BY <1>3 DEF Clients
    <3>2. pc[p] # "probeObjects" /\ pc'[p] = pc[p]
      BY <1>4, <1>10, <3>1 DEF SafetyInv, ProbeOf, Frame
    <3> QED
      BY <3>2 DEF ProbeOf
  <2>4. RowsStand(db)'
    BY <1>10 DEF RowsStand
  <2> QED
    BY <1>6, <1>7, <1>8, <2>1, <2>2, <2>3, <2>4 DEF SafetyInv
<1> QED
  BY <1>5, <1>9, <1>10

-----------------------------------------------------------------------------
(* Probes *)

\* A readiness probe begins with nothing read.
LEMMA BeginProbeKeeps ==
    ASSUME SafetyInv, NEW p \in Probes, BeginProbe(p)
    PROVE  SafetyInv'
<1>1. p \in Clients /\ p \notin Migrators /\ "probeRows" \in PC /\ outcome[p] \in Codes
  BY MigrationAssumption DEF Clients, PC, SafetyInv, TypeOK
<1>2. Goto(p, "probeRows") /\ UNCHANGED <<db, advisory, tx, build, outcome>>
  BY DEF BeginProbe
<1>3. OutcomeOf(p)'
  BY <1>1, <1>2 DEF OutcomeOf, RowOf, SafetyInv
<1>4. pc'[p] = "probeRows" => ProbeOf(p)'
  BY DEF ProbeOf
<1> QED
  BY <1>1, <1>2, <1>3, <1>4, LocalKeeps DEF Locked

\* The row that a probe has seen is there to stay.
LEMMA ProbeRowsKeeps ==
    ASSUME SafetyInv, NEW p \in Probes, ProbeRows(p)
    PROVE  SafetyInv'
<1> DEFINE rowsCode == MigrationRowsCode(db.migrations, build[p])
           code == IF MigrationTable \notin db.objects THEN "failed" ELSE rowsCode
<1>1. /\ pc[p] = "probeRows" /\ UNCHANGED <<db, advisory, tx, build>>
      /\ IF code = "ok" THEN Goto(p, "probeObjects") /\ UNCHANGED outcome
         ELSE Answer(p, code) /\ Goto(p, "done")
  BY DEF ProbeRows
<1>2. /\ p \in Clients /\ p \notin Migrators /\ outcome[p] \in Codes
      /\ "probeObjects" \in PC /\ "done" \in PC
      /\ db \in Database /\ build[p] \in Checksums /\ RowsStand(db)
  BY MigrationAssumption DEF Clients, PC, SafetyInv, TypeOK
<1>3. /\ rowsCode \in {"ok", "MIGRATION_REQUIRED", "MIGRATION_VERSION_AHEAD",
                       "MIGRATION_CHECKSUM_MISMATCH"}
      /\ rowsCode = "ok" => db.migrations = {RowOf(p)}
      /\ rowsCode = "MIGRATION_CHECKSUM_MISMATCH" =>
           \E row \in db.migrations : row.checksum # build[p]
  BY <1>2, RowsCodeFacts DEF RowOf, POSTGRES_EVENT_STORE_SCHEMA_VERSION
<1> HIDE DEF rowsCode
<1>4. /\ code \in Codes
      /\ code = "ok" => db.migrations = {RowOf(p)}
      /\ code = "MIGRATION_CHECKSUM_MISMATCH" =>
           \E row \in db.migrations : row.checksum # build[p]
      /\ code # "DUPLICATE_OBJECT"
  BY <1>3 DEF Codes
<1> HIDE DEF code
<1>5. CASE code = "ok"
  <2>1. pc'[p] = "probeObjects" => ProbeOf(p)'
    BY <1>1, <1>4, <1>5 DEF ProbeOf, RowOf
  <2>2. OutcomeOf(p)'
    BY <1>1, <1>2, <1>5 DEF OutcomeOf, RowOf, SafetyInv
  <2> QED
    BY <1>1, <1>2, <1>5, <2>1, <2>2, LocalKeeps DEF Locked
<1>6. CASE code # "ok"
  <2>1. pc'[p] = "done" => ProbeOf(p)'
    BY DEF ProbeOf
  <2>2. outcome'[p] = code => OutcomeOf(p)'
    BY <1>1, <1>4, <1>6 DEF OutcomeOf
  <2> QED
    BY <1>1, <1>2, <1>4, <1>6, <2>1, <2>2, LocalKeeps DEF Locked
<1> QED
  BY <1>5, <1>6

\* A probe says ok with its row on record and the whole schema in the catalog.
LEMMA ProbeObjectsKeeps ==
    ASSUME SafetyInv, NEW p \in Probes, ProbeObjects(p)
    PROVE  SafetyInv'
<1> DEFINE code == SchemaObjectsCode(db.objects)
<1>1. /\ pc[p] = "probeObjects" /\ UNCHANGED <<db, advisory, tx, build>>
      /\ Answer(p, code) /\ Goto(p, "done")
  BY DEF ProbeObjects
<1>2. p \in Clients /\ p \notin Migrators /\ "done" \in PC
  BY MigrationAssumption DEF Clients, PC
<1>3. db.migrations = {RowOf(p)}
  BY <1>1 DEF SafetyInv, ProbeOf
<1>4. /\ code \in {"ok", "SCHEMA_INCOMPLETE"}
      /\ code = "ok" => Schema \subseteq db.objects
  BY DEF SchemaObjectsCode, Schema
<1> HIDE DEF code
<1>5. outcome'[p] = code => OutcomeOf(p)'
  BY <1>1, <1>3, <1>4 DEF OutcomeOf, RowOf
<1>6. pc'[p] = "done" => ProbeOf(p)'
  BY DEF ProbeOf
<1> QED
  BY <1>1, <1>2, <1>4, <1>5, <1>6, LocalKeeps DEF Locked, Codes

-----------------------------------------------------------------------------
(* The theorems *)

\* Every step keeps the invariant: one case per action.
LEMMA StepSafety == SafetyInv /\ [Next]_vars => SafetyInv'
<1> SUFFICES ASSUME SafetyInv, [Next]_vars PROVE SafetyInv'
  OBVIOUS
<1>1. ASSUME NEW m \in Migrators, Begin(m) \/ Step(m) \/ Fail(m)
      PROVE  SafetyInv'
  <2>1. CASE Begin(m)
    BY <2>1, BeginKeeps
  <2>2. CASE Fail(m)
    BY <2>2, FailKeeps
  <2>3. CASE Rollback(m) \/ ServerAborts(m)
    BY <2>3, EndKeeps DEF Rollback, ServerAborts
  <2>4. CASE Step(m) /\ ~(Rollback(m) \/ ServerAborts(m))
    BY <2>4, TakeLockKeeps, CreateMigrationTableKeeps, ReadMigrationRowsKeeps,
       CreateObjectKeeps, RecordMigrationKeeps, VerifyKeeps, CommitKeeps, RollbackFailsKeeps
    DEF Step
  <2> QED
    BY <1>1, <2>1, <2>2, <2>3, <2>4 DEF Step
<1>2. ASSUME NEW p \in Probes, BeginProbe(p) \/ ProbeRows(p) \/ ProbeObjects(p)
      PROVE  SafetyInv'
  BY <1>2, BeginProbeKeeps, ProbeRowsKeeps, ProbeObjectsKeeps
<1>3. CASE UNCHANGED vars
  BY <1>3 DEF vars, SafetyInv, TypeOK, RowsStand, LockInv, TxOf, Creates, CreatesAll, FindsRecord,
     OutcomeOf, ProbeOf, RowOf
<1> QED
  BY <1>1, <1>2, <1>3 DEF Next

\* The inductive invariant holds throughout.
THEOREM Safety == Spec => []SafetyInv
BY InitSafety, StepSafety, PTL DEF Spec

\* Types of all variables, the CHECK on the migrations' version among them.
THEOREM TypeCorrect == Spec => []TypeOK
<1>1. SafetyInv => TypeOK
  BY DEF SafetyInv
<1> QED
  BY Safety, <1>1, PTL

\* However many deployments migrate at once, none fails another.
THEOREM RivalsNeverCollide == Spec => []RivalsDoNotCollide
<1>1. SafetyInv => RivalsDoNotCollide
  BY DEF SafetyInv, OutcomeOf, RivalsDoNotCollide, Clients
<1> QED
  BY Safety, <1>1, PTL

\* Whoever is told ok, migrator or probe, has the schema and the record of its own
\* build, and keeps them.
THEOREM OkAlwaysUsable == Spec => []OkMeansUsable
<1>1. SafetyInv => OkMeansUsable
  BY DEF SafetyInv, OutcomeOf, OkMeansUsable, Schema
<1> QED
  BY Safety, <1>1, PTL

\* The database changes only from one without any of the objects and without a
\* record to one with all of them and one record.
THEOREM AlwaysMigratesWhole == Spec => MigratesWhole
<1> DEFINE Whole ==
             db' # db =>
                /\ \A row \in db.migrations : row.version # POSTGRES_EVENT_STORE_SCHEMA_VERSION
                /\ db.objects \cap ToSet(Objects) = {}
                /\ ToSet(Objects) \cup {MigrationTable} = db'.objects
                /\ \E m \in Migrators : db'.migrations = db.migrations \cup {RowOf(m)}
<1>1. SafetyInv /\ [Next]_vars => [Whole]_vars
  <2> SUFFICES ASSUME SafetyInv, Next PROVE Whole
    OBVIOUS
  <2>1. ASSUME NEW m \in Migrators, Commit(m) PROVE Whole
    BY <2>1, CommitFacts DEF Schema
  <2>2. ASSUME NEW m \in Migrators, Begin(m) \/ Step(m) \/ Fail(m), ~ Commit(m)
        PROVE  db' = db
    BY <2>2 DEF Begin, Step, Fail, TakeLock, CreateMigrationTable, ReadMigrationRows, CreateObject,
       RecordMigration, Verify, Rollback, RollbackFails, ServerAborts
  <2>3. ASSUME NEW p \in Probes, BeginProbe(p) \/ ProbeRows(p) \/ ProbeObjects(p)
        PROVE  db' = db
    BY <2>3 DEF BeginProbe, ProbeRows, ProbeObjects
  <2> QED
    BY <2>1, <2>2, <2>3 DEF Next
<1> QED
  BY Safety, <1>1, PTL DEF Spec, MigratesWhole
=============================================================================
