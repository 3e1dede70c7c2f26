------------------------ MODULE SqliteEventStoreProofs ------------------------
(***************************************************************************)
(* Proofs about SqliteEventStore, for any number of processes, streams and *)
(* requests: the committed rows are the port's streams, a transaction that *)
(* has compared the version still sees that version when it commits, and   *)
(* nothing an answer reported is taken back.                               *)
(***************************************************************************)
EXTENDS SqliteEventStore, StreamLemmas, FiniteSetTheorems

-----------------------------------------------------------------------------
(* The inductive invariant *)

\* The committed rows of a stream: a sequence, each event under its own id and
\* version.
StreamIsWhole(id) ==
    /\ rows[id] \in Seq(ContinuationEvent)
    /\ \A v \in 1 .. Len(rows[id]) :
        rows[id][v].continuationId = id /\ rows[id][v].version = v

RowsInv == \A id \in Ids : StreamIsWhole(id)

\* A call holds the write lock exactly while it is inside a transaction.
LockInv == \A c \in Calls : pc[c] \in InTransaction <=> writer = c

\* What a call asks is a request from its first statement on, of the kind that
\* the statement belongs to.
RequestInv ==
    \A c \in Calls : pc[c] # "idle" =>
        /\ req[c] \in Requests
        /\ pc[c] = "load" => req[c].op = "load"
        /\ pc[c] \in InTransaction \cup {"append"} => req[c].op = "append"

\* Once it has compared, a transaction stays at the end of its stream: nobody
\* else commits a row before it does.
BatchInv ==
    \A c \in Calls :
        /\ pc[c] \in {"compare", "append"} => inserted[c] = 0
        /\ pc[c] = "idle" => inserted[c] = 0
        /\ pc[c] \in {"insert", "commit"} =>
             /\ Len(rows[Id(c)]) = req[c].expectedVersion
             /\ Serializes(req[c])
        /\ pc[c] = "insert" => inserted[c] < Len(req[c].events)
        /\ pc[c] = "commit" => inserted[c] = Len(req[c].events)

\* What call c answered, stated so that a longer stream keeps it.
AnswerStands(c) ==
    /\ outcome[c].code # "CORRUPT"
    /\ \A v \in DOMAIN outcome[c].events :
        v \in DOMAIN rows[Id(c)] /\ rows[Id(c)][v] = outcome[c].events[v]
    /\ (req[c].op = "append" /\ outcome[c].code = "ok") =>
         \A i \in 1 .. Len(req[c].events) :
             /\ req[c].expectedVersion + i \in DOMAIN rows[Id(c)]
             /\ rows[Id(c)][req[c].expectedVersion + i] = req[c].events[i]

AnswerInv ==
    \A c \in Calls :
        /\ pc[c] = "done" => AnswerStands(c)
        /\ pc[c] = "rollback" =>
             /\ outcome[c].code \in {"VERSION_CONFLICT", "REJECTED", "failed"}
             /\ outcome[c].events = << >>

SafetyInv ==
    /\ TypeOK
    /\ RowsInv
    /\ LockInv
    /\ RequestInv
    /\ BatchInv
    /\ AnswerInv

-----------------------------------------------------------------------------
(* Lemmas on streams and requests *)

\* COALESCE(MAX(version), 0) is the length of the stream.
LEMMA CurrentVersionIsLength ==
    ASSUME NEW id \in Ids, RowsInv
    PROVE  CurrentVersion(id) = Len(rows[id]) /\ Len(rows[id]) \in Nat
<1> DEFINE n == Len(rows[id])
<1>1. n \in Nat /\ DOMAIN rows[id] = 1 .. n
  BY LenProperties DEF RowsInv, StreamIsWhole
<1> HIDE DEF n
<1>2. CASE n = 0
  BY <1>1, <1>2 DEF CurrentVersion, n
<1>3. CASE n # 0
  <2>1. n \in 1 .. n /\ \A y \in 1 .. n : n >= y
    BY <1>1, <1>3
  <2>2. \A x \in 1 .. n : (\A y \in 1 .. n : x >= y) => x = n
    BY <1>1, <1>3
  <2>3. Max(1 .. n) = n
    BY <2>1, <2>2 DEF Max
  <2> QED
    BY <1>1, <1>3, <2>1, <2>3 DEF CurrentVersion, n
<1> QED
  BY <1>2, <1>3

\* Every stream passes load's tests.
LEMMA StreamsLoad ==
    ASSUME NEW id \in Ids, RowsInv
    PROVE  WholeStream(id)
<1>1. Len(rows[id]) \in Nat /\ DOMAIN rows[id] = 1 .. Len(rows[id])
  BY LenProperties DEF RowsInv, StreamIsWhole
<1>2. Cardinality(1 .. Len(rows[id])) = Len(rows[id])
  BY <1>1, FS_Interval
<1> QED
  BY <1>1, <1>2 DEF WholeStream, RowsInv, StreamIsWhole

\* The request of a call that is inside append.
LEMMA AppendFacts ==
    ASSUME SafetyInv, NEW c \in Calls, pc[c] \in InTransaction \cup {"append"}
    PROVE  /\ req[c].op = "append"
           /\ Id(c) \in Ids
           /\ req[c].expectedVersion \in Nat
           /\ req[c].events \in Seq(ContinuationEvent)
           /\ Len(req[c].events) \in Nat
<1>1. req[c] \in Requests /\ req[c].op = "append"
  BY DEF SafetyInv, RequestInv, InTransaction
<1>2. req[c] \in AppendRequest
  BY <1>1, SqliteAssumption DEF LoadRequest
<1>3. req[c].events \in Seq(ContinuationEvent)
  BY <1>2 DEF AppendRequest
<1> QED
  BY <1>1, <1>2, <1>3, LenProperties DEF AppendRequest, Id

\* The request of a call that has not ended or has: its stream exists.
LEMMA RequestFacts ==
    ASSUME SafetyInv, NEW c \in Calls, pc[c] # "idle"
    PROVE  req[c] \in Requests /\ Id(c) \in Ids
BY SqliteAssumption DEF SafetyInv, RequestInv, LoadRequest, AppendRequest, Id

-----------------------------------------------------------------------------
(* Each action keeps the invariant *)

\* A step that leaves the rows and the requests alone and moves one call only:
\* what it owes is the lock and what it says of that call.
LEMMA QuietStep ==
    ASSUME SafetyInv, NEW c \in Calls, TypeOK', UNCHANGED <<rows, req>>, LockInv',
           pc[c] # "idle",
           \A d \in Calls \ {c} : /\ pc'[d] = pc[d]
                                  /\ inserted'[d] = inserted[d]
                                  /\ outcome'[d] = outcome[d],
           pc'[c] \in {"load", "append"} => pc'[c] = pc[c],
           pc'[c] \in InTransaction => pc[c] \in InTransaction \cup {"append"},
           pc'[c] \in {"compare", "append", "idle"} => inserted'[c] = 0,
           pc'[c] \in {"insert", "commit"} =>
             Len(rows[Id(c)]) = req[c].expectedVersion /\ Serializes(req[c]),
           pc'[c] = "insert" => inserted'[c] < Len(req[c].events),
           pc'[c] = "commit" => inserted'[c] = Len(req[c].events),
           pc'[c] = "done" => AnswerStands(c)',
           pc'[c] = "rollback" =>
             /\ outcome'[c].code \in {"VERSION_CONFLICT", "REJECTED", "failed"}
             /\ outcome'[c].events = << >>
    PROVE  SafetyInv'
<1>1. RowsInv'
  BY DEF SafetyInv, RowsInv, StreamIsWhole
<1>2. RequestInv'
  BY DEF SafetyInv, RequestInv, InTransaction
<1>3. BatchInv'
  BY DEF SafetyInv, BatchInv, Id, Serializes
<1>4. \A d \in Calls \ {c} : AnswerStands(d) => AnswerStands(d)'
  BY DEF AnswerStands, Id
<1>5. AnswerInv'
  BY <1>4 DEF SafetyInv, AnswerInv
<1> QED
  BY <1>1, <1>2, <1>3, <1>5 DEF SafetyInv

\* load reads committed rows.
LEMMA LoadKeeps == ASSUME SafetyInv, NEW c \in Calls, Load(c) PROVE SafetyInv'
<1>1. Id(c) \in Ids /\ req[c].op = "load"
  BY RequestFacts DEF SafetyInv, RequestInv, Load
<1>2. /\ Answer(c, "ok", rows[Id(c)], 0)
      /\ Goto(c, "done")
      /\ UNCHANGED <<rows, writer, inserted, req>>
  BY <1>1, StreamsLoad DEF Load, SafetyInv
<1>3. rows[Id(c)] \in Seq(ContinuationEvent)
  BY <1>1 DEF SafetyInv, RowsInv, StreamIsWhole
<1>4. TypeOK'
  BY <1>2, <1>3 DEF SafetyInv, TypeOK, Answer, Goto, Codes, PC
<1>5. LockInv'
  BY <1>2 DEF Load, SafetyInv, TypeOK, LockInv, Goto, InTransaction
<1>6. AnswerStands(c)'
  BY <1>1, <1>2 DEF AnswerStands, Answer, Id, SafetyInv, TypeOK
<1> QED
  BY <1>2, <1>4, <1>5, <1>6, QuietStep DEF Load, Goto, Answer, SafetyInv, TypeOK, InTransaction

\* BEGIN IMMEDIATE takes the one write lock.
LEMMA BeginImmediateKeeps ==
    ASSUME SafetyInv, NEW c \in Calls, BeginImmediate(c)
    PROVE  SafetyInv'
<1>1. TypeOK'
  BY DEF SafetyInv, TypeOK, BeginImmediate, Goto, PC, InTransaction
<1>2. LockInv'
  BY SqliteAssumption DEF SafetyInv, TypeOK, LockInv, BeginImmediate, Goto, InTransaction
<1>3. inserted[c] = 0
  BY DEF SafetyInv, BatchInv, BeginImmediate
<1> QED
  BY <1>1, <1>2, <1>3, QuietStep DEF BeginImmediate, Goto, SafetyInv, TypeOK, InTransaction

\* A call outside any transaction that only fails.
LEMMA BusyKeeps == ASSUME SafetyInv, NEW c \in Calls, Busy(c) PROVE SafetyInv'
<1>1. TypeOK'
  BY EmptySeq DEF SafetyInv, TypeOK, Busy, Answer, Goto, Codes, PC
<1>2. LockInv'
  BY DEF SafetyInv, TypeOK, LockInv, Busy, Goto, InTransaction
<1>3. AnswerStands(c)'
  BY DEF AnswerStands, Busy, Answer, SafetyInv, TypeOK
<1> QED
  BY <1>1, <1>2, <1>3, QuietStep DEF Busy, Goto, Answer, SafetyInv, TypeOK, InTransaction

\* The expected version is compared under the write lock.
LEMMA CompareKeeps == ASSUME SafetyInv, NEW c \in Calls, Compare(c) PROVE SafetyInv'
<1>1. /\ CurrentVersion(Id(c)) = Len(rows[Id(c)])
      /\ Len(rows[Id(c)]) \in Nat
      /\ Len(req[c].events) \in Nat
      /\ req[c].events # << >> => Len(req[c].events) > 0
  BY AppendFacts, CurrentVersionIsLength, EmptySeq DEF SafetyInv, Compare, InTransaction
<1>2. inserted[c] = 0 /\ writer = c /\ pc[c] = "compare" /\ UNCHANGED <<rows, writer, inserted, req>>
  BY DEF SafetyInv, BatchInv, LockInv, Compare, InTransaction
<1>3. ASSUME NEW code \in {"VERSION_CONFLICT", "REJECTED"}, NEW version \in Nat,
             Answer(c, code, << >>, version), Goto(c, "rollback")
      PROVE  SafetyInv'
  <2>1. TypeOK'
    BY <1>2, <1>3, EmptySeq
       DEF SafetyInv, TypeOK, Answer, Goto, Codes, PC, InTransaction
  <2>2. LockInv'
    BY <1>2, <1>3 DEF SafetyInv, TypeOK, LockInv, Goto, InTransaction
  <2> QED
    BY <1>2, <1>3, <2>1, <2>2, QuietStep DEF Goto, Answer, SafetyInv, TypeOK, InTransaction
<1>4. CASE /\ CurrentVersion(Id(c)) = req[c].expectedVersion
           /\ Serializes(req[c])
           /\ Goto(c, IF req[c].events = << >> THEN "commit" ELSE "insert")
           /\ UNCHANGED outcome
  <2>1. TypeOK'
    BY <1>2, <1>4 DEF SafetyInv, TypeOK, Goto, PC, InTransaction
  <2>2. LockInv'
    BY <1>2, <1>4 DEF SafetyInv, TypeOK, LockInv, Goto, InTransaction
  <2>3. Len(<< >>) = 0
    BY EmptySeq
  <2> QED
    BY <1>1, <1>2, <1>4, <2>1, <2>2, <2>3, QuietStep
       DEF Goto, SafetyInv, TypeOK, InTransaction
<1> QED
  BY <1>1, <1>3, <1>4 DEF Compare

\* The batch is written inside the transaction only.
LEMMA InsertKeeps == ASSUME SafetyInv, NEW c \in Calls, Insert(c) PROVE SafetyInv'
<1>1. /\ Len(rows[Id(c)]) = req[c].expectedVersion
      /\ Serializes(req[c])
      /\ inserted[c] < Len(req[c].events)
      /\ writer = c
      /\ inserted[c] \in Nat
  BY DEF SafetyInv, TypeOK, BatchInv, LockInv, Insert, InTransaction
<1>2. Len(req[c].events) \in Nat
  BY AppendFacts DEF Insert, InTransaction
<1>3. inserted'[c] = inserted[c] + 1
  BY DEF Insert, SafetyInv, TypeOK
<1>4. TypeOK'
  BY <1>1 DEF SafetyInv, TypeOK, Insert, Goto, PC, InTransaction
<1>5. LockInv'
  BY DEF SafetyInv, TypeOK, LockInv, Insert, Goto, InTransaction
<1>6. \/ pc'[c] = "commit" /\ inserted'[c] = Len(req[c].events)
      \/ pc'[c] = "insert" /\ inserted'[c] < Len(req[c].events)
  BY <1>1, <1>2, <1>3 DEF Insert, Goto, SafetyInv, TypeOK
<1> QED
  BY <1>1, <1>4, <1>5, <1>6, QuietStep
     DEF Insert, Goto, SafetyInv, TypeOK, InTransaction

\* A failed insert leads to the rollback.
LEMMA FailKeeps == ASSUME SafetyInv, NEW c \in Calls, Fail(c) PROVE SafetyInv'
<1>1. TypeOK'
  BY EmptySeq DEF SafetyInv, TypeOK, Fail, Answer, Goto, Codes, PC, InTransaction
<1>2. LockInv'
  BY DEF SafetyInv, TypeOK, LockInv, Fail, Goto, InTransaction
<1>3. /\ outcome'[c].code = "failed"
      /\ outcome'[c].events = << >>
  BY DEF Fail, Answer, SafetyInv, TypeOK
<1>4. AnswerStands(c)'
  BY <1>3 DEF AnswerStands
<1> QED
  BY <1>1, <1>2, <1>3, <1>4, QuietStep DEF Fail, Goto, Answer, SafetyInv, TypeOK, InTransaction

\* ROLLBACK returns the lock and writes nothing.
LEMMA RollbackKeeps == ASSUME SafetyInv, NEW c \in Calls, Rollback(c) PROVE SafetyInv'
<1>1. TypeOK'
  BY DEF SafetyInv, TypeOK, Rollback, EndTransaction, Goto, PC
<1>2. LockInv'
  BY SqliteAssumption
     DEF SafetyInv, TypeOK, LockInv, Rollback, EndTransaction, Goto, InTransaction
<1>3. /\ outcome'[c].code \in {"VERSION_CONFLICT", "REJECTED", "failed"}
      /\ outcome'[c].events = << >>
  BY DEF AnswerInv, Rollback, SafetyInv
<1>4. AnswerStands(c)'
  BY <1>3 DEF AnswerStands
<1> QED
  BY <1>1, <1>2, <1>4, QuietStep
     DEF Rollback, EndTransaction, Goto, SafetyInv, TypeOK, InTransaction

\* A crash frees the lock and loses what was not committed.
LEMMA CrashKeeps == ASSUME SafetyInv, NEW c \in Calls, Crash(c) PROVE SafetyInv'
<1>1. TypeOK'
  BY EmptySeq DEF SafetyInv, TypeOK, Crash, EndTransaction, Answer, Goto, Codes, PC
<1>2. LockInv'
  BY SqliteAssumption
     DEF SafetyInv, TypeOK, LockInv, Crash, EndTransaction, Goto, InTransaction
<1>3. AnswerStands(c)'
  BY DEF AnswerStands, Crash, Answer, SafetyInv, TypeOK
<1> QED
  BY <1>1, <1>2, <1>3, QuietStep
     DEF Crash, EndTransaction, Answer, Goto, SafetyInv, TypeOK, InTransaction

\* A new call holds nothing.
LEMMA InvokeKeeps == ASSUME SafetyInv, NEW c \in Calls, Invoke(c) PROVE SafetyInv'
<1> PICK r \in Requests : req' = [req EXCEPT ![c] = r] /\ Goto(c, r.op)
  BY DEF Invoke
<1>1. r.op \in {"load", "append"}
  BY SqliteAssumption DEF LoadRequest, AppendRequest
<1>2. TypeOK'
  BY <1>1 DEF SafetyInv, TypeOK, Invoke, Goto, PC
<1>3. RowsInv'
  BY DEF Invoke, SafetyInv, RowsInv, StreamIsWhole
<1>4. LockInv'
  BY <1>1 DEF Invoke, SafetyInv, TypeOK, LockInv, Goto, InTransaction
<1>5. RequestInv'
  BY <1>1 DEF Invoke, SafetyInv, TypeOK, RequestInv, Goto, InTransaction
<1>6. BatchInv'
  BY <1>1 DEF Invoke, SafetyInv, TypeOK, BatchInv, Goto, Id, Serializes
<1>7. \A d \in Calls \ {c} : AnswerStands(d) => AnswerStands(d)'
  BY DEF AnswerStands, Id, Invoke, SafetyInv, TypeOK
<1>8. AnswerInv'
  BY <1>1, <1>7 DEF Invoke, SafetyInv, TypeOK, AnswerInv, Goto
<1> QED
  BY <1>2, <1>3, <1>4, <1>5, <1>6, <1>8 DEF SafetyInv

\* COMMIT appends the whole batch to the stream, at the version that was compared.
LEMMA CommitAppends ==
    ASSUME SafetyInv, NEW c \in Calls, Commit(c)
    PROVE  /\ Id(c) \in Ids
           /\ req[c].op = "append"
           /\ rows[Id(c)] \in Seq(ContinuationEvent)
           /\ req[c].events \in Seq(ContinuationEvent)
           /\ Len(rows[Id(c)]) = req[c].expectedVersion
           /\ SerializesAppendBatch(Id(c), Len(rows[Id(c)]), req[c].events)
           /\ rows' = [rows EXCEPT ![Id(c)] = rows[Id(c)] \o req[c].events]
<1>1. /\ req[c].op = "append"
      /\ Id(c) \in Ids
      /\ req[c].events \in Seq(ContinuationEvent)
  BY AppendFacts DEF Commit, InTransaction
<1>2. rows[Id(c)] \in Seq(ContinuationEvent)
  BY <1>1 DEF SafetyInv, RowsInv, StreamIsWhole
<1>3. /\ Len(rows[Id(c)]) = req[c].expectedVersion
      /\ Serializes(req[c])
      /\ inserted[c] = Len(req[c].events)
  BY DEF SafetyInv, BatchInv, Commit
<1>4. RowsWithBatch(c) = rows[Id(c)] \o req[c].events
  <2> DEFINE s == rows[Id(c)]
             t == req[c].events
  <2>1. RowsWithBatch(c) = [v \in DOMAIN s \cup (Len(s) + 1 .. Len(s) + Len(t)) |->
                              IF v > Len(s) THEN t[v - Len(s)] ELSE s[v]]
    BY <1>3 DEF RowsWithBatch
  <2>2. s \in Seq(ContinuationEvent) /\ t \in Seq(ContinuationEvent)
    BY <1>1, <1>2
  <2> HIDE DEF s, t
  <2>3. RowsWithBatch(c) = s \o t
    BY <2>1, <2>2, BatchIsAppended
  <2> QED
    BY <2>3 DEF s, t
<1> QED
  BY <1>1, <1>2, <1>3, <1>4 DEF Commit, Serializes, Id

\* What every call finds of a stream after a commit: the rows it had, in place.
LEMMA CommitExtends ==
    ASSUME SafetyInv, NEW c \in Calls, Commit(c)
    PROVE  \A id \in Ids : \A v \in DOMAIN rows[id] :
             v \in DOMAIN rows'[id] /\ rows'[id][v] = rows[id][v]
<1> SUFFICES ASSUME NEW id \in Ids, NEW v \in DOMAIN rows[id]
             PROVE  v \in DOMAIN rows'[id] /\ rows'[id][v] = rows[id][v]
  OBVIOUS
<1>1. CASE id = Id(c)
  <2>1. rows'[id] = rows[id] \o req[c].events
    BY <1>1, CommitAppends DEF SafetyInv, TypeOK
  <2> DEFINE s == rows[id]
             t == req[c].events
  <2>2. s \in Seq(ContinuationEvent) /\ t \in Seq(ContinuationEvent)
    BY <1>1, CommitAppends
  <2> HIDE DEF s, t
  <2>3. \A w \in DOMAIN s : w \in DOMAIN (s \o t) /\ (s \o t)[w] = s[w]
    BY <2>2, AppendKeeps
  <2> QED
    BY <2>1, <2>3 DEF s, t
<1>2. CASE id # Id(c)
  BY <1>2, CommitAppends DEF SafetyInv, TypeOK
<1> QED
  BY <1>1, <1>2

\* COMMIT publishes the whole batch and returns the lock.
LEMMA CommitKeeps == ASSUME SafetyInv, NEW c \in Calls, Commit(c) PROVE SafetyInv'
<1> DEFINE i == Id(c)
           batch == req[c].events
<1>1. /\ i \in Ids
      /\ req[c].op = "append"
      /\ rows[i] \in Seq(ContinuationEvent)
      /\ batch \in Seq(ContinuationEvent)
      /\ Len(rows[i]) = req[c].expectedVersion
      /\ SerializesAppendBatch(i, Len(rows[i]), batch)
      /\ rows' = [rows EXCEPT ![i] = rows[i] \o batch]
  BY CommitAppends
<1>2. /\ pc[c] = "commit" /\ pc' = [pc EXCEPT ![c] = "done"]
      /\ writer' = NoCall /\ inserted' = [inserted EXCEPT ![c] = 0]
      /\ UNCHANGED req
  BY DEF Commit, EndTransaction, Goto
<1>3. /\ \A d \in Calls \ {c} : outcome'[d] = outcome[d]
      /\ outcome'[c].code \in {"ok", "failed"}
      /\ outcome'[c].events = << >>
  BY DEF Commit, Answer, SafetyInv, TypeOK
<1>4. TypeOK'
  <2>1. outcome' \in [Calls -> [code : Codes, events : Seq(ContinuationEvent),
                                actualVersion : Nat]]
    BY EmptySeq DEF SafetyInv, TypeOK, Commit, Answer, Codes
  <2> QED
    BY <1>1, <1>2, <2>1 DEF SafetyInv, TypeOK, PC
<1>5. rows'[i] = rows[i] \o batch /\ \A id \in Ids \ {i} : rows'[id] = rows[id]
  BY <1>1 DEF SafetyInv, TypeOK
<1>6. /\ rows'[i] \in Seq(ContinuationEvent)
      /\ Len(rows[i]) \in Nat /\ Len(batch) \in Nat
      /\ Len(rows'[i]) = Len(rows[i]) + Len(batch)
      /\ \A v \in 1 .. Len(rows[i]) : rows'[i][v] = rows[i][v]
      /\ \A k \in 1 .. Len(batch) :
           /\ Len(rows[i]) + k \in DOMAIN rows'[i]
           /\ rows'[i][Len(rows[i]) + k] = batch[k]
  <2> DEFINE s == rows[i]
  <2> HIDE DEF i, batch, s
  <2>1. s \in Seq(ContinuationEvent) /\ batch \in Seq(ContinuationEvent)
    BY <1>1 DEF s
  <2>2. Len(s) \in Nat /\ Len(batch) \in Nat
    BY <2>1, LenProperties
  <2>3. /\ s \o batch \in Seq(ContinuationEvent)
        /\ Len(s \o batch) = Len(s) + Len(batch)
        /\ \A v \in 1 .. Len(s) : (s \o batch)[v] = s[v]
        /\ \A k \in 1 .. Len(batch) :
             /\ Len(s) + k \in DOMAIN (s \o batch)
             /\ (s \o batch)[Len(s) + k] = batch[k]
    BY <2>1, AppendKeeps
  <2> QED
    BY <1>5, <2>2, <2>3 DEF s
<1>7. RowsInv'
  <2>1. ASSUME NEW v \in 1 .. Len(rows'[i])
        PROVE  rows'[i][v].continuationId = i /\ rows'[i][v].version = v
    <3>1. CASE v <= Len(rows[i])
      BY <1>1, <1>6, <2>1, <3>1 DEF SafetyInv, RowsInv, StreamIsWhole
    <3>2. CASE v > Len(rows[i])
      <4> DEFINE k == v - Len(rows[i])
      <4>1. k \in 1 .. Len(batch) /\ Len(rows[i]) + k = v
        <5> DEFINE m == Len(rows[i])
                   n == Len(batch)
        <5>1. m \in Nat /\ n \in Nat /\ v \in 1 .. m + n /\ v > m
          BY <1>6, <2>1, <3>2
        <5> HIDE DEF m, n
        <5>2. v - m \in 1 .. n /\ m + (v - m) = v
          BY <5>1
        <5> QED
          BY <5>2 DEF m, n
      <4>2. rows'[i][v] = batch[k]
        BY <1>6, <4>1
      <4> QED
        BY <1>1, <4>1, <4>2 DEF SerializesAppendBatch
    <3> QED
      BY <1>6, <2>1, <3>1, <3>2
  <2>2. ASSUME NEW id \in Ids PROVE StreamIsWhole(id)'
    BY <1>5, <1>6, <2>1, ZenonT(30) DEF SafetyInv, RowsInv, StreamIsWhole
  <2> QED
    BY <2>2 DEF RowsInv
<1>8. LockInv'
  BY <1>2, SqliteAssumption DEF SafetyInv, TypeOK, LockInv, InTransaction
<1>9. RequestInv'
  BY <1>2 DEF SafetyInv, TypeOK, RequestInv, InTransaction
<1>10. \A d \in Calls \ {c} : pc[d] \notin InTransaction
  BY <1>2 DEF SafetyInv, LockInv, InTransaction
<1>11. BatchInv'
  BY <1>2, <1>10 DEF SafetyInv, TypeOK, BatchInv, InTransaction
<1>12. ASSUME NEW d \in Calls \ {c}, pc[d] = "done" PROVE AnswerStands(d)'
  <2>1. AnswerStands(d) /\ Id(d) \in Ids
    BY <1>12, RequestFacts DEF SafetyInv, AnswerInv
  <2>2. \A v \in DOMAIN rows[Id(d)] : v \in DOMAIN rows'[Id(d)] /\ rows'[Id(d)][v] = rows[Id(d)][v]
    BY <2>1, CommitExtends
  <2> QED
    BY <1>2, <1>3, <1>12, <2>1, <2>2 DEF AnswerStands, Id
<1>13. AnswerStands(c)'
  <2>1. Id(c)' = i /\ req'[c] = req[c]
    BY <1>2 DEF Id
  <2>2. \A k \in 1 .. Len(batch) :
          /\ req[c].expectedVersion + k \in DOMAIN rows'[i]
          /\ rows'[i][req[c].expectedVersion + k] = batch[k]
    BY <1>1, <1>6
  <2> HIDE DEF i
  <2> QED
    BY <1>3, <2>1, <2>2 DEF AnswerStands
<1>14. AnswerInv'
  BY <1>2, <1>10, <1>12, <1>13 DEF SafetyInv, TypeOK, AnswerInv, InTransaction
<1> QED
  BY <1>4, <1>7, <1>8, <1>9, <1>11, <1>14 DEF SafetyInv

\* An empty table satisfies the invariant.
LEMMA InitSafety == Init => SafetyInv
<1> SUFFICES ASSUME Init PROVE SafetyInv
  OBVIOUS
<1>1. TypeOK
  BY EmptySeq DEF Init, TypeOK, NoOutcome, Codes, PC, NoRequest
<1>2. RowsInv
  <2>1. << >> \in Seq(ContinuationEvent) /\ Len(<< >>) = 0
    BY EmptySeq
  <2>2. ASSUME NEW id \in Ids PROVE rows[id] \in Seq(ContinuationEvent) /\ Len(rows[id]) = 0
    BY <2>1 DEF Init
  <2>3. ASSUME NEW id \in Ids, NEW v \in 1 .. Len(rows[id]) PROVE FALSE
    <3>1. v \in 1 .. 0
      BY <2>2, <2>3
    <3> QED
      BY <3>1
  <2> QED
    BY <2>2, <2>3 DEF RowsInv, StreamIsWhole
<1>3. LockInv
  BY SqliteAssumption DEF Init, LockInv, InTransaction
<1>4. RequestInv /\ BatchInv /\ AnswerInv
  BY DEF Init, RequestInv, BatchInv, AnswerInv
<1> QED
  BY <1>1, <1>2, <1>3, <1>4 DEF SafetyInv

\* Every step keeps the invariant.
LEMMA StepSafety == SafetyInv /\ [Next]_vars => SafetyInv'
<1> SUFFICES ASSUME SafetyInv, [Next]_vars PROVE SafetyInv'
  OBVIOUS
<1>1. CASE UNCHANGED vars
  BY <1>1 DEF vars, SafetyInv, TypeOK, RowsInv, StreamIsWhole, LockInv, RequestInv, BatchInv,
     AnswerInv, AnswerStands, Id, Serializes
<1>2. ASSUME NEW c \in Calls, Invoke(c) \/ Step(c) \/ Fail(c) \/ Crash(c) PROVE SafetyInv'
  BY <1>2, InvokeKeeps, FailKeeps, CrashKeeps, LoadKeeps, BeginImmediateKeeps, BusyKeeps,
     CompareKeeps, InsertKeeps, CommitKeeps, RollbackKeeps DEF Step
<1> QED
  BY <1>1, <1>2 DEF Next

-----------------------------------------------------------------------------
(* Theorems *)

\* The inductive invariant: streams are whole, the lock is held by exactly the
\* call that is inside a transaction, a transaction that has compared stays at
\* the end of its stream, and what was answered stands.
THEOREM Safety == Spec => []SafetyInv
BY InitSafety, StepSafety, PTL DEF Spec

\* The types of all variables, the version that a conflict reports included.
THEOREM TypeCorrect == Spec => []TypeOK
<1>1. SafetyInv => TypeOK
  BY DEF SafetyInv
<1> QED
  BY Safety, <1>1, PTL

\* However many processes append, fail and crash: load never throws CORRUPT, and
\* what load returned or append reported stays in the stream, in its place.
THEOREM AnswersNeverLost == Spec => []AnswersStand
<1>1. SafetyInv => AnswersStand
  BY DEF SafetyInv, AnswerInv, AnswerStands, AnswersStand
<1> QED
  BY Safety, <1>1, PTL

\* Every way out of append gives the write lock back.
THEOREM LockReturned == Spec => []LockIsReturned
<1>1. SafetyInv => LockIsReturned
  BY DEF SafetyInv, TypeOK, LockInv, LockIsReturned
<1> QED
  BY Safety, <1>1, PTL

\* Only Commit changes the rows, and then by a whole batch at the end of one stream.
LEMMA OnlyCommitWrites ==
    ASSUME SafetyInv, [Next]_vars
    PROVE  \/ UNCHANGED rows
           \/ \E c \in Calls : Commit(c)
<1>1. ASSUME NEW c \in Calls, Invoke(c) \/ Step(c) \/ Fail(c) \/ Crash(c), ~ Commit(c)
      PROVE  UNCHANGED rows
  BY <1>1 DEF Invoke, Step, Fail, Crash, Load, BeginImmediate, Busy, Compare, Insert, Rollback
<1> QED
  BY <1>1 DEF Next, vars

\* The INSERTs of a batch become visible together: a crash, a rollback or another
\* process between two of them leaves no part of the batch behind.
THEOREM BatchesNeverTorn == Spec => BatchesAreWhole
<1> DEFINE Whole == \A id \in Ids : rows'[id] # rows[id] =>
                      \E c \in Calls : /\ req[c].op = "append"
                                       /\ Id(c) = id
                                       /\ rows'[id] = rows[id] \o req[c].events
<1>1. ASSUME SafetyInv, [Next]_vars PROVE Whole
  <2>1. CASE UNCHANGED rows
    BY <2>1
  <2>2. ASSUME NEW c \in Calls, Commit(c) PROVE Whole
    BY <1>1, <2>2, CommitAppends DEF SafetyInv, TypeOK
  <2> QED
    BY <1>1, <2>1, <2>2, OnlyCommitWrites
<1>2. SafetyInv /\ [Next]_vars => [Whole]_vars
  BY <1>1
<1>3. Spec => [][Whole]_vars
  BY <1>2, Safety, PTL DEF Spec
<1> QED
  BY <1>3 DEF BatchesAreWhole

\* SqliteEventStore implements the contract of the event store port: seen through
\* its committed rows, append is one step that compares the version and adds the
\* whole batch.
THEOREM ImplementsStore == Spec => StoreContract
<1>1. Init => Store!StoreInit
  BY DEF Init, Store!StoreInit
<1>2. SafetyInv /\ [Next]_vars => [Store!StoreNext]_rows
  <2> SUFFICES ASSUME SafetyInv, [Next]_vars, rows' # rows PROVE Store!StoreNext
    OBVIOUS
  <2> PICK c \in Calls : Commit(c)
    BY OnlyCommitWrites
  <2> DEFINE i == Id(c)
             batch == req[c].events
  <2>1. /\ i \in Ids
        /\ rows[i] \in Seq(ContinuationEvent)
        /\ batch \in Seq(ContinuationEvent)
        /\ SerializesAppendBatch(i, Len(rows[i]), batch)
        /\ rows' = [rows EXCEPT ![i] = rows[i] \o batch]
    BY CommitAppends
  <2>2. rows'[i] = rows[i] \o batch
    BY <2>1 DEF SafetyInv, TypeOK
  <2>3. Store!Added(i) = batch
    BY <2>1, <2>2, SuffixOfAppend DEF Store!Added
  <2>4. Store!StoreAppend(i)
    BY <2>1, <2>3
       DEF Store!StoreAppend, Store!AppendAccepted, Store!SerializesAppendBatch,
           SerializesAppendBatch, Store!CONTINUATION_SCHEMA_VERSION, CONTINUATION_SCHEMA_VERSION
  <2> QED
    BY <2>1, <2>4 DEF Store!StoreNext
<1> QED
  BY <1>1, <1>2, Safety, PTL DEF Spec, StoreContract, Store!StoreSpec
=============================================================================
