----------------------- MODULE PostgresEventStoreProofs -----------------------
(***************************************************************************)
(* Proofs about PostgresEventStore, for any number of callers, streams and *)
(* connections: the head row fences the events, so that the several        *)
(* statements of append amount to the one step the port's contract asks    *)
(* for, whatever fails and however long a dead client's transaction stays. *)
(***************************************************************************)
EXTENDS PostgresEventStore, StreamLemmas, FiniteSetTheorems

-----------------------------------------------------------------------------
(* The inductive invariant *)

\* The committed rows of a stream: a sequence, each event under its own id and
\* version.
StreamIsWhole(id) ==
    /\ rows[id] \in Seq(ContinuationEvent)
    /\ \A v \in 1 .. Len(rows[id]) :
        rows[id][v].continuationId = id /\ rows[id][v].version = v

\* The committed head is the length of the stream, within the store's limit.
HeadCounts(id) ==
    IF heads[id] = Absent THEN rows[id] = << >>
    ELSE /\ heads[id] > 0
         /\ heads[id] = Len(rows[id])
         /\ heads[id] <= MaxEventsPerStream

RowsInv == \A id \in Ids : StreamIsWhole(id) /\ HeadCounts(id)

\* Whoever has written a head row and not committed it holds the row, alone.
HolderInv ==
    \A id \in Ids, c \in Calls :
        holder[id] = c <=> pc[c] # "idle" /\ Id(c) = id /\ tx[c].head # Absent

\* What a call asks is a request from its first statement on, of the kind that
\* the statement belongs to.
RequestOf(c) ==
    pc[c] # "idle" =>
        /\ req[c] \in Requests
        /\ pc[c] = "load" => req[c].op = "load"
        /\ pc[c] \in InTransaction \cup {"append", "abandoned"} => req[c].op = "append"

\* append asks for a version that its stream had when it was called, and a
\* stream never gets shorter.
AskedOf(c) ==
    (pc[c] \in InTransaction \cup {"append"} /\ req[c].expectedVersion > 0) =>
        /\ heads[Id(c)] # Absent
        /\ req[c].expectedVersion <= heads[Id(c)]

\* Where the transaction of c stands: before the fence it holds at most the head
\* row it inserted itself; past the fence nobody moves the stream before it ends.
TxOf(c) ==
    /\ pc[c] \in {"idle", "load", "append", "insertHead", "readHead", "done"} =>
         tx[c].head = Absent
    /\ pc[c] \in InTransaction \ {"rollback"} =>
         /\ Serializes(req[c])
         /\ req[c].events # << >>
         /\ NextVersion(c) <= MaxEventsPerStream
    /\ pc[c] = "insertHead" => req[c].expectedVersion = 0
    /\ pc[c] = "fence" =>
         \/ tx[c].head = Absent /\ heads[Id(c)] # Absent
         \/ tx[c].head = 0 /\ req[c].expectedVersion = 0 /\ heads[Id(c)] = Absent
    /\ pc[c] = "readHead" =>
         heads[Id(c)] # Absent /\ heads[Id(c)] > req[c].expectedVersion
    /\ pc[c] \in {"insertEvents", "commit"} =>
         /\ tx[c].head = NextVersion(c)
         /\ Len(rows[Id(c)]) = req[c].expectedVersion

\* What call c answered, stated so that a longer stream keeps it.
ConflictStands(c) ==
    outcome[c].code = "VERSION_CONFLICT" =>
        /\ outcome[c].actualVersion > req[c].expectedVersion
        /\ outcome[c].actualVersion \in DOMAIN rows[Id(c)]

LoadStands(c) ==
    /\ outcome[c].code \in {"ok", "failed"}
    /\ \A v \in 1 .. Len(outcome[c].events) :
        v \in DOMAIN rows[Id(c)] /\ rows[Id(c)][v] = outcome[c].events[v]

AppendStands(c) ==
    outcome[c].code = "ok" =>
        \A i \in 1 .. Len(req[c].events) :
            /\ req[c].expectedVersion + i \in DOMAIN rows[Id(c)]
            /\ rows[Id(c)][req[c].expectedVersion + i] = req[c].events[i]

AnswerOf(c) ==
    /\ pc[c] \in {"rollback", "abandoned"} =>
         outcome[c].code \in {"VERSION_CONFLICT", "failed"} /\ ConflictStands(c)
    /\ pc[c] = "done" =>
         /\ req[c].op = "load" => LoadStands(c)
         /\ req[c].op = "append" => AppendStands(c) /\ ConflictStands(c)

CallInv(c) == RequestOf(c) /\ AskedOf(c) /\ TxOf(c) /\ AnswerOf(c)

SafetyInv ==
    /\ TypeOK
    /\ RowsInv
    /\ HolderInv
    /\ \A c \in Calls : CallInv(c)

-----------------------------------------------------------------------------
(* Lemmas on streams and requests *)

\* The request of a call that has begun: its stream exists.
LEMMA RequestFacts ==
    ASSUME SafetyInv, NEW c \in Calls, pc[c] # "idle"
    PROVE  /\ req[c] \in Requests
           /\ Id(c) \in Ids
           /\ req[c].op \in {"load", "append"}
BY PostgresAssumption DEF SafetyInv, CallInv, RequestOf, LoadRequest, AppendRequest, Id

\* The request of a call that is inside append.
LEMMA AppendFacts ==
    ASSUME SafetyInv, NEW c \in Calls, pc[c] \in InTransaction \cup {"append", "abandoned"}
    PROVE  /\ req[c].op = "append"
           /\ Id(c) \in Ids
           /\ req[c].expectedVersion \in Nat
           /\ req[c].events \in Seq(ContinuationEvent)
           /\ Len(req[c].events) \in Nat
           /\ NextVersion(c) \in Nat
<1>1. req[c] \in Requests /\ req[c].op = "append"
  BY DEF SafetyInv, CallInv, RequestOf, InTransaction
<1>2. req[c] \in AppendRequest
  BY <1>1, PostgresAssumption DEF LoadRequest
<1>3. req[c].events \in Seq(ContinuationEvent)
  BY <1>2 DEF AppendRequest
<1> QED
  BY <1>1, <1>2, <1>3, LenProperties DEF AppendRequest, Id, NextVersion

\* What the head says of the rows.
LEMMA StreamFacts ==
    ASSUME SafetyInv, NEW id \in Ids
    PROVE  /\ rows[id] \in Seq(ContinuationEvent)
           /\ Len(rows[id]) \in Nat
           /\ DOMAIN rows[id] = 1 .. Len(rows[id])
           /\ heads[id] = Absent => Len(rows[id]) = 0
           /\ heads[id] # Absent => /\ heads[id] \in Nat \ {0}
                                   /\ heads[id] = Len(rows[id])
                                   /\ heads[id] \in DOMAIN rows[id]
<1>1. rows[id] \in Seq(ContinuationEvent)
  BY DEF SafetyInv, RowsInv, StreamIsWhole
<1>2. Len(rows[id]) \in Nat /\ DOMAIN rows[id] = 1 .. Len(rows[id])
  BY <1>1, LenProperties
<1>3. heads[id] = Absent => Len(rows[id]) = 0
  BY EmptySeq DEF SafetyInv, RowsInv, HeadCounts
<1>4. heads[id] # Absent => heads[id] \in Nat \ {0} /\ heads[id] = Len(rows[id])
  BY DEF SafetyInv, TypeOK, RowsInv, HeadCounts
<1> QED
  BY <1>1, <1>2, <1>3, <1>4

\* load throws neither CORRUPT_STREAM nor STREAM_TOO_LARGE.
LEMMA StreamsLoad ==
    ASSUME SafetyInv, NEW id \in Ids
    PROVE  LoadCode(id) = "ok"
<1>1. CASE heads[id] = Absent
  BY <1>1 DEF LoadCode
<1>2. CASE heads[id] # Absent
  <2>1. /\ heads[id] \in Nat \ {0}
        /\ DOMAIN rows[id] = 1 .. heads[id]
        /\ heads[id] <= MaxEventsPerStream
        /\ \A v \in DOMAIN rows[id] :
             rows[id][v].continuationId = id /\ rows[id][v].version = v
    BY <1>2, StreamFacts DEF SafetyInv, RowsInv, HeadCounts, StreamIsWhole
  <2>2. Cardinality(DOMAIN rows[id]) = heads[id]
    BY <2>1, FS_Interval
  <2> QED
    BY <1>2, <2>1, <2>2, PostgresAssumption DEF LoadCode
<1> QED
  BY <1>1, <1>2

-----------------------------------------------------------------------------
(* Each action keeps the invariant *)

\* A step that leaves the committed tables alone and moves one call only: what it
\* owes is the row locks and what it says of that call.
LEMMA QuietStep ==
    ASSUME SafetyInv, NEW c \in Calls, TypeOK', HolderInv', CallInv(c)',
           UNCHANGED <<heads, rows>>,
           \A d \in Calls \ {c} : /\ pc'[d] = pc[d]
                                  /\ req'[d] = req[d]
                                  /\ tx'[d] = tx[d]
                                  /\ outcome'[d] = outcome[d]
    PROVE  SafetyInv'
<1>1. RowsInv'
  BY DEF SafetyInv, RowsInv, StreamIsWhole, HeadCounts
<1>2. ASSUME NEW d \in Calls \ {c} PROVE CallInv(d)'
  <2>1. CallInv(d)
    BY DEF SafetyInv
  <2>2. /\ pc'[d] = pc[d] /\ req'[d] = req[d] /\ tx'[d] = tx[d] /\ outcome'[d] = outcome[d]
        /\ Id(d)' = Id(d) /\ NextVersion(d)' = NextVersion(d)
        /\ heads' = heads /\ rows' = rows
    BY DEF Id, NextVersion
  <2>3. RequestOf(d)'
    BY <2>1, <2>2 DEF CallInv, RequestOf
  <2>4. AskedOf(d)'
    BY <2>1, <2>2 DEF CallInv, AskedOf
  <2>5. TxOf(d)'
    BY <2>1, <2>2 DEF CallInv, TxOf
  <2>6. AnswerOf(d)'
    BY <2>1, <2>2 DEF CallInv, AnswerOf, LoadStands, AppendStands, ConflictStands
  <2> QED
    BY <2>3, <2>4, <2>5, <2>6 DEF CallInv
<1> QED
  BY <1>1, <1>2 DEF SafetyInv

\* A step that neither writes a head row nor ends a transaction keeps the locks.
LEMMA SameLocks ==
    ASSUME SafetyInv, NEW c \in Calls, NEW label \in PC \ {"idle"}, pc[c] # "idle",
           Goto(c, label), UNCHANGED <<holder, tx, req>>
    PROVE  HolderInv'
BY DEF SafetyInv, TypeOK, HolderInv, Goto, Id

\* The end of a transaction gives its lock back, and only that one.
LEMMA LocksReturned ==
    ASSUME SafetyInv, NEW c \in Calls, NEW label, Goto(c, label),
           EndTransaction(c), UNCHANGED req
    PROVE  HolderInv'
<1>1. tx'[c].head = Absent
  BY DEF EndTransaction, NoTx, SafetyInv, TypeOK
<1>2. \A d \in Calls \ {c} : tx'[d] = tx[d] /\ pc'[d] = pc[d]
  BY DEF EndTransaction, Goto, SafetyInv, TypeOK
<1>3. \A id \in Ids : holder'[id] = IF holder[id] = c THEN NoCall ELSE holder[id]
  BY DEF EndTransaction
<1>4. \A d \in Calls : Id(d)' = Id(d)
  BY DEF Id
<1> QED
  BY <1>1, <1>2, <1>3, <1>4, PostgresAssumption DEF HolderInv, SafetyInv

\* Types after a step that only answers and moves on.
LEMMA AnswerTypes ==
    ASSUME SafetyInv, NEW c \in Calls, NEW label \in PC, NEW code \in Codes,
           NEW events \in Seq(ContinuationEvent), NEW actualVersion \in Nat,
           Goto(c, label), Answer(c, code, events, actualVersion)
    PROVE  /\ pc' \in [Calls -> PC] /\ pc'[c] = label
           /\ outcome' \in [Calls -> [code : Codes, events : Seq(ContinuationEvent),
                                      actualVersion : Nat]]
           /\ outcome'[c] = [code |-> code, events |-> events, actualVersion |-> actualVersion]
           /\ \A d \in Calls \ {c} : pc'[d] = pc[d] /\ outcome'[d] = outcome[d]
BY DEF SafetyInv, TypeOK, Goto, Answer

\* A call without a transaction ends: what it owes is its answer.
LEMMA FinishKeeps ==
    ASSUME SafetyInv, NEW c \in Calls, pc[c] \in {"load", "append"}, NEW code \in Codes,
           NEW events \in Seq(ContinuationEvent), NEW actualVersion \in Nat,
           Finish(c, code, events, actualVersion), AnswerOf(c)'
    PROVE  SafetyInv'
<1>1. Goto(c, "done") /\ Answer(c, code, events, actualVersion)
        /\ UNCHANGED <<heads, rows, holder, tx, req>>
  BY DEF Finish
<1>2. "done" \in PC
  BY DEF PC
<1>3. /\ pc' \in [Calls -> PC] /\ pc'[c] = "done"
      /\ outcome' \in [Calls -> [code : Codes, events : Seq(ContinuationEvent),
                                 actualVersion : Nat]]
      /\ \A d \in Calls \ {c} : pc'[d] = pc[d] /\ outcome'[d] = outcome[d]
  BY <1>1, <1>2, AnswerTypes
<1>4. TypeOK'
  BY <1>1, <1>3 DEF SafetyInv, TypeOK
<1>5. HolderInv'
  BY <1>1, <1>2, SameLocks
<1>6. CallInv(c)'
  <2>1. CallInv(c)
    BY DEF SafetyInv
  <2>2. RequestOf(c)' /\ AskedOf(c)' /\ TxOf(c)'
    BY <1>1, <1>3, <2>1 DEF CallInv, RequestOf, AskedOf, TxOf, InTransaction
  <2> QED
    BY <2>2 DEF CallInv
<1> QED
  BY <1>1, <1>3, <1>4, <1>5, <1>6, QuietStep

\* load reads the head and its events in one statement.
LEMMA LoadKeeps == ASSUME SafetyInv, NEW c \in Calls, Load(c) PROVE SafetyInv'
<1> DEFINE events == IF heads[Id(c)] # Absent THEN rows[Id(c)] ELSE << >>
<1>1. Id(c) \in Ids /\ req[c].op = "load" /\ pc[c] = "load"
  BY RequestFacts DEF SafetyInv, CallInv, RequestOf, Load
<1>2. Finish(c, "ok", events, 0)
  BY <1>1, StreamsLoad DEF Load
<1>3. /\ events \in Seq(ContinuationEvent)
      /\ \A v \in 1 .. Len(events) : v \in DOMAIN rows[Id(c)] /\ rows[Id(c)][v] = events[v]
  <2>1. CASE heads[Id(c)] # Absent
    BY <1>1, <2>1, StreamFacts
  <2>2. CASE heads[Id(c)] = Absent
    <3>1. events = << >> /\ events \in Seq(ContinuationEvent) /\ Len(events) = 0
      BY <2>2, EmptySeq
    <3> QED
      BY <3>1
  <2> QED
    BY <2>1, <2>2
<1> HIDE DEF events
<1>4. /\ pc'[c] = "done" /\ req' = req /\ rows' = rows
      /\ outcome'[c] = [code |-> "ok", events |-> events, actualVersion |-> 0]
  BY <1>2 DEF Finish, Goto, Answer, SafetyInv, TypeOK
<1>5. LoadStands(c)'
  BY <1>3, <1>4 DEF LoadStands, Id
<1>6. AnswerOf(c)'
  BY <1>1, <1>4, <1>5 DEF AnswerOf
<1> QED
  BY <1>1, <1>2, <1>3, <1>6, FinishKeeps DEF Codes

\* An append that ends before its first statement, or a failure outside any
\* transaction.
LEMMA RefusedKeeps ==
    ASSUME SafetyInv, NEW c \in Calls, pc[c] \in {"load", "append"},
           NEW code \in {"STREAM_TOO_LARGE", "REJECTED", "failed"},
           code = "failed" \/ pc[c] = "append", Finish(c, code, << >>, 0)
    PROVE  SafetyInv'
<1>1. /\ pc'[c] = "done" /\ req' = req /\ rows' = rows
      /\ outcome'[c] = [code |-> code, events |-> << >>, actualVersion |-> 0]
  BY DEF Finish, Goto, Answer, SafetyInv, TypeOK
<1>2. << >> \in Seq(ContinuationEvent) /\ Len(<< >>) = 0 /\ 1 .. 0 = {}
  BY EmptySeq
<1>3. pc[c] = "append" => req[c].op = "append"
  BY DEF SafetyInv, CallInv, RequestOf
<1>4. ConflictStands(c)' /\ AppendStands(c)'
  BY <1>1 DEF ConflictStands, AppendStands
<1>5. code = "failed" => LoadStands(c)'
  BY <1>1, <1>2 DEF LoadStands
<1>6. AnswerOf(c)'
  BY <1>1, <1>3, <1>4, <1>5 DEF AnswerOf
<1> QED
  BY <1>2, <1>6, FinishKeeps DEF Codes

\* A batch beyond the limit, or one that does not serialize, is refused before
\* any statement.
LEMMA RejectAppendKeeps == ASSUME SafetyInv, NEW c \in Calls, RejectAppend(c) PROVE SafetyInv'
BY RefusedKeeps DEF RejectAppend

\* An empty batch only compares the head, and is answered by it.
LEMMA CompareHeadKeeps == ASSUME SafetyInv, NEW c \in Calls, CompareHead(c) PROVE SafetyInv'
<1> DEFINE actual == VersionOf(heads[Id(c)])
<1>1. pc[c] = "append" /\ req[c].events = << >>
  BY DEF CompareHead, Admitted
<1>2. /\ req[c].op = "append" /\ Id(c) \in Ids /\ req[c].expectedVersion \in Nat
      /\ << >> \in Seq(ContinuationEvent) /\ Len(req[c].events) = 0 /\ 1 .. 0 = {}
  BY <1>1, AppendFacts, EmptySeq
<1>3. actual \in Nat
  BY <1>2, StreamFacts DEF VersionOf
<1>4. CASE actual = req[c].expectedVersion
  <2>1. Finish(c, "ok", << >>, 0)
    BY <1>4 DEF CompareHead
  <2>2. /\ pc'[c] = "done" /\ req' = req
        /\ outcome'[c] = [code |-> "ok", events |-> << >>, actualVersion |-> 0]
    BY <2>1 DEF Finish, Goto, Answer, SafetyInv, TypeOK
  <2>3. AnswerOf(c)'
    BY <1>2, <2>2 DEF AnswerOf, AppendStands, ConflictStands
  <2> QED
    BY <1>1, <1>2, <2>1, <2>3, FinishKeeps DEF Codes
<1>5. CASE actual # req[c].expectedVersion
  <2>1. Finish(c, "VERSION_CONFLICT", << >>, actual)
    BY <1>5 DEF CompareHead
  <2>2. /\ pc'[c] = "done" /\ req' = req /\ rows' = rows
        /\ outcome'[c] = [code |-> "VERSION_CONFLICT", events |-> << >>, actualVersion |-> actual]
    BY <2>1 DEF Finish, Goto, Answer, SafetyInv, TypeOK
  <2>3. actual > req[c].expectedVersion /\ actual \in DOMAIN rows[Id(c)]
    <3>1. req[c].expectedVersion > 0 =>
            heads[Id(c)] # Absent /\ req[c].expectedVersion <= heads[Id(c)]
      BY <1>1 DEF SafetyInv, CallInv, AskedOf
    <3> QED
      BY <1>2, <1>5, <3>1, StreamFacts DEF VersionOf
  <2> HIDE DEF actual
  <2>4. AnswerOf(c)'
    BY <1>2, <2>2, <2>3 DEF AnswerOf, AppendStands, ConflictStands, Id
  <2> QED
    BY <1>1, <1>2, <1>3, <2>1, <2>4, FinishKeeps DEF Codes
<1> QED
  BY <1>4, <1>5

\* A step inside the transaction that writes nothing and answers nothing.
LEMMA AdvanceKeeps ==
    ASSUME SafetyInv, NEW c \in Calls, NEW label \in PC \ {"idle"}, pc[c] # "idle",
           Goto(c, label), UNCHANGED <<heads, rows, holder, tx, req, outcome>>, CallInv(c)'
    PROVE  SafetyInv'
<1>1. TypeOK'
  BY DEF SafetyInv, TypeOK, Goto
<1>2. HolderInv'
  BY SameLocks
<1> QED
  BY <1>1, <1>2, QuietStep DEF Goto, SafetyInv, TypeOK

\* BEGIN opens a transaction that has written nothing.
LEMMA BeginKeeps == ASSUME SafetyInv, NEW c \in Calls, Begin(c) PROVE SafetyInv'
<1> DEFINE label == IF req[c].expectedVersion = 0 THEN "insertHead" ELSE "fence"
<1>1. /\ pc[c] = "append" /\ Serializes(req[c]) /\ req[c].events # << >>
      /\ NextVersion(c) <= MaxEventsPerStream /\ Goto(c, label)
      /\ UNCHANGED <<heads, rows, holder, tx, req, outcome>>
  BY DEF Begin, Admitted
<1>2. label \in PC \ {"idle"} /\ pc'[c] = label
  BY <1>1 DEF PC, InTransaction, Goto, SafetyInv, TypeOK
<1>3. req[c].expectedVersion \in Nat
  BY <1>1, AppendFacts
<1>4. CallInv(c)
  BY DEF SafetyInv
<1>5. RequestOf(c)'
  BY <1>1, <1>2, <1>4 DEF CallInv, RequestOf, InTransaction
<1>6. AskedOf(c)'
  BY <1>1, <1>2, <1>4 DEF CallInv, AskedOf, Id
<1>7. TxOf(c)'
  <2>1. NextVersion(c)' = NextVersion(c) /\ Id(c)' = Id(c)
    BY <1>1 DEF NextVersion, Id
  <2> QED
    BY <1>1, <1>2, <1>3, <1>4, <2>1 DEF CallInv, AskedOf, TxOf
<1>8. AnswerOf(c)'
  BY <1>2 DEF AnswerOf
<1> QED
  BY <1>1, <1>2, <1>5, <1>6, <1>7, <1>8, AdvanceKeeps DEF CallInv

\* The UPDATE finds another version: nothing is locked or written.
LEMMA FenceMissesKeeps == ASSUME SafetyInv, NEW c \in Calls, FenceMisses(c) PROVE SafetyInv'
<1>1. /\ pc[c] = "fence" /\ Goto(c, "readHead")
      /\ Visible(c) # req[c].expectedVersion
      /\ UNCHANGED <<heads, rows, holder, tx, req, outcome>>
  BY DEF FenceMisses
<1>2. "readHead" \in PC \ {"idle"} /\ pc'[c] = "readHead"
  BY <1>1 DEF PC, InTransaction, Goto, SafetyInv, TypeOK
<1>3. CallInv(c)
  BY DEF SafetyInv
<1>4. Id(c) \in Ids /\ req[c].expectedVersion \in Nat
  BY <1>1, AppendFacts DEF InTransaction
<1>5. tx[c].head = Absent /\ heads[Id(c)] # Absent /\ heads[Id(c)] # req[c].expectedVersion
  BY <1>1, <1>3, PostgresAssumption DEF CallInv, TxOf, Visible
<1>6. heads[Id(c)] > req[c].expectedVersion
  <2>1. heads[Id(c)] \in Nat \ {0}
    BY <1>4, <1>5, StreamFacts
  <2>2. req[c].expectedVersion > 0 => req[c].expectedVersion <= heads[Id(c)]
    BY <1>1, <1>3 DEF CallInv, AskedOf, InTransaction
  <2> QED
    BY <1>4, <1>5, <2>1, <2>2
<1>7. NextVersion(c)' = NextVersion(c) /\ Id(c)' = Id(c)
  BY <1>1 DEF NextVersion, Id
<1>8. RequestOf(c)' /\ AskedOf(c)' /\ AnswerOf(c)'
  BY <1>1, <1>2, <1>3, <1>7 DEF CallInv, RequestOf, AskedOf, AnswerOf, InTransaction
<1>9. TxOf(c)'
  BY <1>1, <1>2, <1>3, <1>5, <1>6, <1>7 DEF CallInv, TxOf, InTransaction
<1> QED
  BY <1>1, <1>2, <1>8, <1>9, AdvanceKeeps DEF CallInv

\* The head row that c writes becomes its own: nobody else holds it.
LEMMA LockTaken ==
    ASSUME SafetyInv, NEW c \in Calls, pc[c] \in {"insertHead", "fence"}, Unlocked(c),
           NEW version \in Nat, NEW label \in PC \ {"idle"},
           tx' = [tx EXCEPT ![c].head = version], holder' = [holder EXCEPT ![Id(c)] = c],
           Goto(c, label), UNCHANGED req
    PROVE  HolderInv'
<1>1. Id(c) \in Ids
  BY AppendFacts DEF InTransaction
<1>2. tx'[c].head = version /\ version # Absent /\ pc'[c] # "idle"
  BY PostgresAssumption DEF SafetyInv, TypeOK, Goto
<1>3. \A d \in Calls \ {c} : tx'[d] = tx[d] /\ pc'[d] = pc[d]
  BY DEF SafetyInv, TypeOK, Goto
<1>4. \A id \in Ids : holder'[id] = IF id = Id(c) THEN c ELSE holder[id]
  BY <1>1 DEF SafetyInv, TypeOK
<1>5. \A d \in Calls : Id(d)' = Id(d)
  BY DEF Id
<1>6. \A d \in Calls \ {c} : holder[Id(c)] # d
  BY PostgresAssumption DEF Unlocked
<1> QED
  BY <1>1, <1>2, <1>3, <1>4, <1>5, <1>6 DEF SafetyInv, HolderInv

\* The head row of a new stream is inserted inside the transaction, and held.
LEMMA InsertHeadKeeps == ASSUME SafetyInv, NEW c \in Calls, InsertHead(c) PROVE SafetyInv'
<1>1. /\ pc[c] = "insertHead" /\ Goto(c, "fence")
      /\ UNCHANGED <<heads, rows, req, outcome>>
  BY DEF InsertHead
<1>2. "fence" \in PC \ {"idle"} /\ pc'[c] = "fence"
  BY <1>1 DEF PC, InTransaction, Goto, SafetyInv, TypeOK
<1>3. CallInv(c)
  BY DEF SafetyInv
<1>4. Id(c) \in Ids
  BY <1>1, AppendFacts DEF InTransaction
<1>5. NextVersion(c)' = NextVersion(c) /\ Id(c)' = Id(c)
  BY <1>1 DEF NextVersion, Id
<1>6. RequestOf(c)' /\ AskedOf(c)' /\ AnswerOf(c)'
  BY <1>1, <1>2, <1>3, <1>5 DEF CallInv, RequestOf, AskedOf, AnswerOf, InTransaction
<1>7. CASE heads[Id(c)] = Absent
  <2>1. /\ Unlocked(c)
        /\ tx' = [tx EXCEPT ![c].head = 0]
        /\ holder' = [holder EXCEPT ![Id(c)] = c]
    BY <1>7 DEF InsertHead
  <2>2. tx'[c].head = 0
    BY <2>1 DEF SafetyInv, TypeOK
  <2>3. TypeOK'
    BY <1>1, <1>2, <1>4, <2>1 DEF SafetyInv, TypeOK, Goto
  <2>4. HolderInv'
    BY <1>1, <1>2, <2>1, LockTaken
  <2>5. TxOf(c)'
    BY <1>1, <1>2, <1>3, <1>5, <1>7, <2>2 DEF CallInv, TxOf, InTransaction
  <2> QED
    BY <1>1, <1>6, <2>1, <2>3, <2>4, <2>5, QuietStep DEF CallInv, Goto, SafetyInv, TypeOK
<1>8. CASE heads[Id(c)] # Absent
  <2>1. UNCHANGED <<tx, holder>>
    BY <1>8 DEF InsertHead
  <2>2. TxOf(c)'
    BY <1>1, <1>2, <1>3, <1>5, <1>8, <2>1 DEF CallInv, TxOf, InTransaction
  <2> QED
    BY <1>1, <1>2, <1>6, <2>1, <2>2, AdvanceKeeps DEF CallInv
<1> QED
  BY <1>7, <1>8

\* Past the fence the stream is as long as the caller expected.
LEMMA FenceTakesKeeps == ASSUME SafetyInv, NEW c \in Calls, FenceTakes(c) PROVE SafetyInv'
<1>1. /\ pc[c] = "fence" /\ Goto(c, "insertEvents") /\ Unlocked(c)
      /\ Visible(c) = req[c].expectedVersion
      /\ tx' = [tx EXCEPT ![c].head = NextVersion(c)]
      /\ holder' = [holder EXCEPT ![Id(c)] = c]
      /\ UNCHANGED <<heads, rows, req, outcome>>
  BY DEF FenceTakes
<1>2. "insertEvents" \in PC \ {"idle"} /\ pc'[c] = "insertEvents"
  BY <1>1 DEF PC, InTransaction, Goto, SafetyInv, TypeOK
<1>3. CallInv(c)
  BY DEF SafetyInv
<1>4. Id(c) \in Ids /\ req[c].expectedVersion \in Nat /\ NextVersion(c) \in Nat
  BY <1>1, AppendFacts DEF InTransaction
<1>5. Len(rows[Id(c)]) = req[c].expectedVersion
  <2>1. \/ tx[c].head = Absent /\ heads[Id(c)] # Absent
        \/ tx[c].head = 0 /\ req[c].expectedVersion = 0 /\ heads[Id(c)] = Absent
    BY <1>1, <1>3 DEF CallInv, TxOf
  <2> QED
    BY <1>1, <1>4, <2>1, StreamFacts DEF Visible
<1>6. NextVersion(c)' = NextVersion(c) /\ Id(c)' = Id(c)
  BY <1>1 DEF NextVersion, Id
<1>7. RequestOf(c)' /\ AskedOf(c)' /\ AnswerOf(c)'
  BY <1>1, <1>2, <1>3, <1>6 DEF CallInv, RequestOf, AskedOf, AnswerOf, InTransaction
<1>8. tx'[c].head = NextVersion(c)
  BY <1>1 DEF SafetyInv, TypeOK
<1>9. TxOf(c)'
  BY <1>1, <1>2, <1>3, <1>5, <1>6, <1>8 DEF CallInv, TxOf, InTransaction
<1>10. TypeOK'
  BY <1>1, <1>2, <1>4 DEF SafetyInv, TypeOK, Goto
<1>11. HolderInv'
  BY <1>1, <1>2, <1>4, LockTaken
<1> QED
  BY <1>1, <1>7, <1>9, <1>10, <1>11, QuietStep DEF CallInv, Goto, SafetyInv, TypeOK

\* The version of a conflict is the one the transaction sees.
LEMMA ReadHeadKeeps == ASSUME SafetyInv, NEW c \in Calls, ReadHead(c) PROVE SafetyInv'
<1> DEFINE actual == VersionOf(Visible(c))
<1>1. /\ pc[c] = "readHead" /\ Goto(c, "rollback")
      /\ Answer(c, "VERSION_CONFLICT", << >>, actual)
      /\ UNCHANGED <<heads, rows, holder, tx, req>>
  BY DEF ReadHead
<1>2. CallInv(c)
  BY DEF SafetyInv
<1>3. Id(c) \in Ids /\ req[c].expectedVersion \in Nat
  BY <1>1, AppendFacts DEF InTransaction
<1>4. actual = heads[Id(c)] /\ heads[Id(c)] # Absent /\ heads[Id(c)] > req[c].expectedVersion
  BY <1>1, <1>2 DEF CallInv, TxOf, Visible, VersionOf
<1>5. actual \in Nat /\ actual \in DOMAIN rows[Id(c)]
  BY <1>3, <1>4, StreamFacts
<1> HIDE DEF actual
<1>6. "rollback" \in PC \ {"idle"} /\ "VERSION_CONFLICT" \in Codes
        /\ << >> \in Seq(ContinuationEvent)
  BY EmptySeq DEF PC, InTransaction, Codes
<1>7. /\ pc' \in [Calls -> PC] /\ pc'[c] = "rollback"
      /\ outcome' \in [Calls -> [code : Codes, events : Seq(ContinuationEvent),
                                 actualVersion : Nat]]
      /\ outcome'[c] = [code |-> "VERSION_CONFLICT", events |-> << >>, actualVersion |-> actual]
      /\ \A d \in Calls \ {c} : pc'[d] = pc[d] /\ outcome'[d] = outcome[d]
  BY <1>1, <1>5, <1>6, AnswerTypes
<1>8. TypeOK'
  BY <1>1, <1>7 DEF SafetyInv, TypeOK
<1>9. HolderInv'
  BY <1>1, <1>6, SameLocks
<1>10. RequestOf(c)' /\ AskedOf(c)' /\ TxOf(c)'
  BY <1>1, <1>2, <1>7 DEF CallInv, RequestOf, AskedOf, TxOf, InTransaction, Id
<1>11. AnswerOf(c)'
  BY <1>1, <1>4, <1>5, <1>7 DEF AnswerOf, ConflictStands, Id
<1> QED
  BY <1>1, <1>7, <1>8, <1>9, <1>10, <1>11, QuietStep DEF CallInv

\* The batch is written inside the transaction only.
LEMMA InsertEventsKeeps == ASSUME SafetyInv, NEW c \in Calls, InsertEvents(c) PROVE SafetyInv'
<1>1. /\ pc[c] = "insertEvents" /\ Goto(c, "commit")
      /\ tx' = [tx EXCEPT ![c].events = req[c].events]
      /\ UNCHANGED <<heads, rows, holder, req, outcome>>
  BY DEF InsertEvents
<1>2. pc'[c] = "commit" /\ tx'[c].head = tx[c].head
  BY <1>1 DEF Goto, SafetyInv, TypeOK
<1>3. req[c].events \in Seq(ContinuationEvent)
  BY <1>1, AppendFacts DEF InTransaction
<1>4. TypeOK'
  BY <1>1, <1>3, ZenonT(30) DEF SafetyInv, TypeOK, Goto, PC, InTransaction
<1>5. \A d \in Calls : /\ Id(d)' = Id(d)
                       /\ tx'[d].head = tx[d].head
                       /\ pc'[d] = "idle" <=> pc[d] = "idle"
  BY <1>1 DEF Id, Goto, SafetyInv, TypeOK
<1>6. HolderInv'
  BY <1>1, <1>5 DEF SafetyInv, HolderInv
<1>7. CallInv(c) /\ NextVersion(c)' = NextVersion(c)
  BY <1>1 DEF SafetyInv, NextVersion
<1>8. RequestOf(c)' /\ AskedOf(c)' /\ AnswerOf(c)'
  BY <1>1, <1>2, <1>5, <1>7 DEF CallInv, RequestOf, AskedOf, AnswerOf, InTransaction
<1>9. TxOf(c)'
  BY <1>1, <1>2, <1>5, <1>7 DEF CallInv, TxOf, InTransaction
<1> QED
  BY <1>1, <1>4, <1>6, <1>8, <1>9, QuietStep DEF CallInv, Goto, SafetyInv, TypeOK

\* A failed statement writes nothing; an open transaction is rolled back.
LEMMA FailKeeps == ASSUME SafetyInv, NEW c \in Calls, Fail(c) PROVE SafetyInv'
<1>1. /\ Answer(c, "failed", << >>, 0)
      /\ UNCHANGED <<heads, rows, holder, tx, req>>
  BY DEF Fail
<1>2. CASE pc[c] \in {"load", "append"}
  <2>1. Finish(c, "failed", << >>, 0)
    BY <1>1, <1>2 DEF Fail, Finish, InTransaction
  <2> QED
    BY <1>2, <2>1, RefusedKeeps
<1>3. CASE pc[c] \in InTransaction \ {"rollback"}
  <2>1. Goto(c, "rollback")
    BY <1>3 DEF Fail
  <2>2. "rollback" \in PC \ {"idle"} /\ "failed" \in Codes /\ << >> \in Seq(ContinuationEvent)
    BY EmptySeq DEF PC, InTransaction, Codes
  <2>3. /\ pc' \in [Calls -> PC] /\ pc'[c] = "rollback"
        /\ outcome' \in [Calls -> [code : Codes, events : Seq(ContinuationEvent),
                                   actualVersion : Nat]]
        /\ outcome'[c] = [code |-> "failed", events |-> << >>, actualVersion |-> 0]
        /\ \A d \in Calls \ {c} : pc'[d] = pc[d] /\ outcome'[d] = outcome[d]
    BY <1>1, <2>1, <2>2, AnswerTypes
  <2>4. TypeOK'
    BY <1>1, <2>3 DEF SafetyInv, TypeOK
  <2>5. HolderInv'
    BY <1>1, <1>3, <2>1, <2>2, SameLocks DEF InTransaction
  <2>6. CallInv(c)
    BY DEF SafetyInv
  <2>7. RequestOf(c)' /\ AskedOf(c)' /\ TxOf(c)'
    BY <1>1, <1>3, <2>3, <2>6 DEF CallInv, RequestOf, AskedOf, TxOf, InTransaction, Id
  <2>8. AnswerOf(c)'
    BY <2>3 DEF AnswerOf, ConflictStands
  <2> QED
    BY <1>1, <2>3, <2>4, <2>5, <2>7, <2>8, QuietStep DEF CallInv
<1> QED
  BY <1>2, <1>3 DEF Fail

\* The transaction of c ends without a commit, now or when the server notices.
LEMMA AbortKeeps ==
    ASSUME SafetyInv, NEW c \in Calls, pc[c] \in {"rollback", "abandoned"},
           EndTransaction(c), Goto(c, "done"), UNCHANGED <<heads, rows, req, outcome>>
    PROVE  SafetyInv'
<1>1. pc'[c] = "done" /\ tx'[c].head = Absent
  BY DEF Goto, EndTransaction, NoTx, SafetyInv, TypeOK
<1>2. TypeOK'
  <2>1. NoTx \in [head : Nat \cup {Absent}, events : Seq(ContinuationEvent)]
    BY EmptySeq DEF NoTx
  <2>2. tx' \in [Calls -> [head : Nat \cup {Absent}, events : Seq(ContinuationEvent)]]
    BY <2>1 DEF EndTransaction, SafetyInv, TypeOK
  <2>3. holder' \in [Ids -> Calls \cup {NoCall}]
    BY DEF EndTransaction, SafetyInv, TypeOK
  <2> QED
    BY <2>2, <2>3 DEF SafetyInv, TypeOK, Goto, PC
<1>3. HolderInv'
  BY LocksReturned
<1>4. CallInv(c) /\ req[c].op = "append"
  BY AppendFacts DEF SafetyInv, InTransaction
<1>5. RequestOf(c)' /\ AskedOf(c)' /\ TxOf(c)'
  BY <1>1, <1>4 DEF CallInv, RequestOf, AskedOf, TxOf, InTransaction
<1>6. AnswerOf(c)'
  <2>1. outcome[c].code \in {"VERSION_CONFLICT", "failed"} /\ ConflictStands(c)
    BY <1>4 DEF CallInv, AnswerOf
  <2>2. ConflictStands(c)'
    BY <2>1 DEF ConflictStands, Id
  <2>3. AppendStands(c)'
    BY <2>1 DEF AppendStands
  <2> QED
    BY <1>1, <1>4, <2>2, <2>3 DEF AnswerOf
<1> QED
  BY <1>2, <1>3, <1>5, <1>6, QuietStep
     DEF CallInv, Goto, EndTransaction, SafetyInv, TypeOK

\* ROLLBACK drops what the transaction wrote and frees its locks.
LEMMA RollbackKeeps == ASSUME SafetyInv, NEW c \in Calls, Rollback(c) PROVE SafetyInv'
BY AbortKeeps DEF Rollback

\* The server ends an abandoned transaction as a rollback does.
LEMMA ServerAbortsKeeps == ASSUME SafetyInv, NEW c \in Calls, ServerAborts(c) PROVE SafetyInv'
BY AbortKeeps DEF ServerAborts

\* The transaction that a dead client leaves behind keeps its row lock.
LEMMA RollbackFailsKeeps == ASSUME SafetyInv, NEW c \in Calls, RollbackFails(c) PROVE SafetyInv'
<1>1. /\ pc[c] = "rollback" /\ Goto(c, "abandoned")
      /\ UNCHANGED <<heads, rows, holder, tx, req, outcome>>
  BY DEF RollbackFails
<1>2. "abandoned" \in PC \ {"idle"} /\ pc'[c] = "abandoned"
  BY <1>1 DEF PC, Goto, SafetyInv, TypeOK
<1>3. CallInv(c)
  BY DEF SafetyInv
<1>4. RequestOf(c)' /\ AskedOf(c)' /\ TxOf(c)'
  BY <1>1, <1>2, <1>3 DEF CallInv, RequestOf, AskedOf, TxOf, InTransaction
<1>5. AnswerOf(c)'
  BY <1>1, <1>2, <1>3 DEF CallInv, AnswerOf, ConflictStands, Id
<1> QED
  BY <1>1, <1>2, <1>4, <1>5, AdvanceKeeps DEF CallInv

\* A new call holds nothing.
LEMMA InvokeKeeps == ASSUME SafetyInv, NEW c \in Calls, Invoke(c) PROVE SafetyInv'
<1> PICK r \in Requests :
      /\ r.op = "append" /\ r.expectedVersion > 0 =>
           /\ heads[r.continuationId] # Absent
           /\ r.expectedVersion <= heads[r.continuationId]
      /\ req' = [req EXCEPT ![c] = r]
      /\ Goto(c, r.op)
  BY DEF Invoke
<1>1. pc[c] = "idle" /\ UNCHANGED <<heads, rows, holder, tx, outcome>>
  BY DEF Invoke
<1>2. r.op \in {"load", "append"}
  BY PostgresAssumption DEF LoadRequest, AppendRequest
<1>3. pc'[c] = r.op /\ req'[c] = r /\ Id(c)' = r.continuationId /\ tx[c].head = Absent
  BY DEF Goto, Id, SafetyInv, TypeOK, CallInv, TxOf, Invoke
<1>4. TypeOK'
  BY <1>1, <1>2 DEF SafetyInv, TypeOK, Goto, PC
<1>5. HolderInv'
  <2>1. \A d \in Calls \ {c} : pc'[d] = pc[d] /\ Id(d)' = Id(d)
    BY DEF Goto, Id, SafetyInv, TypeOK
  <2> QED
    BY <1>1, <1>3, <2>1 DEF SafetyInv, HolderInv
<1>6. CallInv(c)'
  BY <1>1, <1>2, <1>3 DEF CallInv, RequestOf, AskedOf, TxOf, AnswerOf, InTransaction
<1> QED
  BY <1>1, <1>4, <1>5, <1>6, QuietStep DEF Goto, SafetyInv, TypeOK

\* COMMIT appends the whole batch to the stream, at the version that was fenced,
\* and sets the head to its new length.
LEMMA CommitAppends ==
    ASSUME SafetyInv, NEW c \in Calls, Commit(c)
    PROVE  /\ Id(c) \in Ids
           /\ req[c].op = "append"
           /\ rows[Id(c)] \in Seq(ContinuationEvent)
           /\ req[c].events \in Seq(ContinuationEvent)
           /\ Len(req[c].events) \in Nat \ {0}
           /\ Len(rows[Id(c)]) \in Nat
           /\ Len(rows[Id(c)]) = req[c].expectedVersion
           /\ SerializesAppendBatch(Id(c), Len(rows[Id(c)]), req[c].events)
           /\ NextVersion(c) = Len(rows[Id(c)]) + Len(req[c].events)
           /\ NextVersion(c) <= MaxEventsPerStream
           /\ rows' = [rows EXCEPT ![Id(c)] = rows[Id(c)] \o req[c].events]
           /\ heads' = [heads EXCEPT ![Id(c)] = NextVersion(c)]
<1>1. /\ req[c].op = "append"
      /\ Id(c) \in Ids
      /\ req[c].events \in Seq(ContinuationEvent)
  BY AppendFacts DEF Commit, InTransaction
<1>2. rows[Id(c)] \in Seq(ContinuationEvent) /\ Len(rows[Id(c)]) \in Nat
  BY <1>1, StreamFacts
<1>3. /\ Len(rows[Id(c)]) = req[c].expectedVersion
      /\ Serializes(req[c])
      /\ req[c].events # << >>
      /\ NextVersion(c) <= MaxEventsPerStream
      /\ tx[c].head = NextVersion(c)
  BY DEF SafetyInv, CallInv, TxOf, Commit, InTransaction
<1>4. Len(req[c].events) \in Nat \ {0}
  BY <1>1, <1>3, EmptySeq
<1>5. RowsWithBatch(c) = rows[Id(c)] \o req[c].events
  <2> DEFINE s == rows[Id(c)]
             t == req[c].events
  <2>1. RowsWithBatch(c) = [v \in DOMAIN s \cup (Len(s) + 1 .. Len(s) + Len(t)) |->
                              IF v > Len(s) THEN t[v - Len(s)] ELSE s[v]]
    BY <1>3 DEF RowsWithBatch, NextVersion
  <2>2. s \in Seq(ContinuationEvent) /\ t \in Seq(ContinuationEvent)
    BY <1>1, <1>2
  <2> HIDE DEF s, t
  <2>3. RowsWithBatch(c) = s \o t
    BY <2>1, <2>2, BatchIsAppended
  <2> QED
    BY <2>3 DEF s, t
<1> QED
  BY <1>1, <1>2, <1>3, <1>4, <1>5 DEF Commit, Serializes, Id, NextVersion

\* What a commit makes of the streams: the one of c grows, the others stay, and
\* every row that was there stays in its place.
LEMMA CommitExtends ==
    ASSUME SafetyInv, NEW c \in Calls, Commit(c)
    PROVE  /\ rows'[Id(c)] \in Seq(ContinuationEvent)
           /\ Len(rows'[Id(c)]) = Len(rows[Id(c)]) + Len(req[c].events)
           /\ \A k \in 1 .. Len(req[c].events) :
                /\ Len(rows[Id(c)]) + k \in DOMAIN rows'[Id(c)]
                /\ rows'[Id(c)][Len(rows[Id(c)]) + k] = req[c].events[k]
           /\ \A id \in Ids \ {Id(c)} : rows'[id] = rows[id] /\ heads'[id] = heads[id]
           /\ \A id \in Ids : \A v \in DOMAIN rows[id] :
                v \in DOMAIN rows'[id] /\ rows'[id][v] = rows[id][v]
<1> DEFINE i == Id(c)
           s == rows[i]
           t == req[c].events
<1>1. i \in Ids /\ s \in Seq(ContinuationEvent) /\ t \in Seq(ContinuationEvent)
  BY CommitAppends
<1>2. rows'[i] = s \o t
  BY CommitAppends, ZenonT(30) DEF SafetyInv, TypeOK
<1>3. \A id \in Ids \ {i} : rows'[id] = rows[id] /\ heads'[id] = heads[id]
  BY CommitAppends, ZenonT(30) DEF SafetyInv, TypeOK
<1> HIDE DEF t, s, i
<1>4. /\ s \o t \in Seq(ContinuationEvent)
      /\ Len(s \o t) = Len(s) + Len(t)
      /\ \A v \in DOMAIN s : v \in DOMAIN (s \o t) /\ (s \o t)[v] = s[v]
      /\ \A k \in 1 .. Len(t) :
           /\ Len(s) + k \in DOMAIN (s \o t)
           /\ (s \o t)[Len(s) + k] = t[k]
  BY <1>1, AppendKeeps
<1>5. \A id \in Ids : \A v \in DOMAIN rows[id] :
        v \in DOMAIN rows'[id] /\ rows'[id][v] = rows[id][v]
  <2> TAKE id \in Ids
  <2>1. CASE id = i
    BY <1>2, <1>4, <2>1 DEF s
  <2>2. CASE id # i
    BY <1>3, <2>2
  <2> QED
    BY <2>1, <2>2
<1> QED
  BY <1>2, <1>3, <1>4, <1>5 DEF i, s, t

\* Nobody else is past the fence of the stream that c commits to.
LEMMA CommitAlone ==
    ASSUME SafetyInv, NEW c \in Calls, Commit(c), NEW d \in Calls \ {c}, pc[d] # "idle",
           tx[d].head # Absent
    PROVE  Id(d) # Id(c)
<1>1. Id(c) \in Ids /\ pc[c] = "commit" /\ tx[c].head # Absent
  <2>1. pc[c] = "commit" /\ tx[c].head = NextVersion(c)
    BY DEF Commit, SafetyInv, CallInv, TxOf
  <2>2. Id(c) \in Ids /\ NextVersion(c) \in Nat
    BY <2>1, AppendFacts DEF InTransaction
  <2> QED
    BY <2>1, <2>2, PostgresAssumption
<1>2. holder[Id(c)] = c
  BY <1>1 DEF SafetyInv, HolderInv
<1>3. Id(d) \in Ids => holder[Id(d)] = d
  BY DEF SafetyInv, HolderInv
<1> QED
  BY <1>1, <1>2, <1>3

\* A commit disturbs no other call: the rows it changes are locked.
LEMMA CommitKeepsOthers ==
    ASSUME SafetyInv, NEW c \in Calls, Commit(c), NEW d \in Calls \ {c}
    PROVE  CallInv(d)'
<1>1. /\ pc'[d] = pc[d] /\ req'[d] = req[d] /\ tx'[d] = tx[d] /\ outcome'[d] = outcome[d]
      /\ Id(d)' = Id(d) /\ NextVersion(d)' = NextVersion(d)
  BY DEF Commit, EndTransaction, Goto, Answer, Id, NextVersion, SafetyInv, TypeOK
<1>2. CallInv(d)
  BY DEF SafetyInv
<1>3. RequestOf(d)'
  BY <1>1, <1>2 DEF CallInv, RequestOf
<1>4. CASE pc[d] = "idle"
  BY <1>1, <1>2, <1>3, <1>4 DEF CallInv, AskedOf, TxOf, AnswerOf, InTransaction
<1>5. CASE pc[d] # "idle"
  <2>1. Id(d) \in Ids
    BY <1>5, RequestFacts
  <2>2. heads[Id(d)] # Absent =>
          heads'[Id(d)] # Absent /\ heads[Id(d)] \in Nat /\ heads'[Id(d)] \in Nat
            /\ heads[Id(d)] <= heads'[Id(d)]
    <3>1. CASE Id(d) = Id(c)
      <4> DEFINE j == Id(d)
                 m == Len(rows[j])
                 n == Len(req[c].events)
      <4>1. heads'[j] = m + n /\ m \in Nat /\ n \in Nat /\ j \in Ids
        BY <2>1, <3>1, CommitAppends DEF SafetyInv, TypeOK
      <4>2. heads[j] # Absent => heads[j] = m
        BY <2>1, StreamFacts
      <4> HIDE DEF j, m, n
      <4>3. heads[j] # Absent =>
              heads'[j] # Absent /\ heads[j] \in Nat /\ heads'[j] \in Nat /\ heads[j] <= heads'[j]
        BY <4>1, <4>2, PostgresAssumption
      <4> QED
        BY <4>3 DEF j
    <3>2. CASE Id(d) # Id(c)
      <4>1. heads'[Id(d)] = heads[Id(d)]
        BY <2>1, <3>2, CommitExtends
      <4>2. heads[Id(d)] # Absent => heads[Id(d)] \in Nat
        BY <2>1, StreamFacts
      <4> QED
        BY <4>1, <4>2
    <3> QED
      BY <3>1, <3>2
  <2>3. tx[d].head # Absent =>
          heads'[Id(d)] = heads[Id(d)] /\ rows'[Id(d)] = rows[Id(d)]
    BY <1>5, <2>1, CommitAlone, CommitExtends
  <2>4. pc[d] \in InTransaction \cup {"append"} =>
          req[d].expectedVersion \in Nat /\ NextVersion(d) \in Nat /\ NextVersion(d) # Absent
    BY AppendFacts, PostgresAssumption
  <2>5. AskedOf(d)'
    BY <1>1, <1>2, <2>2, <2>4 DEF CallInv, AskedOf
  <2>6. TxOf(d)'
    <3>1. pc[d] = "fence" =>
            \/ tx[d].head = Absent /\ heads'[Id(d)] # Absent
            \/ tx[d].head = 0 /\ req[d].expectedVersion = 0 /\ heads'[Id(d)] = Absent
      BY <1>2, <2>2, <2>3, PostgresAssumption DEF CallInv, TxOf
    <3>2. pc[d] = "readHead" =>
            heads'[Id(d)] # Absent /\ heads'[Id(d)] > req[d].expectedVersion
      BY <1>2, <2>2, <2>4 DEF CallInv, TxOf, InTransaction
    <3>3. pc[d] \in {"insertEvents", "commit"} =>
            tx[d].head = NextVersion(d) /\ Len(rows'[Id(d)]) = req[d].expectedVersion
      BY <1>2, <2>3, <2>4 DEF CallInv, TxOf, InTransaction
    <3> QED
      BY <1>1, <1>2, <3>1, <3>2, <3>3 DEF CallInv, TxOf
  <2>7. AnswerOf(d)'
    <3>1. \A v \in DOMAIN rows[Id(d)] :
            v \in DOMAIN rows'[Id(d)] /\ rows'[Id(d)][v] = rows[Id(d)][v]
      BY <2>1, CommitExtends
    <3>2. ConflictStands(d) => ConflictStands(d)'
      BY <1>1, <3>1 DEF ConflictStands
    <3>3. LoadStands(d) => LoadStands(d)'
      BY <1>1, <3>1 DEF LoadStands
    <3>4. AppendStands(d) => AppendStands(d)'
      BY <1>1, <3>1 DEF AppendStands
    <3> QED
      BY <1>1, <1>2, <3>2, <3>3, <3>4 DEF CallInv, AnswerOf
  <2> QED
    BY <1>3, <2>5, <2>6, <2>7 DEF CallInv
<1> QED
  BY <1>4, <1>5

\* COMMIT publishes head and events together.
LEMMA CommitKeeps == ASSUME SafetyInv, NEW c \in Calls, Commit(c) PROVE SafetyInv'
<1> DEFINE i == Id(c)
           batch == req[c].events
<1>1. /\ pc[c] = "commit" /\ pc' = [pc EXCEPT ![c] = "done"] /\ UNCHANGED req
      /\ EndTransaction(c) /\ Goto(c, "done")
  BY DEF Commit, Goto
<1>2. /\ i \in Ids /\ req[c].op = "append"
      /\ Len(batch) \in Nat \ {0} /\ Len(rows[i]) \in Nat
      /\ Len(rows[i]) = req[c].expectedVersion
      /\ SerializesAppendBatch(i, Len(rows[i]), batch)
      /\ NextVersion(c) = Len(rows[i]) + Len(batch)
      /\ NextVersion(c) <= MaxEventsPerStream
      /\ rows' = [rows EXCEPT ![i] = rows[i] \o batch]
      /\ heads' = [heads EXCEPT ![i] = NextVersion(c)]
  BY CommitAppends
<1>3. /\ rows'[i] \in Seq(ContinuationEvent)
      /\ Len(rows'[i]) = Len(rows[i]) + Len(batch)
      /\ \A k \in 1 .. Len(batch) :
           /\ Len(rows[i]) + k \in DOMAIN rows'[i]
           /\ rows'[i][Len(rows[i]) + k] = batch[k]
      /\ \A id \in Ids \ {i} : rows'[id] = rows[id] /\ heads'[id] = heads[id]
      /\ \A v \in DOMAIN rows[i] : rows'[i][v] = rows[i][v]
  BY <1>2, CommitExtends
<1>4. TypeOK'
  <2>1. NoTx \in [head : Nat \cup {Absent}, events : Seq(ContinuationEvent)]
    BY EmptySeq DEF NoTx
  <2>2. tx' \in [Calls -> [head : Nat \cup {Absent}, events : Seq(ContinuationEvent)]]
    BY <1>1, <2>1 DEF EndTransaction, SafetyInv, TypeOK
  <2>3. holder' \in [Ids -> Calls \cup {NoCall}]
    BY <1>1 DEF EndTransaction, SafetyInv, TypeOK
  <2>4. outcome' \in [Calls -> [code : Codes, events : Seq(ContinuationEvent),
                                actualVersion : Nat]]
    BY EmptySeq DEF Commit, Answer, Codes, SafetyInv, TypeOK
  <2>5. heads' \in [Ids -> Nat \cup {Absent}] /\ DOMAIN rows' = Ids
    BY <1>2 DEF SafetyInv, TypeOK
  <2> QED
    BY <1>1, <2>2, <2>3, <2>4, <2>5 DEF SafetyInv, TypeOK, PC
<1>5. HolderInv'
  BY <1>1, LocksReturned
<1>6. ASSUME NEW j \in Ids, j = i PROVE StreamIsWhole(j)'
  <2>1. ASSUME NEW v \in 1 .. Len(rows'[i])
        PROVE  rows'[i][v].continuationId = i /\ rows'[i][v].version = v
    <3> DEFINE m == Len(rows[i])
               n == Len(batch)
    <3>1. m \in Nat /\ n \in Nat /\ v \in 1 .. m + n
      BY <1>2, <1>3, <2>1
    <3>2. CASE v <= m
      <4>1. v \in 1 .. m /\ v \in DOMAIN rows[i]
        BY <1>2, <3>1, <3>2, StreamFacts
      <4> QED
        BY <1>2, <1>3, <4>1 DEF SafetyInv, RowsInv, StreamIsWhole
    <3>3. CASE v > m
      <4>1. v - m \in 1 .. n /\ m + (v - m) = v
        <5> HIDE DEF m, n
        <5> QED
          BY <3>1, <3>3
      <4>2. rows'[i][v] = batch[v - m]
        BY <1>3, <4>1
      <4> QED
        BY <1>2, <4>1, <4>2 DEF SerializesAppendBatch
    <3> QED
      BY <3>1, <3>2, <3>3
  <2> HIDE DEF i
  <2> QED
    BY <1>3, <1>6, <2>1 DEF StreamIsWhole
<1>7. ASSUME NEW j \in Ids, j = i PROVE HeadCounts(j)'
  <2>1. heads'[i] = NextVersion(c)
    BY <1>2 DEF SafetyInv, TypeOK
  <2>2. heads'[i] \in Nat /\ heads'[i] # Absent /\ heads'[i] > 0
    BY <1>2, <2>1, PostgresAssumption
  <2>3. heads'[i] = Len(rows'[i]) /\ heads'[i] <= MaxEventsPerStream
    BY <1>2, <1>3, <2>1
  <2> HIDE DEF i
  <2> QED
    BY <1>7, <2>2, <2>3 DEF HeadCounts
<1>8. RowsInv'
  <2>1. ASSUME NEW id \in Ids, id # i PROVE StreamIsWhole(id)' /\ HeadCounts(id)'
    <3>1. rows'[id] = rows[id] /\ heads'[id] = heads[id]
      BY <1>3, <2>1
    <3> QED
      BY <3>1 DEF SafetyInv, RowsInv, StreamIsWhole, HeadCounts
  <2> QED
    BY <1>6, <1>7, <2>1 DEF RowsInv
<1>9. CallInv(c)'
  <2>1. /\ pc'[c] = "done" /\ tx'[c].head = Absent /\ Id(c)' = i /\ req'[c] = req[c]
        /\ outcome'[c].code \in {"ok", "failed"}
    BY <1>1 DEF Commit, EndTransaction, Answer, NoTx, Id, SafetyInv, TypeOK
  <2>2. CallInv(c)
    BY DEF SafetyInv
  <2>3. RequestOf(c)' /\ AskedOf(c)' /\ TxOf(c)'
    BY <1>1, <2>1, <2>2 DEF CallInv, RequestOf, AskedOf, TxOf, InTransaction
  <2>4. \A k \in 1 .. Len(batch) :
          /\ req[c].expectedVersion + k \in DOMAIN rows'[i]
          /\ rows'[i][req[c].expectedVersion + k] = batch[k]
    BY <1>2, <1>3
  <2> HIDE DEF i
  <2>5. AnswerOf(c)'
    BY <1>2, <2>1, <2>4 DEF AnswerOf, AppendStands, ConflictStands
  <2> QED
    BY <2>3, <2>5 DEF CallInv
<1> QED
  BY <1>4, <1>5, <1>8, <1>9, CommitKeepsOthers DEF SafetyInv

\* Empty tables satisfy the invariant.
LEMMA InitSafety == Init => SafetyInv
<1> SUFFICES ASSUME Init PROVE SafetyInv
  OBVIOUS
<1>1. << >> \in Seq(ContinuationEvent) /\ Len(<< >>) = 0 /\ 1 .. 0 = {}
  BY EmptySeq
<1>2. TypeOK
  BY <1>1 DEF Init, TypeOK, NoTx, NoOutcome, Codes, PC
<1>3. RowsInv
  <2>1. \A id \in Ids : rows[id] = << >> /\ heads[id] = Absent
    BY DEF Init
  <2> QED
    BY <1>1, <2>1 DEF RowsInv, StreamIsWhole, HeadCounts
<1>4. HolderInv
  BY PostgresAssumption DEF Init, HolderInv
<1>5. \A c \in Calls : CallInv(c)
  BY DEF Init, NoTx, CallInv, RequestOf, AskedOf, TxOf, AnswerOf, InTransaction
<1> QED
  BY <1>2, <1>3, <1>4, <1>5 DEF SafetyInv

\* The invariant is about the variables alone.
LEMMA StutterSafety == ASSUME SafetyInv, UNCHANGED vars PROVE SafetyInv'
<1>1. TypeOK' /\ RowsInv'
  BY DEF vars, SafetyInv, TypeOK, RowsInv, StreamIsWhole, HeadCounts
<1>2. HolderInv'
  BY DEF vars, SafetyInv, HolderInv, Id
<1>3. ASSUME NEW c \in Calls PROVE CallInv(c)'
  <2>1. CallInv(c)
    BY DEF SafetyInv
  <2> QED
    BY <2>1 DEF vars, CallInv, RequestOf, AskedOf, TxOf, AnswerOf, LoadStands, AppendStands,
       ConflictStands, Id, NextVersion
<1> QED
  BY <1>1, <1>2, <1>3 DEF SafetyInv

\* Every step keeps the invariant.
LEMMA StepSafety == SafetyInv /\ [Next]_vars => SafetyInv'
<1> SUFFICES ASSUME SafetyInv, [Next]_vars PROVE SafetyInv'
  OBVIOUS
<1>1. ASSUME NEW c \in Calls, Invoke(c) \/ Step(c) \/ Fail(c) PROVE SafetyInv'
  BY <1>1, InvokeKeeps, FailKeeps, LoadKeeps, RejectAppendKeeps, CompareHeadKeeps, BeginKeeps,
     InsertHeadKeeps, FenceMissesKeeps, FenceTakesKeeps, ReadHeadKeeps, InsertEventsKeeps,
     CommitKeeps, RollbackKeeps, RollbackFailsKeeps, ServerAbortsKeeps DEF Step
<1> QED
  BY <1>1, StutterSafety DEF Next

-----------------------------------------------------------------------------
(* Theorems *)

\* The inductive invariant: heads count rows, the row lock belongs to exactly the
\* call that wrote the head, past the fence the stream stands still until that
\* transaction ends, and what was answered stands.
THEOREM Safety == Spec => []SafetyInv
BY InitSafety, StepSafety, PTL DEF Spec

\* The types of all variables: no head, answer or version is ever undefined.
THEOREM TypeCorrect == Spec => []TypeOK
<1>1. SafetyInv => TypeOK
  BY DEF SafetyInv
<1> QED
  BY Safety, <1>1, PTL

\* However many replicas append, fail and leave transactions behind, the committed
\* head counts the committed events, and no head 0 is ever committed.
THEOREM HeadsAlwaysCount == Spec => []HeadsCountEvents
<1>1. SafetyInv => HeadsCountEvents
  <2> SUFFICES ASSUME SafetyInv, NEW id \in Ids
               PROVE  IF heads[id] = Absent THEN DOMAIN rows[id] = {}
                      ELSE heads[id] > 0 /\ DOMAIN rows[id] = 1 .. heads[id]
    BY DEF HeadsCountEvents
  <2>1. 1 .. 0 = {}
    OBVIOUS
  <2> QED
    BY <2>1, StreamFacts
<1> QED
  BY Safety, <1>1, PTL

\* A load that returns has a whole prefix of the stream, for good; it throws
\* neither CORRUPT_STREAM nor STREAM_TOO_LARGE, for any limit of at least 1.
THEOREM LoadsAlwaysWhole == Spec => []LoadsAreWhole
<1>1. SafetyInv => LoadsAreWhole
  <2> SUFFICES ASSUME SafetyInv, NEW c \in Calls, req[c].op = "load", pc[c] = "done"
               PROVE  /\ outcome[c].code \in {"ok", "failed"}
                      /\ outcome[c].events = [v \in 1 .. Len(outcome[c].events) |-> rows[Id(c)][v]]
    BY DEF LoadsAreWhole
  <2>1. LoadStands(c)
    BY DEF SafetyInv, CallInv, AnswerOf
  <2> DEFINE events == outcome[c].events
  <2>2. events \in Seq(ContinuationEvent)
    BY DEF SafetyInv, TypeOK
  <2>3. events \in [1 .. Len(events) -> ContinuationEvent]
    BY <2>2, LenProperties
  <2>4. \A v \in 1 .. Len(events) : events[v] = rows[Id(c)][v]
    BY <2>1 DEF LoadStands
  <2> HIDE DEF events
  <2>5. events = [v \in 1 .. Len(events) |-> rows[Id(c)][v]]
    BY <2>3, <2>4
  <2> QED
    BY <2>1, <2>5 DEF LoadStands, events
<1> QED
  BY Safety, <1>1, PTL

\* An append that returned has its batch in the stream at the place it asked for,
\* for good, and one that reports a conflict found the stream beyond that place.
THEOREM AppendsAlwaysDecided == Spec => []AppendsAreDecided
<1>1. SafetyInv => AppendsAreDecided
  BY DEF SafetyInv, CallInv, AnswerOf, AppendStands, ConflictStands, AppendsAreDecided
<1> QED
  BY Safety, <1>1, PTL

\* Only COMMIT changes the committed rows.
LEMMA OnlyCommitWrites ==
    ASSUME [Next]_vars
    PROVE  \/ UNCHANGED rows
           \/ \E c \in Calls : Commit(c)
<1>1. ASSUME NEW c \in Calls, Invoke(c) \/ Step(c) \/ Fail(c), ~ Commit(c)
      PROVE  UNCHANGED rows
  BY <1>1 DEF Invoke, Step, Fail, Load, Finish, RejectAppend, CompareHead, Begin, InsertHead,
     FenceMisses, FenceTakes, ReadHead, InsertEvents, Rollback, RollbackFails, ServerAborts
<1> QED
  BY <1>1 DEF Next, vars

\* PostgresEventStore implements the contract of the event store port: seen
\* through its committed rows, the statements of append are one step that compares
\* the version and adds the whole batch.
THEOREM ImplementsStore == Spec => StoreContract
<1>1. Init => Store!StoreInit
  BY DEF Init, Store!StoreInit
<1>2. SafetyInv /\ [Next]_vars => [Store!StoreNext]_rows
  <2> SUFFICES ASSUME SafetyInv, [Next]_vars, rows' # rows PROVE Store!StoreNext
    OBVIOUS
  <2> PICK c \in Calls : Commit(c)
    BY OnlyCommitWrites
  <2> DEFINE i == Id(c)
             batch == req[c].events
  <2>1. /\ i \in Ids
        /\ rows[i] \in Seq(ContinuationEvent)
        /\ batch \in Seq(ContinuationEvent)
        /\ SerializesAppendBatch(i, Len(rows[i]), batch)
        /\ rows' = [rows EXCEPT ![i] = rows[i] \o batch]
    BY CommitAppends
  <2>2. rows'[i] = rows[i] \o batch
    BY <2>1 DEF SafetyInv, TypeOK
  <2>3. Store!Added(i) = batch
    BY <2>1, <2>2, SuffixOfAppend DEF Store!Added
  <2>4. Store!StoreAppend(i)
    BY <2>1, <2>3
       DEF Store!StoreAppend, Store!AppendAccepted, Store!SerializesAppendBatch,
           SerializesAppendBatch, Store!CONTINUATION_SCHEMA_VERSION, CONTINUATION_SCHEMA_VERSION
  <2> QED
    BY <2>1, <2>4 DEF Store!StoreNext
<1> QED
  BY <1>1, <1>2, Safety, PTL DEF Spec, StoreContract, Store!StoreSpec
=============================================================================
