---------------------- MODULE ContinuationServiceProofs ----------------------
(***************************************************************************)
(* Safety of ContinuationService for any number of calls, continuations,   *)
(* keys, payloads and clock values, with or without a monotone clock.      *)
(*                                                                         *)
(* The argument: a stream is empty, a creation, or a creation and one      *)
(* ending (StreamInv), because every append is made with the version of an *)
(* envelope that the stream still or once recorded, and only a pending     *)
(* envelope, whose version is 1, leads to an append (CallInv).  Streams    *)
(* only grow, so what a call once loaded stays a record of its stream.     *)
(***************************************************************************)
EXTENDS ContinuationServiceProperties, TLAPS

-----------------------------------------------------------------------------
(* What a stream records, without the fold *)

\* The envelope of the creation that opens a stream, and of its ending.
Birth(s) == CreatedEnvelope(s[1])
Ending(s) == TerminalEnvelope(Birth(s), s[2])

\* e is the replay of stream s or of a non-empty prefix of it.
Records(s, e) ==
    \/ Len(s) >= 1 /\ e = Birth(s)
    \/ Len(s) = 2 /\ e = Ending(s)

\* Stream s of continuation id holds at most a creation and an ending.
WellFormed(s, id) ==
    /\ s \in Seq(ContinuationEvent)
    /\ Len(s) <= 2
    /\ Len(s) >= 1 =>
        /\ s[1] \in ContinuationCreated
        /\ s[1].schemaVersion = 1
        /\ s[1].continuationId = id
        /\ s[1].version = 1
        /\ s[1].occurredAt < s[1].expiresAt
    /\ Len(s) = 2 =>
        /\ s[2] \in ContinuationResumed \cup ContinuationCancelled \cup ContinuationExpired
        /\ s[2].schemaVersion = 1
        /\ s[2].continuationId = id
        /\ s[2].version = 2
        /\ s[2].type = "expired" => s[2].occurredAt >= s[1].expiresAt
        /\ s[2].type = "cancelled" => s[2].occurredAt < s[1].expiresAt

\* Call c holds the token of stream s and made the decision that s[2] records.
MadeResume(c, s, id) ==
    /\ pc[c] # "idle"
    /\ req[c].op = "resume"
    /\ Id(c) = id
    /\ Hash(req[c].resumeToken) = s[1].resumeTokenHash
    /\ req[c].idempotencyKey = s[2].idempotencyKey
    /\ req[c].resumePayload = s[2].resumePayload

StreamInv ==
    \A id \in Ids :
        /\ WellFormed(streams[id], id)
        /\ (Len(streams[id]) = 2 /\ streams[id][2].type = "resumed") =>
              \E c \in Calls : MadeResume(c, streams[id], id)

-----------------------------------------------------------------------------
(* What a call knows *)

\* Labels at which a call holds an envelope, and those at which it is pending.
Holding == {"loaded", "expire", "reload", "settle", "reresolve", "observe"}

\* The outcome that a successful call of each kind may report.
Reports(c, e) ==
    /\ req[c].op = "create" => e.status = "pending" /\ e.resumeTokenHash = Hash(c)
    /\ req[c].op = "resume" =>
          /\ e.status = "resumed"
          /\ e.idempotencyKey = req[c].idempotencyKey
          /\ e.resumePayload = req[c].resumePayload
    /\ req[c].op = "cancel" =>
          /\ e.status = "cancelled"
          /\ e.reason = req[c].reason
          /\ req[c].expectedVersion \in {Undefined, 1}
    /\ req[c].op = "inspect" => (e.status = "pending" => now[c] < e.expiresAt)

\* A call on its way.
RunInv(c, s) ==
    /\ pc[c] \in Holding \/ (pc[c] = "append" /\ req[c].op # "create") => Records(s, env[c])
    /\ pc[c] = "append" /\ req[c].op = "create" =>
          /\ env[c] = Missing
          /\ req[c].expiresAt # Undefined => now[c] < req[c].expiresAt
    /\ pc[c] = "append" => req[c].op \in {"create", "resume", "cancel"}
    /\ pc[c] \in {"loaded", "expire", "reload", "settle"} => req[c].op # "create"
    /\ pc[c] = "reresolve" => req[c].op \in {"resume", "cancel"}
    /\ pc[c] \in {"expire", "reload", "reresolve"} => env[c].status = "pending"
    /\ pc[c] = "append" /\ req[c].op # "create" => env[c].status = "pending"
    /\ pc[c] \in {"reload", "reresolve"} => Len(s) = 2
    /\ pc[c] \in {"expire", "reload"} => now[c] >= env[c].expiresAt
    /\ pc[c] = "settle" /\ env[c].status = "pending" /\ req[c].op \in {"inspect", "cancel"} =>
          now[c] < env[c].expiresAt
    /\ pc[c] = "settle" /\ env[c].status = "resumed" /\ req[c].op = "resume" =>
          now[c] >= env[c].expiresAt
    /\ pc[c] = "append" /\ req[c].op = "cancel" =>
          now[c] < env[c].expiresAt /\ req[c].expectedVersion \in {Undefined, 1}
    /\ pc[c] \in Holding \cup {"append"} /\ req[c].op = "resume" =>
          tokenHash[c] = s[1].resumeTokenHash
    /\ pc[c] \in (Holding \ {"loaded"}) \cup {"append"} /\ req[c].op = "resume" =>
          tokenHash[c] = Hash(req[c].resumeToken)
    /\ pc[c] = "observe" => req[c].op # "inspect" /\ Reports(c, env[c])

\* A call that has answered.
DoneInv(c, s) ==
    pc[c] = "done" /\ reply[c].code = "ok" =>
        Records(s, reply[c].envelope) /\ Reports(c, reply[c].envelope)

CallInvOf(c) ==
    /\ pc[c] # "idle" => req[c] \in Requests
    /\ pc[c] # "done" => reply[c] = NoReply
    /\ pc[c] # "idle" => RunInv(c, streams[Id(c)]) /\ DoneInv(c, streams[Id(c)])

CallInv == \A c \in Calls : CallInvOf(c)

\* The inductive invariant.
SafetyInv == TypeOK /\ StreamInv /\ CallInv

-----------------------------------------------------------------------------
(* Replay of a well-formed stream *)

\* A length of at most two is one of three.
LEMMA UpToTwo == ASSUME NEW n \in Nat, n <= 2 PROVE n \in {0, 1, 2}
OBVIOUS

\* The reducer accepts the creation that opens a well-formed stream.
LEMMA ReduceCreated ==
    ASSUME NEW id, NEW s, WellFormed(s, id), Len(s) >= 1
    PROVE  /\ Birth(s).status = "pending"
           /\ ReduceContinuation(Missing, s[1]) = Birth(s)
BY DEF WellFormed, ContinuationCreated, ReduceContinuation, Rejection, Birth,
       CreatedEnvelope, Missing, CONTINUATION_SCHEMA_VERSION

\* ... and the ending that follows it.
LEMMA ReduceEnding ==
    ASSUME NEW id, NEW s, WellFormed(s, id), Len(s) = 2
    PROVE  ReduceContinuation(Birth(s), s[2]) = Ending(s)
<1>1. Rejection(Birth(s), s[2]) = "none"
  BY DEF WellFormed, ContinuationCreated, ContinuationResumed, ContinuationCancelled,
       ContinuationExpired, Rejection, Birth,
       CreatedEnvelope, Missing, CONTINUATION_SCHEMA_VERSION
<1>2. Birth(s) # Missing
  BY DEF Birth, CreatedEnvelope, Missing
<1> QED
  BY <1>1, <1>2 DEF ReduceContinuation, Ending

\* replayContinuation of a well-formed stream is its last record.  The fold is a
\* recursive function; with at most two events its values can be written down.
LEMMA ReplayOfRecord ==
    ASSUME NEW id, NEW s, WellFormed(s, id)
    PROVE  /\ Len(s) = 0 => ReplayContinuation(s) = Missing
           /\ Len(s) = 1 => ReplayContinuation(s) = Birth(s)
           /\ Len(s) = 2 => ReplayContinuation(s) = Ending(s)
<1> DEFINE Fold(f) ==
             [i \in 0 .. Len(s) |->
               IF i = 0 THEN Missing
               ELSE IF f[i - 1].status = "rejected" THEN f[i - 1]
               ELSE ReduceContinuation(f[i - 1], s[i])]
           fold == CHOOSE f : f = Fold(f)
           g == [i \in 0 .. Len(s) |->
                   IF i = 0 THEN Missing ELSE IF i = 1 THEN Birth(s) ELSE Ending(s)]
<1>0. Len(s) \in {0, 1, 2}
  <2>1. s \in Seq(ContinuationEvent) /\ Len(s) <= 2
    BY DEF WellFormed
  <2>2. Len(s) \in Nat
    BY <2>1
  <2> QED
    BY <2>1, <2>2, UpToTwo
<1>1. ReplayContinuation(s) = fold[Len(s)]
  BY Zenon DEF ReplayContinuation
<1>2. Missing.status # "rejected"
  BY DEF Missing
<1>3. g = Fold(g)
  <2>1. CASE Len(s) = 0
    BY <2>1
  <2>2. CASE Len(s) = 1
    BY <2>2, <1>2, ReduceCreated
  <2>3. CASE Len(s) = 2
    <3>1. Birth(s).status = "pending" /\ ReduceContinuation(Missing, s[1]) = Birth(s)
      BY <2>3, ReduceCreated
    <3>2. ReduceContinuation(Birth(s), s[2]) = Ending(s)
      BY <2>3, ReduceEnding
    <3> QED
      BY <2>3, <1>2, <3>1, <3>2
  <2> QED
    BY <1>0, <2>1, <2>2, <2>3
<1>4. fold = Fold(fold)
  BY <1>3, Zenon
<1> HIDE DEF fold, g
<1>5. fold[0] = Missing
  BY <1>0, <1>4
<1>6. Len(s) >= 1 => fold[1] = Birth(s)
  <2> SUFFICES ASSUME Len(s) >= 1 PROVE fold[1] = Birth(s)
    OBVIOUS
  <2>1. fold[1] = IF fold[0].status = "rejected" THEN fold[0]
                  ELSE ReduceContinuation(fold[0], s[1])
    BY <1>0, <1>4
  <2> QED
    BY <2>1, <1>5, <1>2, ReduceCreated
<1>7. Len(s) = 2 => fold[2] = Ending(s)
  <2> SUFFICES ASSUME Len(s) = 2 PROVE fold[2] = Ending(s)
    OBVIOUS
  <2>1. fold[2] = IF fold[1].status = "rejected" THEN fold[1]
                  ELSE ReduceContinuation(fold[1], s[2])
    BY <1>0, <1>4
  <2> QED
    BY <2>1, <1>6, ReduceCreated, ReduceEnding
<1> QED
  <2>1. CASE Len(s) = 0
    BY <2>1, <1>1, <1>5
  <2>2. CASE Len(s) = 1
    <3>1. fold[1] = Birth(s)
      BY <2>2, <1>6
    <3> QED
      BY <2>2, <1>1, <3>1
  <2>3. CASE Len(s) = 2
    BY <2>3, <1>1, <1>7
  <2> QED
    BY <1>0, <2>1, <2>2, <2>3

\* What the two records of a well-formed stream look like.
LEMMA RecordTypes ==
    ASSUME NEW id \in Ids, NEW s, WellFormed(s, id)
    PROVE  /\ Len(s) \in {0, 1, 2}
           /\ Len(s) >= 1 =>
                /\ Birth(s) \in PendingEnvelope
                /\ Birth(s).version = 1
                /\ Birth(s).continuationId = id
                /\ Birth(s).expiresAt = s[1].expiresAt
                /\ Birth(s).createdAt = s[1].occurredAt
                /\ Birth(s).resumeTokenHash = s[1].resumeTokenHash
           /\ Len(s) = 2 =>
                /\ Ending(s).version = 2
                /\ Ending(s).continuationId = id
                /\ Ending(s).createdAt = s[1].occurredAt
                /\ Ending(s).expiresAt = s[1].expiresAt
                /\ Ending(s).status = s[2].type
                /\ s[2].type \in TerminalStatus
                /\ s[2].type = "resumed" =>
                     /\ Ending(s) \in ResumedEnvelope
                     /\ Ending(s).idempotencyKey = s[2].idempotencyKey
                     /\ Ending(s).resumePayload = s[2].resumePayload
                /\ s[2].type = "cancelled" =>
                     /\ Ending(s) \in CancelledEnvelope
                     /\ Ending(s).cancelledAt = s[2].occurredAt
                     /\ Ending(s).reason = s[2].reason
                /\ s[2].type = "expired" =>
                     /\ Ending(s) \in ExpiredEnvelope
                     /\ Ending(s).expiredAt = s[2].occurredAt
<1>1. s \in Seq(ContinuationEvent) /\ Len(s) <= 2
  BY DEF WellFormed
<1>2. Len(s) \in Nat
  BY <1>1
<1>3. Len(s) \in {0, 1, 2}
  BY <1>1, <1>2, UpToTwo
<1>4. ASSUME Len(s) >= 1
      PROVE  /\ s[1] \in ContinuationCreated
             /\ s[1].continuationId = id
             /\ s[1].version = 1
  BY <1>4 DEF WellFormed
<1>5. ASSUME Len(s) >= 1
      PROVE  /\ Birth(s) \in PendingEnvelope
             /\ Birth(s).version = 1
             /\ Birth(s).continuationId = id
             /\ Birth(s).expiresAt = s[1].expiresAt
             /\ Birth(s).createdAt = s[1].occurredAt
             /\ Birth(s).resumeTokenHash = s[1].resumeTokenHash
  <2> DEFINE b == s[1]
  <2>1. b \in ContinuationCreated /\ b.continuationId = id /\ b.version = 1
    BY <1>4, <1>5
  <2> HIDE DEF b
  <2>2. /\ CreatedEnvelope(b) \in PendingEnvelope
        /\ CreatedEnvelope(b).version = 1
        /\ CreatedEnvelope(b).continuationId = id
        /\ CreatedEnvelope(b).expiresAt = b.expiresAt
        /\ CreatedEnvelope(b).createdAt = b.occurredAt
        /\ CreatedEnvelope(b).resumeTokenHash = b.resumeTokenHash
    BY <2>1 DEF CreatedEnvelope, PendingEnvelope, ContinuationCreated
  <2> QED
    BY <2>2 DEF Birth, b
<1>6. ASSUME Len(s) = 2
      PROVE  /\ Ending(s).version = 2
             /\ Ending(s).continuationId = id
             /\ Ending(s).createdAt = s[1].occurredAt
             /\ Ending(s).expiresAt = s[1].expiresAt
             /\ Ending(s).status = s[2].type
             /\ s[2].type \in TerminalStatus
             /\ s[2].type = "resumed" =>
                  /\ Ending(s) \in ResumedEnvelope
                  /\ Ending(s).idempotencyKey = s[2].idempotencyKey
                  /\ Ending(s).resumePayload = s[2].resumePayload
             /\ s[2].type = "cancelled" =>
                  /\ Ending(s) \in CancelledEnvelope
                  /\ Ending(s).cancelledAt = s[2].occurredAt
                  /\ Ending(s).reason = s[2].reason
             /\ s[2].type = "expired" =>
                  /\ Ending(s) \in ExpiredEnvelope
                  /\ Ending(s).expiredAt = s[2].occurredAt
  <2> DEFINE b == Birth(s)
             e == s[2]
  <2>1. /\ b \in PendingEnvelope
        /\ b.continuationId = id
        /\ b.createdAt = s[1].occurredAt
        /\ b.expiresAt = s[1].expiresAt
    BY <1>5, <1>6
  <2>2. /\ e \in ContinuationResumed \cup ContinuationCancelled \cup ContinuationExpired
        /\ e.version = 2
    BY <1>6 DEF WellFormed
  <2>3. Ending(s) = TerminalEnvelope(b, e)
    BY DEF Ending
  <2> HIDE DEF b, e
  <2>4. CASE e \in ContinuationResumed
    <3>1. e.type = "resumed"
      BY <2>4 DEF ContinuationResumed
    <3>2. TerminalEnvelope(b, e) =
            [status |-> "resumed", continuationId |-> b.continuationId,
             version |-> e.version, createdAt |-> b.createdAt,
             expiresAt |-> b.expiresAt, resumedAt |-> e.occurredAt,
             idempotencyKey |-> e.idempotencyKey,
             resumePayload |-> e.resumePayload]
      BY <3>1 DEF TerminalEnvelope
    <3> QED
      BY <2>1, <2>2, <2>3, <2>4, <3>1, <3>2
      DEF e, TerminalStatus, ContinuationResumed, ResumedEnvelope, PendingEnvelope
  <2>5. CASE e \in ContinuationCancelled
    <3>1. e.type = "cancelled"
      BY <2>5 DEF ContinuationCancelled
    <3>2. TerminalEnvelope(b, e) =
            [status |-> "cancelled", continuationId |-> b.continuationId,
             version |-> e.version, createdAt |-> b.createdAt,
             expiresAt |-> b.expiresAt, cancelledAt |-> e.occurredAt,
             reason |-> e.reason]
      BY <3>1 DEF TerminalEnvelope
    <3> QED
      BY <2>1, <2>2, <2>3, <2>5, <3>1, <3>2
      DEF e, TerminalStatus, ContinuationCancelled, CancelledEnvelope, PendingEnvelope
  <2>6. CASE e \in ContinuationExpired
    <3>1. e.type = "expired"
      BY <2>6 DEF ContinuationExpired
    <3>2. TerminalEnvelope(b, e) =
            [status |-> "expired", continuationId |-> b.continuationId,
             version |-> e.version, createdAt |-> b.createdAt,
             expiresAt |-> b.expiresAt, expiredAt |-> e.occurredAt]
      BY <3>1 DEF TerminalEnvelope
    <3> QED
      BY <2>1, <2>2, <2>3, <2>6, <3>1, <3>2
      DEF e, TerminalStatus, ContinuationExpired, ExpiredEnvelope, PendingEnvelope
  <2> QED
    BY <2>2, <2>4, <2>5, <2>6
<1> QED
  BY <1>3, <1>5, <1>6

\* A record of a stream is an envelope; the pending one is the creation's.
LEMMA RecordFacts ==
    ASSUME NEW id \in Ids, NEW s, NEW e, WellFormed(s, id), Records(s, e)
    PROVE  /\ e \in Envelope
           /\ e # Missing
           /\ e.continuationId = id
           /\ Len(s) \in {1, 2}
           /\ e.expiresAt = s[1].expiresAt
           /\ e.expiresAt \in Nat
           /\ e.status \in {"pending"} \cup TerminalStatus
           /\ e.status = "pending" => e = Birth(s) /\ e.version = 1
           /\ e.status # "pending" => Len(s) = 2 /\ e = Ending(s) /\ e.version = 2
<1>1. CASE Len(s) >= 1 /\ e = Birth(s)
  <2>1. e \in PendingEnvelope /\ e.version = 1 /\ e.continuationId = id
         /\ e.expiresAt = s[1].expiresAt /\ Len(s) \in {0, 1, 2}
    BY <1>1, RecordTypes
  <2>2. Len(s) \in {1, 2}
    BY <2>1, <1>1
  <2>3. e.status = "pending" /\ e.expiresAt \in Nat
    BY <2>1 DEF PendingEnvelope
  <2> QED
    BY <1>1, <2>1, <2>2, <2>3 DEF Envelope, Missing
<1>2. CASE Len(s) = 2 /\ e = Ending(s)
  <2>1. /\ e.version = 2
        /\ e.continuationId = id
        /\ e.expiresAt = s[1].expiresAt
        /\ e.status = s[2].type
        /\ s[2].type \in TerminalStatus
        /\ e \in ResumedEnvelope \cup CancelledEnvelope \cup ExpiredEnvelope
    BY <1>2, RecordTypes DEF TerminalStatus
  <2>2. e.expiresAt \in Nat
    BY <2>1 DEF ResumedEnvelope, CancelledEnvelope, ExpiredEnvelope
  <2> QED
    BY <1>2, <2>1, <2>2 DEF Envelope, Missing, TerminalStatus
<1> QED
  BY <1>1, <1>2 DEF Records

\* What load and replay give a call: nothing, or a record, the newest one.
LEMMA LoadFacts ==
    ASSUME NEW id \in Ids, NEW s, WellFormed(s, id)
    PROVE  /\ ReplayContinuation(s) = Missing <=> Len(s) = 0
           /\ ReplayContinuation(s) # Missing => Records(s, ReplayContinuation(s))
           /\ Len(s) = 2 => ReplayContinuation(s) = Ending(s)
           /\ Len(s) = 1 => ReplayContinuation(s) = Birth(s)
<1>1. Len(s) \in {0, 1, 2}
  BY RecordTypes
<1>2. CASE Len(s) = 0
  BY <1>2, ReplayOfRecord
<1>3. CASE Len(s) = 1
  <2>1. Records(s, Birth(s))
    BY <1>3 DEF Records
  <2>2. Birth(s) # Missing
    BY <2>1, RecordFacts
  <2> QED
    BY <1>3, <2>1, <2>2, ReplayOfRecord
<1>4. CASE Len(s) = 2
  <2>1. Records(s, Ending(s))
    BY <1>4 DEF Records
  <2>2. Ending(s) # Missing
    BY <2>1, RecordFacts
  <2> QED
    BY <1>4, <2>1, <2>2, ReplayOfRecord
<1> QED
  BY <1>1, <1>2, <1>3, <1>4

\* Stream t continues stream s.
Grows(s, t) ==
    /\ Len(s) >= 1 => Len(t) >= 1 /\ t[1] = s[1]
    /\ Len(s) = 2 => t = s

\* A record of a stream stays one when the stream grows.
LEMMA RecordsStable ==
    ASSUME NEW s, NEW t, NEW e, Grows(s, t), Records(s, e)
    PROVE  Records(t, e)
BY DEF Grows, Records, Birth, Ending

\* A stream with one more event.
LEMMA ConcatOne ==
    ASSUME NEW S, NEW s \in Seq(S), NEW e \in S
    PROVE  /\ s \o <<e>> \in Seq(S)
           /\ Len(s \o <<e>>) = Len(s) + 1
           /\ \A i \in 1 .. Len(s) : (s \o <<e>>)[i] = s[i]
           /\ (s \o <<e>>)[Len(s) + 1] = e
OBVIOUS

\* A creation appended to the empty stream.
LEMMA AppendBirth ==
    ASSUME NEW id \in Ids, NEW s, WellFormed(s, id), Len(s) = 0,
           NEW e \in ContinuationCreated, e.schemaVersion = 1, e.continuationId = id,
           e.version = 1, e.occurredAt < e.expiresAt
    PROVE  /\ WellFormed(s \o <<e>>, id)
           /\ Grows(s, s \o <<e>>)
           /\ Len(s \o <<e>>) = 1
           /\ Birth(s \o <<e>>) = CreatedEnvelope(e)
<1>1. s \in Seq(ContinuationEvent) /\ e \in ContinuationEvent
  BY DEF WellFormed, ContinuationEvent
<1>2. /\ s \o <<e>> \in Seq(ContinuationEvent)
      /\ Len(s \o <<e>>) = 1
      /\ (s \o <<e>>)[1] = e
  BY <1>1
<1> QED
  BY <1>2 DEF WellFormed, Grows, Birth

\* An ending appended to a stream that holds the creation only.
LEMMA AppendEnding ==
    ASSUME NEW id \in Ids, NEW s, WellFormed(s, id), Len(s) = 1,
           NEW e \in ContinuationResumed \cup ContinuationCancelled \cup ContinuationExpired,
           e.schemaVersion = 1, e.continuationId = id, e.version = 2,
           e.type = "expired" => e.occurredAt >= s[1].expiresAt,
           e.type = "cancelled" => e.occurredAt < s[1].expiresAt
    PROVE  /\ WellFormed(s \o <<e>>, id)
           /\ Grows(s, s \o <<e>>)
           /\ Len(s \o <<e>>) = 2
           /\ (s \o <<e>>)[1] = s[1]
           /\ (s \o <<e>>)[2] = e
           /\ Ending(s \o <<e>>) = TerminalEnvelope(Birth(s), e)
           /\ ReduceContinuation(Birth(s), e) = Ending(s \o <<e>>)
<1>1. s \in Seq(ContinuationEvent) /\ e \in ContinuationEvent
  BY DEF WellFormed, ContinuationEvent
<1> DEFINE t == s \o <<e>>
<1>2. /\ t \in Seq(ContinuationEvent)
      /\ Len(t) = 2
      /\ t[1] = s[1]
      /\ t[2] = e
  <2>1. /\ t \in Seq(ContinuationEvent)
        /\ Len(t) = Len(s) + 1
        /\ \A i \in 1 .. Len(s) : t[i] = s[i]
        /\ t[Len(s) + 1] = e
    BY <1>1, ConcatOne, ZenonT(60)
  <2> HIDE DEF t
  <2> QED
    BY <2>1
<1> HIDE DEF t
<1>3. WellFormed(t, id)
  BY <1>2 DEF WellFormed
<1>4. Grows(s, t)
  BY <1>2 DEF Grows
<1>5. Birth(t) = Birth(s)
  BY <1>2 DEF Birth
<1>6. Ending(t) = TerminalEnvelope(Birth(s), e)
  BY <1>2, <1>5 DEF Ending
<1>7. ReduceContinuation(Birth(s), e) = Ending(t)
  BY <1>2, <1>3, <1>5, ReduceEnding
<1> QED
  BY <1>2, <1>3, <1>4, <1>6, <1>7 DEF t

-----------------------------------------------------------------------------
(* Steps of one call *)

\* The other calls keep their locals.
Frame(c) ==
    \A d \in Calls \ {c} :
        /\ pc'[d] = pc[d]
        /\ env'[d] = env[d]
        /\ tokenHash'[d] = tokenHash[d]
        /\ reply'[d] = reply[d]

\* A call keeps its invariant while others act and its stream grows.
LEMMA OtherCall ==
    ASSUME NEW d \in Calls, CallInvOf(d),
           pc'[d] = pc[d], req'[d] = req[d], env'[d] = env[d], now'[d] = now[d],
           tokenHash'[d] = tokenHash[d], reply'[d] = reply[d],
           pc[d] # "idle" => Grows(streams[Id(d)], streams'[Id(d)])
    PROVE  CallInvOf(d)'
<1>1. CASE pc[d] = "idle"
  BY <1>1 DEF CallInvOf
<1>2. CASE pc[d] # "idle"
  <2> DEFINE s == streams[Id(d)]
  <2>1. /\ req[d] \in Requests
        /\ pc[d] # "done" => reply[d] = NoReply
        /\ RunInv(d, s)
        /\ DoneInv(d, s)
    BY <1>2 DEF CallInvOf
  <2>2. Grows(s, s')
    BY <1>2 DEF Id
  <2> HIDE DEF s
  <2>3. \A e : Records(s, e) => Records(s', e)
    BY <2>2, RecordsStable
  <2>4. \A e : Records(s, e) => s'[1] = s[1]
    BY <2>2 DEF Records, Grows
  <2>5. Len(s) = 2 => Len(s') = 2
    BY <2>2 DEF Grows
  <2>6. RunInv(d, s)'
    BY <2>1, <2>3, <2>4, <2>5 DEF RunInv, Reports, Holding
  <2>7. DoneInv(d, s)'
    BY <2>1, <2>3 DEF DoneInv, Reports
  <2> QED
    BY <2>1, <2>6, <2>7 DEF CallInvOf, s
<1> QED
  BY <1>1, <1>2

\* Streams stay well-formed while they do not change and no call forgets its request.
LEMMA SameStreams ==
    ASSUME StreamInv, UNCHANGED streams,
           \A c \in Calls : pc[c] # "idle" => pc'[c] # "idle" /\ req'[c] = req[c]
    PROVE  StreamInv'
BY DEF StreamInv, MadeResume, Id

\* A step that changes only the locals of call c.
LEMMA LocalStep ==
    ASSUME SafetyInv, NEW c \in Calls, pc[c] # "idle",
           UNCHANGED <<streams, clock, req>>, Frame(c),
           \A d \in Calls \ {c} : now'[d] = now[d],
           TypeOK', pc'[c] # "idle", CallInvOf(c)'
    PROVE  SafetyInv'
<1>1. StreamInv'
  BY SameStreams DEF SafetyInv, Frame
<1>2. ASSUME NEW d \in Calls \ {c}
      PROVE  CallInvOf(d)'
  <2>1. CallInvOf(d)
    BY DEF SafetyInv, CallInv
  <2>2. Grows(streams[Id(d)], streams'[Id(d)])
    BY DEF Grows
  <2> QED
    BY <2>1, <2>2, OtherCall DEF Frame
<1> QED
  BY <1>1, <1>2 DEF SafetyInv, CallInv

\* Types and frame of the two ways in which a step of call c ends.
LEMMA AnswerFrame ==
    ASSUME TypeOK, NEW c \in Calls, NEW code \in ErrorCodes \cup {"ok", "failed"},
           NEW e \in Envelope \cup {Missing}, Answer(c, code, e)
    PROVE  /\ pc' \in [Calls -> PC]
           /\ env' \in [Calls -> Envelope \cup {Missing}]
           /\ tokenHash' \in [Calls -> TokenHashes]
           /\ reply' \in [Calls -> Reply]
           /\ Frame(c)
           /\ pc'[c] = "done"
           /\ reply'[c] = [code |-> code, envelope |-> e]
<1>1. NoHash \in TokenHashes
  BY DEF NoHash, TokenHashes, Tokens
<1>2. [code |-> code, envelope |-> e] \in Reply
  BY DEF Reply
<1> QED
  BY <1>1, <1>2 DEF TypeOK, Answer, Goto, Frame, PC

\* A call that goes on keeps its token digest and its answer, and its own locals only.
LEMMA ContinueFrame ==
    ASSUME TypeOK, NEW c \in Calls, NEW label \in PC,
           NEW e \in Envelope \cup {Missing}, Continue(c, label, e)
    PROVE  /\ pc' \in [Calls -> PC]
           /\ env' \in [Calls -> Envelope \cup {Missing}]
           /\ tokenHash' \in [Calls -> TokenHashes]
           /\ reply' \in [Calls -> Reply]
           /\ Frame(c)
           /\ pc'[c] = label
           /\ env'[c] = e
           /\ tokenHash'[c] = tokenHash[c]
           /\ reply'[c] = reply[c]
BY DEF TypeOK, Continue, Goto, Frame

\* The clock reading of a call is its own and a natural number.
LEMMA ReadClockFrame ==
    ASSUME TypeOK, NEW c \in Calls, ReadClock(c) \/ UNCHANGED now
    PROVE  /\ now' \in [Calls -> Nat]
           /\ \A d \in Calls \ {c} : now'[d] = now[d]
           /\ ReadClock(c) => now'[c] = clock
           /\ clock \in Nat
BY ServiceAssumption DEF TypeOK, ReadClock

\* A call that throws keeps the invariant, whatever it read from the clock.
LEMMA ThrowKeeps ==
    ASSUME SafetyInv, NEW c \in Calls, pc[c] # "idle",
           NEW code \in ErrorCodes \cup {"failed"}, Throw(c, code),
           UNCHANGED <<streams, clock, req>>, ReadClock(c) \/ UNCHANGED now
    PROVE  SafetyInv'
<1>1. TypeOK /\ CallInvOf(c) /\ Answer(c, code, Missing)
  BY DEF SafetyInv, CallInv, Throw
<1>2. /\ pc' \in [Calls -> PC]
      /\ env' \in [Calls -> Envelope \cup {Missing}]
      /\ tokenHash' \in [Calls -> TokenHashes]
      /\ reply' \in [Calls -> Reply]
      /\ Frame(c)
      /\ pc'[c] = "done"
      /\ reply'[c] = [code |-> code, envelope |-> Missing]
  BY <1>1, AnswerFrame
<1>3. now' \in [Calls -> Nat] /\ \A d \in Calls \ {c} : now'[d] = now[d]
  BY <1>1, ReadClockFrame
<1>4. TypeOK'
  BY <1>1, <1>2, <1>3 DEF TypeOK, StreamsType
<1>5. CallInvOf(c)'
  BY <1>1, <1>2 DEF CallInvOf, RunInv, DoneInv, Holding, ErrorCodes
<1> QED
  BY <1>2, <1>3, <1>4, <1>5, LocalStep

\* A call that returns a record of its stream, of the kind it may report.
LEMMA ReturnKeeps ==
    ASSUME SafetyInv, NEW c \in Calls, pc[c] # "idle", NEW e, Return(c, e),
           Id(c) \in Ids, Records(streams[Id(c)], e), Reports(c, e),
           UNCHANGED <<streams, clock, req, now>>
    PROVE  SafetyInv'
<1>1. TypeOK /\ CallInvOf(c) /\ Answer(c, "ok", e)
  BY DEF SafetyInv, CallInv, Return
<1>2. e \in Envelope
  BY RecordFacts DEF SafetyInv, StreamInv
<1>3. /\ pc' \in [Calls -> PC]
      /\ env' \in [Calls -> Envelope \cup {Missing}]
      /\ tokenHash' \in [Calls -> TokenHashes]
      /\ reply' \in [Calls -> Reply]
      /\ Frame(c)
      /\ pc'[c] = "done"
      /\ reply'[c] = [code |-> "ok", envelope |-> e]
  BY <1>1, <1>2, AnswerFrame
<1>4. TypeOK'
  BY <1>1, <1>3 DEF TypeOK, StreamsType
<1>5. CallInvOf(c)'
  BY <1>1, <1>3 DEF CallInvOf, RunInv, DoneInv, Holding, Reports, Id
<1> QED
  BY <1>3, <1>4, <1>5, LocalStep

\* A call that goes on with an envelope it may hold there.
LEMMA ContinueKeeps ==
    ASSUME SafetyInv, NEW c \in Calls, pc[c] \notin {"idle", "done"},
           NEW label \in PC \ {"idle", "done"}, NEW e \in Envelope \cup {Missing},
           Continue(c, label, e),
           UNCHANGED <<streams, clock, req>>, ReadClock(c) \/ UNCHANGED now,
           RunInv(c, streams[Id(c)])'
    PROVE  SafetyInv'
<1>1. TypeOK /\ CallInvOf(c)
  BY DEF SafetyInv, CallInv
<1>2. /\ pc' \in [Calls -> PC]
      /\ env' \in [Calls -> Envelope \cup {Missing}]
      /\ tokenHash' \in [Calls -> TokenHashes]
      /\ reply' \in [Calls -> Reply]
      /\ Frame(c)
      /\ pc'[c] = label
      /\ reply'[c] = reply[c]
  BY <1>1, ContinueFrame
<1>3. now' \in [Calls -> Nat] /\ \A d \in Calls \ {c} : now'[d] = now[d]
  BY <1>1, ReadClockFrame
<1>4. TypeOK'
  BY <1>1, <1>2, <1>3 DEF TypeOK, StreamsType
<1>5. CallInvOf(c)'
  BY <1>1, <1>2 DEF CallInvOf, DoneInv
<1> QED
  BY <1>2, <1>3, <1>4, <1>5, LocalStep

\* Where the request of a call is: it names a continuation and an operation.
LEMMA RequestFacts ==
    ASSUME SafetyInv, NEW c \in Calls, pc[c] # "idle"
    PROVE  /\ req[c] \in Request
           /\ Id(c) \in Ids
           /\ req[c].op \in {"create", "inspect", "resume", "cancel"}
           /\ WellFormed(streams[Id(c)], Id(c))
           /\ RunInv(c, streams[Id(c)])
<1>1. req[c] \in Request
  BY ServiceAssumption DEF SafetyInv, CallInv, CallInvOf
<1>2. Id(c) \in Ids /\ req[c].op \in {"create", "inspect", "resume", "cancel"}
  BY <1>1 DEF Id, Request, CreateRequest, InspectRequest, ResumeRequest, CancelRequest
<1> QED
  BY <1>1, <1>2 DEF SafetyInv, StreamInv, CallInv, CallInvOf

\* EnterExpireIfDue, from a call that has loaded a record of its stream.
LEMMA EnterExpireKeeps ==
    ASSUME SafetyInv, NEW c \in Calls, pc[c] = "loaded", EnterExpireIfDue(c),
           UNCHANGED <<streams, clock, req>>,
           req[c].op = "resume" =>
              tokenHash[c] = Hash(req[c].resumeToken) /\ env[c].status # "resumed"
    PROVE  SafetyInv'
<1> DEFINE label == IF Due(env[c], clock) THEN "expire" ELSE "settle"
           s == streams[Id(c)]
<1>1. TypeOK /\ Id(c) \in Ids /\ WellFormed(s, Id(c)) /\ RunInv(c, s)
  BY RequestFacts DEF SafetyInv
<1>2. ReadClock(c) /\ Continue(c, label, env[c])
  BY DEF EnterExpireIfDue
<1>3. Records(s, env[c]) /\ req[c].op # "create"
  BY <1>1 DEF RunInv, Holding
<1>4. env[c] \in Envelope /\ env[c].expiresAt \in Nat
  BY <1>1, <1>3, RecordFacts
<1>5. label \in PC \ {"idle", "done"}
  BY DEF PC
<1>6. /\ pc'[c] = label
      /\ env'[c] = env[c]
      /\ tokenHash'[c] = tokenHash[c]
  BY <1>1, <1>2, <1>4, <1>5, ContinueFrame
<1>7. now'[c] = clock /\ clock \in Nat
  BY <1>1, <1>2, ReadClockFrame
<1>8. s' = s
  BY DEF Id
<1>9. CASE Due(env[c], clock)
  <2>1. label = "expire" /\ env[c].status = "pending" /\ clock >= env[c].expiresAt
    BY <1>9 DEF Due
  <2> HIDE DEF s, label
  <2>2. RunInv(c, s)'
    BY <1>1, <1>3, <1>6, <1>7, <1>8, <2>1 DEF RunInv, Holding
  <2> QED
    BY <1>2, <1>4, <1>5, <2>2, ContinueKeeps DEF s
<1>10. CASE ~Due(env[c], clock)
  <2>1. label = "settle" /\ (env[c].status = "pending" => clock < env[c].expiresAt)
    BY <1>10, <1>4, <1>7 DEF Due
  <2> HIDE DEF s, label
  <2>2. RunInv(c, s)'
    BY <1>1, <1>3, <1>6, <1>7, <1>8, <2>1 DEF RunInv, Holding
  <2> QED
    BY <1>2, <1>4, <1>5, <2>2, ContinueKeeps DEF s
<1> QED
  BY <1>9, <1>10

\* inspect entering expireIfDue keeps the invariant: it holds a recorded envelope.
LEMMA InspectDecideKeeps ==
    ASSUME SafetyInv, NEW c \in Calls, InspectDecide(c)
    PROVE  SafetyInv'
BY EnterExpireKeeps DEF InspectDecide

\* inspect returns what it loaded, or the expiry it appended, as the stream records it.
LEMMA InspectSettleKeeps ==
    ASSUME SafetyInv, NEW c \in Calls, InspectSettle(c)
    PROVE  SafetyInv'
<1>1. Id(c) \in Ids /\ RunInv(c, streams[Id(c)])
  BY RequestFacts DEF InspectSettle
<1>2. Records(streams[Id(c)], env[c]) /\ Reports(c, env[c])
  BY <1>1 DEF InspectSettle, RunInv, Holding, Reports
<1> QED
  BY <1>1, <1>2, ReturnKeeps DEF InspectSettle

\* A lost answer changes no stream and claims nothing.
LEMMA FailKeeps ==
    ASSUME SafetyInv, NEW c \in Calls, Fail(c)
    PROVE  SafetyInv'
BY ThrowKeeps DEF Fail

\* resolveCompletedResume returns the recorded resume if it is this request's.
LEMMA ResolveCompletedResumeKeeps ==
    ASSUME SafetyInv, NEW c \in Calls, pc[c] # "idle", req[c].op = "resume",
           NEW e, Records(streams[Id(c)], e), e.status = "resumed",
           ResolveCompletedResume(c, e), UNCHANGED <<streams, clock, req, now>>
    PROVE  SafetyInv'
<1>1. Id(c) \in Ids
  BY RequestFacts
<1>2. CASE e.idempotencyKey # req[c].idempotencyKey
  <2>1. Throw(c, "TOKEN_ALREADY_USED")
    BY <1>2 DEF ResolveCompletedResume
  <2> QED
    BY <2>1, ThrowKeeps DEF ErrorCodes
<1>3. CASE /\ e.idempotencyKey = req[c].idempotencyKey
           /\ e.resumePayload # req[c].resumePayload
  <2>1. Throw(c, "IDEMPOTENCY_CONFLICT")
    BY <1>3 DEF ResolveCompletedResume
  <2> QED
    BY <2>1, ThrowKeeps DEF ErrorCodes
<1>4. CASE /\ e.idempotencyKey = req[c].idempotencyKey
           /\ e.resumePayload = req[c].resumePayload
  <2>1. Return(c, e)
    BY <1>4 DEF ResolveCompletedResume
  <2>2. Reports(c, e)
    BY <1>4 DEF Reports
  <2> QED
    BY <1>1, <2>1, <2>2, ReturnKeeps
<1> QED
  BY <1>2, <1>3, <1>4

\* resume on a loaded stream: a refusal, the first outcome, or on to expireIfDue.
LEMMA ResumeDecideKeeps ==
    ASSUME SafetyInv, NEW c \in Calls, ResumeDecide(c)
    PROVE  SafetyInv'
<1>1. /\ pc[c] = "loaded"
      /\ req[c].op = "resume"
      /\ UNCHANGED <<streams, clock, req>>
  BY DEF ResumeDecide
<1>2. Records(streams[Id(c)], env[c])
  BY <1>1, RequestFacts DEF RunInv, Holding
<1>3. CASE Throw(c, "TOKEN_MISMATCH") /\ UNCHANGED now
  BY <1>1, <1>3, ThrowKeeps DEF ErrorCodes
<1>4. CASE env[c].status = "resumed" /\ ResolveCompletedResume(c, env[c]) /\ UNCHANGED now
  BY <1>1, <1>2, <1>4, ResolveCompletedResumeKeeps
<1>5. CASE /\ tokenHash[c] = Hash(req[c].resumeToken)
           /\ env[c].status # "resumed"
           /\ EnterExpireIfDue(c)
  BY <1>1, <1>5, EnterExpireKeeps
<1> QED
  BY <1>3, <1>4, <1>5 DEF ResumeDecide

\* resume goes on to its append only with a pending envelope, of version 1.
LEMMA ResumeSettleKeeps ==
    ASSUME SafetyInv, NEW c \in Calls, ResumeSettle(c)
    PROVE  SafetyInv'
<1> DEFINE s == streams[Id(c)]
<1>1. /\ pc[c] = "settle"
      /\ req[c].op = "resume"
      /\ UNCHANGED <<streams, clock, req>>
  BY DEF ResumeSettle
<1>2. Id(c) \in Ids /\ WellFormed(s, Id(c)) /\ RunInv(c, s) /\ TypeOK
  BY <1>1, RequestFacts DEF SafetyInv
<1>3. Records(s, env[c])
  BY <1>1, <1>2 DEF RunInv, Holding
<1>4. env[c] \in Envelope
  BY <1>2, <1>3, RecordFacts
<1>5. CASE env[c].status = "pending" /\ ReadClock(c) /\ Continue(c, "append", env[c])
  <2>1. "append" \in PC \ {"idle", "done"}
    BY DEF PC
  <2>2. pc'[c] = "append" /\ env'[c] = env[c] /\ tokenHash'[c] = tokenHash[c]
    BY <1>2, <1>4, <1>5, <2>1, ContinueFrame
  <2>3. s' = s
    BY <1>1 DEF Id
  <2> HIDE DEF s
  <2>4. RunInv(c, s)'
    BY <1>1, <1>2, <1>3, <1>5, <2>2, <2>3 DEF RunInv, Holding
  <2> QED
    BY <1>1, <1>4, <1>5, <2>1, <2>4, ContinueKeeps DEF s
<1>6. ASSUME NEW code \in ErrorCodes, Throw(c, code), UNCHANGED now
      PROVE  SafetyInv'
  BY <1>1, <1>6, ThrowKeeps
<1> QED
  BY <1>5, <1>6 DEF ResumeSettle, ErrorCodes

\* resume after a lost race returns the recorded outcome or nothing.
LEMMA ResumeReresolveKeeps ==
    ASSUME SafetyInv, NEW c \in Calls, ResumeReresolve(c)
    PROVE  SafetyInv'
<1> DEFINE s == streams[Id(c)]
           current == ReplayContinuation(s)
<1>1. /\ pc[c] = "reresolve"
      /\ req[c].op = "resume"
      /\ UNCHANGED <<streams, clock, req, now>>
  BY DEF ResumeReresolve
<1>2. Id(c) \in Ids /\ WellFormed(s, Id(c))
  BY <1>1, RequestFacts
<1>3. CASE current # Missing /\ current.status = "resumed" /\ ResolveCompletedResume(c, current)
  <2>1. Records(s, current)
    BY <1>2, <1>3, LoadFacts
  <2> QED
    BY <1>1, <1>3, <2>1, ResolveCompletedResumeKeeps
<1>4. ASSUME NEW code \in ErrorCodes, Throw(c, code)
      PROVE  SafetyInv'
  BY <1>1, <1>4, ThrowKeeps
<1> HIDE DEF current
<1> QED
  BY <1>3, <1>4 DEF ResumeReresolve, ErrorCodes, current

\* resolveCompletedCancellation returns the recorded cancellation to an exact retry.
LEMMA ResolveCompletedCancellationKeeps ==
    ASSUME SafetyInv, NEW c \in Calls, pc[c] # "idle", req[c].op = "cancel",
           NEW e, Records(streams[Id(c)], e), e.status = "cancelled",
           ResolveCompletedCancellation(c, e), UNCHANGED <<streams, clock, req, now>>
    PROVE  SafetyInv'
<1>1. Id(c) \in Ids /\ WellFormed(streams[Id(c)], Id(c)) /\ req[c] \in Request
  BY RequestFacts
<1>2. e.version = 2
  BY <1>1, RecordFacts
<1>3. req[c].expectedVersion \in Nat \cup {Undefined}
  BY <1>1 DEF Request, CreateRequest, InspectRequest, ResumeRequest, CancelRequest
<1>4. ASSUME NEW code \in ErrorCodes, Throw(c, code)
      PROVE  SafetyInv'
  BY <1>4, ThrowKeeps
<1>5. CASE /\ e.reason = req[c].reason
           /\ ~(req[c].expectedVersion # Undefined /\ e.version # req[c].expectedVersion + 1)
  <2>1. Return(c, e)
    BY <1>5 DEF ResolveCompletedCancellation
  <2>2. req[c].expectedVersion \in {Undefined, 1}
    BY <1>2, <1>3, <1>5
  <2>3. Reports(c, e)
    BY <1>5, <2>2 DEF Reports
  <2> QED
    BY <1>1, <2>1, <2>3, ReturnKeeps
<1> QED
  BY <1>4, <1>5 DEF ResolveCompletedCancellation, ErrorCodes

\* cancel on a loaded stream: the recorded cancellation, or on to expireIfDue.
LEMMA CancelDecideKeeps ==
    ASSUME SafetyInv, NEW c \in Calls, CancelDecide(c)
    PROVE  SafetyInv'
<1>1. /\ pc[c] = "loaded"
      /\ req[c].op = "cancel"
      /\ UNCHANGED <<streams, clock, req>>
  BY DEF CancelDecide
<1>2. Records(streams[Id(c)], env[c])
  BY <1>1, RequestFacts DEF RunInv, Holding
<1>3. CASE /\ env[c].status = "cancelled"
           /\ ResolveCompletedCancellation(c, env[c])
           /\ UNCHANGED now
  BY <1>1, <1>2, <1>3, ResolveCompletedCancellationKeeps
<1>4. CASE EnterExpireIfDue(c)
  BY <1>1, <1>4, EnterExpireKeeps
<1> QED
  BY <1>3, <1>4 DEF CancelDecide

\* cancel goes on to its append only before the expiry it read the clock for.
LEMMA CancelSettleKeeps ==
    ASSUME SafetyInv, NEW c \in Calls, CancelSettle(c)
    PROVE  SafetyInv'
<1> DEFINE s == streams[Id(c)]
<1>1. /\ pc[c] = "settle"
      /\ req[c].op = "cancel"
      /\ UNCHANGED <<streams, clock, req, now>>
  BY DEF CancelSettle
<1>2. Id(c) \in Ids /\ WellFormed(s, Id(c)) /\ RunInv(c, s) /\ TypeOK
  BY <1>1, RequestFacts DEF SafetyInv
<1>3. Records(s, env[c])
  BY <1>1, <1>2 DEF RunInv, Holding
<1>4. env[c] \in Envelope /\ (env[c].status = "pending" => env[c].version = 1)
  BY <1>2, <1>3, RecordFacts
<1>5. CASE env[c].status = "cancelled" /\ ResolveCompletedCancellation(c, env[c])
  BY <1>1, <1>3, <1>5, ResolveCompletedCancellationKeeps
<1>6. CASE /\ env[c].status = "pending"
           /\ req[c].expectedVersion \in {Undefined, env[c].version}
           /\ Continue(c, "append", env[c])
  <2>1. "append" \in PC \ {"idle", "done"}
    BY DEF PC
  <2>2. pc'[c] = "append" /\ env'[c] = env[c] /\ tokenHash'[c] = tokenHash[c]
    BY <1>2, <1>4, <1>6, <2>1, ContinueFrame
  <2>3. s' = s
    BY <1>1 DEF Id
  <2> HIDE DEF s
  <2>4. RunInv(c, s)'
    BY <1>1, <1>2, <1>3, <1>4, <1>6, <2>2, <2>3 DEF RunInv, Holding
  <2> QED
    BY <1>1, <1>4, <1>6, <2>1, <2>4, ContinueKeeps DEF s
<1>7. ASSUME NEW code \in ErrorCodes, Throw(c, code)
      PROVE  SafetyInv'
  BY <1>1, <1>7, ThrowKeeps
<1> QED
  BY <1>5, <1>6, <1>7 DEF CancelSettle, ErrorCodes

\* cancel after a lost race returns the recorded cancellation or nothing.
LEMMA CancelReresolveKeeps ==
    ASSUME SafetyInv, NEW c \in Calls, CancelReresolve(c)
    PROVE  SafetyInv'
<1> DEFINE s == streams[Id(c)]
           current == ReplayContinuation(s)
<1>1. /\ pc[c] = "reresolve"
      /\ req[c].op = "cancel"
      /\ UNCHANGED <<streams, clock, req, now>>
  BY DEF CancelReresolve
<1>2. Id(c) \in Ids /\ WellFormed(s, Id(c))
  BY <1>1, RequestFacts
<1>3. CASE /\ current # Missing
           /\ current.status = "cancelled"
           /\ ResolveCompletedCancellation(c, current)
  <2>1. Records(s, current)
    BY <1>2, <1>3, LoadFacts
  <2> QED
    BY <1>1, <1>3, <2>1, ResolveCompletedCancellationKeeps
<1>4. ASSUME NEW code \in ErrorCodes, Throw(c, code)
      PROVE  SafetyInv'
  BY <1>1, <1>4, ThrowKeeps
<1> HIDE DEF current
<1> QED
  BY <1>3, <1>4 DEF CancelReresolve, ErrorCodes, current

\* create goes on to its append only with an expiry later than its clock reading.
LEMMA CreateBeginKeeps ==
    ASSUME SafetyInv, NEW c \in Calls, CreateBegin(c)
    PROVE  SafetyInv'
<1> DEFINE s == streams[Id(c)]
<1>1. /\ pc[c] = "begin"
      /\ req[c].op = "create"
      /\ ReadClock(c)
      /\ UNCHANGED <<streams, clock, req>>
  BY DEF CreateBegin
<1>2. TypeOK /\ req[c] \in Request /\ RunInv(c, s)
  BY <1>1, RequestFacts DEF SafetyInv
<1>3. req[c].expiresAt \in Nat \cup {Undefined}
  BY <1>1, <1>2 DEF Request, CreateRequest, InspectRequest, ResumeRequest, CancelRequest
<1>4. now'[c] = clock /\ clock \in Nat
  BY <1>1, <1>2, ReadClockFrame
<1>5. CASE Throw(c, "RANGE_ERROR")
  BY <1>1, <1>5, ThrowKeeps DEF ErrorCodes
<1>6. CASE /\ ~(req[c].expiresAt # Undefined /\ req[c].expiresAt <= clock)
           /\ Continue(c, "append", Missing)
  <2>1. "append" \in PC \ {"idle", "done"}
    BY DEF PC
  <2>2. pc'[c] = "append" /\ env'[c] = Missing
    BY <1>2, <1>6, <2>1, ContinueFrame
  <2>3. req[c].expiresAt # Undefined => now'[c] < req[c].expiresAt
    BY <1>3, <1>4, <1>6
  <2>4. req'[c] = req[c]
    BY <1>1
  <2> HIDE DEF s
  <2>5. RunInv(c, s)'
    BY <1>1, <2>2, <2>3, <2>4 DEF RunInv, Holding
  <2> QED
    BY <1>1, <1>6, <2>1, <2>5, ContinueKeeps DEF s
<1> QED
  BY <1>5, <1>6 DEF CreateBegin

\* Whatever the observer does, the method returns.
LEMMA ObservedReturns ==
    ASSUME NEW c, Observed(c)
    PROVE  pc[c] = "observe" /\ Return(c, env[c]) /\ UNCHANGED <<streams, clock, req, now>>
BY DEF Observed, ObserveSafely

\* What a call answers after its append is what it appended.
LEMMA ObservedKeeps ==
    ASSUME SafetyInv, NEW c \in Calls, Observed(c)
    PROVE  SafetyInv'
<1>1. Id(c) \in Ids /\ RunInv(c, streams[Id(c)])
  BY RequestFacts, ObservedReturns
<1>2. Records(streams[Id(c)], env[c]) /\ Reports(c, env[c])
  BY <1>1, ObservedReturns DEF RunInv, Holding
<1> QED
  BY <1>1, <1>2, ReturnKeeps, ObservedReturns

\* The reload after a lost expiry race reads a stream that has its ending.
LEMMA ReloadKeeps ==
    ASSUME SafetyInv, NEW c \in Calls, Reload(c)
    PROVE  SafetyInv'
<1> DEFINE s == streams[Id(c)]
           loaded == ReplayContinuation(s)
<1>1. /\ pc[c] = "reload"
      /\ UNCHANGED <<streams, clock, req, now>>
  BY DEF Reload
<1>2. Id(c) \in Ids /\ WellFormed(s, Id(c)) /\ RunInv(c, s) /\ TypeOK
  BY <1>1, RequestFacts DEF SafetyInv
<1>3. CASE Throw(c, "CONTINUATION_NOT_FOUND")
  BY <1>1, <1>3, ThrowKeeps DEF ErrorCodes
<1>4. CASE Continue(c, "settle", loaded)
  <2>1. /\ Len(s) = 2
        /\ env[c].status = "pending"
        /\ Records(s, env[c])
        /\ now[c] >= env[c].expiresAt
    BY <1>1, <1>2 DEF RunInv, Holding
  <2>2. loaded = Ending(s) /\ Records(s, loaded)
    BY <1>2, <2>1, LoadFacts DEF Records
  <2>3. loaded \in Envelope /\ loaded.status # "pending" /\ loaded.expiresAt = env[c].expiresAt
    BY <1>2, <2>1, <2>2, RecordFacts, RecordTypes DEF TerminalStatus
  <2>4. "settle" \in PC \ {"idle", "done"}
    BY DEF PC
  <2>5. pc'[c] = "settle" /\ env'[c] = loaded /\ tokenHash'[c] = tokenHash[c]
    BY <1>2, <1>4, <2>3, <2>4, ContinueFrame
  <2>6. s' = s
    BY <1>1 DEF Id
  <2> HIDE DEF s, loaded
  <2>7. RunInv(c, s)'
    BY <1>1, <1>2, <2>1, <2>2, <2>3, <2>5, <2>6 DEF RunInv, Holding
  <2> QED
    BY <1>1, <1>4, <2>3, <2>4, <2>7, ContinueKeeps DEF s
<1> HIDE DEF loaded
<1> QED
  BY <1>3, <1>4 DEF Reload, loaded

\* A load yields a recorded envelope, and for resume the digest of the creation.
LEMMA LoadKeeps ==
    ASSUME SafetyInv, NEW c \in Calls, Load(c)
    PROVE  SafetyInv'
<1> DEFINE s == streams[Id(c)]
           loaded == ReplayContinuation(s)
           hash == IF req[c].op = "resume" THEN Head(s).resumeTokenHash ELSE NoHash
<1>1. /\ pc[c] = "begin"
      /\ req[c].op # "create"
      /\ UNCHANGED <<streams, clock, req, now>>
  BY DEF Load
<1>2. Id(c) \in Ids /\ WellFormed(s, Id(c)) /\ TypeOK /\ CallInvOf(c)
  BY <1>1, RequestFacts DEF SafetyInv, CallInv
<1>3. CASE Throw(c, "CONTINUATION_NOT_FOUND")
  BY <1>1, <1>3, ThrowKeeps DEF ErrorCodes
<1>4. CASE /\ loaded # Missing
           /\ Goto(c, "loaded")
           /\ env' = [env EXCEPT ![c] = loaded]
           /\ tokenHash' = [tokenHash EXCEPT ![c] = hash]
           /\ UNCHANGED reply
  <2>1. Records(s, loaded)
    BY <1>2, <1>4, LoadFacts
  <2>2. loaded \in Envelope /\ Len(s) \in {1, 2}
    BY <1>2, <2>1, RecordFacts
  <2>3. s[1] \in ContinuationCreated /\ Head(s) = s[1]
    BY <1>2, <2>2 DEF WellFormed
  <2>4. NoHash \in TokenHashes
    BY DEF NoHash, TokenHashes, Tokens
  <2>5. hash \in TokenHashes
    BY <2>3, <2>4, ServiceAssumption DEF ContinuationCreated
  <2>6. s' = s
    BY <1>1 DEF Id
  <2> HIDE DEF s, loaded, hash
  <2>7. /\ pc' \in [Calls -> PC]
        /\ env' \in [Calls -> Envelope \cup {Missing}]
        /\ tokenHash' \in [Calls -> TokenHashes]
        /\ Frame(c)
        /\ pc'[c] = "loaded"
        /\ env'[c] = loaded
        /\ tokenHash'[c] = hash
    BY <1>2, <1>4, <2>2, <2>5 DEF TypeOK, Goto, Frame, PC
  <2>8. TypeOK'
    BY <1>1, <1>2, <1>4, <2>7 DEF TypeOK, StreamsType
  <2>9. req[c].op = "resume" => hash = s[1].resumeTokenHash
    BY <2>3 DEF hash
  <2>10. RunInv(c, s)'
    BY <1>1, <2>1, <2>6, <2>7, <2>9 DEF RunInv, Holding
  <2>11. CallInvOf(c)'
    BY <1>1, <1>2, <1>4, <2>7, <2>10 DEF CallInvOf, DoneInv, s
  <2> QED
    BY <1>1, <2>7, <2>8, <2>11, LocalStep
<1> HIDE DEF loaded
<1> QED
  BY <1>3, <1>4 DEF Load, loaded

\* An expiry is refused only by a stream that has its ending.
LEMMA ExpireConflictsKeeps ==
    ASSUME SafetyInv, NEW c \in Calls, ExpireConflicts(c)
    PROVE  SafetyInv'
<1> DEFINE s == streams[Id(c)]
<1>1. /\ pc[c] = "expire"
      /\ Len(s) # env[c].version
      /\ UNCHANGED <<streams, clock, req, now>>
      /\ Continue(c, "reload", env[c])
  BY DEF ExpireConflicts, AppendConflicts
<1>2. Id(c) \in Ids /\ WellFormed(s, Id(c)) /\ RunInv(c, s) /\ TypeOK
  BY <1>1, RequestFacts DEF SafetyInv
<1>3. Records(s, env[c]) /\ env[c].status = "pending"
  BY <1>1, <1>2 DEF RunInv, Holding
<1>4. env[c] \in Envelope /\ env[c].version = 1 /\ Len(s) \in {1, 2}
  BY <1>2, <1>3, RecordFacts
<1>5. Len(s) = 2
  BY <1>1, <1>4
<1>6. "reload" \in PC \ {"idle", "done"}
  BY DEF PC
<1>7. pc'[c] = "reload" /\ env'[c] = env[c] /\ tokenHash'[c] = tokenHash[c]
  BY <1>1, <1>2, <1>4, <1>6, ContinueFrame
<1>8. s' = s
  BY <1>1 DEF Id
<1> HIDE DEF s
<1>9. RunInv(c, s)'
  BY <1>1, <1>2, <1>3, <1>5, <1>7, <1>8 DEF RunInv, Holding
<1> QED
  BY <1>1, <1>4, <1>6, <1>9, ContinueKeeps DEF s

\* A decision is refused only by a stream that has moved past the version compared.
LEMMA AppendFailsKeeps ==
    ASSUME SafetyInv, NEW c \in Calls, AppendFails(c)
    PROVE  SafetyInv'
<1> DEFINE s == streams[Id(c)]
<1>1. /\ pc[c] = "append"
      /\ Len(s) # env[c].version
      /\ UNCHANGED <<streams, clock, req, now>>
  BY DEF AppendFails, AppendConflicts
<1>2. Id(c) \in Ids /\ WellFormed(s, Id(c)) /\ RunInv(c, s) /\ TypeOK
  BY <1>1, RequestFacts DEF SafetyInv
<1>3. CASE Throw(c, "VERSION_CONFLICT")
  BY <1>1, <1>3, ThrowKeeps DEF ErrorCodes
<1>4. CASE req[c].op # "create" /\ Continue(c, "reresolve", env[c])
  <2>1. Records(s, env[c]) /\ env[c].status = "pending"
    BY <1>1, <1>2, <1>4 DEF RunInv
  <2>2. env[c] \in Envelope /\ env[c].version = 1 /\ Len(s) \in {1, 2}
    BY <1>2, <2>1, RecordFacts
  <2>3. Len(s) = 2
    BY <1>1, <2>2
  <2>4. "reresolve" \in PC \ {"idle", "done"}
    BY DEF PC
  <2>5. pc'[c] = "reresolve" /\ env'[c] = env[c] /\ tokenHash'[c] = tokenHash[c]
    BY <1>2, <1>4, <2>2, <2>4, ContinueFrame
  <2>6. s' = s
    BY <1>1 DEF Id
  <2> HIDE DEF s
  <2>7. RunInv(c, s)'
    BY <1>1, <1>2, <1>4, <2>1, <2>3, <2>5, <2>6 DEF RunInv, Holding
  <2> QED
    BY <1>1, <1>4, <2>2, <2>4, <2>7, ContinueKeeps DEF s
<1> QED
  BY <1>3, <1>4 DEF AppendFails

\* The clock moves and nothing else does.
LEMMA TickKeeps ==
    ASSUME SafetyInv, Tick
    PROVE  SafetyInv'
<1>1. clock' \in 0 .. MaxTime /\ UNCHANGED <<streams, pc, req, env, tokenHash, now, reply>>
  BY DEF Tick
<1>2. TypeOK'
  BY <1>1 DEF SafetyInv, TypeOK, StreamsType
<1>3. StreamInv'
  BY <1>1, SameStreams DEF SafetyInv
<1>4. ASSUME NEW d \in Calls
      PROVE  CallInvOf(d)'
  <2>1. CallInvOf(d)
    BY DEF SafetyInv, CallInv
  <2>2. Grows(streams[Id(d)], streams'[Id(d)])
    BY <1>1 DEF Grows
  <2> QED
    BY <1>1, <2>1, <2>2, OtherCall
<1> QED
  BY <1>2, <1>3, <1>4 DEF SafetyInv, CallInv

\* A new call starts with a request and without an answer.
LEMMA InvokeKeeps ==
    ASSUME SafetyInv, NEW c \in Calls, NEW r \in Requests, Invoke(c, r)
    PROVE  SafetyInv'
<1>1. /\ pc[c] = "idle"
      /\ pc' = [pc EXCEPT ![c] = "begin"]
      /\ req' = [req EXCEPT ![c] = r]
      /\ UNCHANGED <<streams, clock, env, tokenHash, now, reply>>
  BY DEF Invoke, Goto
<1>2. TypeOK /\ CallInvOf(c)
  BY DEF SafetyInv, CallInv
<1>3. /\ pc'[c] = "begin"
      /\ req'[c] = r
      /\ \A d \in Calls \ {c} : pc'[d] = pc[d] /\ req'[d] = req[d]
      /\ pc' \in [Calls -> PC]
      /\ req' \in [Calls -> Requests \cup {NoRequest}]
  BY <1>1, <1>2 DEF TypeOK, PC
<1>4. TypeOK'
  BY <1>1, <1>2, <1>3 DEF TypeOK, StreamsType
<1>5. StreamInv'
  BY <1>1, <1>3, SameStreams DEF SafetyInv
<1>6. CallInvOf(c)'
  BY <1>1, <1>2, <1>3 DEF CallInvOf, RunInv, DoneInv, Holding
<1>7. ASSUME NEW d \in Calls \ {c}
      PROVE  CallInvOf(d)'
  <2>1. CallInvOf(d)
    BY DEF SafetyInv, CallInv
  <2>2. Grows(streams[Id(d)], streams'[Id(d)])
    BY <1>1 DEF Grows
  <2> QED
    BY <1>1, <1>3, <2>1, <2>2, OtherCall
<1> QED
  BY <1>4, <1>5, <1>6, <1>7 DEF SafetyInv, CallInv

-----------------------------------------------------------------------------
(* The two appends *)

\* A committed append keeps the invariant if the longer stream is well-formed,
\* a resume is the call's own, and the call may hold what it reduced.
LEMMA CommitKeeps ==
    ASSUME SafetyInv, NEW c \in Calls, pc[c] \notin {"idle", "done"}, Id(c) \in Ids,
           NEW ev, NEW t, t = streams[Id(c)] \o <<ev>>,
           streams' = [streams EXCEPT ![Id(c)] = t],
           WellFormed(t, Id(c)), Grows(streams[Id(c)], t),
           (Len(t) = 2 /\ t[2].type = "resumed") => MadeResume(c, t, Id(c)),
           NEW label \in PC \ {"idle", "done"}, NEW e \in Envelope, Continue(c, label, e),
           UNCHANGED <<clock, req, now>>,
           RunInv(c, streams[Id(c)])'
    PROVE  SafetyInv'
<1>1. TypeOK /\ StreamInv /\ CallInvOf(c)
  BY DEF SafetyInv, CallInv
<1>2. /\ pc' \in [Calls -> PC]
      /\ env' \in [Calls -> Envelope \cup {Missing}]
      /\ tokenHash' \in [Calls -> TokenHashes]
      /\ reply' \in [Calls -> Reply]
      /\ Frame(c)
      /\ pc'[c] = label
      /\ reply'[c] = reply[c]
  BY <1>1, ContinueFrame
<1>3. /\ streams' \in [Ids -> Seq(ContinuationEvent)]
      /\ streams'[Id(c)] = t
      /\ \A id \in Ids \ {Id(c)} : streams'[id] = streams[id]
  BY <1>1 DEF TypeOK, StreamsType, WellFormed
<1>4. TypeOK'
  BY <1>1, <1>2, <1>3 DEF TypeOK, StreamsType
<1>5. \A d \in Calls : pc[d] # "idle" => pc'[d] # "idle" /\ req'[d] = req[d]
  BY <1>2 DEF Frame
<1>6. StreamInv'
  <2> SUFFICES ASSUME NEW id \in Ids
               PROVE  /\ WellFormed(streams'[id], id)
                      /\ (Len(streams'[id]) = 2 /\ streams'[id][2].type = "resumed") =>
                            \E d \in Calls : MadeResume(d, streams[id], id)'
    BY Zenon DEF StreamInv, WellFormed
  <2>1. CASE id = Id(c)
    <3>1. (Len(t) = 2 /\ t[2].type = "resumed") => MadeResume(c, streams[id], id)'
      BY <1>3, <1>5, <2>1, Zenon DEF MadeResume, Id
    <3> QED
      BY <1>3, <2>1, <3>1, Zenon
  <2>2. CASE id # Id(c)
    <3>1. streams'[id] = streams[id]
      BY <1>3, <2>2, Zenon
    <3>2. \A d \in Calls : MadeResume(d, streams[id], id) => MadeResume(d, streams[id], id)'
      BY <1>5, <3>1 DEF MadeResume, Id
    <3> QED
      BY <1>1, <3>1, <3>2, Zenon DEF StreamInv
  <2> QED
    BY <2>1, <2>2, Zenon
<1>7. CallInvOf(c)'
  BY <1>1, <1>2 DEF CallInvOf, DoneInv
<1>8. ASSUME NEW d \in Calls \ {c}
      PROVE  CallInvOf(d)'
  <2>1. CallInvOf(d)
    BY DEF SafetyInv, CallInv
  <2>2. ASSUME pc[d] # "idle" PROVE Grows(streams[Id(d)], streams'[Id(d)])
    <3>1. Id(d) \in Ids
      BY <2>2, RequestFacts
    <3>2. CASE Id(d) = Id(c)
      BY <1>3, <3>2
    <3>3. CASE Id(d) # Id(c)
      <4>1. streams'[Id(d)] = streams[Id(d)]
        BY <1>3, <3>1, <3>3
      <4> QED
        BY <4>1 DEF Grows
    <3> QED
      BY <3>2, <3>3
  <2> QED
    BY <1>2, <2>1, <2>2, OtherCall DEF Frame
<1> QED
  BY <1>4, <1>6, <1>7, <1>8 DEF SafetyInv, CallInv

\* An accepted expiry is the ending of a stream that only had its creation.
LEMMA ExpireCommitsKeeps ==
    ASSUME SafetyInv, NEW c \in Calls, ExpireCommits(c)
    PROVE  SafetyInv'
<1> DEFINE s == streams[Id(c)]
           ev == ExpiredEvent(c)
           t == s \o <<ev>>
           e == ReduceContinuation(env[c], ev)
<1>1. /\ pc[c] = "expire"
      /\ Len(s) = env[c].version
      /\ streams' = [streams EXCEPT ![Id(c)] = t]
      /\ Continue(c, "settle", e)
      /\ UNCHANGED <<clock, req, now>>
  BY DEF ExpireCommits, AppendAccepted
<1>2. Id(c) \in Ids /\ WellFormed(s, Id(c)) /\ RunInv(c, s) /\ TypeOK
  BY <1>1, RequestFacts DEF SafetyInv
<1>3. /\ Records(s, env[c])
      /\ env[c].status = "pending"
      /\ now[c] >= env[c].expiresAt
      /\ req[c].op # "create"
  BY <1>1, <1>2 DEF RunInv, Holding
<1>4. /\ env[c] = Birth(s)
      /\ env[c].version = 1
      /\ env[c].expiresAt = s[1].expiresAt
      /\ Len(s) = 1
  BY <1>1, <1>2, <1>3, RecordFacts
<1>5. now[c] \in Nat
  BY <1>2 DEF TypeOK
<1>6. /\ ev \in ContinuationExpired
      /\ ev.schemaVersion = 1
      /\ ev.continuationId = Id(c)
      /\ ev.version = 2
      /\ ev.type = "expired"
      /\ ev.occurredAt = now[c]
  BY <1>2, <1>4, <1>5 DEF ExpiredEvent, ContinuationExpired, CONTINUATION_SCHEMA_VERSION
<1> HIDE DEF ev
<1>7. /\ WellFormed(t, Id(c))
      /\ Grows(s, t)
      /\ Len(t) = 2
      /\ t[1] = s[1]
      /\ t[2] = ev
      /\ e = Ending(t)
  BY <1>2, <1>3, <1>4, <1>6, AppendEnding
<1>8. Records(t, e)
  BY <1>7 DEF Records
<1> HIDE DEF t, e
<1>9. e \in Envelope /\ e.status = "expired"
  <2>1. e \in Envelope
    BY <1>2, <1>7, <1>8, RecordFacts
  <2>2. e.status = t[2].type
    BY <1>2, <1>7, RecordTypes
  <2> QED
    BY <1>6, <1>7, <2>1, <2>2
<1>10. "settle" \in PC \ {"idle", "done"}
  BY DEF PC
<1>11. pc'[c] = "settle" /\ env'[c] = e /\ tokenHash'[c] = tokenHash[c]
  BY <1>1, <1>2, <1>9, <1>10, ContinueFrame
<1>12. s' = t
  BY <1>1, <1>2 DEF TypeOK, StreamsType, Id
<1>13. RunInv(c, s)'
  <2> HIDE DEF s
  <2> QED
    BY <1>1, <1>2, <1>3, <1>7, <1>8, <1>9, <1>11, <1>12 DEF RunInv, Holding
<1>14. ~(t[2].type = "resumed")
  BY <1>6, <1>7
<1> QED
  BY <1>1, <1>2, <1>7, <1>9, <1>10, <1>13, <1>14, CommitKeeps DEF t

\* The append of a creation.
LEMMA CreateCommitKeeps ==
    ASSUME SafetyInv, NEW c \in Calls, AppendCommits(c), req[c].op = "create"
    PROVE  SafetyInv'
<1> DEFINE s == streams[Id(c)]
           ev == CreatedEvent(c)
           t == s \o <<ev>>
           e == CreatedEnvelope(ev)
<1>0. DecisionEvent(c) = ev
  BY DEF DecisionEvent
<1>1. /\ pc[c] = "append"
      /\ Len(s) = env[c].version
      /\ streams' = [streams EXCEPT ![Id(c)] = t]
      /\ Continue(c, "observe", ReduceContinuation(env[c], ev))
      /\ UNCHANGED <<clock, req, now>>
  BY <1>0 DEF AppendCommits, AppendAccepted
<1>2. Id(c) \in Ids /\ WellFormed(s, Id(c)) /\ RunInv(c, s) /\ TypeOK /\ req[c] \in Request
  BY <1>1, RequestFacts DEF SafetyInv
<1>3. env[c] = Missing /\ (req[c].expiresAt # Undefined => now[c] < req[c].expiresAt)
  BY <1>1, <1>2 DEF RunInv
<1>4. Len(s) = 0
  BY <1>1, <1>3 DEF Missing
<1>5. now[c] \in Nat /\ req[c].expiresAt \in Nat \cup {Undefined}
  BY <1>2 DEF TypeOK, Request, CreateRequest, InspectRequest, ResumeRequest, CancelRequest
<1>6. Hash(c) \in Hashes
  BY ServiceAssumption DEF Hash, TokenHashes, Tokens
<1>7. /\ ev \in ContinuationCreated
      /\ ev.schemaVersion = 1
      /\ ev.continuationId = Id(c)
      /\ ev.version = 1
      /\ ev.type = "created"
      /\ ev.occurredAt < ev.expiresAt
      /\ ev.resumeTokenHash = Hash(c)
  <2> DEFINE x == IF req[c].expiresAt = Undefined THEN now[c] + TokenTtl ELSE req[c].expiresAt
  <2>1. x \in Nat /\ now[c] < x
    BY <1>3, <1>5, ServiceAssumption
  <2>2. ev = [type |-> "created", schemaVersion |-> 1, continuationId |-> Id(c), version |-> 1,
              occurredAt |-> now[c], expiresAt |-> x, resumeTokenHash |-> Hash(c)]
    BY DEF CreatedEvent, CONTINUATION_SCHEMA_VERSION
  <2> HIDE DEF x, ev
  <2> QED
    BY <1>2, <1>5, <1>6, <2>1, <2>2 DEF ContinuationCreated
<1> HIDE DEF ev
<1>8. /\ WellFormed(t, Id(c))
      /\ Grows(s, t)
      /\ Len(t) = 1
      /\ Birth(t) = e
  BY <1>2, <1>4, <1>7, AppendBirth
<1> HIDE DEF t
<1>9. Records(t, e)
  BY <1>8 DEF Records
<1>10. e \in Envelope /\ e.status = "pending" /\ e.resumeTokenHash = Hash(c)
  <2>1. e \in Envelope
    BY <1>2, <1>8, <1>9, RecordFacts
  <2> QED
    BY <1>7, <2>1 DEF CreatedEnvelope
<1>11. ReduceContinuation(env[c], ev) = e
  BY <1>3, <1>7 DEF ReduceContinuation, Rejection, Missing, CONTINUATION_SCHEMA_VERSION
<1> HIDE DEF e
<1>12. "observe" \in PC \ {"idle", "done"}
  BY DEF PC
<1>13. Continue(c, "observe", e)
  BY <1>1, <1>11
<1>14. pc'[c] = "observe" /\ env'[c] = e
  BY <1>2, <1>10, <1>12, <1>13, ContinueFrame
<1>15. s' = t
  BY <1>1, <1>2 DEF TypeOK, StreamsType, Id
<1>16. req'[c] = req[c] /\ now'[c] = now[c]
  BY <1>1
<1>17. RunInv(c, s)'
  <2> HIDE DEF s
  <2> QED
    BY <1>9, <1>10, <1>14, <1>15, <1>16 DEF RunInv, Holding, Reports, Hash
<1>18. Len(t) # 2
  BY <1>8
<1> QED
  BY <1>1, <1>2, <1>8, <1>10, <1>12, <1>13, <1>17, <1>18, CommitKeeps DEF t

\* The append of a resume or of a cancellation.
LEMMA EndingCommitKeeps ==
    ASSUME SafetyInv, NEW c \in Calls, AppendCommits(c), req[c].op # "create"
    PROVE  SafetyInv'
<1> DEFINE s == streams[Id(c)]
           ev == DecisionEvent(c)
           t == s \o <<ev>>
           e == ReduceContinuation(env[c], ev)
<1>1. /\ pc[c] = "append"
      /\ Len(s) = env[c].version
      /\ streams' = [streams EXCEPT ![Id(c)] = t]
      /\ Continue(c, "observe", e)
      /\ UNCHANGED <<clock, req, now>>
  BY DEF AppendCommits, AppendAccepted
<1>2. Id(c) \in Ids /\ WellFormed(s, Id(c)) /\ RunInv(c, s) /\ TypeOK /\ req[c] \in Request
  BY <1>1, RequestFacts DEF SafetyInv
<1>3. /\ Records(s, env[c])
      /\ env[c].status = "pending"
      /\ req[c].op \in {"resume", "cancel"}
      /\ req[c].op = "cancel" =>
            now[c] < env[c].expiresAt /\ req[c].expectedVersion \in {Undefined, 1}
      /\ req[c].op = "resume" =>
            tokenHash[c] = s[1].resumeTokenHash /\ tokenHash[c] = Hash(req[c].resumeToken)
  BY <1>1, <1>2 DEF RunInv
<1>4. /\ env[c] = Birth(s)
      /\ env[c].version = 1
      /\ env[c].expiresAt = s[1].expiresAt
      /\ Len(s) = 1
  BY <1>1, <1>2, <1>3, RecordFacts
<1>5. now[c] \in Nat
  BY <1>2 DEF TypeOK
<1>6. /\ ev \in ContinuationResumed \cup ContinuationCancelled
      /\ ev.schemaVersion = 1
      /\ ev.continuationId = Id(c)
      /\ ev.version = 2
      /\ ev.occurredAt = now[c]
      /\ req[c].op = "resume" =>
           /\ ev.type = "resumed"
           /\ ev.idempotencyKey = req[c].idempotencyKey
           /\ ev.resumePayload = req[c].resumePayload
      /\ req[c].op = "cancel" => ev.type = "cancelled" /\ ev.reason = req[c].reason
  <2>1. CASE req[c].op = "resume"
    <3>1. req[c].idempotencyKey \in Keys /\ req[c].resumePayload \in Payloads
      BY <1>2, <2>1 DEF Request, CreateRequest, InspectRequest, ResumeRequest, CancelRequest
    <3>2. ev = [type |-> "resumed", schemaVersion |-> 1, continuationId |-> Id(c),
                version |-> 2, occurredAt |-> now[c],
                idempotencyKey |-> req[c].idempotencyKey,
                resumePayload |-> req[c].resumePayload]
      BY <1>4, <2>1 DEF DecisionEvent, ResumedEvent, CONTINUATION_SCHEMA_VERSION
    <3> HIDE DEF ev
    <3> QED
      BY <1>2, <1>5, <2>1, <3>1, <3>2 DEF ContinuationResumed
  <2>2. CASE req[c].op = "cancel"
    <3>1. req[c].reason \in Reasons \cup {Undefined}
      BY <1>2, <2>2 DEF Request, CreateRequest, InspectRequest, ResumeRequest, CancelRequest
    <3>2. ev = [type |-> "cancelled", schemaVersion |-> 1, continuationId |-> Id(c),
                version |-> 2, occurredAt |-> now[c], reason |-> req[c].reason]
      BY <1>4, <2>2 DEF DecisionEvent, CancelledEvent, CONTINUATION_SCHEMA_VERSION
    <3> HIDE DEF ev
    <3> QED
      BY <1>2, <1>5, <2>2, <3>1, <3>2 DEF ContinuationCancelled
  <2> QED
    BY <1>3, <2>1, <2>2
<1> HIDE DEF ev
<1>7. /\ WellFormed(t, Id(c))
      /\ Grows(s, t)
      /\ Len(t) = 2
      /\ t[1] = s[1]
      /\ t[2] = ev
      /\ e = Ending(t)
  <2>1. ev.type # "expired"
    BY <1>3, <1>6
  <2>2. ev.type = "cancelled" => ev.occurredAt < s[1].expiresAt
    BY <1>3, <1>4, <1>6
  <2> QED
    BY <1>2, <1>4, <1>6, <2>1, <2>2, AppendEnding
<1>8. Records(t, e)
  BY <1>7 DEF Records
<1> HIDE DEF t, e
<1>9. e \in Envelope
  BY <1>2, <1>7, <1>8, RecordFacts
<1>10. Reports(c, e)
  <2>1. /\ e.status = ev.type
        /\ ev.type = "resumed" =>
             e.idempotencyKey = ev.idempotencyKey /\ e.resumePayload = ev.resumePayload
        /\ ev.type = "cancelled" => e.reason = ev.reason
    BY <1>2, <1>7, RecordTypes
  <2> QED
    BY <1>3, <1>6, <2>1 DEF Reports
<1>11. "observe" \in PC \ {"idle", "done"}
  BY DEF PC
<1>12. pc'[c] = "observe" /\ env'[c] = e /\ tokenHash'[c] = tokenHash[c]
  BY <1>1, <1>2, <1>9, <1>11, ContinueFrame
<1>13. s' = t
  BY <1>1, <1>2 DEF TypeOK, StreamsType, Id
<1>14. req'[c] = req[c] /\ now'[c] = now[c]
  BY <1>1
<1>15. RunInv(c, s)'
  <2> HIDE DEF s
  <2> QED
    BY <1>3, <1>7, <1>8, <1>10, <1>12, <1>13, <1>14 DEF RunInv, Holding, Reports, Hash
<1>16. t[2].type = "resumed" => MadeResume(c, t, Id(c))
  <2>1. ev.type = "resumed" => req[c].op = "resume"
    BY <1>3, <1>6
  <2> QED
    BY <1>1, <1>3, <1>6, <1>7, <2>1 DEF MadeResume
<1> QED
  BY <1>1, <1>2, <1>7, <1>9, <1>11, <1>15, <1>16, CommitKeeps DEF t

-----------------------------------------------------------------------------
(* The inductive invariant *)

\* The invariant holds of empty streams and idle calls.
LEMMA InitSafety == Init => SafetyInv
<1> SUFFICES ASSUME Init PROVE SafetyInv
  OBVIOUS
<1>1. \A id \in Ids : streams[id] = << >>
  BY DEF Init, StoreInit
<1>2. TypeOK
  BY ServiceAssumption
  DEF Init, StoreInit, TypeOK, StreamsType, PC, NoHash, TokenHashes, Tokens, NoReply, Reply
<1>3. StreamInv
  <2> SUFFICES ASSUME NEW id \in Ids
               PROVE  WellFormed(<< >>, id) /\ Len(<< >>) # 2
    BY <1>1 DEF StreamInv
  <2>1. << >> \in Seq(ContinuationEvent) /\ Len(<< >>) = 0
    OBVIOUS
  <2> QED
    BY <2>1 DEF WellFormed
<1>4. CallInv
  BY DEF Init, CallInv, CallInvOf, NoReply
<1> QED
  BY <1>2, <1>3, <1>4 DEF SafetyInv

\* Every step keeps the invariant: one case per action.
LEMMA StepSafety == SafetyInv /\ [Next]_vars => SafetyInv'
<1> SUFFICES ASSUME SafetyInv, [Next]_vars PROVE SafetyInv'
  OBVIOUS
<1>1. CASE Tick
  BY <1>1, TickKeeps
<1>2. ASSUME NEW c \in Calls, NEW r \in Requests, Invoke(c, r) PROVE SafetyInv'
  BY <1>2, InvokeKeeps
<1>3. ASSUME NEW c \in Calls, Fail(c) PROVE SafetyInv'
  BY <1>3, FailKeeps
<1>4. ASSUME NEW c \in Calls, Step(c) PROVE SafetyInv'
  <2>1. CASE Load(c)
    BY <2>1, LoadKeeps
  <2>2. CASE ExpireCommits(c)
    BY <2>2, ExpireCommitsKeeps
  <2>3. CASE ExpireConflicts(c)
    BY <2>3, ExpireConflictsKeeps
  <2>4. CASE Reload(c)
    BY <2>4, ReloadKeeps
  <2>5. CASE CreateBegin(c)
    BY <2>5, CreateBeginKeeps
  <2>6. CASE InspectDecide(c)
    BY <2>6, InspectDecideKeeps
  <2>7. CASE InspectSettle(c)
    BY <2>7, InspectSettleKeeps
  <2>8. CASE ResumeDecide(c)
    BY <2>8, ResumeDecideKeeps
  <2>9. CASE ResumeSettle(c)
    BY <2>9, ResumeSettleKeeps
  <2>10. CASE ResumeReresolve(c)
    BY <2>10, ResumeReresolveKeeps
  <2>11. CASE CancelDecide(c)
    BY <2>11, CancelDecideKeeps
  <2>12. CASE CancelSettle(c)
    BY <2>12, CancelSettleKeeps
  <2>13. CASE CancelReresolve(c)
    BY <2>13, CancelReresolveKeeps
  <2>14. CASE AppendCommits(c)
    BY <2>14, CreateCommitKeeps, EndingCommitKeeps
  <2>15. CASE AppendFails(c)
    BY <2>15, AppendFailsKeeps
  <2>16. CASE Observed(c)
    BY <2>16, ObservedKeeps
  <2> QED
    BY <1>4, <2>1, <2>2, <2>3, <2>4, <2>5, <2>6, <2>7, <2>8, <2>9, <2>10, <2>11, <2>12,
       <2>13, <2>14, <2>15, <2>16 DEF Step
<1>5. CASE UNCHANGED vars
  <2>1. UNCHANGED <<streams, clock, pc, req, env, tokenHash, now, reply>>
    BY <1>5 DEF vars
  <2>2. TypeOK'
    BY <2>1 DEF SafetyInv, TypeOK, StreamsType
  <2>3. StreamInv'
    BY <2>1, SameStreams DEF SafetyInv
  <2>4. ASSUME NEW d \in Calls PROVE CallInvOf(d)'
    <3>1. CallInvOf(d)
      BY DEF SafetyInv, CallInv
    <3>2. Grows(streams[Id(d)], streams'[Id(d)])
      BY <2>1 DEF Grows
    <3> QED
      BY <2>1, <3>1, <3>2, OtherCall
  <2> QED
    BY <2>2, <2>3, <2>4 DEF SafetyInv, CallInv
<1> QED
  BY <1>1, <1>2, <1>3, <1>4, <1>5 DEF Next

\* The inductive invariant holds throughout: streams are well formed, and what a
\* call holds or has answered is what its stream records.
THEOREM Safety == Spec => []SafetyInv
BY InitSafety, StepSafety, PTL DEF Spec

-----------------------------------------------------------------------------
(* What follows from the invariant *)

\* The type invariant of the service: no load ever meets a stream that the
\* reducer rejects, so a call holds an envelope whenever it needs one.
THEOREM TypeCorrect == Spec => []TypeOK
<1>1. SafetyInv => TypeOK
  BY DEF SafetyInv
<1> QED
  BY Safety, <1>1, PTL

\* Whatever calls race, every stream is a creation and at most one ending, and
\* replayContinuation accepts it.
THEOREM HistoriesReplay == Spec => []HistoryReplays
<1>1. SafetyInv => HistoryReplays
  <2> SUFFICES ASSUME SafetyInv, NEW id \in Ids, streams[id] # << >>
               PROVE  /\ Len(streams[id]) \in 1 .. 2
                      /\ Recorded(id) \in Envelope
                      /\ Recorded(id).version = Len(streams[id])
    BY DEF HistoryReplays
  <2> DEFINE s == streams[id]
  <2>1. WellFormed(s, id)
    BY DEF SafetyInv, StreamInv
  <2>2. Len(s) \in {0, 1, 2}
    BY <2>1, RecordTypes
  <2>3. Len(s) # 0
    BY <2>1 DEF WellFormed
  <2>4. Records(s, ReplayContinuation(s))
    BY <2>1, <2>3, LoadFacts
  <2>5. ReplayContinuation(s) \in Envelope
    BY <2>1, <2>4, RecordFacts
  <2>6. ReplayContinuation(s).version = Len(s)
    <3>1. CASE Len(s) = 1
      BY <2>1, <3>1, LoadFacts, RecordTypes
    <3>2. CASE Len(s) = 2
      BY <2>1, <3>2, LoadFacts, RecordTypes
    <3> QED
      BY <2>2, <2>3, <3>1, <3>2
  <2> QED
    BY <2>2, <2>3, <2>5, <2>6 DEF Recorded
<1> QED
  BY Safety, <1>1, PTL

\* What a call that answered successfully knows.
LEMMA AnswerFacts ==
    ASSUME SafetyInv, NEW c \in Calls, reply[c].code = "ok"
    PROVE  /\ Id(c) \in Ids
           /\ req[c].op \in {"create", "inspect", "resume", "cancel"}
           /\ WellFormed(streams[Id(c)], Id(c))
           /\ Records(streams[Id(c)], reply[c].envelope)
           /\ Reports(c, reply[c].envelope)
<1>1. pc[c] = "done"
  BY DEF SafetyInv, CallInv, CallInvOf, NoReply
<1>2. DoneInv(c, streams[Id(c)])
  BY <1>1 DEF SafetyInv, CallInv, CallInvOf
<1> QED
  BY <1>1, <1>2, RequestFacts DEF DoneInv

\* Version numbers of a stream with one or two events.
LEMMA OneOrTwo ==
    ASSUME NEW n \in {1, 2}
    PROVE  1 \in 1 .. n /\ n \in 1 .. n /\ n # 0
OBVIOUS

\* The replay of the first event of a stream is its creation record.
LEMMA ReplayOfPrefix ==
    ASSUME NEW id \in Ids, NEW s, WellFormed(s, id), NEW e, Records(s, e)
    PROVE  /\ e.version \in 1 .. Len(s)
           /\ e = ReplayContinuation(SubSeq(s, 1, e.version))
<1>1. Len(s) \in {1, 2} /\ s \in Seq(ContinuationEvent)
  BY RecordFacts DEF WellFormed
<1>2. CASE e.status = "pending"
  <2> DEFINE t == SubSeq(s, 1, 1)
  <2>1. e = Birth(s) /\ e.version = 1
    BY <1>2, RecordFacts
  <2>2. t \in Seq(ContinuationEvent) /\ Len(t) = 1 /\ t[1] = s[1]
    BY <1>1
  <2> HIDE DEF t
  <2>3. WellFormed(t, id)
    BY <1>1, <2>2 DEF WellFormed
  <2>4. Birth(t) = Birth(s)
    BY <2>2 DEF Birth
  <2>5. ReplayContinuation(t) = Birth(s)
    BY <2>2, <2>3, <2>4, LoadFacts
  <2>6. SubSeq(s, 1, e.version) = t
    BY <2>1 DEF t
  <2>7. e.version \in 1 .. Len(s)
    BY <1>1, <2>1, OneOrTwo
  <2> QED
    BY <2>1, <2>5, <2>6, <2>7
<1>3. CASE e.status # "pending"
  <2>1. Len(s) = 2 /\ e = Ending(s) /\ e.version = 2
    BY <1>3, RecordFacts
  <2>2. SubSeq(s, 1, 2) = s
    BY <1>1, <2>1
  <2>3. ReplayContinuation(s) = Ending(s)
    BY <2>1, LoadFacts
  <2>4. SubSeq(s, 1, e.version) = s
    BY <2>1, <2>2
  <2>5. e.version \in 1 .. Len(s)
    BY <1>1, <2>1, OneOrTwo
  <2> QED
    BY <2>1, <2>3, <2>4, <2>5
<1> QED
  BY <1>2, <1>3

\* Every envelope a method returns is what the stream records at that version.
THEOREM AnswersRecorded == Spec => []AnswersAreRecorded
<1>1. SafetyInv => AnswersAreRecorded
  <2> SUFFICES ASSUME SafetyInv, NEW c \in Calls, reply[c].code = "ok"
               PROVE  LET e == reply[c].envelope IN
                      /\ e.version \in 1 .. Len(streams[Id(c)])
                      /\ e = ReplayContinuation(SubSeq(streams[Id(c)], 1, e.version))
    BY DEF AnswersAreRecorded
  <2> QED
    BY AnswerFacts, ReplayOfPrefix
<1> QED
  BY Safety, <1>1, PTL

\* Exactly-once decision, for any number of rivals and retries.
THEOREM DecidedOnce == Spec => []OneDecision
<1>1. SafetyInv => OneDecision
  <2> SUFFICES ASSUME SafetyInv, NEW c \in Calls, NEW d \in Calls,
                      reply[c].code = "ok", req[c].op = "resume",
                      reply[d].code = "ok", req[d].op \in {"resume", "cancel"},
                      Id(c) = Id(d)
               PROVE  /\ req[d].op = "resume"
                      /\ req[d].idempotencyKey = req[c].idempotencyKey
                      /\ req[d].resumePayload = req[c].resumePayload
                      /\ reply[d] = reply[c]
    BY DEF OneDecision
  <2> DEFINE s == streams[Id(c)]
             e == reply[c].envelope
             f == reply[d].envelope
  <2>1. /\ Id(c) \in Ids
        /\ WellFormed(s, Id(c))
        /\ Records(s, e) /\ Reports(c, e)
        /\ Records(s, f) /\ Reports(d, f)
    BY AnswerFacts
  <2>2. e.status = "resumed"
    BY <2>1 DEF Reports
  <2>3. f.status # "pending"
    BY <2>1 DEF Reports
  <2>4. e = Ending(s) /\ f = Ending(s)
    BY <2>1, <2>2, <2>3, RecordFacts
  <2>5. req[d].op = "resume"
    BY <2>1, <2>2, <2>4 DEF Reports
  <2>6. reply[c] \in Reply /\ reply[d] \in Reply
    BY DEF SafetyInv, TypeOK
  <2>7. reply[d] = reply[c]
    BY <2>4, <2>6 DEF Reply
  <2> QED
    BY <2>1, <2>4, <2>5, <2>7 DEF Reports
<1> QED
  BY Safety, <1>1, PTL

\* The token that a create returns is the stream's.
THEOREM CreateExclusive == Spec => []CreateIsExclusive
<1>1. SafetyInv => CreateIsExclusive
  <2> SUFFICES ASSUME SafetyInv, NEW c \in Calls, reply[c].code = "ok", req[c].op = "create"
               PROVE  /\ streams[Id(c)] # << >>
                      /\ Head(streams[Id(c)]).resumeTokenHash = Hash(c)
    BY DEF CreateIsExclusive
  <2> DEFINE s == streams[Id(c)]
             e == reply[c].envelope
  <2>1. Id(c) \in Ids /\ WellFormed(s, Id(c)) /\ Records(s, e) /\ Reports(c, e)
    BY AnswerFacts
  <2>2. e.status = "pending" /\ e.resumeTokenHash = Hash(c)
    BY <2>1 DEF Reports
  <2>3. e = Birth(s) /\ Len(s) \in {1, 2} /\ s \in Seq(ContinuationEvent)
    BY <2>1, <2>2, RecordFacts DEF WellFormed
  <2>4. Birth(s).resumeTokenHash = s[1].resumeTokenHash
    BY <2>1, <2>3, RecordTypes
  <2>5. s # << >> /\ Head(s) = s[1]
    <3>1. Len(s) # 0
      BY <2>3, OneOrTwo
    <3> QED
      BY <2>3, <3>1
  <2> QED
    BY <2>2, <2>3, <2>4, <2>5
<1> QED
  BY Safety, <1>1, PTL

\* A continuation is resumed only by a request that held its token.
THEOREM ResumeHeldToken == Spec => []ResumeNeedsToken
<1>1. SafetyInv => ResumeNeedsToken
  <2> SUFFICES ASSUME SafetyInv, NEW id \in Ids, Recorded(id).status = "resumed"
               PROVE  \E c \in Calls :
                        /\ req[c].op = "resume"
                        /\ Id(c) = id
                        /\ Hash(req[c].resumeToken) = Head(streams[id]).resumeTokenHash
                        /\ req[c].idempotencyKey = Recorded(id).idempotencyKey
                        /\ req[c].resumePayload = Recorded(id).resumePayload
    BY DEF ResumeNeedsToken
  <2> DEFINE s == streams[id]
             e == ReplayContinuation(s)
  <2>1. WellFormed(s, id) /\ s \in Seq(ContinuationEvent)
    BY DEF SafetyInv, StreamInv, WellFormed
  <2>2. e.status = "resumed" /\ e # Missing
    BY DEF Recorded, Missing
  <2>3. Records(s, e)
    BY <2>1, <2>2, LoadFacts
  <2>4. Len(s) = 2 /\ e = Ending(s)
    BY <2>1, <2>2, <2>3, RecordFacts
  <2>5. /\ s[2].type = "resumed"
        /\ e.idempotencyKey = s[2].idempotencyKey
        /\ e.resumePayload = s[2].resumePayload
    BY <2>1, <2>2, <2>4, RecordTypes
  <2>6. Head(s) = s[1]
    BY <2>1, <2>4
  <2>7. PICK c \in Calls : MadeResume(c, s, id)
    BY <2>4, <2>5 DEF SafetyInv, StreamInv
  <2> QED
    BY <2>5, <2>6, <2>7 DEF MadeResume, Recorded
<1> QED
  BY Safety, <1>1, PTL

\* Time of the endings, and of what inspect shows, under any clock.
THEOREM ExpiryRespected == Spec => []ExpiryIsRespected
<1>1. SafetyInv => ExpiryIsRespected
  <2> SUFFICES ASSUME SafetyInv PROVE ExpiryIsRespected
    OBVIOUS
  <2>1. ASSUME NEW id \in Ids
        PROVE  /\ Recorded(id).status = "expired" =>
                    Recorded(id).expiredAt >= Recorded(id).expiresAt
               /\ Recorded(id).status = "cancelled" =>
                    Recorded(id).cancelledAt < Recorded(id).expiresAt
    <3> DEFINE s == streams[id]
               e == ReplayContinuation(s)
    <3>1. WellFormed(s, id)
      BY DEF SafetyInv, StreamInv
    <3>2. ASSUME e.status \in {"expired", "cancelled"}
          PROVE  Len(s) = 2 /\ e = Ending(s)
      <4>1. e # Missing
        BY <3>2 DEF Missing
      <4>2. Records(s, e)
        BY <3>1, <4>1, LoadFacts
      <4> QED
        BY <3>1, <3>2, <4>2, RecordFacts
    <3>3. ASSUME e.status = "expired" PROVE e.expiredAt >= e.expiresAt
      <4>1. Len(s) = 2 /\ e = Ending(s)
        BY <3>2, <3>3
      <4>2. s[2].type = "expired" /\ e.expiredAt = s[2].occurredAt /\ e.expiresAt = s[1].expiresAt
        BY <3>1, <3>3, <4>1, RecordTypes
      <4> QED
        BY <3>1, <4>1, <4>2 DEF WellFormed
    <3>4. ASSUME e.status = "cancelled" PROVE e.cancelledAt < e.expiresAt
      <4>1. Len(s) = 2 /\ e = Ending(s)
        BY <3>2, <3>4
      <4>2. /\ s[2].type = "cancelled"
            /\ e.cancelledAt = s[2].occurredAt
            /\ e.expiresAt = s[1].expiresAt
        BY <3>1, <3>4, <4>1, RecordTypes
      <4> QED
        BY <3>1, <4>1, <4>2 DEF WellFormed
    <3> QED
      BY <3>3, <3>4 DEF Recorded
  <2>2. ASSUME NEW c \in Calls, reply[c].code = "ok", req[c].op = "inspect",
               reply[c].envelope.status = "pending"
        PROVE  now[c] < reply[c].envelope.expiresAt
    BY <2>2, AnswerFacts DEF Reports
  <2> QED
    BY <2>1, <2>2 DEF ExpiryIsRespected
<1> QED
  BY Safety, <1>1, PTL

-----------------------------------------------------------------------------
(* The service implements the life cycle *)

\* A step is an append of one event that the store accepts, or leaves all streams alone.
LEMMA AcceptedOrSame ==
    ASSUME SafetyInv, [Next]_vars
    PROVE  \/ UNCHANGED streams
           \/ \E id \in Ids : \E ev : AppendAccepted(id, Len(streams[id]), <<ev>>)
<1>1. ASSUME NEW c \in Calls, ExpireCommits(c) \/ AppendCommits(c)
      PROVE  \E id \in Ids : \E ev : AppendAccepted(id, Len(streams[id]), <<ev>>)
  <2>1. Id(c) \in Ids
    BY <1>1, RequestFacts DEF ExpireCommits, AppendCommits
  <2>2. PICK ev : AppendAccepted(Id(c), env[c].version, <<ev>>)
    BY <1>1, Zenon DEF ExpireCommits, AppendCommits
  <2>3. env[c].version = Len(streams[Id(c)])
    BY <2>2, Zenon DEF AppendAccepted
  <2> QED
    BY <2>1, <2>2, <2>3, Zenon
<1>2. ASSUME NEW c \in Calls, Step(c), ~ExpireCommits(c), ~AppendCommits(c)
      PROVE  UNCHANGED streams
  BY <1>2 DEF Step, Load, ExpireConflicts, Reload, CreateBegin, InspectDecide, InspectSettle,
     ResumeDecide, ResumeSettle, ResumeReresolve, CancelDecide, CancelSettle, CancelReresolve,
     AppendFails, AppendConflicts, Observed
<1>3. Tick \/ (\E c \in Calls, r \in Requests : Invoke(c, r)) \/ (\E c \in Calls : Fail(c))
        \/ UNCHANGED vars => UNCHANGED streams
  BY DEF Tick, Invoke, Fail, vars
<1> QED
  BY <1>1, <1>2, <1>3 DEF Next

\* A step appends one event to one stream, or leaves all streams alone.
LEMMA AppendOrSame ==
    ASSUME SafetyInv, [Next]_vars
    PROVE  \/ UNCHANGED streams
           \/ \E id \in Ids : \E ev : streams' = [streams EXCEPT ![id] = streams[id] \o <<ev>>]
BY AcceptedOrSame, Zenon DEF AppendAccepted

\* The life of a continuation whose stream grows by one event.
LEMMA LifeOfAppend ==
    ASSUME NEW id \in Ids, NEW s, WellFormed(s, id), NEW ev, NEW t, t = s \o <<ev>>,
           WellFormed(t, id)
    PROVE  \/ /\ Len(s) = 0 /\ ReplayContinuation(s) = Missing
              /\ Len(t) = 1 /\ ReplayContinuation(t) = Birth(t)
           \/ /\ Len(s) = 1 /\ ReplayContinuation(s) = Birth(s)
              /\ Len(t) = 2 /\ ReplayContinuation(t) = Ending(t)
              /\ t[1] = s[1]
<1>1. Len(s) \in {0, 1, 2} /\ Len(t) \in {0, 1, 2} /\ s \in Seq(ContinuationEvent)
  BY RecordTypes DEF WellFormed
<1>2. Len(t) = Len(s) + 1
  BY <1>1
<1>3. CASE Len(s) = 0
  BY <1>2, <1>3, ReplayOfRecord
<1>4. CASE Len(s) = 1
  <2>1. Len(t) = 2
    BY <1>2, <1>4
  <2>2. t[1] = s[1]
    BY <1>1, <1>4
  <2> QED
    BY <1>4, <2>1, <2>2, ReplayOfRecord
<1>5. CASE Len(s) = 2
  BY <1>1, <1>2, <1>5
<1> QED
  BY <1>1, <1>3, <1>4, <1>5

\* Every step of the service is a step of the abstract life cycle or leaves it alone.
LEMMA LifeStep ==
    ASSUME SafetyInv, SafetyInv', [Next]_vars
    PROVE  [Life!Next]_([id \in Ids |-> Recorded(id)])
<1> DEFINE life == [id \in Ids |-> Recorded(id)]
<1>1. CASE UNCHANGED streams
  BY <1>1 DEF Recorded
<1>2. ASSUME NEW id \in Ids, NEW ev, streams' = [streams EXCEPT ![id] = streams[id] \o <<ev>>]
      PROVE  Life!Next
  <2> DEFINE s == streams[id]
             t == s \o <<ev>>
  <2>1. WellFormed(s, id)
    BY DEF SafetyInv, StreamInv
  <2>2. streams'[id] = t /\ \A other \in Ids \ {id} : streams'[other] = streams[other]
    BY <1>2 DEF SafetyInv, TypeOK, StreamsType
  <2>3. WellFormed(streams[id], id)'
    BY DEF SafetyInv, StreamInv
  <2>4. WellFormed(t, id)
    BY <2>2, <2>3 DEF WellFormed
  <2>5. /\ life[id] = ReplayContinuation(s)
        /\ life'[id] = ReplayContinuation(t)
        /\ \A other \in Ids \ {id} : life'[other] = life[other]
    BY <2>2 DEF Recorded
  <2> HIDE DEF s, t, life
  <2>6. Life!Others(id)
    BY <2>5 DEF Life!Others, life
  <2>7. CASE /\ Len(s) = 0 /\ ReplayContinuation(s) = Missing
             /\ Len(t) = 1 /\ ReplayContinuation(t) = Birth(t)
    <3>1. life[id] = Missing /\ life'[id] = Birth(t)
      BY <2>5, <2>7
    <3>2. /\ Birth(t) \in PendingEnvelope
          /\ Birth(t).continuationId = id
          /\ Birth(t).version = 1
          /\ Birth(t).createdAt < Birth(t).expiresAt
      <4>1. /\ Birth(t) \in PendingEnvelope
            /\ Birth(t).continuationId = id
            /\ Birth(t).version = 1
            /\ Birth(t).createdAt = t[1].occurredAt
            /\ Birth(t).expiresAt = t[1].expiresAt
        <5>1. Len(t) >= 1
          BY <2>7
        <5> QED
          BY <2>4, <5>1, RecordTypes
      <4>2. t[1].occurredAt < t[1].expiresAt
        BY <2>4, <2>7 DEF WellFormed
      <4> QED
        BY <4>1, <4>2
    <3>3. Life!Create(id)
      BY <2>6, <3>1, <3>2 DEF Life!Create, Life!Missing, Life!PendingEnvelope, Missing,
         PendingEnvelope, life
    <3> QED
      BY <3>3 DEF Life!Next
  <2>8. CASE /\ Len(s) = 1 /\ ReplayContinuation(s) = Birth(s)
             /\ Len(t) = 2 /\ ReplayContinuation(t) = Ending(t)
             /\ t[1] = s[1]
    <3>1. life[id] = Birth(s) /\ life'[id] = Ending(t)
      BY <2>5, <2>8
    <3>2. /\ Birth(s).status = "pending"
          /\ Birth(s).version = 1
          /\ Birth(s).createdAt = s[1].occurredAt
          /\ Birth(s).expiresAt = s[1].expiresAt
      BY <2>1, <2>8, RecordTypes DEF PendingEnvelope
    <3>3. /\ Ending(t).continuationId = id
          /\ Ending(t).version = 2
          /\ Ending(t).createdAt = s[1].occurredAt
          /\ Ending(t).expiresAt = s[1].expiresAt
          /\ t[2].type \in {"resumed", "cancelled", "expired"}
      BY <2>4, <2>8, RecordTypes DEF TerminalStatus
    <3>4. Life!KeepsBase(id)
      BY <3>1, <3>2, <3>3 DEF Life!KeepsBase, life
    <3>5. life[id].status = "pending"
      BY <3>1, <3>2
    <3>6. CASE t[2].type = "resumed"
      <4>1. Ending(t) \in ResumedEnvelope
        BY <2>4, <2>8, <3>6, RecordTypes
      <4>2. Life!Resume(id)
        BY <2>6, <3>1, <3>4, <3>5, <4>1 DEF Life!Resume, Life!ResumedEnvelope,
           ResumedEnvelope, life
      <4> QED
        BY <4>2 DEF Life!Next
    <3>7. CASE t[2].type = "cancelled"
      <4>1. Ending(t) \in CancelledEnvelope /\ Ending(t).cancelledAt < s[1].expiresAt
        <5>1. Ending(t) \in CancelledEnvelope /\ Ending(t).cancelledAt = t[2].occurredAt
          BY <2>4, <2>8, <3>7, RecordTypes
        <5>2. t[2].occurredAt < s[1].expiresAt
          BY <2>4, <2>8, <3>7, Zenon DEF WellFormed
        <5> QED
          BY <5>1, <5>2, Zenon
      <4>2. Life!Cancel(id)
        BY <2>6, <3>1, <3>2, <3>4, <3>5, <4>1 DEF Life!Cancel, Life!CancelledEnvelope,
           CancelledEnvelope, life
      <4> QED
        BY <4>2 DEF Life!Next
    <3>8. CASE t[2].type = "expired"
      <4>1. Ending(t) \in ExpiredEnvelope /\ Ending(t).expiredAt >= s[1].expiresAt
        <5>1. Ending(t) \in ExpiredEnvelope /\ Ending(t).expiredAt = t[2].occurredAt
          BY <2>4, <2>8, <3>8, RecordTypes
        <5>2. t[2].occurredAt >= s[1].expiresAt
          BY <2>4, <2>8, <3>8, Zenon DEF WellFormed
        <5> QED
          BY <5>1, <5>2, Zenon
      <4>2. Life!Expire(id)
        BY <2>6, <3>1, <3>2, <3>4, <3>5, <4>1 DEF Life!Expire, Life!ExpiredEnvelope,
           ExpiredEnvelope, life
      <4> QED
        BY <4>2 DEF Life!Next
    <3> QED
      BY <3>3, <3>6, <3>7, <3>8
  <2> QED
    BY <2>1, <2>4, <2>7, <2>8, LifeOfAppend DEF t
<1> QED
  BY <1>1, <1>2, AppendOrSame

\* The streams implement the one-shot life cycle, for every set of calls.
THEOREM ImplementsLifecycle == Spec => LifecycleSpec
<1>1. Init => Life!Init
  <2> SUFFICES ASSUME Init, NEW id \in Ids PROVE Recorded(id) = Missing
    BY DEF Life!Init, Life!Missing, Missing
  <2>1. streams[id] = << >> /\ WellFormed(streams[id], id)
    BY InitSafety DEF Init, StoreInit, SafetyInv, StreamInv
  <2>2. Len(streams[id]) = 0
    BY <2>1
  <2> QED
    BY <2>1, <2>2, ReplayOfRecord DEF Recorded
<1>2. SafetyInv /\ SafetyInv' /\ [Next]_vars => [Life!Next]_([id \in Ids |-> Recorded(id)])
  BY LifeStep
<1> QED
  BY Safety, <1>1, <1>2, PTL DEF Spec, LifecycleSpec, Life!Spec

\* What an append of one event adds, as the contract of the store reads it off.
LEMMA AddedOne ==
    ASSUME NEW S, NEW s \in Seq(S), NEW ev, s \o <<ev>> \in Seq(S)
    PROVE  SubSeq(s \o <<ev>>, Len(s) + 1, Len(s \o <<ev>>)) = <<ev>>
<1> DEFINE t == s \o <<ev>>
           n == Len(s)
<1>1. n \in Nat /\ Len(t) = n + 1 /\ t[n + 1] = ev
  OBVIOUS
<1>2. t \in Seq(S)
  OBVIOUS
<1> HIDE DEF t, n
<1> DEFINE r == SubSeq(t, n + 1, n + 1)
<1>3. r \in Seq(S) /\ Len(r) = 1 /\ r[1] = t[n + 1]
  BY <1>1, <1>2
<1> HIDE DEF r
<1>4. r = <<ev>>
  BY <1>1, <1>3
<1> QED
  BY <1>1, <1>4 DEF t, n, r

\* The service uses its store as the contract of the port allows: a step of it that
\* changes a stream is one append, accepted at the version the stream has.  The
\* contract is the one that SqliteEventStore and PostgresEventStore implement.
THEOREM KeepsStoreContract == Spec => StoreSpec
<1>1. SafetyInv /\ SafetyInv' /\ [Next]_vars => [StoreNext]_streams
  <2> SUFFICES ASSUME SafetyInv, SafetyInv', [Next]_vars, streams' # streams PROVE StoreNext
    OBVIOUS
  <2>1. PICK id \in Ids : \E ev : AppendAccepted(id, Len(streams[id]), <<ev>>)
    BY AcceptedOrSame
  <2>2. PICK ev : AppendAccepted(id, Len(streams[id]), <<ev>>)
    BY <2>1
  <2>3. streams \in [Ids -> Seq(ContinuationEvent)] /\ streams' \in [Ids -> Seq(ContinuationEvent)]
    BY DEF SafetyInv, TypeOK, StreamsType
  <2>4. streams'[id] = streams[id] \o <<ev>>
    BY <2>2, <2>3 DEF AppendAccepted
  <2>5. Added(id) = <<ev>>
    <3> DEFINE s == streams[id]
    <3>1. s \in Seq(ContinuationEvent) /\ s \o <<ev>> \in Seq(ContinuationEvent)
      BY <2>3, <2>4
    <3>2. SubSeq(s \o <<ev>>, Len(s) + 1, Len(s \o <<ev>>)) = <<ev>>
      <4> HIDE DEF s
      <4> QED
        BY <3>1, AddedOne
    <3> QED
      BY <2>4, <3>2 DEF Added
  <2> QED
    BY <2>2, <2>5 DEF StoreNext, StoreAppend
<1>2. Init => StoreInit
  BY DEF Init
<1> QED
  BY <1>1, <1>2, Safety, PTL DEF Spec, StoreSpec

-----------------------------------------------------------------------------
(* Who wrote what stands in a stream *)

\* Call c has committed what it was asked for, and has said so or lost its answer.
Committed(c) ==
    \/ pc[c] = "observe"
    \/ pc[c] = "done" /\ reply[c].code \in {"ok", "failed"}

\* Call c is the create whose token stream s carries, or asked for the ending of s.
Opened(c, s, id) ==
    /\ Committed(c)
    /\ req[c].op = "create"
    /\ Id(c) = id
    /\ s[1].resumeTokenHash = Hash(c)

Ended(c, s, id) ==
    /\ Committed(c)
    /\ Id(c) = id
    /\ \/ /\ req[c].op = "resume" /\ s[2].type = "resumed"
          /\ req[c].idempotencyKey = s[2].idempotencyKey
          /\ req[c].resumePayload = s[2].resumePayload
       \/ /\ req[c].op = "cancel" /\ s[2].type = "cancelled"
          /\ req[c].reason = s[2].reason

\* Whatever stands in a stream was put there by a call that has committed: no
\* call that was refused, or is still on its way, has left a trace.
AuthorInv ==
    \A id \in Ids :
        /\ Len(streams[id]) >= 1 => \E c \in Calls : Opened(c, streams[id], id)
        /\ (Len(streams[id]) = 2 /\ streams[id][2].type # "expired") =>
              \E c \in Calls : Ended(c, streams[id], id)

\* A call that answers or goes on touches its own locals only.
LEMMA OwnLocals ==
    ASSUME TypeOK, NEW c \in Calls, NEW x, NEW e,
           Answer(c, x, e) \/ Continue(c, x, e)
    PROVE  Frame(c)
BY DEF TypeOK, Answer, Continue, Goto, Frame

\* A running call's step, or its failure, is its own.
LEMMA StepFrame ==
    ASSUME TypeOK, NEW c \in Calls, Step(c) \/ Fail(c)
    PROVE  /\ pc[c] \notin {"idle", "done"}
           /\ Frame(c)
           /\ UNCHANGED req
           /\ \A d \in Calls \ {c} : now'[d] = now[d]
<1>1. ASSUME ReadClock(c) \/ UNCHANGED now
      PROVE  \A d \in Calls \ {c} : now'[d] = now[d]
  BY <1>1, ReadClockFrame
<1>2. CASE Load(c)
  <2>1. CASE Throw(c, "CONTINUATION_NOT_FOUND")
    BY <1>1, <1>2, <2>1, OwnLocals DEF Load, Throw
  <2>2. CASE ~ Throw(c, "CONTINUATION_NOT_FOUND")
    BY <1>1, <1>2, <2>2 DEF Load, Goto, Frame, TypeOK
  <2> QED
    BY <2>1, <2>2
<1>3. CASE ExpireCommits(c) \/ ExpireConflicts(c) \/ Reload(c)
  BY <1>1, <1>3, OwnLocals DEF ExpireCommits, ExpireConflicts, Reload, Throw
<1>4. CASE CreateBegin(c) \/ InspectDecide(c) \/ InspectSettle(c)
  BY <1>1, <1>4, OwnLocals DEF CreateBegin, InspectDecide, InspectSettle, EnterExpireIfDue,
     Throw, Return
<1>5. CASE ResumeDecide(c) \/ ResumeReresolve(c)
  BY <1>1, <1>5, OwnLocals DEF ResumeDecide, ResumeReresolve, ResolveCompletedResume,
     EnterExpireIfDue, Throw, Return
<1>6. CASE ResumeSettle(c)
  BY <1>1, <1>6, OwnLocals DEF ResumeSettle, Throw
<1>7. CASE CancelDecide(c) \/ CancelReresolve(c)
  BY <1>1, <1>7, OwnLocals DEF CancelDecide, CancelReresolve, ResolveCompletedCancellation,
     EnterExpireIfDue, Throw, Return
<1>8. CASE CancelSettle(c)
  BY <1>1, <1>8, OwnLocals DEF CancelSettle, ResolveCompletedCancellation, Throw, Return
<1>9. CASE AppendCommits(c) \/ AppendFails(c) \/ Observed(c) \/ Fail(c)
  BY <1>1, <1>9, OwnLocals, ObservedReturns DEF AppendCommits, AppendFails, Fail, Throw, Return
<1> QED
  BY <1>2, <1>3, <1>4, <1>5, <1>6, <1>7, <1>8, <1>9 DEF Step

\* A running call goes on or ends, and never ends without an answer.
LEMMA StepLands ==
    ASSUME TypeOK, NEW c \in Calls, Step(c) \/ Fail(c)
    PROVE  pc'[c] # "idle" /\ (pc'[c] = "done" => reply'[c].code # "none")
<1> DEFINE Lands == pc'[c] # "idle" /\ (pc'[c] = "done" => reply'[c].code # "none")
<1>1. ASSUME NEW code, code # "none", NEW e, Answer(c, code, e)
      PROVE  Lands
  BY <1>1 DEF Answer, Goto, TypeOK
<1>2. ASSUME NEW label, label \notin {"idle", "done"}, NEW e, Continue(c, label, e)
      PROVE  Lands
  BY <1>2 DEF Continue, Goto, TypeOK
<1>3. CASE Load(c)
  <2>1. CASE Throw(c, "CONTINUATION_NOT_FOUND")
    BY <1>1, <2>1 DEF Throw
  <2>2. CASE Goto(c, "loaded")
    BY <2>2 DEF Goto, TypeOK
  <2> QED
    BY <1>3, <2>1, <2>2 DEF Load
<1>4. CASE ExpireCommits(c) \/ ExpireConflicts(c) \/ Reload(c)
  BY <1>1, <1>2, <1>4 DEF ExpireCommits, ExpireConflicts, Reload, Throw
<1>5. CASE CreateBegin(c) \/ InspectDecide(c) \/ InspectSettle(c)
  BY <1>1, <1>2, <1>5 DEF CreateBegin, InspectDecide, InspectSettle, EnterExpireIfDue, Throw, Return
<1>6. CASE ResumeDecide(c) \/ ResumeReresolve(c)
  BY <1>1, <1>2, <1>6 DEF ResumeDecide, ResumeReresolve, ResolveCompletedResume,
     EnterExpireIfDue, Throw, Return
<1>7. CASE ResumeSettle(c)
  BY <1>1, <1>2, <1>7 DEF ResumeSettle, Throw
<1>8. CASE CancelDecide(c) \/ CancelReresolve(c)
  BY <1>1, <1>2, <1>8 DEF CancelDecide, CancelReresolve, ResolveCompletedCancellation,
     EnterExpireIfDue, Throw, Return
<1>9. CASE CancelSettle(c)
  BY <1>1, <1>2, <1>9 DEF CancelSettle, ResolveCompletedCancellation, Throw, Return
<1>10. CASE AppendCommits(c) \/ AppendFails(c) \/ Observed(c) \/ Fail(c)
  BY <1>1, <1>2, <1>10, ObservedReturns DEF AppendCommits, AppendFails, Fail, Throw, Return
<1> QED
  BY <1>3, <1>4, <1>5, <1>6, <1>7, <1>8, <1>9, <1>10 DEF Step

\* A call that has committed stays so and keeps its request.
LEMMA CommittedStays ==
    ASSUME SafetyInv, [Next]_vars, NEW d \in Calls, Committed(d)
    PROVE  Committed(d)' /\ req'[d] = req[d]
<1>0. TypeOK
  BY DEF SafetyInv
<1>1. CASE Tick \/ UNCHANGED vars
  BY <1>1 DEF Tick, vars, Committed
<1>2. ASSUME NEW c \in Calls, NEW r \in Requests, Invoke(c, r)
      PROVE  Committed(d)' /\ req'[d] = req[d]
  BY <1>0, <1>2 DEF Invoke, Goto, Committed, TypeOK
<1>3. ASSUME NEW c \in Calls, Step(c) \/ Fail(c), c # d
      PROVE  Committed(d)' /\ req'[d] = req[d]
  BY <1>0, <1>3, StepFrame DEF Frame, Committed
<1>4. CASE Fail(d)
  BY <1>0, <1>4 DEF Fail, Throw, Answer, Goto, Committed, TypeOK
<1>5. CASE Step(d)
  <2>1. pc[d] = "observe"
    BY <1>0, <1>5, StepFrame DEF Committed
  <2>2. Observed(d)
    BY <1>5, <2>1 DEF Step, Load, ExpireCommits, ExpireConflicts, Reload, CreateBegin,
       InspectDecide, InspectSettle, ResumeDecide, ResumeSettle, ResumeReresolve, CancelDecide,
       CancelSettle, CancelReresolve, AppendCommits, AppendFails
  <2> QED
    BY <1>0, <2>2, ObservedReturns DEF Return, Answer, Goto, Committed, TypeOK
<1> QED
  BY <1>1, <1>2, <1>3, <1>4, <1>5 DEF Next

\* Every stream is as it was or longer, by a creation or by an ending.
LEMMA StreamsGrow ==
    ASSUME SafetyInv, SafetyInv', [Next]_vars, NEW id \in Ids
    PROVE  /\ WellFormed(streams[id], id)
           /\ WellFormed(streams'[id], id)
           /\ Grows(streams[id], streams'[id])
<1>1. WellFormed(streams[id], id)
  BY DEF SafetyInv, StreamInv
<1>2. WellFormed(streams'[id], id)
  BY DEF SafetyInv, StreamInv, WellFormed
<1>3. CASE streams'[id] = streams[id]
  BY <1>1, <1>2, <1>3 DEF Grows
<1>4. ASSUME NEW ev, streams'[id] = streams[id] \o <<ev>>
      PROVE  Grows(streams[id], streams'[id])
  <2> DEFINE s == streams[id]
             t == streams'[id]
  <2>1. WellFormed(s, id) /\ WellFormed(t, id) /\ t = s \o <<ev>>
    BY <1>1, <1>2, <1>4
  <2> HIDE DEF s, t
  <2>2. \/ Len(s) = 0
        \/ Len(s) = 1 /\ Len(t) = 2 /\ t[1] = s[1]
    <3> DEFINE m == Len(s)
               n == Len(t)
    <3>1. s \in Seq(ContinuationEvent) /\ n <= 2
      BY <2>1 DEF WellFormed
    <3>2. m \in Nat /\ n = m + 1
      BY <2>1, <3>1
    <3>3. m = 1 => t[1] = s[1]
      BY <2>1, <3>1
    <3>4. n <= 2
      BY <3>1
    <3> HIDE DEF m, n
    <3>5. m = 0 \/ (m = 1 /\ n = 2)
      BY <3>2, <3>4
    <3> QED
      BY <3>3, <3>5, Zenon DEF m, n
  <2>3. Grows(s, t)
    BY <2>2 DEF Grows
  <2> QED
    BY <2>3 DEF s, t
<1>5. \/ streams'[id] = streams[id]
      \/ \E ev : streams'[id] = streams[id] \o <<ev>>
  BY AppendOrSame DEF SafetyInv, TypeOK, StreamsType
<1> QED
  BY <1>1, <1>2, <1>3, <1>4, <1>5

\* What a call that has just committed its own append finds in its stream.
LEMMA CommitAuthor ==
    ASSUME SafetyInv, SafetyInv', NEW c \in Calls, AppendCommits(c)
    PROVE  /\ Id(c) \in Ids
           /\ \A other \in Ids \ {Id(c)} : streams'[other] = streams[other]
           /\ Committed(c)'
           /\ \/ /\ Len(streams'[Id(c)]) = 1
                 /\ Opened(c, streams[Id(c)], Id(c))'
              \/ /\ Len(streams[Id(c)]) = 1
                 /\ Len(streams'[Id(c)]) = 2
                 /\ streams'[Id(c)][1] = streams[Id(c)][1]
                 /\ Ended(c, streams[Id(c)], Id(c))'
<1> DEFINE s == streams[Id(c)]
           t == streams'[Id(c)]
           e == env'[c]
<1>1. /\ pc[c] = "append"
      /\ Len(s) = env[c].version
      /\ streams' = [streams EXCEPT ![Id(c)] = s \o <<DecisionEvent(c)>>]
      /\ Continue(c, "observe", ReduceContinuation(env[c], DecisionEvent(c)))
      /\ req' = req
  BY DEF AppendCommits, AppendAccepted
<1>2. /\ Id(c) \in Ids
      /\ WellFormed(s, Id(c))
      /\ RunInv(c, s)
      /\ req[c].op \in {"create", "inspect", "resume", "cancel"}
  BY <1>1, RequestFacts
<1>3. t = s \o <<DecisionEvent(c)>> /\ \A other \in Ids \ {Id(c)} : streams'[other] = streams[other]
  BY <1>1, <1>2 DEF SafetyInv, TypeOK, StreamsType
<1>4. pc'[c] = "observe"
  BY <1>1 DEF Continue, Goto, SafetyInv, TypeOK
<1>5. WellFormed(t, Id(c))
  BY <1>2 DEF SafetyInv, StreamInv, WellFormed
<1>6. Records(t, e) /\ Reports(c, env[c])'
  <2>1. (RunInv(c, streams[Id(c)]))'
    BY <1>4 DEF SafetyInv, CallInv, CallInvOf
  <2>2. streams'[Id(c)'] = t
    BY <1>1 DEF Id
  <2> QED
    BY <1>4, <2>1, <2>2 DEF RunInv, Holding, Records, Birth, Ending
<1>7. Committed(c)'
  BY <1>4 DEF Committed
<1>8. Id(c)' = Id(c)
  BY <1>1 DEF Id
<1> HIDE DEF s, t, e
<1>9. CASE req[c].op = "create"
  <2>1. env[c] = Missing
    BY <1>1, <1>2, <1>9 DEF RunInv
  <2>2. Len(s) = 0
    BY <1>1, <2>1 DEF Missing
  <2>3. Len(t) = 1
    BY <1>2, <1>3, <1>5, <2>2, LifeOfAppend
  <2>4. e.status = "pending" /\ e.resumeTokenHash = Hash(c)
    BY <1>1, <1>6, <1>9 DEF Reports, Hash, e
  <2>5. e = Birth(t)
    BY <1>2, <1>5, <1>6, <2>4, RecordFacts
  <2>6. t[1].resumeTokenHash = Hash(c)
    BY <1>2, <1>5, <2>3, <2>4, <2>5, RecordTypes
  <2>7. Opened(c, streams[Id(c)], Id(c))'
    BY <1>1, <1>7, <1>8, <1>9, <2>6 DEF Opened, Hash, t
  <2> QED
    BY <1>2, <1>3, <1>7, <2>3, <2>7 DEF t
<1>10. CASE req[c].op # "create"
  <2>1. Records(s, env[c]) /\ env[c].status = "pending" /\ req[c].op \in {"resume", "cancel"}
    BY <1>1, <1>2, <1>10 DEF RunInv
  <2>2. Len(s) = 1
    BY <1>1, <1>2, <2>1, RecordFacts
  <2>3. Len(t) = 2 /\ t[1] = s[1]
    <3>0. PICK ev : t = s \o <<ev>>
      BY <1>3
    <3>1. \/ Len(s) = 0
          \/ Len(s) = 1 /\ Len(t) = 2 /\ t[1] = s[1]
      BY <1>2, <1>5, <3>0, LifeOfAppend
    <3> QED
      BY <2>2, <3>1
  <2>4. /\ req[c].op = "resume" =>
             /\ e.status = "resumed"
             /\ e.idempotencyKey = req[c].idempotencyKey
             /\ e.resumePayload = req[c].resumePayload
        /\ req[c].op = "cancel" => e.status = "cancelled" /\ e.reason = req[c].reason
    BY <1>1, <1>6, <1>10 DEF Reports, e
  <2>5. e.status # "pending"
    BY <2>1, <2>4
  <2>6. e = Ending(t)
    BY <1>2, <1>5, <1>6, <2>5, RecordFacts
  <2>7. /\ e.status = t[2].type
        /\ t[2].type = "resumed" =>
             e.idempotencyKey = t[2].idempotencyKey /\ e.resumePayload = t[2].resumePayload
        /\ t[2].type = "cancelled" => e.reason = t[2].reason
    BY <1>2, <1>5, <2>3, <2>6, RecordTypes
  <2>8. Ended(c, streams[Id(c)], Id(c))'
    BY <1>1, <1>7, <1>8, <2>1, <2>4, <2>7 DEF Ended, t
  <2> QED
    BY <1>2, <1>3, <1>7, <2>2, <2>3, <2>8 DEF s, t
<1> QED
  BY <1>9, <1>10

\* The stream of an accepted expiry: the creation, and an ending nobody asked for.
LEMMA ExpiryAuthor ==
    ASSUME SafetyInv, SafetyInv', NEW c \in Calls, ExpireCommits(c)
    PROVE  /\ Id(c) \in Ids
           /\ \A other \in Ids \ {Id(c)} : streams'[other] = streams[other]
           /\ Len(streams[Id(c)]) = 1
           /\ streams'[Id(c)][1] = streams[Id(c)][1]
           /\ streams'[Id(c)][2].type = "expired"
<1> DEFINE s == streams[Id(c)]
           t == streams'[Id(c)]
           ev == ExpiredEvent(c)
<1>1. /\ pc[c] = "expire"
      /\ Len(s) = env[c].version
      /\ streams' = [streams EXCEPT ![Id(c)] = s \o <<ev>>]
  BY DEF ExpireCommits, AppendAccepted
<1>2. /\ Id(c) \in Ids
      /\ WellFormed(s, Id(c))
      /\ RunInv(c, s)
  BY <1>1, RequestFacts
<1>3. t = s \o <<ev>> /\ \A other \in Ids \ {Id(c)} : streams'[other] = streams[other]
  BY <1>1, <1>2 DEF SafetyInv, TypeOK, StreamsType
<1>4. Records(s, env[c]) /\ env[c].status = "pending"
  BY <1>1, <1>2 DEF RunInv, Holding
<1>5. Len(s) = 1
  BY <1>1, <1>2, <1>4, RecordFacts
<1>6. s \in Seq(ContinuationEvent)
  BY <1>2 DEF WellFormed
<1>7. ev.type = "expired"
  BY DEF ExpiredEvent
<1> HIDE DEF s, t, ev
<1>8. t[1] = s[1] /\ t[2] = ev
  <2> DEFINE S == ContinuationEvent \cup {ev}
  <2>1. s \in Seq(S) /\ ev \in S
    BY <1>6
  <2> HIDE DEF S
  <2>2. /\ \A i \in 1 .. Len(s) : t[i] = s[i]
        /\ t[Len(s) + 1] = ev
    BY <1>3, <2>1, ConcatOne
  <2> QED
    BY <1>5, <2>2
<1> QED
  BY <1>2, <1>3, <1>5, <1>7, <1>8 DEF s, t

\* Streams that a step leaves alone.
LEMMA OtherSteps ==
    ASSUME SafetyInv, [Next]_vars,
           \A c \in Calls : ~ AppendCommits(c) /\ ~ ExpireCommits(c)
    PROVE  UNCHANGED streams
<1>1. ASSUME NEW c \in Calls, Step(c)
      PROVE  UNCHANGED streams
  BY <1>1 DEF Step, Load, ExpireConflicts, Reload, CreateBegin, InspectDecide, InspectSettle,
     ResumeDecide, ResumeSettle, ResumeReresolve, CancelDecide, CancelSettle, CancelReresolve,
     AppendFails, AppendConflicts, Observed
<1> QED
  BY <1>1 DEF Next, Tick, Invoke, Fail, vars

\* Every step keeps the authors of what stands in the streams.
LEMMA AuthorStep ==
    ASSUME SafetyInv, SafetyInv', AuthorInv, [Next]_vars
    PROVE  AuthorInv'
<1> SUFFICES ASSUME NEW id \in Ids
             PROVE  /\ Len(streams'[id]) >= 1 => \E c \in Calls : Opened(c, streams[id], id)'
                    /\ (Len(streams'[id]) = 2 /\ streams'[id][2].type # "expired") =>
                          \E c \in Calls : Ended(c, streams[id], id)'
  BY DEF AuthorInv
<1>1. ASSUME NEW d \in Calls, Opened(d, streams[id], id), streams'[id][1] = streams[id][1]
      PROVE  Opened(d, streams[id], id)'
  BY <1>1, CommittedStays DEF Opened, Id, Hash
<1>2. ASSUME NEW d \in Calls, Ended(d, streams[id], id), streams'[id] = streams[id]
      PROVE  Ended(d, streams[id], id)'
  BY <1>2, CommittedStays DEF Ended, Id
<1>3. CASE streams'[id] = streams[id]
  BY <1>1, <1>2, <1>3 DEF AuthorInv
<1>4. ASSUME NEW c \in Calls, AppendCommits(c), streams'[id] # streams[id]
      PROVE  /\ Len(streams'[id]) >= 1 => \E d \in Calls : Opened(d, streams[id], id)'
             /\ (Len(streams'[id]) = 2 /\ streams'[id][2].type # "expired") =>
                   \E d \in Calls : Ended(d, streams[id], id)'
  <2>1. Id(c) = id /\ Id(c)' = id
    BY <1>4, CommitAuthor DEF AppendCommits, Id
  <2>2. CASE Len(streams'[id]) = 1 /\ Opened(c, streams[id], id)'
    BY <2>2
  <2>3. CASE /\ Len(streams[id]) = 1
             /\ streams'[id][1] = streams[id][1]
             /\ Ended(c, streams[id], id)'
    <3>1. PICK d \in Calls : Opened(d, streams[id], id)
      BY <2>3 DEF AuthorInv
    <3> QED
      BY <1>1, <2>3, <3>1
  <2> QED
    BY <1>4, <2>1, <2>2, <2>3, CommitAuthor DEF Opened, Ended
<1>5. ASSUME NEW c \in Calls, ExpireCommits(c), streams'[id] # streams[id]
      PROVE  /\ \E d \in Calls : Opened(d, streams[id], id)'
             /\ streams'[id][2].type = "expired"
  <2>1. /\ Len(streams[id]) = 1
        /\ streams'[id][1] = streams[id][1]
        /\ streams'[id][2].type = "expired"
    BY <1>5, ExpiryAuthor
  <2>2. PICK d \in Calls : Opened(d, streams[id], id)
    BY <2>1 DEF AuthorInv
  <2> QED
    BY <1>1, <2>1, <2>2
<1> QED
  BY <1>3, <1>4, <1>5, OtherSteps

-----------------------------------------------------------------------------
(* Refusals *)

\* What a stream bears out, it bears out when it has grown.
LEMMA BearsOutStays ==
    ASSUME NEW id \in Ids, NEW s, NEW t, WellFormed(s, id), WellFormed(t, id), Grows(s, t),
           NEW d, NEW code, NEW x, BearsOut(s, d, code, x), req'[d] = req[d]
    PROVE  BearsOut(t, d, code, x)'
<1>1. s # << >> => t # << >> /\ Head(t) = Head(s)
  <2>1. s \in Seq(ContinuationEvent) /\ t \in Seq(ContinuationEvent)
    BY DEF WellFormed
  <2>2. s # << >> => Len(s) >= 1
    BY <2>1
  <2> QED
    BY <2>1, <2>2 DEF Grows
<1>2. ReplayContinuation(s).status \in TerminalStatus =>
         ReplayContinuation(t) = ReplayContinuation(s)
  <2> SUFFICES ASSUME ReplayContinuation(s).status \in TerminalStatus
               PROVE  t = s
    OBVIOUS
  <2>1. ReplayContinuation(s) # Missing
    BY DEF Missing, TerminalStatus
  <2>2. Len(s) = 2
    BY <2>1, LoadFacts, RecordFacts DEF TerminalStatus
  <2> QED
    BY <2>2 DEF Grows
<1> DEFINE r == ReplayContinuation(s)
           q == ReplayContinuation(t)
<1> HIDE DEF r, q
<1> QED
  BY <1>1, <1>2 DEF BearsOut, TerminalStatus, Hash, r, q

\* The refusal of one call.
RefusalOf(c) == pc[c] = "done" => BearsOut(streams[Id(c)], c, reply[c].code, now[c])

\* The refusal of a call that takes no step stands.
LEMMA RefusalStays ==
    ASSUME SafetyInv, SafetyInv', [Next]_vars, NEW d \in Calls, RefusalOf(d),
           pc'[d] = pc[d], now'[d] = now[d], reply'[d] = reply[d],
           pc[d] = "done" => req'[d] = req[d]
    PROVE  RefusalOf(d)'
<1> SUFFICES ASSUME pc[d] = "done"
             PROVE  BearsOut(streams[Id(d)], d, reply[d].code, now[d])'
  BY DEF RefusalOf
<1> DEFINE s == streams[Id(d)]
           t == streams'[Id(d)]
<1>1. Id(d) \in Ids /\ Id(d)' = Id(d) /\ req'[d] = req[d]
  BY RequestFacts DEF Id
<1>2. WellFormed(s, Id(d)) /\ WellFormed(t, Id(d)) /\ Grows(s, t)
  BY <1>1, StreamsGrow
<1>3. BearsOut(s, d, reply[d].code, now[d])
  BY DEF RefusalOf
<1>4. ASSUME NEW u, u = t, NEW code, code = reply[d].code, NEW x, x = now[d]
      PROVE  BearsOut(u, d, code, x)'
  BY <1>1, <1>2, <1>3, <1>4, BearsOutStays
<1> QED
  BY <1>1, <1>4 DEF BearsOut

\* A call that answers with a code that its stream bears out.
LEMMA AnswerJustified ==
    ASSUME SafetyInv, NEW c \in Calls, pc[c] # "idle", NEW code, NEW e, Answer(c, code, e),
           UNCHANGED <<streams, req>>, BearsOut(streams[Id(c)], c, code, now'[c])
    PROVE  RefusalOf(c)'
<1>1. reply'[c].code = code
  BY DEF SafetyInv, TypeOK, Answer
<1>2. streams'[Id(c)'] = streams[Id(c)] /\ req'[c] = req[c]
  BY DEF Id
<1> QED
  BY <1>1, <1>2 DEF RefusalOf, BearsOut

\* These answers claim nothing of the stream.
LEMMA NoClaim ==
    ASSUME NEW s, NEW c, NEW t, NEW code \in {"ok", "failed", "CONTINUATION_NOT_FOUND"}
    PROVE  BearsOut(s, c, code, t)
BY DEF BearsOut

\* A terminal record is the newest one.
LEMMA TerminalIsLast ==
    ASSUME NEW id \in Ids, NEW s, WellFormed(s, id), NEW e, Records(s, e), e.status # "pending"
    PROVE  /\ ReplayContinuation(s) = e
           /\ e.status \in TerminalStatus
           /\ e.version = 2
BY RecordFacts, LoadFacts

\* A stream with a record is not empty.
LEMMA RecordedHead ==
    ASSUME NEW id \in Ids, NEW s, WellFormed(s, id), NEW e, Records(s, e)
    PROVE  s # << >> /\ Head(s) = s[1]
<1>1. Len(s) \in {1, 2} /\ s \in Seq(ContinuationEvent)
  BY RecordFacts DEF WellFormed
<1> QED
  BY <1>1, SMTT(30)

\* resolveCompletedResume refuses a request only for what the record says.
LEMMA ResolveResumeJustified ==
    ASSUME SafetyInv, NEW c \in Calls, pc[c] # "idle", req[c].op = "resume",
           NEW e, Records(streams[Id(c)], e), e.status = "resumed",
           ResolveCompletedResume(c, e), UNCHANGED <<streams, req, now>>
    PROVE  RefusalOf(c)'
<1> DEFINE s == streams[Id(c)]
<1>1. Id(c) \in Ids /\ WellFormed(s, Id(c))
  BY RequestFacts
<1>2. ReplayContinuation(s) = e
  BY <1>1, TerminalIsLast
<1>3. ASSUME NEW code, Throw(c, code), BearsOut(s, c, code, now[c])
      PROVE  RefusalOf(c)'
  BY <1>3, AnswerJustified DEF Throw
<1>4. CASE e.idempotencyKey # req[c].idempotencyKey
  <2>1. BearsOut(s, c, "TOKEN_ALREADY_USED", now[c])
    BY <1>2, <1>4 DEF BearsOut
  <2> QED
    BY <1>3, <1>4, <2>1 DEF ResolveCompletedResume
<1>5. CASE e.idempotencyKey = req[c].idempotencyKey /\ e.resumePayload # req[c].resumePayload
  <2>1. BearsOut(s, c, "IDEMPOTENCY_CONFLICT", now[c])
    BY <1>2, <1>5 DEF BearsOut
  <2> QED
    BY <1>3, <1>5, <2>1 DEF ResolveCompletedResume
<1>6. CASE e.idempotencyKey = req[c].idempotencyKey /\ e.resumePayload = req[c].resumePayload
  <2>1. Answer(c, "ok", e)
    BY <1>6 DEF ResolveCompletedResume, Return
  <2> QED
    BY <2>1, AnswerJustified, NoClaim
<1> QED
  BY <1>4, <1>5, <1>6

\* resolveCompletedCancellation refuses a request only for what the record says.
LEMMA ResolveCancellationJustified ==
    ASSUME SafetyInv, NEW c \in Calls, pc[c] # "idle", req[c].op = "cancel",
           NEW e, Records(streams[Id(c)], e), e.status = "cancelled",
           ResolveCompletedCancellation(c, e), UNCHANGED <<streams, req, now>>
    PROVE  RefusalOf(c)'
<1> DEFINE s == streams[Id(c)]
<1>1. Id(c) \in Ids /\ WellFormed(s, Id(c)) /\ req[c] \in Request
  BY RequestFacts
<1>2. ReplayContinuation(s) = e /\ e.version = 2
  BY <1>1, TerminalIsLast
<1>3. ASSUME NEW code, Throw(c, code), BearsOut(s, c, code, now[c])
      PROVE  RefusalOf(c)'
  BY <1>3, AnswerJustified DEF Throw
<1>4. CASE e.reason # req[c].reason
  <2>1. BearsOut(s, c, "INVALID_TRANSITION", now[c])
    BY <1>2, <1>4 DEF BearsOut
  <2> QED
    BY <1>3, <1>4, <2>1 DEF ResolveCompletedCancellation
<1>5. CASE /\ e.reason = req[c].reason
           /\ req[c].expectedVersion # Undefined /\ e.version # req[c].expectedVersion + 1
  <2>1. req[c].expectedVersion \notin {Undefined, 1}
    BY <1>2, <1>5
  <2>2. BearsOut(s, c, "VERSION_CONFLICT", now[c])
    BY <2>1 DEF BearsOut
  <2> QED
    BY <1>3, <1>5, <2>2 DEF ResolveCompletedCancellation
<1>6. CASE /\ e.reason = req[c].reason
           /\ ~(req[c].expectedVersion # Undefined /\ e.version # req[c].expectedVersion + 1)
  <2>1. Answer(c, "ok", e)
    BY <1>6 DEF ResolveCompletedCancellation, Return
  <2> QED
    BY <2>1, AnswerJustified, NoClaim
<1> QED
  BY <1>4, <1>5, <1>6

\* resume refuses a token that is not the stream's, or reports what is recorded.
LEMMA ResumeDecideJustified ==
    ASSUME SafetyInv, NEW c \in Calls, ResumeDecide(c)
    PROVE  RefusalOf(c)'
<1> DEFINE s == streams[Id(c)]
<1>1. /\ pc[c] = "loaded"
      /\ req[c].op = "resume"
      /\ UNCHANGED <<streams, req>>
  BY DEF ResumeDecide
<1>2. Id(c) \in Ids /\ WellFormed(s, Id(c)) /\ RunInv(c, s)
  BY <1>1, RequestFacts
<1>3. Records(s, env[c]) /\ tokenHash[c] = s[1].resumeTokenHash
  BY <1>1, <1>2 DEF RunInv, Holding
<1>4. CASE tokenHash[c] # Hash(req[c].resumeToken) /\ Throw(c, "TOKEN_MISMATCH")
  <2>1. BearsOut(s, c, "TOKEN_MISMATCH", now'[c])
    BY <1>1, <1>2, <1>3, <1>4, RecordedHead DEF BearsOut
  <2> QED
    BY <1>1, <1>4, <2>1, AnswerJustified DEF Throw
<1>5. CASE env[c].status = "resumed" /\ ResolveCompletedResume(c, env[c]) /\ UNCHANGED now
  BY <1>1, <1>3, <1>5, ResolveResumeJustified
<1>6. CASE EnterExpireIfDue(c)
  BY <1>6 DEF EnterExpireIfDue, Continue, Goto, RefusalOf, SafetyInv, TypeOK
<1> QED
  BY <1>4, <1>5, <1>6 DEF ResumeDecide

\* requireResumable names the ending that the stream records.
LEMMA ResumeSettleJustified ==
    ASSUME SafetyInv, NEW c \in Calls, ResumeSettle(c)
    PROVE  RefusalOf(c)'
<1> DEFINE s == streams[Id(c)]
<1>1. /\ pc[c] = "settle"
      /\ req[c].op = "resume"
      /\ UNCHANGED <<streams, req>>
  BY DEF ResumeSettle
<1>2. Id(c) \in Ids /\ WellFormed(s, Id(c)) /\ RunInv(c, s)
  BY <1>1, RequestFacts
<1>3. Records(s, env[c]) /\ (env[c].status = "resumed" => now[c] >= env[c].expiresAt)
  BY <1>1, <1>2 DEF RunInv, Holding
<1>4. env[c].status # "pending" => ReplayContinuation(s) = env[c]
  BY <1>2, <1>3, TerminalIsLast
<1>5. ASSUME NEW code, Throw(c, code), BearsOut(s, c, code, now'[c])
      PROVE  RefusalOf(c)'
  BY <1>1, <1>5, AnswerJustified DEF Throw
<1>6. CASE env[c].status = "expired" /\ Throw(c, "CONTINUATION_EXPIRED")
  BY <1>4, <1>5, <1>6 DEF BearsOut
<1>7. CASE env[c].status = "cancelled" /\ Throw(c, "CONTINUATION_CANCELLED")
  BY <1>1, <1>4, <1>5, <1>7 DEF BearsOut
<1>8. CASE env[c].status = "resumed" /\ Throw(c, "TOKEN_ALREADY_USED") /\ UNCHANGED now
  BY <1>1, <1>3, <1>4, <1>5, <1>8 DEF BearsOut
<1>9. CASE Continue(c, "append", env[c])
  BY <1>9 DEF Continue, Goto, RefusalOf, SafetyInv, TypeOK
<1> QED
  BY <1>6, <1>7, <1>8, <1>9 DEF ResumeSettle

\* After a lost race resume names what won it.
LEMMA ResumeReresolveJustified ==
    ASSUME SafetyInv, NEW c \in Calls, ResumeReresolve(c)
    PROVE  RefusalOf(c)'
<1> DEFINE s == streams[Id(c)]
           current == ReplayContinuation(s)
<1>1. /\ pc[c] = "reresolve"
      /\ req[c].op = "resume"
      /\ UNCHANGED <<streams, req, now>>
  BY DEF ResumeReresolve
<1>2. Id(c) \in Ids /\ WellFormed(s, Id(c)) /\ RunInv(c, s)
  BY <1>1, RequestFacts
<1>3. Len(s) = 2 /\ Records(s, env[c])
  BY <1>1, <1>2 DEF RunInv, Holding
<1>4. /\ Records(s, current)
      /\ current.status \in TerminalStatus
  <2>1. current = Ending(s)
    BY <1>2, <1>3, LoadFacts
  <2>2. Records(s, current)
    BY <1>3, <2>1 DEF Records
  <2> QED
    BY <1>2, <1>3, <2>1, <2>2, RecordTypes
<1>5. ASSUME NEW code, Throw(c, code), BearsOut(s, c, code, now'[c])
      PROVE  RefusalOf(c)'
  BY <1>1, <1>5, AnswerJustified DEF Throw
<1>6. CASE Throw(c, "CONTINUATION_NOT_FOUND")
  BY <1>5, <1>6, NoClaim
<1>7. CASE /\ Head(s).resumeTokenHash # Hash(req[c].resumeToken)
           /\ Throw(c, "TOKEN_MISMATCH")
  <2>1. BearsOut(s, c, "TOKEN_MISMATCH", now'[c])
    BY <1>1, <1>2, <1>3, <1>7, RecordedHead DEF BearsOut
  <2> QED
    BY <1>5, <1>7, <2>1
<1>8. CASE current.status = "resumed" /\ ResolveCompletedResume(c, current)
  BY <1>1, <1>4, <1>8, ResolveResumeJustified
<1>9. CASE current.status # "resumed" /\ Throw(c, "VERSION_CONFLICT")
  <2>1. BearsOut(s, c, "VERSION_CONFLICT", now'[c])
    BY <1>1, <1>4, <1>9 DEF BearsOut, TerminalStatus
  <2> QED
    BY <1>5, <1>9, <2>1
<1> HIDE DEF current
<1> QED
  BY <1>6, <1>7, <1>8, <1>9 DEF ResumeReresolve, current

\* cancel reports a recorded cancellation or goes on.
LEMMA CancelDecideJustified ==
    ASSUME SafetyInv, NEW c \in Calls, CancelDecide(c)
    PROVE  RefusalOf(c)'
<1>1. /\ pc[c] = "loaded"
      /\ req[c].op = "cancel"
      /\ UNCHANGED <<streams, req>>
  BY DEF CancelDecide
<1>2. Records(streams[Id(c)], env[c])
  BY <1>1, RequestFacts DEF RunInv, Holding
<1>3. CASE /\ env[c].status = "cancelled"
           /\ ResolveCompletedCancellation(c, env[c])
           /\ UNCHANGED now
  BY <1>1, <1>2, <1>3, ResolveCancellationJustified
<1>4. CASE EnterExpireIfDue(c)
  BY <1>4 DEF EnterExpireIfDue, Continue, Goto, RefusalOf, SafetyInv, TypeOK
<1> QED
  BY <1>3, <1>4 DEF CancelDecide

\* cancel names the ending it met, or the version it was told not to meet.
LEMMA CancelSettleJustified ==
    ASSUME SafetyInv, NEW c \in Calls, CancelSettle(c)
    PROVE  RefusalOf(c)'
<1> DEFINE s == streams[Id(c)]
<1>1. /\ pc[c] = "settle"
      /\ req[c].op = "cancel"
      /\ UNCHANGED <<streams, req, now>>
  BY DEF CancelSettle
<1>2. Id(c) \in Ids /\ WellFormed(s, Id(c)) /\ RunInv(c, s)
  BY <1>1, RequestFacts
<1>3. Records(s, env[c])
  BY <1>1, <1>2 DEF RunInv, Holding
<1>4. /\ env[c].status # "pending" => ReplayContinuation(s) = env[c]
      /\ env[c].status = "pending" => env[c].version = 1
  BY <1>2, <1>3, TerminalIsLast, RecordFacts
<1>5. ASSUME NEW code, Throw(c, code), BearsOut(s, c, code, now'[c])
      PROVE  RefusalOf(c)'
  BY <1>1, <1>5, AnswerJustified DEF Throw
<1>6. CASE env[c].status = "cancelled" /\ ResolveCompletedCancellation(c, env[c])
  BY <1>1, <1>3, <1>6, ResolveCancellationJustified
<1>7. CASE env[c].status = "expired" /\ Throw(c, "CONTINUATION_EXPIRED")
  BY <1>4, <1>5, <1>7 DEF BearsOut
<1>8. CASE env[c].status = "resumed" /\ Throw(c, "INVALID_TRANSITION")
  BY <1>1, <1>4, <1>5, <1>8 DEF BearsOut
<1>9. CASE /\ env[c].status = "pending"
           /\ req[c].expectedVersion \notin {Undefined, env[c].version}
           /\ Throw(c, "VERSION_CONFLICT")
  BY <1>1, <1>4, <1>5, <1>9 DEF BearsOut
<1>10. CASE Continue(c, "append", env[c])
  BY <1>10 DEF Continue, Goto, RefusalOf, SafetyInv, TypeOK
<1> QED
  BY <1>6, <1>7, <1>8, <1>9, <1>10 DEF CancelSettle

\* After a lost race cancel names what won it.
LEMMA CancelReresolveJustified ==
    ASSUME SafetyInv, NEW c \in Calls, CancelReresolve(c)
    PROVE  RefusalOf(c)'
<1> DEFINE s == streams[Id(c)]
           current == ReplayContinuation(s)
<1>1. /\ pc[c] = "reresolve"
      /\ req[c].op = "cancel"
      /\ UNCHANGED <<streams, req, now>>
  BY DEF CancelReresolve
<1>2. Id(c) \in Ids /\ WellFormed(s, Id(c)) /\ RunInv(c, s)
  BY <1>1, RequestFacts
<1>3. Len(s) = 2
  BY <1>1, <1>2 DEF RunInv
<1>4. /\ Records(s, current)
      /\ current.status \in TerminalStatus
  <2>1. current = Ending(s)
    BY <1>2, <1>3, LoadFacts
  <2>2. Records(s, current)
    BY <1>3, <2>1 DEF Records
  <2> QED
    BY <1>2, <1>3, <2>1, <2>2, RecordTypes
<1>5. ASSUME NEW code, Throw(c, code), BearsOut(s, c, code, now'[c])
      PROVE  RefusalOf(c)'
  BY <1>1, <1>5, AnswerJustified DEF Throw
<1>6. CASE Throw(c, "CONTINUATION_NOT_FOUND")
  BY <1>5, <1>6, NoClaim
<1>7. CASE current.status = "cancelled" /\ ResolveCompletedCancellation(c, current)
  BY <1>1, <1>4, <1>7, ResolveCancellationJustified
<1>8. CASE current.status = "expired" /\ Throw(c, "CONTINUATION_EXPIRED")
  BY <1>5, <1>8 DEF BearsOut
<1>9. CASE current.status \notin {"cancelled", "expired"} /\ Throw(c, "VERSION_CONFLICT")
  <2>1. BearsOut(s, c, "VERSION_CONFLICT", now'[c])
    BY <1>1, <1>4, <1>9 DEF BearsOut, TerminalStatus
  <2> QED
    BY <1>5, <1>9, <2>1
<1> HIDE DEF current
<1> QED
  BY <1>6, <1>7, <1>8, <1>9 DEF CancelReresolve, current

\* A create that meets a stream meets another call's: nobody else issues its token.
LEMMA AppendFailsJustified ==
    ASSUME SafetyInv, AuthorInv, NEW c \in Calls, AppendFails(c)
    PROVE  RefusalOf(c)'
<1> DEFINE s == streams[Id(c)]
<1>1. /\ pc[c] = "append"
      /\ Len(s) # env[c].version
      /\ UNCHANGED <<streams, req, now>>
  BY DEF AppendFails, AppendConflicts
<1>2. Id(c) \in Ids /\ WellFormed(s, Id(c)) /\ RunInv(c, s) /\ Len(s) \in {0, 1, 2}
  BY <1>1, RequestFacts, RecordTypes
<1>3. CASE req[c].op = "create"
  <2>1. Len(s) >= 1
    BY <1>1, <1>2, <1>3 DEF RunInv, Missing
  <2>2. PICK d \in Calls : Opened(d, s, Id(c))
    BY <1>2, <2>1 DEF AuthorInv
  <2>3. d # c
    BY <1>1, <2>2 DEF Opened, Committed
  <2>4. s # << >> /\ Head(s) = s[1]
    <3>1. s \in Seq(ContinuationEvent)
      BY <1>2 DEF WellFormed
    <3> QED
      BY <2>1, <3>1
  <2>5. s[1].resumeTokenHash # Hash(c)
    BY <2>2, <2>3 DEF Opened, Hash
  <2>6. BearsOut(s, c, "VERSION_CONFLICT", now'[c])
    BY <1>3, <2>4, <2>5 DEF BearsOut
  <2> QED
    BY <1>1, <1>3, <2>6, AnswerJustified DEF AppendFails, Throw
<1>4. CASE req[c].op # "create"
  BY <1>4 DEF AppendFails, Continue, Goto, RefusalOf, SafetyInv, TypeOK
<1> QED
  BY <1>3, <1>4

\* create refuses an expiry that is not later than the clock it read.
LEMMA CreateBeginJustified ==
    ASSUME SafetyInv, NEW c \in Calls, CreateBegin(c)
    PROVE  RefusalOf(c)'
<1>1. /\ pc[c] = "begin"
      /\ req[c].op = "create"
      /\ UNCHANGED <<streams, req>>
      /\ now'[c] = clock
  BY DEF CreateBegin, ReadClock, SafetyInv, TypeOK
<1>2. CASE req[c].expiresAt <= clock /\ Throw(c, "RANGE_ERROR")
  <2>1. BearsOut(streams[Id(c)], c, "RANGE_ERROR", now'[c])
    BY <1>1, <1>2 DEF BearsOut
  <2> QED
    BY <1>1, <1>2, <2>1, AnswerJustified DEF Throw
<1>3. CASE Continue(c, "append", Missing)
  BY <1>3 DEF Continue, Goto, RefusalOf, SafetyInv, TypeOK
<1> QED
  BY <1>2, <1>3 DEF CreateBegin

\* Whatever a call does, what it has answered by then is borne out.
LEMMA OwnRefusal ==
    ASSUME SafetyInv, AuthorInv, NEW c \in Calls, Step(c) \/ Fail(c)
    PROVE  RefusalOf(c)'
<1>1. ASSUME NEW label \in PC \ {"done"}, NEW e, Continue(c, label, e)
      PROVE  RefusalOf(c)'
  BY <1>1 DEF Continue, Goto, RefusalOf, SafetyInv, TypeOK
<1>2. ASSUME pc[c] # "idle", NEW code \in {"ok", "failed", "CONTINUATION_NOT_FOUND"}, NEW e,
             Answer(c, code, e), UNCHANGED <<streams, req>>
      PROVE  RefusalOf(c)'
  BY <1>2, AnswerJustified, NoClaim
<1>3. CASE Load(c)
  <2>1. CASE Throw(c, "CONTINUATION_NOT_FOUND")
    BY <1>2, <1>3, <2>1 DEF Load, Throw
  <2>2. CASE Goto(c, "loaded")
    BY <2>2 DEF Goto, RefusalOf, SafetyInv, TypeOK
  <2> QED
    BY <1>3, <2>1, <2>2 DEF Load
<1>4. CASE Reload(c)
  BY <1>1, <1>2, <1>4 DEF Reload, Throw, PC
<1>5. CASE InspectSettle(c) \/ Observed(c) \/ Fail(c)
  BY <1>2, <1>5, ObservedReturns DEF InspectSettle, Fail, Throw, Return
<1>6. CASE InspectDecide(c) \/ ExpireCommits(c) \/ ExpireConflicts(c) \/ AppendCommits(c)
  BY <1>1, <1>6 DEF InspectDecide, EnterExpireIfDue, ExpireCommits, ExpireConflicts,
     AppendCommits, PC
<1> QED
  BY <1>3, <1>4, <1>5, <1>6, CreateBeginJustified, ResumeDecideJustified, ResumeSettleJustified,
     ResumeReresolveJustified, CancelDecideJustified, CancelSettleJustified,
     CancelReresolveJustified, AppendFailsJustified DEF Step

\* Every step keeps every refusal.
LEMMA RefusalStep ==
    ASSUME SafetyInv, SafetyInv', AuthorInv, [Next]_vars, NEW d \in Calls, RefusalOf(d)
    PROVE  RefusalOf(d)'
<1>0. TypeOK
  BY DEF SafetyInv
<1>1. CASE Tick \/ UNCHANGED vars
  BY <1>1, RefusalStays DEF Tick, vars
<1>2. ASSUME NEW c \in Calls, NEW r \in Requests, Invoke(c, r)
      PROVE  RefusalOf(d)'
  <2>1. CASE d = c
    BY <1>0, <1>2, <2>1 DEF Invoke, Goto, RefusalOf, TypeOK
  <2>2. CASE d # c
    <3>1. /\ pc'[d] = pc[d] /\ now'[d] = now[d] /\ reply'[d] = reply[d]
          /\ req'[d] = req[d]
      BY <1>0, <1>2, <2>2 DEF Invoke, Goto, TypeOK
    <3> QED
      BY <3>1, RefusalStays
  <2> QED
    BY <2>1, <2>2
<1>3. ASSUME NEW c \in Calls, Step(c) \/ Fail(c)
      PROVE  RefusalOf(d)'
  <2>1. CASE d = c
    BY <1>3, <2>1, OwnRefusal
  <2>2. CASE d # c
    <3>1. /\ pc'[d] = pc[d] /\ now'[d] = now[d] /\ reply'[d] = reply[d]
          /\ req'[d] = req[d]
      BY <1>0, <1>3, <2>2, StepFrame DEF Frame
    <3> QED
      BY <3>1, RefusalStays
  <2> QED
    BY <2>1, <2>2
<1> QED
  BY <1>1, <1>2, <1>3 DEF Next

\* Nothing stands in a stream that a refused or running call put there: every event
\* but an expiry has a committed call that asked for exactly it.
THEOREM OnlyCommittedCallsWrite == Spec => []AuthorInv
<1>1. Init => AuthorInv
  <2> SUFFICES ASSUME Init PROVE AuthorInv
    OBVIOUS
  <2>1. \A id \in Ids : Len(streams[id]) = 0
    BY DEF Init, StoreInit
  <2>2. ASSUME NEW id \in Ids
        PROVE  ~(Len(streams[id]) >= 1) /\ Len(streams[id]) # 2
    <3> DEFINE n == Len(streams[id])
    <3>1. n = 0
      BY <2>1
    <3> HIDE DEF n
    <3>2. ~(n >= 1) /\ n # 2
      BY <3>1
    <3> QED
      BY <3>2 DEF n
  <2> QED
    BY <2>2 DEF AuthorInv
<1>2. SafetyInv /\ SafetyInv' /\ AuthorInv /\ [Next]_vars => AuthorInv'
  BY AuthorStep
<1> QED
  BY Safety, <1>1, <1>2, PTL DEF Spec

\* A call is told that there is no such continuation only if there is none.
LEMMA NotFoundIsEmpty ==
    ASSUME SafetyInv, NEW c \in Calls, Step(c) \/ Fail(c),
           reply'[c].code = "CONTINUATION_NOT_FOUND"
    PROVE  Len(streams[Id(c)]) = 0
<1> DEFINE s == streams[Id(c)]
<1>1. TypeOK /\ pc[c] \notin {"idle", "done"}
  BY StepFrame DEF SafetyInv
<1>2. Id(c) \in Ids /\ WellFormed(s, Id(c)) /\ reply[c].code = "none"
  BY <1>1, RequestFacts DEF SafetyInv, CallInv, CallInvOf, NoReply
<1>3. ASSUME NEW code, code # "CONTINUATION_NOT_FOUND", NEW e, Answer(c, code, e)
      PROVE  FALSE
  BY <1>1, <1>3 DEF Answer, TypeOK
<1>4. ASSUME UNCHANGED reply PROVE FALSE
  BY <1>2, <1>4
<1>5. ASSUME NEW label, NEW e, Continue(c, label, e) PROVE FALSE
  BY <1>4, <1>5 DEF Continue
<1>6. ASSUME ReplayContinuation(s) = Missing PROVE Len(s) = 0
  BY <1>2, <1>6, LoadFacts
<1>7. CASE Load(c)
  BY <1>4, <1>6, <1>7 DEF Load
<1>8. CASE Reload(c)
  BY <1>5, <1>6, <1>8 DEF Reload
<1>9. CASE ExpireCommits(c) \/ ExpireConflicts(c)
  BY <1>5, <1>9 DEF ExpireCommits, ExpireConflicts
<1>10. CASE CreateBegin(c) \/ InspectDecide(c) \/ InspectSettle(c)
  BY <1>3, <1>5, <1>10 DEF CreateBegin, InspectDecide, InspectSettle, EnterExpireIfDue,
     Throw, Return
<1>11. CASE ResumeDecide(c) \/ ResumeSettle(c)
  BY <1>3, <1>5, <1>11 DEF ResumeDecide, ResumeSettle, ResolveCompletedResume,
     EnterExpireIfDue, Throw, Return
<1>12. CASE ResumeReresolve(c)
  BY <1>3, <1>6, <1>12 DEF ResumeReresolve, ResolveCompletedResume, Throw, Return
<1>13. CASE CancelDecide(c) \/ CancelSettle(c)
  BY <1>3, <1>5, <1>13 DEF CancelDecide, CancelSettle, ResolveCompletedCancellation,
     EnterExpireIfDue, Throw, Return
<1>14. CASE CancelReresolve(c)
  BY <1>3, <1>6, <1>14 DEF CancelReresolve, ResolveCompletedCancellation, Throw, Return
<1>15. CASE AppendCommits(c) \/ AppendFails(c) \/ Observed(c) \/ Fail(c)
  BY <1>3, <1>5, <1>15, ObservedReturns DEF AppendCommits, AppendFails, Fail, Throw, Return
<1> QED
  BY <1>7, <1>8, <1>9, <1>10, <1>11, <1>12, <1>13, <1>14, <1>15 DEF Step

\* A resume with a token that is not forged has it from a create that returned it, and
\* is told that there is no continuation only about another one than that created.
HolderOf(c) ==
    LET t == req[c].resumeToken IN
    (pc[c] # "idle" /\ req[c].op = "resume" /\ t # ForgedToken) =>
        /\ t \in Calls
        /\ pc[t] = "done" /\ reply[t].code = "ok" /\ req[t].op = "create"
        /\ reply[c].code = "CONTINUATION_NOT_FOUND" => Id(t) # Id(c)

HolderInv == \A c \in Calls : HolderOf(c)

\* A call that is through stays as it is.
LEMMA DoneStays ==
    ASSUME TypeOK, [Next]_vars, NEW t \in Calls, pc[t] = "done"
    PROVE  pc'[t] = pc[t] /\ reply'[t] = reply[t] /\ req'[t] = req[t]
<1>1. CASE Tick \/ UNCHANGED vars
  BY <1>1 DEF Tick, vars
<1>2. ASSUME NEW c \in Calls, NEW r \in Requests, Invoke(c, r)
      PROVE  pc'[t] = pc[t] /\ reply'[t] = reply[t] /\ req'[t] = req[t]
  BY <1>2 DEF Invoke, Goto, TypeOK
<1>3. ASSUME NEW c \in Calls, Step(c) \/ Fail(c)
      PROVE  pc'[t] = pc[t] /\ reply'[t] = reply[t] /\ req'[t] = req[t]
  BY <1>3, StepFrame DEF Frame
<1> QED
  BY <1>1, <1>2, <1>3 DEF Next

\* Every step keeps the holders of tokens.
LEMMA HolderStep ==
    ASSUME SafetyInv, CreateIsExclusive, [Next]_vars, NEW d \in Calls, HolderOf(d)
    PROVE  HolderOf(d)'
<1> DEFINE t == req[d].resumeToken
<1>0. TypeOK
  BY DEF SafetyInv
<1>1. ASSUME pc'[d] # "idle" => pc[d] # "idle", req'[d] = req[d],
             reply'[d].code = "CONTINUATION_NOT_FOUND" =>
                 \/ reply[d].code = "CONTINUATION_NOT_FOUND"
                 \/ Len(streams[Id(d)]) = 0
      PROVE  HolderOf(d)'
  <2> SUFFICES ASSUME pc[d] # "idle", req[d].op = "resume", t # ForgedToken
               PROVE  /\ t \in Calls
                      /\ pc'[t] = "done" /\ reply'[t].code = "ok" /\ req'[t].op = "create"
                      /\ reply'[d].code = "CONTINUATION_NOT_FOUND" => Id(t)' # Id(d)'
    BY <1>1 DEF HolderOf
  <2>1. /\ t \in Calls
        /\ pc[t] = "done" /\ reply[t].code = "ok" /\ req[t].op = "create"
        /\ reply[d].code = "CONTINUATION_NOT_FOUND" => Id(t) # Id(d)
    BY DEF HolderOf
  <2>2. pc'[t] = pc[t] /\ reply'[t] = reply[t] /\ req'[t] = req[t]
    BY <1>0, <2>1, DoneStays
  <2>3. Id(t)' = Id(t) /\ Id(d)' = Id(d)
    BY <1>1, <2>2 DEF Id
  <2>4. streams[Id(t)] # << >> /\ WellFormed(streams[Id(t)], Id(t))
    BY <2>1, RequestFacts DEF CreateIsExclusive
  <2>5. Len(streams[Id(t)]) # 0
    BY <2>4 DEF WellFormed
  <2> QED
    BY <1>1, <2>1, <2>2, <2>3, <2>5
<1>2. CASE Tick \/ UNCHANGED vars
  BY <1>1, <1>2 DEF Tick, vars
<1>3. ASSUME NEW c \in Calls, NEW r \in Requests, Invoke(c, r)
      PROVE  HolderOf(d)'
  <2>1. CASE d = c
    <3>1. /\ pc[d] = "idle" /\ req'[d] = r /\ reply' = reply
          /\ r.op = "resume" => r.resumeToken \in DeliveredTokens \cup {ForgedToken}
      BY <1>0, <1>3, <2>1 DEF Invoke, TypeOK
    <3>2. reply[d].code = "none"
      BY <3>1 DEF SafetyInv, CallInv, CallInvOf, NoReply
    <3> SUFFICES ASSUME r.op = "resume", r.resumeToken # ForgedToken
                 PROVE  /\ r.resumeToken \in Calls
                        /\ pc'[r.resumeToken] = "done" /\ reply'[r.resumeToken].code = "ok"
                        /\ req'[r.resumeToken].op = "create"
      BY <3>1, <3>2 DEF HolderOf
    <3>3. /\ r.resumeToken \in Calls
          /\ req[r.resumeToken].op = "create" /\ reply[r.resumeToken].code = "ok"
      BY <3>1 DEF DeliveredTokens
    <3>4. pc[r.resumeToken] = "done"
      BY <3>3 DEF SafetyInv, CallInv, CallInvOf, NoReply
    <3> QED
      BY <1>0, <3>3, <3>4, DoneStays
  <2>2. CASE d # c
    BY <1>0, <1>1, <1>3, <2>2 DEF Invoke, Goto, TypeOK
  <2> QED
    BY <2>1, <2>2
<1>4. ASSUME NEW c \in Calls, Step(c) \/ Fail(c)
      PROVE  HolderOf(d)'
  <2>1. CASE d = c
    BY <1>0, <1>1, <1>4, <2>1, StepFrame, NotFoundIsEmpty
  <2>2. CASE d # c
    BY <1>0, <1>1, <1>4, <2>2, StepFrame DEF Frame
  <2> QED
    BY <2>1, <2>2
<1> QED
  BY <1>2, <1>3, <1>4 DEF Next

\* The token of a stream was issued by the call that opened it, about that stream.
LEMMA NotFoundJustified ==
    ASSUME SafetyInv, AuthorInv, HolderInv, NEW c \in Calls, pc[c] = "done",
           reply[c].code = "CONTINUATION_NOT_FOUND"
    PROVE  ~ HoldsToken(c)
<1> SUFFICES ASSUME HoldsToken(c) PROVE FALSE
  OBVIOUS
<1> DEFINE s == streams[Id(c)]
<1>1. Id(c) \in Ids /\ WellFormed(s, Id(c)) /\ s # << >>
  BY RequestFacts DEF HoldsToken
<1>2. Len(s) >= 1 /\ Head(s) = s[1]
  BY <1>1 DEF WellFormed
<1>3. PICK d \in Calls : Opened(d, s, Id(c))
  BY <1>1, <1>2 DEF AuthorInv
<1>4. Hash(d) = Hash(req[c].resumeToken)
  BY <1>2, <1>3 DEF HoldsToken, Opened
<1>5. d = req[c].resumeToken /\ Id(d) = Id(c)
  BY <1>3, <1>4 DEF Hash, Opened
<1>6. d # ForgedToken
  BY ServiceAssumption
<1> QED
  BY <1>5, <1>6 DEF HolderInv, HolderOf, HoldsToken

\* Every error a method throws after its races is true of the stream, for good,
\* with any number of calls and any clock; and the holder of a token is never told
\* that there is no such continuation.
THEOREM RefusalsJustified == Spec => []RefusalsAreJustified
<1> DEFINE Borne == \A c \in Calls : RefusalOf(c)
<1>1. Init => Borne /\ HolderInv
  BY DEF Init, RefusalOf, HolderInv, HolderOf
<1>2. SafetyInv /\ SafetyInv' /\ AuthorInv /\ Borne /\ [Next]_vars => Borne'
  BY RefusalStep
<1>3. SafetyInv /\ CreateIsExclusive /\ HolderInv /\ [Next]_vars => HolderInv'
  BY HolderStep DEF HolderInv
<1>4. SafetyInv /\ AuthorInv /\ Borne /\ HolderInv => RefusalsAreJustified
  BY NotFoundJustified DEF RefusalsAreJustified, RefusalOf
<1> HIDE DEF Borne
<1> QED
  BY Safety, OnlyCommittedCallsWrite, CreateExclusive, <1>1, <1>2, <1>3, <1>4, PTL DEF Spec

-----------------------------------------------------------------------------
(* Exact retries *)

\* An exact retry that began when the ending was on record: it has not looked
\* yet, holds that ending, or is through.
OnRetry(c) ==
    /\ IsExactRetry(c)
    /\ pc[c] \in {"begin", "loaded", "done"}
    /\ pc[c] = "loaded" => env[c] = Recorded(Id(c))
    /\ reply[c].code \in {"none", "failed", "ok"}

\* What a retry asks for is the second and last event of its stream.
LEMMA RetryFacts ==
    ASSUME SafetyInv, NEW c \in Calls, pc[c] # "idle", IsExactRetry(c)
    PROVE  /\ Id(c) \in Ids
           /\ Len(streams[Id(c)]) = 2
           /\ Recorded(Id(c)) # Missing
           /\ Recorded(Id(c)).version = 2
           /\ Head(streams[Id(c)]) = streams[Id(c)][1]
<1> DEFINE s == streams[Id(c)]
           e == Recorded(Id(c))
<1>1. Id(c) \in Ids /\ WellFormed(s, Id(c))
  BY RequestFacts
<1>2. e.status \in {"resumed", "cancelled"}
  BY DEF IsExactRetry
<1>3. e # Missing
  BY <1>2 DEF Missing
<1>4. Records(s, e)
  BY <1>1, <1>3, LoadFacts DEF Recorded
<1> HIDE DEF s, e
<1>5. Len(s) = 2 /\ e.version = 2
  BY <1>1, <1>2, <1>4, RecordFacts
<1>6. Head(s) = s[1]
  BY <1>1, <1>4, RecordedHead
<1> QED
  BY <1>1, <1>3, <1>5, <1>6 DEF s, e

\* A stream with its ending stands still, so a retry stays one.
LEMMA RetryStays ==
    ASSUME SafetyInv, SafetyInv', [Next]_vars, NEW c \in Calls, pc[c] # "idle",
           IsExactRetry(c), req'[c] = req[c]
    PROVE  IsExactRetry(c)' /\ Recorded(Id(c))' = Recorded(Id(c))
<1> DEFINE i == Id(c)
<1>1. i \in Ids /\ Len(streams[i]) = 2
  BY RetryFacts
<1>2. Id(c)' = i
  BY DEF Id
<1> HIDE DEF i
<1>3. streams'[i] = streams[i]
  <2>1. /\ WellFormed(streams'[i], i) /\ WellFormed(streams[i], i)
        /\ Grows(streams[i], streams'[i])
    BY <1>1, StreamsGrow
  <2> QED
    BY <1>1, <2>1 DEF Grows, WellFormed
<1>4. ReplayContinuation(streams[Id(c)])' = ReplayContinuation(streams[i])
  BY <1>2, <1>3
<1>5. streams'[Id(c)'] = streams[i]
  BY <1>2, <1>3
<1> QED
  BY <1>4, <1>5 DEF IsExactRetry, Recorded, i

\* A retry loads the ending, and returns it: token, key and payload, or reason and
\* fence, are the recorded ones.
LEMMA OwnRetry ==
    ASSUME SafetyInv, NEW c \in Calls, OnRetry(c), Step(c) \/ Fail(c)
    PROVE  /\ pc'[c] \in {"loaded", "done"}
           /\ pc'[c] = "loaded" => env'[c] = Recorded(Id(c))
           /\ reply'[c].code \in {"none", "failed", "ok"}
<1> DEFINE e == Recorded(Id(c))
           Goal == /\ pc'[c] \in {"loaded", "done"}
                   /\ pc'[c] = "loaded" => env'[c] = Recorded(Id(c))
                   /\ reply'[c].code \in {"none", "failed", "ok"}
<1>1. TypeOK /\ pc[c] \in {"begin", "loaded"}
  BY StepFrame DEF SafetyInv, OnRetry
<1>2. /\ e # Missing /\ e.version = 2
      /\ Head(streams[Id(c)]) = streams[Id(c)][1]
  BY <1>1, RetryFacts DEF OnRetry
<1>3. req[c].op \in {"resume", "cancel"} /\ reply[c] = NoReply
  BY <1>1 DEF OnRetry, IsExactRetry, SafetyInv, CallInv, CallInvOf
<1>4. ASSUME NEW code \in {"ok", "failed"}, NEW x, Answer(c, code, x)
      PROVE  Goal
  BY <1>1, <1>4 DEF Answer, Goto, TypeOK
<1>5. CASE Fail(c)
  BY <1>4, <1>5 DEF Fail, Throw
<1>6. CASE Load(c)
  <2>1. /\ Goto(c, "loaded") /\ env' = [env EXCEPT ![c] = e] /\ UNCHANGED reply
    BY <1>2, <1>6 DEF Load, Recorded
  <2> QED
    BY <1>1, <1>3, <2>1 DEF Goto, TypeOK, NoReply
<1>7. CASE ResumeDecide(c)
  <2>1. pc[c] = "loaded" /\ req[c].op = "resume" /\ env[c] = e
    BY <1>7 DEF ResumeDecide, OnRetry
  <2>2. /\ e.status = "resumed" /\ e.idempotencyKey = req[c].idempotencyKey
        /\ e.resumePayload = req[c].resumePayload
        /\ Hash(req[c].resumeToken) = Head(streams[Id(c)]).resumeTokenHash
    BY <2>1 DEF OnRetry, IsExactRetry
  <2>3. tokenHash[c] = streams[Id(c)][1].resumeTokenHash
    BY <2>1, RequestFacts DEF RunInv, Holding
  <2>4. ResolveCompletedResume(c, e)
    BY <1>2, <1>7, <2>1, <2>2, <2>3 DEF ResumeDecide
  <2>5. Answer(c, "ok", e)
    BY <2>2, <2>4 DEF ResolveCompletedResume, Return
  <2> QED
    BY <1>4, <2>5
<1>8. CASE CancelDecide(c)
  <2>1. pc[c] = "loaded" /\ req[c].op = "cancel" /\ env[c] = e
    BY <1>8 DEF CancelDecide, OnRetry
  <2>2. /\ e.status = "cancelled" /\ e.reason = req[c].reason
        /\ req[c].expectedVersion \in {Undefined, 1}
    BY <2>1 DEF OnRetry, IsExactRetry
  <2>3. ResolveCompletedCancellation(c, e)
    BY <1>8, <2>1, <2>2 DEF CancelDecide
  <2>4. Answer(c, "ok", e)
    BY <1>2, <2>2, <2>3 DEF ResolveCompletedCancellation, Return
  <2> QED
    BY <1>4, <2>4
<1> QED
  BY <1>1, <1>3, <1>5, <1>6, <1>7, <1>8 DEF Step, ExpireCommits, ExpireConflicts, Reload,
     CreateBegin, InspectDecide, InspectSettle, ResumeSettle, ResumeReresolve, CancelSettle,
     CancelReresolve, AppendCommits, AppendFails, Observed

\* Every step keeps a retry on its way.
LEMMA RetryStep ==
    ASSUME SafetyInv, SafetyInv', [Next]_vars, NEW d \in Calls, OnRetry(d)
    PROVE  OnRetry(d)'
<1>0. TypeOK /\ pc[d] # "idle"
  BY DEF SafetyInv, OnRetry
<1>1. ASSUME pc'[d] = pc[d], env'[d] = env[d], reply'[d] = reply[d], req'[d] = req[d]
      PROVE  OnRetry(d)'
  BY <1>0, <1>1, RetryStays DEF OnRetry
<1>2. CASE Tick \/ UNCHANGED vars
  BY <1>1, <1>2 DEF Tick, vars
<1>3. ASSUME NEW c \in Calls, NEW r \in Requests, Invoke(c, r)
      PROVE  OnRetry(d)'
  BY <1>0, <1>1, <1>3 DEF Invoke, Goto, TypeOK
<1>4. ASSUME NEW c \in Calls, Step(c) \/ Fail(c)
      PROVE  OnRetry(d)'
  <2>1. CASE d = c
    <3>1. req'[d] = req[d]
      BY <1>0, <1>4, StepFrame
    <3>2. /\ pc'[d] \in {"loaded", "done"}
          /\ pc'[d] = "loaded" => env'[d] = Recorded(Id(d))
          /\ reply'[d].code \in {"none", "failed", "ok"}
      BY <1>4, <2>1, OwnRetry
    <3>3. IsExactRetry(d)' /\ Recorded(Id(d))' = Recorded(Id(d))
      BY <1>0, <3>1, RetryStays DEF OnRetry
    <3> QED
      BY <3>2, <3>3 DEF OnRetry
  <2>2. CASE d # c
    <3>1. pc'[d] = pc[d] /\ env'[d] = env[d] /\ reply'[d] = reply[d] /\ req'[d] = req[d]
      BY <1>0, <1>4, <2>2, StepFrame DEF Frame
    <3> QED
      BY <1>1, <3>1
  <2> QED
    BY <2>1, <2>2
<1> QED
  BY <1>2, <1>3, <1>4 DEF Next

\* An exact retry that starts once the ending is on record returns it, however
\* late it is, whatever the clock does and whatever became of the first answer.
THEOREM RetriesReturnFirstOutcome == Spec => ExactRetryReturnsFirstOutcome
<1>1. ASSUME NEW c \in Calls
      PROVE  Spec => [](pc[c] = "begin" /\ IsExactRetry(c)
                          => [](reply[c].code \in {"none", "failed", "ok"}))
  <2>1. SafetyInv /\ pc[c] = "begin" /\ IsExactRetry(c) => OnRetry(c)
    BY DEF SafetyInv, CallInv, CallInvOf, OnRetry, NoReply
  <2>2. SafetyInv /\ SafetyInv' /\ OnRetry(c) /\ [Next]_vars => OnRetry(c)'
    BY RetryStep
  <2>3. OnRetry(c) => reply[c].code \in {"none", "failed", "ok"}
    BY DEF OnRetry
  <2> QED
    BY Safety, <2>1, <2>2, <2>3, PTL DEF Spec
<1> QED
  BY <1>1 DEF ExactRetryReturnsFirstOutcome
=============================================================================
