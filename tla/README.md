# pausemesh in TLA+

pausemesh keeps *continuations*: a protocol run that pauses for a decision is
recorded as an event stream, and is later resumed (once, by whoever holds its
token), cancelled, or expired. This directory holds TLA+ modules of the parts
that carry that promise, the TLC runs that check them on small instances, and
TLAPS proofs for instances of every size. Paths below are relative to the
repository (`src/...` is its source directory).

## 1. The system

| Part | State | Operations | Talks to |
|---|---|---|---|
| Domain (`src/domain`) | none: events, envelopes | `reduceContinuation`, `replayContinuation` | used by everything |
| `ContinuationService` (`src/application`) | none of its own; each call has locals that live across awaits | `create`, `inspect`, `history`, `resume`, `cancel`, and inside them `expireIfDue` | event store, token issuer, clock, observer |
| Event store port, `InMemoryEventStore` | one stream per continuation | `load`, `append(id, expectedVersion, events)` | - |
| `SqliteEventStore` | table of events in a WAL file, shared by processes | `load`, `append` in a `BEGIN IMMEDIATE` transaction | SQLite |
| `PostgresEventStore` | head row and event rows per stream | `load` (one statement), `append` (a READ COMMITTED transaction with a compare-and-set UPDATE), `checkReadiness` | PostgreSQL, through a pool the application owns |
| PostgreSQL migration | schema objects, migration row | `migratePostgresEventStore` under an advisory lock | PostgreSQL |
| Token issuer, clock, observer | - | `issue`, `hash`; `now`; `observe` | - |
| AG-UI adapter | none: receipts are kept by the host | `issueAguiInterrupts` for a cohort; `fromAguiRunAgentInput`: preflight, receipt, current cohort and entries, then one command per member | envelopes; the host runs the commands on the service |
| MCP adapter | none: receipts are kept by the host | `issueMcpElicitation`, `parseMcpElicitResult`, `toMcpElicitationCompleteNotification` | envelopes |
| A2A adapter | none | `toA2AInterruptedTask`, input and control messages | envelopes |
| HTTP API | none; each request has locals that live across awaits | one service call per route; projections, which inspect and then read the body; error to status | service, adapters |
| CLI, configuration | none | reads arguments, wires the parts, stops the server | everything |

What is hard here: nothing in the service is locked. Every method loads an
envelope, awaits, decides, and appends with the version it loaded; correctness
rests on the store's comparison, on what each method does when it loses, and on
which clock reading it uses where. The durable stores make that one comparison
out of several statements, between which connections break, processes die, and
other writers wait. The adapters are pure functions, but what they are given was
read earlier: a cohort member by member, a receipt from the host's storage, an
envelope before the body of the request arrived. And a batch that an adapter
accepts as a whole is executed one command at a time.

What makes each part correct:

* domain - a stream folds to one envelope, and a second ending is rejected;
* service - one decision per continuation; answers and refusals that the record
  bears out; retries that return the first outcome; the token and the expiry
  respected; every call answered;
* stores - batches appended whole, at the version compared, for good; loads that
  never see half of one; no lock left behind;
* migration - the schema appears whole and once, rivals do not fail each other;
* AG-UI - batches that race are not mixed, a batch that stopped half-way can be
  sent again, and untrusted input costs bounded work;
* MCP, A2A - an answer is accepted only for the request that was issued, with its
  receipt, for that continuation; credentials never travel in band;
* HTTP - every resume or cancellation on record was asked for by a request that was
  not answered 4xx (a 410, though, may answer a request that has just recorded the
  expiry); a late projection is still one of the recorded continuation.

The hazards behind these are listed, line by line, in `PROJECT.json`.

## 2. Modules

| Module | What it is |
|---|---|
| `Continuation` | events, envelopes, the reducer with its tests in the code's order, replay as a fold, the test `serializeAppendBatch` makes of a batch |
| `EventStore` | the port's contract, which is also the in-memory store: `AppendAccepted`, `AppendConflicts`, and `StoreSpec` for the refinements |
| `Lifecycle` | abstract specification: created once, ended once |
| `ContinuationService` | the service, from await to await |
| `ContinuationServiceProperties` | what it promises, and its refinement of `Lifecycle` |
| `ContinuationServiceProofs` | its safety, for every instance |
| `PostgresEventStore` | load and append, statement by statement; refines `EventStore` |
| `SqliteEventStore` | load and append by processes on one file; refines `EventStore` |
| `StreamLemmas` | what both durable stores need of a batch behind a stream |
| `SqliteEventStoreProofs`, `PostgresEventStoreProofs` | the stores keep what they answered and implement `EventStore` |
| `PostgresMigration` | concurrent migrations and readiness probes |
| `PostgresMigrationProofs` | the schema appears whole, rivals do not collide |
| `ContinuationPayload` | what adapters read of a continuation: kind, response schema, correlation identifier; digests; results of projections |
| `AguiAdapter` | issuing interrupts, validating a resume batch, in the code's order |
| `AguiHost` | composition: a host that runs AG-UI interrupts on `ContinuationService` |
| `AguiHostProofs` | the host implements the service; one batch decides |
| `InputPreflight` | the bounded traversal of untrusted input, one step per round of its loop |
| `McpElicitation` | form schemas, elicitation requests, receipts, results, completions |
| `AdapterProofs` | the preflight does bounded work; MCP schemas and content validation agree on defaults |
| `A2aTask` | interrupted tasks and the messages that answer them |
| `HttpApi` | composition: the HTTP handlers on `ContinuationService` and the three adapters |
| `HttpApiProofs` | the API implements the service; refusals decide nothing; projections stay bound |
| `MC...` | constants for TLC: requests, initial databases, symmetry |

Definitions named as mutants (their comment says of what) are wrong on purpose:
each is a plausible bug, and the property it is paired with in `PROJECT.json`
must fail when it replaces the definition it is a mutant of.

### ContinuationService

A *call* is one invocation of a method; `pc[c]` names the await it is at, `req`,
`env`, `tokenHash` and `now` are its input and locals, `reply` what it returned
or threw. Between two awaits a method touches only its locals and the clock, so
that stretch is one action. Awaits of the issuer and the observer share nothing
with other calls; they are kept only where a clock reading or a lost answer can
fall between (`observe`). The observer may throw, also an error like the store's
(`ObserverOutcomes`); `ObserveSafely` keeps it from the method. `expireIfDue`, which three methods share, is
`EnterExpireIfDue`, `ExpireCommits`, `ExpireConflicts`, `Reload`; the caller goes
on at `settle`. `cancel` reads the clock once and stamps its event with that
reading; `resume` reads it twice (in `expireIfDue`, and again for the stamp). The
model keeps both.

`Fail` ends a call at any await without an answer: the process dies, or the store
throws something else than a version conflict. After the append it is a committed
decision whose answer is lost. The clock is a wall clock: it may jump ahead and,
with `MonotoneClock = FALSE`, back.

Data: a token is the call that issued it, its hash an injective record of it,
`ForgedToken` any other string. A resume uses a forged token or one that a
`create` has returned. Payloads stand for their canonical JSON. `correlationId`,
`payload` and `metadata` are carried through and never read, so they are absent.
`history` only reads; it is `GetEvents` of `HttpApi`.

### PostgresEventStore

PostgreSQL is external, and modelled by what READ COMMITTED transactions on one
row can notice. `heads` and `rows` are the committed tables, `tx` what a
transaction has written, `holder` the row lock (of an updated row or an
uncommitted insert). A statement that has to wait is an action that is not
enabled; when it runs it tests the row as it then is, which is what PostgreSQL's
re-evaluation does. `ON CONFLICT DO NOTHING` on a committed row may or may not
wait for an updater; the action is enabled from the start, and a wait is an
interleaving. `Commit` may lose its answer; `Fail` is any failing statement,
followed by `Rollback` or by `RollbackFails`, after which the session, with its
lock, outlives the client until `ServerAborts`. Callers append at version 0 or at
a version the stream has had, as the service does (`Invoke`).

### SqliteEventStore

Each call stands for a process: inside one, an append never yields. There is one
writer at a time, `Busy` is the timeout of `BEGIN IMMEDIATE` (thrown before the
`try`), rows are inserted one by one, and `Crash` takes the lock and what was not
committed with it.

### PostgresMigration

`db` is the committed catalog and migration table, `tx` what an open migration
has created. Builds may differ in their checksum. The initial databases are those
a deployment can find: fresh, migrated, with a dropped trigger, migrated by a
later version, or with a table or an empty migration table but no record.

### AguiAdapter and AguiHost

The adapter's functions are operators that return the commands or the first error
in the code's order. Digests are injective records of what is hashed; a derived
idempotency key is the triple it is derived from. `Validates` is what the host's
`validatePayload` accepts; the shape tests of the schemas and the preflight are
one test (`Unreadable`).

The host is external. It is modelled from the README ("persist `agui.receipt`
beside the workflow checkpoint and pass the complete current cohort back") and
from `examples/cross-protocol-demo.ts`: `CreateMember`, `Issue`, then for every
resume input `Receive`, `InspectMember` for each member in the receipt's order,
`Validate` at some clock reading, and `Execute` command by command up to the first
that fails. An *attempt* is one delivery of an input; redeliveries are attempts
with equal inputs. Its service calls are calls of `ContinuationService`, named by
attempt, purpose and member, so every await and failure of the service can fall
between any two steps of the host. The receipt can come back reordered or
truncated (`HeldReceipt`), and `Outside` is somebody who decides a member
directly.

### InputPreflight

`heap` gives the values under the keys of every object, in every way there is:
trees, shared objects, cycles. `stack`, `activePath`, `visitedNodes` and
`pendingNodes` are the function's variables, and `Leave`, `VisitRefused`,
`VisitLeaf`, `VisitObject` and `Pass` the branches of its loop. The specification
it is checked against unfolds the arguments into trees (`Fits`).

### McpElicitation and A2aTask

Both are operators. A form definition is a record of the constraints of its type;
a number is given in halves, so that an integer can be told from a fraction; a
string has a length and formats; a URL is the list of facts `validateUrlBinding`
tests. A request's digest is injective. `HttpApi` puts them to work on envelopes
of the running service.

### HttpApi

A call of the service is made by the handler of one HTTP request. `Accept` turns a
request away or calls the service; `Respond` maps what the method returned or
threw to a status; `Project` runs when `inspect` has returned and the body has
arrived, any time later, on the envelope that was inspected. A body that is no
JSON makes `c.req.json()` throw a `SyntaxError`, which `onError` answers with 500,
as it does the `RangeError` of a past `expiresAt`; the model keeps both.

## 3. Runs

| Run | Instance | Shows |
|---|---|---|
| `resume_races` | 4 calls, 1 continuation, 2 keys, 2 payloads, forged token, a past expiry, clock 0..1 both ways | one decision, recorded, by a holder of the token; exclusive creates; truthful answers and refusals, whatever the observer throws |
| `cancel_races` | 4 calls, two reasons, fences 1 and 2 or none, inspects | cancel against resume, cancel and expiry; the times of expiries and cancellations; inspect never shows what is due as pending |
| `retry_liveness` | 3 calls, creates with the default expiry or one that is due at birth, fair | every call answers; late exact retries return the first outcome; refinement of `Lifecycle`, where what is created is not yet due |
| `postgres_races` | 4 calls, 9 requests, pool of 3, at most 2 events per stream | heads count events; whole loads; decided appends |
| `postgres_contract` | 3 calls, pool of 2, fair | refinement of `EventStore`; every call ends |
| `sqlite_races` | 4 processes | answers stand; batches whole; lock returned; refinement of `EventStore` |
| `migration_races` | 3 migrators, 1 probe, 2 builds, 9 databases, fair | whole and single migration; no collisions; ok means usable; every migration ends |
| `agui_batches` | 2 members, 2 attempts, 4 inputs (two that agree on one member, one with a reordered, one with a truncated receipt), 1 outside cancel | rival batches are not mixed; proper batches are refused only for a reason; commands are requests of the service |
| `input_preflight` | every heap of 3 objects with up to 2 keys, 3 argument lists, 7 pairs of limits | bounded work; terminates with the right verdict |
| `http_projections` | 4 connections, two forms that ask for the same input (both may exist at once) and an authorization, 3 protocols, two projections with one request identifier, of one continuation in two contexts or of both forms in one | what is resumed or cancelled was asked for by a request that was not answered 4xx; late projections stay bound; answers are accepted only for what was issued |
| `retry_refused` | 3 calls | **violation**, see findings |
| `resumed_after_expiry` | monotone clock | **violation**, see findings |

Bounds. A continuation has at most two events, so a stream's life needs one
creator and one decider; a race needs two rivals, and a retry or a second loser a
fourth call. One continuation suffices where streams do not interact; two exist at
once where they could be confused (`agui_batches`, and in `http_projections` the two
forms, whose requests differ in the continuation alone). `MaxTime`
bounds the clock: with `TokenTtl = 1` the values 0 and 1 are before and at the
expiry. A cohort of two with two attempts has every way of mixing two batches; a
third member or attempt adds no new kind. The preflight's limits lie on both sides
of what three objects can unfold to, and a path of three objects can close a cycle
at every depth. Two keys, payloads, reasons or hashes are an
equal and a different one. `MaxEventsPerStream = 2` puts the limit exactly where
legal streams end, with one request beyond it. Call symmetry is used in the
safety runs only. TLC's deadlock check is off: clients stop calling when all
calls are made. That nobody waits for ever is what the liveness properties say.

Fairness. Weak fairness of each running call's own steps: Node's event loop runs
every ready continuation and an awaited store, issuer or observer settles. No
fairness is assumed of clients, of the clock or of failures. For PostgreSQL it
includes `ServerAborts`: the server ends the session of a client that is gone
(TCP keepalive). Under it the waits are finite because each transaction locks one
row, and waits for it before it holds anything another waits for. The preflight is
a synchronous loop: weak fairness of its next round says only that JavaScript goes
on running it.

### Findings

* `retry_refused`. README: "Exact retries use an independent idempotency key and
  return the first outcome." A retry that overlaps the first resume and enters
  `expireIfDue` after the clock reached the expiry loses its append to the
  resume, reloads the resumed envelope, and `requireResumable` refuses it with
  `TOKEN_ALREADY_USED` without comparing key and payload
  (`continuation-service.ts:396`). Trying again succeeds, and retries that start
  after the decision are never refused (`ExactRetryReturnsFirstOutcome`).
* `resumed_after_expiry`. Delivery contract R4: "Expired and cancelled
  continuations cannot resume". The expiry is tested with one clock reading and
  the event is stamped with a later one (`continuation-service.ts:172`), so a
  stream can record `resumedAt >= expiresAt`. Cancellations, which use one
  reading, cannot (`ExpiryIsRespected`).

## 4. Proofs

Every invariant and every action property that a run checks is also a theorem of
its specification, for instances of every size; so are the refinements. In each
module one theorem (`Safety`, `HttpSafety`, `HostSafety`, `PreflightSafety`) proves
an inductive invariant, and the properties follow from it. None of the properties
is inductive as it stands: what a call may answer depends on what it learned
several statements or awaits ago, so each invariant says what every call knows at
each of its labels. TLC has checked these invariants on the instances of section 3.

### ContinuationServiceProofs

For every set of calls, continuations, keys, payloads, reasons and requests, every
clock bound and either kind of clock: `TypeCorrect`, `HistoriesReplay`,
`AnswersRecorded`, `DecidedOnce`, `CreateExclusive`, `ResumeHeldToken`,
`ExpiryRespected`, `RefusalsJustified`, `RetriesReturnFirstOutcome` and
`ImplementsLifecycle`, each the property of a run; and `KeepsStoreContract`.

Assumptions: `ServiceAssumption` (requests are requests, the forged token is not
a call, hashes are the digests of tokens, the token life is positive). Nothing is
assumed of the number of anything.

`SafetyInv` is

* `StreamInv` - a stream is empty, a creation, or a creation and one ending, with
  the right identifiers and versions, an expiry stamped late enough, a
  cancellation early enough, and a resume that some call with the token asked for;
* `CallInv` - the envelope a call holds is a *record* of its stream (the creation,
  or its ending), it is pending with version 1 wherever an append follows, the
  token has been tested before, the clock reading that was tested is the one held,
  and an answer given is a record.

Streams only grow by one event and are never rewritten, so a record stays one
(`Records` is stable), which carries `CallInv` over the steps of all other calls.
An append at version 1 is accepted only by a stream that is just a creation, so
`StreamInv` survives; a conflict at version 1 means that there is an ending,
which is what the second look relies on. Replay is a fold, and recursion cannot
be unfolded for every length here; but a well-formed stream has at most two
events, so `ReplayOfRecord` evaluates the fold for the lengths 0, 1 and 2. For the
refinement, a step leaves all streams alone or appends one event to one of them, at
the version it has (`AcceptedOrSame`), and `LifeOfAppend` says what that does to the
abstract life. The same lemma gives `KeepsStoreContract` (`Spec => StoreSpec`): the
service changes streams only as the port's contract allows, and that contract
(`EventStore`) is what both databases are proved to implement below. The service and
the stores meet in it; that the service runs on a store whose append takes several
steps is not itself modelled.

`OnlyCommittedCallsWrite` adds who wrote: every event but an expiry has a committed
call that asked for exactly it (`AuthorInv`). `RefusalsJustified` needs it for the
creates: a create that conflicts has not written the creation it met. The proof goes
through the ways each method can throw, one lemma per action, and then
`BearsOutStays`: what bears a refusal out is never taken back. That a holder of the
token is never told `CONTINUATION_NOT_FOUND` needs `HolderInv`: the token comes from a
create that has answered, which by `CreateIsExclusive` has its stream from then on.
`ObservedReturns` is where `ObserveSafely` counts: whatever the observer does, a
committed call returns its envelope.

`RetriesReturnFirstOutcome` is a property of behaviours (once a retry has begun
with the ending on record, it is never refused later) but needs no fairness:
`OnRetry` holds from that moment on and is kept by every step, because a stream
with an ending stands still.

### HttpApiProofs

`HttpImplementsService` (`HttpSpec => Spec`): every handler's step is an `Invoke`,
a step of the service, or leaves its variables alone. So all of the above holds
behind the API, over any number of connections; `HttpDecidesOnce`,
`HttpImplementsLifecycle` and `HttpRetriesReturnFirstOutcome` state it for the
exactly-once decision, the life cycle and the exact retry.

`HttpInv` relates a connection to its call: the call asks what the request says,
a status is given only before the call began or after it ended, a call that
committed a decision is not answered with a 4xx, and what was projected is the
projection of the envelope that was inspected (`ProjectionStands`). From it, with
`SafetyInv` and `AuthorInv`: `HttpTypeCorrect`, `RefusedDecideNothing`,
`ProjectionsBound` and `ProtocolAnswersBound`. The last two rest on records being
stable: the envelope inspected before the body came is still a record of the stream,
so the digests and bindings computed from it are those of the recorded continuation.

Assumption: `HttpAssumption` - requests on a connection carry requests of the
service, and the context of an AG-UI projection has the shape that the route's
schema asks for, or is turned away (`IsHttpRequest`).

### AguiHostProofs

For cohorts of any length, any number of attempts and any deliveries:
`HostImplementsService` (`HostSpec => Spec`), `HostImplementsLifecycle`,
`HostTypeCorrect`, `OneBatch` and `BatchRefusals`.

`HostInv` says what the receipt was issued about (`IssuedOf`), that an accepted
batch holds for each member, in the cohort's order, the command about the entry for
that member (`VerdictOf`), and that a command is executed only after all commands
before it succeeded (`Executes`). A damaged receipt does not validate because its
digest covers the members in their order. For `OneBatch`, take of all members that
batches decided the last in the cohort's order: the batch that decided it had
succeeded with every member before it, so each of those ended as that batch asked,
by it or by an equal command; and no later member was decided by a batch. For
`BatchRefusals`, every way the validation or a command can refuse is traced back,
through `RefusalsJustified`, to a member that ended otherwise, or was due while the
host still saw it pending: a batch that has been applied in full goes through again
also after the expiry.

Assumptions: `HostAssumption` (the calls are the host's calls, the cohort is not
empty, the receipt comes back in one of the modelled conditions, what the host and
others ask are requests), `OutsideAssumption` (nobody else uses the derived
idempotency keys or the reason `agui:cancelled`, which are the adapter's own) and
`UnreadableAssumption` (what does not parse is no receipt).

### SqliteEventStoreProofs, PostgresEventStoreProofs

For any number of processes or callers, streams, requests and connections, and for
any limit of at least one event. SQLite: `TypeCorrect`, `AnswersNeverLost`,
`LockReturned`, `BatchesNeverTorn`, `ImplementsStore`. PostgreSQL: `TypeCorrect`,
`HeadsAlwaysCount`, `LoadsAlwaysWhole`, `AppendsAlwaysDecided`, `ImplementsStore`.

Both invariants say that the committed rows of a stream are a sequence in which
every event stands under its own identifier and version (`StreamIsWhole`), who holds
the lock, where an open transaction stands, and that what was answered stands, in a
form that a longer stream keeps. The heart is the fence. In SQLite a transaction
holds the write lock from its comparison to its commit (`LockInv`), so it stays at
the end of its stream (`BatchInv`). In PostgreSQL the row lock belongs exactly to
the call that wrote the head (`HolderInv`), and past the UPDATE the stream is as long
as the caller expected until that transaction ends, however long a dead client's
session stays (`TxOf`). The insert of a head row needs one more fact: only an append
at version 0 makes one, on a stream without a committed head, and a miss of the fence
then means a longer stream. With that a commit is exactly the contract's
compare-and-append, and every other step leaves the committed rows alone, which is
`ImplementsStore`.

Assumptions: `SqliteAssumption`, `PostgresAssumption` (requests are requests, the
limits are positive). `StreamLemmas` holds the facts about a batch behind a stream
that both need.

### PostgresMigrationProofs

For any number of migrators and probes, any list of objects, any builds and any
database a deployment may find: `TypeCorrect`, `RivalsNeverCollide`,
`OkAlwaysUsable`, `AlwaysMigratesWhole`. From the advisory lock to the end of the
transaction only one migrator has anything uncommitted (`LockInv`), so the database
it read is the one it commits to; `TxOf` says at each statement that the transaction
is building a whole schema on a database without one, or changes nothing.
`OutcomeOf` is needed because an answer must stay true while others go on.

Assumption: `MigrationAssumption`, whose part `RowsStand` says that the migration
table of the database that is found has no version twice (its primary key) and
exists if it has rows.

### AdapterProofs

`PreflightTypeCorrect`, `PreflightWorkBounded` and `PreflightVerdictRight`, for heaps of any size and shape,
cycles included, any arguments and any limits, from `PreflightAssumption` (types).
That the stack is bounded needs a *level* for each frame (`LevelsIn`): a visit frame
has its depth, and the level of a leave frame is below those of all frames above it
and within the depth limit. So leave frames have different levels and there are at
most `maxInputDepth + 1` of them (`LeavesBounded`, by counting an injection); the
visit frames are the pending nodes, which the budget bounds.

`PreflightVerdictRight` says that the loop with its stack, its counters and its set of
active objects decides what it is meant to decide: it passes exactly the arguments
whose *occurrences* are at most `maxInputNodes` many, lie no deeper than
`maxInputDepth` and have no object inside itself (`KeepsLimits`). An occurrence is a
path of keys from an argument to a value, so an object reached on two paths counts
twice, as in the code, and a cycle has infinitely many. The invariant (`WalkInv`) has
three witnesses: the occurrences visited, which are closed upwards and kept the
limits; those on the stack, which are what the visited ones have below them that was
not visited (`Walked`); and which occurrence each frame stands for, with the leave
frames being the path from the root to the frame above them (`Ahead`), which is why
membership in `activeObjects` is the test for a cycle. An empty stack then means that
the visited occurrences are all of them: `ClosedIsAll`, an induction on the length of
an occurrence, done by taking a least counterexample (`LeastNatural`, from the
well-foundedness of `<` on the naturals, since the library's induction theorem itself
cannot be instantiated). A refusal before the walk is over is right because what is
on the stack is already too much: too many occurrences, a too deep one or a cyclic
one.

`DefaultsAreAnswerable` and `DefaultsFillForms`, for every definition and schema and
from no assumption: the two validators of the MCP adapter, which are written apart,
agree on defaults, by cases on the type of the field.

### Only model-checked

Liveness under fairness, which the prover does not reach: `CallsTerminate`,
`CallsFinish`, `MigrationsFinish` and `PreflightDecides`. Of the last, that the verdict
is right is proved as `PreflightVerdictRight`; that there is one, and that it agrees
with the recursive reference `Fits`, is model-checked. The two findings are
counterexamples.

## 5. Not modelled

* CLI and configuration: argument and file reading and the wiring of the parts.
  On a signal the server stops accepting, drains, and then closes the store.
* Text: the zod schemas and JSON text of events; character-level tests of
  identifiers, headers, e-mail addresses, dates and URLs (each is one fact of an
  abstract value); messages, titles and metadata that are copied through.
* Cryptography: random bytes and SHA-256. Tokens are fresh, digests injective.
* Log records; `/healthz`. The probe behind `/readyz` is `checkReadiness`, in
  `PostgresMigration`.
* JavaScript objects that misbehave when read (getters that throw, proxies): the
  preflight reads values that do not change under it.
* An invalid clock handed to `fromAguiRunAgentInput`.
* `close()` and the constructor's DDL of the SQLite store; safe-integer tests of
  versions, which streams of two events do not reach.

## 6. Further work

1. The service on a store whose append takes several steps, so that the service and a
   database run in one model instead of meeting in the contract of the port.
2. The domain alone: replay of arbitrary bounded event sequences against a direct
   definition of the streams it accepts.
