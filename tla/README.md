# rescuestream-api in TLA+

rescuestream-api admits the publishers of a MediaMTX media server. A broadcaster
has stream keys; a publisher sends a key; MediaMTX asks the API whether the
publisher may come in, and tells it by hooks when the publisher's path becomes
ready and when it stops being ready. Operators manage broadcasters and keys and
may revoke a key whose stream is running. All state is in PostgreSQL and in
MediaMTX; the API keeps none between two requests.

This directory models that program, checks the models with TLC and proves
safety properties of them, for every value of their constants, with TLAPS.
`PROJECT.json` maps every definition to the lines it models.

    tlc -config Orchestration_tables.cfg MCOrchestration.tla
    tlapm StreamSafetyProofs.tla

## 1. Inventory of the system

| Component (source under `internal/` unless said) | State | Operations | Talks to |
|---|---|---|---|
| Authentication of publishers: `handler/auth.go`, `service/auth.go` | `stream_keys.status`, `last_used_at`; the row lock of the key | `Authenticate`: one transaction that locks the key row, decides, stamps or expires the key | called by MediaMTX (`POST /auth`); PostgreSQL |
| Hooks: `handler/webhook.go` | `streams` | `handleReady` (look the key up, insert a stream), `handleNotReady` (end the active stream of a path) | called by MediaMTX through `curl`, once, without a retry |
| Stream keys: `handler/streamkey.go`, `service/streamkey.go` | `stream_keys` | `Create`, `Revoke` (look up, find the stream, kick, end the stream, update), get, list | PostgreSQL; MediaMTX client |
| MediaMTX client: `service/mediamtx.go` | none | `KickPath`: list RTMP connections, kick each, list RTSP sessions, kick each; URLs | MediaMTX's HTTP API |
| Broadcasters: `handler/broadcaster.go`, `service/broadcaster.go` | `broadcasters` | `Create`, `Update` (read, change the copy, write all of it, read again), `Delete`, get, list | PostgreSQL |
| Repositories and schema: `database/*_repo.go`, `database/migrations/` | three tables, foreign keys with cascade, a partial unique index, an `updated_at` trigger | one statement each | PostgreSQL, through the pool |
| Streams listing: `handler/stream.go`, `service/stream.go` | none | reads | PostgreSQL |
| HTTP front: `server/server.go`, `handler/middleware.go`, `handler/errors.go` | none | routing, request ids, logging, HMAC authentication of operators, mapping of errors | everything above |
| Process: `cmd/rescuestream-api/main.go`, `server/server.go` | where `main` is | migrate, connect, serve, drain for 30 s, close the pool, exit | the operating system |
| Pool and health: `database/database.go`, `handler/health.go` | 25 connections | acquire, release, ping within 2 s | PostgreSQL |
| Migrations: `database/migrate.go`, `cmd/migrate` | golang-migrate's version row with its dirty flag | up, down, version | PostgreSQL |
| Configuration, logging, telemetry | none that changes | read once | the environment |

What is hard here, and what makes each part correct:

* **Publishing.** Every request runs in a goroutine of its own, and only
  `Authenticate` is a transaction of several statements. Between the admission
  of a publisher and the record of its stream there is a window, through which
  a second publisher, a revocation, an expiry or a deletion may come. Correct
  means: one active stream per key, no orphan rows, admissions that are true
  when they commit, revoked keys that stay revoked, and a revocation that did
  what it reported.
* **Hooks** may be lost, late or in the wrong order, and a not-ready hook names
  only a path. Correct means: records that follow the publishers as far as the
  hooks allow, and no hook that ends a stream of another path, or of one who came
  to the path earlier than the publisher it is about.
* **Broadcasters.** `Update` is a read-modify-write over three statements, and
  the answer of any statement may be lost after it took effect. Correct means:
  what a 404, a 204 and a 200 tell the client is true.
* **The HTTP front** checks an operator's request in several steps, between which
  it waits for a body that may be slow; its clock arithmetic is on 64-bit words
  that a timestamp may overflow; an answer may come too late to be sent.
  Correct means: what a handler does was signed, for this route, this body and
  this time; a client that sends again until it succeeds does not get more done
  than the times it was left in doubt; nobody's slowness keeps a goroutine.
* **Migrations** may be run up and down by hand while a server starts or serves.
  Correct means: the version row tells the truth, and so does every "applied
  successfully", up to what another migrator has begun since.
* **The process** may die between two steps of a migration, or end while
  handlers are in a transaction; handlers share a pool and wait for a row lock
  while they hold a connection of it. Correct means: no service on half a
  schema, no connection lost, no request stuck, a shutdown that ends.

The list of hazards, each at its line and with the properties that would catch
it going wrong, is in `PROJECT.json`.

## 2. Modules

    Database ── StreamOrchestration ── StreamProperties ── MCOrchestration
                                         │    └── KeyRegistry (refined)
                                   StreamTypeProofs ── StreamSafetyProofs ─┬─ RevokeProofs ── RecordProofs
                                                                           └─ RegistryProofs
    BroadcasterAdmin ─┬─ MCAdmin        Migrations ── ServerProcess ─┬─ MCServer
                      └─ AdminProofs                   │             └─ ServerProofs
                                                 AtomicMigration (refined)
    GoTime ─┬─ AuthMiddleware ─┬─ MCAuth
    Routes ─┘                  └─ AuthProofs

| Module | Models |
|---|---|
| `Database` | the three tables, their constraints and cascade, the lock of a key row, and each statement of the repositories as an operator on them |
| `StreamOrchestration` | the handlers of publishing and revocation as interleaved processes over `Database`, MediaMTX's side of them, faults, and the fairness of the scheduler |
| `StreamProperties` | the properties of publishing, and the refinement mapping to `KeyRegistry` |
| `KeyRegistry` | the abstract promise: keys and their live streams under atomic operations, without handlers, locks or hooks |
| `BroadcasterAdmin` | the requests on broadcasters, statement by statement |
| `Migrations` | golang-migrate's version row, dirty flag and advisory lock under `main` and the `migrate` command, which go up, down or ask |
| `AtomicMigration` | the abstract promise of a migration: a schema that is there, not there or broken, changed at one moment between a command's start and its report |
| `ServerProcess` | the process from migration to exit over `Migrations`, the pool, the row lock, crashes and a restart; the refinement mapping to `AtomicMigration` |
| `GoTime` | the words of Go's `time.Time` and `time.Duration`: where they wrap around and where they saturate |
| `Routes` | the route table of `setupRoutes` and the switch of each `ServeHTTP` |
| `AuthMiddleware` | a request from its connection to its answer: limits, routing, the HMAC checks around the wait for the body, and the client that sends again |
| `MCOrchestration`, `MCAdmin`, `MCServer`, `MCAuth` | instances for TLC |
| `StreamTypeProofs`, `StreamSafetyProofs`, `RevokeProofs`, `RegistryProofs`, `RecordProofs`, `AdminProofs`, `ServerProofs`, `AuthProofs` | theorems |

### How state and actions correspond to the code

*Steps.* An action is one SQL statement, or one call of MediaMTX, together with
the local computation up to the next one. PostgreSQL runs at READ COMMITTED, so
a repository call, which is a transaction of one statement, is atomic. The
statements of `Authenticate` are separate actions: `AuthLock` is the SELECT FOR
UPDATE, the decision reads the active stream in a second statement
(`AuthAllow`, `AuthRefuseInUse`, ...), and `AuthCommit` makes its UPDATE visible.
`keyLock` is the lock; whatever PostgreSQL would make wait for it (a second
SELECT FOR UPDATE, an UPDATE or cascading DELETE of the row, and the
foreign-key check of an INSERT into `streams`) has the conjunct `Unlocked`.

*Identities.* Ids are fresh UUIDs and key values 256 random bits, so both are
model values and are never used twice. A row is "unused", present in some
status, or "deleted". A stream row is made by one ready hook of one connection
and carries its name.

*Local state.* `auth[c]`, `ready[c]`, `notReady[c]`, `revoke[o]` and `req[r]`
hold where a handler is and the values it has read so far: `revoke[o].stream`
is `activeStream`, `req[r].copy` is the `broadcaster` that `Update` changes.

*MediaMTX* (`conn`, `Publish`, `Disconnect`, `Kick`) is modelled from how the
code and `docker/mediamtx/mediamtx.yml` use it, and marked external: it admits
on 200, runs `runOnReady` and `runOnNotReady`, replaces the publisher of a path
by a new one, and closes a connection that is kicked.

*Faults.* `HooksLost` loses the call of a hook, `HooksReordered` lets hooks of
a path overtake each other, `KicksLost` fails calls of MediaMTX's API,
`LongLists` lets a list be longer than its first page (100 items unless asked
otherwise, readers among them), which is all that `KickPath` asks for, so that any
publishers may be missing from it; `Faults` cuts a handler off at any statement (an error, a cancelled request, a dead
server) and lets a COMMIT take effect without an answer. A dead server loses
only local state, so one crash is the abort of the handlers that were running.

*Migrations.* A migration is three steps of golang-migrate: the version row is
marked dirty (`Mark`), the file runs as one transaction (`RunFile`), the row is
cleaned (`Record`). Then the advisory lock is given back (`Unlock`), and only then
does the call return and the command print its success (`Report`): by that time
another command may have begun. Everything from the start to the report is
interrupted by `Break`: a failed call, a failed unlock, a killed command or a
killed `main`. A call that took effect and whose answer was lost is its step and
then `Break`; after `Record` that is a failure reported over a schema that is
changed, clean and whole. (Assumed is that a statement has taken effect or never
will when its failure is reported; PostgreSQL keeps the advisory lock of a session
whose statement still runs.) A rollback under a running server
drops the tables when no transaction uses them; the statements that come later
fail (`NoTable`). `undone` is a history variable: whose work another migrator has
begun to change since they gave the lock back, so that neither their report nor
`main` can be blamed for it.

*The middleware.* `Headers` is everything that is checked before `io.ReadAll`,
`Verified` what is checked after it. The server's time passes in the two waits
(for headers, for the body), in the handler, and in the writing of the answer;
what it computes between two waits takes none. Timers fire on time: the clock does
not pass the limit of a read that is pending. An answer is decided first
("writing") and then arrives (`Answer`), if the limit of the write has not come, or
does not (`AnswerLost`), because it has come or the client is gone. Both limits are
ten seconds, set a header's time apart, so nothing is promised of the 500 for a body
that stalled until the read's limit: it may be told or not. A handler may have
done its work whatever it answers except a refusal (`Return`): a 500 stands both
for an INSERT that took effect without an answer and for a body that broke off. The
client sees only the status and sends everything again but a success. A
signature is the pair of a secret and a text, which is
what a perfect HMAC is; the text has the number that was parsed and spelled
anew by `%d`, so a stamp that is spelled otherwise ("+1") is not what was
signed. The text is a record here, whose parts can be told apart; the code joins
method, decoded path, number and body with newlines. A request is judged by
itself: requests share the clock only.

*Data.* JSON bodies, metadata and times are reduced to what a property can
tell apart: an expiry is absent, ahead or past; a value set by request `r` is
`r`; `updated_at` counts UPDATEs of the row.

Next to an operator stand, where a check needs it, one or two variants of it
with a plausible mistake (`NoIndex`, `SelectKey`, `KeepLock`, ...). No action
uses them; they show that the properties notice.

## 3. Runs

Passing runs:

| Run | Instance | Properties | Distinct states |
|---|---|---|---|
| `tables` | 2 keys of 1 broadcaster, 2 publishers (RTMP and RTSP), keys as path or password, 1 revocation; all faults but those of MediaMTX's API, whose lists fit on one page | `TypeOK`, `OneActivePerKey`, `AllowStaysTrue`, `NoOrphans`, `ListedPathsDiffer`, `AdmittedWasRecorded`, `EndedOnItsPath`, `KickedPublisherIsGone`, `EndsOneStream` | 2.04 million, up to symmetry |
| `faults` | 2 publishers (RTMP and RTSP), 2 concurrent revocations; everything may fail | `RevokeDelivers`, `RevokedIsFinal`, `ImplementsRegistry` | 1.34 million |
| `orderly` | the same with 1 revocation, keys as path or password on any path, hooks that arrive in order, fair handlers | `RecordsFollowPublishers`, `LeftStreamsEnd`, `AuthEnds`, `RevokeEnds` | 38 thousand |
| `admin` | 2 broadcasters, 4 requests of any kind, lost answers | `TypeOK`, `NotFoundIsFinal`, `OneDeleteSucceeds`, `PatchAnswerIsFresh`, `LostOnlyByOverlap` | 275 thousand, up to symmetry |
| `server` | an authentication, a hook, a health check, 2 connections, 2 starts, 1 migrate command | `TypeOK`, `VersionTellsTruth`, `ServesOnlyMigrated`, `PoolConserved`, `SomebodyGoesOn`, `SuccessIsTrue`, `ImplementsAtomicMigration`, `CleanExitCutsNobody`, `ExitCutsNoTransaction`, `EveryRequestEnds`, `EveryCommandEnds`, `ShutdownEnds` | 93 thousand |
| `auth` | a client with 2 tries, any of 83 requests, words of 8 bits, 4 ticks a second | `TypeOK`, `WindowIsExact`, `HandledAsSigned`, `HandledWhileFresh`, `DoubledOnlyInDoubt`, `RoutedIsServed`, `EveryRequestEnds` | 55 thousand |

All runs check for deadlock: a state without a successor would be a system that
waits for itself. The only steps allowed there are `Finished`, `Stopped` and
`Quiet`, whose guards say that everything is over or that clients have given up.

*Bounds.* Two publishers are what a race for a key needs, and the proofs are for
any number of them. A second key in
`tables` makes a statement that hits the wrong key or path visible, and one
broadcaster with two keys makes the cascade cover several rows; one RTMP and one
RTSP publisher let a revocation miss somebody between its two lists. A path that
is no key lets a publisher with a password stand beside the one whose path the
key is. Each connection
lives once, which is no loss: a reconnection is another connection. Four
requests on a broadcaster are two overlapping PATCHes, a DELETE and one more. On a
pool of two, an authentication that has the row lock and a hook whose INSERT
waits for it hold every connection. Two starts are one restart after any end of
the first; `main` and one command are two migrators, and with the restart the
command meets both a first and a later migration. In `auth` the numbers are
scaled and their order kept: a word of eight bits holds the clock, the window
and the epoch's offset as 64 bits hold the real ones, and the stamps tried are
every second about the clock and the ends of a word where seconds or ticks wrap
(`WindowIsExact` itself takes every word at every instant). The requests are every
method on every path, and each way in which one part of a signed request may be
missing, misspelled, out of date or changed after it was signed. One client
suffices, since requests share the clock only; two tries are one retry.
`DoubledOnlyInDoubt` counts the tries that did what was asked against those that
ended with no answer or with a 500: a 4xx of the middleware, the router or a
handler means that nothing was done.

*Symmetry* permutes keys, requests or ids where no constant tells
them apart, in runs that check no liveness.

*Fairness.* `net/http` runs each request in its own goroutine, the Go
scheduler is preemptive, and PostgreSQL grants a row lock to somebody when it
is released; hence weak fairness of every handler's steps. Publishers,
operators, the clock and failures are owed nothing. `WF` of an authentication
suffices although it may lose the lock to another again and again, since each
of the finitely many requests takes it once. `main` and the commands are
processes and go on by themselves; the same argument holds for the advisory
lock, which each takes once and for which PostgreSQL also has a limit. In `auth`
the clock runs and timers fire; handlers return, because what they wait for is
in the other models, which show that it ends. A client owes no byte.

Runs that show a disagreement between documents and code:

| Run | The document says | The code does |
|---|---|---|
| `twice` | "ensure only one activation succeeds" (research.md:146) | two publishers with one key are both admitted: nothing is recorded until the ready hook |
| `revoked` | a revoked key's stream is terminated (spec.md:91) | a publisher admitted before the revocation and made ready during it keeps an active stream |
| `expired` | streams of an expired key are marked inactive (spec.md:131) | the key alone is marked |
| `reordered` | accurate state under rapid reconnection (spec.md:128) | a not-ready hook handled before its ready hook leaves the stream active |
| `kick` | "kicks all connections from a specific path" (mediamtx.go:77) | WebRTC publishers are in neither list, so they stay and the revocation reports success |
| `password` | MediaMTX sends the key as the password, the path is the stream's identifier (research.md:41-42; also openapi.yaml:42-44, quickstart.md:281) | the ready hook takes the path for the key: a publisher admitted by its password on a path that is no key has no stream record |

`RecordsFollowPublishers` promises a record to publishers whose path is their key
for this reason (`password`), and while hooks keep their order (`reordered`).
`KickedPublisherIsGone` speaks of protocols that are listed (`kick`), and of lists
that fit on one page: `KickPath` passes no parameters (mediamtx.go:83, :108), so it
sees a hundred connections, readers among them. With `LongLists` TRUE a `KickList`
may leave a publisher out, and a revocation reports success with that publisher on
the air. A not-ready hook that is late ends the stream of whoever has taken the
path since; `EndedOnItsPath` says that this is all the harm it does.

Seen and not given a run: with a lost not-ready hook a stream stays active and
its key in use until somebody acts (`LeftStreamsEnd` fails as soon as
`HooksLost` is TRUE, spec.md asks for retries); and an expired key may become
revoked, which data-model.md:69-79 does not draw (`RevokedIsFinal` and
`KeyRegistry` say what does hold).

## 4. Proofs

TLAPS proves, with no bound on publishers, keys, operators, broadcasters,
requests, migrators and the size of words, from the assumptions named in the
modules. `ConstantsAssumption`, `OrchestrationAssumption`, `AdminAssumption`,
`MigrationAssumption` and `ServerAssumption` only say that `None` is none of the
other values, type the parameters, and make the requests of a process finitely
many. `GoTimeAssumption` and `AuthAssumption` type the parameters and say in
addition that the clock is further than the window from the end of a word.

* `StreamTypeProofs`: `TypeCorrect`. One lemma per handler.
* `StreamSafetyProofs`: `OneActivePerKeyHolds`, `NoOrphansHolds`,
  `ListedPathsDifferHolds`, `AllowStaysTrueHolds`, `AdmittedWasRecordedHolds`,
  `RevokedIsFinalHolds`, `EndsOneStreamHolds`. `OneActivePerKey` follows from the
  guard of the INSERT, which is the index, once types are known; the others need more. Their
  strengthening `SafetyInv` has four parts. `LockInv`: a lock is held by an authentication of
  that key, between its SELECT and its COMMIT, on a row that is there;
  `AllowStaysTrue` needs it to know that nobody else writes the row meanwhile.
  `DecisionInv`: an uncommitted expiry is of an active key, without which the
  commit might write "expired" over "revoked". `TableInv`: the path of a stream
  is the value of its key, without which an UPDATE by path might end the streams
  of two keys. `AdmissionInv`: what a stream row, a hook and an admitted
  connection imply about the authentication before them. `StepCases` reduces
  the next-state relation to three kinds of steps (of an authentication, a
  statement of somebody else, a new connection), and each part is shown to
  survive each kind.
* `RevokeProofs`: `RevokeDeliversHolds`. A revocation remembers what it found
  several statements ago, so the proof is that statuses only move forward
  (`KeysMoveForward` and its like for streams, from `SafetyInv`: no commit of an
  expiry that was decided earlier overwrites a revocation), and that what
  `RevokeInv` knows at each point of `Revoke` survives every such move.
* `RegistryProofs`: `ImplementsRegistryHolds`, the refinement. One lemma for each
  operation of `KeyRegistry`, and `StepImplements` over all steps. A commit that
  expires a key needs `DecisionInv`, the INSERT needs the unique index, an UPDATE
  by path needs that the streams it ends are of one key.
* `RecordProofs`: `KickedPublisherIsGoneHolds`, `EndedOnItsPathHolds` and
  `RecordsFollowPublishersHolds`, the three that relate the tables to the connections of MediaMTX, of which the API
  hears only by hooks and lists. The first needs that a row has the path of the
  connection it was made for (`PathInv`, which in turn is what `KickPath` is told),
  and `KickInv`: at each point between the first list and the last kick, the
  publisher is off the air, or on a list that is still to be worked through, or
  of the protocol that is still to be listed. It stands under `~KicksLost /\ ~LongLists`,
  since `Revoke` goes on when MediaMTX does not answer or answers with one page of several.
  The second stands for hooks that are lost and handled in any order; its `EndInv`
  says that who came earlier on a path had left before who came later (`LeftInv`,
  `Ordered`) and that an ended stream has a revocation that found it or a hook of
  its path that was handled (`EndedFor`). The third is a theorem under
  `OrderlyHooks` (no hook lost or reordered, no fault), which is the environment
  it is about. Its strengthening `OrderInv` says how far the hooks of a connection
  have come (`HookOrder`), and that of two connections that came on one path the
  later knows the earlier (`Ordered`), so an INSERT finds the stream of the
  earlier publisher ended: the unique index refuses nobody who should have a
  record.
* `AdminProofs`: `NotFoundIsFinalHolds`, `OneDeleteSucceedsHolds`,
  `PatchAnswerIsFreshHolds`, `LostOnlyByOverlapHolds`. The strengthening
  `AdminInv` ties the copy of a PATCH to the row: it is the row, or it is older
  (`CopyInv`); and the row is as the PATCH wrote it, or newer (`WroteInv`).
* `ServerProofs`: `ServerTypeCorrect`, `VersionTellsTruthHolds`,
  `SuccessIsTrueHolds`, `ServesOnlyMigratedHolds`, `PoolConservedHolds`,
  `CleanExitCutsNobodyHolds`, `ExitCutsNoTransactionHolds`, `SomebodyGoesOnHolds`,
  `ImplementsAtomicMigrationHolds`. `ServerInv` has the
  advisory lock and what its holder has marked and run (`LockInv`: while a
  migrator is between `Mark` and `Record` the row is dirty with its target, so
  nobody else takes the tables for complete); that the schema is as told from
  `Record` or `UpToDate` to the report and after, unless another migrator has marked
  it since (`DoneInv`); that `main` goes on after a success only (`MainInv`); the free connections counted against the
  requests that hold one (`PoolInv`, which also says that a process that is not
  serving has no request and its whole pool: without it a restart might begin
  with connections missing); that nothing becomes active after a
  successful drain (`DrainInv`); and that the request that has the row lock is in
  its transaction (`RowInv`), whence somebody can always go on: who has the row
  lock needs no further connection. `RequestKeeps` reduces every step of a handler to
  one that takes a connection, gives one back, or neither. In the refinement the
  schema is seen as the old one from a migrator's mark to its record; `LockInv` says
  that only one migrator is there (`SchemaIsSeen`), so that a step of a migrator
  is quiet (`QuietSteps`), takes effect (`EffectSteps`: `Record` and `UpToDate`),
  reports success after that (`SuccessfulSteps`), or fails with nothing changed, with
  all changed, or with the schema it was changing broken (`FailingSteps`).
* `AuthProofs`: `TypeCorrect`, `WindowIsExactHolds`, `HandledAsSignedHolds`,
  `HandledWhileFreshHolds`, `DoubledOnlyInDoubtHolds`, `RoutedIsServedHolds`.
  `SubExact` and `WindowExact` are the arithmetic: a
  difference of instants is kept, wraps or saturates, and only the first can be
  within the window. `AuthInv` carries the facts of the header checks over the
  wait for the body (`TryInv`: when the wait began, when the headers came, and
  that the pending limit has not passed), to the handler (`CallInv`), and counts
  what was done against doubts (`CountInv`): one try may be ahead of them, the one
  whose success is told or whose success or 500 is on its way. `Ends` is every
  step that decides, tells or loses an answer (`DecidedEnds`, `ReturnEnds`,
  `AnswerEnds`, `UntoldEnds`).

Only model-checked: liveness and everything under fairness (`LeftStreamsEnd`,
`AuthEnds`, `RevokeEnds`, `EveryRequestEnds`, `EveryCommandEnds`, `ShutdownEnds`),
which this prover does not do. Every invariant, action property and
refinement that a passing run checks is a theorem.

## 5. Plan

Done, in this order: `Database` and `StreamOrchestration` (the core), their
properties and `KeyRegistry`, `MCOrchestration`, the two proof modules,
`BroadcasterAdmin` with its proofs, `ServerProcess` with its proofs; then
`AuthMiddleware` with `GoTime`, `Routes` and proofs, `Migrations` under
`ServerProcess`, and `RevokeProofs` and `RegistryProofs`; then `AtomicMigration`,
`RecordProofs`, and the refinement of migrations.

Next:

* Two server processes on one database. Publishing needs nothing new for it,
  since the API keeps no state between requests; the migrations of two `main`s are
  two migrators of `Migrations`, of which one is `Main` so far.

## 6. Not modelled

* Lists and reads that change no state (but for the set that `ListActive`
  selects), URLs, JSON, logging, telemetry, configuration: no property here is
  about them. Request ids and request logs change nothing either.
* Cryptography: HMAC is injective, and secrets are not guessed. The query string
  is not part of what is signed, and the same signed request may be sent again
  within the window; the code does not promise otherwise, and no property says it.
* `recording_ref` and the stream's metadata: written by no handler.
* Two server processes, see the plan.
* Deadlocks that PostgreSQL detects, between two cascades or between DROP TABLE
  and a transaction: it aborts one of them, which is a failed statement or a
  broken migration of the model.
* golang-migrate and PostgreSQL themselves: modelled from how the code uses them.
* The limits of `http.Server` in the other models: they close a connection and do
  not stop a handler; there, that is the client going away.
