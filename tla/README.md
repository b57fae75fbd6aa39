# TLA+ models of container-log-platform

Models, model checks and machine-checked proofs for the platform that collects
container logs with Filebeat and Logstash, stores them idempotently in SQLite
through a Go API, and serves queries and statistics. Paths below are those of
the repository; `PROJECT.json` maps every modelling definition to the lines it
translates.

    tlc -config MCIngestionApi.cfg MCIngestionApi     # a model check
    tlapm IngestionApiProofs.tla                      # the proofs

## 1. The system

| Component | State it keeps | Operations | Talks to |
|---|---|---|---|
| Event preparation (`internal/ingestion`) | none | NormalizeEvent, ComputeEventID, PrepareLog | called for each event by the service |
| Ingestion service and handlers (`internal/service/ingestion_service.go`, `internal/handler/ingestion.go`) | none beyond the request | POST /internal/v1/logs, POST /internal/v1/logs/bulk | repository; answered over HTTP to Logstash |
| Log repository (`internal/repository`) | the `logs` table, a pool of one connection | OpenSQLite, Migrate, InsertBatch, List, FindByID, CountByLevel, CountByService | SQLite through GORM and database/sql |
| Readiness gate (`internal/server/readiness.go`, `router.go`) | the flag `acceptingTraffic` | SetReady, Ready, requireReady, /readyz, /healthz beside it | set by Run, read by each request, pings the database |
| Servers and process (`internal/server/servers.go`, `cmd/api/main.go`) | two listeners, two serving goroutines, a channel, the signal context | Run, serve, shutdown, run | net/http, the operating system, Docker's restart |
| Configuration (`internal/config`) | none | Load, Validate | the environment; its limits are checked again by the constructors |
| Middleware (`internal/middleware`) | none beyond the request | RequestID, RequestLogger, Recovery | around every handler |
| Log queries (`internal/service/query_service.go`, `internal/handler/query.go`) | none | ListLogs, GetLog | repository |
| Statistics (`internal/service/stats_service.go`, `internal/handler/stats.go`) | none | GetLevelStats, GetServiceStats | repository |
| Delivery pipeline (`deploy/`) | Filebeat's registry, Logstash's persistent queue | read, publish, filter, post, retry, checkpoint | log files on one side, the bulk endpoint on the other |
| Log producer (`cmd/log-producer`) | the sequence number, a file | runProducer | stdout, stderr and the file, which Filebeat reads |
| Acceptance verifier (`test/e2e/verify_events.go`) | the pages it has read | fetchWindow, verifyItems, waitForEvents | GET /api/v1/logs |
| Query benchmark (`test/performance/query_benchmark.go`) | its workers' results | seedRecords, validateQuery, benchmarkQueries | the bulk endpoint, then GET /api/v1/logs |
| Acceptance scripts and CI (`scripts/`, `.github/`) | none | shell scripts around the two programs above | docker, curl |

How they interact. Every request runs in a goroutine of net/http. It reads the
readiness flag, pings the database, and then works through service and
repository on the one connection that all requests, reads and writes, share.
The process around the requests starts from the environment, migrates the
database, and is driven by a signal or a failing server; it ends orderly, by
force after a timeout, or by a kill. Outside, Logstash repeats every call that
ends with a retryable status, a timeout or a broken connection, so the API hears
the same events again and out of order, possibly while the earlier call is still
being handled. Acceptance reads the table through the public API while the
pipeline is still filling it.

What is hard here, and what the properties are about (each item with its line
is under `hazards` in `PROJECT.json`):

* identity: telling a re-delivery from a new event in every combination of
  present, absent and respelled fields;
* concurrency: handlers that compete for the connection and for the same keys,
  cancellation and failing statements between any two of their steps, a panic
  that passes through the middleware while the connection is held;
* the gate: flag, ping and handler are three steps, and shutdown can fall
  between them;
* the process: two servers, four goroutines, two channels, a deadline, and
  handlers that may outlive all of it; a migration killed between two
  statements; limits that are checked in two places;
* delivery: lost acknowledgements, late calls, replayed batches, lines that are
  unfit in different ways sharing a batch with good ones, bodies that are too
  large for the API;
* production: a sequence that starts at 1 in every process, lines torn by a
  full disk;
* reading: paging over a table that grows, overflow of the offset, rounding, rows
  whose time UTC has moved out of the years 0000 to 9999;
* judging: a verifier that compares pages read while rows come, a benchmark over
  a database that an earlier run has left.

What makes each component correct:

* preparation: the same event_id exactly for the same source event; stored rows
  are fixed points of preparation; refusal does not depend on spelling;
* ingestion and repository: a 2xx means stored, an error means nothing stored,
  batches are atomic, counts are those of the table, rows are never changed,
  every call ends;
* gate and process: ready means both ports bound; nothing that comes after the
  gate has closed is stored; exit code 0 means every accepted request was
  answered; no port stays bound; the process stops;
* start: what Load accepts no constructor refuses, requests are served on the
  whole schema, and an accepted environment comes to be served;
* delivery: a line that is acknowledged and acceptable is stored or still
  queued, arrives in the end, and no batch is repeated for ever;
* production: only a run ID that was given can cost an event, a torn line spoils
  one, a completed run is complete;
* query and statistics: a response shows one state, paging omits nothing and
  repeats only what newer rows have shifted, list and statistics mean the same
  rows, every request ends and is logged;
* verifier and benchmark: a pass is true, a failure is real, both end.

## 2. The modules

    EventPreparation <-- EventResubmission <-- IngestionApiProofs
          ^                                           |
          |                 .-------------------------'
          |                 v
    IngestionService <-- IngestionApi ---implements--> IdempotentStore
          ^    ^              `--------implements--> ProcessPhases
          |    |                                          ^ implements
          |    |            ProcessProofs --> ServerLifecycle
          |    |                  `---------> ApiStartup
          |  LogstashDelivery <-- LogstashDeliveryProofs
          |  (the API as IdempotentStore)
          |
       LogFilter <-- LogQuery ---implements--> SnapshotReads
          ^             `<-- LogQueryProofs
       PublicApi <-- PublicApiProofs --> LevelStats
       (a list read in one step, as SnapshotReads allows)

    LogProducer <-- AcceptanceProofs --> EventVerifier    (a page from one state)
    QueryBenchmark <-- QueryBenchmarkProofs               (a batch stored whole)

Unlabelled arrows point from a module to one it EXTENDS. A module of proofs may
extend two components that share no variable, so the second has names of its
own (`VerifierSpec`, `StartupSpec`, `StatsSpec`, `ResubmissionSpec`).
**FoldLemmas** has the facts about finite sets, folds and sorted sequences that
four of the modules of proofs use. An MC module gives a module's constants their
values, in a configuration of the same name.

**EventPreparation** (no state) translates `NormalizeEvent`, `ComputeEventID`
and `PrepareLog`. The checks are a sequence in the order of the code; the first
that fails names the field. A text is a word with two marks, surrounding blanks
and upper case, which is all that TrimSpace, ToLower and ToUpper change; a
message keeps its text and its size; a timestamp is an instant with a zone; raw
JSON is a value with its white space. `PrepareLog` yields "stored" with key and
content, "rejected" for a ValidationError, or "error" for any other error; the
difference between the last two decides whether a bad event is dropped or
blocks its batch.

**EventResubmission** starts from one delivery and edits it field by field into
another. Its reference, `SameEvent`, is ADR-002's identity table stated on the
fields as submitted, not on the normalised event. `Submissions` is everything a
client can submit, as far as the model tells submissions apart; an empty word
has no letter case, and nil is neither a value nor the name of a field.

**IngestionService** (no state) is what handlers and service decide without the
database: which calls end before any event is prepared, which events are
stored, rejected or fatal, and the counts and status of the answer.

**IngestionApi** is the core. `pc[r]` is where the goroutine of request r
stands; each action runs it to the next place where something else can happen:

| Place | Action | Code |
|---|---|---|
| arrived | LoadFlag | `acceptingTraffic.Load()` |
| ping | Ping | the dependency check behind it |
| handle | Handle | decoding, limits, PrepareLog of every event, all early returns |
| acquire | Begin | BEGIN on the only connection |
| insert | Insert | INSERT .. ON CONFLICT(event_id) DO NOTHING |
| commit | Commit | COMMIT, RowsAffected, the counts |
| respond | Respond | writing the response; nobody listens if the client has gone |

Beside them: `StorageFails` (ping, BEGIN, INSERT or COMMIT report a code),
`ClientGivesUp` and `NoticeCancel` (the context is cancelled, noticed later or
never), and the process: Listen, SetReady, CloseGate, Drain, Drained,
DrainTimeout, Exit, Crash. `rows` survives everything, `tx` does not survive the
loss of the process.

**IdempotentStore** is the abstract promise: a call is taken in one step or not
at all, "confirmed" only when all its keys are there, "refused" only when it has
added none. **ProcessPhases** is the abstract process: the gate is open only
while serving, the doors close after it, and only force or a kill cuts a request
off. **SnapshotReads** is the abstract reader: an answer is a function of the
request and of one state of the table between question and answer. The three are
specifications for others to implement and translate no code.

**ServerLifecycle** models `Run`, `serve`, `shutdown` and `main` with `run` as
the place of the main goroutine, `serve[s]` as that of the serving goroutine,
`errCh` as the buffered channel, and `inShutdown` / `drained` for the two
goroutines of shutdown. Of net/http it has what servers.go relies on; this is
written at the top of the module. It implements ProcessPhases, and IngestionApi
implements it too: this is why the simpler process inside IngestionApi may be
trusted. The refinement mapping `Phase` puts the closing of the doors at the
moment when both servers have been told and neither accepts any more.

**ApiStartup** models what comes before: `Load` with its defaults, parsing and
Validate; `OpenSQLite`; AutoMigrate one statement at a time, so that a kill can
leave part of the schema; the constructors, which check the limits again; and
the two ports. An environment is a function from variables to values, `Unset` or
`Malformed`; `ToLower` is what Load and Validate do to LOG_LEVEL. Addresses are compared as texts, as Validate does, and bound as
ports (`Socket`), as the operating system does.

**LogstashDelivery** models the deployment from the log file to the table. The
API in it is IdempotentStore with the answers of IngestionService: calls are
atomic, which is what the refinement of IngestionApi justifies. A late call is a
body in `late` that may still arrive at any time. `Posted` keeps the lines of a
batch at their places and leaves out those that are not posted. `file` is one of
several log files (`LogFiles`), and lines have a `Size`: a body above `MaxBody`
is answered with 413, which Logstash does not retry.

**LogFilter** (no state) is the part of a read that all queries share: which
parameters are refused, what the filter selects, the order and the slice of a
page: `Position` is how many selected rows ORDER BY puts before a row, plus one,
and `Ordered` lists the rows by it. SQLite compares times as texts, so `Earlier`
puts the year 10000 between 1000 and 1001, and what lies before 0000 first
(`TextRank`). `Wrap` gives int its overflow. **LogQuery** is the list query from
its parameters to the page, its COUNT and its SELECT as two steps of a read
transaction, while `Ingest` adds rows. A reader walks from page to page as long
as the last answer says there is more. It implements SnapshotReads, and for that
reason **PublicApi** may read in one step. PublicApi is the public server as a
client sees it: `pc[c]` goes from "gate" over "ping", "handle", "acquire" and
"read" to "written", /healthz past the gate; an ingestion (`Writer`) holds the
connection for as long as it likes, then commits or rolls back. `Panics` is
Recovery, which gives the connection back and answers 500; `Finish` is
RequestLogger's entry. The detail query, both statistics, and rows that the
driver cannot scan or the encoder cannot write are modelled here.

**LevelStats** models counting, ranking and rounding of level shares in tenths
of a percent.

**LogProducer** is the loop of `runProducer`: a write to stdout, to stderr in
every fifth cycle (`StderrEvery`), to the file; the two selects with the
context; the sync. A line is an event, an event glued to the torn line before
it, or a text. Around it are the operator's starts, with or without
PRODUCER_RUN_ID, Docker's `on-failure` restarts, kills and failing writes, and a
collection that keeps the first event of each source_event_id, as
LogstashDelivery and IngestionApi do.

**EventVerifier** walks the pages of a window while `Store` adds rows, checks
total, order and IDs as fetchWindow does, then the events as verifyItems does,
and sleeps and walks again until `late`. A page is from one state of the table:
this is `PagesAreSnapshots` of LogQueryProofs.

**QueryBenchmark** seeds batches, validates the query, lets workers measure
until the deadline, and judges. The times of a worker are a bag over the
latencies. It may run again over a database an earlier run has left, with a
batch of that run still on its way. A batch is stored whole and an event once,
as IngestionApi shows.

Operators introduced by "Seeded fault" are plausible mistakes in the operator
below them (a lookup instead of the unique index, a COMMIT error not looked at,
a missing second sort key). No behaviour specification uses them; they
document, and let one test, what each property would catch.


## 3. The runs

| Run | Instance | States | What it shows |
|---|---|---|---|
| resubmission | starting deliveries with and without source_event_id, for container and file, up to 3 edits | 15 363 | IdentityIsExact, SpellingNeverMatters |
| ingestion_api | 2 requests, 10 calls, SQLite codes 5, 6, 10, 517, one failure, one stop or crash, fairness | 274 052 | NoDuplicateEventID, ConfirmedIsStored, CountsAreExact, FirstWriteWins, ClosedGateHolds, EveryCallEnds; the refinement of IdempotentStore |
| delivery | a file of five lines of all shapes that fit, a file with one line above the body limit, batches of 2, room for 4, two faults of any kind, fairness | 24 288 | OnlyTooLargeIsLost, EveryLineArrives, EveryBatchEnds |
| zero_time_line | a line with Go's zero time and a good one, no faults, fairness | | violation of EveryBatchEnds (section 6) |
| servers | 2 requests to either server, 2 failures, 2 stops, fairness | 22 385 | ReadyMeansBound, CleanExit, NoPortLeft, StopsInTheEnd; the refinement of ProcessPhases |
| list_query | 2 readers, 15 first requests, 2 rows to begin with and 2 more, ints of 4 bits, one failing read | 331 759 | NothingIsMissed, OnlyShiftedAreRepeated, NoInternalError, SubmittedIsFound; the refinement of SnapshotReads |
| level_stats | every table of up to 12 rows over 5 levels | 6 188 | RoundingOnly |
| public_api | one client with 2 requests of 7 kinds beside ingestions, one fault, fairness | 116 042 | DetailIsWhatWasListed, StatsAgreeWithList, EveryAnswerIsLogged, OnlyFarTimesFail, EveryRequestEnds |
| log_producer | 2 cycles, 2 starts, 1 restart, 1 fault, fairness | 81 249 | OnlyGivenIDsAreDropped, CompletedRunIsComplete, EverythingArrives |
| event_verifier | 3 events expected, 6 that may come, pages of 2, one failing request, fairness | 358 864 | PassIsTrue, FailureIsReal, VerifierDecides |
| api_startup | 14 environments, one change, 2 faults, fairness | 26 179 | ServesOnWholeSchema, AcceptedIsServed |
| query_benchmark | 2 runs over one database, 3 batches, 2 workers, up to 22 queries, one fault, fairness | 363 291 | FreshIsMeasured, VerdictIsTrue, BenchmarkEnds |

Type invariants are proved for every instance (section 5); that of LogProducer
is an invariant of its run as well.

Bounds, and why they are enough for the cases they are meant for:

* `MaxEdits = 3`: two deliveries that differ in service, source event ID and one
  further field, or in the absence of the ID and two position fields.
* `Requests`: two handlers meet at the connection and on a key in every order.
  `MaxFaults = 1`, `MaxStops = 1`: the properties speak of one call and what was
  stored before it, and a restart follows every stop, so calls after it are
  included. What depends on the number is covered by the proofs.
* `QueueMax = 4` with windows and batches of 2: the queue fills up, with and
  without batches that wait for their checkpoint. `MaxBody = 2` with lines of
  size 1 and one of size 3: a batch fits, or is too large for its one line, which
  takes a good neighbour with it. Two faults allow a lost call that arrives after
  a crash and its repetition.
* `MaxFailures = 2`, `MaxStops = 2`: both servers fail, or a signal meets a
  failing server, and the process starts again afterwards. Failures of a running
  server are counted together with stops so that it ends within the bounds.
* `MaxInt = 7` with pages of up to 3: page numbers on both sides of the overflow
  check, whose product wraps to a negative and to a positive offset.
* `MaxRows = 12`: the percentage of a count depends on the fraction only;
  fractions with denominators up to 12 include ten with one of five levels each,
  whose shares do not add up to 100%.
* `MaxRequests = 2` of one client: a list and then the detail of a row in it, or
  two readings of one ID, with any number of ingestions between and beside them.
  One fault is one failing statement, rollback, panic or hang-up; a second could
  not meet the first in the same request. Competing clients are competing readers
  of list_query and requests of ingestion_api, on the same connection.
* Times: `FirstInstant = -2`, `Instant1001 = 2`, `LastInstant = 9`. Rows on both sides
  of the year 1001; in public_api one that UTC moves before the year 0000 and one
  that it moves after 9999; in list_query such a bound of a query.
* `Cycles = 2`, `StderrEvery = 2`, two starts and a restart: a cycle with and one
  without stderr, a process with the run ID of one that has died after any of its
  writes, and one that ends a run another has begun.
* Verifier: a table of two full pages and one of one and a half, so that rows
  come before, between and after the pages; `Sound`, `Name` and `Wanted` make an
  event wrong in each of the ways verifyItems looks for.
* Environments: the defaults; a log level in capitals, known and unknown; each kind of setting missing, malformed and on
  both sides of a bound another setting has; two addresses that are one port as
  texts, and two that are one port only for the operating system.
* `Records = 45`, `BatchSize = 20`: two full batches and a short one. 22 queries:
  up to 20 none may be slow, from 21 one may.

Deadlock is not checked where requests, lines or edits are used up by design or
where a program ends; each configuration says so.

## 4. Fairness

* `IngestionApi!FairSpec`: weak fairness of each handler's own steps. The Go
  scheduler runs runnable goroutines, and database/sql hands a connection that is
  given back to one of its waiters. Nothing is assumed of clients, of the process or of faults.
  Weak fairness is enough although the connection is contended, because requests
  are finitely many in the instance and each releases it.
* `ServerLifecycle!FairSpec`: weak fairness of Run and of the serving and
  shutdown goroutines. Handlers need not return; ShutdownReturns is always
  possible because of the deadline.
* `LogstashDelivery!FairSpec`: weak fairness of each running process (reading,
  the pipeline, the checkpoint, the API answering, a refused connection being
  noticed) and of the API's restart (`restart: unless-stopped` in compose.yaml).
  Faults are unfair and bounded, so the liveness properties say: if things go
  wrong only finitely often. A publication whose acknowledgement is lost does
  not count as progress, hence `WF_vars(Publish /\ UNCHANGED faults)`.
* `PublicApi!LiveSpec`: weak fairness of a handler that runs, strong fairness of
  one that waits for the connection: database/sql hands a connection that is given
  back to a waiter drawn at random, so one that waits while it is given back again
  and again gets it almost surely, though within no bound. Ingestions are not fair: they may hang. That the connection is not
  with an ingestion for ever is therefore an assumption inside EveryRequestEnds,
  for every route except the liveness probe.
* `LogProducer!LiveSpec`: the running process goes on, Docker restarts as
  compose.yaml says, and the pipeline collects what is written, which is
  EveryLineArrives of the delivery. The operator need not start anything.
* `EventVerifier!LiveSpec`: the program goes on, and an event that has been
  delivered comes to be stored. When it comes is open, before or after the
  deadline.
* `ApiStartup!LiveSpec`: the starting process goes on. Restarts follow failures;
  changes of the environment and faults are bounded and not fair.
* `QueryBenchmark!LiveSpec`: the running program goes on, its deadline included.
  Starting it again is not fair.

The zero_time_line counterexample is found under this fairness: the pipeline
works on and still never finishes.

## 5. What is proved

For all values of the constants that satisfy the assumptions of the modules:

| Module | Theorem | Statement |
|---|---|---|
| IngestionApiProofs | TypeCorrect | `Spec => []TypeOK` |
| | NoDuplicates | `Spec => []NoDuplicateEventID` |
| | ConfirmationIsTrue | `Spec => []ConfirmedIsStored` |
| | Atomicity, ErrorsAreHonest | `Spec => []BatchIsAtomic`, `[]ErrorStoresNothing` |
| | RowsAreForGood | `Spec => FirstWriteWins` |
| | AnswersAreExact | `Spec => []CountsAreExact` |
| | GateStaysShut | `Spec => ClosedGateHolds` |
| | Refinement, PhasesKept | `Spec => ImplementsStore`, `ImplementsPhases` |
| | IdentitiesAreExact | `ResubmissionSpec => []IdentityIsExact`, for any texts |
| | RespellingsAreAnsweredAlike | `ResubmissionSpec => []SpellingNeverMatters` |
| | OnlyZeroTimesFail | of all submissions, only an unnamed event at Go's zero time is an internal error |
| ProcessProofs | TypeCorrect | `Spec => []TypeOK` |
| | ReadyIsBound, ZeroIsClean, PortsAreFreed | `Spec => []ReadyMeansBound`, `[]CleanExit`, `[]NoPortLeft` |
| | PhasesKept | `Spec => ImplementsPhases` |
| | StartIsTypeCorrect, LoadCoversConstructors | `StartupSpec => []StartupTypeOK`, `[]NoConstructorRefuses` |
| | MigratedBeforeServing, LimitsAreKept | `StartupSpec => []ServesOnWholeSchema`, `[]ServesWithinLimits` |
| LogQueryProofs | TypeCorrect | `Spec => []TypeOK` |
| | PagesAreAccepted | `Spec => []NoInternalError`, for ints of any width |
| | PagesAreSnapshots | `Spec => ImplementsSnapshots` |
| | WalksMissNothing, RepeatsAreShifts | `Spec => []NothingIsMissed`, `[]OnlyShiftedAreRepeated` |
| | SubmissionsAreFound | `Spec => []SubmittedIsFound` |
| PublicApiProofs | TypeCorrect | `Spec => []TypeOK` |
| | ListedRowsStay | `Spec => []DetailIsWhatWasListed` |
| | AnswersAreLogged | `Spec => []EveryAnswerIsLogged` |
| | CountsAgree, ReadsAreAnswered | `Spec => []StatsAgreeWithList`, `[]OnlyFarTimesFail` |
| | SharesAddUp | `StatsSpec => []RoundingOnly`, for any table and levels |
| LogstashDeliveryProofs | TypeCorrect | `Spec => []TypeOK` |
| | LossesAreTooLarge | `Spec => OnlyTooLargeIsLost` |
| AcceptanceProofs | TypeCorrect | `Spec => []TypeOK` of LogProducer |
| | DroppedIDsAreGiven, CompletedRuns | `Spec => []OnlyGivenIDsAreDropped`, `[]CompletedRunIsComplete` |
| | WalkIsTypeCorrect, WalksAreSnapshots | `VerifierSpec => []VerifierTypeOK`, `[]ItemsAreOneSnapshot` |
| | PassesAreTrue, FailuresAreReal | `VerifierSpec => []PassIsTrue`, `[]FailureIsReal` |
| QueryBenchmarkProofs | TypeCorrect | `Spec => []TypeOK` |
| | OwnSeedIsMeasured, VerdictsAreTrue | `Spec => []FreshIsMeasured`, `[]VerdictIsTrue` |

So every safety property a passing run checks, and every refinement, is also a
theorem.

Few of the invariants are inductive as they stand. Each module of proofs begins
with the strengthening `IInv` (`VerifierIInv`, `StartIInv` for a second
component), and proves that it holds at first and is kept by every action.

*IngestionApi.* That no key is stored twice says nothing of a transaction that
is about to commit. `IInv` adds `OneOwner` (whoever is between BEGIN and COMMIT
holds the connection, and nobody else), `TxHolds` (the open transaction holds
exactly the rows that are fresh now: others cannot have changed the table
meanwhile, by OneOwner), `CallIsMade`, and `RowsAreExplained` (a row's call has
committed all its keys and is never answered with an error afterwards). A commit
then adds each key once and completes the keys of its call. That FreshRows
together with the table has all keys of a call needs the least index of a key in
the batch (`LeastElement`, from the well-foundedness of the naturals). For the
refinement, Commit maps to Take, Respond to Confirm or Refuse, a lost process to
Lose, every other step of a request to a stutter; a call without valid events is
confirmed without being taken. For the phases the drain's guard, that no handler
is in flight, is the abstract one by the mapping of `working`. The counts follow
because a request owns no row before its commit, which gives it as many as its
transaction inserted, and nobody adds or removes one later.

*Identity.* No step is needed here beyond that edits lead from submission to
submission; the work is in what preparation computes. A text is its three
fields, and trimming and folding keep the word and, where it counts, the case
(`TextFacts`); so trimmed texts, and optional ones, are equal exactly when the
words of the identity table are (`SameWordIsTrimmed`). A fingerprint is then
decided by its parts, three for a named event and eight for a placed one
(`NamedIdentity`, `PlacedIdentity`, `IdentityTellsApart`); an absent container ID
becomes the empty text, which no present one is after trimming
(`SameContainers`). A respelled delivery fails the same of the
twelve checks, hence the same one first (`SameFailures`), and normalises to the
same event. What passes all twelve (`ValidPasses`, `ValidEvent`) leaves
fingerprintInput one condition that can still hold.

*ServerLifecycle.* The place of Run says what its goroutines may have done: until
the gate is closed nobody has been told to shut down, so what a serving goroutine
has sent is an error (`BoundOrFailed`, `OneResultEach`), and Run leaves its select
with it or with a signal (`AskedOrFailed`, `StopIsLeft`). Once Shutdown has
returned nil for a server, it accepts no more and has nobody left
(`DrainIsOver`).

*LogQuery.* A read that has begun holds the connection, so its count still
stands when its page is read (`CountStands`). The product of page and size is
bounded by the check of resolvePagination (`ProductBound`), so `Wrap` is the
identity on it. For a whole walk `WInv` says where it stands. New rows raise the
position of a row that was there at first and never lower it, so what lies
within the pages answered has been shown (`NothingBehind`), and once the walk has
seen as many rows as the last count, that is all of the first rows
(`AllAtTheEnd`). Repetition is a balance: rows shown, counted with repetition,
plus rows shown that lie ahead again, are at most the different rows shown plus
the matching rows that came since (`Repeats`). An ingestion adds at most one to
the second and one to the last, and a page moves what it repeats from the second
to the first (`PageRepeats`). Both rest on `Position` being a bijection from the
selected rows to 1..n.

*LogstashDelivery.* A status that ends a batch is the API's own decision on the
batch at the head of the queue, and what the API took of it is stored
(`FinalAnswerIsTrue`): a late call can only add to the table, and the batch stays
what it is while lines join the queue behind it. A batch of the configured size,
posted without the lines of wrong types, is refused for its bytes or for nothing
(`FinalAnswers`). What leaves the queue with a batch is the batch
(`RestOfQueue`).

*PublicApi.* A row is numbered once, when it is committed, and stays
(`RowsAreNumbered`); lists show committed rows (`ListsAreStored`); and a client's
knowledge grows by its own lists only, so none of it is newer than the detail it
is waiting for (`DetailsAreTrue`). Every step of a client asks, moves on, answers
or logs (`ClientsMove`), which leaves four cases instead of ten for each part of
the invariant.

That list and statistics agree is a fact about the operators: the groups of the
statistics partition the rows the list selects, so their counts add up to its
total (`SumOfFibres` in FoldLemmas), and the refusals are decided by the same
parameters. That only times outside the years 0000 to 9999 fail needs that a
client who hung up is a fault (`HangUpsAreFaults`) and that what an answer was
made from is still stored (`RowsAreStored`).

*LevelStats.* A percentage rounded to tenths is off by half a tenth at most
(`RoundedHalf`, in integers); levels without rows add nothing to the total, so
the exact shares of the others add up to the whole (`WholeResult`), and the
rounded ones miss it by half a tenth for each.

*LogProducer.* The place of a process in its cycle says what it has written
(`Place`, `RunIsWritten`): every number below the current one, and of the current
one the streams that come before its place. A torn line can only be glued to a
first event (`LinesAreSound`). Lines of a stream come in the order of the
processes (`BootsInOrder`), so the event kept under an ID is that of its oldest
process (`FirstIsKept`); a run ID that was not given is the number of its
process, so two processes that share one were given it.

*QueryBenchmark.* A run leaves its seed only if the inserted rows it was told of
are all its fixtures. They are counted against the fixtures stored for this run
(`Counts`), so all of them are its own and none is an earlier run's (`Whole`).
The verdict follows from the thresholds on the percentiles
(`VerdictIsThresholds`), and a percentile within its threshold leaves no more
slow samples than the rank has behind it, whatever the latencies.

*EventVerifier.* Rows are numbered as they come and none goes, so an unchanged
total means an unchanged table, and as many different rows as the table has are
the table. *ApiStartup.* Load checks at least what the constructors check; a
process gets past Migrate only on a whole schema, and no step takes a part of it
away; a port is bound once.

The assumptions are those named in the modules: forms of calls and requests,
bounds and codes are numbers, `Nobody` is nobody, batches of the deployment are
within MAX_INGEST_BATCH_SIZE (`BatchFitsCall`), the rows there at first come from
events that can be stored, nil is none of the values beside it, the instants
LogFilter names come in their order, lower case is stable, and in LogQuery the
times of stored events lie in the years 0000 to 9999. TLC evaluates them in the
runs. Otherwise nothing is assumed of `Input` in IngestionApi and
LogstashDelivery: events may be anything PrepareLog is defined on.

Only model-checked:

* liveness (EveryCallEnds, EveryLineArrives, EveryBatchEnds, StopsInTheEnd,
  EveryRequestEnds, EverythingArrives, VerifierDecides, AcceptedIsServed,
  BenchmarkEnds): liveness under fairness is outside what the prover handles;
* the size of a body: BodyBytes, a fold over a batch, enters LossesAreTooLarge as
  an unknown number.

## 6. Where documents and code differ

**A batch that never ends** (zero_time_line). An event without source_event_id
and with `logged_at` 0001-01-01T00:00:00Z is valid for NormalizeEvent, and a
plain error for `fingerprintInput` (`internal/ingestion/event_id.go:118`); by
OnlyZeroTimesFail no other event is. The batch fails with 500, Logstash repeats
it, and everything behind it waits.
ADR-001 (line 159) and UC-001 (line 202) rule this out.

Four more statements hold in a weaker form, which a passing run makes exact:

* FR-013 (`docs/requirements.md:275`) promises neither omission nor repetition
  over pages. Offsets count from the newest row, so a row ingested between two
  pages repeats one already shown. NothingIsMissed holds;
  OnlyShiftedAreRepeated says that no more rows repeat than came meanwhile.
* FR-014 (`docs/requirements.md:282`) allows shares to be off by 0.1%. Counts of
  10, 1, 1, 1, 1 give 99.8%. RoundingOnly bounds the error by the number of
  levels.
* FR-012 (`docs/requirements.md:268`) has every stored row readable. A time
  with a zone may leave the years 0000 to 9999 when it is moved to UTC
  (`internal/ingestion/normalize.go:173`): 9999-12-31T23:00:00-08:00 comes to lie
  in the year 10000, 0000-01-01T00:00:00+08:00 before the year 0000. Neither the
  driver nor encoding/json gives such a time back; OnlyFarTimesFail says that
  nothing else fails.
* `docs/log-producer.md:21` speaks of whole lines in the file. A write cut short
  (`cmd/log-producer/producer.go:67`) leaves half of one, and the first event of
  the next process is glued to it; CompletedRunIsComplete says what a completed
  run has nevertheless.

## 7. What is abstracted, assumed or left out

* SHA-256 is injective on fingerprints: an event ID is its input. JSON encoding
  of the fingerprint is injective because its fields are fixed strings and an
  integer.
* A COMMIT that reports an error has added nothing, a cancelled transaction is
  rolled back, and committed rows survive a kill of the process: SQLite and
  database/sql. Handlers that outlive main's Close of the database are lost with
  the process.
* A cancelled context is noticed at any later step or not at all.
* Filebeat and Logstash: at-least-once reading, a queue that drops a batch only
  when the output is done with it and remembers that at a checkpoint, endless
  retries of the configured codes. These are modelled from the configuration
  files and marked where they are not in them. Rotation of the collected files,
  container discovery and Filebeat's JSON decoding are represented by the shapes
  of a line.
* Go's float64 gives calculatePercentage the exact rounding of the model for
  totals below 1000, well above the bound of the runs.
* A verifier's window is the whole table: buildListURL cuts its ends to seconds
  (`test/e2e/verify_events.go:401`), and the acceptance script passes whole
  seconds.
* The producer without a limit of cycles (its default) differs only in stopping
  by a signal. A configuration it refuses ends it as a failing first write does.
* `LOG_LEVEL` is validated and used nowhere. gormDB.DB() does not fail after
  OpenSQLite. SHUTDOWN_TIMEOUT may exceed Docker's stop_grace_period
  (`compose.yaml:46`); the kill that follows is ServerLifecycle's Crash.
* Shell scripts, CI and the Docker build call these programs in sequence; they
  are not modelled. Neither are log texts, the contents of indexes, the
  attributes of a log entry other than ID, status and level, and the figures of
  the benchmark's report other than its verdict.

## 8. Plan

Order of work; what is done is described above.

1. Done: preparation and identity; ingestion API with its process; abstract
   store and abstract process; start and configuration; server lifecycle; list
   query with abstract reads; the rest of the public API with its middleware;
   statistics; delivery with bodies that are too large; producer, verifier and
   benchmark. Proofs of every safety property the runs check, and of the four
   refinements.
2. Next lemmas: preparation of a stored row yields the same row (a fixed point);
   the verdict of an event under a respelling in a batch, from
   RespellingsAreAnsweredAlike.
3. Next compositions: LogstashDelivery on top of IdempotentStore by INSTANCE
   instead of by its answers; the collected line from producer to page.
