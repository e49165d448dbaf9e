# Verification of the UFM telemetry service

TLA+ models of the telemetry service in `src/`, the TLC runs that check them,
and theorems about them with proofs checked by TLAPS. `PROJECT.json` lists the
components, runs, mutants, findings, hazards and theorems, and the source lines
each definition stands for.

## The system

A generator (or a UFM) serves CSV telemetry over HTTP. The service polls it,
keeps the latest record of every switch in memory, stores all records in
PostgreSQL and answers REST queries from memory.

    DataGenerator --HTTP--> GeneratorClient --IngestBatch--> telemetryService
                                                                |
      HTTP handlers --> QueuedTelemetryService --> RequestQueue |
                              |  (optional)            |        v
                              +------------------------+--> HybridStore
                                                             |       |
                                                    InMemoryCache  PostgreSQL

| component | state | operations | hard behaviour |
|---|---|---|---|
| request queue (`telemetry/queue/request_queue.go`) | bounded channel, response channels, worker pool, counters | QueueGetMetric, QueueGetAllMetrics, workers, Start, Stop | full channel, late answers, panicking handlers, shutdown against callers and workers |
| hybrid store (`telemetry/storage/hybrid.go`) | flush queue, writer state, counters, hs.ctx | UpdateMetrics/UpdateBatch, StoreMetricsBulk, FlushToDatabase, flushWorker, Start, Stop | two readers of one channel, retries, lost commits, drain at shutdown |
| repository (`storage/repository.go`), schema (`scripts/migrations/`) | tables `switches` and `telemetry_metrics` | BulkStoreMetrics, CreateSwitch, queries | ambiguous commits, rows the schema refuses, a closed database |
| cache (`storage/cache.go`) | two maps, two counters under an RWMutex | updates, clean-up, reads | counters raced by readers, multi-step reads |
| telemetry service (`telemetry/service.go`, `service_with_queue.go`) | whether the queue is used | ingestion, registration, queries, health, Start, Stop | reads in two critical sections, queued and direct queries side by side, stop order |
| generator client (`telemetry/client/generator_client.go`) | tracking, counters, worker | poll, deduplicate, parse, register, ingest, Start, Stop | failures at every stage, Stop under the worker's mutex |
| data generator (`cmd/generator/main.go`) | current ID, published data | generateData, handleCounters | ID and data published at different times, restarts |
| application (`app/app.go`) | services, deadline | newServices, Start, Wait, Stop | shutdown order, a client that outlives its Stop, services that were not created |
| HTTP server, handlers, middleware (`http/`) | listener, requests in flight, two collectors | requests, recovery, measurements, GracefulStop | panics through the middleware, requests open at a shutdown |
| configuration (`sysconfig/`, `config/`) | key-value map, published Config, watcher | load, reload, merge, typed getters | half-written files, merged events, unsynchronised reload |
| monitoring, tracing, logging, identity | none or write-only | I/O and formatting | none |

What makes each correct:

* queue: a request is served at most once, its caller gets one outcome and its
  own answer, Stop ends everybody, the counters balance;
* store: a batch has one owner, is acknowledged at most once, is not lost
  silently while the store runs, the counters agree with the database;
* ingestion: every poll is accounted for, a generation is ingested at most once
  and in order, and what is skipped was ingested; Stop ends;
* cache: an answer is not dated before its data, the counters never count too
  much, and what it has of a switch is not older than what the database has;
* rows: a generation that will not be asked for again is in the database with
  every row that could be read;
* API: an answer was true while its client waited, each request is answered and
  counted once, and no worker reads a store that is stopped;
* application: what the client takes for seen is in the database, once, as far as
  it had rows that could be read; a shutdown ends, and cuts nobody off before its deadline;
* configuration: the last write of the file takes effect, whatever the watcher
  read on the way, and no setting flickers.

## Modules

| module | models | state and actions |
|---|---|---|
| `RequestQueue` | the request queue | `requestChan`, `closed`, `cancelled` are the Go fields; `call[r]` is where the goroutine of call `r` is, `worker[w]`/`holding[w]` a worker of the pool, `response[r]` the content of the response channel. `TrySend`, `IncrementQueued`, `IncrementDropped`, `ReceiveResponse`, `TimeOut`, `SeeShutdown` are the steps of a caller; `TakeRequest`, `Answer`, `AnswerPanic`, `IncrementProcessed`, `WorkerExit` those of a worker; `StopCancel`, `StopClose`, `StopWait` the three parts of Stop |
| `RequestService` | what the queue promises | `phase` and `work` of each call; `RequestQueue` implements it by the mapping at its end |
| `HybridStore` | the store and its use of BulkStoreMetrics | `flushQueue`, `entry[b]` (the call that brought batch `b`), `pc`/`attempt`/`load` of each writer in `writeToDatabase`, the loop of `flushWorker`, `hsCtx`, the counters, and the rows of each batch in the database: acknowledged (`stored`) or committed with a lost answer (`orphaned`) |
| `DurableSink` | what the store promises | `status` of each batch: new, refused, pending, durable, lost |
| `DataGenerator` | the generator | `BeginGeneration` writes the ID, `PublishGeneration` replaces the data, `Restart` is a crash; a generation is the instant at which it began |
| `GeneratorClient` | the polling client | `pc` is the worker, `reply` the poll in hand; one action per step of `fetchAndProcessData`; `MuFree` is false while Stop waits with `gc.mu` held; `ingested[g]` counts the successful `IngestBatch` calls for a generation |
| `Ingestion` | both, joined by the request | `FetchCounters` hands `handleCounters` to `Fetch` |
| `InMemoryCache` | the cache under the service's queries | a record is the instant it was stored at; a reader's `requestCount++` and `hitCount++` are a load (`BeginRead`, `Lookup`) and a store (`CountRequest`, `CountHit`); `GetLastUpdate` is the second critical section of `GetMetric` |
| `TelemetryRows` | rows from the generator's answer to the tables; extends `InMemoryCache` | `poll` is the client's worker, `content` the rows of each generation, good, garbled or refused by the schema; `registerSwitchesFromData`, `UpdateCache` and `WriteToDatabase` are what a poll does to the tables and the cache; `record[s]` is the row the cache has |
| `QueuedService` | a request from the server to its answer; extends `RequestQueue` | `handler[r]` is the goroutine of a request, which is call `r` of the queue if it goes through it; `ReadCache` is the handler behind the queue, `cache` the version of the one switch asked for; `inFlight` and `httpRequests` are the collectors of the metrics middleware; `main` is the part of `app.Stop` that stops the queue, the base service and the server and waits for it and for the 2 s of `closeServiceContext` |
| `Application` | the process: `app.go` over the client and the store | `main` is the goroutine of main, `http` and `queries` the HTTP server and its handlers, `deadline` the 10 s of Stop. `GeneratorClient` and `HybridStore` are instances whose worker and writer it renames (`poller`, `writer`); poll *n* that ingests makes the one call `StoreMetricsBulk` with batch *n* (`BeginIngest`, `EndIngest`), and `payload[n]` is the generation it carries. A generation in `Blank` has no row that the parser can read: its empty batch succeeds without a call to the store (`IngestNothing`). `closeServiceContext` is the goroutine of 2 s that the end of the process waits for |
| `SysConfig` | `sysconfig.go` and `config.go` | `data` is the map, `config` what `Get` returns; `init` is the goroutine of NewService (load, start the watcher, assign, read, publish), `watcher` that of `handleWatchEvents`; `Truncate`, `WriteHalf`, `Write`, `Replace` are what an editor does to the file. A setting is a YAML kind and a value, so that the getters' type assertions are what they are in Go. `Default` is what `getConfigDefaults` has of each key, which for some is nothing and for some differs from the getter's `Fallback`; `Cuts` are the halves of a file that parse, with keys missing, null or cut |
| `MC...` | instances for TLC | values of constants |
| `RequestQueueProofs`, `QueuedServiceProofs`, `HybridStoreProofs`, `IngestionProofs`, `InMemoryCacheProofs`, `TelemetryRowsProofs`, `ApplicationProofs`, `SysConfigProofs` | proofs | see below |

Definitions named `X_Something` are plausible wrong versions of `X`; each makes a
property fail in its run, which shows that the property depends on the code.
They take no part in the specifications.

Abstractions that hold everywhere: timers, tickers, backoffs and deadlines may
fire at any moment; records, payloads and log lines are left out; an action
stands for the code between two points at which another goroutine can interfere
(a channel operation, a lock, a database call).

## Runs

| run | shows |
|---|---|
| `RequestQueue` | 3 calls, 2 workers, channel of 1: `TypeOK`, `OwnedOnce`, `CountersBalance`, the refinement of `RequestService`, and, with fair goroutines, `RequestsServed` although handlers panic. Three calls fill the channel and one worker, or are all dropped, late and served in turn |
| `RequestQueuePanic` | *violated*: `CallersNeverPanic` |
| `HybridStoreQueue` | 2 queued batches, a queue of 1, `flushWorker` and one FlushToDatabase, 2 attempts, failing database, Stop: all safety properties, `LossIsReported`, the refinement of `DurableSink`, and under fairness `BacklogDrains`, `WritesEnd`, `StopReturns`. Two batches fill the queue and let both readers hold one each; two attempts are the least that retry |
| `HybridStoreShutdown` | *violated*: `FlushedAtShutdown` |
| `IngestionPolls` | 3 generations, 5 polls, answers with and without headers: `PollsBalance`, `TracksNewest`, `SkippedByTimeWasIngested`, `IngestedInOrder`, `GracefulStopIsQuiet`, `StopReturns`, `WorkerLeaves`. Three generations give a lost one between two ingested ones; five polls let two fail |
| `IngestionSkips` | *violated*: `SkippedWasIngested` |
| `QueuedService` | 2 requests of any route, 1 worker, channel of 1, an update and a clean-up, a signal at any moment, with and without the queue: `AnswersAreCurrent`, `RequestsMeasured`, `PoolBeforeStore`, `TimelyExitAnswers`, and, without any timer but the 2 s of `closeServiceContext`, `RequestsAnswered` and `ShutdownEnds`. Two requests let one wait behind the other in the queue, or meet the closed channel while the other is served; one version and its clean-up are three states of the cache to tell answers apart |
| `TelemetryRows` | 2 generations out of 5 contents (two rows of a switch, a row out of range or garbled beside a good one, a row without a switch, none that parses), 2 switches, 2 queries (one queued), clean-ups: `CountersNeverExceed`, `NeverDatedBefore`, `TrackedIsComplete`, `CacheNotBehind`. Two generations let the second overwrite, repeat or miss what the first one stored; two readers let a stale load span an increment, two ticks let an entry be stored, read and grow stale |
| `Application` | 3 generations, the second without a readable row, 2 polls, 1 query, failing database with lost commits, 2 attempts, a signal at any moment: `TrackedIsDurable` (a tracked generation has an acknowledged batch or had no readable row), `CommittedInOrder` (no rows are written once they or newer ones were acknowledged), `CountersAgree` (successful polls are writes of the store and tracked generations without a row), `QuietStopEndsIngest`, `CleanExit` (a process that ends in time has no handler, writer or open database left), `ShutdownEnds`. Two polls let one generation be fetched again after a failed ingest, and a newer one follow an ingested or an empty one |
| `ApplicationShutdown` | *violated*: `ArrivedIsProcessed` |
| `SysConfigReload` | 3 edits, a key of each type, two versions of the file and two halves that parse; a string whose default is not its fallback, a bool that only one version sets, to FALSE, an int without a default that half a file has as null: `WritesTakeEffect`, `SettingsSurviveEdits`. Three edits let one fall into the start-up, one into the debounce and one into the merge |
| `SysConfigInts` | *violated*: `IntsAreHonoured` |

Deadlock is not checked: every one of these systems may come to rest, after Stop
or when nobody calls it. No run uses symmetry, since most check liveness.

### Findings

1. **Callers panic at shutdown** (`RequestQueuePanic`). Stop closes the channel
   callers send on; a call issued after that panics. The application stops the
   queue before the HTTP server, so the window is real; the recovery middleware
   turns the panic of a handler into a 500.
2. **A batch vanishes at shutdown** (`HybridStoreShutdown`). After the
   cancellation `flushWorker` may take a batch in its normal loop and write it
   under the cancelled context; it is gone without a count although the drain
   had time.
3. **A generation is skipped** (`IngestionSkips`). The generator publishes the
   new ID seconds before the data. A client that missed the previous data (a
   failed poll, or its start) ingests the old rows under the new ID and then
   takes the new rows for a duplicate. Without the headers the timestamps alone
   are exact (`SkippedByTimeWasIngested`, and `NoHeadersNoSkips` among the theorems). The
   flow document's rule, timestamps
   only when there is no ID, would be worse: it is the mutant that breaks
   `IngestedInOrder`.
4. **The database is closed under an ingest** (`ApplicationShutdown`). `app.Stop`
   means to "complete processing the data that has already arrived", but bulk
   writes are in no wait group: when the client's Stop times out, the store closes
   the database under its worker, or before the worker ingests what it fetched.
   With a client that stopped in time this cannot happen (`QuietStopEndsIngest`).
5. **Whole numbers are ignored** (`SysConfigInts`). `GetInt` asserts `float64`, YAML
   and the defaults give `int`; every integer setting falls back to its hard-coded
   value.

Met on the way, without a run of their own:

* Stop of the client waits for the worker under the mutex the worker needs, so a
  Stop that meets a poll in progress always takes its full 2 s; this is how
  finding 4 comes about.
* `GetMetric` reads a value and its time in two critical sections; an update or a
  clean-up in between dates the value with another record's time or with the
  present. It is never dated before its own record (`NeverDatedBefore`).
* `requestCount++` under a read lock loses increments; it never gains any
  (`CountersNeverExceed`).
* `app.go:281` says "continuing without telemetry" after a failed ping, but `Start`
  then calls a nil service and panics: `main` ends in `"panicked"`.
* The configuration is reloaded, but the services are built once and no update
  listener is registered, so most settings take effect only after a restart. A
  file that is replaced by a rename gives no write event and is not read, nor is a write
  that falls between the first load and the start of the watcher (`sysconfig.go:86-96`).
* `closeServiceContext` closes nothing: a shutdown takes 2 s or more.
* Half a file that parses is merged like a whole one: a key that it cuts before the value
  is a null in the map, and the setting gives way to its fallback until the next write is
  read. `SettingsSurviveEdits` therefore speaks only of settings that no half touches.
* The first Config is published by the goroutine of NewService without a lock: it may
  overwrite a newer one that the watcher has published, until the next write.
* The queue's Stop waits for its pool without a deadline, so the 10 s of
  `app.Stop` do not bound it; that a shutdown ends rests on handlers that return
  (`QueuedService`, `ShutdownEnds`).
* The handlers of metrics answer 404 to whatever goes wrong, a timeout, a full queue
  and a shutdown included; `UFM_TELEMETRY_FLOW_DIAGRAMS.md:412` has 503 for
  timeouts. So a 404 means an unknown switch only if the call was answered, and
  `AnswersAreCurrent` says no more.
* A request whose handler panics is not in `http_requests_total`, because the
  recording is not deferred; the gauge is right (`RequestsMeasured`).
* A miss of the cache is an error: no query falls back to the database.
* One row that violates a CHECK fails the transaction of its whole generation, at
  every poll until the next generation, while the cache serves it;
  `UFM_TELEMETRY_FLOW_DIAGRAMS.md:96` has invalid records skipped. One row with too few
  columns fails the whole CSV, and the test for it in the loop is dead code.
* A generation of which no row parses counts as ingested and as a successful poll,
  without a call to the store (`IngestNothing`); and a switch that could
  not be registered is served from the cache while its rows fail the foreign key.

### Fairness

* `RequestQueue`: weak fairness of each caller (timer excluded), each worker and
  Stop: Go runs every runnable goroutine, and handlers return. Selects with
  several ready arms need no more, since every arm makes progress.
* `HybridStore`: weak fairness of each writer, of `flushWorker`, the helpers and a
  graceful end of Stop: database calls return, for they run under contexts or
  driver timeouts, and backoffs are timers. Neither timeouts nor the end of a
  caller's context are fair.
* `Ingestion`: weak fairness of the worker (the HTTP client has a timeout, so
  fetches end) and of the end of Stop, whose 2 s timer fires; strong fairness of
  the worker's `ctx.Done` arm, because Go chooses at random among ready arms.
  The generator is under no obligation.
* `Application`: weak fairness of the main goroutine's start and stop, of the
  HTTP server's `GracefulStop` and of the deadline, a timer. Nobody has to send a
  signal, and the client, the store and the handlers may hang: `ShutdownEnds`
  holds all the same.
* `QueuedService`: weak fairness, while the process lives, of each handler, each
  caller (timer excluded), each worker, main's Start and Stop and the server's
  `GracefulStop`. No timer has to fire but the 2 s that main waits for in
  `closeServiceContext`, not even the deadline of the shutdown; no request has to come and nobody has to send a signal.
* `TelemetryRows` has no liveness: its polls are those of `Ingestion`.
* `SysConfig`: weak fairness of the two goroutines, and of an editor that has
  truncated the file: it goes on to write it.

## Proofs

`RequestQueueProofs` proves for any finite or infinite set of calls and workers and
any queue size (the sets whose cardinalities the counters are compared with are shown to be finite): `TypeOK`,
`OwnedOnce`, `ResponseChannelFree`, `NoHandlerAfterStop`, `CountersBalance` and
that the queue implements `RequestService`. The inductive invariant is `OwnedOnce`
with types: a request that is buffered is neither held nor answered, a held one
is not answered, and only calls that sent are owed anything. Without the clause
on answers, the send in the recover path could not be shown never to block, and
without uniqueness in the channel two workers could take the same call.
`NoHandlerAfterStop` adds that `stop = "done"` freezes exited workers.
`WaitingIsBacked` is the safety half of what `RequestsServed` and `RequestsAnswered` say:
a caller that waits has its request in the channel or with a worker, or its answer in
the response channel, and the pool is whole until Stop (`AnswersAreComing`). It needs
ownership, and that the channel is closed after the cancellation only.

`QueuedServiceProofs` first shows that every step of the service is a step of the
queue or leaves it alone, so that the theorems about the queue hold in the
service: `ImplementsService`, ownership, the counters and `AnswersAreComing`
(`ServiceQueueIsSafe`). On top of that it proves `AnswersAreCurrent`,
`RequestsMeasured`, `PoolBeforeStore` and `TimelyExitAnswers` for any requests,
workers, capacity and number of updates. What `AnswersAreCurrent` needs is that a
request with a call in the queue is open, so that every version its worker may
read is in its `seen`; a request is measured because its gauge and its counter
change in the step that changes its handler.

`HybridStoreProofs` proves for any sets of batches and flushers, queue capacity and
retry bound `TypeOK`, `OwnedOnce`, `StoredOnce`, `StatsAgree`, `GracefulStopIsQuiet`,
`LossIsReported` and that the store implements `DurableSink`. Three strengthenings
carry the invariants: a fresh batch is nowhere (so an enqueue cannot create a second
owner); a batch in the queue has not been tried, so it has no copy; and a batch held
on attempt *n* has at most *n* copies, or *n* - 1 before the commit of that attempt,
which bounds `orphaned`. `StatsAgree` rests on the additivity of `Items`, an
assumption about lengths of slices that TLC evaluates on the instances. The last two
theorems share one lemma, `StepEffect`: a step changes nothing about the batches,
offers or refuses one, puts the load of a writer into the database, or ends a write
and forgets its load. The first three are steps of `DurableSink` that lose nothing; a
write that ends with rows not in the database was cancelled or has counted an error,
and `flushWorker` is only cancelled after hs.ctx. `WorkerStays` and `WritesShrink` are the
safety halves of `BacklogDrains` and `WritesEnd`: until Stop `flushWorker` is in its loop,
and each step of a write ends it or lowers a measure (`Left`: four steps for each
attempt it has left, and those of the one it is in), for any retry limit.

`IngestionProofs` proves, for any number of generations and polls and for answers
with or without headers, `TypeOK`, `IngestedInOrder`, `TracksNewest`,
`SkippedByTimeWasIngested`, `PollsBalance` and `GracefulStopIsQuiet`. No property is
inductive by itself: that the next rows are newer depends on what the generator
serves. `Monotone` says that served data and rows in hand are never behind the
tracking, even after a restart, because a new generation is later than every old
one; `Recent` says that the tracking is the newest ingested generation, or is about
to be. So rows past the duplicate check are newer than all that was ingested, and
rows stopped by the timestamp are the tracked ones. `NoHeadersNoSkips` shows
that finding 3 is a matter of the IDs alone: with a server that sends no headers
`SkippedWasIngested` holds. The theorems assume what the module does: instants are numbers above the zero time, and the
generator's clock is not set back.

`InMemoryCacheProofs` proves `TypeOK` and `NeverDatedBefore` for any queries, and
`CountersNeverExceed` for any finite set of them. For the counters: what a reader
has loaded counts at most the readers that have stored, and it is not one of them
(`LoadsCount`), so what it stores is at most theirs and its own. For the dates: a
value found under a switch is not newer than what the cache has for the switch
later, unless a clean-up removed it, in which case the date is the present
(`NotOlder`).

`TelemetryRowsProofs` carries `NeverDatedBefore` over to polls of rows, and proves
`TrackedIsComplete` and `CacheNotBehind` for arbitrary contents, failures of
registrations and writes. Rows of a generation are in the table only once the cache
has had its last rows; between polls nothing older than the cache can be written,
because a poll fetches the newest generation. `RowsUseTheCache` shows that the polls use
the cache as `InMemoryCache` has it, so that its theorems hold beside them; and
`CacheMovesForward` that the record of a switch is only replaced by one of a later
generation (`RecordsMoveForward`), since a generation that is polled again puts the same
last row of each switch in the cache (`RecordIsLast`).

`ApplicationProofs` proves `TypeOK`, `TrackedIsDurable`, `CountersAgree`,
`QuietStopEndsIngest` and `AcknowledgedOnce` (defined there) for any generations, polls,
queries and retries. One inductive invariant, `IInv`, has them all: a batch that is being written
is that of the poll in hand, whose worker is at the ingest (`BatchOfPoll`); it is in
the database from the commit on; rows past the duplicate check are newer than the
tracking, and what is in the database is tracked or is the poll in hand (`Newer`); what the
client has taken for seen, rows or none, is not newer than its tracking, so that a
generation without rows is counted once (`Seen`). The
client's part and the store's part need each other: without `Newer` a second poll
could store the same rows, without `BatchOfPoll` the client could track what was not
stored. `CommitsFollowGenerations` (`CommittedInOrder`) follows from it: whatever commits is
the load of the poll in hand, which is newer than the tracking, and what was acknowledged
is not.

The same module shows that the process implements `HybridStore` (`StoreInProcess`): `Store`
takes the polls for its bulk batches and has no queued ones, and each step of the process is
a step of the store or leaves it alone. The lemmas before it discharge the
assumptions that `HybridStore` makes of its constants. The theorems of `HybridStoreProofs`
are then used as they stand, through an instance of that module (`StoreProofs`):
`StoreKeepsPromise` is the refinement of `DurableSink`, `StoreIsSafe` ownership, single
acknowledgement, statistics, the stay of `flushWorker` and the quiet end.
`TimelyExitIsClean` (`CleanExit`) needs both sides: a Stop of the store that has returned
before the deadline did so because nobody was left, and a client whose own Stop did not
time out has left before the store is stopped.

`SysConfigProofs` proves `TypeOK` and `SettingsSurviveEdits` for any keys, versions of
the file, halves of one, defaults and edits: a key without a default may be unset, one with
a default never is; and a setting that Config has, other than a default, is in the map or
the watcher is about to merge it, and no version or half takes it back. `IdleWatcherIsCurrent` (`IdleIsCurrent`) is the safety half
of `WritesTakeEffect`: a watcher that goes back to its select with no event pending leaves
the file in force. While it debounces the file may change, and each change since the read
has its event in the channel (`Followed`, `EditShows`). A rename has none, and the property
excepts it; an edit before the watcher was there has none either, but the file is read
anew at every event, so that one is all it takes. The theorems assume that no version of the file is
empty of settings, which is what tells a version from a truncated file.

`RequestQueue`'s `ResponseChannelFree` (a worker never finds the response channel of
its request occupied) and `NoHandlerAfterStop`, and the type invariants of the modules
other than `RequestQueue` and `HybridStore`, are theorems that no run checks again; nor do
the runs repeat `AnswersAreComing`, `WorkerStays`, `WritesShrink`, `IdleIsCurrent`,
`RecordsMoveForward` and `AcknowledgedOnce`, which were checked with TLC on the instances of
their modules before they were proved.

Only model-checked: liveness (fairness and ENABLED are out of the prover's reach):
`RequestsServed`, `RequestsAnswered`, `BacklogDrains`, `WritesEnd`, `StopReturns`,
`WorkerLeaves`, `WritesTakeEffect` and `ShutdownEnds`, the first three, `WritesEnd` and
`WritesTakeEffect` with their safety halves proved as above. The
violated properties are shown by their counterexamples. Queued and bulk batches that
are written side by side are in the theorems about the store, for any number of
each; no run has both.

## Not modelled

* What handlers format, the statistics of `/telemetry/performance` and the constant
  list of metric types, trace and tenant identifiers, the periodic system metrics,
  tracing, logging and identity: I/O without state that others read.
* `LoadFromDatabase`, `checkGeneratorConnectivity`, `MetricsRepository`, `IngestMetrics`,
  `HandleListAllSwitches`, `AddUpdateListener`, `Clear` and `GetSnapshot`: nothing in the
  service calls them.
* The store's `GetSwitch` and the repository's queries other than `ListSwitches`: they
  read, and nothing in the service calls them. `StoreMetrics`, which the store takes only
  for a repository that is not the PostgreSQL one.
* A timestamp that neither parser reads (`generator_client.go:501-534` answers the zero
  time): the generator always writes one of the formats. The guard of line 492 is in
  `isDuplicateData`.
* The queue as a part of `newServices` (`app.go:298-310`) is not in `Application`, whose base
  service takes no requests: `QueuedService` has it, with its Stop that has no deadline.
* The clock of the generator is assumed not to be set back, and the client is
  started once, as the application does.
* No module has the whole process at once: `Application` has the client and the store,
  `QueuedService` the requests and the queue. What joins them are the cache, which each
  of them gives an update or a reader at any moment, and the order of `app.Stop`, which
  both have.

## Plan

1. *(done)* `RequestQueue`, `RequestService` and their proofs.
2. *(done)* `HybridStore`, `DurableSink` and the proofs of the invariants.
3. *(done)* `DataGenerator`, `GeneratorClient`, `Ingestion`; `InMemoryCache`.
4. *(done)* `Application`: newServices, Start and Stop over the client, the store
   and the HTTP server.
5. *(done)* `SysConfig`: the editor, the watcher, the reload and the readers.
6. *(done)* `QueuedService`: a request through server, middleware, handler, queue and
   cache, and the shutdown of all of them. `TelemetryRows`: the rows of a poll through
   parser, registration, cache and schema.
7. *(done)* The proofs of `Ingestion`, `InMemoryCache`, `QueuedService`, `TelemetryRows`,
   `Application` and `SysConfig`; `LossIsReported` and the refinement of `DurableSink`.
8. *(done)* The theorems of the components inside the compositions: the store and its
   promise in `Application`, the cache under `TelemetryRows`, the queue's safety in
   `QueuedService`; the order of commits and the clean exit of the process; and the safety
   halves of five liveness properties.
9. Open: a refinement that relates the polls of `Application` to those of `Ingestion`; a
   `GeneratorClient` whose generator's clock may be set back; a store that is given queued
   and bulk batches together in a run.
