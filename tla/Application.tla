---------------------------- MODULE Application ----------------------------
(***************************************************************************)
(* The service process (internal/app/app.go): main builds the services,    *)
(* starts them, waits for a signal and stops them in order, while the      *)
(* polling client brings rows to the store and handlers answer queries.    *)
(*                                                                         *)
(* The client and the store are GeneratorClient and HybridStore.  What     *)
(* joins them is IngestBatch: poll n, if it has rows to ingest, makes one  *)
(* call StoreMetricsBulk with batch n and waits for it.  Nothing in the    *)
(* service uses the flush queue or FlushToDatabase.  A handler is a        *)
(* goroutine between its request and its answer; what it does there, and   *)
(* the request queue it may use, are in QueuedService.                     *)
(***************************************************************************)
EXTENDS Naturals, FiniteSets

CONSTANTS Generations, NoHeader,        \* as in GeneratorClient
          Blank,                        \* generations without a readable row
          MaxPolls,                     \* bound on the polls begun
          FlushWorker, MaxRetries, Faults,      \* as in HybridStore
          MaxQueries                    \* bound on the queries in flight

Polls == 1..MaxPolls

ASSUME MaxQueriesAssumption == MaxQueries \in Nat

ASSUME BlankAssumption == Blank \subseteq Generations

(* What the client and the store assume of these constants.                *)
ASSUME ClientAssumption ==
  /\ MaxPolls \in Nat \ {0}
  /\ Generations \subseteq Nat \ {NoHeader} /\ NoHeader = 0
ASSUME StoreAssumption ==
  FlushWorker \notin Polls /\ MaxRetries \in Nat \ {0} /\ Faults \in BOOLEAN

VARIABLES main,         \* where the goroutine of main is
          services,     \* what newServices built
          http,         \* the HTTP server
          queries,      \* handlers at work
          deadline,     \* the 10 s of gracefulShutdownTimeout have passed
          payload       \* the generation whose rows batch n has

VARIABLES running, ctx, poller, reply, lastGenerationID, lastDataTimestamp,
          totalPolls, successfulPolls, duplicateSkips, errorCount, clientStop,
          ingested      \* the client's

VARIABLES flushQueue, entry, writer, attempt, load, ctxDone, worker, helpers,
          hsCtx, storeStop, totalRequests, totalDBWrites, totalDBWriteErrors,
          pendingFlushItems, stored, orphaned, dbOpen   \* the store's

Client == INSTANCE GeneratorClient WITH pc <- poller, stop <- clientStop

Store == INSTANCE HybridStore
           WITH QueueBatches <- {}, BulkBatches <- Polls, Flushers <- {},
                QueueCap <- 100, pc <- writer, stop <- storeStop,
                Items <- [S \in SUBSET Polls |-> Cardinality(S)]

clientVars == <<running, ctx, poller, reply, lastGenerationID, lastDataTimestamp,
                totalPolls, successfulPolls, duplicateSkips, errorCount,
                clientStop, ingested>>
storeVars == <<flushQueue, entry, writer, attempt, load, ctxDone, worker, helpers,
               hsCtx, storeStop, totalRequests, totalDBWrites,
               totalDBWriteErrors, pendingFlushItems, stored, orphaned, dbOpen>>
appVars == <<main, services, http, queries, deadline>>
vars == <<appVars, payload, clientVars, storeVars>>

Init == /\ main = "newServices"
        /\ services = {}
        /\ http = "created"
        /\ queries = 0
        /\ deadline = FALSE
        /\ payload = [n \in Polls |-> NoHeader]
        /\ Client!ClientInit
        /\ Store!Init

Dead     == {"exited", "panicked", "fatal"}
Stopping == {"stopClient", "clientStopping", "stopTelemetry", "telemetryStopping",
             "stopHttp", "await", "awaitServer"}

(***************************************************************************)
(* newServices: telemetry is built if it is enabled and the database       *)
(* answers the ping, the client if ingestion is enabled besides.  What is  *)
(* not built stays a nil interface.                                        *)
(***************************************************************************)
newServices ==
  /\ main = "newServices"
  /\ services' \in {{}, {"telemetry"}, {"telemetry", "client"}}
  /\ main' = "startTelemetry"
  /\ UNCHANGED <<http, queries, deadline, payload, clientVars, storeVars>>

(***************************************************************************)
(* Start calls both services whether or not they were built.               *)
(***************************************************************************)
StartTelemetry ==
  /\ main = "startTelemetry"
  /\ \/ /\ "telemetry" \in services
        /\ Store!Start
        /\ main' = "startClient"
     \/ /\ "telemetry" \notin services
        /\ main' = "panicked"
        /\ UNCHANGED storeVars
  /\ UNCHANGED <<services, http, queries, deadline, payload, clientVars>>

StartClient ==
  /\ main = "startClient"
  /\ \/ /\ "client" \in services
        /\ Client!Start
        /\ main' = "listen"
     \/ /\ "client" \notin services
        /\ main' = "panicked"
        /\ UNCHANGED clientVars
  /\ UNCHANGED <<services, http, queries, deadline, payload, storeVars>>

(* A port that cannot be had ends the process.                             *)
Listen ==
  /\ main = "listen"
  /\ \/ main' = "wait" /\ http' = "listening"
     \/ main' = "fatal" /\ UNCHANGED http
  /\ UNCHANGED <<services, queries, deadline, payload, clientVars, storeVars>>

(* startHttpServer, a goroutine of its own, may come after Stop.           *)
Serve ==
  /\ main \notin Dead
  /\ http = "listening"
  /\ http' = "serving"
  /\ UNCHANGED <<main, services, queries, deadline, payload, clientVars,
                 storeVars>>

BeginQuery ==
  /\ main \notin Dead
  /\ http = "serving"
  /\ queries < MaxQueries
  /\ queries' = queries + 1
  /\ UNCHANGED <<main, services, http, deadline, payload, clientVars, storeVars>>

EndQuery ==
  /\ main \notin Dead
  /\ queries > 0
  /\ queries' = queries - 1
  /\ UNCHANGED <<main, services, http, deadline, payload, clientVars, storeVars>>

(***************************************************************************)
(* IngestBatch of the client's poll, in the store.  The parser skips rows  *)
(* that it cannot read, and an empty batch succeeds without a call to the  *)
(* store.  Another fails at once if no row has a switch or the cache       *)
(* rejects one; otherwise the worker waits for StoreMetricsBulk.           *)
(***************************************************************************)
IngestNothing ==
  /\ reply.rows \in Blank
  /\ Client!IngestBatch
  /\ poller' = "track"
  /\ UNCHANGED <<payload, storeVars>>

IngestRejected ==
  /\ reply.rows \notin Blank
  /\ entry[totalPolls] = "new"
  /\ Client!IngestBatch
  /\ poller' = "error"
  /\ UNCHANGED <<payload, storeVars>>

BeginIngest ==
  /\ poller = "ingest"
  /\ reply.rows \notin Blank
  /\ Store!StoreMetricsBulk(totalPolls)
  /\ payload' = [payload EXCEPT ![totalPolls] = reply.rows]
  /\ UNCHANGED clientVars

EndIngest_IgnoresError ==   \* the error of StoreMetricsBulk is only logged
  /\ poller = "ingest"
  /\ entry[totalPolls] \in {"done", "failed"}
  /\ Client!IngestBatch
  /\ poller' = "track"
  /\ UNCHANGED <<payload, storeVars>>

EndIngest ==
  /\ poller = "ingest"
  /\ entry[totalPolls] \in {"done", "failed"}
  /\ Client!IngestBatch
  /\ poller' = IF entry[totalPolls] = "done" THEN "track" ELSE "error"
  /\ UNCHANGED <<payload, storeVars>>

Ingest == /\ poller = "ingest"
          /\ IngestNothing \/ IngestRejected \/ BeginIngest \/ EndIngest

(* What the server answers is any generation, with its headers.            *)
Fetch == \E g \in Generations : Client!Fetch([id |-> g, time |-> g, rows |-> g])

Poll == \/ /\ \/ Client!StartupStep \/ Client!Tick \/ Client!BeginPoll
              \/ Fetch \/ Client!FetchFails \/ Client!CountError
              \/ Client!CheckDuplicate \/ Client!CountDuplicate
              \/ Client!ParseCSVData \/ Client!UpdateTracking
           /\ UNCHANGED <<payload, storeVars>>
        \/ Ingest

PollerLeaves == Client!WorkerExit /\ UNCHANGED <<payload, storeVars>>

(* The writer is the goroutine of the poll; flushWorker and the helpers    *)
(* have nothing to do but to leave.                                        *)
StoreStep == /\ \/ \E n \in Polls : Store!WriteStep(n)
                \/ Store!WorkerStep
                \/ Store!HelpersExit
             /\ UNCHANGED <<payload, clientVars>>

-----------------------------------------------------------------------------
(***************************************************************************)
(* Stop, after a signal: the client, telemetry, the HTTP server.           *)
(***************************************************************************)
Signal == /\ main = "wait"
          /\ main' = "stopClient"
          /\ UNCHANGED <<services, http, queries, deadline, payload,
                         clientVars, storeVars>>

(* The context of Stop has a timeout of 10 s.                              *)
DeadlinePasses == /\ main \in Stopping
                  /\ deadline' = TRUE
                  /\ UNCHANGED <<main, services, http, queries, payload,
                                 clientVars, storeVars>>

StopClient ==
  /\ \/ main = "stopClient" /\ Client!Stop /\ main' = "clientStopping"
     \/ /\ main = "clientStopping"
        /\ Client!StopGraceful \/ Client!StopTimedOut
        /\ main' = "stopTelemetry"
  /\ UNCHANGED <<services, http, queries, deadline, payload, storeVars>>

StopTelemetry ==
  /\ \/ main = "stopTelemetry" /\ Store!StopCancel /\ main' = "telemetryStopping"
     \/ /\ main = "telemetryStopping"
        /\ Store!StopGraceful \/ (deadline /\ Store!StopTimedOut)
        /\ main' = "stopHttp"
  /\ UNCHANGED <<services, http, queries, deadline, payload, clientVars>>

(* GracefulStop takes no more requests and waits for the handlers, or for  *)
(* the deadline and then cuts their connections.                           *)
stopHttpServer ==
  /\ main = "stopHttp"
  /\ main' = "await"
  /\ http' = "draining"
  /\ UNCHANGED <<services, queries, deadline, payload, clientVars, storeVars>>

GracefulStop ==
  /\ main \notin Dead
  /\ http = "draining"
  /\ \/ queries = 0 /\ http' = "closed"
     \/ deadline /\ http' = "cut"
  /\ UNCHANGED <<main, services, queries, deadline, payload, clientVars,
                 storeVars>>

(* closeServiceContext closes nothing: its goroutine waits for a context   *)
(* that nobody cancels, or for 2 s.  From then on main waits for the HTTP  *)
(* server alone.                                                           *)
closeServiceContext ==
  /\ main = "await"
  /\ main' = "awaitServer"
  /\ UNCHANGED <<services, http, queries, deadline, payload, clientVars,
                 storeVars>>

awaitShutdown_NoAdd ==      \* wg.Wait before wg.Add
  /\ main = "await"
  /\ main' = "exited"
  /\ UNCHANGED <<services, http, queries, deadline, payload, clientVars,
                 storeVars>>

awaitShutdown_NoDeadline ==    \* wg.Wait alone
  /\ main = "awaitServer"
  /\ http = "closed"
  /\ main' = "exited"
  /\ UNCHANGED <<services, http, queries, deadline, payload, clientVars,
                 storeVars>>

awaitShutdown ==
  /\ main \in {"await", "awaitServer"}
  /\ (main = "awaitServer" /\ http \in {"closed", "cut"}) \/ deadline
  /\ main' = "exited"
  /\ UNCHANGED <<services, http, queries, deadline, payload, clientVars,
                 storeVars>>

-----------------------------------------------------------------------------
Starting == newServices \/ StartTelemetry \/ StartClient \/ Listen
Ending   == \/ StopClient \/ StopTelemetry \/ stopHttpServer
            \/ closeServiceContext \/ awaitShutdown

Background == main \notin Dead /\ UNCHANGED appVars /\ (Poll \/ PollerLeaves \/ StoreStep)

Next == \/ Starting \/ Serve \/ BeginQuery \/ EndQuery
        \/ Background
        \/ Signal \/ DeadlinePasses \/ Ending \/ GracefulStop

(* The main goroutine and the HTTP server run, and the timers of Stop      *)
(* fire.  Nobody has to send a signal; the client, the store and the       *)
(* handlers may hang.                                                      *)
Fairness == /\ WF_vars(Starting)
            /\ WF_vars(Ending)
            /\ WF_vars(GracefulStop)
            /\ WF_vars(DeadlinePasses)

Spec     == Init /\ [][Next]_vars
FairSpec == Spec /\ Fairness

-----------------------------------------------------------------------------
(* Type invariant: of the process itself; the client and the store keep    *)
(* their own.                                                              *)
TypeOK ==
  /\ main \in {"newServices", "startTelemetry", "startClient", "listen", "wait"}
              \cup Stopping \cup Dead
  /\ services \subseteq {"telemetry", "client"}
  /\ http \in {"created", "listening", "serving", "draining", "closed", "cut"}
  /\ queries \in 0..MaxQueries
  /\ deadline \in BOOLEAN
  /\ payload \in [Polls -> Generations \cup {NoHeader}]

(* What the client takes for seen is in the database, as far as it could   *)
(* be read: whatever fails on the way, a generation that it tracks has an  *)
(* acknowledged batch or has no readable row, and so has every older one   *)
(* it counts as ingested.                                                  *)
InDatabase(g) == \E n \in Polls : payload[n] = g /\ stored[n] = 1

Durable(g) == g \in Blank \/ InDatabase(g)

TrackedIsDurable ==
  /\ lastDataTimestamp # NoHeader => Durable(lastDataTimestamp)
  /\ \A g \in Generations : ingested[g] > 0 => Durable(g)

(* Rows reach the database in the order of their generations: when a       *)
(* commit takes effect, acknowledged or not, all that was acknowledged     *)
(* before is older.  So however often a generation is served, although a   *)
(* failed poll is tried again and answers are lost, no rows are written    *)
(* once they, or newer ones, have been acknowledged.                       *)
CommittedInOrder ==
  [][ \A n \in Polls : stored'[n] # stored[n] \/ orphaned'[n] # orphaned[n] =>
        \A m \in Polls : stored[m] = 1 => payload[m] < payload[n] ]_vars

(* The counters of the client and those of the store tell the same story   *)
(* but for the generations without a readable row: each of them that was   *)
(* tracked counts a successful poll, once, and no write; every other       *)
(* successful poll, and the one about to be, is one batch written.         *)
TrackedBlank == {g \in Blank : ingested[g] > 0}

CountersAgree ==
  totalDBWrites + Cardinality(TrackedBlank) =
    successfulPolls
      + IF poller = "track" \/ (poller = "ingest" /\ entry[totalPolls] = "done")
          THEN 1 ELSE 0

(* A client that stopped in time leaves nothing behind: the database is    *)
(* not closed under one of its writes.                                     *)
QuietStopEndsIngest ==
  clientStop = "graceful" => \A n \in Polls : entry[n] # "writing"

(* A process that exits within its 10 s leaves nothing half done: every    *)
(* handler has answered, the worker and the helpers of the store are gone  *)
(* and then its database was closed, and a client that did not outlive its *)
(* own Stop has no write in the database.                                  *)
CleanExit ==
  main = "exited" /\ ~deadline =>
    /\ http = "closed" /\ queries = 0
    /\ worker = "exited" /\ ~helpers /\ ~dbOpen
    /\ clientStop = "graceful" =>
         poller = "exited" /\ \A n \in Polls : entry[n] # "writing"

(* A shutdown ends, though the client waits for its own worker, handlers   *)
(* hang and the database does not answer.                                  *)
ShutdownEnds == main = "stopClient" ~> main = "exited"

(* "Complete processing the data that has already arrived" (app.go:185):   *)
(* with a working database and time left, rows handed to the store before  *)
(* or during the shutdown are not refused.                                 *)
ArrivedIsProcessed == ~deadline => \A n \in Polls : entry[n] # "failed"
=============================================================================
