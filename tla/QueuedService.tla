--------------------------- MODULE QueuedService ---------------------------
(***************************************************************************)
(* The path of an API request: the HTTP server and its middleware, the     *)
(* handlers of http_handler_telemetry.go, the service with or without its  *)
(* request queue (service_with_queue.go), the cache the answer is read     *)
(* from; and the part of app.Stop that takes all of it down.               *)
(*                                                                         *)
(* A request is a call of RequestQueue if its handler goes through the     *)
(* queue.  What the cache holds of the one switch asked for is a version:  *)
(* 0 is no entry, and every update is a new version.  The time of update   *)
(* that goes with a metric is in InMemoryCache.  The handlers behind the   *)
(* queue only read the cache and do not panic, and the collector of the    *)
(* queue only samples a gauge: both are left to RequestQueue.              *)
(***************************************************************************)
EXTENDS RequestQueue

CONSTANTS MaxUpdates    \* bound on the updates of the cache

ASSUME MaxUpdatesAssumption == MaxUpdates \in Nat

VARIABLES main,         \* where the goroutine of main is
          queueEnabled, \* telemetry.queue.enabled
          base,         \* the base service: its store and database
          http,         \* the HTTP server
          deadline,     \* the 10 s of gracefulShutdownTimeout have passed
          cache,        \* the version in the cache
          updates,      \* the number of updates so far
          handler,      \* where the goroutine of each request is
          route,        \* what the request asks for
          found,        \* the version its query has read
          status,       \* the status code of its answer
          inFlight,     \* HttpRequestsInFlight
          httpRequests, \* HttpRequestsTotal, by status code
          seen          \* history: what the cache held while it was open

processVars == <<main, queueEnabled, base, http, deadline>>
cacheVars   == <<cache, updates>>
answerVars  == <<handler, route, found, status>>
gaugeVars   == <<inFlight, httpRequests>>
serviceVars == <<processVars, cacheVars, answerVars, gaugeVars, seen, vars>>

Absent   == 0
Unread   == -1
Versions == 0..MaxUpdates
NoStatus == 0

(* The status of a route whose query fails; "metric" is one metric of a    *)
(* switch or all of them, and "list" cannot fail.                          *)
FailureOf == [metric |-> 404, list |-> 500, switches |-> 500, health |-> 503,
              invalid |-> 400]
Routes    == DOMAIN FailureOf
Statuses  == {200, 400, 404, 500, 503}

ServiceInit ==
  /\ Init
  /\ main = "start"
  /\ queueEnabled \in BOOLEAN
  /\ base = "created"
  /\ http = "created"
  /\ deadline = FALSE
  /\ cache = Absent
  /\ updates = 0
  /\ handler = [r \in Requests |-> "none"]
  /\ route = [r \in Requests |-> "none"]
  /\ found = [r \in Requests |-> Unread]
  /\ status = [r \in Requests |-> NoStatus]
  /\ inFlight = 0
  /\ httpRequests = [s \in Statuses |-> 0]
  /\ seen = [r \in Requests |-> {}]

Open(r) == handler[r] \notin {"none", "done"}
InService    == {r \in Requests : Open(r)}

-----------------------------------------------------------------------------
(***************************************************************************)
(* The cache: polls that ingest, which a client that outlives its own Stop *)
(* does at any time, and cleanupWorker, which may be in a clean-up when    *)
(* the Stop of the service begins.                                         *)
(***************************************************************************)
Holds(v) == /\ cache' = v
            /\ seen' = [r \in Requests |-> IF Open(r) THEN seen[r] \cup {v} ELSE seen[r]]
            /\ UNCHANGED <<processVars, answerVars, gaugeVars, vars>>

UpdateCache  == /\ base # "created"
                /\ updates < MaxUpdates
                /\ updates' = updates + 1
                /\ Holds(updates')

CleanupCache == /\ base # "created"
                /\ cache # Absent
                /\ Holds(Absent)
                /\ UNCHANGED updates

(***************************************************************************)
(* A request: the middleware, then its handler.                            *)
(***************************************************************************)
Arrive(r) ==
  /\ http = "serving"
  /\ handler[r] = "none"
  /\ handler' = [handler EXCEPT ![r] = "entered"]
  /\ \E x \in Routes : route' = [route EXCEPT ![r] = x]
  /\ seen' = [seen EXCEPT ![r] = {cache}]
  /\ inFlight' = inFlight + 1
  /\ UNCHANGED <<processVars, cacheVars, found, status, httpRequests, vars>>

Queues(r) == queueEnabled /\ route[r] = "metric"

CallQueue(r) ==
  /\ handler[r] = "entered"
  /\ Queues(r)
  /\ TrySend(r)
  /\ handler' = [handler EXCEPT ![r] = "calling"]
  /\ UNCHANGED <<processVars, cacheVars, route, found, status, gaugeVars, seen>>

(* The call goes on in the queue.                                          *)
AwaitQueue(r) ==
  /\ CallStep(r) \/ TimeOut(r)
  /\ UNCHANGED <<processVars, cacheVars, answerVars, gaugeVars, seen>>

(* A query of the cache by the handler itself.  A list is never an error;  *)
(* health is degraded without entries, and with entries that are old.      *)
QueryCache(r) ==
  /\ handler[r] = "entered"
  /\ route[r] \in {"metric", "list", "health"}
  /\ ~Queues(r)
  /\ found' = [found EXCEPT ![r] = cache]
  /\ \/ /\ cache # Absent \/ route[r] = "list"
        /\ handler' = [handler EXCEPT ![r] = "data"]
     \/ /\ route[r] = "health" \/ (cache = Absent /\ route[r] # "list")
        /\ handler' = [handler EXCEPT ![r] = "error"]
  /\ UNCHANGED <<processVars, cacheVars, route, status, gaugeVars, seen, vars>>

(* GetSwitches asks the database, which may fail and is closed by Stop.    *)
QueryDatabase(r) ==
  /\ handler[r] = "entered"
  /\ route[r] = "switches"
  /\ \/ base = "running" /\ handler' = [handler EXCEPT ![r] = "data"]
     \/ handler' = [handler EXCEPT ![r] = "error"]
  /\ UNCHANGED <<processVars, cacheVars, route, found, status, gaugeVars, seen, vars>>

(* What the query came to, a queued one by the outcome of its call; a      *)
(* metric type that does not exist is refused without one.                 *)
Outcome(r) == CASE handler[r] = "calling" -> call[r]
                [] route[r] = "invalid"   -> "error"
                [] OTHER                  -> handler[r]

StatusOf(r) == IF Outcome(r) = "data" THEN 200 ELSE FailureOf[route[r]]

(* The handler writes its answer and the middleware records it.            *)
Respond(r) ==
  /\ Open(r)
  /\ Outcome(r) \in Results \cup {"timeout", "shutdown", "dropped"}
  /\ handler' = [handler EXCEPT ![r] = "done"]
  /\ status' = [status EXCEPT ![r] = StatusOf(r)]
  /\ inFlight' = inFlight - 1
  /\ httpRequests' = [httpRequests EXCEPT ![StatusOf(r)] = @ + 1]
  /\ UNCHANGED <<processVars, cacheVars, route, found, seen, vars>>

RecoverPanic_NoDec(r) ==    \* Dec after c.Next instead of deferred
  /\ Outcome(r) = "panic"
  /\ handler' = [handler EXCEPT ![r] = "done"]
  /\ status' = [status EXCEPT ![r] = 500]
  /\ UNCHANGED <<processVars, cacheVars, route, found, gaugeVars, seen, vars>>

(* A send on the closed channel panics through the handler and the         *)
(* metrics middleware, whose deferred Dec runs and whose recording does    *)
(* not, up to the recovery.                                                *)
RecoverPanic(r) ==
  /\ Outcome(r) = "panic"
  /\ handler' = [handler EXCEPT ![r] = "done"]
  /\ status' = [status EXCEPT ![r] = 500]
  /\ inFlight' = inFlight - 1
  /\ UNCHANGED <<processVars, cacheVars, route, found, httpRequests, seen, vars>>

HandlerStep(r) == \/ CallQueue(r) \/ QueryCache(r) \/ QueryDatabase(r)
                  \/ Respond(r) \/ RecoverPanic(r)

(***************************************************************************)
(* A worker of the pool: HandleGetMetric and HandleGetAllMetrics read the  *)
(* cache through the base service, and the result is sent as the answer.   *)
(***************************************************************************)
ReadCache_Coalesced(w) ==   \* requests with the same requestID share an answer
  /\ worker[w] = "handling"
  /\ found[holding[w]] = Unread
  /\ LET same == {q \in Requests : route[q] = route[holding[w]] /\ found[q] # Unread}
     IN  found' = [found EXCEPT ![holding[w]] =
                     IF same = {} THEN cache ELSE found[CHOOSE q \in same : TRUE]]
  /\ UNCHANGED <<processVars, cacheVars, handler, route, status, gaugeVars, seen, vars>>

ReadCache(w) ==
  /\ worker[w] = "handling"
  /\ found[holding[w]] = Unread
  /\ found' = [found EXCEPT ![holding[w]] = cache]
  /\ UNCHANGED <<processVars, cacheVars, handler, route, status, gaugeVars, seen, vars>>

SendAnswer(w) ==
  /\ worker[w] = "handling"
  /\ found[holding[w]] # Unread
  /\ Answer(w, IF found[holding[w]] = Absent THEN "error" ELSE "data")
  /\ UNCHANGED <<processVars, cacheVars, answerVars, gaugeVars, seen>>

PoolStep(w) == \/ ReadCache(w) \/ SendAnswer(w)
               \/ /\ TakeRequest(w) \/ WorkerExit(w) \/ IncrementProcessed(w)
                  /\ UNCHANGED <<processVars, cacheVars, answerVars, gaugeVars, seen>>

-----------------------------------------------------------------------------
(***************************************************************************)
(* Start and Stop of the service under app.Start and app.Stop.             *)
(***************************************************************************)
StartService ==
  /\ main = "start"
  /\ main' = "wait"
  /\ base' = "running"
  /\ IF queueEnabled THEN Start ELSE UNCHANGED vars
  /\ UNCHANGED <<queueEnabled, http, deadline, cacheVars, answerVars, gaugeVars, seen>>

(* startHttpServer, in a goroutine of its own.                             *)
Serve ==
  /\ main # "start"
  /\ http = "created"
  /\ http' = "serving"
  /\ UNCHANGED <<main, queueEnabled, base, deadline, cacheVars, answerVars,
                 gaugeVars, seen, vars>>

Signal ==
  /\ main = "wait"
  /\ main' = "stopQueue"
  /\ UNCHANGED <<queueEnabled, base, http, deadline, cacheVars, answerVars,
                 gaugeVars, seen, vars>>

Stopping == {"stopQueue", "stopBase", "stopHttp", "await", "awaitServer"}

(* It has run since the signal; nothing looks at it any earlier.           *)
DeadlinePasses ==
  /\ main \in {"await", "awaitServer"}
  /\ deadline' = TRUE
  /\ UNCHANGED <<main, queueEnabled, base, http, cacheVars, answerVars,
                 gaugeVars, seen, vars>>

StopQueue_NotAwaited ==     \* the base service is stopped while the pool drains
  /\ main = "stopQueue"
  /\ \/ queueEnabled /\ StopCancel /\ UNCHANGED main
     \/ queueEnabled /\ StopClose /\ main' = "stopBase"
     \/ ~queueEnabled /\ main' = "stopBase" /\ UNCHANGED vars
  /\ UNCHANGED <<queueEnabled, base, http, deadline, cacheVars, answerVars,
                 gaugeVars, seen>>

(* The Stop of the queue has no deadline: it waits for the pool.           *)
StopQueue ==
  /\ main = "stopQueue"
  /\ \/ queueEnabled /\ (StopCancel \/ StopClose) /\ UNCHANGED main
     \/ queueEnabled /\ StopWait /\ main' = "stopBase"
     \/ ~queueEnabled /\ main' = "stopBase" /\ UNCHANGED vars
  /\ UNCHANGED <<queueEnabled, base, http, deadline, cacheVars, answerVars,
                 gaugeVars, seen>>

StopBase ==
  /\ main = "stopBase"
  /\ base' = "stopped"
  /\ main' = "stopHttp"
  /\ UNCHANGED <<queueEnabled, http, deadline, cacheVars, answerVars, gaugeVars,
                 seen, vars>>

stopHttpServer ==
  /\ main = "stopHttp"
  /\ http' = "draining"
  /\ main' = "await"
  /\ UNCHANGED <<queueEnabled, base, deadline, cacheVars, answerVars, gaugeVars,
                 seen, vars>>

(* The goroutine of GracefulStop: no new requests; the open ones or the    *)
(* deadline end the wait.                                                  *)
GracefulStop ==
  /\ http = "draining"
  /\ \/ InService = {} /\ http' = "closed"
     \/ deadline /\ http' = "cut"
  /\ UNCHANGED <<main, queueEnabled, base, deadline, cacheVars, answerVars,
                 gaugeVars, seen, vars>>

(* The goroutine of closeServiceContext ends after 2 s.                    *)
closeServiceContext ==
  /\ main = "await"
  /\ main' = "awaitServer"
  /\ UNCHANGED <<queueEnabled, base, http, deadline, cacheVars, answerVars,
                 gaugeVars, seen, vars>>

awaitShutdown_NoAdd ==      \* wg.Wait before wg.Add
  /\ main = "await"
  /\ main' = "exited"
  /\ UNCHANGED <<queueEnabled, base, http, deadline, cacheVars, answerVars,
                 gaugeVars, seen, vars>>

awaitShutdown ==
  /\ main \in {"await", "awaitServer"}
  /\ (main = "awaitServer" /\ http \in {"closed", "cut"}) \/ deadline
  /\ main' = "exited"
  /\ UNCHANGED <<queueEnabled, base, http, deadline, cacheVars, answerVars,
                 gaugeVars, seen, vars>>

Ending == \/ StopQueue \/ StopBase \/ stopHttpServer
          \/ closeServiceContext \/ awaitShutdown

ServiceNext ==
  /\ main # "exited"
  /\ \/ UpdateCache \/ CleanupCache
     \/ \E r \in Requests : Arrive(r) \/ HandlerStep(r) \/ AwaitQueue(r)
     \/ \E w \in Workers : PoolStep(w)
     \/ StartService \/ Serve \/ Signal \/ DeadlinePasses \/ Ending \/ GracefulStop

(* The goroutines of the process run while it lives: handlers, callers     *)
(* (their timers excluded), workers, main and GracefulStop.  The 2 s of    *)
(* closeServiceContext pass; no other timer has to fire, the deadline of   *)
(* the shutdown included, no request has to come and nobody has to send a  *)
(* signal.                                                                 *)
Alive(A) == main # "exited" /\ A

ServiceFairness ==
  /\ WF_serviceVars(Alive(StartService))
  /\ WF_serviceVars(Alive(Ending))
  /\ WF_serviceVars(Alive(GracefulStop))
  /\ \A r \in Requests : /\ WF_serviceVars(Alive(HandlerStep(r)))
                         /\ WF_serviceVars(Alive(AwaitQueue(r) /\ ~TimeOut(r)))
  /\ \A w \in Workers : WF_serviceVars(Alive(PoolStep(w)))

ServiceSpec     == ServiceInit /\ [][ServiceNext]_serviceVars
FairServiceSpec == ServiceSpec /\ ServiceFairness

-----------------------------------------------------------------------------
HandlerStates == {"none", "entered", "calling", "data", "error", "done"}

(* Type invariant: of the service around the queue, which keeps its own.   *)
ServiceTypeOK ==
  /\ main \in {"start", "wait", "exited"} \cup Stopping
  /\ queueEnabled \in BOOLEAN
  /\ base \in {"created", "running", "stopped"}
  /\ http \in {"created", "serving", "draining", "closed", "cut"}
  /\ deadline \in BOOLEAN
  /\ cache \in Versions /\ updates \in Versions
  /\ handler \in [Requests -> HandlerStates]
  /\ route \in [Requests -> Routes \cup {"none"}]
  /\ found \in [Requests -> Versions \cup {Unread}]
  /\ status \in [Requests -> Statuses \cup {NoStatus}]
  /\ inFlight \in Nat
  /\ httpRequests \in [Statuses -> Nat]
  /\ seen \in [Requests -> SUBSET Versions]

(* What a client is told was true while it waited: an answer with data has *)
(* a version that the cache held between the request and the answer, and   *)
(* one that says the switch is unknown saw an empty cache in that time -   *)
(* with workers in between, other calls for the same switch, calls that    *)
(* gave up, updates and clean-ups.                                         *)
Answered(r) == handler[r] = "done"

AnswersAreCurrent ==
  \A r \in Requests :
    Answered(r) /\ route[r] \in {"metric", "list", "health"} =>
      /\ status[r] = 200 => found[r] \in seen[r]
      /\ status[r] = 200 /\ route[r] # "list" => found[r] # Absent
      /\ route[r] = "metric" /\ (Queues(r) => call[r] = "error")
           /\ status[r] = 404 => Absent \in seen[r]

(* The HTTP metrics tell the truth whatever ends a request: the gauge is   *)
(* the number of open requests, and the counter of a status that of the    *)
(* requests answered with it, but for those that panicked.                 *)
RequestsMeasured ==
  /\ inFlight = Cardinality(InService)
  /\ \A s \in Statuses :
       httpRequests[s] =
         Cardinality({r \in Requests : status[r] = s /\ call[r] # "panic"})

(* No worker of the pool is in a handler of the base service once its      *)
(* store is stopped: queue.Stop waits for the pool, and base.Stop follows. *)
PoolBeforeStore ==
  base = "stopped" =>
    \A w \in Workers : worker[w] \notin {"select", "handling", "counting"}

(* Nobody is cut off by a shutdown within its 10 s: when the process ends  *)
(* before the deadline, every request that was taken has been answered, as *)
(* well those whose call the stopped queue left behind in its channel.     *)
TimelyExitAnswers == main = "exited" /\ ~deadline => InService = {}

(* Every request is answered though no timer fires, or the process ends.   *)
RequestsAnswered ==
  \A r \in Requests : handler[r] = "entered" ~> (handler[r] = "done" \/ main = "exited")

(* The whole shutdown ends, though the 10 s never pass: the pool, for      *)
(* which Stop waits without a deadline, leaves, and the requests in flight *)
(* end without their timers.                                               *)
ShutdownEnds == main = "stopQueue" ~> main = "exited"
=============================================================================
