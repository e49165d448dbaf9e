------------------------ MODULE QueuedServiceProofs ------------------------
(***************************************************************************)
(* Theorems about QueuedService for every set of requests, every pool,     *)
(* every capacity of the queue and every number of updates.                *)
(***************************************************************************)
EXTENDS QueuedService, RequestQueueProofs

USE DEF CallStates, CallOutcomes, Results, NoResponse, WorkerStates, Absent, Unread,
        NoStatus

(***************************************************************************)
(* The queue in its service.  Every step of the service is one of the      *)
(* queue or leaves the queue alone, so what RequestQueueProofs proves of   *)
(* the queue by itself is true of it between its handlers, its cache and   *)
(* the shutdown of the process.                                            *)
(***************************************************************************)
LEMMA StepOfQueue == [ServiceNext]_serviceVars => [Next]_vars
<1> SUFFICES ASSUME [ServiceNext]_serviceVars PROVE [Next]_vars
  OBVIOUS
<1>1. CASE UpdateCache \/ CleanupCache
  BY <1>1 DEF UpdateCache, CleanupCache, Holds
<1>2. ASSUME NEW r \in Requests, Arrive(r) \/ HandlerStep(r) \/ AwaitQueue(r)
      PROVE  [Next]_vars
  <2>1. CASE Arrive(r)
    BY <2>1 DEF Arrive
  <2>2. CASE CallQueue(r)
    BY <2>2 DEF CallQueue, Next
  <2>3. CASE QueryCache(r) \/ QueryDatabase(r) \/ Respond(r) \/ RecoverPanic(r)
    BY <2>3 DEF QueryCache, QueryDatabase, Respond, RecoverPanic
  <2>4. CASE AwaitQueue(r)
    BY <2>4 DEF AwaitQueue, Next
  <2> QED BY <1>2, <2>1, <2>2, <2>3, <2>4 DEF HandlerStep
<1>3. ASSUME NEW w \in Workers, PoolStep(w) PROVE [Next]_vars
  <2>1. CASE ReadCache(w)
    BY <2>1 DEF ReadCache
  <2>2. CASE SendAnswer(w)
    <3>1. \E result \in Results : Answer(w, result)
      BY <2>2 DEF SendAnswer
    <3> QED BY <3>1 DEF WorkerStep, Next
  <2>3. CASE TakeRequest(w) \/ WorkerExit(w) \/ IncrementProcessed(w)
    BY <2>3 DEF WorkerStep, Next
  <2> QED BY <1>3, <2>1, <2>2, <2>3 DEF PoolStep
<1>4. CASE StartService
  BY <1>4 DEF StartService, Next
<1>5. CASE Serve \/ Signal \/ DeadlinePasses \/ GracefulStop
  BY <1>5 DEF Serve, Signal, DeadlinePasses, GracefulStop
<1>6. CASE Ending
  BY <1>6 DEF Ending, StopQueue, StopBase, stopHttpServer, closeServiceContext,
              awaitShutdown, StopStep, Next
<1>7. CASE UNCHANGED serviceVars
  BY <1>7 DEF serviceVars
<1> QED BY <1>1, <1>2, <1>3, <1>4, <1>5, <1>6, <1>7 DEF ServiceNext

LEMMA ServiceIsQueue == ServiceSpec => Spec
<1>1. ServiceInit => Init
  BY DEF ServiceInit
<1> QED BY <1>1, StepOfQueue, PTL DEF ServiceSpec, Spec

(* The promise of RequestService is kept inside the service as well,       *)
(* ImplementsService: the handlers, the cache, the base service and the    *)
(* order in which the process is taken down add nothing that the queue     *)
(* alone does not do.                                                      *)
THEOREM ServiceKeepsPromise == ServiceSpec => ImplementsService
BY ServiceIsQueue, QueueImplementsService

(* The safety of the queue inside the process: a request has one owner,    *)
(* the counters are the traffic, no handler waits for an answer that       *)
(* nobody owes it, and a response channel is free when a worker sends      *)
(* (service_with_queue.go:60-124).                                         *)
THEOREM ServiceQueueIsSafe ==
  ServiceSpec => [](OwnedOnce /\ CountersBalance /\ AnswersAreComing /\ ResponseChannelFree)
BY ServiceIsQueue, Ownership, CountersAgree, WaitingIsBacked, AnswersFit, PTL

-----------------------------------------------------------------------------
(***************************************************************************)
(* The order of the shutdown.                                              *)
(***************************************************************************)
ShutdownOrder ==
  /\ ~queueEnabled => collector = "none"
  /\ queueEnabled /\ main \in {"stopBase", "stopHttp", "await", "awaitServer", "exited"}
       => stop = "done"
  /\ base = "stopped" => main \in {"stopHttp", "await", "awaitServer", "exited"}

LEMMA StepShutdownOrder ==
  ShutdownOrder /\ [ServiceNext]_serviceVars => ShutdownOrder'
<1> SUFFICES ASSUME ShutdownOrder, [ServiceNext]_serviceVars
             PROVE  ShutdownOrder'
  OBVIOUS
<1> USE DEF ShutdownOrder
<1>0. ASSUME UNCHANGED processVars, UNCHANGED collector,
             stop = "done" => stop' = "done"
      PROVE  ShutdownOrder'
  BY <1>0 DEF processVars
<1>1. CASE UpdateCache \/ CleanupCache
  BY <1>0, <1>1 DEF UpdateCache, CleanupCache, Holds, vars
<1>2. ASSUME NEW r \in Requests, Arrive(r) \/ HandlerStep(r) \/ AwaitQueue(r)
      PROVE  ShutdownOrder'
  BY <1>0, <1>2 DEF Arrive, HandlerStep, CallQueue, QueryCache, QueryDatabase,
       Respond, RecoverPanic, AwaitQueue, TrySend, CallStep, IncrementQueued,
       IncrementDropped, ReceiveResponse, SeeShutdown, TimeOut, vars
<1>3. ASSUME NEW w \in Workers, PoolStep(w) PROVE ShutdownOrder'
  BY <1>0, <1>3 DEF PoolStep, ReadCache, SendAnswer, TakeRequest, WorkerExit,
       Answer, IncrementProcessed, vars
<1>4. CASE StartService
  BY <1>4 DEF StartService, Start, vars
<1>5. CASE Serve \/ Signal \/ DeadlinePasses \/ GracefulStop
  BY <1>5 DEF Serve, Signal, DeadlinePasses, GracefulStop, vars
<1>6. CASE Ending
  <2>1. CASE StopQueue
    BY <2>1 DEF StopQueue, StopCancel, StopClose, StopWait, vars
  <2>2. CASE StopBase \/ stopHttpServer \/ closeServiceContext \/ awaitShutdown
    BY <2>2 DEF StopBase, stopHttpServer, closeServiceContext, awaitShutdown, vars
  <2> QED BY <1>6, <2>1, <2>2 DEF Ending
<1>7. CASE UNCHANGED serviceVars
  BY <1>7 DEF serviceVars, processVars, vars
<1> QED BY <1>1, <1>2, <1>3, <1>4, <1>5, <1>6, <1>7 DEF ServiceNext

(* No worker is in a handler of the base service once its store is         *)
(* stopped, PoolBeforeStore, whatever the pool was doing when the signal   *)
(* came.                                                                   *)
THEOREM PoolLeavesFirst == ServiceSpec => []PoolBeforeStore
<1>1. ServiceInit => ShutdownOrder
  BY DEF ServiceInit, Init, ShutdownOrder
<1>2. ShutdownOrder /\ [ServiceNext]_serviceVars => ShutdownOrder'
  BY StepShutdownOrder
<1>3. Lifecycle /\ ShutdownOrder => PoolBeforeStore
  BY DEF Lifecycle, ShutdownOrder, PoolBeforeStore
<1> QED BY <1>1, <1>2, <1>3, ServiceIsQueue, LifecycleHolds, PTL DEF ServiceSpec

-----------------------------------------------------------------------------
(***************************************************************************)
(* The way of a request.  Typed is ServiceTypeOK but for the gauge, of     *)
(* which only EveryRequestMeasured shows that it never falls below 0.      *)
(***************************************************************************)
Typed ==
  /\ main \in {"start", "wait", "exited"} \cup Stopping
  /\ queueEnabled \in BOOLEAN
  /\ base \in {"created", "running", "stopped"}
  /\ http \in {"created", "serving", "draining", "closed", "cut"}
  /\ deadline \in BOOLEAN
  /\ cache \in Versions /\ updates \in Versions
  /\ handler \in [Requests -> HandlerStates]
  /\ route \in [Requests -> Routes \cup {"none"}]
  /\ found \in [Requests -> Versions \cup {Unread}]
  /\ status \in [Requests -> Statuses \cup {NoStatus}]
  /\ httpRequests \in [Statuses -> Nat]
  /\ seen \in [Requests -> SUBSET Versions]

(* Where the call of a request is in the queue while its handler is where  *)
(* it is.                                                                  *)
Path ==
  \A r \in Requests :
    /\ handler[r] \notin {"calling", "done"} => call[r] = "new"
    /\ handler[r] = "calling" => Queues(r) /\ call[r] # "new"
    /\ handler[r] = "done" => call[r] \in {"new"} \cup CallOutcomes
    /\ handler[r] \in {"data", "error"} => ~Queues(r)
    /\ handler[r] # "none" => route[r] \in Routes
    /\ handler[r] # "done" => status[r] = NoStatus
    /\ handler[r] \in {"none", "entered"} => found[r] = Unread

LEMMA StatusTyped ==
  ASSUME NEW r \in Requests, Typed, Path, Open(r)
  PROVE  StatusOf(r) \in Statuses
BY DEF Typed, Path, Open, StatusOf, Statuses, FailureOf, Routes

(* Only the steps of a request itself, and a worker's read for it, change  *)
(* what Path and Typed say of it.                                          *)
LEMMA StepTypedPath ==
  TypeOK /\ OwnedOnce /\ Typed /\ Path /\ [ServiceNext]_serviceVars
    => Typed' /\ Path'
<1> SUFFICES ASSUME TypeOK, OwnedOnce, Typed, Path, [ServiceNext]_serviceVars
             PROVE  Typed' /\ Path'
  OBVIOUS
<1> USE MaxUpdatesAssumption
<1>0. ASSUME UNCHANGED <<queueEnabled, cacheVars, answerVars, gaugeVars, seen, vars>>,
             main' \in {"start", "wait", "exited"} \cup Stopping,
             base' \in {"created", "running", "stopped"},
             http' \in {"created", "serving", "draining", "closed", "cut"},
             deadline' \in BOOLEAN
      PROVE  Typed' /\ Path'
  BY <1>0 DEF Typed, Path, Queues, cacheVars, answerVars, gaugeVars, vars
<1>1. CASE UpdateCache \/ CleanupCache
  <2>1. UNCHANGED <<processVars, answerVars, gaugeVars, vars>>
    BY <1>1 DEF UpdateCache, CleanupCache, Holds
  <2>2. Path'
    BY <2>1 DEF Path, Queues, processVars, answerVars, vars
  <2>3. cache' \in Versions /\ updates' \in Versions
    BY <1>1 DEF UpdateCache, CleanupCache, Holds, Typed, Versions
  <2>4. seen' \in [Requests -> SUBSET Versions]
    <3>1. seen' = [r \in Requests |-> IF Open(r) THEN seen[r] \cup {cache'}
                                                ELSE seen[r]]
      BY <1>1 DEF UpdateCache, CleanupCache, Holds
    <3> QED BY <2>3, <3>1 DEF Typed
  <2> QED BY <2>1, <2>2, <2>3, <2>4 DEF Typed, processVars, answerVars, gaugeVars
<1>2. ASSUME NEW r \in Requests, Arrive(r) PROVE Typed' /\ Path'
  <2>1. Typed'
    BY <1>2 DEF Arrive, Typed, HandlerStates, processVars, cacheVars
  <2>2. Path'
    BY <1>2 DEF Arrive, Typed, Path, Queues, processVars, vars
  <2> QED BY <2>1, <2>2
<1>3. ASSUME NEW r \in Requests, CallQueue(r) PROVE Typed' /\ Path'
  <2>1. Typed'
    BY <1>3 DEF CallQueue, Typed, HandlerStates, processVars, cacheVars, gaugeVars
  <2>2. /\ call' \in [Requests -> CallStates \cup CallOutcomes]
        /\ \A q \in Requests \ {r} : call'[q] = call[q]
        /\ call'[r] # "new"
    BY <1>3 DEF CallQueue, TrySend, TypeOK
  <2>3. Path'
    BY <1>3, <2>2 DEF CallQueue, Typed, Path, Queues, processVars
  <2> QED BY <2>1, <2>3
<1>4. ASSUME NEW r \in Requests, AwaitQueue(r) PROVE Typed' /\ Path'
  <2>1. Typed'
    BY <1>4 DEF AwaitQueue, Typed, processVars, cacheVars, answerVars, gaugeVars
  <2>2. /\ call[r] \in {"sent", "dropping", "waiting"}
        /\ \A q \in Requests \ {r} : call'[q] = call[q]
        /\ call'[r] # "new"
    BY <1>4 DEF AwaitQueue, CallStep, IncrementQueued, IncrementDropped,
         ReceiveResponse, SeeShutdown, TimeOut, TypeOK
  <2>3. handler[r] = "calling"
    BY <2>2 DEF Path
  <2>4. Path'
    BY <1>4, <2>2, <2>3 DEF AwaitQueue, Path, Queues, processVars, answerVars
  <2> QED BY <2>1, <2>4
<1>5. ASSUME NEW r \in Requests, QueryCache(r) \/ QueryDatabase(r)
      PROVE  Typed' /\ Path'
  <2>1. Typed'
    BY <1>5 DEF QueryCache, QueryDatabase, Typed, HandlerStates, processVars,
         cacheVars, gaugeVars
  <2>2. Path'
    BY <1>5 DEF QueryCache, QueryDatabase, Typed, Path, Queues, processVars, vars
  <2> QED BY <2>1, <2>2
<1>6. ASSUME NEW r \in Requests, Respond(r) PROVE Typed' /\ Path'
  <2>1. StatusOf(r) \in Statuses
    BY <1>6, StatusTyped DEF Respond
  <2>2. Typed'
    BY <1>6, <2>1 DEF Respond, Typed, HandlerStates, processVars, cacheVars
  <2>3. call[r] \in {"new"} \cup CallOutcomes
    <3>1. CASE handler[r] = "calling"
      BY <1>6, <3>1 DEF Respond, Outcome, Path, Queues
    <3>2. CASE handler[r] # "calling"
      BY <1>6, <3>2 DEF Respond, Path, Open
    <3> QED BY <3>1, <3>2
  <2>4. Path'
    BY <1>6, <2>3 DEF Respond, Typed, Path, Queues, Open, processVars, vars
  <2> QED BY <2>2, <2>4
<1>7. ASSUME NEW r \in Requests, RecoverPanic(r) PROVE Typed' /\ Path'
  <2>1. handler[r] = "calling" /\ call[r] = "panic"
    BY <1>7 DEF RecoverPanic, Outcome, Typed, HandlerStates
  <2>2. Typed'
    BY <1>7 DEF RecoverPanic, Typed, HandlerStates, Statuses, processVars, cacheVars
  <2>3. Path'
    BY <1>7, <2>1 DEF RecoverPanic, Typed, Path, Queues, processVars, vars
  <2> QED BY <2>2, <2>3
<1>8. ASSUME NEW w \in Workers, PoolStep(w) PROVE Typed' /\ Path'
  <2>1. CASE ReadCache(w)
    <3>1. holding[w] \in Requests /\ call[holding[w]] \in Owed
      BY <2>1 DEF ReadCache, OwnedOnce, Handling
    <3>2. handler[holding[w]] \in {"calling", "done"}
      BY <3>1 DEF Path, Owed
    <3>3. Typed'
      BY <2>1 DEF ReadCache, Typed, processVars, cacheVars, gaugeVars
    <3>4. Path'
      BY <2>1, <3>2 DEF ReadCache, Typed, Path, Queues, processVars, vars
    <3> QED BY <3>3, <3>4
  <2>2. CASE ~ReadCache(w)
    <3>1. UNCHANGED <<processVars, cacheVars, answerVars, gaugeVars, seen, call>>
      BY <1>8, <2>2 DEF PoolStep, SendAnswer, Answer, TakeRequest, WorkerExit,
           IncrementProcessed
    <3> QED BY <3>1 DEF Typed, Path, Queues, processVars, cacheVars, answerVars,
                        gaugeVars
  <2> QED BY <2>1, <2>2
<1>9. CASE StartService \/ StopQueue
  <2>1. /\ UNCHANGED <<queueEnabled, http, deadline, cacheVars, answerVars,
                       gaugeVars, seen, call>>
        /\ main' \in {"wait", "stopQueue", "stopBase"}
        /\ base' \in {base, "running"}
    BY <1>9 DEF StartService, StopQueue, Start, StopCancel, StopClose, StopWait, vars
  <2> QED BY <2>1 DEF Typed, Path, Queues, Stopping, cacheVars, answerVars, gaugeVars
<1>10. CASE \/ Serve \/ Signal \/ DeadlinePasses \/ GracefulStop
            \/ StopBase \/ stopHttpServer \/ closeServiceContext \/ awaitShutdown
  BY <1>0, <1>10 DEF Serve, Signal, DeadlinePasses, GracefulStop, StopBase,
       stopHttpServer, closeServiceContext, awaitShutdown, Stopping, Typed
<1>11. CASE UNCHANGED serviceVars
  BY <1>0, <1>11 DEF serviceVars, processVars, Typed
<1> QED BY <1>1, <1>2, <1>3, <1>4, <1>5, <1>6, <1>7, <1>8, <1>9, <1>10, <1>11
        DEF ServiceNext, HandlerStep, Ending

LEMMA TypedPath == ServiceSpec => [](TypeOK /\ OwnedOnce /\ Typed /\ Path)
<1>1. ServiceInit => Typed /\ Path
  <2> SUFFICES ASSUME ServiceInit PROVE Typed /\ Path
    OBVIOUS
  <2>1. 0 \in Versions
    BY MaxUpdatesAssumption DEF Versions
  <2>2. Typed
    BY <2>1 DEF ServiceInit, Typed, HandlerStates
  <2>3. Path
    BY DEF ServiceInit, Init, Path
  <2> QED BY <2>2, <2>3
<1>2. TypeOK /\ OwnedOnce /\ (Typed /\ Path) /\ [ServiceNext]_serviceVars
        => (Typed /\ Path)'
  BY StepTypedPath
<1> QED BY <1>1, <1>2, ServiceIsQueue, TypeCorrect, Ownership, PTL DEF ServiceSpec

-----------------------------------------------------------------------------
(***************************************************************************)
(* The truth of answers.  A version that was read stays in the history of  *)
(* an open request, the result of a handler says what was read, and only   *)
(* that result makes an answer - though a worker may also read for a       *)
(* request whose caller has given up, and then reads too late.             *)
(***************************************************************************)
Cached == {"metric", "list", "health"}

Told(r) ==
  /\ status[r] = 200 => /\ found[r] # Unread
                        /\ found[r] \in seen[r]
                        /\ route[r] # "list" => found[r] # Absent
  /\ route[r] = "metric" /\ (Queues(r) => call[r] = "error") /\ status[r] = 404
       => Absent \in seen[r]

Truth ==
  \A r \in Requests :
    /\ Open(r) => cache \in seen[r]
    /\ Open(r) /\ found[r] # Unread => found[r] \in seen[r]
    /\ response[r] = "data" \/ call[r] = "data" => found[r] \notin {Unread, Absent}
    /\ response[r] = "error" \/ call[r] = "error" => found[r] = Absent
    /\ route[r] \in Cached /\ handler[r] = "data" =>
         found[r] # Unread /\ (route[r] = "list" \/ found[r] # Absent)
    /\ route[r] = "metric" /\ handler[r] = "error" => found[r] = Absent
    /\ Answered(r) /\ route[r] \in Cached => Told(r)

LEMMA StepTruth ==
  TypeOK /\ OwnedOnce /\ Typed /\ Path /\ Truth /\ [ServiceNext]_serviceVars => Truth'
<1> SUFFICES ASSUME TypeOK, OwnedOnce, Typed, Path, Truth, [ServiceNext]_serviceVars
             PROVE  Truth'
  OBVIOUS
<1> USE DEF Cached
<1>0. ASSUME UNCHANGED <<queueEnabled, cache, answerVars, seen, call, response>>
      PROVE  Truth'
  BY <1>0 DEF Truth, Told, Open, Answered, Queues, answerVars
<1>1. CASE UpdateCache \/ CleanupCache
  <2>1. UNCHANGED <<processVars, answerVars, vars>>
    BY <1>1 DEF UpdateCache, CleanupCache, Holds
  <2>2. \A r \in Requests : seen'[r] = IF Open(r) THEN seen[r] \cup {cache'}
                                                  ELSE seen[r]
    BY <1>1 DEF UpdateCache, CleanupCache, Holds
  <2> QED BY <2>1, <2>2 DEF Truth, Told, Open, Answered, Queues, processVars,
                            answerVars, vars
<1>2. ASSUME NEW r \in Requests, Arrive(r) PROVE Truth'
  <2>1. found[r] = Unread /\ handler'[r] = "entered" /\ seen'[r] = {cache}
    BY <1>2 DEF Arrive, Typed, Path
  <2>2. UNCHANGED <<queueEnabled, cache, found, status, call, response>>
    BY <1>2 DEF Arrive, processVars, cacheVars, vars
  <2>3. \A q \in Requests \ {r} : /\ handler'[q] = handler[q]
                                  /\ route'[q] = route[q]
                                  /\ seen'[q] = seen[q]
    BY <1>2 DEF Arrive, Typed
  <2> QED BY <2>1, <2>2, <2>3 DEF Truth, Told, Open, Answered, Queues
<1>3. ASSUME NEW r \in Requests, CallQueue(r) PROVE Truth'
  <2>1. UNCHANGED <<queueEnabled, cache, route, found, status, response, seen>>
    BY <1>3 DEF CallQueue, TrySend, processVars, cacheVars
  <2>2. /\ handler[r] = "entered" /\ handler'[r] = "calling"
        /\ \A q \in Requests \ {r} : handler'[q] = handler[q]
    BY <1>3 DEF CallQueue, Typed
  <2>3. /\ call'[r] \in {"panic", "sent", "dropping"}
        /\ \A q \in Requests \ {r} : call'[q] = call[q]
    BY <1>3 DEF CallQueue, TrySend, TypeOK
  <2> QED BY <2>1, <2>2, <2>3 DEF Truth, Told, Open, Answered, Queues
<1>4. ASSUME NEW r \in Requests, AwaitQueue(r) PROVE Truth'
  <2>1. UNCHANGED <<queueEnabled, cache, handler, route, found, status, seen>>
    BY <1>4 DEF AwaitQueue, processVars, cacheVars, answerVars
  <2>2. call[r] \in {"sent", "dropping", "waiting"}
    BY <1>4 DEF AwaitQueue, CallStep, IncrementQueued, IncrementDropped,
         ReceiveResponse, SeeShutdown, TimeOut
  <2>3. handler[r] = "calling"
    BY <2>2 DEF Path
  <2>4. \A q \in Requests \ {r} : call'[q] = call[q] /\ response'[q] = response[q]
    BY <1>4 DEF AwaitQueue, CallStep, IncrementQueued, IncrementDropped,
         ReceiveResponse, SeeShutdown, TimeOut, TypeOK
  <2>5. \/ call'[r] = response[r] /\ response'[r] = "none"
        \/ /\ call'[r] \in {"waiting", "dropped", "shutdown", "timeout"}
           /\ response'[r] = response[r]
    BY <1>4 DEF AwaitQueue, CallStep, IncrementQueued, IncrementDropped,
         ReceiveResponse, SeeShutdown, TimeOut, TypeOK
  <2> QED BY <2>1, <2>3, <2>4, <2>5 DEF Truth, Told, Open, Answered, Queues
<1>5. ASSUME NEW r \in Requests, QueryCache(r) PROVE Truth'
  <2>1. /\ UNCHANGED <<queueEnabled, cache, route, status, call, response, seen>>
        /\ handler[r] = "entered" /\ call[r] = "new" /\ found[r] = Unread
    BY <1>5 DEF QueryCache, Path, processVars, cacheVars, vars
  <2>2. /\ handler'[r] \in {"data", "error"} /\ found'[r] = cache
        /\ \A q \in Requests \ {r} : handler'[q] = handler[q] /\ found'[q] = found[q]
    BY <1>5 DEF QueryCache, Typed
  <2>3. /\ handler'[r] = "data" => cache # Absent \/ route[r] = "list"
        /\ handler'[r] = "error" /\ route[r] = "metric" => cache = Absent
    BY <1>5 DEF QueryCache, Typed
  <2>4. cache # Unread
    BY DEF Typed, Versions
  <2>5. response[r] \notin {"data", "error"}
    BY <2>1 DEF Truth
  <2> QED BY <2>1, <2>2, <2>3, <2>4, <2>5 DEF Truth, Told, Open, Answered, Queues
<1>6. ASSUME NEW r \in Requests, QueryDatabase(r) PROVE Truth'
  <2>1. UNCHANGED <<queueEnabled, cache, route, found, status, call, response, seen>>
    BY <1>6 DEF QueryDatabase, processVars, cacheVars, vars
  <2>2. /\ route[r] = "switches"
        /\ handler[r] = "entered" /\ handler'[r] \in {"data", "error"}
        /\ \A q \in Requests \ {r} : handler'[q] = handler[q]
    BY <1>6 DEF QueryDatabase, Typed
  <2> QED BY <2>1, <2>2 DEF Truth, Told, Open, Answered, Queues
<1>7. ASSUME NEW r \in Requests, Respond(r) \/ RecoverPanic(r) PROVE Truth'
  <2>1. UNCHANGED <<queueEnabled, cache, route, found, call, response, seen>>
    BY <1>7 DEF Respond, RecoverPanic, processVars, cacheVars, vars
  <2>2. /\ Open(r) /\ handler'[r] = "done"
        /\ \A q \in Requests \ {r} : handler'[q] = handler[q] /\ status'[q] = status[q]
    BY <1>7 DEF Respond, RecoverPanic, Outcome, Open, Typed, HandlerStates
  <2>3. route[r] \in Cached => Told(r)'
    <3>1. SUFFICES ASSUME route[r] \in Cached PROVE Told(r)'
      OBVIOUS
    <3>2. CASE RecoverPanic(r)
      BY <3>2, <2>1 DEF RecoverPanic, Told, Typed
    <3>3. CASE Respond(r) /\ Outcome(r) = "data"
      <4>1. status'[r] = 200
        BY <3>3 DEF Respond, StatusOf, Typed
      <4>2. found[r] # Unread /\ (route[r] # "list" => found[r] # Absent)
        BY <3>1, <3>3 DEF Respond, Outcome, Truth, Path, Queues, Open
      <4> QED BY <2>1, <2>2, <4>1, <4>2 DEF Told, Truth, Queues
    <3>4. CASE Respond(r) /\ Outcome(r) # "data"
      <4>1. status'[r] = FailureOf[route[r]] /\ status'[r] # 200
        BY <3>1, <3>4 DEF Respond, StatusOf, Typed, FailureOf, Cached
      <4>2. ASSUME route[r] = "metric", Queues(r) => call[r] = "error"
            PROVE  found[r] = Absent
        BY <3>4, <4>2 DEF Respond, Outcome, Truth, Path, Queues, Open, Typed,
             HandlerStates
      <4> QED BY <2>1, <2>2, <4>1, <4>2 DEF Told, Truth, Queues
    <3> QED BY <1>7, <3>2, <3>3, <3>4
  <2> QED BY <2>1, <2>2, <2>3 DEF Truth, Told, Open, Answered, Queues
<1>8. ASSUME NEW w \in Workers, ReadCache(w) PROVE Truth'
  <2>1. PICK r \in Requests : r = holding[w] /\ found[r] = Unread
    BY <1>8 DEF ReadCache, OwnedOnce, Handling
  <2>2. UNCHANGED <<queueEnabled, cache, handler, route, status, call, response, seen>>
    BY <1>8 DEF ReadCache, processVars, cacheVars, vars
  <2>3. /\ found'[r] = cache
        /\ \A q \in Requests \ {r} : found'[q] = found[q]
    BY <1>8, <2>1 DEF ReadCache, Typed
  <2>4. handler[r] \in {"calling", "done"}
    BY <1>8, <2>1 DEF ReadCache, OwnedOnce, Handling, Owed, Path
  <2>5. ~(status[r] = 200 /\ Answered(r) /\ route[r] \in Cached)
    BY <2>1 DEF Truth, Told
  <2>6. {response[r], call[r]} \cap {"data", "error"} = {}
    BY <2>1 DEF Truth
  <2> QED BY <2>1, <2>2, <2>3, <2>4, <2>5, <2>6
          DEF Truth, Told, Open, Answered, Queues
<1>9. ASSUME NEW w \in Workers, SendAnswer(w) PROVE Truth'
  <2>1. PICK r \in Requests : r = holding[w] /\ found[r] # Unread
    BY <1>9 DEF SendAnswer, OwnedOnce, Handling
  <2>2. UNCHANGED <<queueEnabled, cache, answerVars, call, seen>>
    BY <1>9 DEF SendAnswer, Answer, processVars, cacheVars
  <2>3. /\ response'[r] \in {response[r], IF found[r] = Absent THEN "error" ELSE "data"}
        /\ \A q \in Requests \ {r} : response'[q] = response[q]
    BY <1>9, <2>1 DEF SendAnswer, Answer, TypeOK
  <2> QED BY <2>1, <2>2, <2>3 DEF Truth, Told, Open, Answered, Queues, answerVars
<1>10. ASSUME NEW w \in Workers, TakeRequest(w) \/ WorkerExit(w) \/ IncrementProcessed(w),
              UNCHANGED <<processVars, cacheVars, answerVars, gaugeVars, seen>>
       PROVE  Truth'
  BY <1>0, <1>10 DEF TakeRequest, WorkerExit, IncrementProcessed, processVars, cacheVars
<1>11. CASE \/ StartService \/ Serve \/ Signal \/ DeadlinePasses \/ GracefulStop
            \/ StopQueue \/ StopBase \/ stopHttpServer
            \/ closeServiceContext \/ awaitShutdown
  <2>1. UNCHANGED <<queueEnabled, cache, answerVars, seen, call, response>>
    BY <1>11 DEF StartService, Serve, Signal, DeadlinePasses, GracefulStop, StopQueue,
         StopBase, stopHttpServer, closeServiceContext, awaitShutdown, Start,
         StopCancel, StopClose, StopWait, cacheVars, vars
  <2> QED BY <1>0, <2>1
<1>12. CASE UNCHANGED serviceVars
  BY <1>0, <1>12 DEF serviceVars, processVars, cacheVars, vars
<1> QED BY <1>1, <1>2, <1>3, <1>4, <1>5, <1>6, <1>7, <1>8, <1>9, <1>10, <1>11, <1>12
        DEF ServiceNext, HandlerStep, PoolStep, Ending

(* AnswersAreCurrent: data that a request is answered was in the cache     *)
(* while the request was open, and an "unknown switch" was true in that    *)
(* time, for any number of requests and workers, with timeouts, abandoned  *)
(* requests, updates and clean-ups between read and answer.                *)
THEOREM AnswersWereTrue == ServiceSpec => []AnswersAreCurrent
<1>1. ServiceInit => Truth
  BY DEF ServiceInit, Init, Truth, Open, Answered
<1>2. TypeOK /\ OwnedOnce /\ Typed /\ Path /\ Truth /\ [ServiceNext]_serviceVars
        => Truth'
  BY StepTruth
<1>3. Truth => AnswersAreCurrent
  <2> SUFFICES ASSUME Truth, NEW r \in Requests, Answered(r),
                      route[r] \in {"metric", "list", "health"}
               PROVE  Told(r)
    BY DEF Told, AnswersAreCurrent
  <2> QED BY DEF Truth, Cached
<1> QED BY <1>1, <1>2, <1>3, TypedPath, PTL DEF ServiceSpec

-----------------------------------------------------------------------------
(***************************************************************************)
(* The HTTP metrics.  At any time finitely many requests are open or       *)
(* answered, so no assumption on Requests is needed.                       *)
(***************************************************************************)
Counted(s) == {r \in Requests : status[r] = s /\ call[r] # "panic"}

Measured ==
  /\ IsFiniteSet(InService) /\ inFlight = Cardinality(InService)
  /\ \A s \in Statuses :
       IsFiniteSet(Counted(s)) /\ httpRequests[s] = Cardinality(Counted(s))

LEMMA StepMeasured ==
  TypeOK /\ Typed /\ Path /\ Measured /\ [ServiceNext]_serviceVars => Measured'
<1> SUFFICES ASSUME TypeOK, Typed, Path, Measured, [ServiceNext]_serviceVars
             PROVE  Measured'
  OBVIOUS
<1>a. ASSUME UNCHANGED httpRequests, \A s \in Statuses : Counted(s)' = Counted(s),
             \/ InService' = InService /\ inFlight' = inFlight
             \/ \E r \in Requests : \/ /\ r \notin InService
                                       /\ InService' = InService \cup {r}
                                       /\ inFlight' = inFlight + 1
                                    \/ /\ r \in InService
                                       /\ InService' = InService \ {r}
                                       /\ inFlight' = inFlight - 1
      PROVE  Measured'
  <2>1. IsFiniteSet(InService') /\ inFlight' = Cardinality(InService')
    BY <1>a, FS_AddElement, FS_RemoveElement DEF Measured
  <2>2. \A s \in Statuses :
          IsFiniteSet(Counted(s)') /\ httpRequests'[s] = Cardinality(Counted(s)')
    BY <1>a DEF Measured
  <2> QED BY <2>1, <2>2 DEF Measured
<1>b. ASSUME UNCHANGED <<handler, status, call, gaugeVars>> PROVE Measured'
  <2>1. InService' = InService
    BY <1>b DEF InService, Open
  <2>2. \A s \in Statuses : Counted(s)' = Counted(s)
    BY <1>b DEF Counted
  <2> QED BY <1>a, <1>b, <2>1, <2>2 DEF gaugeVars
<1>1. CASE UpdateCache \/ CleanupCache
  BY <1>b, <1>1 DEF UpdateCache, CleanupCache, Holds, answerVars, vars
<1>2. ASSUME NEW r \in Requests, Arrive(r) PROVE Measured'
  <2>1. r \notin InService /\ InService' = InService \cup {r}
    BY <1>2 DEF Arrive, InService, Open, Typed
  <2>2. \A s \in Statuses : Counted(s)' = Counted(s)
    BY <1>2 DEF Arrive, Counted, vars
  <2> QED BY <1>a, <1>2, <2>1, <2>2 DEF Arrive
<1>3. ASSUME NEW r \in Requests, CallQueue(r) \/ AwaitQueue(r) PROVE Measured'
  <2>1. /\ UNCHANGED <<gaugeVars, status>>
        /\ \A q \in Requests \ {r} : call'[q] = call[q]
    BY <1>3 DEF CallQueue, AwaitQueue, TrySend, CallStep, IncrementQueued,
         IncrementDropped, ReceiveResponse, SeeShutdown, TimeOut, TypeOK, answerVars
  <2>2. InService' = InService
    BY <1>3 DEF CallQueue, AwaitQueue, InService, Open, Typed, answerVars
  <2>3. handler[r] # "done"
    BY <1>3 DEF CallQueue, AwaitQueue, CallStep, IncrementQueued,
         IncrementDropped, ReceiveResponse, SeeShutdown, TimeOut, Path
  <2>4. status[r] \notin Statuses
    BY <2>3 DEF Path, Statuses
  <2>5. \A s \in Statuses : Counted(s)' = Counted(s)
    BY <2>1, <2>4 DEF Counted
  <2> QED BY <1>a, <2>1, <2>2, <2>5 DEF gaugeVars
<1>4. ASSUME NEW r \in Requests, QueryCache(r) \/ QueryDatabase(r) PROVE Measured'
  <2>1. InService' = InService
    BY <1>4 DEF QueryCache, QueryDatabase, InService, Open, Typed
  <2>2. \A s \in Statuses : Counted(s)' = Counted(s)
    BY <1>4 DEF QueryCache, QueryDatabase, Counted, vars
  <2> QED BY <1>a, <1>4, <2>1, <2>2 DEF QueryCache, QueryDatabase, gaugeVars
<1>5. ASSUME NEW r \in Requests, Respond(r) PROVE Measured'
  <2>1. r \in InService /\ InService' = InService \ {r} /\ inFlight' = inFlight - 1
    BY <1>5 DEF Respond, InService, Open, Typed
  <2>2. IsFiniteSet(InService') /\ inFlight' = Cardinality(InService')
    BY <2>1, FS_RemoveElement DEF Measured
  <2>3. PICK t \in Statuses : t = StatusOf(r)
    BY <1>5, StatusTyped DEF Respond
  <2>4. status[r] \notin Statuses /\ call[r] # "panic"
    BY <1>5 DEF Respond, Outcome, Path, Queues, Open, Statuses
  <2>5. /\ Counted(t)' = Counted(t) \cup {r} /\ r \notin Counted(t)
        /\ \A s \in Statuses \ {t} : Counted(s)' = Counted(s)
    <3>1. status' = [status EXCEPT ![r] = t] /\ call' = call
      BY <1>5, <2>3 DEF Respond, vars
    <3> QED BY <2>4, <3>1 DEF Counted, Typed
  <2>6. httpRequests' = [httpRequests EXCEPT ![t] = @ + 1]
    BY <1>5, <2>3 DEF Respond
  <2>7. ASSUME NEW s \in Statuses
        PROVE  IsFiniteSet(Counted(s)') /\ httpRequests'[s] = Cardinality(Counted(s)')
    <3>1. IsFiniteSet(Counted(s)) /\ httpRequests[s] = Cardinality(Counted(s))
      BY DEF Measured
    <3>2. CASE s = t
      BY <2>5, <2>6, <3>1, <3>2, FS_AddElement DEF Typed
    <3>3. CASE s # t
      BY <2>5, <2>6, <3>1, <3>3 DEF Typed
    <3> QED BY <3>2, <3>3
  <2> QED BY <2>2, <2>7 DEF Measured
<1>6. ASSUME NEW r \in Requests, RecoverPanic(r) PROVE Measured'
  <2>1. handler[r] = "calling" /\ call[r] = "panic"
    BY <1>6 DEF RecoverPanic, Outcome, Typed, HandlerStates
  <2>2. r \in InService /\ InService' = InService \ {r}
    BY <1>6, <2>1 DEF RecoverPanic, InService, Open, Typed
  <2>3. \A s \in Statuses : Counted(s)' = Counted(s)
    BY <1>6, <2>1 DEF RecoverPanic, Counted, vars, Typed
  <2> QED BY <1>a, <1>6, <2>2, <2>3 DEF RecoverPanic
<1>7. ASSUME NEW w \in Workers, PoolStep(w) PROVE Measured'
  BY <1>b, <1>7 DEF PoolStep, ReadCache, SendAnswer, Answer, TakeRequest, WorkerExit,
       IncrementProcessed, answerVars, vars
<1>8. CASE \/ StartService \/ Serve \/ Signal \/ DeadlinePasses \/ GracefulStop
           \/ StopQueue \/ StopBase \/ stopHttpServer
           \/ closeServiceContext \/ awaitShutdown
  BY <1>b, <1>8 DEF StartService, Serve, Signal, DeadlinePasses, GracefulStop, StopQueue,
       StopBase, stopHttpServer, closeServiceContext, awaitShutdown, Start, StopCancel,
       StopClose, StopWait, answerVars, vars
<1>9. CASE UNCHANGED serviceVars
  BY <1>b, <1>9 DEF serviceVars, answerVars, vars
<1> QED BY <1>1, <1>2, <1>3, <1>4, <1>5, <1>6, <1>7, <1>8, <1>9
        DEF ServiceNext, HandlerStep, Ending

LEMMA MeasuredHolds == ServiceSpec => []Measured
<1>1. ServiceInit => Measured
  <2> SUFFICES ASSUME ServiceInit PROVE Measured
    OBVIOUS
  <2>1. InService = {} /\ \A s \in Statuses : Counted(s) = {}
    BY DEF ServiceInit, InService, Open, Counted, Statuses
  <2>2. IsFiniteSet({}) /\ Cardinality({}) = 0
    BY FS_EmptySet
  <2> QED BY <2>1, <2>2 DEF ServiceInit, Measured
<1>2. TypeOK /\ Typed /\ Path /\ Measured /\ [ServiceNext]_serviceVars => Measured'
  BY StepMeasured
<1> QED BY <1>1, <1>2, TypedPath, PTL DEF ServiceSpec

(* RequestsMeasured: the gauge of requests in flight and the counters by   *)
(* status agree with the requests, however each of them ends.              *)
THEOREM EveryRequestMeasured == ServiceSpec => []RequestsMeasured
<1>1. Measured => RequestsMeasured
  BY DEF Measured, RequestsMeasured, Counted
<1> QED BY <1>1, MeasuredHolds, PTL

(* ServiceTypeOK, the gauge's lower bound included.                        *)
THEOREM ServiceTypeCorrect == ServiceSpec => []ServiceTypeOK
<1>1. Typed /\ Measured => ServiceTypeOK
  BY CardNat DEF Typed, Measured, ServiceTypeOK
<1> QED BY <1>1, TypedPath, MeasuredHolds, PTL

-----------------------------------------------------------------------------
(***************************************************************************)
(* The end of the process.                                                 *)
(***************************************************************************)
Drained ==
  /\ http \in {"draining", "closed", "cut"} => main \in {"await", "awaitServer", "exited"}
  /\ main \in {"await", "awaitServer", "exited"} => http \in {"draining", "closed", "cut"}
  /\ http = "closed" => InService = {}
  /\ http = "cut" => deadline
  /\ main = "exited" => http \in {"closed", "cut"} \/ deadline

LEMMA StepDrained == Typed /\ Path /\ Drained /\ [ServiceNext]_serviceVars => Drained'
<1> SUFFICES ASSUME Typed, Path, Drained, [ServiceNext]_serviceVars PROVE Drained'
  OBVIOUS
<1> USE DEF Drained
<1>a. ASSUME UNCHANGED processVars, http = "closed" => InService' \subseteq InService
      PROVE  Drained'
  BY <1>a DEF processVars
<1>1. CASE UpdateCache \/ CleanupCache
  BY <1>a, <1>1 DEF UpdateCache, CleanupCache, Holds, answerVars, InService, Open
<1>2. ASSUME NEW r \in Requests, Arrive(r) PROVE Drained'
  BY <1>a, <1>2 DEF Arrive
<1>3. ASSUME NEW r \in Requests, HandlerStep(r) \/ AwaitQueue(r) PROVE Drained'
  <2>1. UNCHANGED processVars
    BY <1>3 DEF HandlerStep, CallQueue, QueryCache, QueryDatabase, Respond, RecoverPanic,
         AwaitQueue
  <2>2. InService' \subseteq InService
    BY <1>3 DEF HandlerStep, CallQueue, QueryCache, QueryDatabase, Respond, RecoverPanic,
         AwaitQueue, answerVars, InService, Open, Typed
  <2> QED BY <1>a, <2>1, <2>2
<1>4. ASSUME NEW w \in Workers, PoolStep(w) PROVE Drained'
  BY <1>a, <1>4 DEF PoolStep, ReadCache, SendAnswer, answerVars, InService, Open
<1>5. CASE \/ StartService \/ Serve \/ Signal \/ DeadlinePasses \/ GracefulStop
           \/ StopQueue \/ StopBase \/ stopHttpServer
           \/ closeServiceContext \/ awaitShutdown
  <2>1. InService' = InService
    BY <1>5 DEF StartService, Serve, Signal, DeadlinePasses, GracefulStop, StopQueue,
         StopBase, stopHttpServer, closeServiceContext, awaitShutdown,
         answerVars, InService, Open
  <2> QED BY <1>5, <2>1 DEF StartService, Serve, Signal, DeadlinePasses, GracefulStop,
         StopQueue, StopBase, stopHttpServer, closeServiceContext, awaitShutdown
<1>6. CASE UNCHANGED serviceVars
  BY <1>a, <1>6 DEF serviceVars, answerVars, InService, Open
<1> QED BY <1>1, <1>2, <1>3, <1>4, <1>5, <1>6 DEF ServiceNext, Ending

(* TimelyExitAnswers: a process that ends within its deadline has answered *)
(* every request it took.                                                  *)
THEOREM TimelyExit == ServiceSpec => []TimelyExitAnswers
<1>1. ServiceInit => Drained
  BY DEF ServiceInit, Drained, InService, Open
<1>2. Typed /\ Path /\ Drained /\ [ServiceNext]_serviceVars => Drained'
  BY StepDrained
<1>3. Drained => TimelyExitAnswers
  BY DEF Drained, TimelyExitAnswers
<1> QED BY <1>1, <1>2, <1>3, TypedPath, PTL DEF ServiceSpec
=============================================================================
