---------------------------- MODULE RequestQueue ----------------------------
(***************************************************************************)
(* The API request queue (internal/telemetry/queue/request_queue.go).      *)
(*                                                                         *)
(* HTTP goroutines call QueueGetMetric or QueueGetAllMetrics; each call    *)
(* makes one QueuedRequest with a response channel of capacity 1, tries a  *)
(* non-blocking send into the bounded requestChan and then waits for the   *)
(* response, a 5 s timer or the shutdown of the queue.  A pool of workers  *)
(* takes requests, runs the handler and answers.  Stop cancels the context,*)
(* closes requestChan and waits for the pool.                              *)
(*                                                                         *)
(* A member of Requests is one call: the caller's goroutine together with  *)
(* the QueuedRequest it builds.  Time is abstracted: a running timer may   *)
(* fire at any moment, and need not.                                       *)
(***************************************************************************)
EXTENDS Integers, Sequences, FiniteSets

CONSTANTS Requests,     \* the calls made while the queue exists
          Workers,      \* the goroutines of the pool
          QueueSize,    \* capacity of requestChan (QueueConfig.QueueSize)
          NoRequest     \* what a worker holds when it processes nothing

ASSUME QueueSizeAssumption == QueueSize \in Nat
ASSUME NoRequestAssumption == NoRequest \notin Requests

VARIABLES requestChan,  \* the buffered channel
          closed,       \* close(requestChan) has run
          cancelled,    \* rq.ctx is done
          call,         \* where each caller is
          response,     \* content of each ResponseChan (capacity 1)
          worker,       \* where each worker is
          holding,      \* the request a worker is processing
          metrics,      \* the counters and the depth gauge of QueueMetrics
          collector,    \* whether the metricsCollector goroutine runs
          stop          \* where the goroutine that calls Stop is

vars == <<requestChan, closed, cancelled, call, response, worker, holding,
          metrics, collector, stop>>

NoResponse == "none"
Results    == {"data", "error"}     \* what a handler's answer carries

(* "sent" and "dropping" are between the select of the send and the        *)
(* increment that follows it; the last row holds the ways a call ends.     *)
CallStates   == {"new", "sent", "waiting", "dropping"}
CallOutcomes == Results \cup {"timeout", "shutdown", "dropped", "panic"}
WorkerStates == {"none", "select", "handling", "counting", "exited"}
StopStates   == {"no", "closing", "waiting", "done"}

Init == /\ requestChan = <<>>
        /\ closed = FALSE
        /\ cancelled = FALSE
        /\ call = [r \in Requests |-> "new"]
        /\ response = [r \in Requests |-> NoResponse]
        /\ worker = [w \in Workers |-> "none"]
        /\ holding = [w \in Workers |-> NoRequest]
        /\ metrics = [queued |-> 0, processed |-> 0, dropped |-> 0, depth |-> 0]
        /\ collector = "none"
        /\ stop = "no"

(***************************************************************************)
(* Start: the workers and the metrics collector are spawned.               *)
(***************************************************************************)
Start == /\ collector = "none"
         /\ stop = "no"
         /\ worker' = [w \in Workers |-> "select"]
         /\ collector' = "running"
         /\ UNCHANGED <<requestChan, closed, cancelled, call, response, holding,
                        metrics, stop>>

(***************************************************************************)
(* The caller.  A send on a closed channel panics, full or not.            *)
(***************************************************************************)
Full_OffByOne == Len(requestChan) > QueueSize
Full == Len(requestChan) >= QueueSize

TrySend(r) ==
  /\ call[r] = "new"
  /\ \/ /\ closed
        /\ call' = [call EXCEPT ![r] = "panic"]
        /\ UNCHANGED requestChan
     \/ /\ ~closed
        /\ ~Full
        /\ requestChan' = Append(requestChan, r)
        /\ call' = [call EXCEPT ![r] = "sent"]
     \/ /\ ~closed
        /\ Full
        /\ call' = [call EXCEPT ![r] = "dropping"]
        /\ UNCHANGED requestChan
  /\ UNCHANGED <<closed, cancelled, response, worker, holding, metrics,
                 collector, stop>>

IncrementQueued(r) ==
  /\ call[r] = "sent"
  /\ call' = [call EXCEPT ![r] = "waiting"]
  /\ metrics' = [metrics EXCEPT !.queued = @ + 1]
  /\ UNCHANGED <<requestChan, closed, cancelled, response, worker, holding,
                 collector, stop>>

IncrementDropped(r) ==
  /\ call[r] = "dropping"
  /\ call' = [call EXCEPT ![r] = "dropped"]
  /\ metrics' = [metrics EXCEPT !.dropped = @ + 1]
  /\ UNCHANGED <<requestChan, closed, cancelled, response, worker, holding,
                 collector, stop>>

ReceiveResponse_ErrorIgnored(r) ==   \* the error of the response is ignored
  /\ call[r] = "waiting"
  /\ response[r] # NoResponse
  /\ call' = [call EXCEPT ![r] = "data"]
  /\ response' = [response EXCEPT ![r] = NoResponse]
  /\ UNCHANGED <<requestChan, closed, cancelled, worker, holding, metrics,
                 collector, stop>>

(* The three arms of the select a caller waits in. *)
ReceiveResponse(r) ==
  /\ call[r] = "waiting"
  /\ response[r] # NoResponse
  /\ call' = [call EXCEPT ![r] = response[r]]
  /\ response' = [response EXCEPT ![r] = NoResponse]
  /\ UNCHANGED <<requestChan, closed, cancelled, worker, holding, metrics,
                 collector, stop>>

TimeOut(r) ==
  /\ call[r] = "waiting"
  /\ call' = [call EXCEPT ![r] = "timeout"]
  /\ UNCHANGED <<requestChan, closed, cancelled, response, worker, holding,
                 metrics, collector, stop>>

SeeShutdown_NoArm(r) == FALSE  \* the select has no ctx.Done arm
SeeShutdown(r) ==
  /\ call[r] = "waiting"
  /\ cancelled
  /\ call' = [call EXCEPT ![r] = "shutdown"]
  /\ UNCHANGED <<requestChan, closed, cancelled, response, worker, holding,
                 metrics, collector, stop>>

(***************************************************************************)
(* A worker: its select, processRequest, incrementProcessedRequests.       *)
(* A closed channel still yields what is buffered in it.  Both arms of the *)
(* select may be ready, and Go then picks either.                          *)
(***************************************************************************)
TakeRequest(w) ==
  /\ worker[w] = "select"
  /\ requestChan # <<>>
  /\ requestChan' = Tail(requestChan)
  /\ holding' = [holding EXCEPT ![w] = Head(requestChan)]
  /\ worker' = [worker EXCEPT ![w] = "handling"]
  /\ UNCHANGED <<closed, cancelled, call, response, metrics, collector, stop>>

WorkerExit_NoDone(w) ==     \* workerPool.Done is skipped on the ctx.Done path
  /\ worker[w] = "select"
  /\ \/ /\ closed /\ requestChan = <<>>
        /\ worker' = [worker EXCEPT ![w] = "exited"]
     \/ /\ cancelled
        /\ worker' = [worker EXCEPT ![w] = "none"]
  /\ UNCHANGED <<requestChan, closed, cancelled, call, response, holding,
                 metrics, collector, stop>>

WorkerExit(w) ==
  /\ worker[w] = "select"
  /\ \/ closed /\ requestChan = <<>>
     \/ cancelled
  /\ worker' = [worker EXCEPT ![w] = "exited"]
  /\ UNCHANGED <<requestChan, closed, cancelled, call, response, holding,
                 metrics, collector, stop>>

Answer_AlwaysTwice(w, result) ==     \* the deferred send does not ask for a panic
  /\ worker[w] = "handling"
  /\ response[holding[w]] = NoResponse
  /\ response' = [response EXCEPT ![holding[w]] = result]
  /\ UNCHANGED <<requestChan, closed, cancelled, call, worker, holding, metrics,
                 collector, stop>>

(* The handler returns and the answer is sent without blocking: an answer  *)
(* for a full response channel is thrown away.                             *)
Answer(w, result) ==
  LET r == holding[w] IN
  /\ worker[w] = "handling"
  /\ response' = IF response[r] = NoResponse
                   THEN [response EXCEPT ![r] = result]
                   ELSE response
  /\ holding' = [holding EXCEPT ![w] = NoRequest]
  /\ worker' = [worker EXCEPT ![w] = "counting"]
  /\ UNCHANGED <<requestChan, closed, cancelled, call, metrics, collector, stop>>

(* Where a worker goes once its handler has panicked. *)
AfterPanic_NotCounted == "select"   \* the panic path skips the counter
AfterPanic_Exit == "exited"         \* the panic is recovered in worker()
AfterPanic == "counting"

(* The handler panics: the deferred function recovers and sends an error,  *)
(* and this send blocks while the response channel is full.                *)
AnswerPanic(w) ==
  LET r == holding[w] IN
  /\ worker[w] = "handling"
  /\ response[r] = NoResponse
  /\ response' = [response EXCEPT ![r] = "error"]
  /\ holding' = [holding EXCEPT ![w] = NoRequest]
  /\ worker' = [worker EXCEPT ![w] = AfterPanic]
  /\ UNCHANGED <<requestChan, closed, cancelled, call, metrics, collector, stop>>

IncrementProcessed(w) ==
  /\ worker[w] = "counting"
  /\ worker' = [worker EXCEPT ![w] = "select"]
  /\ metrics' = [metrics EXCEPT !.processed = @ + 1]
  /\ UNCHANGED <<requestChan, closed, cancelled, call, response, holding,
                 collector, stop>>

(***************************************************************************)
(* metricsCollector: a tick samples the depth of the channel.              *)
(***************************************************************************)
UpdateMetrics ==
  /\ collector = "running"
  /\ metrics' = [metrics EXCEPT !.depth = Len(requestChan)]
  /\ UNCHANGED <<requestChan, closed, cancelled, call, response, worker, holding,
                 collector, stop>>

CollectorExit ==
  /\ collector = "running"
  /\ cancelled
  /\ collector' = "exited"
  /\ UNCHANGED <<requestChan, closed, cancelled, call, response, worker, holding,
                 metrics, stop>>

(***************************************************************************)
(* Stop: cancel, close, wait.  The application stops the queue once, after *)
(* it was started.                                                         *)
(***************************************************************************)
StopCancel ==
  /\ stop = "no"
  /\ collector # "none"
  /\ cancelled' = TRUE
  /\ stop' = "closing"
  /\ UNCHANGED <<requestChan, closed, call, response, worker, holding, metrics,
                 collector>>

StopClose ==
  /\ stop = "closing"
  /\ closed' = TRUE
  /\ stop' = "waiting"
  /\ UNCHANGED <<requestChan, cancelled, call, response, worker, holding,
                 metrics, collector>>

PoolDone == \A w \in Workers : worker[w] = "exited"

StopWait ==
  /\ stop = "waiting"
  /\ PoolDone
  /\ stop' = "done"
  /\ UNCHANGED <<requestChan, closed, cancelled, call, response, worker, holding,
                 metrics, collector>>

(* The steps a caller takes once it has issued its call, timer excluded. *)
CallStep(r) == \/ IncrementQueued(r)
               \/ IncrementDropped(r)
               \/ ReceiveResponse(r)
               \/ SeeShutdown(r)

WorkerStep(w) == \/ TakeRequest(w)
                 \/ WorkerExit(w)
                 \/ \E result \in Results : Answer(w, result)
                 \/ AnswerPanic(w)
                 \/ IncrementProcessed(w)

StopStep == StopClose \/ StopWait

Next == \/ Start
        \/ \E r \in Requests : TrySend(r) \/ CallStep(r) \/ TimeOut(r)
        \/ \E w \in Workers : WorkerStep(w)
        \/ UpdateMetrics
        \/ CollectorExit
        \/ StopCancel
        \/ StopStep

(* The service starts the queue, goroutines that can run do run, and       *)
(* handlers return.  Nobody has to issue a call or stop the queue, and no  *)
(* timer has to fire.                                                      *)
Fairness == /\ WF_vars(Start)
            /\ \A r \in Requests : WF_vars(CallStep(r))
            /\ \A w \in Workers : WF_vars(WorkerStep(w))
            /\ WF_vars(StopStep)

Spec     == Init /\ [][Next]_vars
FairSpec == Spec /\ Fairness

-----------------------------------------------------------------------------
(* Type invariant: every variable of the queue holds what the Go types and *)
(* the capacities of the two kinds of channel allow.                       *)
TypeOK ==
  /\ requestChan \in Seq(Requests) /\ Len(requestChan) <= QueueSize
  /\ closed \in BOOLEAN
  /\ cancelled \in BOOLEAN
  /\ call \in [Requests -> CallStates \cup CallOutcomes]
  /\ response \in [Requests -> Results \cup {NoResponse}]
  /\ worker \in [Workers -> WorkerStates]
  /\ holding \in [Workers -> Requests \cup {NoRequest}]
  /\ metrics \in [queued : Nat, processed : Nat, dropped : Nat,
                 depth : 0..QueueSize]
  /\ collector \in {"none", "running", "exited"}
  /\ stop \in StopStates

(* A request is in one place at most: once in the channel, with one worker, *)
(* or answered in its response channel.  It is the inductive core of the   *)
(* safety of the queue: no path of a worker, a caller or Stop duplicates   *)
(* or resurrects a request.                                                *)
Owed == {"sent", "waiting", "timeout", "shutdown"}

Handling(w) == worker[w] = "handling"

OwnedOnce ==
  /\ \A i \in 1..Len(requestChan) :
        /\ call[requestChan[i]] \in Owed
        /\ response[requestChan[i]] = NoResponse
        /\ \A j \in 1..Len(requestChan) : requestChan[i] = requestChan[j] => i = j
        /\ \A w \in Workers : Handling(w) => holding[w] # requestChan[i]
  /\ \A w \in Workers : Handling(w) =>
        /\ holding[w] \in Requests
        /\ call[holding[w]] \in Owed
        /\ response[holding[w]] = NoResponse
        /\ \A u \in Workers : Handling(u) /\ holding[u] = holding[w] => u = w
  /\ \A r \in Requests : response[r] # NoResponse => call[r] \in Owed

(* A worker never finds the response channel of its request occupied, so   *)
(* the branch "Failed to send response" (request_queue.go:259-262) is dead *)
(* and the send of the recovered panic (line 228) never blocks a worker.   *)
ResponseChannelFree ==
  \A w \in Workers : Handling(w) => response[holding[w]] = NoResponse

(* The counters agree with the traffic: what was sent, counted yet or not, *)
(* is what was processed, is being processed or waits in the channel - on  *)
(* every path, a panicking handler and a shutdown included; and each call  *)
(* that is told of a full queue was counted once as dropped.               *)
CountersBalance ==
  /\ metrics.queued + Cardinality({r \in Requests : call[r] = "sent"})
       = metrics.processed + Len(requestChan)
           + Cardinality({w \in Workers : worker[w] \in {"handling", "counting"}})
  /\ metrics.dropped = Cardinality({r \in Requests : call[r] = "dropped"})

(* Once Stop has returned no handler runs: the telemetry service stops its *)
(* base service and store right after (service_with_queue.go:61-79).       *)
NoHandlerAfterStop ==
  stop = "done" => \A w \in Workers : worker[w] \notin {"handling", "counting"}

(* Nobody waits for nothing: a caller in its select has its request in the *)
(* channel, with a worker, or its answer in the response channel; and as   *)
(* long as the queue is not being stopped, no worker is missing, however   *)
(* many handlers have panicked.                                            *)
InChannel(r) == \E i \in 1..Len(requestChan) : requestChan[i] = r

AnswersAreComing ==
  /\ \A r \in Requests : call[r] \in {"sent", "waiting"} =>
        \/ InChannel(r)
        \/ \E w \in Workers : Handling(w) /\ holding[w] = r
        \/ response[r] # NoResponse
  /\ collector # "none" /\ ~cancelled =>
        \A w \in Workers : worker[w] \in {"select", "handling", "counting"}

(* While the queue is not being stopped a buffered request reaches a       *)
(* worker, however often handlers panic.                                   *)
RequestsServed ==
  \A r \in Requests : InChannel(r) ~> (cancelled \/ ~InChannel(r))

(* "Stop gracefully shuts down the queue" (request_queue.go:117): a caller *)
(* gets an answer or an error, not a panic.                                *)
CallersNeverPanic == \A r \in Requests : call[r] # "panic"

(***************************************************************************)
(* The queue implements RequestService.                                    *)
(***************************************************************************)
PhaseOf(r) == CASE call[r] \in {"sent", "waiting"} -> "open"
                [] call[r] = "dropping"            -> "dropped"
                [] OTHER                           -> call[r]

WorkOf(r) == CASE response[r] # NoResponse -> response[r]
               [] response[r] = NoResponse /\ call[r] \in Results -> call[r]
               [] OTHER ->
                    IF \E w \in Workers : worker[w] = "handling" /\ holding[w] = r
                      THEN "running" ELSE "none"

Service == INSTANCE RequestService
             WITH phase <- [r \in Requests |-> PhaseOf(r)],
                  work  <- [r \in Requests |-> WorkOf(r)]

(* The queue keeps the promise of RequestService: one handler run and one  *)
(* outcome per call, and the outcome of a call is the answer to that call. *)
ImplementsService == Service!Spec
=============================================================================
