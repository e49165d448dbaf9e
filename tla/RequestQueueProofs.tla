------------------------- MODULE RequestQueueProofs -------------------------
(***************************************************************************)
(* Theorems about RequestQueue for every set of calls, every pool and      *)
(* every capacity of the channel.                                          *)
(***************************************************************************)
EXTENDS RequestQueue, FiniteSetTheorems, TLAPS

USE DEF CallStates, CallOutcomes, Results, NoResponse, WorkerStates, StopStates

(***************************************************************************)
(* Type correctness.                                                       *)
(***************************************************************************)
LEMMA InitTyped == Init => TypeOK
<1> SUFFICES ASSUME Init PROVE TypeOK
  OBVIOUS
<1> USE DEF Init
<1>1. requestChan \in Seq(Requests) /\ Len(requestChan) <= QueueSize
  BY QueueSizeAssumption
<1>2. call \in [Requests -> CallStates \cup CallOutcomes]
  OBVIOUS
<1>3. response \in [Requests -> Results \cup {NoResponse}]
  OBVIOUS
<1>4. worker \in [Workers -> WorkerStates]
  OBVIOUS
<1>5. holding \in [Workers -> Requests \cup {NoRequest}]
  OBVIOUS
<1>6. metrics \in [queued : Nat, processed : Nat, dropped : Nat,
                   depth : 0..QueueSize]
  BY QueueSizeAssumption
<1> QED BY <1>1, <1>2, <1>3, <1>4, <1>5, <1>6 DEF TypeOK

LEMMA StepTyped == TypeOK /\ [Next]_vars => TypeOK'
<1> SUFFICES ASSUME TypeOK, [Next]_vars PROVE TypeOK'
  OBVIOUS
<1> USE QueueSizeAssumption DEF TypeOK
<1>1. CASE Start
  <2>1. worker' \in [Workers -> WorkerStates]
    BY <1>1 DEF Start
  <2>2. /\ collector' = "running"
        /\ UNCHANGED <<requestChan, closed, cancelled, call, response, holding,
                       metrics, stop>>
    BY <1>1 DEF Start
  <2> QED BY <2>1, <2>2
<1>2. ASSUME NEW r \in Requests, TrySend(r) PROVE TypeOK'
  <2>1. UNCHANGED <<closed, cancelled, response, worker, holding, metrics,
                    collector, stop>>
    BY <1>2 DEF TrySend
  <2>2. call' \in [Requests -> CallStates \cup CallOutcomes]
    BY <1>2 DEF TrySend
  <2>3. requestChan' \in Seq(Requests) /\ Len(requestChan') <= QueueSize
    <3>1. CASE requestChan' = requestChan
      BY <3>1
    <3>2. CASE ~Full /\ requestChan' = Append(requestChan, r)
      BY <3>2 DEF Full
    <3> QED BY <1>2, <3>1, <3>2 DEF TrySend
  <2> QED BY <2>1, <2>2, <2>3
<1>3. ASSUME NEW r \in Requests, CallStep(r) PROVE TypeOK'
  <2>1. CASE IncrementQueued(r)
    BY <2>1 DEF IncrementQueued
  <2>2. CASE IncrementDropped(r)
    BY <2>2 DEF IncrementDropped
  <2>3. CASE ReceiveResponse(r)
    BY <2>3 DEF ReceiveResponse
  <2>4. CASE SeeShutdown(r)
    BY <2>4 DEF SeeShutdown
  <2> QED BY <1>3, <2>1, <2>2, <2>3, <2>4 DEF CallStep
<1>4. ASSUME NEW r \in Requests, TimeOut(r) PROVE TypeOK'
  BY <1>4 DEF TimeOut
<1>5. ASSUME NEW w \in Workers, WorkerStep(w) PROVE TypeOK'
  <2>1. CASE TakeRequest(w)
    BY <2>1 DEF TakeRequest
  <2>2. CASE WorkerExit(w)
    BY <2>2 DEF WorkerExit
  <2>3. ASSUME NEW result \in Results, Answer(w, result) PROVE TypeOK'
    BY <2>3 DEF Answer
  <2>4. CASE AnswerPanic(w)
    BY <2>4 DEF AnswerPanic, AfterPanic
  <2>5. CASE IncrementProcessed(w)
    BY <2>5 DEF IncrementProcessed
  <2> QED BY <1>5, <2>1, <2>2, <2>3, <2>4, <2>5 DEF WorkerStep
<1>6. CASE UpdateMetrics
  BY <1>6 DEF UpdateMetrics
<1>7. CASE CollectorExit
  BY <1>7 DEF CollectorExit
<1>8. CASE StopCancel
  BY <1>8 DEF StopCancel
<1>9. CASE StopStep
  BY <1>9 DEF StopStep, StopClose, StopWait
<1>10. CASE UNCHANGED vars
  BY <1>10 DEF vars
<1> QED BY <1>1, <1>2, <1>3, <1>4, <1>5, <1>6, <1>7, <1>8, <1>9, <1>10 DEF Next

(* Type correctness of the queue, TypeOK, for every value of the constants. *)
THEOREM TypeCorrect == Spec => []TypeOK
<1>1. Init => TypeOK
  BY InitTyped
<1>2. TypeOK /\ [Next]_vars => TypeOK'
  BY StepTyped
<1> QED BY <1>1, <1>2, PTL DEF Spec

(***************************************************************************)
(* Ownership of requests.                                                  *)
(***************************************************************************)
LEMMA InitOwned == Init => OwnedOnce
BY DEF Init, OwnedOnce, Handling

LEMMA StepOwned == TypeOK /\ OwnedOnce /\ [Next]_vars => OwnedOnce'
<1> SUFFICES ASSUME TypeOK, OwnedOnce, [Next]_vars PROVE OwnedOnce'
  OBVIOUS
<1> USE DEF TypeOK, OwnedOnce, Owed, Handling
<1>1. CASE Start
  <2>1. \A w \in Workers : worker'[w] = "select"
    BY <1>1 DEF Start
  <2>2. UNCHANGED <<requestChan, call, response, holding>>
    BY <1>1 DEF Start
  <2> QED BY <2>1, <2>2
<1>2. ASSUME NEW r \in Requests, TrySend(r) PROVE OwnedOnce'
  <2>1. CASE closed \/ Full
    <3>1. /\ call[r] = "new"
          /\ \/ call' = [call EXCEPT ![r] = "panic"]
             \/ call' = [call EXCEPT ![r] = "dropping"]
          /\ UNCHANGED <<requestChan, response, worker, holding>>
      BY <1>2, <2>1 DEF TrySend
    <3> QED BY <3>1
  <2>2. CASE ~closed /\ ~Full
    <3>1. /\ requestChan' = Append(requestChan, r)
          /\ call[r] = "new"
          /\ call' = [call EXCEPT ![r] = "sent"]
          /\ UNCHANGED <<response, worker, holding>>
      BY <1>2, <2>2 DEF TrySend
    <3>2. Len(requestChan') = Len(requestChan) + 1
      BY <3>1
    <3>3. \A i \in 1..Len(requestChan) :
             requestChan'[i] = requestChan[i] /\ requestChan[i] # r
      BY <3>1
    <3>4. requestChan'[Len(requestChan) + 1] = r
      BY <3>1
    <3>5. response[r] = NoResponse /\ \A w \in Workers : Handling(w) => holding[w] # r
      BY <3>1
    <3> QED BY <3>1, <3>2, <3>3, <3>4, <3>5
  <2> QED BY <2>1, <2>2
<1>3. ASSUME NEW r \in Requests, CallStep(r) PROVE OwnedOnce'
  <2>1. CASE IncrementQueued(r)
    BY <2>1 DEF IncrementQueued
  <2>2. CASE IncrementDropped(r)
    BY <2>2 DEF IncrementDropped
  <2>3. CASE ReceiveResponse(r)
    BY <2>3 DEF ReceiveResponse
  <2>4. CASE SeeShutdown(r)
    BY <2>4 DEF SeeShutdown
  <2> QED BY <1>3, <2>1, <2>2, <2>3, <2>4 DEF CallStep
<1>4. ASSUME NEW r \in Requests, TimeOut(r) PROVE OwnedOnce'
  BY <1>4 DEF TimeOut
<1>5. ASSUME NEW w \in Workers, WorkerStep(w) PROVE OwnedOnce'
  <2>1. CASE TakeRequest(w)
    <3>1. /\ requestChan # <<>>
          /\ requestChan' = Tail(requestChan)
          /\ holding' = [holding EXCEPT ![w] = requestChan[1]]
          /\ worker' = [worker EXCEPT ![w] = "handling"]
          /\ UNCHANGED <<call, response>>
      BY <2>1 DEF TakeRequest
    <3>2. /\ Len(requestChan') = Len(requestChan) - 1
          /\ \A i \in 1..Len(requestChan') : requestChan'[i] = requestChan[i + 1]
          /\ 1 \in 1..Len(requestChan)
          /\ \A i \in 1..Len(requestChan') : i + 1 \in 1..Len(requestChan)
      BY <3>1
    <3>3. \A u \in Workers \ {w} : Handling(u)' <=> Handling(u)
      BY <3>1
    <3>4. \A u \in Workers \ {w} : holding'[u] = holding[u]
      BY <3>1
    <3>5. holding'[w] = requestChan[1] /\ requestChan[1] \in Requests
      BY <3>1
    <3> QED BY <3>1, <3>2, <3>3, <3>4, <3>5
  <2>2. CASE WorkerExit(w)
    BY <2>2 DEF WorkerExit
  <2>3. ASSUME NEW result \in Results, Answer(w, result) PROVE OwnedOnce'
    BY <2>3 DEF Answer
  <2>4. CASE AnswerPanic(w)
    BY <2>4 DEF AnswerPanic, AfterPanic
  <2>5. CASE IncrementProcessed(w)
    BY <2>5 DEF IncrementProcessed
  <2> QED BY <1>5, <2>1, <2>2, <2>3, <2>4, <2>5 DEF WorkerStep
<1>6. CASE UpdateMetrics
  BY <1>6 DEF UpdateMetrics
<1>7. CASE CollectorExit
  BY <1>7 DEF CollectorExit
<1>8. CASE StopCancel
  BY <1>8 DEF StopCancel
<1>9. CASE StopStep
  BY <1>9 DEF StopStep, StopClose, StopWait
<1>10. CASE UNCHANGED vars
  BY <1>10 DEF vars
<1> QED BY <1>1, <1>2, <1>3, <1>4, <1>5, <1>6, <1>7, <1>8, <1>9, <1>10 DEF Next

(* A request is never in two places, OwnedOnce. *)
THEOREM Ownership == Spec => []OwnedOnce
<1>1. Init => TypeOK /\ OwnedOnce
  BY InitTyped, InitOwned
<1>2. (TypeOK /\ OwnedOnce) /\ [Next]_vars => (TypeOK /\ OwnedOnce)'
  BY StepTyped, StepOwned
<1> QED BY <1>1, <1>2, PTL DEF Spec

(* No answer is ever thrown away and no recovered panic blocks a worker,   *)
(* ResponseChannelFree.                                                    *)
THEOREM AnswersFit == Spec => []ResponseChannelFree
<1>1. OwnedOnce => ResponseChannelFree
  BY DEF OwnedOnce, ResponseChannelFree
<1> QED BY <1>1, Ownership, PTL

(***************************************************************************)
(* Start, Stop and the handlers.                                           *)
(***************************************************************************)
Lifecycle == /\ collector = "none" => \A w \in Workers : worker[w] = "none"
             /\ stop # "no" => collector # "none"
             /\ stop = "done" => \A w \in Workers : worker[w] = "exited"

LEMMA StepLifecycle == TypeOK /\ Lifecycle /\ [Next]_vars => Lifecycle'
<1> SUFFICES ASSUME TypeOK, Lifecycle, [Next]_vars PROVE Lifecycle'
  OBVIOUS
<1> USE DEF TypeOK, Lifecycle
<1>1. CASE Start
  BY <1>1 DEF Start
<1>2. ASSUME NEW r \in Requests, TrySend(r) \/ CallStep(r) \/ TimeOut(r)
      PROVE  Lifecycle'
  BY <1>2 DEF TrySend, CallStep, IncrementQueued, IncrementDropped,
              ReceiveResponse, SeeShutdown, TimeOut
<1>3. ASSUME NEW w \in Workers, WorkerStep(w) PROVE Lifecycle'
  <2>1. CASE WorkerExit(w)
    BY <2>1 DEF WorkerExit
  <2>2. CASE ~WorkerExit(w)
    <3>1. worker[w] \notin {"none", "exited"} /\ UNCHANGED <<stop, collector>>
      BY <1>3, <2>2 DEF WorkerStep, TakeRequest, Answer, AnswerPanic,
                        IncrementProcessed
    <3> QED BY <3>1
  <2> QED BY <2>1, <2>2
<1>4. CASE UpdateMetrics \/ CollectorExit
  BY <1>4 DEF UpdateMetrics, CollectorExit
<1>5. CASE StopCancel \/ StopStep
  BY <1>5 DEF StopCancel, StopStep, StopClose, StopWait, PoolDone
<1>6. CASE UNCHANGED vars
  BY <1>6 DEF vars
<1> QED BY <1>1, <1>2, <1>3, <1>4, <1>5, <1>6 DEF Next

LEMMA LifecycleHolds == Spec => [](TypeOK /\ Lifecycle)
<1>1. Init => TypeOK /\ Lifecycle
  BY InitTyped DEF Init, Lifecycle
<1>2. (TypeOK /\ Lifecycle) /\ [Next]_vars => (TypeOK /\ Lifecycle)'
  BY StepTyped, StepLifecycle
<1> QED BY <1>1, <1>2, PTL DEF Spec

(* No handler runs once Stop has returned, NoHandlerAfterStop: the pool    *)
(* that Stop waited for never comes back.                                  *)
THEOREM StoppedIsQuiet == Spec => []NoHandlerAfterStop
<1>1. Lifecycle => NoHandlerAfterStop
  BY DEF Lifecycle, NoHandlerAfterStop
<1> QED BY <1>1, LifecycleHolds, PTL

(***************************************************************************)
(* Callers that wait, and the pool they wait for.                          *)
(***************************************************************************)
Backed(r) == \/ InChannel(r)
             \/ \E w \in Workers : Handling(w) /\ holding[w] = r
             \/ response[r] # NoResponse

Waits(r) == call[r] \in {"sent", "waiting"}

LEMMA StepBacked ==
  ASSUME TypeOK, OwnedOnce, Lifecycle, [Next]_vars, NEW r \in Requests,
         Waits(r) => Backed(r), Waits(r)'
  PROVE  Backed(r)'
<1> USE DEF TypeOK, Handling, Waits
<1>1. ASSUME UNCHANGED <<requestChan, response, worker, holding>>, call'[r] = call[r]
      PROVE  Backed(r)'
  BY <1>1 DEF Backed, InChannel
<1>2. CASE Start
  <2>1. /\ UNCHANGED <<requestChan, call, response, holding>>
        /\ \A w \in Workers : worker[w] = "none"
    BY <1>2 DEF Start, Lifecycle
  <2> QED BY <2>1 DEF Backed, InChannel
<1>3. ASSUME NEW q \in Requests, TrySend(q) PROVE Backed(r)'
  <2>1. UNCHANGED <<response, worker, holding>>
    BY <1>3 DEF TrySend
  <2>2. CASE requestChan' = requestChan
    <3>1. call'[r] = call[r]
      BY <1>3, <2>2 DEF TrySend
    <3> QED BY <1>1, <2>1, <2>2, <3>1
  <2>3. CASE requestChan' = Append(requestChan, q)
    <3>1. Len(requestChan') = Len(requestChan) + 1
          /\ requestChan'[Len(requestChan) + 1] = q
          /\ \A i \in 1..Len(requestChan) : requestChan'[i] = requestChan[i]
      BY <2>3
    <3>2. q # r => call'[r] = call[r]
      BY <1>3 DEF TrySend
    <3>3. Len(requestChan) \in Nat
      OBVIOUS
    <3>4. (q = r \/ InChannel(r)) => InChannel(r)'
      BY <3>1, <3>3 DEF InChannel
    <3> QED BY <2>1, <3>2, <3>4 DEF Backed
  <2> QED BY <1>3, <2>2, <2>3 DEF TrySend
<1>4. ASSUME NEW q \in Requests, CallStep(q) \/ TimeOut(q) PROVE Backed(r)'
  <2>1. UNCHANGED <<requestChan, worker, holding>>
    BY <1>4 DEF CallStep, IncrementQueued, IncrementDropped, ReceiveResponse,
                SeeShutdown, TimeOut
  <2>2. Waits(r) /\ response'[r] = response[r]
    BY <1>4 DEF CallStep, IncrementQueued, IncrementDropped, ReceiveResponse,
                SeeShutdown, TimeOut
  <2> QED BY <2>1, <2>2 DEF Backed, InChannel
<1>5. ASSUME NEW w \in Workers, WorkerStep(w) PROVE Backed(r)'
  <2>0. Backed(r)
    BY <1>5 DEF WorkerStep, TakeRequest, WorkerExit, Answer, AnswerPanic,
                IncrementProcessed
  <2>1. CASE TakeRequest(w)
    <3>1. /\ requestChan # <<>> /\ requestChan' = Tail(requestChan)
          /\ worker[w] = "select" /\ response' = response
          /\ worker' = [worker EXCEPT ![w] = "handling"]
          /\ holding' = [holding EXCEPT ![w] = requestChan[1]]
      BY <2>1 DEF TakeRequest
    <3>2. ASSUME NEW i \in 1..Len(requestChan), requestChan[i] = r, i # 1
          PROVE  InChannel(r)'
      <4>1. i - 1 \in 1..Len(requestChan') /\ requestChan'[i - 1] = r
        BY <3>1, <3>2
      <4> QED BY <4>1 DEF InChannel
    <3>3. requestChan[1] = r => worker'[w] = "handling" /\ holding'[w] = r
      BY <3>1
    <3>4. ASSUME NEW u \in Workers, Handling(u), holding[u] = r
          PROVE  worker'[u] = "handling" /\ holding'[u] = r
      BY <3>1, <3>4
    <3> QED BY <2>0, <3>1, <3>2, <3>3, <3>4 DEF Backed, InChannel
  <2>2. ASSUME NEW result \in Results, Answer(w, result) \/ AnswerPanic(w)
        PROVE  Backed(r)'
    <3>1. /\ worker[w] = "handling" /\ requestChan' = requestChan
          /\ \A u \in Workers \ {w} : worker'[u] = worker[u] /\ holding'[u] = holding[u]
          /\ holding[w] \in Requests /\ response[holding[w]] = NoResponse
      BY <2>2 DEF Answer, AnswerPanic, OwnedOnce
    <3>2. response'[holding[w]] # NoResponse
          /\ \A q \in Requests \ {holding[w]} : response'[q] = response[q]
      BY <2>2, <3>1 DEF Answer, AnswerPanic
    <3> QED BY <2>0, <3>1, <3>2 DEF Backed, InChannel
  <2>3. CASE WorkerExit(w) \/ IncrementProcessed(w)
    <3>1. /\ UNCHANGED <<requestChan, response, holding>> /\ worker[w] # "handling"
          /\ \A u \in Workers \ {w} : worker'[u] = worker[u]
      BY <2>3 DEF WorkerExit, IncrementProcessed
    <3> QED BY <2>0, <3>1 DEF Backed, InChannel
  <2> QED BY <1>5, <2>1, <2>2, <2>3 DEF WorkerStep, Results
<1>6. CASE UpdateMetrics \/ CollectorExit \/ StopCancel \/ StopStep \/ UNCHANGED vars
  BY <1>1, <1>6 DEF UpdateMetrics, CollectorExit, StopCancel, StopStep, StopClose,
                    StopWait, vars
<1> QED BY <1>2, <1>3, <1>4, <1>5, <1>6 DEF Next

(* The pool is whole until Stop cancels it; close comes after cancel.      *)
PoolWhole == collector # "none" /\ ~cancelled =>
               \A w \in Workers : worker[w] \in {"select", "handling", "counting"}

ClosedAfterCancel == /\ closed => cancelled
                     /\ stop \in {"closing", "waiting", "done"} => cancelled

LEMMA StepPool ==
  ASSUME TypeOK, PoolWhole, ClosedAfterCancel, [Next]_vars
  PROVE  PoolWhole' /\ ClosedAfterCancel'
<1> USE DEF TypeOK, PoolWhole, ClosedAfterCancel
<1>1. CASE Start
  BY <1>1 DEF Start
<1>2. ASSUME NEW r \in Requests, TrySend(r) \/ CallStep(r) \/ TimeOut(r)
      PROVE  PoolWhole' /\ ClosedAfterCancel'
  <2>1. UNCHANGED <<closed, cancelled, worker, collector, stop>>
    BY <1>2 DEF TrySend, CallStep, IncrementQueued, IncrementDropped,
                ReceiveResponse, SeeShutdown, TimeOut
  <2> QED BY <2>1
<1>3. ASSUME NEW w \in Workers, WorkerStep(w) PROVE PoolWhole' /\ ClosedAfterCancel'
  <2>1. /\ UNCHANGED <<closed, cancelled, collector, stop>>
        /\ cancelled \/ worker'[w] \in {"select", "handling", "counting"}
        /\ \A u \in Workers \ {w} : worker'[u] = worker[u]
    BY <1>3 DEF WorkerStep, TakeRequest, WorkerExit, Answer, AnswerPanic, AfterPanic,
                IncrementProcessed
  <2> QED BY <2>1
<1>4. CASE UpdateMetrics \/ CollectorExit
  BY <1>4 DEF UpdateMetrics, CollectorExit
<1>5. CASE StopCancel \/ StopStep
  BY <1>5 DEF StopCancel, StopStep, StopClose, StopWait
<1>6. CASE UNCHANGED vars
  BY <1>6 DEF vars
<1> QED BY <1>1, <1>2, <1>3, <1>4, <1>5, <1>6 DEF Next

(* A caller never waits for an answer that nobody owes it, and the pool is *)
(* whole until Stop, AnswersAreComing: no send, panic, timeout or drop     *)
(* loses a request or a worker (request_queue.go:144-196, 199-264).        *)
THEOREM WaitingIsBacked == Spec => []AnswersAreComing
<1> DEFINE Inv == /\ TypeOK /\ OwnedOnce /\ Lifecycle /\ PoolWhole /\ ClosedAfterCancel
                  /\ \A r \in Requests : Waits(r) => Backed(r)
<1>1. Init => Inv
  <2> SUFFICES ASSUME Init PROVE Inv
    OBVIOUS
  <2>1. TypeOK /\ OwnedOnce
    BY InitTyped, InitOwned
  <2> QED BY <2>1 DEF Init, Waits, Lifecycle, PoolWhole, ClosedAfterCancel
<1>2. Inv /\ [Next]_vars => Inv'
  <2> SUFFICES ASSUME Inv, [Next]_vars PROVE Inv'
    OBVIOUS
  <2>1. TypeOK' /\ OwnedOnce' /\ Lifecycle'
    BY StepTyped, StepOwned, StepLifecycle
  <2>2. PoolWhole' /\ ClosedAfterCancel'
    BY StepPool
  <2>3. \A r \in Requests : Waits(r)' => Backed(r)'
    BY StepBacked
  <2> QED BY <2>1, <2>2, <2>3
<1>3. Inv => AnswersAreComing
  BY DEF Waits, Backed, PoolWhole, AnswersAreComing
<1> QED BY <1>1, <1>2, <1>3, PTL DEF Spec

(***************************************************************************)
(* The counters.  Only finitely many callers are between their send and    *)
(* its count, and only finitely many workers are busy, so no assumption on *)
(* the constants is needed.                                                *)
(***************************************************************************)
Sent == {r \in Requests : call[r] = "sent"}
Busy == {w \in Workers : worker[w] \in {"handling", "counting"}}

Balance ==
  /\ IsFiniteSet(Sent) /\ IsFiniteSet(Busy)
  /\ metrics.queued + Cardinality(Sent)
       = metrics.processed + Len(requestChan) + Cardinality(Busy)

LEMMA CardNat == ASSUME NEW S, IsFiniteSet(S) PROVE Cardinality(S) \in Nat
BY FS_CardinalityType

LEMMA StepBalance == TypeOK /\ Lifecycle /\ Balance /\ [Next]_vars => Balance'
<1> SUFFICES ASSUME TypeOK, Lifecycle, Balance, [Next]_vars PROVE Balance'
  OBVIOUS
<1> USE DEF TypeOK, Balance
<1>a. Cardinality(Sent) \in Nat /\ Cardinality(Busy) \in Nat
  BY CardNat
<1>b. ASSUME Sent' = Sent, Busy' = Busy, Len(requestChan') = Len(requestChan),
             metrics'.queued = metrics.queued,
             metrics'.processed = metrics.processed
      PROVE  Balance'
  BY <1>b
<1>1. CASE Start
  <2>1. Busy' = {} /\ Sent' = Sent /\ UNCHANGED <<metrics, requestChan>>
    BY <1>1 DEF Start, Busy, Sent
  <2>2. Busy = {}
    BY <1>1 DEF Start, Busy, Lifecycle
  <2> QED BY <1>b, <2>1, <2>2
<1>2. ASSUME NEW r \in Requests, TrySend(r) PROVE Balance'
  <2>0. UNCHANGED <<worker, metrics, collector>> /\ Busy' = Busy
    BY <1>2 DEF TrySend, Busy
  <2>1. CASE requestChan' = requestChan
    <3>1. Sent' = Sent
      <4>1. call[r] = "new" /\ call' \in {[call EXCEPT ![r] = "panic"],
                                           [call EXCEPT ![r] = "dropping"]}
        BY <1>2, <2>1 DEF TrySend
      <4> QED BY <4>1 DEF Sent
    <3> QED BY <1>b, <2>0, <2>1, <3>1
  <2>2. CASE requestChan' = Append(requestChan, r)
    <3>1. call[r] = "new" /\ call' = [call EXCEPT ![r] = "sent"]
      <4>1. requestChan' # requestChan
        BY <2>2
      <4> QED BY <1>2, <4>1 DEF TrySend
    <3>2. Sent' = Sent \cup {r} /\ r \notin Sent
      BY <3>1 DEF Sent
    <3>3. IsFiniteSet(Sent') /\ Cardinality(Sent') = Cardinality(Sent) + 1
      BY <3>2, FS_AddElement
    <3>4. Len(requestChan') = Len(requestChan) + 1
      BY <2>2
    <3>5. Len(requestChan) \in Nat /\ metrics.queued \in Nat /\ metrics.processed \in Nat
      OBVIOUS
    <3>6. /\ metrics'.queued = metrics.queued
          /\ metrics'.processed = metrics.processed
          /\ Cardinality(Busy') = Cardinality(Busy)
      BY <2>0
    <3>7. metrics.queued + Cardinality(Sent)
            = metrics.processed + Len(requestChan) + Cardinality(Busy)
      OBVIOUS
    <3>8. metrics'.queued + Cardinality(Sent')
            = metrics'.processed + Len(requestChan') + Cardinality(Busy')
      <4> HIDE DEF TypeOK, Balance
      <4> QED BY <1>a, <3>3, <3>4, <3>5, <3>6, <3>7, SMTT(60)
    <3> QED BY <2>0, <3>3, <3>8
  <2> QED BY <1>2, <2>1, <2>2 DEF TrySend
<1>3. ASSUME NEW r \in Requests, CallStep(r) \/ TimeOut(r) PROVE Balance'
  <2>0. Busy' = Busy /\ UNCHANGED <<requestChan, worker, collector>>
    BY <1>3 DEF CallStep, IncrementQueued, IncrementDropped, ReceiveResponse,
                SeeShutdown, TimeOut, Busy
  <2>1. CASE IncrementQueued(r)
    <3>1. Sent' = Sent \ {r} /\ r \in Sent
      BY <2>1 DEF IncrementQueued, Sent
    <3>2. IsFiniteSet(Sent') /\ Cardinality(Sent') = Cardinality(Sent) - 1
      BY <3>1, FS_RemoveElement
    <3>3. metrics'.queued = metrics.queued + 1
          /\ metrics'.processed = metrics.processed
      BY <2>1 DEF IncrementQueued
    <3> QED BY <1>a, <2>0, <3>2, <3>3
  <2>2. CASE ~IncrementQueued(r)
    <3>1. Sent' = Sent
      BY <1>3, <2>2 DEF CallStep, IncrementDropped, ReceiveResponse,
                        SeeShutdown, TimeOut, Sent
    <3>2. metrics'.queued = metrics.queued
          /\ metrics'.processed = metrics.processed
      BY <1>3, <2>2 DEF CallStep, IncrementDropped, ReceiveResponse,
                        SeeShutdown, TimeOut
    <3> QED BY <1>b, <2>0, <3>1, <3>2
  <2> QED BY <2>1, <2>2
<1>4. ASSUME NEW w \in Workers, WorkerStep(w) PROVE Balance'
  <2>0. Sent' = Sent /\ collector' = collector /\ worker[w] # "none"
    BY <1>4 DEF WorkerStep, TakeRequest, WorkerExit, Answer, AnswerPanic,
                IncrementProcessed, Sent
  <2>1. CASE TakeRequest(w)
    <3>1. Busy' = Busy \cup {w} /\ w \notin Busy
      BY <2>1 DEF TakeRequest, Busy
    <3>2. IsFiniteSet(Busy') /\ Cardinality(Busy') = Cardinality(Busy) + 1
      BY <3>1, FS_AddElement
    <3>3. Len(requestChan') = Len(requestChan) - 1 /\ metrics' = metrics
      BY <2>1 DEF TakeRequest
    <3>4. Len(requestChan) \in Nat
      OBVIOUS
    <3> QED BY <1>a, <2>0, <3>2, <3>3, <3>4
  <2>2. CASE IncrementProcessed(w)
    <3>1. Busy' = Busy \ {w} /\ w \in Busy
      BY <2>2 DEF IncrementProcessed, Busy
    <3>2. IsFiniteSet(Busy') /\ Cardinality(Busy') = Cardinality(Busy) - 1
      BY <3>1, FS_RemoveElement
    <3>3. /\ metrics'.queued = metrics.queued
          /\ metrics'.processed = metrics.processed + 1
          /\ requestChan' = requestChan
      BY <2>2 DEF IncrementProcessed
    <3>4. Len(requestChan) \in Nat
      OBVIOUS
    <3> QED BY <1>a, <2>0, <3>2, <3>3, <3>4
  <2>3. CASE ~TakeRequest(w) /\ ~IncrementProcessed(w)
    <3>1. Busy' = Busy
      BY <1>4, <2>3 DEF WorkerStep, WorkerExit, Answer, AnswerPanic, AfterPanic,
                        Busy
    <3>2. UNCHANGED <<requestChan, metrics>>
      BY <1>4, <2>3 DEF WorkerStep, WorkerExit, Answer, AnswerPanic
    <3> QED BY <1>b, <2>0, <3>1, <3>2
  <2> QED BY <2>1, <2>2, <2>3
<1>5. CASE UpdateMetrics \/ CollectorExit \/ StopCancel \/ StopStep \/ UNCHANGED vars
  <2>1. Sent' = Sent /\ Busy' = Busy /\ UNCHANGED <<requestChan, worker>>
    BY <1>5 DEF UpdateMetrics, CollectorExit, StopCancel, StopStep, StopClose,
                StopWait, vars, Sent, Busy
  <2>2. /\ metrics'.queued = metrics.queued
        /\ metrics'.processed = metrics.processed
    BY <1>5 DEF UpdateMetrics, CollectorExit, StopCancel, StopStep, StopClose,
                StopWait, vars
  <2> QED BY <1>b, <2>1, <2>2
<1> QED BY <1>1, <1>2, <1>3, <1>4, <1>5 DEF Next

(***************************************************************************)
(* The other half of CountersBalance: a call that is told of a full queue  *)
(* is counted by the step that ends it, and only by that step.             *)
(***************************************************************************)
Refused == {r \in Requests : call[r] = "dropped"}

Drops == IsFiniteSet(Refused) /\ metrics.dropped = Cardinality(Refused)

LEMMA StepDrops == TypeOK /\ Drops /\ [Next]_vars => Drops'
<1> SUFFICES ASSUME TypeOK, Drops, [Next]_vars PROVE Drops'
  OBVIOUS
<1>a. ASSUME Refused' = Refused, metrics'.dropped = metrics.dropped
      PROVE  Drops'
  BY <1>a DEF Drops
<1>1. ASSUME NEW r \in Requests, IncrementDropped(r) PROVE Drops'
  <2>1. Refused' = Refused \cup {r} /\ r \notin Refused
    BY <1>1 DEF IncrementDropped, Refused, TypeOK
  <2>2. IsFiniteSet(Refused') /\ Cardinality(Refused') = Cardinality(Refused) + 1
    BY <2>1, FS_AddElement DEF Drops
  <2>3. metrics'.dropped = metrics.dropped + 1
    BY <1>1 DEF IncrementDropped, TypeOK
  <2> QED BY <2>2, <2>3 DEF Drops
<1>2. ASSUME NEW r \in Requests, TrySend(r) PROVE Drops'
  <2>1. Refused' = Refused
    <3>1. call[r] = "new" /\ call' \in {[call EXCEPT ![r] = "panic"],
                                         [call EXCEPT ![r] = "sent"],
                                         [call EXCEPT ![r] = "dropping"]}
      BY <1>2 DEF TrySend
    <3> QED BY <3>1 DEF Refused, TypeOK
  <2> QED BY <1>a, <1>2, <2>1 DEF TrySend
<1>3. ASSUME NEW r \in Requests, CallStep(r) \/ TimeOut(r), ~IncrementDropped(r)
      PROVE  Drops'
  <2>1. Refused' = Refused
    <3>1. /\ call[r] \in {"sent", "waiting"}
          /\ \E s \in {"waiting", "timeout", "shutdown"} \cup Results :
                call' = [call EXCEPT ![r] = s]
      BY <1>3 DEF CallStep, IncrementQueued, ReceiveResponse, SeeShutdown,
                  TimeOut, TypeOK
    <3> QED BY <3>1 DEF Refused, Results, TypeOK
  <2>2. metrics'.dropped = metrics.dropped
    BY <1>3 DEF CallStep, IncrementQueued, ReceiveResponse, SeeShutdown,
                TimeOut, TypeOK
  <2> QED BY <1>a, <2>1, <2>2
<1>4. ASSUME NEW w \in Workers, WorkerStep(w) PROVE Drops'
  <2>1. Refused' = Refused
    BY <1>4 DEF WorkerStep, TakeRequest, WorkerExit, Answer, AnswerPanic,
                IncrementProcessed, Refused
  <2>2. metrics'.dropped = metrics.dropped
    BY <1>4 DEF WorkerStep, TakeRequest, WorkerExit, Answer, AnswerPanic,
                IncrementProcessed, TypeOK
  <2> QED BY <1>a, <2>1, <2>2
<1>5. CASE \/ Start \/ UpdateMetrics \/ CollectorExit \/ StopCancel \/ StopStep
           \/ UNCHANGED vars
  <2>1. Refused' = Refused
    BY <1>5 DEF Start, UpdateMetrics, CollectorExit, StopCancel, StopStep,
                StopClose, StopWait, vars, Refused
  <2>2. metrics'.dropped = metrics.dropped
    BY <1>5 DEF Start, UpdateMetrics, CollectorExit, StopCancel, StopStep,
                StopClose, StopWait, vars, TypeOK
  <2> QED BY <1>a, <2>1, <2>2
<1> QED BY <1>1, <1>2, <1>3, <1>4, <1>5 DEF Next, CallStep

(* The counters never drift from the traffic, CountersBalance: what was    *)
(* sent is processed, in work or buffered, and every drop is counted once. *)
THEOREM CountersAgree == Spec => []CountersBalance
<1>1. Init => Balance /\ Drops
  <2> SUFFICES ASSUME Init PROVE Balance /\ Drops
    OBVIOUS
  <2>1. Sent = {} /\ Busy = {} /\ Refused = {} /\ Len(requestChan) = 0
    BY DEF Init, Sent, Busy, Refused
  <2>2. IsFiniteSet({}) /\ Cardinality({}) = 0
    BY FS_EmptySet
  <2> QED BY <2>1, <2>2 DEF Init, Balance, Drops
<1>2. TypeOK /\ Lifecycle /\ Balance /\ [Next]_vars => Balance'
  BY StepBalance
<1>3. TypeOK /\ Drops /\ [Next]_vars => Drops'
  BY StepDrops
<1>4. TypeOK /\ Balance /\ Drops => CountersBalance
  <2> SUFFICES ASSUME TypeOK, Balance, Drops PROVE CountersBalance
    OBVIOUS
  <2>1. Cardinality(Sent) \in Nat /\ Cardinality(Busy) \in Nat
    BY CardNat DEF Balance
  <2>2. metrics.queued + Cardinality(Sent)
          = metrics.processed + Len(requestChan) + Cardinality(Busy)
    BY DEF Balance
  <2> QED BY <2>1, <2>2 DEF TypeOK, Drops, CountersBalance, Sent, Busy, Refused
<1> QED BY <1>1, <1>2, <1>3, <1>4, LifecycleHolds, PTL DEF Spec

(***************************************************************************)
(* The queue implements RequestService: every step of the queue is a step  *)
(* of the service or leaves the service's view unchanged.                  *)
(***************************************************************************)
Phases == [r \in Requests |-> PhaseOf(r)]
Works  == [r \in Requests |-> WorkOf(r)]

LEMMA SameView ==
  ASSUME Phases' = Phases, Works' = Works
  PROVE  [Service!Next]_(Service!svars)
BY DEF Phases, Works, Service!svars

LEMMA StepImplements ==
  TypeOK /\ Lifecycle /\ OwnedOnce /\ [Next]_vars
    => [Service!Next]_(Service!svars)
<1> SUFFICES ASSUME TypeOK, Lifecycle, OwnedOnce, [Next]_vars
             PROVE  [Service!Next]_(Service!svars)
  OBVIOUS
<1>1. ASSUME NEW r \in Requests, TrySend(r) PROVE [Service!Next]_(Service!svars)
  <2>1. Works' = Works
    BY <1>1 DEF TrySend, Works, WorkOf, TypeOK
  <2>2. call[r] = "new" /\ Phases[r] = "new"
    BY <1>1 DEF TrySend, Phases, PhaseOf
  <2>3. \/ Phases' = [Phases EXCEPT ![r] = "open"]
        \/ Phases' = [Phases EXCEPT ![r] = "dropped"]
        \/ Phases' = [Phases EXCEPT ![r] = "panic"]
    <3>1. CASE call' = [call EXCEPT ![r] = "sent"]
      BY <3>1 DEF Phases, PhaseOf, TypeOK
    <3>2. CASE call' = [call EXCEPT ![r] = "dropping"]
      BY <3>2 DEF Phases, PhaseOf, TypeOK
    <3>3. CASE call' = [call EXCEPT ![r] = "panic"]
      BY <3>3 DEF Phases, PhaseOf, TypeOK
    <3> QED BY <1>1, <3>1, <3>2, <3>3 DEF TrySend
  <2>4. Service!Accept(r) \/ Service!Refuse(r)
    BY <2>1, <2>2, <2>3
       DEF Service!Accept, Service!Refuse, Service!Refusals, Phases, Works
  <2> QED BY <2>4 DEF Service!Next
<1>2. ASSUME NEW r \in Requests, CallStep(r) \/ TimeOut(r)
      PROVE  [Service!Next]_(Service!svars)
  <2>1. CASE IncrementQueued(r) \/ IncrementDropped(r)
    <3>1. Phases' = Phases /\ Works' = Works
      BY <2>1 DEF IncrementQueued, IncrementDropped, Phases, PhaseOf, Works,
                  WorkOf, TypeOK
    <3> QED BY <3>1, SameView
  <2>2. CASE ReceiveResponse(r)
    <3>1. /\ Phases[r] = "open"
          /\ Works[r] = response[r] /\ response[r] \in Results
      BY <2>2 DEF ReceiveResponse, Phases, PhaseOf, Works, WorkOf, TypeOK
    <3>2. Phases' = [Phases EXCEPT ![r] = Works[r]]
      BY <2>2, <3>1 DEF ReceiveResponse, Phases, PhaseOf, TypeOK
    <3>3. Works' = Works
      <4>1. \A q \in Requests \ {r} : WorkOf(q)' = WorkOf(q)
        BY <2>2 DEF ReceiveResponse, WorkOf, TypeOK
      <4>2. WorkOf(r)' = WorkOf(r)
        BY <2>2 DEF ReceiveResponse, WorkOf, TypeOK
      <4> QED BY <4>1, <4>2 DEF Works
    <3>4. Service!Return(r)
      BY <3>1, <3>2, <3>3 DEF Service!Return, Service!Answers, Phases, Works
    <3> QED BY <3>4 DEF Service!Next
  <2>3. CASE SeeShutdown(r) \/ TimeOut(r)
    <3>1. /\ Phases[r] = "open"
          /\ Works' = Works
      BY <2>3 DEF SeeShutdown, TimeOut, Phases, PhaseOf, Works, WorkOf, TypeOK
    <3>2. \/ Phases' = [Phases EXCEPT ![r] = "shutdown"]
          \/ Phases' = [Phases EXCEPT ![r] = "timeout"]
      <4>1. CASE SeeShutdown(r)
        BY <4>1 DEF SeeShutdown, Phases, PhaseOf, TypeOK
      <4>2. CASE TimeOut(r)
        BY <4>2 DEF TimeOut, Phases, PhaseOf, TypeOK
      <4> QED BY <2>3, <4>1, <4>2
    <3>3. Service!GiveUp(r)
      BY <3>1, <3>2 DEF Service!GiveUp, Service!GivenUp, Phases, Works
    <3> QED BY <3>3 DEF Service!Next
  <2> QED BY <1>2, <2>1, <2>2, <2>3 DEF CallStep
<1>3. ASSUME NEW w \in Workers, WorkerStep(w) PROVE [Service!Next]_(Service!svars)
  <2>0. Phases' = Phases
    BY <1>3 DEF WorkerStep, TakeRequest, WorkerExit, Answer, AnswerPanic,
                IncrementProcessed, Phases, PhaseOf
  <2>1. CASE TakeRequest(w)
    <3>1. PICK r \in Requests :
          /\ r = requestChan[1]
          /\ call[r] \in Owed
          /\ response[r] = NoResponse
          /\ \A u \in Workers : Handling(u) => holding[u] # r
      BY <2>1 DEF TakeRequest, OwnedOnce, TypeOK
    <3>2. /\ Phases[r] \notin {"new"} \cup Service!Refusals
          /\ Works[r] = "none"
      BY <3>1 DEF Phases, PhaseOf, Works, WorkOf, Owed, Handling, Service!Refusals
    <3>3. Works' = [Works EXCEPT ![r] = "running"]
      <4>1. WorkOf(r)' = "running"
        BY <2>1, <3>1 DEF TakeRequest, WorkOf, Owed, TypeOK
      <4>2. ASSUME NEW q \in Requests \ {r} PROVE WorkOf(q)' = WorkOf(q)
        <5>1. /\ holding' = [holding EXCEPT ![w] = r]
              /\ worker' = [worker EXCEPT ![w] = "handling"]
              /\ worker[w] = "select"
              /\ UNCHANGED <<call, response>>
          BY <2>1, <3>1 DEF TakeRequest
        <5>2. (\E u \in Workers : worker'[u] = "handling" /\ holding'[u] = q)
                <=> \E u \in Workers : worker[u] = "handling" /\ holding[u] = q
          BY <5>1 DEF TypeOK
        <5> QED BY <5>1, <5>2 DEF WorkOf
      <4> QED BY <3>1, <4>1, <4>2 DEF Works
    <3>4. Service!Begin(r)
      BY <2>0, <3>2, <3>3 DEF Service!Begin, Phases, Works
    <3> QED BY <3>1, <3>4 DEF Service!Next
  <2>2. CASE AnswerPanic(w) \/ \E result \in Results : Answer(w, result)
    <3>0. PICK r \in Requests : r = holding[w]
      BY <2>2 DEF AnswerPanic, Answer, OwnedOnce, Handling
    <3>1. PICK a \in Results :
             /\ response' = [response EXCEPT ![r] = a]
             /\ holding' = [holding EXCEPT ![w] = NoRequest]
             /\ worker' = [worker EXCEPT ![w] = "counting"]
             /\ worker[w] = "handling"
             /\ UNCHANGED call
      BY <2>2, <3>0 DEF AnswerPanic, Answer, AfterPanic, OwnedOnce, Handling
    <3>2. /\ call[r] \in Owed
          /\ response[r] = NoResponse
          /\ \A u \in Workers : worker[u] = "handling" /\ holding[u] = r => u = w
      BY <3>0, <3>1 DEF OwnedOnce, Handling
    <3>3. Works[r] = "running"
      BY <3>0, <3>1, <3>2 DEF Works, WorkOf, Owed
    <3>4. Works' = [Works EXCEPT ![r] = a]
      <4>1. WorkOf(r)' = a
        BY <3>1, <3>2 DEF WorkOf, TypeOK
      <4>2. ASSUME NEW q \in Requests \ {r} PROVE WorkOf(q)' = WorkOf(q)
        <5>1. response'[q] = response[q] /\ call'[q] = call[q]
          BY <3>1 DEF TypeOK
        <5>2. (\E u \in Workers : worker'[u] = "handling" /\ holding'[u] = q)
                <=> \E u \in Workers : worker[u] = "handling" /\ holding[u] = q
          BY <3>0, <3>1, <3>2 DEF TypeOK
        <5> QED BY <5>1, <5>2 DEF WorkOf
      <4> QED BY <3>2, <4>1, <4>2 DEF Works
    <3>5. Service!Finish(r)
      BY <2>0, <3>3, <3>4 DEF Service!Finish, Service!Answers, Phases, Works
    <3> QED BY <3>2, <3>5 DEF Service!Next
  <2>3. CASE WorkerExit(w) \/ IncrementProcessed(w)
    <3>1. /\ UNCHANGED <<call, response, holding>>
          /\ \A u \in Workers : worker'[u] = "handling" <=> worker[u] = "handling"
      BY <2>3 DEF WorkerExit, IncrementProcessed, TypeOK
    <3>2. Works' = Works
      BY <3>1 DEF Works, WorkOf
    <3> QED BY <2>0, <3>2, SameView
  <2> QED BY <1>3, <2>1, <2>2, <2>3 DEF WorkerStep
<1>4. CASE Start
  <2>1. /\ UNCHANGED <<call, response, holding>>
        /\ \A u \in Workers : worker[u] # "handling" /\ worker'[u] # "handling"
    BY <1>4 DEF Start, Lifecycle
  <2>2. Phases' = Phases
    BY <2>1 DEF Phases, PhaseOf
  <2>3. Works' = Works
    BY <2>1 DEF Works, WorkOf
  <2> QED BY <2>2, <2>3, SameView
<1>5. CASE UpdateMetrics \/ CollectorExit \/ StopCancel \/ StopStep \/ UNCHANGED vars
  <2>1. UNCHANGED <<call, response, worker, holding>>
    BY <1>5 DEF UpdateMetrics, CollectorExit, StopCancel, StopStep, StopClose,
                StopWait, vars
  <2>2. Phases' = Phases /\ Works' = Works
    BY <2>1 DEF Phases, PhaseOf, Works, WorkOf
  <2> QED BY <2>2, SameView
<1> QED BY <1>1, <1>2, <1>3, <1>4, <1>5 DEF Next

(* The queue implements RequestService, ImplementsService: a call is       *)
(* refused or ends once, its handler runs at most once, and an answer is   *)
(* the one its own handler run gave.                                       *)
THEOREM QueueImplementsService == Spec => ImplementsService
<1>1. Init => Service!Init
  BY DEF Init, Service!Init, PhaseOf, WorkOf
<1>2. TypeOK /\ Lifecycle /\ OwnedOnce /\ [Next]_vars
        => [Service!Next]_(Service!svars)
  BY StepImplements
<1> QED BY <1>1, <1>2, LifecycleHolds, Ownership, PTL
        DEF Spec, ImplementsService, Service!Spec
=============================================================================
