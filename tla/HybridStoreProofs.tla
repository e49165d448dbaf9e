-------------------------- MODULE HybridStoreProofs --------------------------
(***************************************************************************)
(* Theorems about HybridStore for every set of batches, every capacity of  *)
(* the queue, every retry limit and every behaviour of the database.       *)
(***************************************************************************)
EXTENDS HybridStore, TLAPS

USE DEF EntryStates, WriterStates, WorkerStates, Batches, Writers

AllVars == <<flushQueue, entry, pc, attempt, load, ctxDone, worker, helpers,
             hsCtx, stop, totalRequests, totalDBWrites, totalDBWriteErrors,
             pendingFlushItems, stored, orphaned, dbOpen>>

LEMMA Stutter == UNCHANGED vars => UNCHANGED AllVars
BY DEF vars, callVars, writeVars, lifeVars, dbVars, stats, AllVars

(***************************************************************************)
(* Type correctness.  The loop variable keeps its bound because a writer   *)
(* backs off only after an attempt that was not the last one.              *)
(***************************************************************************)
RetriesLeft == \A w \in Writers : pc[w] = "backoff" => attempt[w] < MaxRetries

Typed == TypeOK /\ RetriesLeft

LEMMA InitTyped == Init => Typed
<1> SUFFICES ASSUME Init PROVE Typed
  OBVIOUS
<1> USE BoundsAssumption DEF Init
<1>1. flushQueue \in Seq(QueueBatches) /\ Len(flushQueue) <= QueueCap
  OBVIOUS
<1>2. entry \in [Batches -> EntryStates]
  OBVIOUS
<1>3. pc \in [Writers -> WriterStates] /\ RetriesLeft
  BY DEF RetriesLeft
<1>4. /\ attempt \in [Writers -> 1..MaxRetries]
      /\ load \in [Writers -> SUBSET Batches]
      /\ ctxDone \in [Writers -> BOOLEAN]
  OBVIOUS
<1>5. stored \in [Batches -> Nat] /\ orphaned \in [Batches -> Nat]
  OBVIOUS
<1>6. /\ totalRequests \in Nat /\ totalDBWrites \in Nat
      /\ totalDBWriteErrors \in Nat /\ pendingFlushItems \in Int
  OBVIOUS
<1>7. /\ worker \in WorkerStates /\ helpers \in BOOLEAN /\ dbOpen \in BOOLEAN
      /\ hsCtx \in {"nil", "live", "cancelled"}
      /\ stop \in {"no", "waiting", "graceful", "timedOut"}
  OBVIOUS
<1> HIDE DEF Init
<1> QED BY <1>1, <1>2, <1>3, <1>4, <1>5, <1>6, <1>7 DEF Typed, TypeOK

LEMMA ItemsNat == ASSUME NEW S \in SUBSET Batches PROVE Items[S] \in Nat
BY ItemsAssumption

LEMMA EndWriteTyped ==
  ASSUME Typed, NEW w \in Writers, NEW result \in EntryStates, EndWrite(w, result)
  PROVE  /\ pc' \in [Writers -> WriterStates]
         /\ attempt' \in [Writers -> 1..MaxRetries]
         /\ load' \in [Writers -> SUBSET Batches]
         /\ entry' \in [Batches -> EntryStates]
         /\ ctxDone' \in [Writers -> BOOLEAN]
         /\ flushQueue' = flushQueue
         /\ RetriesLeft'
BY BoundsAssumption DEF EndWrite, Typed, TypeOK, RetriesLeft

LEMMA FailureTyped ==
  ASSUME Typed, NEW w \in Writers, pc' = [pc EXCEPT ![w] = AfterFailure(w)],
         attempt' = attempt
  PROVE  pc' \in [Writers -> WriterStates] /\ RetriesLeft'
BY DEF AfterFailure, Typed, TypeOK, RetriesLeft

LEMMA WriteStepTyped ==
  ASSUME Typed, NEW w \in Writers, WriteStep(w) PROVE Typed'
<1> USE DEF Typed, TypeOK, stats
<1>0. load[w] \in SUBSET Batches /\ Items[load[w]] \in Nat
  BY ItemsNat
<1>1. CASE CheckContext(w)
  <2>1. CASE EndWrite(w, "failed")
    BY <1>1, <2>1, EndWriteTyped DEF CheckContext, lifeVars, dbVars
  <2>2. CASE pc' = [pc EXCEPT ![w] = "begin"]
             /\ UNCHANGED <<callVars, attempt, load, ctxDone>>
    <3>1. RetriesLeft'
      BY <2>2 DEF RetriesLeft
    <3> QED BY <1>1, <2>2, <3>1 DEF CheckContext, callVars, lifeVars, dbVars
  <2> QED BY <1>1, <2>1, <2>2 DEF CheckContext
<1>2. CASE BeginTx(w)
  <2>1. UNCHANGED <<callVars, attempt, load, ctxDone, lifeVars, stats, dbVars>>
    BY <1>2 DEF BeginTx
  <2>2. pc' \in [Writers -> WriterStates] /\ RetriesLeft'
    <3>1. CASE pc' = [pc EXCEPT ![w] = "tx"]
      BY <2>1, <3>1 DEF RetriesLeft
    <3>2. CASE pc' = [pc EXCEPT ![w] = AfterFailure(w)]
      BY <2>1, <3>2, FailureTyped
    <3> QED BY <1>2, <3>1, <3>2 DEF BeginTx
  <2> QED BY <2>1, <2>2 DEF callVars, lifeVars, dbVars
<1>3. CASE Commit(w)
  <2>1. pc' = [pc EXCEPT ![w] = "count"] /\ stored' \in [Batches -> Nat]
    BY <1>3 DEF Commit, Plus
  <2>2. RetriesLeft'
    BY <1>3, <2>1 DEF Commit, RetriesLeft
  <2> QED BY <1>3, <2>1, <2>2 DEF Commit, callVars, lifeVars
<1>4. CASE TxFailed(w)
  <2>1. orphaned' \in [Batches -> Nat]
    <3>1. orphaned' = orphaned \/ orphaned' = Plus(orphaned, load[w])
      BY <1>4 DEF TxFailed
    <3>2. Plus(orphaned, load[w]) \in [Batches -> Nat]
      BY DEF Plus
    <3> QED BY <3>1, <3>2
  <2>2. UNCHANGED <<callVars, attempt, load, ctxDone, lifeVars, stats, stored, dbOpen>>
    BY <1>4 DEF TxFailed
  <2>3. pc' \in [Writers -> WriterStates] /\ RetriesLeft'
    BY <1>4, <2>2, FailureTyped DEF TxFailed
  <2> QED BY <2>1, <2>2, <2>3 DEF callVars, lifeVars
<1>5. CASE CountWrite(w)
  <2>1. /\ EndWrite(w, "done")
        /\ UNCHANGED <<lifeVars, totalRequests, totalDBWriteErrors, dbVars>>
        /\ totalDBWrites' = totalDBWrites + Items[load[w]]
        /\ pendingFlushItems' = pendingFlushItems - Items[load[w]]
    BY <1>5 DEF CountWrite
  <2>2. totalDBWrites' \in Nat /\ pendingFlushItems' \in Int
    BY <1>0, <2>1
  <2>3. UNCHANGED <<lifeVars, totalRequests, totalDBWriteErrors, dbVars>>
    BY <2>1
  <2> QED BY <2>1, <2>2, <2>3, EndWriteTyped DEF lifeVars, dbVars
<1>6. CASE BackOff(w)
  <2>1. CASE EndWrite(w, "failed")
    BY <1>6, <2>1, EndWriteTyped DEF BackOff, lifeVars, dbVars
  <2>2. CASE /\ pc' = [pc EXCEPT ![w] = "check"]
             /\ attempt' = [attempt EXCEPT ![w] = @ + 1]
             /\ UNCHANGED <<callVars, load, ctxDone>>
    <3>1. attempt[w] < MaxRetries
      BY <1>6 DEF BackOff, RetriesLeft
    <3>2. attempt' \in [Writers -> 1..MaxRetries]
      BY <2>2, <3>1, BoundsAssumption
    <3>3. RetriesLeft'
      BY <2>2 DEF RetriesLeft
    <3> QED BY <1>6, <2>2, <3>2, <3>3 DEF BackOff, callVars, lifeVars, dbVars
  <2> QED BY <1>6, <2>1, <2>2 DEF BackOff
<1>7. CASE GiveUp(w)
  <2>1. EndWrite(w, "failed")
    BY <1>7 DEF GiveUp
  <2> QED BY <1>7, <2>1, EndWriteTyped DEF GiveUp, lifeVars, dbVars
<1> QED BY <1>1, <1>2, <1>3, <1>4, <1>5, <1>6, <1>7 DEF WriteStep

LEMMA DequeueTyped ==
  ASSUME Typed, flushQueue # <<>>
  PROVE  /\ Head(flushQueue) \in QueueBatches
         /\ Head(flushQueue) = flushQueue[1]
         /\ Tail(flushQueue) \in Seq(QueueBatches)
         /\ Len(Tail(flushQueue)) = Len(flushQueue) - 1
         /\ Len(Tail(flushQueue)) <= QueueCap
         /\ \A i \in 1..Len(Tail(flushQueue)) :
               /\ Tail(flushQueue)[i] = flushQueue[i + 1]
               /\ i + 1 \in 1..Len(flushQueue)
         /\ 1 \in 1..Len(flushQueue)
BY BoundsAssumption DEF Typed, TypeOK

LEMMA StepTyped == Typed /\ [Next]_vars => Typed'
<1> SUFFICES ASSUME Typed, [Next]_vars PROVE Typed'
  OBVIOUS
<1>1. ASSUME NEW w \in Writers, WriteStep(w) PROVE Typed'
  BY <1>1, WriteStepTyped
<1> USE DEF Typed, TypeOK, RetriesLeft, stats, callVars, writeVars, lifeVars, dbVars
<1>2. CASE Start
  BY <1>2 DEF Start
<1>3. ASSUME NEW b \in QueueBatches, UpdateStep(b) PROVE Typed'
  <2>1. CASE UpdateCache(b)
    BY <2>1 DEF UpdateCache
  <2>2. CASE Enqueue(b)
    <3>1. flushQueue' \in Seq(QueueBatches) /\ Len(flushQueue') <= QueueCap
      <4>1. CASE flushQueue' = flushQueue
        BY <4>1
      <4>2. CASE ~QueueFull /\ flushQueue' = Append(flushQueue, b)
        BY <4>2, BoundsAssumption DEF QueueFull
      <4> QED BY <2>2, <4>1, <4>2 DEF Enqueue
    <3>2. entry' \in [Batches -> EntryStates]
      BY <2>2 DEF Enqueue
    <3>3. UNCHANGED <<writeVars, ctxDone, lifeVars, stats, dbVars>>
      BY <2>2 DEF Enqueue
    <3> QED BY <3>1, <3>2, <3>3
  <2>3. CASE CountUpdate(b)
    <3>1. Items[{b}] \in Nat
      BY ItemsNat
    <3>2. entry' \in [Batches -> EntryStates]
      BY <2>3 DEF CountUpdate
    <3>4. totalRequests' \in Nat /\ pendingFlushItems' \in Int
      BY <2>3, <3>1 DEF CountUpdate
    <3>3. UNCHANGED <<flushQueue, writeVars, ctxDone, lifeVars, totalDBWrites,
                     totalDBWriteErrors, dbVars>>
      BY <2>3 DEF CountUpdate
    <3> QED BY <3>2, <3>3, <3>4
  <2> QED BY <1>3, <2>1, <2>2, <2>3 DEF UpdateStep
<1>4. ASSUME NEW b \in BulkBatches, StoreMetricsBulk(b) PROVE Typed'
  BY <1>4 DEF StoreMetricsBulk, BeginWrite
<1>5. ASSUME NEW w \in Writers, ContextEnds(w) PROVE Typed'
  BY <1>5 DEF ContextEnds
<1>6. ASSUME NEW f \in Flushers, FlushBegin(f) PROVE Typed'
  BY <1>6 DEF FlushBegin
<1>7. ASSUME NEW f \in Flushers, FlushStep(f) PROVE Typed'
  <2>1. CASE FlushCollect(f)
    <3>1. /\ flushQueue' = Tail(flushQueue)
          /\ load' = [load EXCEPT ![f] = @ \cup {Head(flushQueue)}]
          /\ flushQueue # <<>>
          /\ UNCHANGED <<entry, pc, attempt, ctxDone, lifeVars, stats, dbVars>>
      BY <2>1 DEF FlushCollect
    <3>2. load' \in [Writers -> SUBSET Batches]
      BY <3>1, DequeueTyped
    <3>3. flushQueue' \in Seq(QueueBatches) /\ Len(flushQueue') <= QueueCap
      BY <3>1, DequeueTyped
    <3> QED BY <3>1, <3>2, <3>3
  <2>2. CASE FlushWrite(f)
    <3>1. CASE EndWrite(f, "done")
      BY <2>2, <3>1, EndWriteTyped DEF FlushWrite
    <3>2. CASE BeginWrite(f, load[f]) /\ UNCHANGED <<callVars, ctxDone>>
      BY <2>2, <3>2 DEF FlushWrite, BeginWrite
    <3> QED BY <2>2, <3>1, <3>2 DEF FlushWrite
  <2> QED BY <1>7, <2>1, <2>2 DEF FlushStep
<1>8. CASE WorkerStep
  <2>1. CASE WorkerTake
    <3>1. /\ flushQueue' = Tail(flushQueue)
          /\ load' = [load EXCEPT ![FlushWorker] = {Head(flushQueue)}]
          /\ pc' = [pc EXCEPT ![FlushWorker] = "check"]
          /\ flushQueue # <<>>
          /\ UNCHANGED <<entry, attempt, ctxDone, lifeVars, stats, dbVars>>
      BY <2>1 DEF WorkerTake, BeginWrite
    <3>2. load' \in [Writers -> SUBSET Batches]
      BY <3>1, DequeueTyped
    <3>3. flushQueue' \in Seq(QueueBatches) /\ Len(flushQueue') <= QueueCap
      BY <3>1, DequeueTyped
    <3> QED BY <3>1, <3>2, <3>3
  <2>2. CASE WorkerDrain
    BY <2>2 DEF WorkerDrain
  <2>3. CASE WorkerExit
    BY <2>3 DEF WorkerExit
  <2> QED BY <1>8, <2>1, <2>2, <2>3 DEF WorkerStep
<1>9. CASE HelpersExit
  BY <1>9 DEF HelpersExit
<1>10. CASE StopCancel \/ StopGraceful \/ StopTimedOut
  BY <1>10 DEF StopCancel, StopGraceful, StopTimedOut
<1>11. CASE UNCHANGED vars
  BY <1>11, Stutter DEF AllVars
<1> QED BY <1>1, <1>2, <1>3, <1>4, <1>5, <1>6, <1>7, <1>8, <1>9, <1>10, <1>11 DEF Next

(* Type correctness of the store, TypeOK: the queue keeps its capacity and *)
(* no write makes more than MaxRetries attempts.                           *)
THEOREM TypeCorrect == Spec => []TypeOK
<1>1. Init => Typed
  BY InitTyped
<1>2. Typed /\ [Next]_vars => Typed'
  BY StepTyped
<1>3. Typed => TypeOK
  BY DEF Typed
<1> QED BY <1>1, <1>2, <1>3, PTL DEF Spec

(***************************************************************************)
(* Ownership of batches.  A batch no call has accepted yet has no rows.    *)
(***************************************************************************)
Fresh == \A b \in Batches : entry[b] \in {"new", "cached"}
                              => stored[b] = 0 /\ orphaned[b] = 0

Owned == Typed /\ OwnedOnce /\ Fresh

LEMMA InitOwned == Init => Owned
<1> SUFFICES ASSUME Init PROVE OwnedOnce /\ Fresh
  BY InitTyped DEF Owned
<1> QED BY DEF Init, OwnedOnce, QueueOwned, LoadOwned, BulkOwned, IdleUnloaded, Fresh

(* A writer that moves on with the same load. *)
LEMMA PcStep ==
  ASSUME Owned, NEW w \in Writers, NEW x \in WriterStates \ {"idle", "count"},
         pc[w] \notin {"idle", "count"}, pc' = [pc EXCEPT ![w] = x],
         UNCHANGED <<flushQueue, entry, load, stored>>
  PROVE  OwnedOnce'
<1> USE DEF Owned, Typed, TypeOK, OwnedOnce
<1>1. \A v \in Writers : /\ pc'[v] = "idle" <=> pc[v] = "idle"
                         /\ pc'[v] = "count" <=> pc[v] = "count"
  OBVIOUS
<1>2. QueueOwned'
  BY DEF QueueOwned
<1>3. LoadOwned'
  BY <1>1 DEF LoadOwned
<1>4. BulkOwned'
  BY <1>1 DEF BulkOwned
<1>5. IdleUnloaded'
  BY <1>1 DEF IdleUnloaded
<1> QED BY <1>2, <1>3, <1>4, <1>5

(* A writer that ends its write. *)
LEMMA EndStep ==
  ASSUME Owned, NEW w \in Writers, pc[w] # "idle",
         NEW result \in {"done", "failed"}, EndWrite(w, result), stored' = stored
  PROVE  OwnedOnce'
<1> USE DEF Owned, Typed, TypeOK, OwnedOnce
<1>1. /\ pc' = [pc EXCEPT ![w] = "idle"]
      /\ load' = [load EXCEPT ![w] = {}]
      /\ entry' = IF w \in BulkBatches THEN [entry EXCEPT ![w] = result] ELSE entry
      /\ flushQueue' = flushQueue
  BY DEF EndWrite
<1>2. \A v \in Writers : load'[v] \subseteq load[v]
  BY <1>1
<1>3. \A b \in Batches \ BulkBatches : entry'[b] = entry[b]
  BY <1>1
<1>4. QueueOwned'
  <2>1. \A i \in 1..Len(flushQueue) : flushQueue[i] \in Batches \ BulkBatches
    BY BatchesAssumption
  <2> QED BY <1>1, <1>2, <1>3, <2>1 DEF QueueOwned
<1>5. LoadOwned'
  <2> SUFFICES ASSUME NEW v \in Writers, NEW b \in load'[v]
               PROVE  /\ entry'[b] \in Accepted \cup {"writing"}
                      /\ stored[b] = IF pc'[v] = "count" THEN 1 ELSE 0
                      /\ \A u \in Writers : b \in load'[u] => u = v
    BY DEF LoadOwned
  <2>1. v # w /\ b \in load[v] /\ b \in Batches
    BY <1>1, <1>2
  <2>2. entry'[b] = entry[b]
    <3>1. CASE w \in BulkBatches
      <4>1. w \in load[w]
        BY <3>1 DEF BulkOwned
      <4>2. b # w
        BY <2>1, <4>1 DEF LoadOwned
      <4> QED BY <1>1, <2>1, <4>2
    <3>2. CASE w \notin BulkBatches
      BY <1>1, <3>2
    <3> QED BY <3>1, <3>2
  <2>3. pc'[v] = pc[v]
    BY <1>1, <2>1
  <2> QED BY <1>2, <2>1, <2>2, <2>3 DEF LoadOwned
<1>6. BulkOwned'
  <2> SUFFICES ASSUME NEW b \in BulkBatches
               PROVE  /\ entry'[b] = "writing" <=> pc'[b] # "idle"
                      /\ pc'[b] # "idle" => load'[b] = {b}
    BY DEF BulkOwned
  <2>1. CASE b = w
    BY <1>1, <2>1
  <2>2. CASE b # w
    BY <1>1, <2>2 DEF BulkOwned
  <2> QED BY <2>1, <2>2
<1>7. IdleUnloaded'
  BY <1>1 DEF IdleUnloaded
<1> QED BY <1>4, <1>5, <1>6, <1>7

(* A call that goes on with a batch no writer writes for it. *)
LEMMA EntryStep ==
  ASSUME Owned, NEW b \in QueueBatches, NEW x \in EntryStates,
         entry[b] # "writing", entry[b] \in Accepted => x \in Accepted,
         entry' = [entry EXCEPT ![b] = x],
         UNCHANGED <<flushQueue, pc, load, stored>>
  PROVE  OwnedOnce'
<1> USE DEF Owned, Typed, TypeOK, OwnedOnce
<1>1. \A c \in Batches : entry[c] \in Accepted => entry'[c] \in Accepted
  OBVIOUS
<1>2. \A c \in Batches : entry[c] \in Accepted \cup {"writing"}
                             => entry'[c] \in Accepted \cup {"writing"}
  OBVIOUS
<1>3. \A c \in BulkBatches : entry'[c] = entry[c]
  BY BatchesAssumption
<1>4. QueueOwned'
  BY <1>1 DEF QueueOwned
<1>5. LoadOwned'
  BY <1>2 DEF LoadOwned
<1>6. BulkOwned'
  BY <1>3 DEF BulkOwned
<1>7. IdleUnloaded'
  BY DEF IdleUnloaded
<1> QED BY <1>4, <1>5, <1>6, <1>7

(* A reader of the queue that adds its head to what it holds. *)
LEMMA TakeStep ==
  ASSUME Owned, NEW w \in {FlushWorker} \cup Flushers,
         NEW x \in {"collect", "check"}, pc[w] # "count", flushQueue # <<>>,
         flushQueue' = Tail(flushQueue), pc' = [pc EXCEPT ![w] = x],
         load' = [load EXCEPT ![w] = load[w] \cup {Head(flushQueue)}],
         UNCHANGED <<entry, stored>>
  PROVE  OwnedOnce'
<1> USE DEF Owned, Typed, TypeOK, OwnedOnce
<1>1. PICK h : h = flushQueue[1]
  OBVIOUS
<1>2. /\ h \in QueueBatches
      /\ load'[w] = load[w] \cup {h}
      /\ \A v \in Writers \ {w} : load'[v] = load[v] /\ pc'[v] = pc[v]
      /\ pc'[w] = x
  BY <1>1, DequeueTyped
<1>3. /\ entry[h] \in Accepted /\ stored[h] = 0
      /\ \A v \in Writers : h \notin load[v]
  BY <1>1, DequeueTyped DEF QueueOwned
<1>4. QueueOwned'
  <2>1. ASSUME NEW i \in 1..Len(Tail(flushQueue))
        PROVE  /\ Tail(flushQueue)[i] = flushQueue[i + 1]
               /\ i + 1 \in 1..Len(flushQueue)
               /\ Tail(flushQueue)[i] # h
    BY <1>1, DequeueTyped DEF QueueOwned
  <2>2. ASSUME NEW i \in 1..Len(Tail(flushQueue)), NEW j \in 1..Len(Tail(flushQueue)),
               Tail(flushQueue)[i] = Tail(flushQueue)[j]
        PROVE  i = j
    <3>1. flushQueue[i + 1] = flushQueue[j + 1]
      BY <2>1, <2>2
    <3>2. i + 1 = j + 1
      BY <2>1, <3>1 DEF QueueOwned
    <3> QED BY <3>2
  <2>3. ASSUME NEW i \in 1..Len(Tail(flushQueue)), NEW v \in Writers
        PROVE  Tail(flushQueue)[i] \notin load'[v]
    <3>1. flushQueue[i + 1] \notin load[v]
      BY <2>1 DEF QueueOwned
    <3>2. load'[v] \subseteq load[v] \cup {h}
      BY <1>2
    <3> QED BY <2>1, <3>1, <3>2
  <2> QED BY <2>1, <2>2, <2>3 DEF QueueOwned
<1>5. LoadOwned'
  <2> SUFFICES ASSUME NEW v \in Writers, NEW b \in load'[v]
               PROVE  /\ entry[b] \in Accepted \cup {"writing"}
                      /\ stored[b] = IF pc'[v] = "count" THEN 1 ELSE 0
                      /\ \A u \in Writers : b \in load'[u] => u = v
    BY DEF LoadOwned
  <2>1. CASE b = h
    BY <1>2, <1>3, <2>1
  <2>2. CASE b # h
    <3>1. \A u \in Writers : b \in load'[u] => b \in load[u]
      BY <1>2, <2>2
    <3>2. pc'[v] = "count" <=> pc[v] = "count"
      BY <1>2
    <3> QED BY <3>1, <3>2 DEF LoadOwned
  <2> QED BY <2>1, <2>2
<1>6. BulkOwned'
  <2>1. w \notin BulkBatches
    BY WritersAssumption
  <2> QED BY <1>2, <2>1 DEF BulkOwned
<1>7. IdleUnloaded'
  BY <1>2 DEF IdleUnloaded
<1> QED BY <1>4, <1>5, <1>6, <1>7

(* A batch that is still fresh is not touched by the steps of a writer. *)
LEMMA WriteFresh ==
  ASSUME Owned, NEW w \in Writers, WriteStep(w) PROVE Fresh'
<1> USE DEF Owned, Typed, TypeOK
<1>1. \A b \in load[w] : entry[b] \notin {"new", "cached"}
  BY DEF OwnedOnce, LoadOwned, Accepted
<1>2. \A b \in Batches : entry'[b] \in {"new", "cached"} => entry'[b] = entry[b]
  <2>1. \A r \in {"done", "failed"} : EndWrite(w, r)
            => \A b \in Batches : entry'[b] \in {"new", "cached"} => entry'[b] = entry[b]
    BY DEF EndWrite
  <2> QED BY <2>1 DEF WriteStep, CheckContext, BeginTx, Commit, TxFailed, CountWrite,
                      BackOff, GiveUp, callVars
<1>3. \A b \in Batches \ load[w] : stored'[b] = stored[b] /\ orphaned'[b] = orphaned[b]
  BY DEF WriteStep, CheckContext, BeginTx, Commit, TxFailed, CountWrite, BackOff,
         GiveUp, dbVars, Plus
<1> QED BY <1>1, <1>2, <1>3 DEF Fresh

LEMMA WriteStepOwned ==
  ASSUME Owned, NEW w \in Writers, WriteStep(w) PROVE OwnedOnce'
<1> USE DEF Owned, Typed, TypeOK
<1>1. CASE CheckContext(w)
  <2>1. CASE EndWrite(w, "failed")
    BY <1>1, <2>1, EndStep DEF CheckContext, dbVars
  <2>2. CASE /\ pc' = [pc EXCEPT ![w] = "begin"]
             /\ UNCHANGED <<callVars, attempt, load, ctxDone>>
    BY <1>1, <2>2, PcStep DEF CheckContext, callVars, dbVars
  <2> QED BY <1>1, <2>1, <2>2 DEF CheckContext
<1>2. CASE BeginTx(w)
  BY <1>2, PcStep DEF BeginTx, AfterFailure, callVars, dbVars
<1>3. CASE Commit(w)
  <2>1. /\ pc[w] = "tx"
        /\ pc' = [pc EXCEPT ![w] = "count"]
        /\ stored' = [b \in Batches |-> stored[b] + IF b \in load[w] THEN 1 ELSE 0]
        /\ UNCHANGED <<flushQueue, entry, load>>
    BY <1>3 DEF Commit, Plus, callVars
  <2>2. QueueOwned'
    BY <2>1 DEF OwnedOnce, QueueOwned
  <2>3. LoadOwned'
    <3> SUFFICES ASSUME NEW v \in Writers, NEW b \in load[v]
                 PROVE  stored'[b] = IF pc'[v] = "count" THEN 1 ELSE 0
      BY <2>1 DEF OwnedOnce, LoadOwned
    <3>1. CASE v = w
      BY <2>1, <3>1 DEF OwnedOnce, LoadOwned
    <3>2. CASE v # w
      <4>1. b \notin load[w]
        BY <3>2 DEF OwnedOnce, LoadOwned
      <4> QED BY <2>1, <3>2, <4>1 DEF OwnedOnce, LoadOwned
    <3> QED BY <3>1, <3>2
  <2>4. BulkOwned' /\ IdleUnloaded'
    BY <2>1 DEF OwnedOnce, BulkOwned, IdleUnloaded
  <2> QED BY <2>2, <2>3, <2>4 DEF OwnedOnce
<1>4. CASE TxFailed(w)
  BY <1>4, PcStep DEF TxFailed, AfterFailure, callVars
<1>5. CASE CountWrite(w)
  BY <1>5, EndStep DEF CountWrite, dbVars
<1>6. CASE BackOff(w)
  <2>1. CASE EndWrite(w, "failed")
    BY <1>6, <2>1, EndStep DEF BackOff, dbVars
  <2>2. CASE /\ pc' = [pc EXCEPT ![w] = "check"]
             /\ UNCHANGED <<callVars, load, ctxDone>>
    BY <1>6, <2>2, PcStep DEF BackOff, callVars, dbVars
  <2> QED BY <1>6, <2>1, <2>2 DEF BackOff
<1>7. CASE GiveUp(w)
  BY <1>7, EndStep DEF GiveUp, dbVars
<1> QED BY <1>1, <1>2, <1>3, <1>4, <1>5, <1>6, <1>7 DEF WriteStep

LEMMA StepOwned == Owned /\ [Next]_vars => Owned'
<1> SUFFICES ASSUME Owned, [Next]_vars PROVE OwnedOnce' /\ Fresh'
  BY StepTyped DEF Owned
<1>1. ASSUME NEW w \in Writers, WriteStep(w) PROVE OwnedOnce' /\ Fresh'
  BY <1>1, WriteStepOwned, WriteFresh
<1> USE DEF Owned, Typed, TypeOK, callVars, writeVars, lifeVars, dbVars
<1>2. ASSUME UNCHANGED <<callVars, writeVars, stored, orphaned>>
      PROVE  OwnedOnce' /\ Fresh'
  BY <1>2 DEF OwnedOnce, QueueOwned, LoadOwned, BulkOwned, IdleUnloaded, Fresh
<1>3. ASSUME NEW b \in QueueBatches, UpdateStep(b) PROVE OwnedOnce' /\ Fresh'
  <2>1. CASE UpdateCache(b)
    <3>1. PICK x \in {"cached", "rejected"} : entry' = [entry EXCEPT ![b] = x]
      BY <2>1 DEF UpdateCache
    <3>2. OwnedOnce'
      BY <2>1, <3>1, EntryStep DEF UpdateCache, Accepted
    <3>3. Fresh'
      BY <2>1, <3>1 DEF UpdateCache, Fresh
    <3> QED BY <3>2, <3>3
  <2>2. CASE Enqueue(b)
    <3>0. entry[b] = "cached" /\ UNCHANGED <<writeVars, dbVars>>
      BY <2>2 DEF Enqueue
    <3>1. CASE QueueFull /\ entry' = [entry EXCEPT ![b] = "full"] /\ UNCHANGED flushQueue
      <4>1. OwnedOnce'
        BY <3>0, <3>1, EntryStep DEF Accepted
      <4> QED BY <3>0, <3>1, <4>1 DEF Fresh
    <3>2. CASE /\ flushQueue' = Append(flushQueue, b)
               /\ entry' = [entry EXCEPT ![b] = "sent"]
      <4>1. /\ \A i \in 1..Len(flushQueue) : flushQueue[i] # b
            /\ \A w \in Writers : b \notin load[w]
            /\ stored[b] = 0
        BY <3>0 DEF OwnedOnce, QueueOwned, LoadOwned, Accepted, Fresh
      <4>2. /\ Len(flushQueue') = Len(flushQueue) + 1
            /\ flushQueue'[Len(flushQueue) + 1] = b
            /\ \A i \in 1..Len(flushQueue) : flushQueue'[i] = flushQueue[i]
        BY <3>2
      <4>3. /\ entry'[b] = "sent"
            /\ \A c \in Batches \ {b} : entry'[c] = entry[c]
        BY <3>2
      <4>4. QueueOwned'
        <5>1. \A i \in 1..Len(flushQueue') :
                 i \in 1..Len(flushQueue) \/ i = Len(flushQueue) + 1
          BY <4>2
        <5>2. /\ stored' = stored /\ load' = load
              /\ \A i \in 1..Len(flushQueue) :
                   /\ entry[flushQueue[i]] \in Accepted
                   /\ flushQueue[i] \in Batches
                   /\ stored[flushQueue[i]] = 0
                   /\ \A w \in Writers : flushQueue[i] \notin load[w]
          BY <3>0 DEF OwnedOnce, QueueOwned
        <5>3. \A i, j \in 1..Len(flushQueue) : flushQueue[i] = flushQueue[j] => i = j
          BY DEF OwnedOnce, QueueOwned
        <5> HIDE DEF Owned, Typed, TypeOK, Batches, Writers
        <5>4. ASSUME NEW i \in 1..Len(flushQueue'), NEW j \in 1..Len(flushQueue'),
                     flushQueue'[i] = flushQueue'[j]
              PROVE  i = j
          <6> HIDE <3>2
          <6>1. CASE i = Len(flushQueue) + 1 /\ j = Len(flushQueue) + 1
            BY <6>1
          <6>2. CASE i \in 1..Len(flushQueue) /\ j \in 1..Len(flushQueue)
            BY <4>2, <5>3, <5>4, <6>2
          <6>3. CASE i \in 1..Len(flushQueue) /\ j = Len(flushQueue) + 1
            BY <4>1, <4>2, <5>4, <6>3
          <6>4. CASE i = Len(flushQueue) + 1 /\ j \in 1..Len(flushQueue)
            BY <4>1, <4>2, <5>4, <6>4
          <6> QED BY <5>1, <6>1, <6>2, <6>3, <6>4
        <5>5. ASSUME NEW i \in 1..Len(flushQueue')
              PROVE  /\ entry'[flushQueue'[i]] \in Accepted
                     /\ stored'[flushQueue'[i]] = 0
                     /\ \A w \in Writers : flushQueue'[i] \notin load'[w]
          <6>1. CASE i = Len(flushQueue) + 1
            BY <4>1, <4>2, <4>3, <5>2, <6>1 DEF Accepted
          <6>2. CASE i \in 1..Len(flushQueue)
            BY <4>1, <4>2, <4>3, <5>2, <6>2
          <6> QED BY <5>1, <6>1, <6>2
        <5> QED BY <5>4, <5>5 DEF QueueOwned
      <4>5. LoadOwned'
        <5>1. pc' = pc /\ load' = load /\ stored' = stored
          BY <3>0
        <5>2. \A w \in Writers : \A c \in load[w] : entry'[c] = entry[c]
          BY <4>1, <4>3
        <5>3. LoadOwned
          BY DEF OwnedOnce
        <5> HIDE DEF Owned, Typed, TypeOK
        <5> QED BY <5>1, <5>2, <5>3 DEF LoadOwned
      <4>6. BulkOwned'
        BY <3>0, <4>3, BatchesAssumption DEF OwnedOnce, BulkOwned
      <4>7. IdleUnloaded' /\ Fresh'
        BY <3>0, <4>3 DEF OwnedOnce, IdleUnloaded, Fresh
      <4> QED BY <4>4, <4>5, <4>6, <4>7 DEF OwnedOnce
    <3> QED BY <2>2, <3>1, <3>2 DEF Enqueue
  <2>3. CASE CountUpdate(b)
    <3>1. PICK x \in {"accepted", "dropped"} :
             /\ entry' = [entry EXCEPT ![b] = x]
             /\ entry[b] = IF x = "accepted" THEN "sent" ELSE "full"
      BY <2>3 DEF CountUpdate
    <3>2. OwnedOnce'
      BY <2>3, <3>1, EntryStep DEF CountUpdate, Accepted
    <3>3. Fresh'
      BY <2>3, <3>1 DEF CountUpdate, Fresh
    <3> QED BY <3>2, <3>3
  <2> QED BY <1>3, <2>1, <2>2, <2>3 DEF UpdateStep
<1>4. ASSUME NEW b \in BulkBatches, StoreMetricsBulk(b) PROVE OwnedOnce' /\ Fresh'
  <2>1. /\ entry[b] = "new" /\ b \in Batches /\ b \in Writers
        /\ entry' = [entry EXCEPT ![b] = "writing"]
        /\ pc' = [pc EXCEPT ![b] = "check"]
        /\ load' = [load EXCEPT ![b] = {b}]
        /\ UNCHANGED <<flushQueue, stored, orphaned>>
    BY <1>4 DEF StoreMetricsBulk, BeginWrite
  <2>2. /\ \A w \in Writers : b \notin load[w]
        /\ stored[b] = 0 /\ pc[b] = "idle"
    BY <2>1 DEF OwnedOnce, LoadOwned, BulkOwned, Fresh, Accepted
  <2>3. \A i \in 1..Len(flushQueue) : flushQueue[i] # b
    BY BatchesAssumption
  <2>4. QueueOwned'
    BY <2>1, <2>3 DEF OwnedOnce, QueueOwned
  <2>5. LoadOwned'
    BY <2>1, <2>2 DEF OwnedOnce, LoadOwned
  <2>6. BulkOwned' /\ IdleUnloaded' /\ Fresh'
    BY <2>1 DEF OwnedOnce, BulkOwned, IdleUnloaded, Fresh
  <2> QED BY <2>4, <2>5, <2>6 DEF OwnedOnce
<1>5. ASSUME NEW w \in Writers, ContextEnds(w) PROVE OwnedOnce' /\ Fresh'
  BY <1>2, <1>5 DEF ContextEnds
<1>6. ASSUME NEW f \in Flushers, FlushBegin(f) PROVE OwnedOnce' /\ Fresh'
  <2>1. /\ pc[f] = "idle" /\ f \notin BulkBatches
        /\ pc' = [pc EXCEPT ![f] = "collect"]
        /\ UNCHANGED <<flushQueue, entry, load, stored, orphaned>>
    BY <1>6, WritersAssumption DEF FlushBegin
  <2>2. QueueOwned' /\ Fresh'
    BY <2>1 DEF OwnedOnce, QueueOwned, Fresh
  <2>3. LoadOwned'
    BY <2>1 DEF OwnedOnce, LoadOwned
  <2>4. BulkOwned' /\ IdleUnloaded'
    BY <2>1 DEF OwnedOnce, BulkOwned, IdleUnloaded
  <2> QED BY <2>2, <2>3, <2>4 DEF OwnedOnce
<1>7. ASSUME NEW f \in Flushers, FlushStep(f) PROVE OwnedOnce' /\ Fresh'
  <2>1. CASE FlushCollect(f)
    <3>1. pc' = [pc EXCEPT ![f] = "collect"]
      BY <2>1 DEF FlushCollect
    <3>2. OwnedOnce'
      BY <2>1, <3>1, TakeStep DEF FlushCollect
    <3> QED BY <2>1, <3>2 DEF FlushCollect, Fresh
  <2>2. CASE FlushWrite(f)
    <3>1. CASE EndWrite(f, "done")
      <4>1. entry' = entry
        BY <3>1, WritersAssumption DEF EndWrite
      <4> QED BY <2>2, <3>1, <4>1, EndStep DEF FlushWrite, Fresh
    <3>2. CASE BeginWrite(f, load[f]) /\ UNCHANGED <<callVars, ctxDone>>
      <4>1. load' = load
        BY <3>2 DEF BeginWrite
      <4>2. OwnedOnce'
        BY <2>2, <3>2, <4>1, PcStep DEF FlushWrite, BeginWrite
      <4> QED BY <2>2, <3>2, <4>2 DEF FlushWrite, Fresh
    <3> QED BY <2>2, <3>1, <3>2 DEF FlushWrite
  <2> QED BY <1>7, <2>1, <2>2 DEF FlushStep
<1>8. CASE WorkerStep
  <2>1. CASE WorkerTake
    <3>1. load[FlushWorker] = {}
      BY <2>1 DEF WorkerTake, OwnedOnce, IdleUnloaded
    <3>2. OwnedOnce'
      BY <2>1, <3>1, TakeStep DEF WorkerTake, BeginWrite
    <3> QED BY <2>1, <3>2 DEF WorkerTake, Fresh
  <2>2. CASE WorkerDrain \/ WorkerExit
    BY <1>2, <2>2 DEF WorkerDrain, WorkerExit
  <2> QED BY <1>8, <2>1, <2>2 DEF WorkerStep
<1>9. CASE Start \/ HelpersExit \/ StopCancel \/ StopGraceful \/ StopTimedOut
  BY <1>2, <1>9 DEF Start, HelpersExit, StopCancel, StopGraceful, StopTimedOut
<1>10. CASE UNCHANGED vars
  BY <1>2, <1>10 DEF vars
<1> QED BY <1>1, <1>3, <1>4, <1>5, <1>6, <1>7, <1>8, <1>9, <1>10 DEF Next

(* Ownership of batches, OwnedOnce: with any number of readers of the      *)
(* queue a batch is in one place at most, and no writer holds a batch the  *)
(* database has acknowledged, except to count it.                          *)
THEOREM Ownership == Spec => []OwnedOnce
<1>1. Owned => OwnedOnce
  BY DEF Owned
<1> QED BY <1>1, InitOwned, StepOwned, PTL DEF Spec

(***************************************************************************)
(* Quiet shutdown.                                                         *)
(***************************************************************************)
Quiet == /\ TypeOK
         /\ GracefulStopIsQuiet
         /\ worker = "exited" => pc[FlushWorker] = "idle"
         /\ stop # "no" => hsCtx # "nil"

LEMMA StepQuiet == Quiet /\ Typed /\ [Next]_vars => Quiet'
<1> SUFFICES ASSUME Quiet, Typed, [Next]_vars PROVE Quiet'
  OBVIOUS
<1>0. TypeOK'
  BY StepTyped DEF Typed
<1> USE DEF Quiet, TypeOK, GracefulStopIsQuiet, lifeVars
<1>1. ASSUME NEW w \in Writers, WriteStep(w) PROVE Quiet'
  <2>1. UNCHANGED lifeVars
    BY <1>1 DEF WriteStep, CheckContext, BeginTx, Commit, TxFailed, CountWrite,
                BackOff, GiveUp
  <2>2. pc[w] # "idle" /\ \A v \in Writers \ {w} : pc'[v] = pc[v]
    BY <1>1 DEF WriteStep, CheckContext, BeginTx, Commit, TxFailed, CountWrite,
                BackOff, GiveUp, EndWrite
  <2> QED BY <1>0, <2>1, <2>2
<1>2. ASSUME NEW w \in Writers \ {FlushWorker}, UNCHANGED lifeVars,
             \E x \in WriterStates : pc' = [pc EXCEPT ![w] = x]
      PROVE  Quiet'
  BY <1>0, <1>2
<1>3. ASSUME UNCHANGED <<pc, lifeVars>> PROVE Quiet'
  BY <1>0, <1>3
<1>4. ASSUME NEW b \in QueueBatches, UpdateStep(b) PROVE Quiet'
  <2>1. UNCHANGED <<pc, lifeVars>>
    BY <1>4 DEF UpdateStep, UpdateCache, Enqueue, CountUpdate, writeVars
  <2> QED BY <1>3, <2>1
<1>5. ASSUME NEW b \in BulkBatches, StoreMetricsBulk(b) PROVE Quiet'
  <2>1. b # FlushWorker /\ UNCHANGED lifeVars /\ pc' = [pc EXCEPT ![b] = "check"]
    BY <1>5, WritersAssumption DEF StoreMetricsBulk, BeginWrite
  <2> QED BY <1>2, <2>1
<1>6. ASSUME NEW w \in Writers, ContextEnds(w) PROVE Quiet'
  BY <1>3, <1>6 DEF ContextEnds, writeVars
<1>7. ASSUME NEW f \in Flushers, FlushBegin(f) \/ FlushStep(f) PROVE Quiet'
  <2>1. f # FlushWorker
    BY WritersAssumption
  <2>2. UNCHANGED lifeVars
    BY <1>7 DEF FlushBegin, FlushStep, FlushCollect, FlushWrite
  <2>3. pc' = pc \/ \E x \in WriterStates : pc' = [pc EXCEPT ![f] = x]
    BY <1>7 DEF FlushBegin, FlushStep, FlushCollect, FlushWrite, EndWrite, BeginWrite
  <2> QED BY <1>2, <1>3, <2>1, <2>2, <2>3
<1>8. CASE WorkerStep
  BY <1>0, <1>8 DEF WorkerStep, WorkerTake, WorkerDrain, WorkerExit, writeVars, BeginWrite
<1>9. CASE Start \/ HelpersExit
  <2>1. CASE Start
    BY <1>0, <2>1 DEF Start, writeVars
  <2>2. CASE HelpersExit
    BY <1>0, <2>2 DEF HelpersExit, writeVars
  <2> QED BY <1>9, <2>1, <2>2
<1>10. CASE StopCancel \/ StopGraceful \/ StopTimedOut
  BY <1>0, <1>10 DEF StopCancel, StopGraceful, StopTimedOut, AllExited, writeVars
<1>11. CASE UNCHANGED vars
  BY <1>3, <1>11, Stutter DEF AllVars
<1> QED BY <1>1, <1>4, <1>5, <1>6, <1>7, <1>8, <1>9, <1>10, <1>11 DEF Next

(* Quiet shutdown, GracefulStopIsQuiet: when Stop returns because its      *)
(* goroutines have ended, none of them is left to use the closed database. *)
THEOREM GracefulStop == Spec => []GracefulStopIsQuiet
<1>1. Init => Quiet /\ Typed
  BY InitTyped DEF Init, Quiet, Typed, GracefulStopIsQuiet
<1>2. Quiet /\ Typed /\ [Next]_vars => Quiet' /\ Typed'
  BY StepQuiet, StepTyped
<1>3. Quiet => GracefulStopIsQuiet
  BY DEF Quiet
<1> QED BY <1>1, <1>2, <1>3, PTL DEF Spec

(***************************************************************************)
(* Copies in the database.  Spent is how many attempts of its write a      *)
(* writer has behind it; each may have left one unacknowledged copy.       *)
(***************************************************************************)
Spent(w) == IF pc[w] \in {"backoff", "giveup"} THEN attempt[w] ELSE attempt[w] - 1

FirstAttempt == \A w \in Writers : pc[w] \in {"idle", "collect"} => attempt[w] = 1

Copies == /\ \A i \in 1..Len(flushQueue) : orphaned[flushQueue[i]] = 0
          /\ \A w \in Writers : \A b \in load[w] : orphaned[b] <= Spent(w)

Once == StoredOnce /\ FirstAttempt /\ Copies

LEMMA SpentNat == ASSUME Typed, NEW w \in Writers
                  PROVE  Spent(w) \in Nat /\ Spent(w) <= MaxRetries
BY BoundsAssumption DEF Typed, TypeOK, Spent

LEMMA InitOnce == Init => Once
BY BoundsAssumption DEF Init, Once, StoredOnce, FirstAttempt, Copies

(* A writer that moves on, with no more batches and no fewer attempts. *)
LEMMA MoveOnce ==
  ASSUME Owned, Owned', Once, NEW w \in Writers,
         Spent(w)' >= Spent(w) \/ load'[w] = {},
         \A v \in Writers \ {w} : /\ pc'[v] = pc[v] /\ attempt'[v] = attempt[v]
                                  /\ load'[v] = load[v],
         load'[w] \subseteq load[w],
         pc'[w] \in {"idle", "collect"} => attempt'[w] = 1,
         UNCHANGED <<flushQueue, stored, orphaned>>
  PROVE  Once'
<1>1. StoredOnce'
  BY DEF Once, StoredOnce
<1>2. FirstAttempt'
  BY DEF Once, FirstAttempt
<1>3. ASSUME NEW v \in Writers, NEW b \in load'[v] PROVE orphaned'[b] <= Spent(v)'
  <2>1. b \in load[v] /\ b \in Batches
    BY <1>3 DEF Owned, Typed, TypeOK
  <2>2. orphaned[b] \in Nat /\ orphaned[b] <= Spent(v)
    BY <2>1 DEF Once, Copies, Owned, Typed, TypeOK
  <2>3. Spent(v) \in Nat /\ Spent(v)' \in Nat
    BY SpentNat DEF Owned, Typed, TypeOK, Spent
  <2>4. Spent(v)' >= Spent(v)
    BY <1>3, <2>3 DEF Spent
  <2> QED BY <2>2, <2>3, <2>4
<1>4. Copies'
  BY <1>3 DEF Once, Copies
<1> QED BY <1>1, <1>2, <1>4 DEF Once

LEMMA EndOnce ==
  ASSUME Owned, Owned', Once, NEW w \in Writers, NEW result \in {"done", "failed"},
         EndWrite(w, result), UNCHANGED <<stored, orphaned>>
  PROVE  Once'
<1>1. /\ pc' = [pc EXCEPT ![w] = "idle"]
      /\ attempt' = [attempt EXCEPT ![w] = 1]
      /\ load' = [load EXCEPT ![w] = {}]
      /\ flushQueue' = flushQueue
  BY DEF EndWrite
<1>2. \A v \in Writers \ {w} : /\ pc'[v] = pc[v] /\ attempt'[v] = attempt[v]
                               /\ load'[v] = load[v]
  BY <1>1 DEF Owned, Typed, TypeOK
<1>3. load'[w] = {} /\ attempt'[w] = 1
  BY <1>1 DEF Owned, Typed, TypeOK
<1> QED BY <1>1, <1>2, <1>3, MoveOnce

LEMMA FailOnce ==
  ASSUME Owned, Owned', Once, NEW w \in Writers, pc[w] \in {"begin", "tx"},
         pc' = [pc EXCEPT ![w] = AfterFailure(w)], UNCHANGED <<attempt, load, flushQueue, stored>>
  PROVE  /\ Spent(w) = attempt[w] - 1 /\ Spent(w)' = attempt[w]
         /\ \A v \in Writers \ {w} : pc'[v] = pc[v] /\ Spent(v)' = Spent(v)
         /\ pc'[w] \notin {"idle", "collect"}
         /\ attempt[w] \in 1..MaxRetries
BY DEF Owned, Typed, TypeOK, Spent, AfterFailure

LEMMA WriteStepOnce ==
  ASSUME Owned, Owned', Once, NEW w \in Writers, WriteStep(w) PROVE Once'
<1> USE DEF callVars, dbVars
<1>0. /\ attempt[w] \in 1..MaxRetries
      /\ pc \in [Writers -> WriterStates] /\ attempt \in [Writers -> 1..MaxRetries]
  BY DEF Owned, Typed, TypeOK
<1>1. CASE CheckContext(w)
  <2>1. CASE EndWrite(w, "failed")
    BY <1>1, <2>1, EndOnce DEF CheckContext
  <2>2. CASE /\ pc' = [pc EXCEPT ![w] = "begin"]
             /\ UNCHANGED <<callVars, attempt, load, ctxDone>>
    <3>1. pc[w] = "check" /\ UNCHANGED <<attempt, load, flushQueue, stored, orphaned>>
      BY <1>1, <2>2 DEF CheckContext
    <3>2. Spent(w)' >= Spent(w) /\ pc'[w] = "begin"
      BY <1>0, <2>2, <3>1 DEF Spent
    <3>3. \A v \in Writers \ {w} : pc'[v] = pc[v]
      BY <1>0, <2>2
    <3> QED BY <3>1, <3>2, <3>3, MoveOnce
  <2> QED BY <1>1, <2>1, <2>2 DEF CheckContext
<1>2. CASE BeginTx(w)
  <2>0. pc[w] = "begin" /\ UNCHANGED <<attempt, load, flushQueue, stored, orphaned>>
    BY <1>2 DEF BeginTx
  <2>1. CASE pc' = [pc EXCEPT ![w] = "tx"]
    <3>1. Spent(w)' >= Spent(w) /\ pc'[w] = "tx"
      BY <1>0, <2>0, <2>1 DEF Spent
    <3>2. \A v \in Writers \ {w} : pc'[v] = pc[v]
      BY <1>0, <2>1
    <3> QED BY <2>0, <3>1, <3>2, MoveOnce
  <2>2. CASE pc' = [pc EXCEPT ![w] = AfterFailure(w)]
    <3>1. /\ Spent(w) = attempt[w] - 1 /\ Spent(w)' = attempt[w]
          /\ \A v \in Writers \ {w} : pc'[v] = pc[v]
          /\ pc'[w] \notin {"idle", "collect"}
      BY <2>0, <2>2, FailOnce
    <3>2. Spent(w)' >= Spent(w)
      BY <1>0, <3>1
    <3> QED BY <2>0, <3>1, <3>2, MoveOnce
  <2> QED BY <1>2, <2>1, <2>2 DEF BeginTx
<1>3. CASE Commit(w)
  <2>1. /\ pc[w] = "tx" /\ pc' = [pc EXCEPT ![w] = "count"]
        /\ stored' = [b \in Batches |-> stored[b] + IF b \in load[w] THEN 1 ELSE 0]
        /\ UNCHANGED <<attempt, load, flushQueue, orphaned>>
    BY <1>3 DEF Commit, Plus
  <2>2. \A v \in Writers : Spent(v)' = Spent(v)
    BY <1>0, <2>1 DEF Spent
  <2>3. FirstAttempt' /\ Copies'
    BY <1>0, <2>1, <2>2 DEF Once, FirstAttempt, Copies
  <2>4. ASSUME NEW b \in Batches
        PROVE  stored'[b] <= 1 /\ stored'[b] + orphaned[b] <= MaxRetries
    <3>0. stored[b] \in Nat /\ orphaned[b] \in Nat /\ MaxRetries \in Nat
      BY BoundsAssumption DEF Owned, Typed, TypeOK
    <3>1. CASE b \in load[w]
      <4>1. stored[b] = 0 /\ stored'[b] = 1
        BY <2>1, <3>0, <3>1 DEF Owned, OwnedOnce, LoadOwned
      <4>2. orphaned[b] <= attempt[w] - 1
        BY <2>1, <3>1 DEF Once, Copies, Spent
      <4> QED BY <1>0, <3>0, <4>1, <4>2
    <3>2. CASE b \notin load[w]
      BY <2>1, <3>0, <3>2 DEF Once, StoredOnce
    <3> QED BY <3>1, <3>2
  <2>5. StoredOnce'
    BY <2>1, <2>4 DEF StoredOnce
  <2> QED BY <2>3, <2>5 DEF Once
<1>4. CASE TxFailed(w)
  <2>1. /\ pc[w] = "tx" /\ pc' = [pc EXCEPT ![w] = AfterFailure(w)]
        /\ UNCHANGED <<attempt, load, flushQueue, stored>>
    BY <1>4 DEF TxFailed
  <2>2. /\ Spent(w) = attempt[w] - 1 /\ Spent(w)' = attempt[w]
        /\ \A v \in Writers \ {w} : pc'[v] = pc[v] /\ Spent(v)' = Spent(v)
        /\ pc'[w] \notin {"idle", "collect"}
    BY <2>1, FailOnce
  <2>3. CASE UNCHANGED orphaned
    <3>1. Spent(w)' >= Spent(w)
      BY <1>0, <2>2
    <3> QED BY <2>1, <2>2, <2>3, <3>1, MoveOnce
  <2>4. CASE orphaned' = Plus(orphaned, load[w])
    <3>1. \A b \in Batches :
            /\ orphaned[b] \in Nat /\ stored[b] \in Nat
            /\ orphaned'[b] = orphaned[b] + IF b \in load[w] THEN 1 ELSE 0
      BY <2>4 DEF Owned, Typed, TypeOK, Plus
    <3>2. \A b \in load[w] : /\ b \in Batches /\ orphaned[b] <= attempt[w] - 1
                            /\ stored[b] = 0
      BY <2>1, <2>2 DEF Owned, Typed, TypeOK, OwnedOnce, LoadOwned, Once, Copies
    <3>3. StoredOnce'
      <4> SUFFICES ASSUME NEW b \in Batches
                   PROVE  stored[b] <= 1 /\ stored[b] + orphaned'[b] <= MaxRetries
        BY <2>1 DEF StoredOnce
      <4>1. CASE b \in load[w]
        BY <1>0, <3>1, <3>2, <4>1, BoundsAssumption
      <4>2. CASE b \notin load[w]
        BY <3>1, <4>2 DEF Once, StoredOnce
      <4> QED BY <4>1, <4>2
    <3>4. FirstAttempt'
      BY <2>1, <2>2 DEF Once, FirstAttempt
    <3>5. ASSUME NEW i \in 1..Len(flushQueue) PROVE orphaned'[flushQueue[i]] = 0
      <4>1. PICK c \in Batches : c = flushQueue[i]
        BY DEF Owned, Typed, TypeOK
      <4>2. c \notin load[w]
        BY <4>1 DEF Owned, OwnedOnce, QueueOwned
      <4>3. orphaned[c] = 0
        BY <4>1 DEF Once, Copies
      <4>4. orphaned'[c] = orphaned[c]
        BY <3>1, <4>2
      <4> QED BY <4>1, <4>3, <4>4
    <3>6. ASSUME NEW v \in Writers, NEW b \in load[v] PROVE orphaned'[b] <= Spent(v)'
      <4>1. CASE v = w
        BY <1>0, <2>2, <3>1, <3>2, <4>1
      <4>2. CASE v # w
        <5>1. b \in Batches /\ b \notin load[w]
          BY <4>2 DEF Owned, Typed, TypeOK, OwnedOnce, LoadOwned
        <5>2. orphaned'[b] = orphaned[b]
          BY <3>1, <5>1
        <5> QED BY <2>2, <4>2, <5>2 DEF Once, Copies
      <4> QED BY <4>1, <4>2
    <3>7. Copies'
      BY <2>1, <3>5, <3>6 DEF Copies
    <3> QED BY <3>3, <3>4, <3>7 DEF Once
  <2> QED BY <1>4, <2>3, <2>4 DEF TxFailed
<1>5. CASE CountWrite(w)
  BY <1>5, EndOnce DEF CountWrite
<1>6. CASE BackOff(w)
  <2>1. CASE EndWrite(w, "failed")
    BY <1>6, <2>1, EndOnce DEF BackOff
  <2>2. CASE /\ pc' = [pc EXCEPT ![w] = "check"]
             /\ attempt' = [attempt EXCEPT ![w] = @ + 1]
             /\ UNCHANGED <<callVars, load, ctxDone>>
    <3>1. pc[w] = "backoff" /\ UNCHANGED <<load, flushQueue, stored, orphaned>>
      BY <1>6, <2>2 DEF BackOff
    <3>2. Spent(w)' >= Spent(w) /\ pc'[w] = "check"
      BY <1>0, <2>2, <3>1 DEF Spent
    <3>3. \A v \in Writers \ {w} : pc'[v] = pc[v] /\ attempt'[v] = attempt[v]
      BY <1>0, <2>2
    <3> QED BY <3>1, <3>2, <3>3, MoveOnce
  <2> QED BY <1>6, <2>1, <2>2 DEF BackOff
<1>7. CASE GiveUp(w)
  BY <1>7, EndOnce DEF GiveUp
<1> QED BY <1>1, <1>2, <1>3, <1>4, <1>5, <1>6, <1>7 DEF WriteStep

(* A reader of the queue takes a batch of which there are no copies. *)
LEMMA TakeOnce ==
  ASSUME Owned, Owned', Once, NEW w \in Writers, pc[w] \in {"idle", "collect"},
         NEW x \in {"collect", "check"}, flushQueue # <<>>,
         flushQueue' = Tail(flushQueue), pc' = [pc EXCEPT ![w] = x],
         load' = [load EXCEPT ![w] = load[w] \cup {Head(flushQueue)}],
         UNCHANGED <<attempt, stored, orphaned>>
  PROVE  Once'
<1> USE DEF Owned, Typed, TypeOK
<1>1. PICK h \in Batches : h = flushQueue[1] /\ h = Head(flushQueue) /\ orphaned[h] = 0
  BY DequeueTyped DEF Once, Copies
<1>2. attempt[w] = 1 /\ Spent(w) = 0 /\ Spent(w)' = 0
  BY DEF Once, FirstAttempt, Spent
<1>3. \A v \in Writers \ {w} : /\ load'[v] = load[v] /\ Spent(v)' = Spent(v)
                               /\ pc'[v] = pc[v]
  BY DEF Spent
<1>4. StoredOnce' /\ FirstAttempt'
  BY <1>2, <1>3 DEF Once, StoredOnce, FirstAttempt
<1>5. ASSUME NEW i \in 1..Len(Tail(flushQueue)) PROVE orphaned[Tail(flushQueue)[i]] = 0
  <2>1. Tail(flushQueue)[i] = flushQueue[i + 1] /\ i + 1 \in 1..Len(flushQueue)
    BY DequeueTyped
  <2> QED BY <2>1 DEF Once, Copies
<1>6. ASSUME NEW v \in Writers, NEW b \in load'[v] PROVE orphaned[b] <= Spent(v)'
  <2>1. CASE v = w
    <3>1. b \in load[w] \/ b = h
      BY <1>1, <2>1
    <3> QED BY <1>1, <1>2, <2>1, <3>1 DEF Once, Copies
  <2>2. CASE v # w
    BY <1>3, <2>2 DEF Once, Copies
  <2> QED BY <2>1, <2>2
<1>7. Copies'
  BY <1>5, <1>6 DEF Copies
<1> QED BY <1>4, <1>7 DEF Once

LEMMA StepOnce == Owned /\ Owned' /\ Once /\ [Next]_vars => Once'
<1> SUFFICES ASSUME Owned, Owned', Once, [Next]_vars PROVE Once'
  OBVIOUS
<1> USE DEF callVars, writeVars, dbVars
<1>1. ASSUME NEW w \in Writers, WriteStep(w) PROVE Once'
  BY <1>1, WriteStepOnce
<1>2. ASSUME UNCHANGED <<flushQueue, writeVars, stored, orphaned>> PROVE Once'
  BY <1>2 DEF Once, StoredOnce, FirstAttempt, Copies, Spent
<1>3. ASSUME NEW b \in QueueBatches, UpdateStep(b) PROVE Once'
  <2>1. CASE UpdateCache(b) \/ CountUpdate(b) \/ UNCHANGED flushQueue
    <3>1. UNCHANGED <<flushQueue, writeVars, stored, orphaned>>
      BY <1>3, <2>1 DEF UpdateStep, UpdateCache, CountUpdate, Enqueue
    <3> QED BY <1>2, <3>1
  <2>2. CASE Enqueue(b) /\ flushQueue' # flushQueue
    <3>1. /\ entry[b] = "cached" /\ flushQueue' = Append(flushQueue, b)
          /\ UNCHANGED <<writeVars, stored, orphaned>>
      BY <2>2 DEF Enqueue
    <3>2. orphaned[b] = 0 /\ flushQueue \in Seq(Batches)
      BY <3>1 DEF Owned, Fresh, Typed, TypeOK
    <3>3. ASSUME NEW i \in 1..Len(flushQueue') PROVE orphaned[flushQueue'[i]] = 0
      <4>1. CASE i \in 1..Len(flushQueue)
        <5>1. flushQueue'[i] = flushQueue[i]
          BY <3>1, <3>2, <4>1
        <5> QED BY <4>1, <5>1 DEF Once, Copies
      <4>2. CASE i \notin 1..Len(flushQueue)
        <5>1. flushQueue'[i] = b
          BY <3>1, <3>2, <3>3, <4>2
        <5> QED BY <3>2, <5>1
      <4> QED BY <4>1, <4>2
    <3>4. \A w \in Writers : Spent(w)' = Spent(w)
      BY <3>1 DEF Spent
    <3> QED BY <3>1, <3>3, <3>4 DEF Once, StoredOnce, FirstAttempt, Copies
  <2> QED BY <1>3, <2>1, <2>2 DEF UpdateStep
<1>4. ASSUME NEW b \in BulkBatches, StoreMetricsBulk(b) PROVE Once'
  <2>1. /\ entry[b] = "new"
        /\ pc' = [pc EXCEPT ![b] = "check"]
        /\ load' = [load EXCEPT ![b] = {b}]
        /\ UNCHANGED <<flushQueue, attempt, stored, orphaned>>
    BY <1>4 DEF StoreMetricsBulk, BeginWrite
  <2>2. orphaned[b] = 0 /\ pc[b] = "idle" /\ b \in Writers
    BY <2>1 DEF Owned, OwnedOnce, BulkOwned, Fresh
  <2>3. attempt[b] = 1 /\ pc'[b] = "check" /\ load'[b] = {b} /\ Spent(b)' = 0
    BY <2>1, <2>2 DEF Once, FirstAttempt, Owned, Typed, TypeOK, Spent
  <2>4. \A v \in Writers \ {b} : /\ load'[v] = load[v] /\ Spent(v)' = Spent(v)
                                 /\ pc'[v] = pc[v]
    BY <2>1 DEF Owned, Typed, TypeOK, Spent
  <2>5. \A v \in Writers : \A c \in load'[v] : orphaned[c] <= Spent(v)'
    BY <2>2, <2>3, <2>4 DEF Once, Copies
  <2> QED BY <2>1, <2>3, <2>4, <2>5 DEF Once, StoredOnce, FirstAttempt, Copies
<1>5. ASSUME NEW w \in Writers, ContextEnds(w) PROVE Once'
  BY <1>2, <1>5 DEF ContextEnds
<1>6. ASSUME NEW f \in Flushers, FlushBegin(f) PROVE Once'
  <2>1. /\ pc[f] = "idle" /\ pc' = [pc EXCEPT ![f] = "collect"]
        /\ UNCHANGED <<flushQueue, attempt, load, stored, orphaned>>
    BY <1>6 DEF FlushBegin
  <2>2. attempt[f] = 1
    BY <2>1 DEF Once, FirstAttempt
  <2>3. \A v \in Writers : /\ Spent(v)' = Spent(v)
                           /\ v # f => pc'[v] = pc[v]
    BY <2>1 DEF Owned, Typed, TypeOK, Spent
  <2>4. StoredOnce' /\ FirstAttempt'
    BY <2>1, <2>2, <2>3 DEF Once, StoredOnce, FirstAttempt
  <2>5. ASSUME NEW v \in Writers, NEW c \in load[v] PROVE orphaned[c] <= Spent(v)'
    <3>1. orphaned[c] <= Spent(v)
      BY DEF Once, Copies
    <3> QED BY <2>3, <3>1
  <2>6. Copies'
    BY <2>1, <2>5 DEF Once, Copies
  <2> QED BY <2>4, <2>6 DEF Once
<1>7. ASSUME NEW f \in Flushers, FlushStep(f) PROVE Once'
  <2>1. CASE FlushCollect(f)
    <3>1. pc' = [pc EXCEPT ![f] = "collect"]
      BY <2>1 DEF FlushCollect, Owned, Typed, TypeOK
    <3> QED BY <2>1, <3>1, TakeOnce DEF FlushCollect
  <2>2. CASE FlushWrite(f)
    <3>1. CASE EndWrite(f, "done")
      BY <2>2, <3>1, EndOnce DEF FlushWrite
    <3>2. CASE BeginWrite(f, load[f]) /\ UNCHANGED <<callVars, ctxDone>>
      <4>1. /\ pc[f] = "collect" /\ pc' = [pc EXCEPT ![f] = "check"]
            /\ UNCHANGED <<flushQueue, attempt, load, stored, orphaned>>
        BY <2>2, <3>2 DEF FlushWrite, BeginWrite, Owned, Typed, TypeOK
      <4>2. Spent(f)' >= Spent(f) /\ pc'[f] = "check"
        BY <4>1 DEF Owned, Typed, TypeOK, Spent
      <4>3. \A v \in Writers \ {f} : pc'[v] = pc[v]
        BY <4>1 DEF Owned, Typed, TypeOK
      <4> QED BY <4>1, <4>2, <4>3, MoveOnce
    <3> QED BY <2>2, <3>1, <3>2 DEF FlushWrite
  <2> QED BY <1>7, <2>1, <2>2 DEF FlushStep
<1>8. CASE WorkerStep
  <2>1. CASE WorkerTake
    <3>1. load[FlushWorker] = {}
      BY <2>1 DEF WorkerTake, Owned, OwnedOnce, IdleUnloaded
    <3> QED BY <2>1, <3>1, TakeOnce DEF WorkerTake, BeginWrite
  <2>2. CASE WorkerDrain \/ WorkerExit
    BY <1>2, <2>2 DEF WorkerDrain, WorkerExit
  <2> QED BY <1>8, <2>1, <2>2 DEF WorkerStep
<1>9. CASE Start \/ HelpersExit \/ StopCancel \/ StopGraceful \/ StopTimedOut
  BY <1>2, <1>9 DEF Start, HelpersExit, StopCancel, StopGraceful, StopTimedOut
<1>10. CASE UNCHANGED vars
  BY <1>2, <1>10 DEF vars
<1> QED BY <1>1, <1>3, <1>4, <1>5, <1>6, <1>7, <1>8, <1>9, <1>10 DEF Next

(* One acknowledged copy, StoredOnce: no batch is written again after the  *)
(* database acknowledged it, and the copies whose acknowledgement was lost *)
(* are bounded by the retry limit, whatever the database does.             *)
THEOREM StoredAtMostOnce == Spec => []StoredOnce
<1>1. Owned /\ Once /\ [Next]_vars => Owned' /\ Once'
  BY StepOwned, StepOnce
<1>2. Once => StoredOnce
  BY DEF Once
<1> QED BY <1>1, <1>2, InitOwned, InitOnce, PTL DEF Spec

(***************************************************************************)
(* The performance counters.                                               *)
(***************************************************************************)
Counted  == {b \in QueueBatches : entry[b] = "accepted"}
Settled  == Acknowledged \ Uncounted

LEMMA ItemsAdd ==
  ASSUME NEW S \in SUBSET Batches, NEW T \in SUBSET Batches, S \cap T = {}
  PROVE  Items[S \cup T] = Items[S] + Items[T]
BY ItemsAssumption

LEMMA StatsForm == StatsAgree <=> /\ totalDBWrites = Items[Settled]
                                  /\ pendingFlushItems + totalDBWrites = Items[Counted]
BY DEF StatsAgree, Settled, Counted

LEMMA InitStats == Init => StatsAgree
<1> SUFFICES ASSUME Init PROVE StatsAgree
  OBVIOUS
<1>1. Settled = {} /\ Counted = {}
  BY DEF Init, Settled, Counted, Acknowledged
<1>2. totalDBWrites = 0 /\ pendingFlushItems = 0
  BY DEF Init
<1> QED BY <1>1, <1>2, StatsForm, ItemsAssumption

(* Steps that neither commit nor count. *)
LEMMA SameStats ==
  ASSUME StatsAgree, UNCHANGED <<stored, totalDBWrites, pendingFlushItems>>,
         \A b \in QueueBatches : entry'[b] = "accepted" <=> entry[b] = "accepted",
         \A v \in Writers : pc'[v] = "count" <=> pc[v] = "count",
         \A v \in Writers : pc[v] = "count" => load'[v] = load[v]
  PROVE  StatsAgree'
<1>1. Uncounted' = Uncounted
  BY DEF Uncounted
<1>2. Acknowledged' = Acknowledged /\ Counted' = Counted
  BY DEF Acknowledged, Counted
<1> QED BY <1>1, <1>2 DEF StatsAgree, Counted

LEMMA EndStats ==
  ASSUME Owned, StatsAgree, NEW w \in Writers, NEW result, EndWrite(w, result),
         pc[w] # "count", UNCHANGED <<stored, totalDBWrites, pendingFlushItems>>
  PROVE  StatsAgree'
<1>1. \A b \in QueueBatches : entry'[b] = entry[b]
  BY BatchesAssumption DEF EndWrite, Owned, Typed, TypeOK
<1>2. \A v \in Writers : /\ pc'[v] = "count" <=> pc[v] = "count"
                         /\ v # w => load'[v] = load[v]
  BY DEF EndWrite, Owned, Typed, TypeOK
<1> QED BY <1>1, <1>2, SameStats

LEMMA CommitStats ==
  ASSUME Owned, StatsAgree, NEW w \in Writers, Commit(w) PROVE StatsAgree'
<1> USE DEF Owned, Typed, TypeOK
<1>1. /\ pc[w] = "tx" /\ pc' = [pc EXCEPT ![w] = "count"] /\ load' = load
      /\ stored' = [b \in Batches |-> stored[b] + IF b \in load[w] THEN 1 ELSE 0]
      /\ entry' = entry /\ totalDBWrites' = totalDBWrites
      /\ pendingFlushItems' = pendingFlushItems
  BY DEF Commit, Plus, callVars, stats
<1>2. \A b \in Batches : /\ b \in load[w] => stored[b] = 0 /\ stored'[b] > 0
                         /\ b \notin load[w] => stored'[b] = stored[b]
  BY <1>1 DEF OwnedOnce, LoadOwned
<1>3. Acknowledged' = Acknowledged \cup load[w] /\ Acknowledged \cap load[w] = {}
  BY <1>2 DEF Acknowledged
<1>4. {v \in Writers : pc'[v] = "count"} = {v \in Writers : pc[v] = "count"} \cup {w}
  BY <1>1
<1>5. Uncounted' = Uncounted \cup load[w]
  BY <1>1, <1>4 DEF Uncounted
<1>6. Settled' = Settled /\ Counted' = Counted
  BY <1>1, <1>3, <1>5 DEF Settled, Counted
<1> QED BY <1>1, <1>6 DEF StatsAgree, Settled, Counted

LEMMA CountWriteStats ==
  ASSUME Owned, StatsAgree, NEW w \in Writers, CountWrite(w) PROVE StatsAgree'
<1> USE DEF Owned, Typed, TypeOK
<1>1. /\ pc[w] = "count" /\ pc' = [pc EXCEPT ![w] = "idle"]
      /\ load' = [load EXCEPT ![w] = {}] /\ stored' = stored
      /\ totalDBWrites' = totalDBWrites + Items[load[w]]
      /\ pendingFlushItems' = pendingFlushItems - Items[load[w]]
  BY DEF CountWrite, EndWrite, dbVars
<1>2. \A b \in QueueBatches : entry'[b] = entry[b]
  BY BatchesAssumption DEF CountWrite, EndWrite
<1>3. load[w] \subseteq Acknowledged /\ load[w] \subseteq Uncounted
  BY <1>1 DEF OwnedOnce, LoadOwned, Acknowledged, Uncounted
<1>4. \A v \in Writers : v # w => load[v] \cap load[w] = {}
  BY DEF OwnedOnce, LoadOwned
<1>5. Uncounted' = Uncounted \ load[w]
  <2>1. ASSUME NEW b, b \in Uncounted' PROVE b \in Uncounted \ load[w]
    <3>1. PICK v \in Writers : pc'[v] = "count" /\ b \in load'[v]
      BY <2>1 DEF Uncounted
    <3>2. v # w /\ pc[v] = "count" /\ b \in load[v]
      BY <1>1, <3>1
    <3> QED BY <1>4, <3>2 DEF Uncounted
  <2>2. ASSUME NEW b, b \in Uncounted \ load[w] PROVE b \in Uncounted'
    <3>1. PICK v \in Writers : pc[v] = "count" /\ b \in load[v]
      BY <2>2 DEF Uncounted
    <3>2. v # w
      BY <2>2, <3>1
    <3>3. pc'[v] = "count" /\ b \in load'[v]
      BY <1>1, <3>1, <3>2
    <3> QED BY <3>3 DEF Uncounted
  <2> QED BY <2>1, <2>2
<1>6. Settled' = Settled \cup load[w] /\ Settled \cap load[w] = {}
  BY <1>1, <1>3, <1>5 DEF Settled, Acknowledged
<1>7. Settled \in SUBSET Batches /\ load[w] \in SUBSET Batches
  BY DEF Settled, Acknowledged
<1>8. Items[Settled'] = Items[Settled] + Items[load[w]]
  BY <1>6, <1>7, ItemsAdd
<1>9. Counted' = Counted
  BY <1>2 DEF Counted
<1>10. Items[load[w]] \in Nat
  BY <1>7, ItemsNat
<1>11. totalDBWrites' = Items[Settled']
  BY <1>1, <1>8, <1>10, StatsForm
<1>12. pendingFlushItems' + totalDBWrites' = Items[Counted']
  <2>1. pendingFlushItems' + totalDBWrites' = pendingFlushItems + totalDBWrites
    BY <1>1, <1>10
  <2> QED BY <1>9, <2>1, StatsForm
<1> QED BY <1>11, <1>12 DEF StatsAgree, Settled, Counted

LEMMA StepStats == Owned /\ StatsAgree /\ [Next]_vars => StatsAgree'
<1> SUFFICES ASSUME Owned, StatsAgree, [Next]_vars PROVE StatsAgree'
  OBVIOUS
<1>1. ASSUME NEW w \in Writers, WriteStep(w) PROVE StatsAgree'
  <2>1. CASE CheckContext(w) \/ BackOff(w) \/ GiveUp(w)
    <3>1. CASE \E result : EndWrite(w, result)
      <4>1. pc[w] # "count" /\ UNCHANGED <<stored, totalDBWrites, pendingFlushItems>>
        BY <2>1 DEF CheckContext, BackOff, GiveUp, stats, dbVars
      <4> QED BY <3>1, <4>1, EndStats
    <3>2. CASE ~\E result : EndWrite(w, result)
      <4>1. /\ UNCHANGED <<entry, load, stored, totalDBWrites, pendingFlushItems>>
            /\ pc[w] # "count"
            /\ pc' = [pc EXCEPT ![w] = "begin"] \/ pc' = [pc EXCEPT ![w] = "check"]
        BY <2>1, <3>2 DEF CheckContext, BackOff, GiveUp, stats, dbVars, callVars
      <4>2. \A v \in Writers : pc'[v] = "count" <=> pc[v] = "count"
        BY <4>1 DEF Owned, Typed, TypeOK
      <4> QED BY <4>1, <4>2, SameStats
    <3> QED BY <3>1, <3>2
  <2>2. CASE BeginTx(w) \/ TxFailed(w)
    <3>1. /\ UNCHANGED <<entry, load, stored, totalDBWrites, pendingFlushItems>>
          /\ pc[w] # "count"
          /\ \E x \in {"tx", "backoff", "giveup"} : pc' = [pc EXCEPT ![w] = x]
      BY <2>2 DEF BeginTx, TxFailed, AfterFailure, stats, dbVars, callVars
    <3>2. \A v \in Writers : pc'[v] = "count" <=> pc[v] = "count"
      BY <3>1 DEF Owned, Typed, TypeOK
    <3> QED BY <3>1, <3>2, SameStats
  <2>3. CASE Commit(w)
    BY <2>3, CommitStats
  <2>4. CASE CountWrite(w)
    BY <2>4, CountWriteStats
  <2> QED BY <1>1, <2>1, <2>2, <2>3, <2>4 DEF WriteStep
<1> USE DEF stats, callVars, writeVars, dbVars
<1>2. ASSUME UNCHANGED <<entry, writeVars, stored, totalDBWrites, pendingFlushItems>>
      PROVE  StatsAgree'
  BY <1>2, SameStats
<1>3. ASSUME NEW b \in QueueBatches, UpdateStep(b) PROVE StatsAgree'
  <2>1. CASE UpdateCache(b) \/ Enqueue(b)
    <3>1. UNCHANGED <<writeVars, stored, totalDBWrites, pendingFlushItems>>
      BY <2>1 DEF UpdateCache, Enqueue
    <3>2. \A c \in QueueBatches : entry'[c] = "accepted" <=> entry[c] = "accepted"
      BY <2>1 DEF UpdateCache, Enqueue, Owned, Typed, TypeOK
    <3> QED BY <3>1, <3>2, SameStats
  <2>2. CASE CountUpdate(b)
    <3>1. UNCHANGED <<writeVars, stored, totalDBWrites>>
      BY <2>2 DEF CountUpdate
    <3>2. CASE entry[b] = "full"
      <4>1. \A c \in QueueBatches : entry'[c] = "accepted" <=> entry[c] = "accepted"
        BY <2>2, <3>2 DEF CountUpdate, Owned, Typed, TypeOK
      <4>2. pendingFlushItems' = pendingFlushItems
        BY <2>2, <3>2 DEF CountUpdate
      <4> QED BY <3>1, <4>1, <4>2, SameStats
    <3>3. CASE entry[b] = "sent"
      <4>1. /\ entry' = [entry EXCEPT ![b] = "accepted"]
            /\ pendingFlushItems' = pendingFlushItems + Items[{b}]
        BY <2>2, <3>3 DEF CountUpdate
      <4>2. Counted' = Counted \cup {b} /\ Counted \cap {b} = {}
        BY <3>3, <4>1 DEF Counted, Owned, Typed, TypeOK
      <4>3. Counted \in SUBSET Batches /\ {b} \in SUBSET Batches
        BY DEF Counted
      <4>4. Items[Counted'] = Items[Counted] + Items[{b}]
        BY <4>2, <4>3, ItemsAdd
      <4>5. Settled' = Settled
        BY <3>1 DEF Settled, Acknowledged, Uncounted
      <4>6. /\ pendingFlushItems \in Int /\ totalDBWrites \in Int
            /\ Items[{b}] \in Int /\ Items[Counted] \in Int
        BY <4>3, ItemsNat DEF Owned, Typed, TypeOK
      <4>7. pendingFlushItems' + totalDBWrites = Items[Counted']
        BY <4>1, <4>4, <4>6, StatsForm
      <4> QED BY <3>1, <4>5, <4>7, StatsForm DEF StatsAgree, Settled, Counted
    <3> QED BY <2>2, <3>2, <3>3 DEF CountUpdate
  <2> QED BY <1>3, <2>1, <2>2 DEF UpdateStep
<1>4. ASSUME NEW b \in BulkBatches, StoreMetricsBulk(b) PROVE StatsAgree'
  <2>1. /\ entry[b] = "new" /\ entry' = [entry EXCEPT ![b] = "writing"]
        /\ pc' = [pc EXCEPT ![b] = "check"] /\ load' = [load EXCEPT ![b] = {b}]
        /\ UNCHANGED <<stored, totalDBWrites, pendingFlushItems>>
    BY <1>4 DEF StoreMetricsBulk, BeginWrite
  <2>2. pc[b] = "idle"
    BY <2>1 DEF Owned, OwnedOnce, BulkOwned
  <2>3. \A v \in Writers : /\ pc'[v] = "count" <=> pc[v] = "count"
                           /\ v # b => load'[v] = load[v]
    BY <2>1, <2>2 DEF Owned, Typed, TypeOK
  <2>4. \A c \in QueueBatches : entry'[c] = entry[c]
    BY <2>1, BatchesAssumption DEF Owned, Typed, TypeOK
  <2> QED BY <2>1, <2>2, <2>3, <2>4, SameStats
<1>5. ASSUME NEW w \in Writers, ContextEnds(w) PROVE StatsAgree'
  BY <1>2, <1>5 DEF ContextEnds
<1>6. ASSUME NEW f \in Flushers, FlushBegin(f) \/ FlushStep(f) PROVE StatsAgree'
  <2>1. CASE \E result : EndWrite(f, result)
    <3>1. pc[f] # "count" /\ UNCHANGED <<stored, totalDBWrites, pendingFlushItems>>
      BY <1>6 DEF FlushBegin, FlushStep, FlushCollect, FlushWrite
    <3> QED BY <2>1, <3>1, EndStats
  <2>2. CASE ~\E result : EndWrite(f, result)
    <3>1. /\ pc[f] # "count" /\ UNCHANGED <<entry, stored, totalDBWrites, pendingFlushItems>>
          /\ pc' = pc \/ \E x \in {"collect", "check"} : pc' = [pc EXCEPT ![f] = x]
          /\ load' = load \/ \E S : load' = [load EXCEPT ![f] = S]
      BY <1>6, <2>2 DEF FlushBegin, FlushStep, FlushCollect, FlushWrite, BeginWrite
    <3>2. \A v \in Writers : /\ pc'[v] = "count" <=> pc[v] = "count"
                             /\ v # f => load'[v] = load[v]
      BY <3>1 DEF Owned, Typed, TypeOK
    <3> QED BY <3>1, <3>2, SameStats
  <2> QED BY <2>1, <2>2
<1>7. CASE WorkerStep
  <2>1. CASE WorkerTake
    <3>1. /\ pc[FlushWorker] = "idle" /\ pc' = [pc EXCEPT ![FlushWorker] = "check"]
          /\ load' = [load EXCEPT ![FlushWorker] = {Head(flushQueue)}]
          /\ UNCHANGED <<entry, stored, totalDBWrites, pendingFlushItems>>
      BY <2>1 DEF WorkerTake, BeginWrite
    <3>2. \A v \in Writers : /\ pc'[v] = "count" <=> pc[v] = "count"
                             /\ v # FlushWorker => load'[v] = load[v]
      BY <3>1 DEF Owned, Typed, TypeOK
    <3> QED BY <3>1, <3>2, SameStats
  <2>2. CASE WorkerDrain \/ WorkerExit
    BY <1>2, <2>2 DEF WorkerDrain, WorkerExit
  <2> QED BY <1>7, <2>1, <2>2 DEF WorkerStep
<1>8. CASE Start \/ HelpersExit \/ StopCancel \/ StopGraceful \/ StopTimedOut
  <2>1. UNCHANGED <<entry, writeVars, stored, totalDBWrites, pendingFlushItems>>
    BY <1>8 DEF Start, HelpersExit, StopCancel, StopGraceful, StopTimedOut
  <2> QED BY <1>2, <2>1
<1>9. CASE UNCHANGED vars
  BY <1>2, <1>9 DEF vars
<1> QED BY <1>1, <1>3, <1>4, <1>5, <1>6, <1>7, <1>8, <1>9 DEF Next

(* The performance counters agree with the database, StatsAgree: written   *)
(* items are those of acknowledged batches, pending ones what is left of   *)
(* the items enqueued, whoever wrote them and however many calls overlap.  *)
THEOREM CountersAgree == Spec => []StatsAgree
<1>1. Owned /\ StatsAgree /\ [Next]_vars => Owned' /\ StatsAgree'
  BY StepOwned, StepStats
<1> QED BY <1>1, InitOwned, InitStats, PTL DEF Spec

(***************************************************************************)
(* What a step does to the batches: nothing; one of them is offered or     *)
(* refused; the load of a writer gets rows in the database; or a writer    *)
(* ends and forgets its load.  Both the abstract sink and the reporting of *)
(* losses follow from this.                                                *)
(***************************************************************************)
Kept(b) == Queued(b) \/ Held(b)

SameEntry(b) ==
  /\ entry'[b] \in {"new", "cached"} <=> entry[b] \in {"new", "cached"}
  /\ entry'[b] \in {"rejected", "full", "dropped"}
       <=> entry[b] \in {"rejected", "full", "dropped"}
  /\ entry'[b] \in Accepted <=> entry[b] \in Accepted

Same(b) == /\ SameEntry(b)
           /\ Kept(b)' <=> Kept(b)
           /\ InDB(b)' <=> InDB(b)

Offers(b) == /\ entry[b] \in {"new", "cached"}
             /\ ~Kept(b) /\ ~InDB(b) /\ ~InDB(b)'
             /\ \/ entry'[b] \in {"rejected", "full"} /\ ~Kept(b)'
                \/ entry'[b] \in {"sent", "writing"} /\ Kept(b)'
             /\ \A c \in Batches \ {b} : Same(c)

Persists(w) == \A b \in Batches :
                 /\ SameEntry(b)
                 /\ Kept(b)' <=> Kept(b)
                 /\ InDB(b)' <=> InDB(b) \/ b \in load[w]

Ends(w) == /\ pc[w] # "idle"
           /\ \/ pc[w] = "count"
              \/ Cancelled(w)
              \/ totalDBWriteErrors' = totalDBWriteErrors + 1
           /\ \A b \in Batches :
                /\ SameEntry(b)
                /\ Kept(b)' <=> Kept(b) /\ b \notin load[w]
                /\ InDB(b)' <=> InDB(b)

LEMMA Loaded ==
  ASSUME Owned, NEW w \in Writers, NEW b \in load[w]
  PROVE  /\ b \in Batches /\ Held(b) /\ ~Queued(b)
         /\ entry[b] \in Accepted \cup {"writing"}
         /\ pc[w] = "count" => InDB(b)
         /\ \A v \in Writers : b \in load[v] => v = w
<1> USE DEF Owned, Typed, TypeOK
<1>1. b \in Batches /\ Held(b) /\ entry[b] \in Accepted \cup {"writing"}
      /\ \A v \in Writers : b \in load[v] => v = w
  BY DEF Held, OwnedOnce, LoadOwned
<1>2. ~Queued(b)
  BY DEF Queued, OwnedOnce, QueueOwned
<1>3. pc[w] = "count" => stored[b] = 1
  BY DEF OwnedOnce, LoadOwned
<1>4. orphaned[b] \in Nat
  BY <1>1
<1> QED BY <1>1, <1>2, <1>3, <1>4 DEF InDB

LEMMA NotKept ==
  ASSUME Owned, NEW b \in Batches, entry[b] \notin Accepted \cup {"writing"}
  PROVE  ~Kept(b)
<1>1. ~Queued(b)
  BY DEF Queued, Owned, OwnedOnce, QueueOwned
<1>2. ~Held(b)
  BY Loaded DEF Held
<1> QED BY <1>1, <1>2 DEF Kept

LEMMA SameAll ==
  ASSUME UNCHANGED <<entry, flushQueue, load, stored, orphaned>>, NEW b \in Batches
  PROVE  Same(b)
BY DEF Same, SameEntry, Kept, Queued, Held, InDB

LEMMA EndEnds ==
  ASSUME Owned, NEW w \in Writers, pc[w] # "idle",
         pc[w] = "count" \/ Cancelled(w)
           \/ totalDBWriteErrors' = totalDBWriteErrors + 1,
         NEW result \in {"done", "failed"}, EndWrite(w, result),
         UNCHANGED <<stored, orphaned>>
  PROVE  Ends(w)
<1>1. /\ load' = [load EXCEPT ![w] = {}]
      /\ entry' = IF w \in BulkBatches THEN [entry EXCEPT ![w] = result] ELSE entry
      /\ flushQueue' = flushQueue
  BY DEF EndWrite
<1>2. ASSUME NEW b \in Batches
      PROVE  /\ SameEntry(b)
             /\ Kept(b)' <=> Kept(b) /\ b \notin load[w]
             /\ InDB(b)' <=> InDB(b)
  <2>1. SameEntry(b)
    <3>1. CASE w \in BulkBatches
      <4>1. entry[w] = "writing"
        BY <3>1 DEF Owned, OwnedOnce, BulkOwned
      <4>2. entry' = [entry EXCEPT ![w] = result] /\ entry \in [Batches -> EntryStates]
        BY <1>1, <3>1 DEF Owned, Typed, TypeOK
      <4> QED BY <4>1, <4>2 DEF SameEntry, Accepted
    <3>2. CASE w \notin BulkBatches
      BY <1>1, <3>2 DEF SameEntry
    <3> QED BY <3>1, <3>2
  <2>2. \A v \in Writers : load'[v] = IF v = w THEN {} ELSE load[v]
    BY <1>1 DEF Owned, Typed, TypeOK
  <2>3. Held(b)' <=> Held(b) /\ b \notin load[w]
    <3>1. CASE b \in load[w]
      <4>1. \A v \in Writers : b \in load[v] => v = w
        BY <3>1, Loaded
      <4> QED BY <2>2, <3>1, <4>1 DEF Held
    <3>2. CASE b \notin load[w]
      BY <2>2, <3>2 DEF Held
    <3> QED BY <3>1, <3>2
  <2>4. Queued(b)' <=> Queued(b)
    BY <1>1 DEF Queued
  <2>5. Queued(b) => b \notin load[w]
    BY Loaded
  <2>6. InDB(b)' <=> InDB(b)
    BY DEF InDB
  <2> QED BY <2>1, <2>3, <2>4, <2>5, <2>6 DEF Kept
<1> QED BY <1>2 DEF Ends

LEMMA WriteEffect ==
  ASSUME Owned, NEW w \in Writers, WriteStep(w)
  PROVE  (\A b \in Batches : Same(b)) \/ Persists(w) \/ Ends(w)
<1> USE DEF callVars, dbVars
<1>1. CASE CheckContext(w)
  <2>1. CASE Cancelled(w) /\ EndWrite(w, "failed")
    BY <1>1, <2>1, EndEnds DEF CheckContext
  <2>2. CASE UNCHANGED <<callVars, attempt, load, ctxDone>>
    BY <1>1, <2>2, SameAll DEF CheckContext
  <2> QED BY <1>1, <2>1, <2>2 DEF CheckContext
<1>2. CASE BeginTx(w)
  BY <1>2, SameAll DEF BeginTx
<1>3. CASE Commit(w) \/ TxFailed(w)
  <2>1. UNCHANGED <<entry, flushQueue, load>>
    BY <1>3 DEF Commit, TxFailed
  <2>2. \/ UNCHANGED <<stored, orphaned>>
        \/ stored' = Plus(stored, load[w]) /\ orphaned' = orphaned
        \/ orphaned' = Plus(orphaned, load[w]) /\ stored' = stored
    BY <1>3 DEF Commit, TxFailed
  <2>3. CASE UNCHANGED <<stored, orphaned>>
    BY <2>1, <2>3, SameAll
  <2>4. CASE ~UNCHANGED <<stored, orphaned>>
    <3>1. ASSUME NEW b \in Batches
          PROVE  /\ SameEntry(b)
                 /\ Kept(b)' <=> Kept(b)
                 /\ InDB(b)' <=> InDB(b) \/ b \in load[w]
      <4>1. SameEntry(b) /\ (Kept(b)' <=> Kept(b))
        BY <2>1 DEF SameEntry, Kept, Queued, Held
      <4>2. stored[b] \in Nat /\ orphaned[b] \in Nat
        BY DEF Owned, Typed, TypeOK
      <4>3. InDB(b)' <=> InDB(b) \/ b \in load[w]
        BY <2>2, <2>4, <4>2 DEF InDB, Plus
      <4> QED BY <4>1, <4>3
    <3> QED BY <3>1 DEF Persists
  <2> QED BY <2>3, <2>4
<1>4. CASE CountWrite(w)
  BY <1>4, EndEnds DEF CountWrite
<1>5. CASE BackOff(w)
  <2>1. CASE Cancelled(w) /\ EndWrite(w, "failed")
    BY <1>5, <2>1, EndEnds DEF BackOff
  <2>2. CASE UNCHANGED <<callVars, load, ctxDone>>
    BY <1>5, <2>2, SameAll DEF BackOff
  <2> QED BY <1>5, <2>1, <2>2 DEF BackOff
<1>6. CASE GiveUp(w)
  BY <1>6, EndEnds DEF GiveUp
<1> QED BY <1>1, <1>2, <1>3, <1>4, <1>5, <1>6 DEF WriteStep

(* A reader of the queue takes its head: the batch stays in the store.     *)
LEMMA TakeKeeps ==
  ASSUME Owned, NEW w \in {FlushWorker} \cup Flushers, flushQueue # <<>>,
         flushQueue' = Tail(flushQueue),
         load' = [load EXCEPT ![w] = load[w] \cup {Head(flushQueue)}],
         UNCHANGED <<entry, stored, orphaned>>, NEW b \in Batches
  PROVE  Same(b)
<1>1. /\ Head(flushQueue) = flushQueue[1]
      /\ Len(Tail(flushQueue)) = Len(flushQueue) - 1
      /\ Len(flushQueue) \in Nat /\ Len(flushQueue) > 0
      /\ \A i \in 1..Len(Tail(flushQueue)) : Tail(flushQueue)[i] = flushQueue[i + 1]
  BY DequeueTyped DEF Owned, Typed, TypeOK
<1>2. load[w] \subseteq load'[w] /\ Head(flushQueue) \in load'[w]
      /\ \A v \in Writers \ {w} : load'[v] = load[v]
      /\ load'[w] = load[w] \cup {Head(flushQueue)}
  BY DEF Owned, Typed, TypeOK
<1>3. Queued(b) => Kept(b)'
  <2> SUFFICES ASSUME NEW i \in 1..Len(flushQueue), flushQueue[i] = b
               PROVE  Queued(b)' \/ Held(b)'
    BY DEF Queued, Kept
  <2>1. CASE i = 1
    BY <1>1, <1>2, <2>1 DEF Held
  <2>2. CASE i > 1
    <3>1. i - 1 \in 1..Len(Tail(flushQueue)) /\ Tail(flushQueue)[i - 1] = b
      BY <1>1, <2>2
    <3> QED BY <3>1 DEF Queued
  <2> QED BY <2>1, <2>2
<1>4. Held(b) => Held(b)'
  BY <1>2 DEF Held
<1>5. Queued(b)' => Queued(b)
  <2> SUFFICES ASSUME NEW i \in 1..Len(Tail(flushQueue)), Tail(flushQueue)[i] = b
               PROVE  Queued(b)
    BY DEF Queued
  <2>1. i + 1 \in 1..Len(flushQueue) /\ flushQueue[i + 1] = b
    BY <1>1
  <2> QED BY <2>1 DEF Queued
<1>6. Held(b)' => Kept(b)
  <2> SUFFICES ASSUME NEW v \in Writers, b \in load'[v] PROVE Kept(b)
    BY DEF Held
  <2>1. CASE b \in load[v]
    BY <2>1 DEF Kept, Held
  <2>2. CASE b \notin load[v]
    <3>1. b = flushQueue[1] /\ 1 \in 1..Len(flushQueue)
      BY <1>1, <1>2, <2>2
    <3> QED BY <3>1 DEF Kept, Queued
  <2> QED BY <2>1, <2>2
<1> QED BY <1>3, <1>4, <1>5, <1>6 DEF Same, SameEntry, Kept, InDB

LEMMA UpdateEffect ==
  ASSUME Owned, NEW b \in QueueBatches, UpdateStep(b)
  PROVE  (\A c \in Batches : Same(c)) \/ Offers(b)
<1>1. UNCHANGED <<load, stored, orphaned>>
  BY DEF UpdateStep, UpdateCache, Enqueue, CountUpdate, writeVars, dbVars
<1>2. entry \in [Batches -> EntryStates] /\ b \in Batches
  BY DEF Owned, Typed, TypeOK
<1>3. entry[b] \in {"new", "cached"} => ~Kept(b) /\ ~InDB(b) /\ ~InDB(b)'
  BY <1>1, <1>2, NotKept DEF Owned, Fresh, InDB, Accepted
<1>4. CASE UpdateCache(b) \/ CountUpdate(b)
  <2>1. /\ flushQueue' = flushQueue
        /\ \/ entry[b] = "new" /\ entry' = [entry EXCEPT ![b] = "cached"]
           \/ entry[b] = "new" /\ entry' = [entry EXCEPT ![b] = "rejected"]
           \/ entry[b] = "sent" /\ entry' = [entry EXCEPT ![b] = "accepted"]
           \/ entry[b] = "full" /\ entry' = [entry EXCEPT ![b] = "dropped"]
    BY <1>4 DEF UpdateCache, CountUpdate
  <2>2. \A c \in Batches : (Kept(c)' <=> Kept(c)) /\ (InDB(c)' <=> InDB(c))
    BY <1>1, <2>1 DEF Kept, Queued, Held, InDB
  <2>3. \A c \in Batches \ {b} : SameEntry(c)
    BY <1>2, <2>1 DEF SameEntry
  <2>4. SameEntry(b) \/ (entry[b] = "new" /\ entry'[b] = "rejected")
    <3>1. \/ entry[b] = "new" /\ entry'[b] \in {"cached", "rejected"}
          \/ entry[b] = "sent" /\ entry'[b] = "accepted"
          \/ entry[b] = "full" /\ entry'[b] = "dropped"
      BY <1>2, <2>1
    <3> QED BY <3>1 DEF SameEntry, Accepted
  <2> QED BY <1>3, <2>2, <2>3, <2>4 DEF Same, Offers
<1>5. CASE Enqueue(b)
  <2>1. CASE QueueFull /\ entry' = [entry EXCEPT ![b] = "full"] /\ UNCHANGED flushQueue
    <3>1. \A c \in Batches : (Kept(c)' <=> Kept(c)) /\ (InDB(c)' <=> InDB(c))
      BY <1>1, <2>1 DEF Kept, Queued, Held, InDB
    <3>2. \A c \in Batches \ {b} : SameEntry(c)
      BY <1>2, <2>1 DEF SameEntry
    <3>3. entry[b] = "cached" /\ entry'[b] = "full"
      BY <1>2, <1>5, <2>1 DEF Enqueue
    <3> QED BY <1>3, <3>1, <3>2, <3>3 DEF Same, Offers
  <2>2. CASE /\ flushQueue' = Append(flushQueue, b)
             /\ entry' = [entry EXCEPT ![b] = "sent"]
    <3>1. /\ Len(flushQueue') = Len(flushQueue) + 1 /\ Len(flushQueue) \in Nat
          /\ flushQueue'[Len(flushQueue) + 1] = b
          /\ \A i \in 1..Len(flushQueue) : flushQueue'[i] = flushQueue[i]
      BY <2>2 DEF Owned, Typed, TypeOK
    <3>2. ASSUME NEW c \in Batches \ {b} PROVE Same(c)
      <4>1. Queued(c)' <=> Queued(c)
        <5>1. ASSUME NEW i \in 1..Len(flushQueue') PROVE flushQueue'[i] = c => Queued(c)
          <6>1. CASE i = Len(flushQueue) + 1
            BY <3>1, <6>1
          <6>2. CASE i # Len(flushQueue) + 1
            <7>1. i \in 1..Len(flushQueue)
              BY <3>1, <6>2
            <7> QED BY <3>1, <7>1 DEF Queued
          <6> QED BY <6>1, <6>2
        <5>2. ASSUME NEW i \in 1..Len(flushQueue), flushQueue[i] = c PROVE Queued(c)'
          <6>1. i \in 1..Len(flushQueue') /\ flushQueue'[i] = c
            BY <3>1, <5>2
          <6> QED BY <6>1 DEF Queued
        <5> QED BY <5>1, <5>2 DEF Queued
      <4>2. SameEntry(c)
        BY <1>2, <2>2 DEF SameEntry
      <4> QED BY <1>1, <4>1, <4>2 DEF Same, Kept, Held, InDB
    <3>3. Kept(b)'
      <4>1. Len(flushQueue) + 1 \in 1..Len(flushQueue')
        BY <3>1
      <4> QED BY <3>1, <4>1 DEF Kept, Queued
    <3>4. entry[b] = "cached" /\ entry'[b] = "sent"
      BY <1>2, <1>5, <2>2 DEF Enqueue
    <3> QED BY <1>3, <3>2, <3>3, <3>4 DEF Offers
  <2> QED BY <1>5, <2>1, <2>2 DEF Enqueue
<1> QED BY <1>4, <1>5 DEF UpdateStep

LEMMA StepEffect ==
  ASSUME Owned, [Next]_vars
  PROVE  \/ \A b \in Batches : Same(b)
         \/ \E b \in Batches : Offers(b)
         \/ \E w \in Writers : Persists(w) \/ Ends(w)
<1> USE DEF callVars, writeVars, lifeVars, dbVars
<1>1. ASSUME NEW w \in Writers, WriteStep(w)
      PROVE  (\A b \in Batches : Same(b)) \/ Persists(w) \/ Ends(w)
  BY <1>1, WriteEffect
<1>2. ASSUME NEW b \in QueueBatches, UpdateStep(b)
      PROVE  (\A c \in Batches : Same(c)) \/ (b \in Batches /\ Offers(b))
  BY <1>2, UpdateEffect
<1>3. ASSUME NEW b \in BulkBatches, StoreMetricsBulk(b) PROVE Offers(b)
  <2>1. /\ entry[b] = "new" /\ b \in Batches /\ b \in Writers
        /\ entry' = [entry EXCEPT ![b] = "writing"]
        /\ load' = [load EXCEPT ![b] = {b}]
        /\ UNCHANGED <<flushQueue, stored, orphaned>>
    BY <1>3 DEF StoreMetricsBulk, BeginWrite
  <2>2. load[b] = {}
    BY <2>1 DEF Owned, OwnedOnce, BulkOwned, IdleUnloaded
  <2>3. entry \in [Batches -> EntryStates] /\ load \in [Writers -> SUBSET Batches]
    BY DEF Owned, Typed, TypeOK
  <2>4. ~Kept(b) /\ ~InDB(b) /\ ~InDB(b)'
    BY <2>1, NotKept DEF Owned, Fresh, InDB, Accepted
  <2>5. Kept(b)' /\ entry'[b] = "writing"
    BY <2>1, <2>3 DEF Kept, Held
  <2>6. ASSUME NEW c \in Batches \ {b} PROVE Same(c)
    <3>1. Held(c)' <=> Held(c)
      BY <2>1, <2>2, <2>3 DEF Held
    <3> QED BY <2>1, <2>3, <3>1 DEF Same, SameEntry, Kept, Queued, InDB
  <2> QED BY <2>1, <2>4, <2>5, <2>6 DEF Offers
<1>4. ASSUME NEW w \in Writers, ContextEnds(w) PROVE \A b \in Batches : Same(b)
  BY <1>4, SameAll DEF ContextEnds
<1>5. ASSUME NEW f \in Flushers, FlushBegin(f) \/ FlushStep(f)
      PROVE  \A b \in Batches : Same(b)
  <2>1. CASE FlushBegin(f)
    BY <2>1, SameAll DEF FlushBegin
  <2>2. CASE FlushCollect(f)
    BY <2>2, TakeKeeps DEF FlushCollect
  <2>3. CASE FlushWrite(f)
    <3>1. CASE load[f] = {} /\ EndWrite(f, "done")
      <4>1. entry' = entry /\ flushQueue' = flushQueue
        BY <3>1, WritersAssumption DEF EndWrite
      <4>2. load' = load
        BY <3>1 DEF EndWrite, Owned, Typed, TypeOK
      <4> QED BY <2>3, <4>1, <4>2, SameAll DEF FlushWrite
    <3>2. CASE BeginWrite(f, load[f]) /\ UNCHANGED <<callVars, ctxDone>>
      <4>1. load' = load
        BY <3>2 DEF BeginWrite, Owned, Typed, TypeOK
      <4> QED BY <2>3, <3>2, <4>1, SameAll DEF FlushWrite
    <3> QED BY <2>3, <3>1, <3>2 DEF FlushWrite
  <2> QED BY <1>5, <2>1, <2>2, <2>3 DEF FlushStep
<1>6. CASE WorkerStep
  <2>1. CASE WorkerTake
    <3>1. load[FlushWorker] = {}
      BY <2>1 DEF WorkerTake, Owned, OwnedOnce, IdleUnloaded
    <3> QED BY <2>1, <3>1, TakeKeeps DEF WorkerTake, BeginWrite
  <2>2. CASE WorkerDrain \/ WorkerExit
    BY <2>2, SameAll DEF WorkerDrain, WorkerExit
  <2> QED BY <1>6, <2>1, <2>2 DEF WorkerStep
<1>7. CASE Start \/ HelpersExit \/ StopCancel \/ StopGraceful \/ StopTimedOut
  BY <1>7, SameAll DEF Start, HelpersExit, StopCancel, StopGraceful, StopTimedOut
<1>8. CASE UNCHANGED vars
  BY <1>8, SameAll DEF vars
<1> QED BY <1>1, <1>2, <1>3, <1>4, <1>5, <1>6, <1>7, <1>8 DEF Next

(***************************************************************************)
(* The store implements DurableSink.                                       *)
(***************************************************************************)
LEMMA SameStatus == ASSUME NEW b \in Batches, Same(b) PROVE StatusOf(b)' = StatusOf(b)
BY DEF Same, SameEntry, StatusOf, Kept

LEMMA MoveIs ==
  ASSUME NEW S \in SUBSET Batches, NEW from, NEW to,
         \A b \in S : StatusOf(b) = from /\ StatusOf(b)' = to,
         \A b \in Batches \ S : StatusOf(b)' = StatusOf(b)
  PROVE  Sink!Move(S, from, to)
BY DEF Sink!Move

LEMMA NewStatus ==
  ASSUME NEW b \in Batches, ~InDB(b), ~Kept(b), entry[b] \in {"new", "cached"}
  PROVE  StatusOf(b) = "new"
BY DEF StatusOf, Kept

LEMMA InitSink == Init => Sink!Init
<1> SUFFICES ASSUME Init, NEW b \in Batches PROVE StatusOf(b) = "new"
  BY DEF Sink!Init
<1>1. ~InDB(b) /\ ~Kept(b) /\ entry[b] = "new"
  BY DEF Init, InDB, Kept, Queued, Held
<1> QED BY <1>1, NewStatus

LEMMA StepSink ==
  ASSUME Owned, [Next]_vars
  PROVE  [Sink!Next]_([b \in Batches |-> StatusOf(b)])
<1>1. CASE \A b \in Batches : Same(b)
  BY <1>1, SameStatus
<1>2. ASSUME NEW b \in Batches, Offers(b) PROVE Sink!Next
  <2>1. StatusOf(b) = "new"
    BY <1>2, NewStatus DEF Offers
  <2>2. \A c \in Batches \ {b} : StatusOf(c)' = StatusOf(c)
    BY <1>2, SameStatus DEF Offers
  <2>3. CASE entry'[b] \in {"rejected", "full"} /\ ~Kept(b)'
    <3>1. StatusOf(b)' = "refused"
      BY <1>2, <2>3 DEF Offers, StatusOf, Kept
    <3>2. Sink!Refuse(b)
      BY <2>1, <2>2, <3>1, MoveIs DEF Sink!Refuse
    <3> QED BY <3>2 DEF Sink!Next
  <2>4. CASE entry'[b] \in {"sent", "writing"} /\ Kept(b)'
    <3>1. StatusOf(b)' = "pending"
      BY <1>2, <2>4 DEF Offers, StatusOf, Kept
    <3>2. Sink!Offer(b)
      BY <2>1, <2>2, <3>1, MoveIs DEF Sink!Offer
    <3> QED BY <3>2 DEF Sink!Next
  <2> QED BY <1>2, <2>3, <2>4 DEF Offers
<1>3. ASSUME NEW w \in Writers, Persists(w) \/ Ends(w) PROVE Sink!Next
  <2> DEFINE S == {b \in load[w] : ~InDB(b)}
  <2>1. S \in SUBSET Batches
    BY Loaded
  <2>2. ASSUME NEW b \in S PROVE StatusOf(b) = "pending"
    BY <2>2, Loaded DEF StatusOf, Accepted
  <2>3. CASE Persists(w)
    <3>1. ASSUME NEW b \in S PROVE StatusOf(b)' = "durable"
      BY <2>1, <2>3, <3>1 DEF Persists, StatusOf
    <3>2. ASSUME NEW b \in Batches \ S PROVE Same(b)
      BY <2>3, <3>2 DEF Persists, Same
    <3>3. Sink!Persist(S)
      BY <2>1, <2>2, <3>1, <3>2, SameStatus, MoveIs DEF Sink!Persist
    <3> QED BY <2>1, <3>3 DEF Sink!Next
  <2>4. CASE Ends(w)
    <3>1. ASSUME NEW b \in S PROVE StatusOf(b)' = "lost"
      <4>1. /\ b \in load[w] /\ b \in Batches /\ ~InDB(b)
            /\ entry[b] \in Accepted \cup {"writing"}
        BY <2>1, Loaded
      <4>2. ~InDB(b)' /\ ~Kept(b)' /\ SameEntry(b)
        BY <2>4, <4>1 DEF Ends
      <4> QED BY <4>1, <4>2 DEF StatusOf, Kept, SameEntry, Accepted
    <3>2. ASSUME NEW b \in Batches \ S PROVE StatusOf(b)' = StatusOf(b)
      <4>1. CASE b \in load[w]
        BY <2>4, <3>2, <4>1 DEF Ends, StatusOf
      <4>2. CASE b \notin load[w]
        BY <2>4, <4>2, SameStatus DEF Ends, Same
      <4> QED BY <4>1, <4>2
    <3>3. Sink!Lose(S)
      BY <2>1, <2>2, <3>1, <3>2, MoveIs DEF Sink!Lose
    <3> QED BY <2>1, <3>3 DEF Sink!Next
  <2> QED BY <1>3, <2>3, <2>4
<1> QED BY <1>1, <1>2, <1>3, StepEffect

(* The store implements DurableSink, ImplementsSink, for any batches,      *)
(* readers of the queue, retries and failures of the database.             *)
THEOREM StoreImplementsSink == Spec => ImplementsSink
<1>1. Owned /\ [Next]_vars => [Sink!Next]_([b \in Batches |-> StatusOf(b)])
  BY StepSink
<1> QED BY <1>1, InitOwned, StepOwned, InitSink, PTL DEF Spec, ImplementsSink, Sink!Spec

(***************************************************************************)
(* No loss without a report.  The contexts of flushWorker end only after   *)
(* the cancellation.                                                       *)
(***************************************************************************)
Cancellation == /\ worker = "drain" => hsCtx = "cancelled"
                /\ ctxDone[FlushWorker] => hsCtx = "cancelled"

LEMMA StepCancellation ==
  ASSUME Typed, Cancellation, [Next]_vars PROVE Cancellation'
<1> USE DEF Cancellation, callVars, writeVars, lifeVars
<1>0. FlushWorker \in Writers /\ FlushWorker \notin Flushers
      /\ ctxDone \in [Writers -> BOOLEAN]
  BY WritersAssumption DEF Typed, TypeOK
<1>1. ASSUME NEW w \in Writers, WriteStep(w) PROVE Cancellation'
  <2>1. UNCHANGED lifeVars /\ (ctxDone'[FlushWorker] => ctxDone[FlushWorker])
    BY <1>0, <1>1 DEF WriteStep, CheckContext, BeginTx, Commit, TxFailed, CountWrite,
                      BackOff, GiveUp, EndWrite
  <2> QED BY <2>1
<1>2. ASSUME NEW b \in QueueBatches, UpdateStep(b) PROVE Cancellation'
  BY <1>2 DEF UpdateStep, UpdateCache, Enqueue, CountUpdate
<1>3. ASSUME NEW b \in BulkBatches, StoreMetricsBulk(b) PROVE Cancellation'
  BY <1>3 DEF StoreMetricsBulk
<1>4. ASSUME NEW w \in Writers, ContextEnds(w) PROVE Cancellation'
  <2>1. CASE w = FlushWorker
    BY <1>0, <1>4, <2>1 DEF ContextEnds
  <2>2. CASE w # FlushWorker
    BY <1>0, <1>4, <2>2 DEF ContextEnds
  <2> QED BY <2>1, <2>2
<1>5. ASSUME NEW f \in Flushers, FlushBegin(f) \/ FlushStep(f) PROVE Cancellation'
  <2>1. UNCHANGED lifeVars /\ (ctxDone'[FlushWorker] => ctxDone[FlushWorker])
    BY <1>0, <1>5 DEF FlushBegin, FlushStep, FlushCollect, FlushWrite, EndWrite
  <2> QED BY <2>1
<1>6. CASE WorkerStep
  BY <1>6 DEF WorkerStep, WorkerTake, WorkerDrain, WorkerExit
<1>7. CASE Start \/ HelpersExit \/ StopCancel \/ StopGraceful \/ StopTimedOut
  BY <1>7 DEF Start, HelpersExit, StopCancel, StopGraceful, StopTimedOut
<1>8. CASE UNCHANGED vars
  BY <1>8 DEF vars
<1> QED BY <1>1, <1>2, <1>3, <1>4, <1>5, <1>6, <1>7, <1>8 DEF Next

LEMMA StepReports ==
  ASSUME Owned, Cancellation, [Next]_vars, NEW b \in QueueBatches, ~Lost(b), Lost(b)'
  PROVE  \/ totalDBWriteErrors' = totalDBWriteErrors + 1
         \/ hsCtx = "cancelled"
         \/ \E f \in Flushers : ctxDone[f] /\ b \in load[f]
<1>1. b \in Batches /\ entry'[b] \in Accepted /\ ~Kept(b)' /\ ~InDB(b)'
  BY DEF Lost, Kept
<1>2. ~Same(b)
  BY DEF Same, SameEntry, Lost, Kept
<1>3. ASSUME NEW c \in Batches, Offers(c) PROVE FALSE
  BY <1>1, <1>2, <1>3 DEF Offers, Accepted
<1>4. ASSUME NEW w \in Writers, Persists(w) PROVE FALSE
  BY <1>1, <1>2, <1>4 DEF Persists, Same
<1>5. PICK w \in Writers : Ends(w)
  BY <1>1, <1>2, <1>3, <1>4, StepEffect
<1>6. b \in load[w]
  BY <1>1, <1>2, <1>5 DEF Ends, Same
<1>7. pc[w] # "count"
  BY <1>1, <1>5, <1>6, Loaded DEF Ends
<1>8. w \notin BulkBatches
  <2>1. w \in BulkBatches => load[w] = {w}
    BY <1>5 DEF Ends, Owned, OwnedOnce, BulkOwned
  <2> QED BY <1>6, <2>1, BatchesAssumption
<1>9. CASE Cancelled(w)
  BY <1>6, <1>8, <1>9 DEF Cancelled, Cancellation
<1> QED BY <1>5, <1>7, <1>9 DEF Ends

(* No batch of the queue disappears without a report while the store runs, *)
(* LossIsReported: the step that loses it counts an error or returns one.  *)
THEOREM LossesAreReported == Spec => LossIsReported
<1>1. Init => Cancellation
  BY DEF Init, Cancellation
<1>2. Owned /\ Cancellation /\ [Next]_vars => Cancellation'
  BY StepCancellation DEF Owned
<1>3. Owned /\ Cancellation /\ [Next]_vars =>
        [ \A b \in QueueBatches : ~Lost(b) /\ Lost(b)' =>
            \/ totalDBWriteErrors' = totalDBWriteErrors + 1
            \/ hsCtx = "cancelled"
            \/ \E f \in Flushers : ctxDone[f] /\ b \in load[f] ]_vars
  BY StepReports
<1> QED BY <1>1, <1>2, <1>3, InitOwned, StepOwned, PTL DEF Spec, LossIsReported

(***************************************************************************)
(* Progress, as far as safety can tell it: the goroutines stay, and each   *)
(* write uses up its attempts.                                             *)
(***************************************************************************)
LEMMA StepStays ==
  ASSUME WorkerStays, [Next]_vars
  PROVE  WorkerStays'
<1> USE DEF WorkerStays, lifeVars
<1>1. ASSUME NEW w \in Writers, WriteStep(w) \/ ContextEnds(w) PROVE WorkerStays'
  BY <1>1 DEF WriteStep, CheckContext, BeginTx, Commit, TxFailed, CountWrite, BackOff,
              GiveUp, ContextEnds
<1>2. ASSUME NEW b \in Batches, UpdateStep(b) \/ StoreMetricsBulk(b) PROVE WorkerStays'
  BY <1>2 DEF UpdateStep, UpdateCache, Enqueue, CountUpdate, StoreMetricsBulk
<1>3. ASSUME NEW f \in Flushers, FlushBegin(f) \/ FlushStep(f) PROVE WorkerStays'
  BY <1>3 DEF FlushBegin, FlushStep, FlushCollect, FlushWrite
<1>4. CASE WorkerTake
  BY <1>4 DEF WorkerTake
<1>5. CASE WorkerDrain \/ WorkerExit \/ HelpersExit
  BY <1>5 DEF WorkerDrain, WorkerExit, HelpersExit
<1>6. CASE Start \/ StopCancel \/ StopGraceful \/ StopTimedOut
  BY <1>6 DEF Start, StopCancel, StopGraceful, StopTimedOut
<1>7. CASE UNCHANGED vars
  BY <1>7 DEF vars
<1> QED BY <1>1, <1>2, <1>3, <1>4, <1>5, <1>6, <1>7 DEF Next, WorkerStep

(* flushWorker leaves its loop for the cancellation and for nothing else,  *)
(* WorkerStays: no write error, full queue or closed context takes it away *)
(* while the store runs (hybrid.go:438-475).                               *)
THEOREM WorkerNeverLeaves == Spec => []WorkerStays
<1>1. Init => WorkerStays /\ Cancellation
  BY DEF Init, WorkerStays, Cancellation
<1>2. Owned /\ WorkerStays /\ Cancellation /\ [Next]_vars => WorkerStays' /\ Cancellation'
  BY StepStays, StepCancellation DEF Owned
<1> QED BY <1>1, <1>2, InitOwned, StepOwned, PTL DEF Spec

LEMMA WriteShrinks ==
  ASSUME Typed, NEW w \in Writers, WriteStep(w)
  PROVE  \/ pc'[w] = "idle"
         \/ Left(w)' < Left(w) /\ Left(w)' \in 0..(4 * MaxRetries - 1)
<1> USE BoundsAssumption DEF Typed, TypeOK, Left
<1>0. /\ attempt[w] \in 1..MaxRetries
      /\ AfterFailure(w) \in {"backoff", "giveup"}
  BY DEF AfterFailure
<1>1. CASE CheckContext(w)
  BY <1>0, <1>1 DEF CheckContext, EndWrite
<1>2. CASE BeginTx(w)
  <2>1. pc[w] = "begin" /\ attempt' = attempt /\ pc'[w] \in {"tx", "backoff", "giveup"}
    BY <1>0, <1>2 DEF BeginTx
  <2>2. Left(w) = 4 * (MaxRetries - attempt[w]) + 2
    BY <2>1
  <2>3. Left(w)' = 4 * (MaxRetries - attempt[w]) + IF pc'[w] = "tx" THEN 1 ELSE 0
    BY <2>1
  <2> HIDE DEF Left
  <2> QED BY <1>0, <2>2, <2>3
<1>3. CASE Commit(w)
  BY <1>0, <1>3 DEF Commit
<1>4. CASE TxFailed(w)
  BY <1>0, <1>4 DEF TxFailed
<1>5. CASE CountWrite(w) \/ GiveUp(w)
  BY <1>5 DEF CountWrite, GiveUp, EndWrite
<1>6. CASE BackOff(w)
  <2>1. CASE EndWrite(w, "failed")
    BY <2>1 DEF EndWrite
  <2>2. CASE pc' = [pc EXCEPT ![w] = "check"] /\ attempt' = [attempt EXCEPT ![w] = @ + 1]
    <3>1. pc[w] = "backoff" /\ attempt[w] < MaxRetries
      BY <1>6 DEF BackOff, RetriesLeft
    <3>2. pc'[w] = "check" /\ attempt'[w] = attempt[w] + 1
      BY <2>2
    <3>3. Left(w) = 4 * (MaxRetries - attempt[w])
          /\ Left(w)' = 4 * (MaxRetries - (attempt[w] + 1)) + 3
      BY <3>1, <3>2
    <3> HIDE DEF Left
    <3> QED BY <1>0, <3>1, <3>3
  <2> QED BY <1>6, <2>1, <2>2 DEF BackOff
<1> QED BY <1>1, <1>2, <1>3, <1>4, <1>5, <1>6 DEF WriteStep

(* Each step of a write ends it or leaves it fewer steps, WritesShrink:    *)
(* the safety half of WritesEnd, for any retry limit (hybrid.go:519-570).  *)
THEOREM WritesUseUpAttempts == Spec => WritesShrink
<1> DEFINE A == \A w \in Writers :
                  /\ pc[w] \notin {"idle", "collect"}
                  /\ pc'[w] # pc[w] \/ attempt'[w] # attempt[w]
                  => \/ pc'[w] = "idle"
                     \/ Left(w)' < Left(w) /\ Left(w)' \in 0..(4 * MaxRetries - 1)
<1>1. Owned /\ [Next]_vars => [A]_vars
  <2> SUFFICES ASSUME Owned, Next, NEW w \in Writers,
                      pc[w] \notin {"idle", "collect"},
                      pc'[w] # pc[w] \/ attempt'[w] # attempt[w]
               PROVE  \/ pc'[w] = "idle"
                      \/ Left(w)' < Left(w) /\ Left(w)' \in 0..(4 * MaxRetries - 1)
    OBVIOUS
  <2>0. Typed /\ OwnedOnce
    BY DEF Owned
  <2>1. ASSUME NEW v \in Writers, WriteStep(v) \/ ContextEnds(v)
        PROVE  v = w /\ WriteStep(w)
    <3>1. CASE ContextEnds(v)
      BY <3>1 DEF ContextEnds, writeVars
    <3>2. CASE WriteStep(v) /\ v # w
      <4>1. pc'[w] = pc[w] /\ attempt'[w] = attempt[w]
        BY <2>0, <3>2 DEF WriteStep, CheckContext, BeginTx, Commit, TxFailed,
           CountWrite, BackOff, GiveUp, EndWrite, Typed, TypeOK
      <4> QED BY <4>1
    <3> QED BY <2>1, <3>1, <3>2
  <2>2. ASSUME NEW b \in QueueBatches, UpdateStep(b) PROVE FALSE
    BY <2>2 DEF UpdateStep, UpdateCache, Enqueue, CountUpdate, writeVars
  <2>3. ASSUME NEW b \in BulkBatches, StoreMetricsBulk(b) PROVE FALSE
    <3>1. b # w
      BY <2>0, <2>3 DEF StoreMetricsBulk, OwnedOnce, BulkOwned
    <3> QED BY <2>3, <3>1 DEF StoreMetricsBulk, BeginWrite
  <2>4. ASSUME NEW f \in Flushers, FlushBegin(f) \/ FlushStep(f) PROVE FALSE
    <3>1. f # w
      BY <2>4 DEF FlushBegin, FlushStep, FlushCollect, FlushWrite
    <3>2. \/ UNCHANGED <<pc, attempt>>
          \/ attempt' = attempt /\ \E x \in WriterStates : pc' = [pc EXCEPT ![f] = x]
          \/ EndWrite(f, "done")
      BY <2>4 DEF FlushBegin, FlushStep, FlushCollect, FlushWrite, BeginWrite
    <3>3. pc'[w] = pc[w] /\ attempt'[w] = attempt[w]
      BY <2>0, <3>1, <3>2 DEF EndWrite, Typed, TypeOK
    <3> QED BY <3>3
  <2>5. CASE WorkerStep
    <3>1. CASE WorkerTake
      BY <3>1 DEF WorkerTake, BeginWrite
    <3> QED BY <2>5, <3>1 DEF WorkerStep, WorkerDrain, WorkerExit, writeVars
  <2>6. CASE Start \/ HelpersExit \/ StopCancel \/ StopGraceful \/ StopTimedOut
    BY <2>6 DEF Start, HelpersExit, StopCancel, StopGraceful, StopTimedOut, writeVars
  <2> QED BY <2>0, <2>1, <2>2, <2>3, <2>4, <2>5, <2>6, WriteShrinks DEF Next
<1> QED BY <1>1, InitOwned, StepOwned, PTL DEF Spec, WritesShrink
=============================================================================
