----------------------------- MODULE HybridStore -----------------------------
(***************************************************************************)
(* The hybrid store (internal/telemetry/storage/hybrid.go): records go to  *)
(* the cache at once and to PostgreSQL through a bounded flush queue and a *)
(* background worker, or directly with StoreMetricsBulk.                   *)
(*                                                                         *)
(* A batch is the slice of records of one call.  A batch of QueueBatches   *)
(* comes by UpdateMetrics or UpdateBatch, one of BulkBatches by            *)
(* StoreMetricsBulk; every call is made once, and a bulk caller is its own *)
(* writer.  The contents of the cache are in a module of their own; here   *)
(* only the order of the cache update and the write matters.               *)
(*                                                                         *)
(* Time is abstracted: backoffs, tickers and deadlines may end at any      *)
(* moment.                                                                 *)
(***************************************************************************)
EXTENDS Integers, Sequences, FiniteSets

CONSTANTS QueueBatches,     \* batches given to UpdateMetrics or UpdateBatch
          BulkBatches,      \* batches given to StoreMetricsBulk
          Items,            \* how many records a set of batches has
          FlushWorker,      \* the goroutine flushWorker
          Flushers,         \* callers of FlushToDatabase
          QueueCap,         \* capacity of flushQueue (100 in the code)
          MaxRetries,       \* HybridStoreConfig.MaxRetries
          Faults            \* whether the database may fail or lose an answer

Batches == QueueBatches \cup BulkBatches
Writers == {FlushWorker} \cup Flushers \cup BulkBatches

ASSUME BatchesAssumption == QueueBatches \cap BulkBatches = {}
ASSUME WritersAssumption ==
  FlushWorker \notin Flushers \cup BulkBatches /\ Flushers \cap BulkBatches = {}
ASSUME BoundsAssumption ==
  QueueCap \in Nat /\ MaxRetries \in Nat \ {0} /\ Faults \in BOOLEAN

(* The length of concatenated slices is the sum of their lengths. *)
ASSUME ItemsAssumption ==
  /\ Items \in [SUBSET Batches -> Nat]
  /\ Items[{}] = 0
  /\ \A S, T \in SUBSET Batches :
        S \cap T = {} => Items[S \cup T] = Items[S] + Items[T]

VARIABLES flushQueue,   \* the channel
          entry,        \* where the call that brought each batch is
          pc,           \* where each writer is in writeToDatabase
          attempt,      \* its loop variable
          load,         \* the batches it is writing
          ctxDone,      \* its context is done (for the worker: flushCtx)
          worker,       \* where the loop of flushWorker is
          helpers,      \* whether cleanupWorker or periodicFlushWorker runs
          hsCtx,        \* hs.ctx: nil, live or cancelled
          stop,         \* where the goroutine that calls Stop is
          totalRequests, totalDBWrites, totalDBWriteErrors,
          pendingFlushItems,    \* the performance counters
          stored,       \* rows committed whose commit was acknowledged
          orphaned,     \* rows committed whose acknowledgement was lost
          dbOpen        \* repository.Close has not run

callVars   == <<entry, flushQueue>>
writeVars  == <<pc, attempt, load>>
lifeVars   == <<worker, helpers, hsCtx, stop>>
dbVars     == <<stored, orphaned, dbOpen>>
stats == <<totalRequests, totalDBWrites, totalDBWriteErrors, pendingFlushItems>>
vars == <<callVars, writeVars, ctxDone, lifeVars, stats, dbVars>>

(* "sent" and "full" lie between the select of the enqueue and the         *)
(* counting that follows it.                                               *)
EntryStates  == {"new", "rejected", "cached", "sent", "full", "accepted",
                 "dropped", "writing", "done", "failed"}
WriterStates == {"idle", "collect", "check", "begin", "tx", "count", "backoff",
                 "giveup"}
WorkerStates == {"none", "select", "drain", "exited"}

Init == /\ flushQueue = <<>>
        /\ entry = [b \in Batches |-> "new"]
        /\ pc = [w \in Writers |-> "idle"]
        /\ attempt = [w \in Writers |-> 1]
        /\ load = [w \in Writers |-> {}]
        /\ ctxDone = [w \in Writers |-> FALSE]
        /\ worker = "none"
        /\ helpers = FALSE
        /\ hsCtx = "nil"
        /\ stop = "no"
        /\ totalRequests = 0
        /\ totalDBWrites = 0
        /\ totalDBWriteErrors = 0
        /\ pendingFlushItems = 0
        /\ stored = [b \in Batches |-> 0]
        /\ orphaned = [b \in Batches |-> 0]
        /\ dbOpen = TRUE

(***************************************************************************)
(* Start.  A second call finds hs.ctx set, even after Stop, and changes    *)
(* nothing.                                                                *)
(***************************************************************************)
Start == /\ hsCtx = "nil"
         /\ hsCtx' = "live"
         /\ worker' = "select"
         /\ helpers' = TRUE
         /\ UNCHANGED <<callVars, writeVars, ctxDone, stop, stats, dbVars>>

(***************************************************************************)
(* UpdateMetrics and UpdateBatch: the cache, the non-blocking enqueue, the *)
(* counters.  The caller gets nil whether the batch was queued or dropped. *)
(***************************************************************************)
UpdateCache(b) ==
  /\ entry[b] = "new"
  /\ \E outcome \in {"cached", "rejected"} : entry' = [entry EXCEPT ![b] = outcome]
  /\ UNCHANGED <<flushQueue, writeVars, ctxDone, lifeVars, stats, dbVars>>

QueueFull_OffByOne == Len(flushQueue) > QueueCap
QueueFull == Len(flushQueue) >= QueueCap

Enqueue_DropsOldest(b) ==   \* a full queue makes room for the new batch
  /\ entry[b] = "cached"
  /\ flushQueue' = Append(IF QueueFull THEN Tail(flushQueue) ELSE flushQueue, b)
  /\ entry' = [entry EXCEPT ![b] = "sent"]
  /\ UNCHANGED <<writeVars, ctxDone, lifeVars, stats, dbVars>>

Enqueue(b) ==
  /\ entry[b] = "cached"
  /\ \/ /\ ~QueueFull
        /\ flushQueue' = Append(flushQueue, b)
        /\ entry' = [entry EXCEPT ![b] = "sent"]
     \/ /\ QueueFull
        /\ entry' = [entry EXCEPT ![b] = "full"]
        /\ UNCHANGED flushQueue
  /\ UNCHANGED <<writeVars, ctxDone, lifeVars, stats, dbVars>>

(* pendingFlushItems += len and incrementRequestCount, two short critical  *)
(* sections of hs.mu that nothing reads between.                           *)
CountUpdate(b) ==
  /\ \/ /\ entry[b] = "sent"
        /\ entry' = [entry EXCEPT ![b] = "accepted"]
        /\ pendingFlushItems' = pendingFlushItems + Items[{b}]
     \/ /\ entry[b] = "full"
        /\ entry' = [entry EXCEPT ![b] = "dropped"]
        /\ UNCHANGED pendingFlushItems
  /\ totalRequests' = totalRequests + 1
  /\ UNCHANGED <<flushQueue, writeVars, ctxDone, lifeVars, totalDBWrites,
                 totalDBWriteErrors, dbVars>>

(***************************************************************************)
(* writeToDatabase, by any writer w.                                       *)
(***************************************************************************)
(* The context a write runs under: hs.ctx for a batch the worker took in   *)
(* its normal loop, its own 3 s context in the drain, the caller's context *)
(* otherwise.                                                              *)
Cancelled(w) == \/ ctxDone[w]
                \/ w = FlushWorker /\ worker = "select" /\ hsCtx = "cancelled"

(* A write begins with a set of batches, and ends with or without an error *)
(* that only a bulk caller keeps in its state.  The caller of a            *)
(* FlushToDatabase that ended may call again, with a new context.          *)
BeginWrite(w, batches) ==
  /\ pc' = [pc EXCEPT ![w] = "check"]
  /\ load' = [load EXCEPT ![w] = batches]
  /\ UNCHANGED attempt

EndWrite_KeepsLoad(w, result) ==    \* the collected slice is used again
  /\ pc' = [pc EXCEPT ![w] = "idle"]
  /\ attempt' = [attempt EXCEPT ![w] = 1]
  /\ entry' = IF w \in BulkBatches THEN [entry EXCEPT ![w] = result] ELSE entry
  /\ ctxDone' = [v \in Writers |-> ctxDone[v] /\ ~(v = w /\ w \in Flushers)]
  /\ UNCHANGED <<flushQueue, load>>

EndWrite(w, result) ==
  /\ pc' = [pc EXCEPT ![w] = "idle"]
  /\ attempt' = [attempt EXCEPT ![w] = 1]
  /\ load' = [load EXCEPT ![w] = {}]
  /\ entry' = IF w \in BulkBatches THEN [entry EXCEPT ![w] = result] ELSE entry
  /\ ctxDone' = [v \in Writers |-> ctxDone[v] /\ ~(v = w /\ w \in Flushers)]
  /\ UNCHANGED flushQueue

(* Where a failed attempt leads. *)
AfterFailure(w) == IF attempt[w] < MaxRetries THEN "backoff" ELSE "giveup"

(* The context is tested before every attempt. *)
CheckContext(w) ==
  /\ pc[w] = "check"
  /\ \/ /\ Cancelled(w)
        /\ EndWrite(w, "failed")
     \/ /\ ~Cancelled(w)
        /\ pc' = [pc EXCEPT ![w] = "begin"]
        /\ UNCHANGED <<callVars, attempt, load, ctxDone>>
  /\ UNCHANGED <<lifeVars, stats, dbVars>>

(* BulkStoreMetrics opens a transaction, which needs an open database; one *)
(* that is open survives Close.                                            *)
BeginTx(w) ==
  /\ pc[w] = "begin"
  /\ \/ /\ dbOpen /\ ~Cancelled(w)
        /\ pc' = [pc EXCEPT ![w] = "tx"]
     \/ /\ Faults \/ Cancelled(w) \/ ~dbOpen
        /\ pc' = [pc EXCEPT ![w] = AfterFailure(w)]
  /\ UNCHANGED <<callVars, attempt, load, ctxDone, lifeVars, stats, dbVars>>

Plus(rows, batches) == [b \in Batches |-> rows[b] + IF b \in batches THEN 1 ELSE 0]

(* All the rows of the load are committed at once.                         *)
Commit(w) ==
  /\ pc[w] = "tx"
  /\ stored' = Plus(stored, load[w])
  /\ pc' = [pc EXCEPT ![w] = "count"]
  /\ UNCHANGED <<callVars, attempt, load, ctxDone, lifeVars, stats, orphaned, dbOpen>>

(* The transaction is rolled back, or it is committed and the answer lost. *)
TxFailed(w) ==
  /\ pc[w] = "tx"
  /\ Faults \/ Cancelled(w)
  /\ pc' = [pc EXCEPT ![w] = AfterFailure(w)]
  /\ \/ UNCHANGED orphaned
     \/ Faults /\ orphaned' = Plus(orphaned, load[w])
  /\ UNCHANGED <<callVars, attempt, load, ctxDone, lifeVars, stats, stored, dbOpen>>

CountWrite_NoReturn(w) ==   \* the loop goes on after a success
  /\ pc[w] = "count"
  /\ totalDBWrites' = totalDBWrites + Items[load[w]]
  /\ pendingFlushItems' = pendingFlushItems - Items[load[w]]
  /\ pc' = [pc EXCEPT ![w] = AfterFailure(w)]
  /\ UNCHANGED <<callVars, attempt, load, ctxDone, lifeVars, totalRequests,
                 totalDBWriteErrors, dbVars>>

CountWrite_OnePerBatch(w) ==    \* pendingFlushItems -= 1
  /\ pc[w] = "count"
  /\ totalDBWrites' = totalDBWrites + Items[load[w]]
  /\ pendingFlushItems' = pendingFlushItems - 1
  /\ EndWrite(w, "done")
  /\ UNCHANGED <<lifeVars, totalRequests, totalDBWriteErrors, dbVars>>

CountWrite(w) ==
  /\ pc[w] = "count"
  /\ totalDBWrites' = totalDBWrites + Items[load[w]]
  /\ pendingFlushItems' = pendingFlushItems - Items[load[w]]
  /\ EndWrite(w, "done")
  /\ UNCHANGED <<lifeVars, totalRequests, totalDBWriteErrors, dbVars>>

BackOff_SameAttempt(w) ==   \* the attempt is not counted
  /\ pc[w] = "backoff"
  /\ ~Cancelled(w)
  /\ pc' = [pc EXCEPT ![w] = "check"]
  /\ UNCHANGED <<callVars, attempt, load, ctxDone, lifeVars, stats, dbVars>>

BackOff(w) ==
  /\ pc[w] = "backoff"
  /\ \/ /\ Cancelled(w)
        /\ EndWrite(w, "failed")
     \/ /\ pc' = [pc EXCEPT ![w] = "check"]
        /\ attempt' = [attempt EXCEPT ![w] = @ + 1]
        /\ UNCHANGED <<callVars, load, ctxDone>>
  /\ UNCHANGED <<lifeVars, stats, dbVars>>

GiveUp_WorkerLeaves(w) ==   \* flushWorker returns on a write error
  /\ pc[w] = "giveup"
  /\ totalDBWriteErrors' = totalDBWriteErrors + 1
  /\ worker' = IF w = FlushWorker THEN "exited" ELSE worker
  /\ EndWrite(w, "failed")
  /\ UNCHANGED <<helpers, hsCtx, stop, totalRequests, totalDBWrites,
                 pendingFlushItems, dbVars>>

GiveUp(w) ==
  /\ pc[w] = "giveup"
  /\ totalDBWriteErrors' = totalDBWriteErrors + 1
  /\ EndWrite(w, "failed")
  /\ UNCHANGED <<lifeVars, totalRequests, totalDBWrites, pendingFlushItems, dbVars>>

(***************************************************************************)
(* StoreMetricsBulk: the cache, then the write.  Its only caller passes    *)
(* context.Background(), which is never done.                              *)
(***************************************************************************)
StoreMetricsBulk(b) ==
  /\ entry[b] = "new"
  /\ entry' = [entry EXCEPT ![b] = "writing"]
  /\ BeginWrite(b, {b})
  /\ UNCHANGED <<flushQueue, ctxDone, lifeVars, stats, dbVars>>

(***************************************************************************)
(* FlushToDatabase: the queue is collected batch by batch, until it is     *)
(* empty or 5 s have passed, and written at once.                          *)
(***************************************************************************)
FlushBegin(f) ==
  /\ pc[f] = "idle"
  /\ pc' = [pc EXCEPT ![f] = "collect"]
  /\ UNCHANGED <<callVars, attempt, load, ctxDone, lifeVars, stats, dbVars>>

FlushCollect_Overwrites(f) ==  \* allMetrics = metrics
  /\ pc[f] = "collect"
  /\ flushQueue # <<>>
  /\ load' = [load EXCEPT ![f] = {Head(flushQueue)}]
  /\ flushQueue' = Tail(flushQueue)
  /\ UNCHANGED <<entry, pc, attempt, ctxDone, lifeVars, stats, dbVars>>

FlushCollect(f) ==
  /\ pc[f] = "collect"
  /\ flushQueue # <<>>
  /\ load' = [load EXCEPT ![f] = @ \cup {Head(flushQueue)}]
  /\ flushQueue' = Tail(flushQueue)
  /\ UNCHANGED <<entry, pc, attempt, ctxDone, lifeVars, stats, dbVars>>

FlushWrite(f) ==
  /\ pc[f] = "collect"
  /\ IF load[f] = {}
       THEN EndWrite(f, "done")
       ELSE BeginWrite(f, load[f]) /\ UNCHANGED <<callVars, ctxDone>>
  /\ UNCHANGED <<lifeVars, stats, dbVars>>

(***************************************************************************)
(* flushWorker.  When hs.ctx is done and the queue is not empty, its       *)
(* select takes either arm.                                                *)
(***************************************************************************)
WorkerTake ==
  /\ worker \in {"select", "drain"}
  /\ pc[FlushWorker] = "idle"
  /\ flushQueue # <<>>
  /\ flushQueue' = Tail(flushQueue)
  /\ BeginWrite(FlushWorker, {Head(flushQueue)})
  /\ UNCHANGED <<entry, ctxDone, lifeVars, stats, dbVars>>

WorkerDrain_NoArm == FALSE  \* the select has no ctx.Done arm
WorkerDrain ==
  /\ worker = "select"
  /\ pc[FlushWorker] = "idle"
  /\ hsCtx = "cancelled"
  /\ worker' = "drain"
  /\ UNCHANGED <<callVars, writeVars, ctxDone, helpers, hsCtx, stop, stats, dbVars>>

WorkerExit ==
  /\ worker = "drain"
  /\ pc[FlushWorker] = "idle"
  /\ flushQueue = <<>> \/ ctxDone[FlushWorker]
  /\ worker' = "exited"
  /\ UNCHANGED <<callVars, writeVars, ctxDone, helpers, hsCtx, stop, stats, dbVars>>

(* The 3 s of the drain pass, or the caller of FlushToDatabase goes away.  *)
ContextEnds(w) ==
  /\ \/ w = FlushWorker /\ worker = "drain"
     \/ w \in Flushers /\ pc[w] # "idle"
  /\ ctxDone' = [ctxDone EXCEPT ![w] = TRUE]
  /\ UNCHANGED <<callVars, writeVars, lifeVars, stats, dbVars>>

(***************************************************************************)
(* cleanupWorker and periodicFlushWorker leave when hs.ctx is done (the    *)
(* step is that of the last to leave); their ticks touch the cache and the *)
(* log only.                                                               *)
(***************************************************************************)
HelpersExit ==
  /\ helpers
  /\ hsCtx = "cancelled"
  /\ helpers' = FALSE
  /\ UNCHANGED <<callVars, writeVars, ctxDone, worker, hsCtx, stop, stats, dbVars>>

(***************************************************************************)
(* Stop: cancel, then wait for the goroutines or for the caller's context, *)
(* and close the database either way.                                      *)
(***************************************************************************)
StopCancel ==
  /\ stop = "no"
  /\ hsCtx = "live"
  /\ hsCtx' = "cancelled"
  /\ stop' = "waiting"
  /\ UNCHANGED <<callVars, writeVars, ctxDone, worker, helpers, stats, dbVars>>

AllExited_HelpersOnly == ~helpers
AllExited == worker = "exited" /\ ~helpers

StopGraceful ==
  /\ stop = "waiting"
  /\ AllExited
  /\ stop' = "graceful"
  /\ dbOpen' = FALSE
  /\ UNCHANGED <<callVars, writeVars, ctxDone, worker, helpers, hsCtx, stats,
                 stored, orphaned>>

StopTimedOut ==
  /\ stop = "waiting"
  /\ stop' = "timedOut"
  /\ dbOpen' = FALSE
  /\ UNCHANGED <<callVars, writeVars, ctxDone, worker, helpers, hsCtx, stats,
                 stored, orphaned>>

-----------------------------------------------------------------------------
UpdateStep(b) == UpdateCache(b) \/ Enqueue(b) \/ CountUpdate(b)

WriteStep(w) == \/ CheckContext(w) \/ BeginTx(w) \/ Commit(w) \/ TxFailed(w)
                \/ CountWrite(w)   \/ BackOff(w) \/ GiveUp(w)

FlushStep(f) == FlushCollect(f) \/ FlushWrite(f)

WorkerStep == WorkerTake \/ WorkerDrain \/ WorkerExit

Next == \/ Start
        \/ \E b \in QueueBatches : UpdateStep(b)
        \/ \E b \in BulkBatches : StoreMetricsBulk(b)
        \/ \E w \in Writers : WriteStep(w) \/ ContextEnds(w)
        \/ \E f \in Flushers : FlushBegin(f) \/ FlushStep(f)
        \/ WorkerStep
        \/ HelpersExit
        \/ StopCancel
        \/ StopGraceful
        \/ StopTimedOut

(* The service starts the store.  Goroutines that can run do run: a        *)
(* database call returns, one way or the other, and a backoff ends.        *)
(* Nobody has to make a call, stop the store, or lose patience while it    *)
(* stops.                                                                  *)
Fairness == /\ WF_vars(Start)
            /\ \A w \in Writers : WF_vars(WriteStep(w))
            /\ \A f \in Flushers : WF_vars(FlushStep(f))
            /\ WF_vars(WorkerStep)
            /\ WF_vars(HelpersExit)
            /\ WF_vars(StopGraceful)

Spec     == Init /\ [][Next]_vars
FairSpec == Spec /\ Fairness

-----------------------------------------------------------------------------
(* Type invariant: the channel keeps its capacity, the loop of             *)
(* writeToDatabase its bound, and only writers at work have a load.        *)
TypeOK ==
  /\ flushQueue \in Seq(QueueBatches) /\ Len(flushQueue) <= QueueCap
  /\ entry \in [Batches -> EntryStates]
  /\ pc \in [Writers -> WriterStates]
  /\ attempt \in [Writers -> 1..MaxRetries]
  /\ load \in [Writers -> SUBSET Batches]
  /\ ctxDone \in [Writers -> BOOLEAN]
  /\ worker \in WorkerStates
  /\ helpers \in BOOLEAN
  /\ hsCtx \in {"nil", "live", "cancelled"}
  /\ stop \in {"no", "waiting", "graceful", "timedOut"}
  /\ totalRequests \in Nat /\ totalDBWrites \in Nat /\ totalDBWriteErrors \in Nat
  /\ pendingFlushItems \in Int
  /\ stored \in [Batches -> Nat]
  /\ orphaned \in [Batches -> Nat]
  /\ dbOpen \in BOOLEAN

Accepted == {"sent", "accepted"}

(* A batch is in one place at most - once in the queue or with one writer, *)
(* flushWorker and FlushToDatabase draining the same channel - and a batch *)
(* with an acknowledged commit is there only to be counted.                *)
QueueOwned ==
  \A i \in 1..Len(flushQueue) :
    /\ entry[flushQueue[i]] \in Accepted
    /\ stored[flushQueue[i]] = 0
    /\ \A j \in 1..Len(flushQueue) : flushQueue[i] = flushQueue[j] => i = j
    /\ \A w \in Writers : flushQueue[i] \notin load[w]

LoadOwned ==
  \A w \in Writers : \A b \in load[w] :
    /\ entry[b] \in Accepted \cup {"writing"}
    /\ stored[b] = IF pc[w] = "count" THEN 1 ELSE 0
    /\ \A v \in Writers : b \in load[v] => v = w

BulkOwned ==
  \A b \in BulkBatches : /\ entry[b] = "writing" <=> pc[b] # "idle"
                         /\ pc[b] # "idle" => load[b] = {b}

IdleUnloaded == \A w \in Writers : pc[w] = "idle" => load[w] = {}

OwnedOnce == QueueOwned /\ LoadOwned /\ BulkOwned /\ IdleUnloaded

(* However often a write is retried, the database acknowledges a batch     *)
(* once, and each further copy of its rows cost an attempt whose answer    *)
(* was lost: a batch is never written again after it was acknowledged.     *)
StoredOnce ==
  \A b \in Batches : /\ stored[b] <= 1
                     /\ stored[b] + orphaned[b] <= MaxRetries

(* totalDBWrites and pendingFlushItems agree with the database and the     *)
(* calls: written items are those of acknowledged batches, and each item   *)
(* enqueued is counted as pending until it is written.  Nothing takes an   *)
(* item whose write failed off pendingFlushItems, and bulk writes lower    *)
(* it, so it is no measure of the queue.                                   *)
Acknowledged == {b \in Batches : stored[b] > 0}
Uncounted    == UNION {load[w] : w \in {v \in Writers : pc[v] = "count"}}

StatsAgree ==
  /\ totalDBWrites = Items[Acknowledged \ Uncounted]
  /\ pendingFlushItems + totalDBWrites
       = Items[{b \in QueueBatches : entry[b] = "accepted"}]

(* A batch is lost when the call that brought it got nil and no trace of   *)
(* it is left: not queued, not with a writer, not in the database.         *)
Queued(b) == \E i \in 1..Len(flushQueue) : flushQueue[i] = b
Held(b)   == \E w \in Writers : b \in load[w]
InDB(b)   == stored[b] + orphaned[b] > 0
Lost(b)   == entry[b] \in Accepted /\ ~Queued(b) /\ ~Held(b) /\ ~InDB(b)

(* While the store runs, no accepted batch disappears unreported: the step *)
(* that loses it counts a write error, or it ends a FlushToDatabase whose  *)
(* own context is done, which returns the error.                           *)
LossIsReported ==
  [][ \A b \in QueueBatches : ~Lost(b) /\ Lost(b)' =>
        \/ totalDBWriteErrors' = totalDBWriteErrors + 1
        \/ hsCtx = "cancelled"
        \/ \E f \in Flushers : ctxDone[f] /\ b \in load[f] ]_vars

(* The database is closed under a goroutine of the store only when Stop    *)
(* lost patience: after a graceful stop none of them is left, and          *)
(* flushWorker is not in the middle of a write.                            *)
GracefulStopIsQuiet ==
  stop = "graceful" => /\ worker = "exited" /\ ~helpers
                       /\ pc[FlushWorker] = "idle"

(* Neither does anything else that goes wrong: as long as nobody has       *)
(* called Stop, flushWorker is in its loop and the helpers run.            *)
WorkerStays == hsCtx = "live" => worker = "select" /\ helpers

(* A failing database does not stop the worker: while the store runs, a    *)
(* batch does not stay in the queue for ever.                              *)
BacklogDrains ==
  \A b \in QueueBatches : Queued(b) ~> (~Queued(b) \/ hsCtx = "cancelled")

(* What a write has before it at most: four steps for each attempt it has  *)
(* left, and those left of the attempt it is in.                           *)
Left(w) == 4 * (MaxRetries - attempt[w])
             + CASE pc[w] = "check" -> 3
                 [] pc[w] = "begin" -> 2
                 [] pc[w] = "tx"    -> 1
                 [] OTHER -> 0

(* Retries use a write up: each step of it ends it or lowers the number of *)
(* steps it has left, which starts below 4 * MaxRetries and is never       *)
(* negative, whatever the database, the contexts and Stop do meanwhile.    *)
WritesShrink ==
  [][ \A w \in Writers :
        /\ pc[w] \notin {"idle", "collect"}
        /\ pc'[w] # pc[w] \/ attempt'[w] # attempt[w]
        => \/ pc'[w] = "idle"
           \/ Left(w)' < Left(w) /\ Left(w)' \in 0..(4 * MaxRetries - 1) ]_vars

(* Every write ends: retries are bounded even if each attempt fails.       *)
WritesEnd == \A w \in Writers : pc[w] = "check" ~> pc[w] = "idle"

(* Stop ends without help from its context: the worker and the helpers     *)
(* notice hs.ctx, whatever the database does.                              *)
StopReturns == stop = "waiting" ~> stop \in {"graceful", "timedOut"}

(* "Flush remaining items before shutdown" (hybrid.go:444): with a working *)
(* database and time left for the drain, a batch whose call returned       *)
(* before Stop has not vanished when Stop returns gracefully.              *)
FlushedAtShutdown ==
  \A b \in QueueBatches :
    [](entry[b] = "accepted" /\ hsCtx = "live"
         => [](stop = "graceful" /\ ~ctxDone[FlushWorker] => ~Lost(b)))

(***************************************************************************)
(* The store implements DurableSink.                                       *)
(***************************************************************************)
StatusOf(b) ==
  CASE InDB(b) -> "durable"
    [] ~InDB(b) /\ entry[b] \in {"new", "cached"} -> "new"
    [] ~InDB(b) /\ entry[b] \in {"rejected", "full", "dropped"} -> "refused"
    [] ~InDB(b) /\ (Queued(b) \/ Held(b)) -> "pending"
    [] OTHER -> "lost"

Sink == INSTANCE DurableSink WITH status <- [b \in Batches |-> StatusOf(b)]

(* A batch is stored or lost once and for all, as DurableSink promises:    *)
(* two readers of the queue, retries, lost answers and a shutdown do not   *)
(* bring a lost or refused batch back, nor split the batches of a write.   *)
ImplementsSink == Sink!Spec
=============================================================================
