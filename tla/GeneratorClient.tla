-------------------------- MODULE GeneratorClient --------------------------
(***************************************************************************)
(* The polling client (internal/telemetry/client/generator_client.go): one *)
(* goroutine, pollingWorker, fetches /counters at every tick, drops what   *)
(* it takes for a duplicate, registers the switches and ingests the rows.  *)
(*                                                                         *)
(* Stop holds gc.mu while it waits up to 2 s for the worker, so every step *)
(* of the worker that needs gc.mu waits for Stop in turn.  What the server *)
(* answers is the parameter of the action Fetch; how IngestBatch stores    *)
(* the rows is in HybridStore, here it succeeds or fails.  Timers and      *)
(* tickers may fire at any moment.                                         *)
(***************************************************************************)
EXTENDS Naturals, FiniteSets

CONSTANTS Generations,  \* what an id, a timestamp or rows may belong to
          NoHeader,     \* header absent: "" and the zero time
          MaxPolls      \* bound on the polls begun

ASSUME MaxPollsAssumption == MaxPolls \in Nat \ {0}
ASSUME GenerationsAssumption == Generations \subseteq Nat \ {NoHeader} /\ NoHeader = 0

VARIABLES running,      \* gc.running
          ctx,          \* gc.ctx: nil, live or cancelled
          pc,           \* where pollingWorker is
          reply,        \* what the poll in hand fetched
          lastGenerationID, lastDataTimestamp,      \* deduplication tracking
          totalPolls, successfulPolls, duplicateSkips, errorCount,
          stop,         \* where the goroutine that calls Stop is
          ingested      \* successful IngestBatch calls per generation

statVars   == <<totalPolls, successfulPolls, duplicateSkips, errorCount>>
trackVars  == <<lastGenerationID, lastDataTimestamp>>
lifeVars   == <<running, ctx, stop>>
clientVars == <<lifeVars, pc, reply, trackVars, statVars, ingested>>

Replies == [id : Generations \cup {NoHeader}, time : Generations \cup {NoHeader},
            rows : Generations]
NoReply == [id |-> NoHeader, time |-> NoHeader, rows |-> NoHeader]

(* The worker outside a poll and inside one.                               *)
Outside   == {"none", "delay", "readiness", "select", "begin", "exited"}
InPoll    == {"fetch", "error", "check", "duplicate", "parse", "ingest", "track"}

ClientInit ==
  /\ running = FALSE
  /\ ctx = "nil"
  /\ pc = "none"
  /\ reply = NoReply
  /\ lastGenerationID = NoHeader
  /\ lastDataTimestamp = NoHeader
  /\ totalPolls = 0
  /\ successfulPolls = 0
  /\ duplicateSkips = 0
  /\ errorCount = 0
  /\ stop = "no"
  /\ ingested = [g \in Generations |-> 0]

(* gc.mu is free for the worker.                                           *)
MuFree == stop # "waiting"

Goto(place) == pc' = place

(***************************************************************************)
(* Start.  The application starts the client once.                         *)
(***************************************************************************)
Start ==
  /\ ~running
  /\ ctx = "nil"
  /\ running' = TRUE
  /\ ctx' = "live"
  /\ Goto("delay")
  /\ UNCHANGED <<stop, reply, trackVars, statVars, ingested>>

(***************************************************************************)
(* pollingWorker up to its loop: the startup delay ends or the context     *)
(* does; the readiness check only logs, whatever it finds.                 *)
(***************************************************************************)
StartupDelay ==
  /\ pc = "delay"
  /\ Goto("readiness") \/ (ctx = "cancelled" /\ Goto("exited"))
  /\ UNCHANGED <<lifeVars, reply, trackVars, statVars, ingested>>

CheckReadiness ==
  /\ pc = "readiness"
  /\ Goto("begin")
  /\ UNCHANGED <<lifeVars, reply, trackVars, statVars, ingested>>

WorkerExit_NoArm == FALSE   \* the select has no ctx.Done arm
WorkerExit ==
  /\ pc = "select"
  /\ ctx = "cancelled"
  /\ Goto("exited")
  /\ UNCHANGED <<lifeVars, reply, trackVars, statVars, ingested>>

(* A tick; the first poll needs none.                                      *)
Tick ==
  /\ pc = "select"
  /\ totalPolls < MaxPolls
  /\ Goto("begin")
  /\ UNCHANGED <<lifeVars, reply, trackVars, statVars, ingested>>

BeginPoll ==
  /\ pc = "begin"
  /\ MuFree
  /\ totalPolls' = totalPolls + 1
  /\ Goto("fetch")
  /\ UNCHANGED <<lifeVars, reply, trackVars, successfulPolls, duplicateSkips,
                 errorCount, ingested>>

(***************************************************************************)
(* fetchAndProcessData.  Fetch is the moment at which the server answers a *)
(* request that succeeds; one that meets a dead server, an error status,   *)
(* the timeout or the end of the context fails.                            *)
(***************************************************************************)
Fetch(answer) ==
  /\ pc = "fetch"
  /\ ctx = "live"
  /\ reply' = answer
  /\ Goto("check")
  /\ UNCHANGED <<lifeVars, trackVars, statVars, ingested>>

FetchFails ==
  /\ pc = "fetch"
  /\ Goto("error")
  /\ UNCHANGED <<lifeVars, reply, trackVars, statVars, ingested>>

(* The poll ends: the reply is forgotten, the worker is at its select.     *)
EndPoll == Goto("select") /\ reply' = NoReply

CountError_Forgotten ==    \* one of the error returns does not count
  /\ pc = "error"
  /\ MuFree
  /\ EndPoll
  /\ UNCHANGED <<lifeVars, trackVars, statVars, ingested>>

CountError ==
  /\ pc = "error"
  /\ MuFree
  /\ errorCount' = errorCount + 1
  /\ EndPoll
  /\ UNCHANGED <<lifeVars, trackVars, totalPolls, successfulPolls,
                 duplicateSkips, ingested>>

(* Without the header the timestamp is that of the first row.              *)
DataTimestamp == IF reply.time # NoHeader THEN reply.time ELSE reply.rows

isDuplicateData_IDFirst ==   \* timestamps count only if there is no ID
  IF reply.id # NoHeader THEN reply.id = lastGenerationID
    ELSE DataTimestamp # NoHeader /\ DataTimestamp <= lastDataTimestamp

isDuplicateData ==
  \/ reply.id # NoHeader /\ reply.id = lastGenerationID
  \/ DataTimestamp # NoHeader /\ DataTimestamp <= lastDataTimestamp

CheckDuplicate ==
  /\ pc = "check"
  /\ MuFree
  /\ Goto(IF isDuplicateData THEN "duplicate" ELSE "parse")
  /\ UNCHANGED <<lifeVars, reply, trackVars, statVars, ingested>>

CountDuplicate ==
  /\ pc = "duplicate"
  /\ MuFree
  /\ duplicateSkips' = duplicateSkips + 1
  /\ EndPoll
  /\ UNCHANGED <<lifeVars, trackVars, totalPolls, successfulPolls, errorCount,
                 ingested>>

(* A body that is cut short or has no rows fails to parse.                 *)
ParseCSVData ==
  /\ pc = "parse"
  /\ Goto("ingest") \/ Goto("error")
  /\ UNCHANGED <<lifeVars, reply, trackVars, statVars, ingested>>

IngestBatch_TracksFailure ==    \* the data count as seen although they failed
  /\ pc = "ingest"
  /\ \/ /\ ingested' = [ingested EXCEPT ![reply.rows] = @ + 1]
        /\ Goto("track")
        /\ UNCHANGED lastDataTimestamp
     \/ /\ lastDataTimestamp' = DataTimestamp
        /\ Goto("error")
        /\ UNCHANGED ingested
  /\ UNCHANGED <<lifeVars, reply, lastGenerationID, statVars>>

(* registerSwitchesFromData logs its failures; rows of an unregistered     *)
(* switch then make IngestBatch fail.                                      *)
IngestBatch ==
  /\ pc = "ingest"
  /\ \/ /\ ingested' = [ingested EXCEPT ![reply.rows] = @ + 1]
        /\ Goto("track")
     \/ /\ Goto("error")
        /\ UNCHANGED ingested
  /\ UNCHANGED <<lifeVars, reply, trackVars, statVars>>

UpdateTracking_IDOnly ==    \* lastDataTimestamp is not updated
  /\ pc = "track"
  /\ MuFree
  /\ lastGenerationID' = reply.id
  /\ successfulPolls' = successfulPolls + 1
  /\ EndPoll
  /\ UNCHANGED <<lifeVars, lastDataTimestamp, totalPolls, duplicateSkips,
                 errorCount, ingested>>

UpdateTracking ==
  /\ pc = "track"
  /\ MuFree
  /\ lastGenerationID' = reply.id
  /\ lastDataTimestamp' = DataTimestamp
  /\ successfulPolls' = successfulPolls + 1
  /\ EndPoll
  /\ UNCHANGED <<lifeVars, totalPolls, duplicateSkips, errorCount, ingested>>

(***************************************************************************)
(* Stop, called once: cancel, then wait under the lock.                    *)
(***************************************************************************)
Stop ==
  /\ running
  /\ running' = FALSE
  /\ ctx' = "cancelled"
  /\ stop' = "waiting"
  /\ UNCHANGED <<pc, reply, trackVars, statVars, ingested>>

StopGraceful_NotAwaited ==  \* wg.Wait without wg.Add
  /\ stop = "waiting"
  /\ stop' = "graceful"
  /\ UNCHANGED <<running, ctx, pc, reply, trackVars, statVars, ingested>>

StopGraceful ==
  /\ stop = "waiting"
  /\ pc = "exited"
  /\ stop' = "graceful"
  /\ UNCHANGED <<running, ctx, pc, reply, trackVars, statVars, ingested>>

StopTimedOut_NoTimer == FALSE   \* the select has no time.After arm
StopTimedOut ==
  /\ stop = "waiting"
  /\ stop' = "timedOut"
  /\ UNCHANGED <<running, ctx, pc, reply, trackVars, statVars, ingested>>

-----------------------------------------------------------------------------
StartupStep == StartupDelay \/ CheckReadiness
PollStep == \/ FetchFails \/ CountError \/ CheckDuplicate \/ CountDuplicate
            \/ ParseCSVData \/ IngestBatch \/ UpdateTracking
=============================================================================
