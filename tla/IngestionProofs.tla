-------------------------- MODULE IngestionProofs --------------------------
(***************************************************************************)
(* Theorems about Ingestion, for any number of generations and polls, and  *)
(* for answers with or without headers.                                    *)
(*                                                                         *)
(* The argument: the rows in hand are the data that were served at the     *)
(* fetch, and what is served never goes back behind what was ingested, not *)
(* even after a restart, since a new generation is later than every old    *)
(* one (Monotone).  So rows that pass the duplicate check are newer than   *)
(* all that was ingested, and rows that the timestamp stops are the last   *)
(* ones ingested (Recent).                                                 *)
(***************************************************************************)
EXTENDS Ingestion, TLAPS

(* A reply is in hand between the fetch and the end of the poll.           *)
InHand == {"check", "duplicate", "parse", "ingest", "track"}

(* Types, with what keeps the bounds: polls are begun below the bound, and *)
(* a reply is an answer of the generator.                                  *)
Typed ==
  /\ TypeOK
  /\ generating => generationID = clock
  /\ ctx = "nil" => pc = "none"
  /\ pc \in {"none", "delay", "readiness"} => totalPolls = 0
  /\ pc = "begin" => totalPolls < MaxPolls
  /\ reply.id <= clock /\ reply.time <= clock /\ reply.rows <= clock
  /\ pc \in InHand =>
       reply \in Replies /\ reply.time \in {NoHeader, reply.rows}

(* What is served, and what is in hand, is not behind the tracking.        *)
Monotone ==
  /\ dataCache # NoData => /\ lastDataTimestamp <= dataCache
                           /\ pc \in InHand => reply.rows <= dataCache
  /\ pc \in InHand => lastDataTimestamp <= reply.rows

(* The tracking is the newest generation ingested, but for one that is     *)
(* about to be tracked.                                                    *)
Recent ==
  /\ lastDataTimestamp # NoHeader => lastDataTimestamp \in Ingested
  /\ \A g \in Ingested :
       g <= lastDataTimestamp \/ (pc = "track" /\ g = reply.rows)
  /\ pc \in {"parse", "ingest", "track"} => lastDataTimestamp < reply.rows
  /\ pc = "track" => reply.rows \in Ingested

IInv == Typed /\ Monotone /\ Recent

(* A Stop that has begun is not followed by a Start.                       *)
Stopped == /\ stop # "no" => ~running /\ ctx = "cancelled"
           /\ stop = "graceful" => pc = "exited"

-----------------------------------------------------------------------------
(* The generations are the instants, and no instant is the zero time.      *)
LEMMA Constants ==
  /\ MaxGenerations \in Nat \ {0} /\ MaxPolls \in Nat \ {0}
  /\ Generations = 1..MaxGenerations /\ NoHeader = 0 /\ NoData = 0
BY MaxGenerationsAssumption, MaxPollsAssumption, GenerationsAreInstants
   DEF NoData

(* The initial state is well typed.                                        *)
LEMMA TypedInit == Init => Typed
<1> SUFFICES ASSUME Init PROVE Typed
  OBVIOUS
<1> USE Constants DEF Init, GenInit, ClientInit
<1>1. ingested \in [Generations -> Nat]
  OBVIOUS
<1>2. reply \in Replies \cup {NoReply}
  OBVIOUS
<1>3. reply.id <= clock /\ reply.time <= clock /\ reply.rows <= clock
  BY DEF NoReply
<1>4. TypeOK
  <2>1. /\ clock = 0 /\ generationID = 0 /\ dataCache = 0 /\ pc = "none"
        /\ generating = FALSE /\ serving = FALSE /\ running = FALSE
        /\ ctx = "nil"
        /\ lastGenerationID = 0 /\ lastDataTimestamp = 0 /\ stop = "no"
        /\ totalPolls = 0 /\ successfulPolls = 0 /\ duplicateSkips = 0
        /\ errorCount = 0
    OBVIOUS
  <2> HIDE DEF Init, GenInit, ClientInit, Replies
  <2>2. /\ generating \in BOOLEAN /\ serving \in BOOLEAN /\ running \in BOOLEAN
        /\ ctx \in {"nil", "live", "cancelled"} /\ pc \in Outside \cup InPoll
        /\ stop \in {"no", "waiting", "graceful", "timedOut"}
    BY <2>1 DEF Outside
  <2>3. /\ clock \in 0..MaxGenerations /\ generationID \in 0..clock
        /\ dataCache \in 0..generationID /\ lastGenerationID \in 0..clock
        /\ lastDataTimestamp \in 0..clock /\ totalPolls \in 0..MaxPolls
        /\ successfulPolls \in Nat /\ duplicateSkips \in Nat
        /\ errorCount \in Nat
    BY <2>1
  <2> QED
    BY <1>1, <1>2, <2>2, <2>3 DEF TypeOK
<1> QED
  BY <1>3, <1>4 DEF Typed, InHand

(* Every step keeps the types.                                             *)
LEMMA TypedStep == Typed /\ [Next]_vars => Typed'
<1> SUFFICES ASSUME Typed, [Next]_vars PROVE Typed'
  OBVIOUS
<1> USE Constants DEF Typed, TypeOK, Outside, InPoll, InHand, NoReply, Replies,
                      genVars, clientVars, lifeVars, trackVars, statVars,
                      Goto, EndPoll
<1>1. CASE BeginGeneration /\ UNCHANGED clientVars
  BY <1>1 DEF BeginGeneration
<1>2. CASE PublishGeneration /\ UNCHANGED clientVars
  <2>1. UNCHANGED <<ctx, stop, running, pc, reply, totalPolls, successfulPolls,
                    duplicateSkips, errorCount, lastGenerationID,
                    lastDataTimestamp, ingested>>
    BY <1>2
  <2>2. /\ clock' = clock /\ generating' \in BOOLEAN /\ serving' \in BOOLEAN
        /\ generationID' \in 0..clock /\ dataCache' \in 0..generationID'
        /\ generating' => generationID' = clock
    BY <1>2 DEF PublishGeneration
  <2> HIDE DEF Replies, NoReply, Outside, InPoll
  <2> QED
    BY <2>1, <2>2
<1>3. CASE Restart /\ UNCHANGED clientVars
  <2>1. UNCHANGED <<ctx, stop, running, pc, reply, totalPolls, successfulPolls,
                    duplicateSkips, errorCount, lastGenerationID,
                    lastDataTimestamp, ingested>>
    BY <1>3
  <2>2. /\ clock' = clock /\ ~generating' /\ generating' \in BOOLEAN
        /\ serving' \in BOOLEAN /\ generationID' = 0 /\ dataCache' = 0
    BY <1>3 DEF Restart
  <2> HIDE DEF Replies, NoReply, Outside, InPoll
  <2> QED
    BY <2>1, <2>2
<1>4. CASE Start /\ UNCHANGED genVars
  BY <1>4 DEF Start
<1>5. CASE StartupDelay /\ UNCHANGED genVars
  BY <1>5 DEF StartupDelay
<1>6. CASE CheckReadiness /\ UNCHANGED genVars
  BY <1>6 DEF CheckReadiness
<1>7. CASE Tick /\ UNCHANGED genVars
  BY <1>7 DEF Tick
<1>8. CASE BeginPoll /\ UNCHANGED genVars
  BY <1>8 DEF BeginPoll
<1>9. CASE FetchCounters /\ UNCHANGED genVars
  <2>1. PICK h \in Headers : Fetch(IF h THEN handleCounters
                                     ELSE [handleCounters EXCEPT
                                             !.id = NoHeader,
                                             !.time = NoHeader])
    BY <1>9 DEF FetchCounters, Answers
  <2>2. /\ reply'.id \in {NoHeader, generationID}
        /\ reply'.time \in {NoHeader, dataCache} /\ reply'.rows = dataCache
        /\ reply' \in [id : {NoHeader, generationID},
                       time : {NoHeader, dataCache},
                       rows : {dataCache}]
    BY <2>1 DEF Fetch, handleCounters
  <2>3. dataCache \in Generations /\ generationID \in Generations
    BY <1>9 DEF FetchCounters, CountersReady
  <2>4. reply' \in Replies
    BY <2>2, <2>3
  <2> HIDE DEF Replies, NoReply
  <2> QED
    BY <1>9, <2>1, <2>2, <2>3, <2>4 DEF Fetch
<1>10. CASE FetchFails /\ UNCHANGED genVars
  BY <1>10 DEF FetchFails
<1>11. CASE CountError /\ UNCHANGED genVars
  BY <1>11 DEF CountError
<1>12. CASE CheckDuplicate /\ UNCHANGED genVars
  BY <1>12 DEF CheckDuplicate
<1>13. CASE CountDuplicate /\ UNCHANGED genVars
  BY <1>13 DEF CountDuplicate
<1>14. CASE ParseCSVData /\ UNCHANGED genVars
  BY <1>14 DEF ParseCSVData
<1>15. CASE IngestBatch /\ UNCHANGED genVars
  BY <1>15 DEF IngestBatch
<1>16. CASE UpdateTracking /\ UNCHANGED genVars
  BY <1>16 DEF UpdateTracking, DataTimestamp
<1>17. CASE WorkerExit /\ UNCHANGED genVars
  BY <1>17 DEF WorkerExit
<1>18. CASE Stop /\ UNCHANGED genVars
  BY <1>18 DEF Stop
<1>19. CASE StopGraceful /\ UNCHANGED genVars
  BY <1>19 DEF StopGraceful
<1>20. CASE StopTimedOut /\ UNCHANGED genVars
  BY <1>20 DEF StopTimedOut
<1>21. CASE UNCHANGED vars
  BY <1>21 DEF vars
<1> HIDE DEF Typed, TypeOK
<1> QED
  BY <1>1, <1>2, <1>3, <1>4, <1>5, <1>6, <1>7, <1>8, <1>9, <1>10, <1>11,
       <1>12, <1>13, <1>14, <1>15, <1>16, <1>17, <1>18, <1>19, <1>20, <1>21
    DEF Next, GenNext, ClientNext, Worker, StartupStep, PollStep

(* With the header or without, the timestamp of a reply is that of its     *)
(* rows.                                                                   *)
LEMMA TimestampOfRows ==
  ASSUME Typed, pc \in InHand
  PROVE  /\ DataTimestamp = reply.rows
         /\ reply.rows \in Generations /\ reply.rows \in Nat \ {0}
<1>1. reply.rows \in Generations /\ reply.time \in {0, reply.rows}
  BY Constants DEF Typed, Replies
<1> QED
  BY <1>1, Constants DEF DataTimestamp

(* A fetch brings the rows that are served.                                *)
LEMMA FetchedRows ==
  ASSUME FetchCounters
  PROVE  reply'.rows = dataCache /\ dataCache # NoData /\ pc' = "check"
<1>1. PICK h \in Headers : Fetch(IF h THEN handleCounters
                                     ELSE [handleCounters EXCEPT
                                             !.id = NoHeader,
                                             !.time = NoHeader])
  BY DEF FetchCounters, Answers
<1> QED
  BY <1>1 DEF FetchCounters, CountersReady, handleCounters, Fetch, Goto

(* Steps of the generator never take the served data behind the tracking,  *)
(* and steps of the client track what was served.                          *)
LEMMA MonotoneStep == Typed /\ Monotone /\ [Next]_vars => Monotone'
<1> SUFFICES ASSUME Typed, Monotone, [Next]_vars PROVE Monotone'
  OBVIOUS
<1>t. /\ clock \in Nat /\ lastDataTimestamp \in 0..clock
      /\ dataCache \in 0..clock
      /\ reply.rows \in 0..clock /\ generationID \in Nat
  <2>1. reply.rows \in Nat
    BY Constants DEF Typed, TypeOK, Replies, NoReply
  <2> QED
    BY <2>1, Constants DEF Typed, TypeOK
<1> USE Constants DEF Monotone, InHand, genVars, clientVars, lifeVars,
                      trackVars, statVars, Goto, EndPoll
<1>1. CASE BeginGeneration /\ UNCHANGED clientVars
  BY <1>1 DEF BeginGeneration
<1>2. CASE PublishGeneration /\ UNCHANGED clientVars
  BY <1>2, <1>t DEF PublishGeneration
<1>3. CASE Restart /\ UNCHANGED clientVars
  BY <1>3 DEF Restart
<1>4. CASE Start /\ UNCHANGED genVars
  BY <1>4 DEF Start
<1>5. CASE StartupDelay /\ UNCHANGED genVars
  BY <1>5 DEF StartupDelay
<1>6. CASE CheckReadiness /\ UNCHANGED genVars
  BY <1>6 DEF CheckReadiness
<1>7. CASE Tick /\ UNCHANGED genVars
  BY <1>7 DEF Tick
<1>8. CASE BeginPoll /\ UNCHANGED genVars
  BY <1>8 DEF BeginPoll
<1>9. CASE FetchCounters /\ UNCHANGED genVars
  BY <1>9, <1>t, FetchedRows DEF FetchCounters, Fetch
<1>10. CASE FetchFails /\ UNCHANGED genVars
  BY <1>10 DEF FetchFails
<1>11. CASE CountError /\ UNCHANGED genVars
  BY <1>11 DEF CountError
<1>12. CASE CheckDuplicate /\ UNCHANGED genVars
  BY <1>12 DEF CheckDuplicate
<1>13. CASE CountDuplicate /\ UNCHANGED genVars
  BY <1>13 DEF CountDuplicate
<1>14. CASE ParseCSVData /\ UNCHANGED genVars
  BY <1>14 DEF ParseCSVData
<1>15. CASE IngestBatch /\ UNCHANGED genVars
  BY <1>15 DEF IngestBatch
<1>16. CASE UpdateTracking /\ UNCHANGED genVars
  <2>1. DataTimestamp = reply.rows
    BY <1>16, TimestampOfRows DEF UpdateTracking
  <2> QED
    BY <1>16, <1>t, <2>1 DEF UpdateTracking
<1>17. CASE WorkerExit /\ UNCHANGED genVars
  BY <1>17 DEF WorkerExit
<1>18. CASE Stop /\ UNCHANGED genVars
  BY <1>18 DEF Stop
<1>19. CASE StopGraceful /\ UNCHANGED genVars
  BY <1>19 DEF StopGraceful
<1>20. CASE StopTimedOut /\ UNCHANGED genVars
  BY <1>20 DEF StopTimedOut
<1>21. CASE UNCHANGED vars
  BY <1>21 DEF vars
<1> HIDE DEF Monotone
<1> QED
  BY <1>1, <1>2, <1>3, <1>4, <1>5, <1>6, <1>7, <1>8, <1>9, <1>10, <1>11,
       <1>12, <1>13, <1>14, <1>15, <1>16, <1>17, <1>18, <1>19, <1>20, <1>21
    DEF Next, GenNext, ClientNext, Worker, StartupStep, PollStep

(* No step ingests what is not newer than the tracking, or tracks what was *)
(* not ingested.                                                           *)
LEMMA RecentStep == Typed /\ Recent /\ [Next]_vars => Recent'
<1> SUFFICES ASSUME Typed, Recent, [Next]_vars PROVE Recent'
  OBVIOUS
<1>t. /\ lastDataTimestamp \in Nat /\ reply.rows \in Nat
      /\ Generations \subseteq Nat /\ ingested \in [Generations -> Nat]
  <2>1. reply.rows \in Nat
    BY Constants DEF Typed, TypeOK, Replies, NoReply
  <2> QED
    BY <2>1, Constants DEF Typed, TypeOK
<1>n. ctx = "nil" => pc = "none"
  BY DEF Typed
<1>r. pc \in InHand => DataTimestamp = reply.rows /\ reply.rows \in Generations
  BY TimestampOfRows
<1> USE Constants DEF Recent, Ingested, InHand, genVars, clientVars, lifeVars,
                      trackVars, statVars, Goto, EndPoll
<1>1. CASE GenNext /\ UNCHANGED clientVars
  BY <1>1
<1>2. CASE Start /\ UNCHANGED genVars
  BY <1>2, <1>n DEF Start
<1>3. CASE StartupDelay /\ UNCHANGED genVars
  BY <1>3 DEF StartupDelay
<1>4. CASE CheckReadiness /\ UNCHANGED genVars
  BY <1>4 DEF CheckReadiness
<1>5. CASE Tick /\ UNCHANGED genVars
  BY <1>5 DEF Tick
<1>6. CASE BeginPoll /\ UNCHANGED genVars
  BY <1>6 DEF BeginPoll
<1>7. CASE FetchCounters /\ UNCHANGED genVars
  BY <1>7, FetchedRows DEF FetchCounters, Fetch
<1>8. CASE FetchFails /\ UNCHANGED genVars
  BY <1>8 DEF FetchFails
<1>9. CASE CountError /\ UNCHANGED genVars
  BY <1>9 DEF CountError
<1>10. CASE CheckDuplicate /\ UNCHANGED genVars
  BY <1>10, <1>t, <1>r DEF CheckDuplicate, isDuplicateData
<1>11. CASE CountDuplicate /\ UNCHANGED genVars
  BY <1>11 DEF CountDuplicate
<1>12. CASE ParseCSVData /\ UNCHANGED genVars
  BY <1>12 DEF ParseCSVData
<1>13. CASE IngestBatch /\ UNCHANGED genVars
  <2>1. CASE pc' = "track"
    <3>1. ingested' = [ingested EXCEPT ![reply.rows] = @ + 1]
      BY <1>13, <2>1 DEF IngestBatch
    <3>2. Ingested' = Ingested \cup {reply.rows}
      BY <1>13, <3>1, <1>t, <1>r DEF IngestBatch
    <3> QED
      BY <1>13, <2>1, <3>2 DEF IngestBatch
  <2>2. CASE pc' = "error"
    BY <1>13, <2>2 DEF IngestBatch
  <2> QED
    BY <1>13, <2>1, <2>2 DEF IngestBatch
<1>14. CASE UpdateTracking /\ UNCHANGED genVars
  BY <1>14, <1>t, <1>r DEF UpdateTracking
<1>15. CASE WorkerExit /\ UNCHANGED genVars
  BY <1>15 DEF WorkerExit
<1>16. CASE Stop /\ UNCHANGED genVars
  BY <1>16 DEF Stop
<1>17. CASE StopGraceful /\ UNCHANGED genVars
  BY <1>17 DEF StopGraceful
<1>18. CASE StopTimedOut /\ UNCHANGED genVars
  BY <1>18 DEF StopTimedOut
<1>19. CASE UNCHANGED vars
  BY <1>19 DEF vars
<1> HIDE DEF Recent
<1> QED
  BY <1>1, <1>2, <1>3, <1>4, <1>5, <1>6, <1>7, <1>8, <1>9, <1>10, <1>11,
       <1>12, <1>13, <1>14, <1>15, <1>16, <1>17, <1>18, <1>19
    DEF Next, GenNext, ClientNext, Worker, StartupStep, PollStep

(* The invariant holds throughout.                                         *)
LEMMA IInvInductive == Spec => []IInv
<1>1. Init => IInv
  <2>1. Init => Monotone /\ Recent
    BY Constants DEF Init, GenInit, ClientInit, Monotone, Recent, InHand,
         Ingested
  <2> QED
    BY <2>1, TypedInit DEF IInv
<1>2. IInv /\ [Next]_vars => IInv'
  BY TypedStep, MonotoneStep, RecentStep DEF IInv
<1> QED
  BY <1>1, <1>2, PTL DEF Spec

-----------------------------------------------------------------------------
(* The generator and the client keep their types for any bounds.           *)
THEOREM TypeCorrect == Spec => []TypeOK
<1>1. IInv => TypeOK
  BY DEF IInv, Typed
<1> QED
  BY <1>1, IInvInductive, PTL

(* Rows are ingested in the order in which they were generated, each once: *)
(* those about to be ingested are newer than all that was.                 *)
THEOREM InOrder == Spec => IngestedInOrder
<1>1. ASSUME IInv, [Next]_vars, NEW g \in Generations,
        ingested'[g] # ingested[g],
             NEW h \in Ingested
      PROVE  h < g
  <2>1. CASE IngestBatch
    <3>1. pc = "ingest" /\ reply.rows \in Generations
      BY <1>1, <2>1, TimestampOfRows DEF IngestBatch, IInv, InHand
    <3>2. g = reply.rows
      BY <1>1, <2>1, <3>1 DEF IngestBatch, IInv, Typed, TypeOK
    <3>3. lastDataTimestamp < reply.rows /\ h <= lastDataTimestamp
      BY <1>1, <3>1 DEF IInv, Recent
    <3>4. h \in Nat /\ lastDataTimestamp \in Nat /\ g \in Nat
      BY <1>1, Constants DEF Ingested, IInv, Typed, TypeOK
    <3> QED
      BY <3>2, <3>3, <3>4
  <2>2. CASE ~IngestBatch
    <3>1. UNCHANGED ingested
      BY <1>1, <2>2
         DEF Next, ClientNext, Worker, StartupStep, PollStep, vars, clientVars,
             Start, StartupDelay, CheckReadiness, Tick, BeginPoll,
                     FetchCounters,
             Fetch, FetchFails, CountError, CheckDuplicate, CountDuplicate,
             ParseCSVData, UpdateTracking, WorkerExit, Stop, StopGraceful,
             StopTimedOut
    <3> QED
      BY <1>1, <3>1
  <2> QED
    BY <2>1, <2>2
<1>2. IInv /\ [Next]_vars
        => [\A g \in Generations : ingested'[g] # ingested[g] =>
              \A h \in Ingested : h < g]_vars
  BY <1>1
<1> QED
  BY <1>2, IInvInductive, PTL DEF Spec, IngestedInOrder

(* The largest element of a set of numbers.                                *)
LEMMA Max0Is ==
  ASSUME NEW S, S \subseteq Nat, NEW m \in S, \A n \in S : n <= m
  PROVE  Max0(S) = m
<1>1. \A k \in S : (\A n \in S : n <= k) => k = m
  <2> SUFFICES ASSUME NEW k \in S, \A n \in S : n <= k PROVE k = m
    OBVIOUS
  <2>1. m <= k /\ k <= m /\ m \in Nat /\ k \in Nat
    OBVIOUS
  <2> QED
    BY <2>1
<1> QED
  BY <1>1 DEF Max0

(* The client's timestamp is the newest generation that was ingested, even *)
(* though the IDs it records may belong to later ones.                     *)
THEOREM TrackingIsNewest == Spec => []TracksNewest
<1>1. IInv => TracksNewest
  <2> SUFFICES ASSUME IInv PROVE TracksNewest
    OBVIOUS
  <2> DEFINE S == IF pc = "track" THEN Ingested \ {reply.rows} ELSE Ingested
  <2>1. S \subseteq Nat \ {0} /\ lastDataTimestamp \in Nat
    BY Constants DEF Ingested, IInv, Typed, TypeOK
  <2>2. \A g \in S : g <= lastDataTimestamp
    BY DEF IInv, Recent
  <2>3. CASE lastDataTimestamp = 0
    <3>1. S = {}
      BY <2>1, <2>2, <2>3
    <3> QED
      BY <3>1, <2>3 DEF Max0, TracksNewest
  <2>4. CASE lastDataTimestamp # 0
    <3>1. lastDataTimestamp \in Ingested
      BY <2>4, Constants DEF IInv, Recent
    <3>2. pc = "track" => lastDataTimestamp # reply.rows
      BY <2>1, TimestampOfRows DEF IInv, Recent, InHand
    <3>3. lastDataTimestamp \in S
      BY <3>1, <3>2
    <3> HIDE DEF S
    <3>4. Max0(S) = lastDataTimestamp
      BY <2>1, <2>2, <3>3, Max0Is
    <3> QED
      BY <3>4 DEF TracksNewest, S
  <2> QED
    BY <2>3, <2>4
<1> QED
  BY <1>1, IInvInductive, PTL

(* What the timestamps take for a duplicate has been ingested: the rows in *)
(* hand are never older than the tracking, so they are the tracked ones.   *)
THEOREM TimestampsSkipRightly == Spec => []SkippedByTimeWasIngested
<1>1. IInv => SkippedByTimeWasIngested
  <2> SUFFICES ASSUME IInv, pc = "duplicate",
          DataTimestamp <= lastDataTimestamp
               PROVE  ingested[reply.rows] > 0
    BY DEF SkippedByTimeWasIngested
  <2>1. DataTimestamp = reply.rows /\ reply.rows \in Nat \ {0}
    BY TimestampOfRows DEF IInv, InHand
  <2>2. lastDataTimestamp <= reply.rows /\ lastDataTimestamp \in Nat
    BY Constants DEF IInv, Monotone, InHand, Typed, TypeOK
  <2>3. lastDataTimestamp = reply.rows
    BY <2>1, <2>2
  <2> QED
    BY <2>1, <2>3, Constants DEF IInv, Recent, Ingested
<1> QED
  BY <1>1, IInvInductive, PTL

(* Without the headers the client is exact: SkippedWasIngested, which the  *)
(* IDs of this repository's generator break, holds of a server that sends  *)
(* none, for then timestamps alone decide (generator_client.go:481-497).   *)
NoIDs == /\ reply.id = NoHeader /\ lastGenerationID = NoHeader
         /\ pc = "duplicate" => DataTimestamp <= lastDataTimestamp

LEMMA NoIDsStep ==
  ASSUME Headers = {FALSE}, Typed, NoIDs, [Next]_vars
  PROVE  NoIDs'
<1> USE Constants DEF NoIDs, DataTimestamp, genVars, clientVars, lifeVars, trackVars,
                      statVars, Goto, EndPoll
<1>1. CASE GenNext /\ UNCHANGED clientVars
  BY <1>1
<1>2. CASE Start \/ StartupStep \/ Tick \/ BeginPoll
  BY <1>2 DEF Start, StartupStep, StartupDelay, CheckReadiness, Tick, BeginPoll
<1>3. CASE FetchCounters
  <2>1. PICK answer \in Answers : Fetch(answer)
    BY <1>3 DEF FetchCounters
  <2>2. answer.id = NoHeader
    BY DEF Answers, handleCounters
  <2> QED BY <2>1, <2>2 DEF Fetch
<1>4. CASE CheckDuplicate
  BY <1>4 DEF CheckDuplicate, isDuplicateData
<1>5. CASE FetchFails \/ CountError \/ CountDuplicate \/ ParseCSVData \/ IngestBatch
  BY <1>5 DEF FetchFails, CountError, CountDuplicate, ParseCSVData, IngestBatch, NoReply
<1>6. CASE UpdateTracking
  BY <1>6 DEF UpdateTracking, NoReply
<1>7. CASE WorkerExit \/ Stop \/ StopGraceful \/ StopTimedOut
  BY <1>7 DEF WorkerExit, Stop, StopGraceful, StopTimedOut
<1>8. CASE UNCHANGED vars
  BY <1>8 DEF vars
<1> QED BY <1>1, <1>2, <1>3, <1>4, <1>5, <1>6, <1>7, <1>8
           DEF Next, ClientNext, Worker, PollStep

THEOREM NoHeadersNoSkips ==
  ASSUME Headers = {FALSE}
  PROVE  Spec => []SkippedWasIngested
<1>1. Init => NoIDs
  BY DEF Init, ClientInit, NoIDs, NoReply
<1>2. IInv /\ NoIDs /\ [Next]_vars => NoIDs'
  BY NoIDsStep DEF IInv
<1>3. NoIDs /\ SkippedByTimeWasIngested => SkippedWasIngested
  BY DEF NoIDs, SkippedByTimeWasIngested, SkippedWasIngested
<1> QED
  BY <1>1, <1>2, <1>3, IInvInductive, TimestampsSkipRightly, PTL DEF Spec

(* Polls are accounted for, whatever fails and whenever Stop comes.        *)
THEOREM PollsAreCounted == Spec => []PollsBalance
<1>1. Init => PollsBalance
  BY DEF Init, ClientInit, PollsBalance, InPoll
<1>2. Typed /\ PollsBalance /\ [Next]_vars => PollsBalance'
  <2> SUFFICES ASSUME Typed, PollsBalance, [Next]_vars PROVE PollsBalance'
    OBVIOUS
  <2>0. /\ totalPolls \in Nat /\ successfulPolls \in Nat
        /\ duplicateSkips \in Nat /\ errorCount \in Nat
        /\ ctx = "nil" => pc = "none"
    BY Constants DEF Typed, TypeOK
  <2> USE <2>0 DEF PollsBalance, InPoll, genVars, clientVars, lifeVars,
          trackVars, statVars, Goto, EndPoll
  <2>1. CASE GenNext /\ UNCHANGED clientVars
    BY <2>1
  <2>2. CASE Start /\ UNCHANGED genVars
    BY <2>2 DEF Start
  <2>3. CASE StartupDelay /\ UNCHANGED genVars
    BY <2>3 DEF StartupDelay
  <2>4. CASE CheckReadiness /\ UNCHANGED genVars
    BY <2>4 DEF CheckReadiness
  <2>5. CASE Tick /\ UNCHANGED genVars
    BY <2>5 DEF Tick
  <2>6. CASE BeginPoll /\ UNCHANGED genVars
    BY <2>6 DEF BeginPoll
  <2>7. CASE FetchCounters /\ UNCHANGED genVars
    BY <2>7 DEF FetchCounters, Fetch
  <2>8. CASE FetchFails /\ UNCHANGED genVars
    BY <2>8 DEF FetchFails
  <2>9. CASE CountError /\ UNCHANGED genVars
    BY <2>9 DEF CountError
  <2>10. CASE CheckDuplicate /\ UNCHANGED genVars
    BY <2>10 DEF CheckDuplicate
  <2>11. CASE CountDuplicate /\ UNCHANGED genVars
    BY <2>11 DEF CountDuplicate
  <2>12. CASE ParseCSVData /\ UNCHANGED genVars
    BY <2>12 DEF ParseCSVData
  <2>13. CASE IngestBatch /\ UNCHANGED genVars
    BY <2>13 DEF IngestBatch
  <2>14. CASE UpdateTracking /\ UNCHANGED genVars
    BY <2>14 DEF UpdateTracking
  <2>15. CASE WorkerExit /\ UNCHANGED genVars
    BY <2>15 DEF WorkerExit
  <2>16. CASE Stop /\ UNCHANGED genVars
    BY <2>16 DEF Stop
  <2>17. CASE StopGraceful /\ UNCHANGED genVars
    BY <2>17 DEF StopGraceful
  <2>18. CASE StopTimedOut /\ UNCHANGED genVars
    BY <2>18 DEF StopTimedOut
  <2>19. CASE UNCHANGED vars
    BY <2>19 DEF vars
  <2> HIDE DEF PollsBalance
  <2> QED
    BY <2>1, <2>2, <2>3, <2>4, <2>5, <2>6, <2>7, <2>8, <2>9, <2>10, <2>11,
         <2>12, <2>13, <2>14, <2>15, <2>16, <2>17, <2>18, <2>19
      DEF Next, GenNext, ClientNext, Worker, StartupStep, PollStep
<1>3. IInv => Typed
  BY DEF IInv
<1> QED
  BY <1>1, <1>2, <1>3, IInvInductive, PTL DEF Spec

(* Nothing of the client moves after a graceful Stop: its worker has left, *)
(* and no Start comes after a Stop.                                        *)
THEOREM GracefulStop == Spec => GracefulStopIsQuiet
<1> USE DEF Stopped, genVars, clientVars, lifeVars, trackVars, statVars, Goto,
        EndPoll
<1>1. Init => Stopped
  BY DEF Init, ClientInit
<1>2. Stopped /\ [Next]_vars => Stopped'
  <2> SUFFICES ASSUME Stopped, [Next]_vars PROVE Stopped'
    OBVIOUS
  <2>1. CASE GenNext /\ UNCHANGED clientVars
    BY <2>1
  <2>2. CASE Start /\ UNCHANGED genVars
    BY <2>2 DEF Start
  <2>3. CASE StartupDelay /\ UNCHANGED genVars
    BY <2>3 DEF StartupDelay
  <2>4. CASE CheckReadiness /\ UNCHANGED genVars
    BY <2>4 DEF CheckReadiness
  <2>5. CASE Tick /\ UNCHANGED genVars
    BY <2>5 DEF Tick
  <2>6. CASE BeginPoll /\ UNCHANGED genVars
    BY <2>6 DEF BeginPoll
  <2>7. CASE FetchCounters /\ UNCHANGED genVars
    BY <2>7 DEF FetchCounters, Fetch
  <2>8. CASE FetchFails /\ UNCHANGED genVars
    BY <2>8 DEF FetchFails
  <2>9. CASE CountError /\ UNCHANGED genVars
    BY <2>9 DEF CountError
  <2>10. CASE CheckDuplicate /\ UNCHANGED genVars
    BY <2>10 DEF CheckDuplicate
  <2>11. CASE CountDuplicate /\ UNCHANGED genVars
    BY <2>11 DEF CountDuplicate
  <2>12. CASE ParseCSVData /\ UNCHANGED genVars
    BY <2>12 DEF ParseCSVData
  <2>13. CASE IngestBatch /\ UNCHANGED genVars
    BY <2>13 DEF IngestBatch
  <2>14. CASE UpdateTracking /\ UNCHANGED genVars
    BY <2>14 DEF UpdateTracking
  <2>15. CASE WorkerExit /\ UNCHANGED genVars
    BY <2>15 DEF WorkerExit
  <2>16. CASE Stop /\ UNCHANGED genVars
    BY <2>16 DEF Stop
  <2>17. CASE StopGraceful /\ UNCHANGED genVars
    BY <2>17 DEF StopGraceful
  <2>18. CASE StopTimedOut /\ UNCHANGED genVars
    BY <2>18 DEF StopTimedOut
  <2>19. CASE UNCHANGED vars
    BY <2>19 DEF vars
  <2> HIDE DEF Stopped
  <2> QED
    BY <2>1, <2>2, <2>3, <2>4, <2>5, <2>6, <2>7, <2>8, <2>9, <2>10, <2>11,
         <2>12, <2>13, <2>14, <2>15, <2>16, <2>17, <2>18, <2>19
      DEF Next, GenNext, ClientNext, Worker, StartupStep, PollStep
<1>3. Stopped
        /\ [Next]_vars => [stop = "graceful" => UNCHANGED clientVars]_vars
  BY DEF Next, ClientNext, Worker, StartupStep, PollStep, vars, Start,
         StartupDelay, CheckReadiness, Tick, BeginPoll, FetchCounters, Fetch,
         FetchFails, CountError, CheckDuplicate, CountDuplicate, ParseCSVData,
         IngestBatch, UpdateTracking, WorkerExit, Stop, StopGraceful,
                 StopTimedOut
<1> QED
  BY <1>1, <1>2, <1>3, PTL DEF Spec, GracefulStopIsQuiet
=============================================================================
