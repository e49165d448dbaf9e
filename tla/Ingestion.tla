----------------------------- MODULE Ingestion -----------------------------
(***************************************************************************)
(* The ingestion path: DataGenerator and GeneratorClient, joined by the    *)
(* HTTP request of a poll.                                                 *)
(***************************************************************************)
EXTENDS DataGenerator, GeneratorClient

CONSTANT Headers        \* whether answers may have or may lack the headers
                        \* X-Generation-ID and X-Data-Timestamp

ASSUME HeadersAssumption == Headers \subseteq BOOLEAN
ASSUME GenerationsAreInstants == Generations = 1..MaxGenerations /\ NoHeader = NoData

vars == <<genVars, clientVars>>

Init == GenInit /\ ClientInit

(* The generator of this repository sends the headers; the client also     *)
(* works with a server that does not.                                      *)
Answers == {IF h THEN handleCounters
                 ELSE [handleCounters EXCEPT !.id = NoHeader, !.time = NoHeader] :
            h \in Headers}

FetchCounters == CountersReady /\ \E answer \in Answers : Fetch(answer)

Worker == StartupStep \/ Tick \/ BeginPoll \/ FetchCounters \/ PollStep

ClientNext == Start \/ Worker \/ WorkerExit \/ Stop \/ StopGraceful \/ StopTimedOut

Next == \/ GenNext /\ UNCHANGED clientVars
        \/ ClientNext /\ UNCHANGED genVars

(* The goroutine of the client runs; a fetch ends; Go's select does not    *)
(* pass over the ready ctx.Done arm for ever; the 2 s timer of Stop fires  *)
(* if nothing else ends the wait.  Nobody has to start or stop the client, *)
(* and the generator need not run.                                         *)
Fairness == /\ WF_vars(Worker /\ UNCHANGED genVars)
            /\ SF_vars(WorkerExit /\ UNCHANGED genVars)
            /\ WF_vars((StopGraceful \/ StopTimedOut) /\ UNCHANGED genVars)

Spec     == Init /\ [][Next]_vars
FairSpec == Spec /\ Fairness

-----------------------------------------------------------------------------
Max0(S) == IF S = {} THEN 0 ELSE CHOOSE m \in S : \A n \in S : n <= m

Ingested == {g \in Generations : ingested[g] > 0}

(* Type invariant: the generator and the client keep their types, and an   *)
(* ID in hand was issued.                                                  *)
TypeOK ==
  /\ clock \in 0..MaxGenerations
  /\ generationID \in 0..clock /\ dataCache \in 0..generationID
  /\ generating \in BOOLEAN /\ serving \in BOOLEAN
  /\ running \in BOOLEAN
  /\ ctx \in {"nil", "live", "cancelled"}
  /\ pc \in Outside \cup InPoll
  /\ reply \in Replies \cup {NoReply}
  /\ lastGenerationID \in 0..clock /\ lastDataTimestamp \in 0..clock
  /\ totalPolls \in 0..MaxPolls
  /\ successfulPolls \in Nat /\ duplicateSkips \in Nat /\ errorCount \in Nat
  /\ stop \in {"no", "waiting", "graceful", "timedOut"}
  /\ ingested \in [Generations -> Nat]

(* Every poll is accounted for once: it succeeded, was skipped as a        *)
(* duplicate, failed, or is under way - on every return of                 *)
(* fetchAndProcessData, and whatever Stop and its timeout do meanwhile.    *)
PollsBalance ==
  totalPolls = successfulPolls + duplicateSkips + errorCount
                 + IF pc \in InPoll THEN 1 ELSE 0

(* The tracking is what was ingested last: between polls lastDataTimestamp *)
(* is the newest generation ingested.  Although the ID of an answer may    *)
(* belong to a later generation than its rows, the timestamp never does.   *)
TracksNewest ==
  lastDataTimestamp = Max0(IF pc = "track" THEN Ingested \ {reply.rows} ELSE Ingested)

(* No generation is ingested twice, nor after a newer one: restarts of the *)
(* generator, failed polls and mixed answers never send rows back in time. *)
IngestedInOrder ==
  [][ \A g \in Generations :
        ingested'[g] # ingested[g] => \A h \in Ingested : h < g ]_vars

(* What the timestamps show to be a duplicate was ingested: a generation   *)
(* whose ingest failed is fetched again for as long as it is served.       *)
SkippedByTimeWasIngested ==
  pc = "duplicate" /\ DataTimestamp <= lastDataTimestamp => ingested[reply.rows] > 0

(* After a graceful Stop no poll is under way and none will begin.         *)
GracefulStopIsQuiet ==
  [][stop = "graceful" => UNCHANGED clientVars]_vars

(* Stop returns, even if it has to lose patience.                          *)
StopReturns == stop = "waiting" ~> stop \in {"graceful", "timedOut"}

(* A worker that outlived Stop leaves in the end.                          *)
WorkerLeaves == ctx = "cancelled" ~> pc = "exited"

(* "isDuplicateData checks if the data has already been processed"         *)
(* (generator_client.go:481): what is skipped as a duplicate was ingested. *)
SkippedWasIngested == pc = "duplicate" => ingested[reply.rows] > 0
=============================================================================
