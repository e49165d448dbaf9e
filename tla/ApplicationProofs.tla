------------------------- MODULE ApplicationProofs -------------------------
(***************************************************************************)
(* Theorems about Application for any generations, any number of polls and *)
(* queries, any retry limit and every behaviour of the database.           *)
(***************************************************************************)
EXTENDS Application, FiniteSetTheorems, TLAPS

USE ClientAssumption, StoreAssumption, BlankAssumption
USE DEF Polls, Client!Outside, Client!InPoll

(* The variables the arguments below are about.                            *)
ClientPart == <<ctx, poller, reply, lastDataTimestamp, totalPolls,
                successfulPolls, clientStop, ingested>>
StorePart  == <<flushQueue, entry, writer, load, stored, totalDBWrites>>

LEMMA StoreBatches == Store!Batches = Polls /\ Store!Writers = {FlushWorker} \cup Polls
BY DEF Store!Batches, Store!Writers

LEMMA SameClient == UNCHANGED clientVars => UNCHANGED ClientPart
BY DEF clientVars, ClientPart

LEMMA SameStore == UNCHANGED storeVars => UNCHANGED StorePart
BY DEF storeVars, StorePart

-----------------------------------------------------------------------------
(* Types of the two parts.  The first poll needs no tick, and each later   *)
(* one was allowed by the bound.                                           *)
ClientTyped ==
  /\ poller \in Client!Outside \cup Client!InPoll
  /\ \E g \in Generations \cup {NoHeader} : reply = [id |-> g, time |-> g, rows |-> g]
  /\ poller \in {"check", "duplicate", "parse", "ingest", "track"} => reply.rows # NoHeader
  /\ lastDataTimestamp \in Generations \cup {NoHeader}
  /\ totalPolls \in 0..MaxPolls
  /\ successfulPolls \in Nat
  /\ ingested \in [Generations -> Nat]
  /\ ctx = "nil" => poller = "none"
  /\ poller \in {"none", "delay", "readiness"} => totalPolls = 0
  /\ poller = "begin" => totalPolls < MaxPolls
  /\ poller \in Client!InPoll => totalPolls \in Polls

StoreTyped ==
  /\ flushQueue = <<>>
  /\ entry \in [Polls -> {"new", "writing", "done", "failed"}]
  /\ writer \in [{FlushWorker} \cup Polls -> Store!WriterStates]
  /\ load \in [{FlushWorker} \cup Polls -> SUBSET Polls]
  /\ stored \in [Polls -> Nat]
  /\ totalDBWrites \in Nat
  /\ payload \in [Polls -> Generations \cup {NoHeader}]

(* Poll n and batch n: a batch that is being written is that of the poll   *)
(* in hand, and its rows are committed once it is counted or done.         *)
BatchOfPoll(n) ==
  /\ n > totalPolls => entry[n] = "new"
  /\ entry[n] = "writing" => n = totalPolls /\ poller = "ingest" /\ load[n] = {n}
  /\ writer[n] # "idle" => entry[n] = "writing"
  /\ stored[n] = IF entry[n] = "done" \/ writer[n] = "count" THEN 1 ELSE 0

InBatch == payload[totalPolls] = reply.rows /\ reply.rows \notin Blank

PollInHand ==
  /\ poller \in {"fetch", "check", "parse"} => entry[totalPolls] = "new"
  /\ poller = "ingest" /\ entry[totalPolls] # "new" => InBatch
  /\ poller = "track" =>
       IF reply.rows \in Blank THEN entry[totalPolls] = "new"
                               ELSE entry[totalPolls] = "done" /\ InBatch

Owned == PollInHand /\ \A n \in Polls : BatchOfPoll(n)

(* Rows past the duplicate check are newer than what is tracked, and what  *)
(* is in the database is tracked or is that of the poll in hand.           *)
Newer ==
  /\ poller \in {"parse", "ingest", "track"} => reply.rows > lastDataTimestamp
  /\ \A n \in Polls : stored[n] = 1 =>
        \/ payload[n] <= lastDataTimestamp
        \/ n = totalPolls /\ poller \in {"ingest", "track"}

(* The rows of a generation are acknowledged once.                         *)
AcknowledgedOnce ==
  \A n, m \in Polls :
    stored[n] = 1 /\ stored[m] = 1 /\ payload[n] = payload[m] => n = m

(* What has been ingested is tracked or about to be: a generation that is  *)
(* newer than what is tracked has not been counted before.                 *)
Seen == /\ IsFiniteSet(TrackedBlank)
        /\ \A g \in Generations : ingested[g] > 0 =>
              g <= lastDataTimestamp \/ (poller = "track" /\ g = reply.rows)

Quiet == clientStop = "graceful" => poller = "exited"

IInv == /\ ClientTyped /\ StoreTyped /\ Owned /\ Newer /\ Seen
        /\ AcknowledgedOnce /\ TrackedIsDurable /\ CountersAgree /\ Quiet

LEMMA InitInv == Init => IInv
<1> SUFFICES ASSUME Init PROVE IInv
  OBVIOUS
<1>1. /\ poller = "none" /\ ctx = "nil" /\ totalPolls = 0 /\ successfulPolls = 0
      /\ reply = [id |-> NoHeader, time |-> NoHeader, rows |-> NoHeader]
      /\ lastDataTimestamp = NoHeader /\ clientStop = "no"
      /\ ingested = [g \in Generations |-> 0]
  BY DEF Init, Client!ClientInit, Client!NoReply
<1>2. /\ flushQueue = <<>> /\ entry = [n \in Polls |-> "new"]
      /\ writer = [w \in {FlushWorker} \cup Polls |-> "idle"]
      /\ load = [w \in {FlushWorker} \cup Polls |-> {}]
      /\ stored = [n \in Polls |-> 0] /\ totalDBWrites = 0
      /\ payload = [n \in Polls |-> NoHeader]
  BY StoreBatches DEF Init, Store!Init
<1>3. ClientTyped
  BY <1>1 DEF ClientTyped
<1>4. StoreTyped
  BY <1>2 DEF StoreTyped, Store!WriterStates
<1>5. Owned
  BY <1>1, <1>2 DEF Owned, PollInHand, BatchOfPoll
<1>6. Newer /\ Quiet /\ AcknowledgedOnce /\ TrackedIsDurable
  BY <1>1, <1>2 DEF Newer, Quiet, AcknowledgedOnce, TrackedIsDurable
<1>7. TrackedBlank = {}
  <2>1. ASSUME NEW g \in Blank PROVE ~(ingested[g] > 0)
    BY <1>1
  <2> QED BY <2>1 DEF TrackedBlank
<1>8. Seen /\ CountersAgree
  BY <1>1, <1>2, <1>7, FS_EmptySet DEF Seen, CountersAgree
<1> QED BY <1>3, <1>4, <1>5, <1>6, <1>8 DEF IInv

LEMMA SameBlank == UNCHANGED ingested => UNCHANGED TrackedBlank
BY DEF TrackedBlank

LEMMA BlankCount == IInv => Cardinality(TrackedBlank) \in Nat
BY FS_CardinalityType DEF IInv, Seen

(* A step that changes neither part, except perhaps the life of the client.*)
LEMMA SameInv ==
  ASSUME IInv, UNCHANGED <<payload, poller, reply, lastDataTimestamp, totalPolls,
                           successfulPolls, ingested>>,
         UNCHANGED StorePart, ctx' = ctx \/ ctx' # "nil",
         clientStop' = "graceful" => clientStop = "graceful" \/ poller = "exited"
  PROVE  IInv'
<1>1. ClientTyped'
  BY DEF IInv, ClientTyped
<1>2. StoreTyped' /\ Owned'
  BY DEF IInv, StoreTyped, Owned, PollInHand, InBatch, BatchOfPoll, StorePart
<1>3. Newer' /\ Quiet'
  BY DEF IInv, Newer, Quiet, StorePart
<1>4. AcknowledgedOnce' /\ TrackedIsDurable'
  BY DEF IInv, AcknowledgedOnce, TrackedIsDurable, Durable, InDatabase, StorePart
<1>5. Seen' /\ CountersAgree'
  BY SameBlank DEF IInv, Seen, CountersAgree, StorePart
<1> QED BY <1>1, <1>2, <1>3, <1>4, <1>5 DEF IInv

-----------------------------------------------------------------------------
(***************************************************************************)
(* A step of a write.                                                      *)
(***************************************************************************)
Moves(n) == /\ writer[n] \notin {"idle", "count"}
            /\ \E place \in Store!WriterStates \ {"idle", "count"} :
                  writer' = [writer EXCEPT ![n] = place]
            /\ UNCHANGED <<entry, load, stored, totalDBWrites>>

Commits(n) == /\ writer[n] = "tx"
              /\ writer' = [writer EXCEPT ![n] = "count"]
              /\ stored' = [m \in Polls |-> stored[m] + IF m \in load[n] THEN 1 ELSE 0]
              /\ UNCHANGED <<entry, load, totalDBWrites>>

Counts(n) == /\ writer[n] = "count"
             /\ writer' = [writer EXCEPT ![n] = "idle"]
             /\ load' = [load EXCEPT ![n] = {}]
             /\ entry' = [entry EXCEPT ![n] = "done"]
             /\ totalDBWrites' = totalDBWrites + Cardinality(load[n])
             /\ UNCHANGED stored

Fails(n) == /\ writer[n] \notin {"idle", "count"}
            /\ writer' = [writer EXCEPT ![n] = "idle"]
            /\ load' = [load EXCEPT ![n] = {}]
            /\ entry' = [entry EXCEPT ![n] = "failed"]
            /\ UNCHANGED <<stored, totalDBWrites>>

LEMMA WriteOutcomes ==
  ASSUME StoreTyped, NEW n \in Polls, Store!WriteStep(n)
  PROVE  /\ flushQueue' = flushQueue
         /\ Moves(n) \/ Commits(n) \/ Counts(n) \/ Fails(n)
<1> USE StoreBatches DEF Store!callVars, Store!lifeVars, Store!dbVars, Store!stats,
                         Store!WriterStates, Store!EndWrite
<1>1. Store!AfterFailure(n) \in Store!WriterStates \ {"idle", "count"}
  BY DEF Store!AfterFailure
<1>2. CASE Store!CheckContext(n)
  BY <1>2 DEF Store!CheckContext, Moves, Fails
<1>3. CASE Store!BeginTx(n)
  BY <1>1, <1>3 DEF Store!BeginTx, Moves
<1>4. CASE Store!Commit(n)
  BY <1>4 DEF Store!Commit, Store!Plus, Commits
<1>5. CASE Store!TxFailed(n)
  BY <1>1, <1>5 DEF Store!TxFailed, Moves
<1>6. CASE Store!CountWrite(n)
  <2>1. load[n] \in SUBSET Polls
    BY DEF StoreTyped
  <2>2. totalDBWrites' = totalDBWrites + Cardinality(load[n])
    BY <1>6, <2>1 DEF Store!CountWrite
  <2> QED BY <1>6, <2>2 DEF Store!CountWrite, Counts
<1>7. CASE Store!BackOff(n)
  BY <1>7 DEF Store!BackOff, Moves, Fails
<1>8. CASE Store!GiveUp(n)
  BY <1>8 DEF Store!GiveUp, Fails
<1> QED BY <1>2, <1>3, <1>4, <1>5, <1>6, <1>7, <1>8 DEF Store!WriteStep

LEMMA WriteInv ==
  ASSUME IInv, NEW n \in Polls, Store!WriteStep(n), UNCHANGED <<payload, clientVars>>
  PROVE  IInv'
<1> USE DEF IInv
<1>1. UNCHANGED ClientPart
  BY SameClient
<1>2. /\ flushQueue' = flushQueue
      /\ Moves(n) \/ Commits(n) \/ Counts(n) \/ Fails(n)
  BY WriteOutcomes
<1>3. /\ n = totalPolls /\ poller = "ingest" /\ load[n] = {n} /\ entry[n] = "writing"
      /\ Cardinality(load[n]) = 1
  <2>1. writer[n] # "idle"
    BY <1>2 DEF Moves, Commits, Counts, Fails
  <2>2. n = totalPolls /\ poller = "ingest" /\ load[n] = {n} /\ entry[n] = "writing"
    BY <2>1 DEF Owned, BatchOfPoll
  <2> QED BY <2>2, FS_Singleton
<1>4. ClientTyped'
  BY <1>1 DEF ClientTyped, ClientPart
<1>5. StoreTyped'
  <2>1. CASE Moves(n)
    BY <1>2, <2>1 DEF StoreTyped, Moves, Store!WriterStates
  <2>2. CASE Commits(n)
    BY <1>2, <2>2 DEF StoreTyped, Commits, Store!WriterStates
  <2>3. CASE Counts(n)
    BY <1>2, <1>3, <2>3 DEF StoreTyped, Counts, Store!WriterStates
  <2>4. CASE Fails(n)
    BY <1>2, <2>4 DEF StoreTyped, Fails, Store!WriterStates
  <2> QED BY <1>2, <2>1, <2>2, <2>3, <2>4
<1>6. Owned'
  <2>1. ASSUME NEW m \in Polls PROVE BatchOfPoll(m)'
    <3> USE DEF Owned, BatchOfPoll, StoreTyped, ClientPart
    <3>1. CASE Moves(n)
      BY <1>1, <1>3, <3>1 DEF Moves
    <3>2. CASE Commits(n)
      <4>1. stored'[m] = IF m = n THEN stored[m] + 1 ELSE stored[m]
        BY <1>3, <3>2 DEF Commits
      <4>2. CASE m = n
        BY <1>1, <1>3, <3>2, <4>1, <4>2 DEF Commits
      <4>3. CASE m # n
        BY <1>1, <1>3, <3>2, <4>1, <4>3 DEF Commits
      <4> QED BY <4>2, <4>3
    <3>3. CASE Counts(n)
      BY <1>1, <1>3, <3>3 DEF Counts
    <3>4. CASE Fails(n)
      BY <1>1, <1>3, <3>4 DEF Fails
    <3> QED BY <1>2, <3>1, <3>2, <3>3, <3>4
  <2>2. PollInHand'
    BY <1>1, <1>2, <1>3 DEF Owned, PollInHand, InBatch, ClientPart
  <2> QED BY <2>1, <2>2 DEF Owned
<1>7. ASSUME NEW m \in Polls, m # n \/ ~Commits(n) PROVE stored'[m] = stored[m]
  BY <1>2, <1>3, <1>7 DEF Moves, Commits, Counts, Fails, StoreTyped
<1>8. stored[n] = IF writer[n] = "count" THEN 1 ELSE 0
  BY <1>3 DEF Owned, BatchOfPoll
<1>9. Newer' /\ Quiet'
  BY <1>1, <1>2, <1>3, <1>7 DEF Newer, Quiet, ClientPart
<1>10. AcknowledgedOnce'
  <2>1. ASSUME NEW m \in Polls, stored[m] = 1, m # n PROVE payload[m] # payload[n]
    <3>1. payload[m] <= lastDataTimestamp
      BY <1>3, <2>1 DEF Newer
    <3>2. payload[n] = reply.rows /\ reply.rows > lastDataTimestamp
      BY <1>3 DEF Owned, PollInHand, InBatch, Newer
    <3>3. payload[m] \in Generations \cup {NoHeader}
      BY DEF StoreTyped
    <3>4. lastDataTimestamp \in Nat /\ reply.rows \in Nat
      BY DEF ClientTyped
    <3> QED BY <3>1, <3>2, <3>3, <3>4
  <2> QED BY <1>2, <1>7, <2>1 DEF AcknowledgedOnce
<1>11. TrackedIsDurable'
  <2>1. ASSUME NEW m \in Polls, stored[m] = 1 PROVE stored'[m] = 1
    BY <1>7, <1>8, <2>1 DEF Commits
  <2> QED BY <1>1, <2>1 DEF TrackedIsDurable, Durable, InDatabase, ClientPart
<1>12. UNCHANGED TrackedBlank /\ Cardinality(TrackedBlank) \in Nat
  BY <1>1, SameBlank, BlankCount DEF ClientPart
<1>13. Seen'
  BY <1>1, <1>12 DEF Seen, ClientPart
<1>14. CountersAgree'
  <2> USE <1>12
  <2>1. CASE Counts(n)
    BY <1>1, <1>3, <2>1 DEF Counts, CountersAgree, ClientPart, ClientTyped, StoreTyped
  <2>2. CASE Moves(n) \/ Commits(n)
    BY <1>1, <2>2 DEF Moves, Commits, CountersAgree, ClientPart
  <2>3. CASE Fails(n)
    BY <1>1, <1>3, <2>3 DEF Fails, CountersAgree, ClientPart, StoreTyped
  <2> QED BY <1>2, <2>1, <2>2, <2>3
<1> QED BY <1>4, <1>5, <1>6, <1>9, <1>10, <1>11, <1>13, <1>14

-----------------------------------------------------------------------------
(***************************************************************************)
(* A step of a poll.                                                       *)
(***************************************************************************)
(* What a step that leaves the store alone must show.                      *)
LEMMA PollInv ==
  ASSUME IInv, UNCHANGED <<payload, StorePart>>,
         ClientTyped', Owned', Newer', Seen', TrackedIsDurable', CountersAgree', Quiet'
  PROVE  IInv'
BY DEF IInv, StoreTyped, StorePart, AcknowledgedOnce

(* A step to a place before or outside the ingestion that tracks nothing.  *)
LEMMA PlainStep ==
  ASSUME IInv, UNCHANGED <<payload, StorePart>>,
         UNCHANGED <<lastDataTimestamp, successfulPolls, ingested, totalPolls, clientStop, ctx>>,
         poller \notin {"ingest", "track", "exited"},
         poller' \notin {"ingest", "track"},
         ClientTyped', PollInHand',
         poller' = "parse" => reply'.rows > lastDataTimestamp
  PROVE  IInv'
<1> USE DEF IInv, StorePart
<1>1. Owned'
  BY DEF Owned, BatchOfPoll
<1>2. Newer' /\ Quiet'
  BY DEF Newer, Quiet
<1>3. TrackedIsDurable'
  BY DEF TrackedIsDurable, Durable, InDatabase
<1>4. Seen' /\ CountersAgree'
  BY SameBlank DEF Seen, CountersAgree
<1> QED BY <1>1, <1>2, <1>3, <1>4, PollInv

LEMMA GenerationsNat == Generations \cup {NoHeader} \subseteq Nat
OBVIOUS

LEMMA NumbersNat ==
  ASSUME IInv
  PROVE  /\ lastDataTimestamp \in Nat /\ reply.rows \in Nat
         /\ \A n \in Polls : payload[n] \in Nat
<1>1. lastDataTimestamp \in Nat /\ reply.rows \in Nat
  BY DEF IInv, ClientTyped
<1>2. ASSUME NEW n \in Polls PROVE payload[n] \in Nat
  <2>1. payload[n] \in Generations \cup {NoHeader}
    BY DEF IInv, StoreTyped
  <2> QED BY <2>1, GenerationsNat
<1> QED BY <1>1, <1>2

LEMMA TimestampOfRows ==
  ASSUME IInv, reply.rows # NoHeader
  PROVE  Client!DataTimestamp = reply.rows
BY DEF IInv, ClientTyped, Client!DataTimestamp

LEMMA PollStepInv ==
  ASSUME IInv, Poll PROVE IInv'
<1> USE DEF Client!Goto, Client!EndPoll, Client!lifeVars, Client!trackVars,
            Client!statVars, Client!NoReply
<1>1. ASSUME UNCHANGED <<payload, storeVars>>,
             Client!StartupStep \/ Client!Tick \/ Client!FetchFails
             \/ Client!BeginPoll \/ Fetch \/ Client!CountError
             \/ Client!CheckDuplicate \/ Client!CountDuplicate
             \/ Client!ParseCSVData \/ Client!UpdateTracking
      PROVE  IInv'
  <2>0. UNCHANGED <<payload, StorePart>>
    BY <1>1, SameStore
  <2> USE <2>0 DEF IInv
  <2>1. CASE Client!StartupStep
    <3> USE DEF Client!StartupStep, Client!StartupDelay, Client!CheckReadiness
    <3>1. CASE poller' = "exited"
      <4>1. ClientTyped' /\ Owned'
        BY <2>1, <3>1 DEF ClientTyped, Owned, PollInHand, BatchOfPoll, StorePart
      <4>2. Newer' /\ Quiet' /\ TrackedIsDurable'
        BY <2>1, <3>1 DEF Newer, Quiet, TrackedIsDurable, Durable, InDatabase, StorePart
      <4>3. Seen' /\ CountersAgree'
        BY <2>1, <3>1, SameBlank DEF Seen, CountersAgree, StorePart
      <4> QED BY <4>1, <4>2, <4>3, PollInv
    <3>2. CASE poller' # "exited"
      <4>1. ClientTyped'
        BY <2>1, <3>2 DEF ClientTyped
      <4> QED BY <2>1, <3>2, <4>1, PlainStep DEF PollInHand
    <3> QED BY <3>1, <3>2
  <2>2. CASE Client!Tick
    <3>1. ClientTyped'
      BY <2>2 DEF Client!Tick, ClientTyped
    <3> QED BY <2>2, <3>1, PlainStep DEF Client!Tick, PollInHand
  <2>3. CASE Client!FetchFails
    <3>1. ClientTyped'
      BY <2>3 DEF Client!FetchFails, ClientTyped
    <3> QED BY <2>3, <3>1, PlainStep DEF Client!FetchFails, PollInHand
  <2>4. CASE Client!BeginPoll
    <3>1. ClientTyped'
      BY <2>4 DEF Client!BeginPoll, ClientTyped
    <3>2. Owned'
      BY <2>4, <3>1 DEF Client!BeginPoll, Owned, PollInHand, BatchOfPoll, StorePart,
                        ClientTyped
    <3>3. Newer' /\ Quiet' /\ TrackedIsDurable'
      BY <2>4 DEF Client!BeginPoll, Newer, Quiet, TrackedIsDurable, Durable, InDatabase,
                  StorePart
    <3>4. Seen' /\ CountersAgree'
      BY <2>4, SameBlank DEF Client!BeginPoll, Seen, CountersAgree, StorePart
    <3> QED BY <3>1, <3>2, <3>3, <3>4, PollInv
  <2>5. CASE Fetch
    <3>1. PICK g \in Generations : Client!Fetch([id |-> g, time |-> g, rows |-> g])
      BY <2>5 DEF Fetch
    <3>2. ClientTyped'
      BY <3>1 DEF Client!Fetch, ClientTyped
    <3> QED BY <3>1, <3>2, PlainStep DEF Client!Fetch, PollInHand, Owned, StorePart
  <2>6. CASE Client!CountError
    <3>1. ClientTyped'
      BY <2>6 DEF Client!CountError, ClientTyped
    <3> QED BY <2>6, <3>1, PlainStep DEF Client!CountError, PollInHand
  <2>7. CASE Client!CheckDuplicate
    <3>1. ClientTyped'
      BY <2>7 DEF Client!CheckDuplicate, ClientTyped
    <3>2. PollInHand'
      BY <2>7 DEF Client!CheckDuplicate, Owned, PollInHand, StorePart
    <3>3. reply.rows # NoHeader
      BY <2>7 DEF Client!CheckDuplicate, ClientTyped
    <3>4. poller' = "parse" => reply'.rows > lastDataTimestamp
      BY <2>7, <3>3, TimestampOfRows, NumbersNat
         DEF Client!CheckDuplicate, Client!isDuplicateData
    <3> QED BY <2>7, <3>1, <3>2, <3>4, PlainStep DEF Client!CheckDuplicate
  <2>8. CASE Client!CountDuplicate
    <3>1. ClientTyped'
      BY <2>8 DEF Client!CountDuplicate, ClientTyped
    <3> QED BY <2>8, <3>1, PlainStep DEF Client!CountDuplicate, PollInHand
  <2>9. CASE Client!ParseCSVData
    <3>1. ClientTyped'
      BY <2>9 DEF Client!ParseCSVData, ClientTyped
    <3>2. Owned'
      BY <2>9 DEF Client!ParseCSVData, Owned, PollInHand, BatchOfPoll, StorePart
    <3>3. Newer' /\ Quiet' /\ TrackedIsDurable'
      BY <2>9 DEF Client!ParseCSVData, Newer, Quiet, TrackedIsDurable, Durable,
                  InDatabase, StorePart
    <3>4. Seen' /\ CountersAgree'
      <4>1. entry[totalPolls] = "new"
        BY <2>9 DEF Client!ParseCSVData, Owned, PollInHand
      <4> QED BY <2>9, <4>1, SameBlank
              DEF Client!ParseCSVData, Seen, CountersAgree, StorePart
    <3> QED BY <3>1, <3>2, <3>3, <3>4, PollInv
  <2>10. CASE Client!UpdateTracking
    <3>1. /\ poller = "track" /\ poller' = "select" /\ reply' = Client!NoReply
          /\ lastDataTimestamp' = reply.rows /\ reply.rows \in Generations
          /\ successfulPolls' = successfulPolls + 1
          /\ UNCHANGED <<totalPolls, ingested, clientStop, ctx>>
      <4>1. reply.rows # NoHeader /\ reply.rows \in Generations
        BY <2>10 DEF Client!UpdateTracking, ClientTyped
      <4> QED BY <2>10, <4>1, TimestampOfRows DEF Client!UpdateTracking
    <3>2. /\ totalPolls \in Polls
          /\ \/ reply.rows \in Blank /\ stored[totalPolls] = 0
             \/ payload[totalPolls] = reply.rows /\ stored[totalPolls] = 1
      BY <3>1 DEF Owned, PollInHand, InBatch, BatchOfPoll, ClientTyped
    <3>3. ClientTyped'
      BY <3>1 DEF ClientTyped
    <3>4. Owned'
      BY <3>1 DEF Owned, PollInHand, BatchOfPoll, StorePart
    <3>5. Newer' /\ Quiet'
      BY <3>1, <3>2, NumbersNat DEF Newer, Quiet, StorePart
    <3>6. TrackedIsDurable'
      BY <3>1, <3>2 DEF TrackedIsDurable, Durable, InDatabase, StorePart
    <3>7. Seen'
      <4>1. ASSUME NEW g \in Generations, ingested[g] > 0 PROVE g <= reply.rows
        BY <3>1, <4>1, NumbersNat DEF Seen, Newer
      <4> QED BY <3>1, <4>1, SameBlank DEF Seen
    <3>8. CountersAgree'
      BY <3>1, SameBlank, BlankCount DEF CountersAgree, StorePart, ClientTyped, StoreTyped
    <3> QED BY <3>3, <3>4, <3>5, <3>6, <3>7, <3>8, PollInv
  <2> QED BY <1>1, <2>1, <2>2, <2>3, <2>4, <2>5, <2>6, <2>7, <2>8, <2>9, <2>10
<1>2. CASE Ingest
  <2>1. poller = "ingest" /\ totalPolls \in Polls
    BY <1>2 DEF Ingest, IInv, ClientTyped
  <2> USE DEF IInv
  <2>2. CASE BeginIngest
    <3>1. /\ entry[totalPolls] = "new" /\ reply.rows \notin Blank
          /\ entry' = [entry EXCEPT ![totalPolls] = "writing"]
          /\ writer' = [writer EXCEPT ![totalPolls] = "check"]
          /\ load' = [load EXCEPT ![totalPolls] = {totalPolls}]
          /\ payload' = [payload EXCEPT ![totalPolls] = reply.rows]
          /\ UNCHANGED <<flushQueue, stored, totalDBWrites>>
      BY <2>2 DEF BeginIngest, Store!StoreMetricsBulk, Store!BeginWrite,
                  Store!dbVars, Store!stats
    <3>2. UNCHANGED ClientPart
      BY <2>2, SameClient DEF BeginIngest
    <3>3. ClientTyped'
      BY <3>2 DEF ClientTyped, ClientPart
    <3>4. StoreTyped'
      <4>1. reply.rows \in Generations \cup {NoHeader}
        BY DEF ClientTyped
      <4> QED BY <2>1, <3>1, <4>1 DEF StoreTyped, Store!WriterStates
    <3>5. stored[totalPolls] = 0
      BY <2>1, <3>1 DEF Owned, BatchOfPoll
    <3>6. Owned'
      BY <2>1, <3>1, <3>2, <3>5
         DEF Owned, PollInHand, InBatch, BatchOfPoll, StoreTyped, ClientPart
    <3>7. \A n \in Polls : stored[n] = 1 => payload'[n] = payload[n]
      BY <3>1, <3>5 DEF StoreTyped
    <3>8. Newer' /\ Quiet'
      BY <3>1, <3>2, <3>7 DEF Newer, Quiet, ClientPart
    <3>9. AcknowledgedOnce' /\ TrackedIsDurable'
      BY <3>1, <3>2, <3>7 DEF AcknowledgedOnce, TrackedIsDurable, Durable, InDatabase,
                              ClientPart
    <3>10. Seen' /\ CountersAgree'
      BY <2>1, <3>1, <3>2, SameBlank DEF Seen, CountersAgree, ClientPart, StoreTyped
    <3> QED BY <3>3, <3>4, <3>6, <3>8, <3>9, <3>10
  <2>3. CASE IngestRejected \/ EndIngest
    <3>1. UNCHANGED <<payload, StorePart>>
      BY <2>3, SameStore DEF IngestRejected, EndIngest
    <3> USE <3>1
    <3>2. \/ /\ entry[totalPolls] \in {"new", "failed"}
             /\ poller' = "error" /\ ingested' = ingested
          \/ /\ entry[totalPolls] = "done" /\ poller' = "track" /\ InBatch
             /\ ingested' = [ingested EXCEPT ![reply.rows] = @ + 1]
      BY <2>3 DEF IngestRejected, EndIngest, Client!IngestBatch, Owned, PollInHand
    <3>3. UNCHANGED <<ctx, reply, lastDataTimestamp, totalPolls, successfulPolls,
                      clientStop>>
      BY <2>3 DEF IngestRejected, EndIngest, Client!IngestBatch
    <3>4. reply.rows \in Generations
      BY <2>1 DEF ClientTyped
    <3>5. ClientTyped'
      BY <2>1, <3>2, <3>3, <3>4 DEF ClientTyped
    <3>6. payload[totalPolls] = reply.rows \/ entry[totalPolls] = "new"
      BY <2>1 DEF Owned, PollInHand, InBatch
    <3>7. Owned'
      BY <2>1, <3>2, <3>3, <3>6 DEF Owned, PollInHand, InBatch, BatchOfPoll, StorePart
    <3>8. stored[totalPolls] = IF entry[totalPolls] = "done" THEN 1 ELSE 0
      BY <2>1, <3>2 DEF Owned, BatchOfPoll
    <3>9. Newer' /\ Quiet'
      BY <2>1, <3>2, <3>3, <3>8 DEF Newer, Quiet, StorePart
    <3>10. TrackedIsDurable'
      <4>1. ASSUME NEW g \in Generations, ingested'[g] > 0 PROVE Durable(g)
        BY <2>1, <3>2, <3>4, <3>6, <3>8, <4>1
           DEF TrackedIsDurable, Durable, InDatabase, ClientTyped
      <4> QED BY <3>3, <4>1 DEF TrackedIsDurable, Durable, InDatabase, StorePart
    <3>11. UNCHANGED TrackedBlank
      BY <3>2, <3>4 DEF TrackedBlank, InBatch, ClientTyped
    <3>12. Seen'
      BY <2>1, <3>2, <3>3, <3>4, <3>11 DEF Seen, ClientTyped
    <3>13. CountersAgree'
      BY <2>1, <3>2, <3>3, <3>11 DEF CountersAgree, StorePart
    <3> QED BY <3>5, <3>7, <3>9, <3>10, <3>12, <3>13, PollInv
  <2>4. CASE IngestNothing
    <3>1. UNCHANGED <<payload, StorePart>>
      BY <2>4, SameStore DEF IngestNothing
    <3> USE <3>1
    <3>2. /\ reply.rows \in Blank /\ reply.rows \in Generations
          /\ poller' = "track" /\ entry[totalPolls] = "new"
          /\ ingested' = [ingested EXCEPT ![reply.rows] = @ + 1]
      BY <2>1, <2>4 DEF IngestNothing, Client!IngestBatch, Owned, PollInHand, InBatch
    <3>3. UNCHANGED <<ctx, reply, lastDataTimestamp, totalPolls, successfulPolls,
                      clientStop>>
      BY <2>4 DEF IngestNothing, Client!IngestBatch
    <3>4. ClientTyped'
      BY <2>1, <3>2, <3>3 DEF ClientTyped
    <3>5. Owned'
      BY <2>1, <3>2, <3>3 DEF Owned, PollInHand, BatchOfPoll, StorePart
    <3>6. Newer' /\ Quiet'
      BY <2>1, <3>2, <3>3 DEF Newer, Quiet, StorePart
    <3>7. TrackedIsDurable'
      BY <3>2, <3>3 DEF TrackedIsDurable, Durable, InDatabase, StorePart, ClientTyped
    <3>8. ~(ingested[reply.rows] > 0)
      BY <2>1, <3>2, NumbersNat DEF Seen, Newer
    <3>9. /\ TrackedBlank' = TrackedBlank \cup {reply.rows}
          /\ reply.rows \notin TrackedBlank
      BY <3>2, <3>8 DEF TrackedBlank, ClientTyped
    <3>10. /\ IsFiniteSet(TrackedBlank')
           /\ Cardinality(TrackedBlank') = Cardinality(TrackedBlank) + 1
      BY <3>9, FS_AddElement DEF Seen
    <3>11. Seen'
      BY <2>1, <3>2, <3>3, <3>10 DEF Seen, ClientTyped
    <3>12. CountersAgree'
      <4>1. /\ totalDBWrites' = totalDBWrites /\ totalDBWrites \in Nat
            /\ successfulPolls' = successfulPolls /\ successfulPolls \in Nat
            /\ Cardinality(TrackedBlank) \in Nat
        BY <3>1, <3>3, BlankCount DEF StorePart, ClientTyped, StoreTyped
      <4>2. totalDBWrites + Cardinality(TrackedBlank) = successfulPolls
        BY <2>1, <3>2, <4>1 DEF CountersAgree
      <4> HIDE DEF IInv
      <4>3. totalDBWrites' + Cardinality(TrackedBlank') = successfulPolls' + 1
        BY <3>10, <4>1, <4>2
      <4> QED BY <3>2, <4>3 DEF CountersAgree
    <3> QED BY <3>4, <3>5, <3>6, <3>7, <3>11, <3>12, PollInv
  <2> QED BY <1>2, <2>2, <2>3, <2>4 DEF Ingest
<1> QED BY <1>1, <1>2 DEF Poll

-----------------------------------------------------------------------------
(***************************************************************************)
(* Main, its handlers and the rest of the store.                           *)
(***************************************************************************)
LEMMA StepInv == IInv /\ [Next]_vars => IInv'
<1> SUFFICES ASSUME IInv, [Next]_vars PROVE IInv'
  OBVIOUS
<1>0. ASSUME UNCHANGED <<payload, clientVars, storeVars>> PROVE IInv'
  <2>1. UNCHANGED ClientPart /\ UNCHANGED StorePart
    BY <1>0, SameClient, SameStore
  <2> QED BY <1>0, <2>1, SameInv DEF ClientPart
<1>1. CASE newServices \/ Listen \/ Serve \/ BeginQuery \/ EndQuery \/ Signal
           \/ DeadlinePasses \/ GracefulStop \/ stopHttpServer
           \/ closeServiceContext \/ awaitShutdown
  BY <1>0, <1>1 DEF newServices, Listen, Serve, BeginQuery, EndQuery, Signal,
       DeadlinePasses, GracefulStop, stopHttpServer, closeServiceContext, awaitShutdown
<1>2. CASE StartTelemetry \/ StopTelemetry
  <2>1. UNCHANGED StorePart
    BY <1>2, SameStore DEF StartTelemetry, StopTelemetry, Store!Start,
       Store!StopCancel, Store!StopGraceful, Store!StopTimedOut, Store!callVars,
       Store!writeVars, Store!stats, Store!dbVars, StorePart
  <2>2. UNCHANGED ClientPart /\ payload' = payload
    BY <1>2, SameClient DEF StartTelemetry, StopTelemetry
  <2> QED BY <2>1, <2>2, SameInv DEF ClientPart
<1>3. CASE StopClient
  <2>1. UNCHANGED StorePart /\ payload' = payload
    BY <1>3, SameStore DEF StopClient
  <2>2. /\ UNCHANGED <<poller, reply, lastDataTimestamp, totalPolls,
                      successfulPolls, ingested>>
        /\ ctx' = ctx \/ ctx' = "cancelled"
        /\ clientStop' = "graceful" => poller = "exited"
    BY <1>3 DEF StopClient, Client!Stop, Client!StopGraceful, Client!StopTimedOut,
                Client!trackVars, Client!statVars
  <2> QED BY <2>1, <2>2, SameInv
<1>4. CASE StartClient
  <2>1. CASE UNCHANGED clientVars
    BY <1>0, <1>4, <2>1 DEF StartClient
  <2>2. CASE Client!Start
    <3>1. UNCHANGED <<payload, StorePart>>
      BY <1>4, SameStore DEF StartClient
    <3>2. poller = "none" /\ poller' = "delay"
      BY <2>2 DEF Client!Start, Client!Goto, IInv, ClientTyped
    <3>3. /\ ctx' = "live"
          /\ UNCHANGED <<reply, lastDataTimestamp, totalPolls, successfulPolls,
                         clientStop, ingested>>
      BY <2>2 DEF Client!Start, Client!trackVars, Client!statVars
    <3>4. ClientTyped' /\ Owned'
      BY <3>1, <3>2, <3>3 DEF IInv, ClientTyped, Owned, PollInHand, BatchOfPoll,
                              StorePart
    <3>5. Newer' /\ Seen' /\ Quiet' /\ TrackedIsDurable' /\ CountersAgree'
      BY <3>1, <3>2, <3>3, SameBlank
         DEF IInv, Newer, Seen, Quiet, TrackedIsDurable, Durable, InDatabase,
             CountersAgree, StorePart
    <3> QED BY <3>1, <3>4, <3>5, PollInv
  <2> QED BY <1>4, <2>1, <2>2 DEF StartClient
<1>5. CASE Background
  <2>1. CASE Poll
    BY <2>1, PollStepInv
  <2>2. CASE PollerLeaves
    <3>1. UNCHANGED <<payload, StorePart>>
      BY <2>2, SameStore DEF PollerLeaves
    <3>2. /\ poller = "select" /\ poller' = "exited"
          /\ UNCHANGED <<ctx, reply, lastDataTimestamp, totalPolls, successfulPolls,
                         clientStop, ingested>>
      BY <2>2 DEF PollerLeaves, Client!WorkerExit, Client!Goto, Client!lifeVars,
                  Client!trackVars, Client!statVars
    <3>3. ClientTyped' /\ Owned'
      BY <3>1, <3>2 DEF IInv, ClientTyped, Owned, PollInHand, BatchOfPoll, StorePart
    <3>4. Newer' /\ Seen' /\ Quiet' /\ TrackedIsDurable' /\ CountersAgree'
      BY <3>1, <3>2, SameBlank
         DEF IInv, Newer, Seen, Quiet, TrackedIsDurable, Durable, InDatabase,
             CountersAgree, StorePart
    <3> QED BY <3>1, <3>3, <3>4, PollInv
  <2>3. CASE StoreStep
    <3>1. ASSUME NEW n \in Polls, Store!WriteStep(n) PROVE IInv'
      BY <2>3, <3>1, WriteInv DEF StoreStep
    <3>2. CASE Store!WorkerStep \/ Store!HelpersExit
      <4>1. UNCHANGED StorePart
        BY <3>2 DEF Store!WorkerStep, Store!WorkerTake, Store!WorkerDrain,
           Store!WorkerExit, Store!HelpersExit, Store!callVars, Store!writeVars,
           Store!stats, Store!dbVars, StorePart, IInv, StoreTyped
      <4>2. UNCHANGED ClientPart /\ payload' = payload
        BY <2>3, SameClient DEF StoreStep
      <4> QED BY <4>1, <4>2, SameInv DEF ClientPart
    <3> QED BY <2>3, <3>1, <3>2 DEF StoreStep
  <2> QED BY <1>5, <2>1, <2>2, <2>3 DEF Background
<1>6. CASE UNCHANGED vars
  BY <1>0, <1>6 DEF vars
<1> QED BY <1>1, <1>2, <1>3, <1>4, <1>5, <1>6 DEF Next, Starting, Ending

LEMMA Inductive == Spec => []IInv
BY InitInv, StepInv, PTL DEF Spec

(* Type correctness of the process, TypeOK: what newServices built, the    *)
(* place of main and the HTTP server.                                      *)
THEOREM TypeCorrect == Spec => []TypeOK
<1>1. Init => TypeOK
  <2> SUFFICES ASSUME Init PROVE TypeOK
    OBVIOUS
  <2>1. payload \in [Polls -> Generations \cup {NoHeader}]
    BY DEF Init
  <2>2. queries \in 0..MaxQueries
    BY MaxQueriesAssumption DEF Init
  <2>3. main = "newServices" /\ services = {} /\ http = "created" /\ deadline = FALSE
    BY DEF Init
  <2> QED BY <2>1, <2>2, <2>3 DEF TypeOK
<1>2. TypeOK /\ StoreTyped' /\ [Next]_vars => TypeOK'
  <2> SUFFICES ASSUME TypeOK, StoreTyped', [Next]_vars PROVE TypeOK'
    OBVIOUS
  <2>0. payload' \in [Polls -> Generations \cup {NoHeader}]
    BY DEF StoreTyped
  <2> USE MaxQueriesAssumption, <2>0 DEF TypeOK, Stopping, Dead
  <2>1. CASE Background \/ UNCHANGED vars
    BY <2>1 DEF Background, vars, appVars
  <2>2. CASE Starting
    BY <2>2 DEF Starting, newServices, StartTelemetry, StartClient, Listen
  <2>3. CASE BeginQuery \/ EndQuery
    <3>1. queries' \in 0..MaxQueries
      BY <2>3 DEF BeginQuery, EndQuery
    <3>2. UNCHANGED <<main, services, http, deadline>>
      BY <2>3 DEF BeginQuery, EndQuery
    <3> QED BY <3>1, <3>2
  <2>5. CASE Serve \/ Signal \/ GracefulStop
    BY <2>5 DEF Serve, Signal, GracefulStop
  <2>6. CASE DeadlinePasses
    BY <2>6 DEF DeadlinePasses
  <2>4. CASE Ending
    BY <2>4 DEF Ending, StopClient, StopTelemetry, stopHttpServer,
                closeServiceContext, awaitShutdown
  <2> QED BY <2>1, <2>2, <2>3, <2>4, <2>5, <2>6 DEF Next
<1>3. IInv => StoreTyped
  BY DEF IInv
<1> QED BY <1>1, <1>2, <1>3, Inductive, PTL DEF Spec

(* What the client takes for seen is in the database as far as it could be *)
(* read, TrackedIsDurable: however many attempts and acknowledgements are  *)
(* lost, a tracked generation has an acknowledged batch, or no readable    *)
(* row, which IngestBatch takes for a success (service.go:91-93,           *)
(* generator_client.go:385-401, 265-270).                                  *)
THEOREM TrackedHoldsInDatabase == Spec => []TrackedIsDurable
<1>1. IInv => TrackedIsDurable
  BY DEF IInv
<1> QED BY <1>1, Inductive, PTL

(* The rows of a generation are acknowledged at most once,                 *)
(* AcknowledgedOnce, however often they are served and retried             *)
(* (generator_client.go:227-270, hybrid.go:519-570).                       *)
THEOREM RowsAcknowledgedOnce == Spec => []AcknowledgedOnce
<1>1. IInv => AcknowledgedOnce
  BY DEF IInv
<1> QED BY <1>1, Inductive, PTL

(* The counters of the client and of the store tell the same story,        *)
(* CountersAgree, at every step of a poll: they differ by the generations  *)
(* without a readable row that were tracked, each of which counts one      *)
(* successful poll, however often it is served (service.go:91-93,          *)
(* generator_client.go:269).                                               *)
THEOREM CountersTellTheSame == Spec => []CountersAgree
<1>1. IInv => CountersAgree
  BY DEF IInv
<1> QED BY <1>1, Inductive, PTL

(* A client that stopped in time left no write behind that the database    *)
(* could be closed under, QuietStopEndsIngest.                             *)
THEOREM GracefulClientLeavesNoWrite == Spec => []QuietStopEndsIngest
<1>1. IInv => QuietStopEndsIngest
  BY DEF IInv, Quiet, Owned, BatchOfPoll, QuietStopEndsIngest
<1> QED BY <1>1, Inductive, PTL

-----------------------------------------------------------------------------
(***************************************************************************)
(* The store in the process.  Every step of the process is one of the      *)
(* store, with the polls as its bulk batches, or leaves the store alone:   *)
(* what HybridStoreProofs proves of the store by itself holds here.        *)
(***************************************************************************)
StoreProofs ==
  INSTANCE HybridStoreProofs
    WITH QueueBatches <- {}, BulkBatches <- Polls, Flushers <- {},
         QueueCap <- 100, pc <- writer, stop <- storeStop,
         Items <- [S \in SUBSET Polls |-> Cardinality(S)]

(* The assumptions of HybridStore on its constants, as they are here.      *)
LEMMA BatchesDisjoint == {} \cap Polls = {}
OBVIOUS

LEMMA WritersDisjoint == FlushWorker \notin {} \cup Polls /\ {} \cap Polls = {}
OBVIOUS

LEMMA BoundsFit == 100 \in Nat /\ MaxRetries \in Nat \ {0} /\ Faults \in BOOLEAN
OBVIOUS

LEMMA CardinalityAdds ==
  LET Items == [S \in SUBSET Polls |-> Cardinality(S)]
  IN  /\ Items \in [SUBSET StoreProofs!Batches -> Nat]
      /\ Items[{}] = 0
      /\ \A S, T \in SUBSET StoreProofs!Batches :
            S \cap T = {} => Items[S \cup T] = Items[S] + Items[T]
<1>1. StoreProofs!Batches = Polls
  BY DEF StoreProofs!Batches
<1>2. IsFiniteSet(Polls)
  BY FS_Interval
<1>3. \A S \in SUBSET Polls : IsFiniteSet(S) /\ Cardinality(S) \in Nat
  BY <1>2, FS_Subset, FS_CardinalityType
<1>4. Cardinality({}) = 0
  BY FS_EmptySet
<1>5. ASSUME NEW S \in SUBSET Polls, NEW T \in SUBSET Polls, S \cap T = {}
      PROVE  Cardinality(S \cup T) = Cardinality(S) + Cardinality(T)
  <2>1. Cardinality(S \cup T)
          = Cardinality(S) + Cardinality(T) - Cardinality(S \cap T)
    BY <1>3, FS_Union
  <2>2. Cardinality(S) \in Nat /\ Cardinality(T) \in Nat
    BY <1>3
  <2>3. Cardinality(S \cap T) = 0
    BY <1>4, <1>5
  <2> QED BY <2>1, <2>2, <2>3
<1> QED BY <1>1, <1>3, <1>4, <1>5

LEMMA SameStoreVars == UNCHANGED storeVars => UNCHANGED Store!vars
BY DEF storeVars, Store!vars, Store!callVars, Store!writeVars, Store!lifeVars,
       Store!stats, Store!dbVars

LEMMA StepOfStore == IInv /\ [Next]_vars => [Store!Next]_(Store!vars)
<1> SUFFICES ASSUME IInv, [Next]_vars PROVE [Store!Next]_(Store!vars)
  OBVIOUS
<1>1. CASE newServices \/ Listen \/ Serve \/ BeginQuery \/ EndQuery \/ Signal
           \/ DeadlinePasses \/ GracefulStop \/ stopHttpServer
           \/ closeServiceContext \/ awaitShutdown
           \/ StartClient \/ StopClient
  BY <1>1, SameStoreVars DEF newServices, Listen, Serve, BeginQuery, EndQuery, Signal,
     DeadlinePasses, GracefulStop, stopHttpServer, closeServiceContext, awaitShutdown,
     StartClient, StopClient
<1>2. CASE StartTelemetry \/ StopTelemetry
  BY <1>2, SameStoreVars DEF StartTelemetry, StopTelemetry, Store!Next
<1>3. CASE Background
  <2>1. CASE Poll
    <3>1. CASE BeginIngest
      <4>1. totalPolls \in Polls /\ Store!StoreMetricsBulk(totalPolls)
        BY <3>1 DEF BeginIngest, IInv, ClientTyped
      <4> QED BY <4>1 DEF Store!Next
    <3>2. CASE ~BeginIngest
      <4>1. UNCHANGED storeVars
        BY <2>1, <3>2 DEF Poll, Ingest, IngestNothing, IngestRejected, EndIngest
      <4> QED BY <4>1, SameStoreVars
    <3> QED BY <3>1, <3>2
  <2>2. CASE PollerLeaves
    BY <2>2, SameStoreVars DEF PollerLeaves
  <2>3. CASE StoreStep
    BY <2>3, StoreBatches DEF StoreStep, Store!Next
  <2> QED BY <1>3, <2>1, <2>2, <2>3 DEF Background
<1>4. CASE UNCHANGED vars
  BY <1>4, SameStoreVars DEF vars
<1> QED BY <1>1, <1>2, <1>3, <1>4 DEF Next, Starting, Ending

(* The store of the process is the store of HybridStore: newServices, the  *)
(* client, the handlers and the order of the shutdown make only calls that *)
(* HybridStore has (app.go:129-236, service.go:90-118).                    *)
THEOREM StoreInProcess == Spec => Store!Spec
<1>1. Init => Store!Init
  BY DEF Init
<1> QED BY <1>1, StepOfStore, Inductive, PTL DEF Spec, Store!Spec

(* Store and StoreProofs have the same definitions over the same state.    *)
LEMMA SameInit == Store!Init <=> StoreProofs!Init
BY DEF Store!Init, StoreProofs!Init, Store!Batches, StoreProofs!Batches,
       Store!Writers, StoreProofs!Writers

LEMMA SameNext == [Store!Next]_(Store!vars) <=> [StoreProofs!Next]_(StoreProofs!vars)
<1>1. Store!vars = StoreProofs!vars /\ Store!vars' = StoreProofs!vars'
  BY DEF Store!vars, StoreProofs!vars, Store!callVars, StoreProofs!callVars,
         Store!writeVars, StoreProofs!writeVars,
         Store!lifeVars, StoreProofs!lifeVars, Store!dbVars,
         StoreProofs!dbVars, Store!stats, StoreProofs!stats
<1>2. Store!Next <=> StoreProofs!Next
  BY DEF Store!Next, StoreProofs!Next,
     Store!Batches, StoreProofs!Batches, Store!Writers, StoreProofs!Writers,
     Store!callVars, StoreProofs!callVars, Store!writeVars,
     StoreProofs!writeVars, Store!lifeVars, StoreProofs!lifeVars,
     Store!dbVars, StoreProofs!dbVars, Store!stats, StoreProofs!stats,
     Store!Start, StoreProofs!Start, Store!UpdateStep, StoreProofs!UpdateStep,
     Store!UpdateCache, StoreProofs!UpdateCache, Store!Enqueue,
     StoreProofs!Enqueue, Store!QueueFull, StoreProofs!QueueFull,
     Store!CountUpdate, StoreProofs!CountUpdate, Store!StoreMetricsBulk,
     StoreProofs!StoreMetricsBulk, Store!BeginWrite, StoreProofs!BeginWrite,
     Store!WriteStep, StoreProofs!WriteStep, Store!CheckContext,
     StoreProofs!CheckContext, Store!BeginTx, StoreProofs!BeginTx,
     Store!Commit, StoreProofs!Commit, Store!Plus, StoreProofs!Plus,
     Store!TxFailed, StoreProofs!TxFailed, Store!AfterFailure,
     StoreProofs!AfterFailure, Store!CountWrite, StoreProofs!CountWrite,
     Store!BackOff, StoreProofs!BackOff, Store!GiveUp, StoreProofs!GiveUp,
     Store!EndWrite, StoreProofs!EndWrite, Store!Cancelled,
     StoreProofs!Cancelled, Store!ContextEnds, StoreProofs!ContextEnds,
     Store!FlushBegin, StoreProofs!FlushBegin, Store!FlushStep,
     StoreProofs!FlushStep, Store!FlushCollect, StoreProofs!FlushCollect,
     Store!FlushWrite, StoreProofs!FlushWrite, Store!WorkerStep,
     StoreProofs!WorkerStep, Store!WorkerTake, StoreProofs!WorkerTake,
     Store!WorkerDrain, StoreProofs!WorkerDrain, Store!WorkerExit,
     StoreProofs!WorkerExit, Store!HelpersExit, StoreProofs!HelpersExit,
     Store!StopCancel, StoreProofs!StopCancel, Store!StopGraceful,
     StoreProofs!StopGraceful, Store!AllExited, StoreProofs!AllExited,
     Store!StopTimedOut, StoreProofs!StopTimedOut
<1> QED BY <1>1, <1>2

LEMMA StoreSpecHolds == Spec => StoreProofs!Spec
BY StoreInProcess, SameInit, SameNext, PTL DEF Store!Spec, StoreProofs!Spec

(* Whatever the poller, the shutdown and the database do, a batch of the   *)
(* process is refused, stored or lost once and for all: the store in the   *)
(* process implements DurableSink (hybrid.go:212-284, service.go:90-118).  *)
THEOREM StoreKeepsPromise == Spec => Store!ImplementsSink
<1> USE DEF Store!Batches, StoreProofs!Batches
<1> DEFINE status        == [b \in Store!Batches |-> Store!StatusOf(b)]
           statusOfProof == [b \in StoreProofs!Batches |-> StoreProofs!StatusOf(b)]
<1>1. StoreProofs!ImplementsSink => Store!ImplementsSink
  <2>1. status = statusOfProof /\ status' = statusOfProof'
    BY DEF Store!StatusOf, StoreProofs!StatusOf, Store!InDB, StoreProofs!InDB,
       Store!Queued, StoreProofs!Queued, Store!Held, StoreProofs!Held,
       Store!Writers, StoreProofs!Writers
  <2>2. StoreProofs!Sink!Init => Store!Sink!Init
    BY <2>1 DEF StoreProofs!Sink!Init, Store!Sink!Init
  <2>3. [StoreProofs!Sink!Next]_statusOfProof => [Store!Sink!Next]_status
    <3>1. ASSUME NEW S, NEW from, NEW to, StoreProofs!Sink!Move(S, from, to)
          PROVE  Store!Sink!Move(S, from, to)
      BY <2>1, <3>1, Zenon DEF StoreProofs!Sink!Move, Store!Sink!Move
    <3>2. StoreProofs!Sink!Next => Store!Sink!Next
      BY <3>1 DEF StoreProofs!Sink!Next, Store!Sink!Next, StoreProofs!Sink!Offer,
         Store!Sink!Offer, StoreProofs!Sink!Refuse, Store!Sink!Refuse,
         StoreProofs!Sink!Persist, Store!Sink!Persist, StoreProofs!Sink!Lose,
         Store!Sink!Lose
    <3> HIDE DEF status, statusOfProof
    <3> QED BY <2>1, <3>2
  <2> QED
    BY <2>2, <2>3, PTL DEF Store!ImplementsSink, StoreProofs!ImplementsSink,
       Store!Sink!Spec, StoreProofs!Sink!Spec
<1>2. StoreProofs!Spec => StoreProofs!ImplementsSink
  BY StoreProofs!StoreImplementsSink, BatchesDisjoint, WritersDisjoint, BoundsFit,
     CardinalityAdds
<1> QED BY <1>1, <1>2, StoreSpecHolds

(* In the process a batch is with one writer, is acknowledged once, costs  *)
(* at most MaxRetries copies, and is counted; flushWorker stays until Stop,*)
(* and a store that stopped in time has no goroutine left: OwnedOnce,      *)
(* StoredOnce, StatsAgree, WorkerStays and GracefulStopIsQuiet of          *)
(* HybridStore (hybrid.go:164-208, 438-570).                               *)
THEOREM StoreIsSafe ==
  Spec => [](/\ Store!OwnedOnce /\ Store!StoredOnce /\ Store!StatsAgree
             /\ Store!WorkerStays /\ Store!GracefulStopIsQuiet)
<1>1. StoreProofs!Spec => [](/\ StoreProofs!OwnedOnce /\ StoreProofs!StoredOnce
                            /\ StoreProofs!StatsAgree
                            /\ StoreProofs!WorkerStays
                            /\ StoreProofs!GracefulStopIsQuiet)
  <2>1. StoreProofs!Spec => []StoreProofs!OwnedOnce
    BY StoreProofs!Ownership, BatchesDisjoint, WritersDisjoint, BoundsFit, CardinalityAdds
  <2>2. StoreProofs!Spec => []StoreProofs!StoredOnce
    BY StoreProofs!StoredAtMostOnce, BatchesDisjoint, WritersDisjoint, BoundsFit,
       CardinalityAdds
  <2>3. StoreProofs!Spec => []StoreProofs!StatsAgree
    BY StoreProofs!CountersAgree, BatchesDisjoint, WritersDisjoint, BoundsFit,
       CardinalityAdds
  <2>4. StoreProofs!Spec => []StoreProofs!GracefulStopIsQuiet
    BY StoreProofs!GracefulStop, BatchesDisjoint, WritersDisjoint, BoundsFit,
       CardinalityAdds
  <2>5. StoreProofs!Spec => []StoreProofs!WorkerStays
    BY StoreProofs!WorkerNeverLeaves, BatchesDisjoint, WritersDisjoint, BoundsFit,
       CardinalityAdds
  <2> QED BY <2>1, <2>2, <2>3, <2>4, <2>5, PTL
<1>2. StoreProofs!OwnedOnce => Store!OwnedOnce
  BY DEF Store!OwnedOnce, StoreProofs!OwnedOnce, Store!QueueOwned, StoreProofs!QueueOwned,
     Store!LoadOwned, StoreProofs!LoadOwned, Store!BulkOwned, StoreProofs!BulkOwned,
     Store!IdleUnloaded, StoreProofs!IdleUnloaded, Store!Accepted, StoreProofs!Accepted,
     Store!Writers, StoreProofs!Writers
<1>3. StoreProofs!StoredOnce => Store!StoredOnce
  BY DEF Store!StoredOnce, StoreProofs!StoredOnce, Store!Batches, StoreProofs!Batches
<1>4. StoreProofs!StatsAgree => Store!StatsAgree
  BY DEF Store!StatsAgree, StoreProofs!StatsAgree, Store!Batches, StoreProofs!Batches,
     Store!Acknowledged, StoreProofs!Acknowledged, Store!Uncounted, StoreProofs!Uncounted,
     Store!Writers, StoreProofs!Writers
<1>5. StoreProofs!GracefulStopIsQuiet => Store!GracefulStopIsQuiet
  BY DEF Store!GracefulStopIsQuiet, StoreProofs!GracefulStopIsQuiet
<1>6. StoreProofs!WorkerStays => Store!WorkerStays
  BY DEF Store!WorkerStays, StoreProofs!WorkerStays
<1> QED BY <1>1, <1>2, <1>3, <1>4, <1>5, <1>6, StoreSpecHolds, PTL

-----------------------------------------------------------------------------
(***************************************************************************)
(* The order of the commits.                                               *)
(***************************************************************************)
Lands(n) == stored'[n] # stored[n] \/ orphaned'[n] # orphaned[n]

DbPart == <<stored, orphaned>>

LEMMA SameDb == UNCHANGED storeVars => UNCHANGED DbPart
BY DEF storeVars, DbPart

LEMMA RowsTyped == Spec => [](orphaned \in [Polls -> Nat])
<1>1. StoreProofs!Spec => []StoreProofs!TypeOK
  BY StoreProofs!TypeCorrect, BatchesDisjoint, WritersDisjoint, BoundsFit, CardinalityAdds
<1>2. StoreProofs!TypeOK => orphaned \in [Polls -> Nat]
  BY DEF StoreProofs!TypeOK, StoreProofs!Batches
<1> QED BY <1>1, <1>2, StoreSpecHolds, PTL

(* Rows land in the database by a transaction of the batch in hand only.   *)
LEMMA OnlyTransactionsLand ==
  ASSUME IInv, orphaned \in [Polls -> Nat], [Next]_vars, NEW n \in Polls, Lands(n)
  PROVE  n = totalPolls /\ poller = "ingest" /\ writer[n] = "tx"
<1> USE DEF Lands, DbPart
<1>1. ~UNCHANGED DbPart /\ ~UNCHANGED storeVars
  BY SameDb
<1>2. ASSUME NEW m \in Polls, Store!WriteStep(m)
      PROVE  writer[m] = "tx" /\ (stored' = Store!Plus(stored, load[m])
                                  \/ orphaned' = Store!Plus(orphaned, load[m]))
  BY <1>1, <1>2 DEF Store!WriteStep, Store!CheckContext, Store!BeginTx, Store!Commit,
     Store!TxFailed, Store!CountWrite, Store!BackOff, Store!GiveUp, Store!dbVars
<1>3. PICK m \in Polls : Store!WriteStep(m)
  <2>1. CASE newServices \/ Listen \/ Serve \/ BeginQuery \/ EndQuery \/ Signal
             \/ DeadlinePasses \/ GracefulStop \/ stopHttpServer
             \/ closeServiceContext \/ awaitShutdown
             \/ StartClient \/ StopClient \/ UNCHANGED vars
    BY <1>1, <2>1 DEF newServices, Listen, Serve, BeginQuery, EndQuery, Signal,
       DeadlinePasses, GracefulStop, stopHttpServer, closeServiceContext, awaitShutdown,
       StartClient, StopClient, vars
  <2>2. CASE StartTelemetry \/ StopTelemetry
    BY <1>1, <2>2 DEF StartTelemetry, StopTelemetry, Store!Start, Store!StopCancel,
       Store!StopGraceful, Store!StopTimedOut, Store!dbVars
  <2>3. CASE Background
    <3>1. ~BeginIngest
      BY <1>1 DEF BeginIngest, Store!StoreMetricsBulk, Store!dbVars
    <3>2. ~Poll /\ ~PollerLeaves
      BY <1>1, <3>1 DEF Poll, PollerLeaves, Ingest, IngestNothing, IngestRejected,
                        EndIngest
    <3>3. ~Store!WorkerStep /\ ~Store!HelpersExit
      BY <1>1 DEF Store!WorkerStep, Store!WorkerTake, Store!WorkerDrain,
         Store!WorkerExit, Store!HelpersExit, Store!dbVars
    <3> QED BY <2>3, <3>2, <3>3 DEF Background, StoreStep
  <2> QED BY <2>1, <2>2, <2>3 DEF Next, Starting, Ending
<1>4. writer[m] = "tx" /\ m = totalPolls /\ poller = "ingest" /\ load[m] = {m}
  BY <1>2, <1>3 DEF IInv, Owned, BatchOfPoll
<1>5. n = m
  <2>1. CASE n # m
    <3>1. /\ stored' = stored \/ stored' = Store!Plus(stored, {m})
          /\ orphaned' = orphaned \/ orphaned' = Store!Plus(orphaned, {m})
      BY <1>3, <1>4 DEF Store!WriteStep, Store!CheckContext, Store!BeginTx,
         Store!Commit, Store!TxFailed, Store!CountWrite, Store!BackOff, Store!GiveUp,
         Store!dbVars
    <3>2. stored[n] \in Nat /\ orphaned[n] \in Nat
      BY DEF IInv, StoreTyped
    <3> QED BY <2>1, <3>1, <3>2, StoreBatches DEF Store!Plus
  <2> QED BY <2>1
<1> QED BY <1>4, <1>5

(* Rows reach the database in the order of their generations,              *)
(* CommittedInOrder: no retry, lost answer or repeated generation writes   *)
(* rows that are not newer than all the acknowledged ones                  *)
(* (generator_client.go:215-273, hybrid.go:519-570).                       *)
THEOREM CommitsFollowGenerations == Spec => CommittedInOrder
<1> DEFINE A == \A n \in Polls : stored'[n] # stored[n] \/ orphaned'[n] # orphaned[n] =>
                  \A m \in Polls : stored[m] = 1 => payload[m] < payload[n]
<1>1. IInv /\ orphaned \in [Polls -> Nat] /\ [Next]_vars => [A]_vars
  <2> SUFFICES ASSUME IInv, orphaned \in [Polls -> Nat], Next,
                      NEW n \in Polls, Lands(n), NEW m \in Polls, stored[m] = 1
               PROVE  payload[m] < payload[n]
    BY DEF Lands
  <2>1. n = totalPolls /\ poller = "ingest" /\ writer[n] = "tx"
    BY OnlyTransactionsLand
  <2>2. entry[n] = "writing" /\ stored[n] = 0
    BY <2>1 DEF IInv, Owned, BatchOfPoll
  <2>3. payload[n] = reply.rows /\ reply.rows > lastDataTimestamp
    BY <2>1, <2>2 DEF IInv, Owned, PollInHand, InBatch, Newer
  <2>4. payload[m] <= lastDataTimestamp
    BY <2>1, <2>2 DEF IInv, Newer
  <2> QED BY <2>3, <2>4, NumbersNat
<1> QED BY <1>1, Inductive, RowsTyped, PTL DEF Spec, CommittedInOrder

-----------------------------------------------------------------------------
(***************************************************************************)
(* The end of the process.  Before the deadline, main has waited for each  *)
(* part before it went on to the next.                                     *)
(***************************************************************************)
Ended ==
  /\ storeStop \in {"graceful", "timedOut"} => ~dbOpen
  /\ main \in {"stopHttp", "await", "awaitServer", "exited"} /\ ~deadline
       => storeStop = "graceful"
  /\ http = "closed" => queries = 0
  /\ http = "cut" => deadline
  /\ main = "exited" /\ ~deadline => http = "closed"

LEMMA StepEnded ==
  ASSUME Ended, TypeOK, [Next]_vars
  PROVE  Ended'
<1> USE DEF Ended, Stopping, Dead
<1>0. ASSUME UNCHANGED <<main, deadline, http, queries>>,
             UNCHANGED <<storeStop, dbOpen>>
      PROVE  Ended'
  BY <1>0
<1>s. UNCHANGED storeVars => UNCHANGED <<storeStop, dbOpen>>
  BY DEF storeVars
<1>1. CASE newServices \/ Listen \/ Signal \/ StartClient \/ StopClient
  BY <1>1, <1>s DEF newServices, Listen, Signal, StartClient, StopClient
<1>2. CASE StartTelemetry
  BY <1>2, <1>s DEF StartTelemetry, Store!Start, Store!dbVars
<1>3. CASE Serve \/ BeginQuery \/ EndQuery \/ GracefulStop
  BY <1>3, <1>s DEF Serve, BeginQuery, EndQuery, GracefulStop
<1>4. CASE DeadlinePasses
  BY <1>4, <1>s DEF DeadlinePasses
<1>5. CASE StopTelemetry
  BY <1>5 DEF StopTelemetry, Store!StopCancel, Store!StopGraceful, Store!StopTimedOut,
     Store!dbVars
<1>6. CASE stopHttpServer \/ closeServiceContext \/ awaitShutdown
  BY <1>6, <1>s DEF stopHttpServer, closeServiceContext, awaitShutdown
<1>7. CASE Background
  <2>1. UNCHANGED <<main, deadline, http, queries>>
    BY <1>7 DEF Background, appVars
  <2>2. CASE Poll \/ PollerLeaves
    <3>1. UNCHANGED <<storeStop, dbOpen>>
      BY <1>s, <2>2 DEF Poll, PollerLeaves, Ingest, IngestNothing, IngestRejected,
         BeginIngest, EndIngest, Store!StoreMetricsBulk, Store!lifeVars, Store!dbVars
    <3> QED BY <1>0, <2>1, <3>1
  <2>3. CASE StoreStep
    <3>1. ASSUME NEW n \in Polls, Store!WriteStep(n)
          PROVE  UNCHANGED <<storeStop, dbOpen>>
      BY <3>1 DEF Store!WriteStep, Store!CheckContext, Store!BeginTx, Store!Commit,
         Store!TxFailed, Store!CountWrite, Store!BackOff, Store!GiveUp,
         Store!lifeVars, Store!dbVars
    <3>2. CASE Store!WorkerStep \/ Store!HelpersExit
      BY <1>0, <2>1, <3>2 DEF Store!WorkerStep, Store!WorkerTake, Store!WorkerDrain,
         Store!WorkerExit, Store!HelpersExit, Store!lifeVars, Store!dbVars
    <3> QED BY <1>0, <2>1, <2>3, <3>1, <3>2 DEF StoreStep
  <2> QED BY <1>7, <2>2, <2>3 DEF Background
<1>8. CASE UNCHANGED vars
  BY <1>0, <1>8 DEF vars, appVars, storeVars
<1> QED BY <1>1, <1>2, <1>3, <1>4, <1>5, <1>6, <1>7, <1>8 DEF Next, Starting, Ending

(* A process that exits within its 10 s has stopped everything in order,   *)
(* CleanExit: handlers, store, database and a client that left in time     *)
(* (app.go:171-236, http/server.go:109-131, hybrid.go:164-208).            *)
THEOREM TimelyExitIsClean == Spec => []CleanExit
<1>1. Init => Ended
  BY DEF Init, Ended, Store!Init
<1>2. Ended /\ TypeOK /\ [Next]_vars => Ended'
  BY StepEnded
<1>3. Ended /\ IInv /\ Store!GracefulStopIsQuiet => CleanExit
  BY DEF Ended, IInv, Quiet, Owned, BatchOfPoll, Store!GracefulStopIsQuiet, CleanExit
<1> QED BY <1>1, <1>2, <1>3, TypeCorrect, Inductive, StoreIsSafe, PTL DEF Spec
=============================================================================
