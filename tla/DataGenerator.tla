--------------------------- MODULE DataGenerator ---------------------------
(***************************************************************************)
(* The generator service (cmd/generator/main.go): it prepares one          *)
(* generation of CSV data at a time and serves the last one on /counters.  *)
(*                                                                         *)
(* A generation is the instant `now` at which it was begun: its            *)
(* generationID, its cacheTime and the first timestamp of its rows are all *)
(* that instant, and dataCache stands for the rows together with cacheTime *)
(* and lastGeneration, which are replaced under one lock.  The clock of    *)
(* the machine is assumed not to be set back.                              *)
(***************************************************************************)
EXTENDS Naturals

CONSTANT MaxGenerations     \* bound on the generations begun

ASSUME MaxGenerationsAssumption == MaxGenerations \in Nat \ {0}

VARIABLES clock,        \* the generations begun by any process so far
          generationID, \* written by generateData without the lock
          dataCache,    \* the generation whose rows are served
          generating,   \* generateData runs (its local `now` is the clock)
          serving       \* the router runs: the first generation is complete

genVars == <<clock, generationID, dataCache, generating, serving>>

NoData == 0             \* no generation: the zero time, the empty cache

GenInit == /\ clock = 0
           /\ generationID = NoData
           /\ dataCache = NoData
           /\ generating = FALSE
           /\ serving = FALSE

(* The start of generateData, from main or from the ticker: the new ID is  *)
(* visible from here on, while the old data are still served.              *)
BeginGeneration ==
  /\ ~generating
  /\ clock < MaxGenerations
  /\ clock' = clock + 1
  /\ generationID' = clock'
  /\ generating' = TRUE
  /\ UNCHANGED <<dataCache, serving>>

(* Its end: the data are replaced, and main goes on to serve them.         *)
PublishGeneration ==
  /\ generating
  /\ dataCache' = clock
  /\ generating' = FALSE
  /\ serving' = TRUE
  /\ UNCHANGED <<clock, generationID>>

(* The process dies and a new one starts from nothing.                     *)
Restart ==
  /\ generationID' = NoData
  /\ dataCache' = NoData
  /\ generating' = FALSE
  /\ serving' = FALSE
  /\ UNCHANGED clock

GenNext == BeginGeneration \/ PublishGeneration \/ Restart

(* What a request to /counters gets: under the read lock, the ID of the    *)
(* generation last begun with the time and the rows of the one last        *)
(* published.                                                              *)
CountersReady == serving /\ dataCache # NoData

handleCounters == [id |-> generationID, time |-> dataCache, rows |-> dataCache]
=============================================================================
