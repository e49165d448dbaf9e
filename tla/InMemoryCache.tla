--------------------------- MODULE InMemoryCache ---------------------------
(***************************************************************************)
(* The cache of the latest record of each switch                           *)
(* (internal/telemetry/storage/cache.go) under the queries of the service  *)
(* (internal/telemetry/service.go).                                        *)
(*                                                                         *)
(* Writers hold the write lock and are one step each.  Readers share the   *)
(* read lock, and increment requestCount and hitCount under it: each       *)
(* increment is a load and a store that other readers come between.        *)
(* service.GetMetric reads the value and the time of its update in two     *)
(* critical sections.                                                      *)
(*                                                                         *)
(* A record is the instant at which it was stored; instants are distinct   *)
(* for successive updates, and 0 is an absent record and the zero time.    *)
(***************************************************************************)
EXTENDS Naturals, FiniteSets

CONSTANTS Switches,
          Queries,      \* queries, each made once by a goroutine of its own
          Queued,       \* those of them that go through the request queue
          MaxAge,       \* age at which cleanupWorker removes an entry
          MaxClock      \* bound on the clock

ASSUME BoundsAssumption == MaxAge \in Nat /\ MaxClock \in Nat /\ Queued \subseteq Queries

VARIABLES clock,
          data, lastUpdated,        \* the two maps, per switch
          requestCount, hitCount,   \* the counters
          pc,           \* where each query is
          query,        \* what it asks for
          loaded,       \* the counter value its increment has loaded
          value,        \* the record it found
          timestamp     \* the Timestamp of its MetricResponse

cacheVars   == <<data, lastUpdated>>
counterVars == <<requestCount, hitCount>>
answerVars  == <<query, value, timestamp>>
vars == <<clock, cacheVars, counterVars, pc, loaded, answerVars>>

Absent  == 0
Times   == 0..MaxClock
Asks    == [kind : {"metric", "switch"}, of : Switches] \cup {[kind |-> "list"]}
Nothing == [kind |-> "none"]

Init == /\ clock = 0
        /\ data = [s \in Switches |-> Absent]
        /\ lastUpdated = [s \in Switches |-> Absent]
        /\ requestCount = 0
        /\ hitCount = 0
        /\ pc = [q \in Queries |-> "new"]
        /\ query = [q \in Queries |-> Nothing]
        /\ loaded = [q \in Queries |-> 0]
        /\ value = [q \in Queries |-> Absent]
        /\ timestamp = [q \in Queries |-> Absent]

(***************************************************************************)
(* The write lock excludes the readers.                                    *)
(***************************************************************************)
Reading(q) == pc[q] \in {"requestLoaded", "lookup", "hitLoaded"}
WriteLock  == \A q \in Queries : ~Reading(q)

Tick == /\ clock < MaxClock
        /\ clock' = clock + 1
        /\ UNCHANGED <<cacheVars, counterVars, pc, loaded, answerVars>>

Stamp(map, S, instant) == [s \in Switches |-> IF s \in S THEN instant ELSE map[s]]

(* UpdateMetrics has one switch, UpdateBatch any number under one instant. *)
Update_KeepsTime(S) ==      \* lastUpdated is set when the switch is first seen
  /\ WriteLock
  /\ clock < MaxClock
  /\ clock' = clock + 1
  /\ data' = Stamp(data, S, clock')
  /\ lastUpdated' = Stamp(lastUpdated, {s \in S : lastUpdated[s] = Absent}, clock')
  /\ UNCHANGED <<counterVars, pc, loaded, answerVars>>

Update(S) ==
  /\ WriteLock
  /\ clock < MaxClock
  /\ clock' = clock + 1
  /\ data' = Stamp(data, S, clock')
  /\ lastUpdated' = Stamp(lastUpdated, S, clock')
  /\ UNCHANGED <<counterVars, pc, loaded, answerVars>>

Stale == {s \in Switches : lastUpdated[s] # Absent /\ lastUpdated[s] + MaxAge < clock}

CleanupStale ==
  /\ WriteLock
  /\ data' = Stamp(data, Stale, Absent)
  /\ lastUpdated' = Stamp(lastUpdated, Stale, Absent)
  /\ UNCHANGED <<clock, counterVars, pc, loaded, answerVars>>

(***************************************************************************)
(* A query: GetMetric, GetAllMetrics or ListAllSwitches.                   *)
(***************************************************************************)
(* RLock, and the load of requestCount++.                                  *)
BeginRead(q) ==
  /\ pc[q] = "new"
  /\ \E a \in Asks : query' = [query EXCEPT ![q] = a]
  /\ loaded' = [loaded EXCEPT ![q] = requestCount]
  /\ pc' = [pc EXCEPT ![q] = "requestLoaded"]
  /\ UNCHANGED <<clock, cacheVars, counterVars, value, timestamp>>

CountRequest(q) ==
  /\ pc[q] = "requestLoaded"
  /\ requestCount' = loaded[q] + 1
  /\ pc' = [pc EXCEPT ![q] = "lookup"]
  /\ UNCHANGED <<clock, cacheVars, hitCount, loaded, answerVars>>

(* A list is a hit if there is anything in the cache; its content is left  *)
(* out.                                                                    *)
Wanted(q) == IF query[q].kind = "list" THEN Switches ELSE {query[q].of}
Hit(q)    == \E s \in Wanted(q) : data[s] # Absent
Found(q)  == IF query[q].kind = "list" THEN Absent ELSE data[query[q].of]

Lookup_CountsMisses(q) ==   \* hitCount++ before the test
  /\ pc[q] = "lookup"
  /\ loaded' = [loaded EXCEPT ![q] = hitCount]
  /\ pc' = [pc EXCEPT ![q] = "hitLoaded"]
  /\ value' = [value EXCEPT ![q] = Found(q)]
  /\ UNCHANGED <<clock, cacheVars, counterVars, query, timestamp>>

(* The lookup; after a hit the load of hitCount++, after a miss RUnlock.   *)
Lookup(q) ==
  /\ pc[q] = "lookup"
  /\ \/ /\ Hit(q)
        /\ loaded' = [loaded EXCEPT ![q] = hitCount]
        /\ pc' = [pc EXCEPT ![q] = "hitLoaded"]
        /\ value' = [value EXCEPT ![q] = Found(q)]
     \/ /\ ~Hit(q)
        /\ pc' = [pc EXCEPT ![q] = "missed"]
        /\ UNCHANGED <<loaded, value>>
  /\ UNCHANGED <<clock, cacheVars, counterVars, query, timestamp>>

(* The store of hitCount++, and RUnlock.                                   *)
CountHit(q) ==
  /\ pc[q] = "hitLoaded"
  /\ hitCount' = loaded[q] + 1
  /\ pc' = [pc EXCEPT ![q] = IF query[q].kind = "metric" THEN "valued" ELSE "answered"]
  /\ UNCHANGED <<clock, cacheVars, requestCount, loaded, answerVars>>

(* GetMetric goes on with GetLastUpdate.  A zero time becomes the present, *)
(* except for a queued query, which asks again when it has its answer.     *)
GetLastUpdate(q) ==
  LET at == lastUpdated[query[q].of] IN
  /\ pc[q] = "valued"
  /\ timestamp' = [timestamp EXCEPT ![q] =
                     IF at = Absent /\ q \notin Queued THEN clock ELSE at]
  /\ pc' = [pc EXCEPT ![q] = "answered"]
  /\ UNCHANGED <<clock, cacheVars, counterVars, loaded, query, value>>

QueryStep(q) == \/ BeginRead(q) \/ CountRequest(q) \/ Lookup(q)
                \/ CountHit(q)  \/ GetLastUpdate(q)

Next == \/ Tick
        \/ \E S \in (SUBSET Switches) \ {{}} : Update(S)
        \/ CleanupStale
        \/ \E q \in Queries : QueryStep(q)

Spec == Init /\ [][Next]_vars

-----------------------------------------------------------------------------
PCs == {"new", "requestLoaded", "lookup", "hitLoaded", "missed", "valued", "answered"}

(* Type invariant: no instant lies in the future, in the cache or in an    *)
(* answer, and the counters are natural numbers.                           *)
TypeOK ==
  /\ clock \in Times
  /\ data \in [Switches -> 0..clock]
  /\ lastUpdated \in [Switches -> 0..clock]
  /\ requestCount \in Nat /\ hitCount \in Nat
  /\ pc \in [Queries -> PCs]
  /\ query \in [Queries -> Asks \cup {Nothing}]
  /\ loaded \in [Queries -> Nat]
  /\ value \in [Queries -> 0..clock]
  /\ timestamp \in [Queries -> 0..clock]

(* Lost increments make the counters too small, never too large: a stale   *)
(* load is never stored over a larger number that counts more queries than *)
(* there were, whatever the readers do to each other.                      *)
Requested == {q \in Queries : pc[q] \notin {"new", "requestLoaded"}}
Hits      == {q \in Queries : pc[q] \in {"valued", "answered"}}

CountersNeverExceed ==
  /\ requestCount <= Cardinality(Requested)
  /\ hitCount <= Cardinality({q \in Hits : query[q].kind = "list" \/ value[q] # Absent})

(* A metric is not dated before its own record: updates and clean-ups that *)
(* come between the two reads can only make it look newer, or, for a       *)
(* queued query, undated.                                                  *)
NeverDatedBefore ==
  \A q \in Queries :
    pc[q] = "answered" /\ query[q].kind = "metric" =>
      timestamp[q] >= value[q] \/ (q \in Queued /\ timestamp[q] = Absent)
=============================================================================
