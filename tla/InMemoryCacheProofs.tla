------------------------ MODULE InMemoryCacheProofs ------------------------
(***************************************************************************)
(* Theorems about InMemoryCache, for any switches and any finite set of    *)
(* queries.                                                                *)
(*                                                                         *)
(* The counters: what a reader has loaded counts at most the readers that  *)
(* have stored, and it is not one of them, so the number it stores is at   *)
(* most theirs and its own.  The times: a value found under a switch is    *)
(* not newer than what the cache has for the switch later, unless a        *)
(* clean-up has removed it.                                                *)
(***************************************************************************)
EXTENDS InMemoryCache, FiniteSetTheorems, TLAPS

(* The queries whose hit has been counted.                                 *)
Counted == {q \in Hits : query[q].kind = "list" \/ value[q] # Absent}

(* A query that has begun asks for something, and one that goes on after a *)
(* hit has found it.                                                       *)
Asked ==
  \A q \in Queries :
    /\ pc[q] # "new" => query[q] \in Asks
    /\ pc[q] \in {"hitLoaded", "valued", "answered"} =>
         query[q].kind = "list" \/ value[q] # Absent
    /\ pc[q] = "valued" => query[q].kind = "metric"

(* A load is not above the queries that have stored.                       *)
LoadsCount ==
  \A q \in Queries :
    /\ pc[q] = "requestLoaded" => loaded[q] <= Cardinality(Requested)
    /\ pc[q] = "hitLoaded" => loaded[q] <= Cardinality(Counted)

(* What the cache has for the switch of a query that found something.      *)
NotOlder ==
  /\ \A s \in Switches : lastUpdated[s] = data[s]
  /\ \A q \in Queries :
       pc[q] \in {"hitLoaded", "valued"} /\ query[q].kind = "metric" =>
         data[query[q].of] >= value[q] \/ data[query[q].of] = Absent

-----------------------------------------------------------------------------
(* The parts of a query.                                                   *)
LEMMA AsksHave ==
  ASSUME NEW a \in Asks
  PROVE  /\ a.kind \in {"metric", "switch", "list"}
         /\ a.kind # "list" => a.of \in Switches
BY DEF Asks

(* The initial state is well typed.                                        *)
LEMMA TypedInit == Init => TypeOK /\ Asked
BY BoundsAssumption DEF Init, TypeOK, Asked, Times, Absent, PCs, Nothing

(* No step stores or dates anything in the future.                         *)
LEMMA TypedStep == TypeOK /\ Asked /\ [Next]_vars => TypeOK'
<1> SUFFICES ASSUME TypeOK, Asked, [Next]_vars PROVE TypeOK'
  OBVIOUS
<1> USE BoundsAssumption
        DEF TypeOK, PCs, cacheVars, counterVars, answerVars, Times, Absent
<1>1. CASE Tick
  BY <1>1 DEF Tick
<1>2. ASSUME NEW S \in SUBSET Switches, Update(S) PROVE TypeOK'
  BY <1>2 DEF Update, Stamp
<1>3. CASE CleanupStale
  BY <1>3 DEF CleanupStale, Stamp
<1>4. ASSUME NEW q \in Queries, BeginRead(q) PROVE TypeOK'
  BY <1>4 DEF BeginRead
<1>5. ASSUME NEW q \in Queries, CountRequest(q) PROVE TypeOK'
  BY <1>5 DEF CountRequest
<1>6. ASSUME NEW q \in Queries, Lookup(q) PROVE TypeOK'
  <2>1. Found(q) \in 0..clock
    BY <1>6, AsksHave DEF Asked, Lookup, Found
  <2> HIDE DEF Found, Asks
  <2> QED
    BY <1>6, <2>1 DEF Lookup
<1>7. ASSUME NEW q \in Queries, CountHit(q) PROVE TypeOK'
  BY <1>7 DEF CountHit
<1>8. ASSUME NEW q \in Queries, GetLastUpdate(q) PROVE TypeOK'
  <2>1. lastUpdated[query[q].of] \in 0..clock /\ clock \in 0..clock
    BY <1>8, AsksHave DEF Asked, GetLastUpdate
  <2> QED
    BY <1>8, <2>1 DEF GetLastUpdate
<1>9. CASE UNCHANGED vars
  BY <1>9 DEF vars
<1> HIDE DEF TypeOK
<1> QED
  BY <1>1, <1>2, <1>3, <1>4, <1>5, <1>6, <1>7, <1>8, <1>9 DEF Next, QueryStep

(* A query does not change what it asks for or what it found.              *)
LEMMA AskedStep == TypeOK /\ Asked /\ [Next]_vars => Asked'
<1> SUFFICES ASSUME TypeOK, Asked, [Next]_vars PROVE Asked'
  OBVIOUS
<1> USE AsksHave, BoundsAssumption
        DEF Asked, TypeOK, PCs, cacheVars, counterVars, answerVars, Absent
<1>1. CASE Tick
  BY <1>1 DEF Tick
<1>2. ASSUME NEW S \in SUBSET Switches, Update(S) PROVE Asked'
  BY <1>2 DEF Update, Stamp
<1>3. CASE CleanupStale
  BY <1>3 DEF CleanupStale, Stamp
<1>4. ASSUME NEW q \in Queries, BeginRead(q) PROVE Asked'
  BY <1>4 DEF BeginRead
<1>5. ASSUME NEW q \in Queries, CountRequest(q) PROVE Asked'
  BY <1>5 DEF CountRequest
<1>6. ASSUME NEW q \in Queries, Lookup(q) PROVE Asked'
  BY <1>6 DEF Lookup, Hit, Found, Wanted
<1>7. ASSUME NEW q \in Queries, CountHit(q) PROVE Asked'
  BY <1>7 DEF CountHit
<1>8. ASSUME NEW q \in Queries, GetLastUpdate(q) PROVE Asked'
  BY <1>8 DEF GetLastUpdate
<1>9. CASE UNCHANGED vars
  BY <1>9 DEF vars
<1> HIDE DEF Asked
<1> QED
  BY <1>1, <1>2, <1>3, <1>4, <1>5, <1>6, <1>7, <1>8, <1>9 DEF Next, QueryStep

(* The sets of queries that have stored grow by the one that stores.       *)
LEMMA CountRequestAdds ==
  ASSUME TypeOK, NEW q \in Queries, CountRequest(q)
  PROVE  Requested' = Requested \cup {q} /\ q \notin Requested
BY DEF TypeOK, CountRequest, Requested, answerVars

LEMMA CountHitAdds ==
  ASSUME TypeOK, Asked, NEW q \in Queries, CountHit(q)
  PROVE  Counted' = Counted \cup {q} /\ q \notin Counted
BY DEF TypeOK, Asked, CountHit, Counted, Hits, answerVars, Absent

(* The steps that count nothing leave those sets as they were.             *)
LEMMA OthersAddNothing ==
  ASSUME TypeOK, Asked, [Next]_vars
  PROVE  /\ (\A q \in Queries : ~CountRequest(q)) => Requested' = Requested
         /\ (\A q \in Queries : ~CountHit(q)) => Counted' = Counted
<1> USE DEF Requested, Counted, Hits, TypeOK, cacheVars, counterVars,
        answerVars,
            Absent
<1>1. CASE Tick
  BY <1>1 DEF Tick
<1>2. ASSUME NEW S \in SUBSET Switches, Update(S)
      PROVE  Requested' = Requested /\ Counted' = Counted
  BY <1>2 DEF Update
<1>3. CASE CleanupStale
  BY <1>3 DEF CleanupStale
<1>4. ASSUME NEW q \in Queries, BeginRead(q)
      PROVE  Requested' = Requested /\ Counted' = Counted
  BY <1>4 DEF BeginRead
<1>5. ASSUME NEW q \in Queries, CountRequest(q)
      PROVE  Counted' = Counted
  BY <1>5 DEF CountRequest
<1>6. ASSUME NEW q \in Queries, Lookup(q)
      PROVE  Requested' = Requested /\ Counted' = Counted
  BY <1>6 DEF Lookup
<1>7. ASSUME NEW q \in Queries, CountHit(q)
      PROVE  Requested' = Requested
  BY <1>7 DEF CountHit
<1>8. ASSUME NEW q \in Queries, GetLastUpdate(q)
      PROVE  Requested' = Requested /\ Counted' = Counted
  BY <1>8 DEF GetLastUpdate
<1>9. CASE UNCHANGED vars
  BY <1>9 DEF vars
<1> HIDE DEF Requested, Counted
<1> QED
  BY <1>1, <1>2, <1>3, <1>4, <1>5, <1>6, <1>7, <1>8, <1>9 DEF Next, QueryStep

(* Types, held throughout.                                                 *)
LEMMA TypedAlways == Spec => [](TypeOK /\ Asked)
BY TypedInit, TypedStep, AskedStep, PTL DEF Spec

(* No counter, and nothing a reader has loaded, exceeds the queries that   *)
(* have stored: only the store of a query raises a counter above, and that *)
(* query is then one of them.                                              *)
LEMMA CountsStep ==
  ASSUME IsFiniteSet(Queries), TypeOK, Asked, CountersNeverExceed, LoadsCount,
         [Next]_vars
  PROVE  CountersNeverExceed' /\ LoadsCount'
<1> DEFINE r == Cardinality(Requested)
           h == Cardinality(Counted)
<1>f. IsFiniteSet(Requested) /\ IsFiniteSet(Counted)
  BY FS_Subset DEF Requested, Counted, Hits
<1>n. r \in Nat /\ h \in Nat
  BY <1>f, FS_CardinalityType
<1>b. requestCount <= r /\ hitCount <= h
  BY DEF CountersNeverExceed, Counted
<1>t. /\ requestCount \in Nat /\ hitCount \in Nat
      /\ loaded \in [Queries -> Nat]
      /\ pc \in [Queries -> PCs]
  BY DEF TypeOK
<1>g. SUFFICES /\ requestCount' <= r' /\ hitCount' <= h'
               /\ LoadsCount'
  BY DEF CountersNeverExceed, Counted
<1>o. /\ (\A q \in Queries : ~CountRequest(q)) => r' = r
      /\ (\A q \in Queries : ~CountHit(q)) => h' = h
  BY OthersAddNothing
<1> HIDE DEF r, h
<1>l. \A q \in Queries : /\ pc[q] = "requestLoaded" => loaded[q] <= r
                         /\ pc[q] = "hitLoaded" => loaded[q] <= h
  BY DEF LoadsCount, r, h
<1>k. LoadsCount' <=>
        \A q \in Queries : /\ pc'[q] = "requestLoaded" => loaded'[q] <= r'
                           /\ pc'[q] = "hitLoaded" => loaded'[q] <= h'
  BY DEF LoadsCount, r, h
<1> USE DEF cacheVars, counterVars, answerVars, Absent
<1>1. CASE Tick
  <2>1. r' = r /\ h' = h
    BY <1>1, <1>o DEF Tick, CountRequest, CountHit
  <2> QED
    BY <1>1, <1>b, <1>l, <1>k, <2>1 DEF Tick
<1>2. ASSUME NEW S \in SUBSET Switches, Update(S)
      PROVE  requestCount' <= r' /\ hitCount' <= h' /\ LoadsCount'
  <2>1. r' = r /\ h' = h
    BY <1>2, <1>t, <1>o DEF Update, CountRequest, CountHit
  <2> QED
    BY <1>2, <1>b, <1>t, <1>l, <1>k, <2>1 DEF Update
<1>3. CASE CleanupStale
  <2>1. r' = r /\ h' = h
    BY <1>3, <1>t, <1>o DEF CleanupStale, CountRequest, CountHit
  <2> QED
    BY <1>3, <1>b, <1>t, <1>l, <1>k, <2>1 DEF CleanupStale
<1>4. ASSUME NEW q \in Queries, BeginRead(q)
      PROVE  requestCount' <= r' /\ hitCount' <= h' /\ LoadsCount'
  <2>1. r' = r /\ h' = h
    BY <1>4, <1>t, <1>o DEF BeginRead, CountRequest, CountHit
  <2> QED
    BY <1>4, <1>b, <1>t, <1>l, <1>k, <2>1 DEF BeginRead
<1>5. ASSUME NEW q \in Queries, CountRequest(q)
      PROVE  requestCount' <= r' /\ hitCount' <= h' /\ LoadsCount'
  <2>1. r' = r + 1
    BY <1>5, <1>f, <1>n, CountRequestAdds, FS_AddElement DEF r
  <2>2. h' = h
    BY <1>5, <1>o, <1>t DEF CountRequest, CountHit
  <2> QED
    BY <1>5, <1>b, <1>t, <1>n, <1>l, <1>k, <2>1, <2>2 DEF CountRequest
<1>6. ASSUME NEW q \in Queries, Lookup(q)
      PROVE  requestCount' <= r' /\ hitCount' <= h' /\ LoadsCount'
  <2>1. r' = r /\ h' = h
    BY <1>6, <1>t, <1>o DEF Lookup, CountRequest, CountHit
  <2> QED
    BY <1>6, <1>b, <1>t, <1>l, <1>k, <2>1 DEF Lookup
<1>7. ASSUME NEW q \in Queries, CountHit(q)
      PROVE  requestCount' <= r' /\ hitCount' <= h' /\ LoadsCount'
  <2>1. h' = h + 1
    BY <1>7, <1>f, <1>n, CountHitAdds, FS_AddElement DEF h
  <2>2. r' = r
    BY <1>7, <1>o, <1>t DEF CountRequest, CountHit
  <2> QED
    BY <1>7, <1>b, <1>t, <1>n, <1>l, <1>k, <2>1, <2>2 DEF CountHit
<1>8. ASSUME NEW q \in Queries, GetLastUpdate(q)
      PROVE  requestCount' <= r' /\ hitCount' <= h' /\ LoadsCount'
  <2>1. r' = r /\ h' = h
    BY <1>8, <1>t, <1>o DEF GetLastUpdate, CountRequest, CountHit
  <2> QED
    BY <1>8, <1>b, <1>t, <1>l, <1>k, <2>1 DEF GetLastUpdate
<1>9. CASE UNCHANGED vars
  <2>1. r' = r /\ h' = h
    BY <1>9 DEF vars, r, h, Requested, Counted, Hits
  <2> QED
    BY <1>9, <1>b, <1>l, <1>k, <2>1 DEF vars
<1> QED
  BY <1>1, <1>2, <1>3, <1>4, <1>5, <1>6, <1>7, <1>8, <1>9 DEF Next, QueryStep

(* What a query found is not newer than what the cache has for its switch, *)
(* until a clean-up removes it.                                            *)
LEMMA NotOlderStep == TypeOK /\ Asked /\ NotOlder /\ [Next]_vars => NotOlder'
<1> SUFFICES ASSUME TypeOK, Asked, NotOlder, [Next]_vars PROVE NotOlder'
  OBVIOUS
<1>t. /\ clock \in Nat /\ data \in [Switches -> 0..clock]
      /\ lastUpdated \in [Switches -> 0..clock]
      /\ value \in [Queries -> 0..clock]
      /\ pc \in [Queries -> PCs] /\ query \in [Queries -> Asks \cup {Nothing}]
  BY BoundsAssumption DEF TypeOK, Times
<1>a. \A q \in Queries : /\ pc[q] # "new" => query[q] \in Asks
                         /\ query[q] \in Asks /\ query[q].kind = "metric"
                              => query[q].of \in Switches
  BY AsksHave DEF Asked
<1> HIDE DEF Asks
<1> USE DEF NotOlder, cacheVars, counterVars, answerVars, Absent
<1>1. CASE Tick
  BY <1>1 DEF Tick
<1>2. ASSUME NEW S \in SUBSET Switches, Update(S) PROVE NotOlder'
  <2>1. \A s \in Switches : data'[s] = data[s] \/ data'[s] = clock + 1
    BY <1>2, <1>t DEF Update, Stamp
  <2>2. \A s \in Switches : lastUpdated'[s] = data'[s]
    BY <1>2, <1>t DEF Update, Stamp
  <2>3. ASSUME NEW q \in Queries, pc[q] \in {"hitLoaded", "valued"},
               query[q].kind = "metric"
        PROVE  data'[query[q].of] >= value[q] \/ data'[query[q].of] = 0
    <3>1. query[q].of \in Switches /\ value[q] \in 0..clock
      BY <1>t, <1>a, <2>3
    <3> QED
      BY <1>t, <2>1, <2>3, <3>1
  <2> QED
    BY <1>2, <2>2, <2>3 DEF Update
<1>3. CASE CleanupStale
  <2>1. \A s \in Switches : data'[s] \in {data[s],
          0} /\ lastUpdated'[s] = data'[s]
    BY <1>3, <1>t DEF CleanupStale, Stamp
  <2> QED
    BY <1>3, <1>a, <1>t, <2>1 DEF CleanupStale
<1>4. ASSUME NEW q \in Queries, BeginRead(q) PROVE NotOlder'
  BY <1>4, <1>t DEF BeginRead
<1>5. ASSUME NEW q \in Queries, CountRequest(q) PROVE NotOlder'
  BY <1>5, <1>t DEF CountRequest
<1>6. ASSUME NEW q \in Queries, Lookup(q) PROVE NotOlder'
  <2>1. query[q].kind = "metric" =>
          Found(q) \in Nat /\ Found(q) = data[query[q].of]
    BY <1>6, <1>a, <1>t DEF Lookup, Found
  <2> QED
    BY <1>6, <1>t, <2>1 DEF Lookup
<1>7. ASSUME NEW q \in Queries, CountHit(q) PROVE NotOlder'
  BY <1>7, <1>t DEF CountHit
<1>8. ASSUME NEW q \in Queries, GetLastUpdate(q) PROVE NotOlder'
  BY <1>8, <1>t DEF GetLastUpdate
<1>9. CASE UNCHANGED vars
  BY <1>9 DEF vars
<1> HIDE DEF NotOlder
<1> QED
  BY <1>1, <1>2, <1>3, <1>4, <1>5, <1>6, <1>7, <1>8, <1>9 DEF Next, QueryStep

(* An answer gets its time when it is no older than its value.             *)
LEMMA DatedStep ==
  ASSUME TypeOK, Asked, NotOlder, NeverDatedBefore, [Next]_vars
  PROVE  NeverDatedBefore'
<1>t. /\ clock \in Nat /\ data \in [Switches -> 0..clock]
      /\ lastUpdated \in [Switches -> 0..clock]
      /\ value \in [Queries -> 0..clock]
      /\ pc \in [Queries -> PCs] /\ query \in [Queries -> Asks \cup {Nothing}]
      /\ timestamp \in [Queries -> 0..clock]
  BY BoundsAssumption DEF TypeOK, Times
<1> HIDE DEF Asks
<1> USE DEF NeverDatedBefore, cacheVars, counterVars, answerVars, Absent
<1>1. CASE Tick
  BY <1>1 DEF Tick
<1>2. ASSUME NEW S \in SUBSET Switches, Update(S) PROVE NeverDatedBefore'
  BY <1>2 DEF Update
<1>3. CASE CleanupStale
  BY <1>3 DEF CleanupStale
<1>4. ASSUME NEW q \in Queries, BeginRead(q) PROVE NeverDatedBefore'
  BY <1>4, <1>t DEF BeginRead
<1>5. ASSUME NEW q \in Queries, CountRequest(q) PROVE NeverDatedBefore'
  BY <1>5, <1>t DEF CountRequest
<1>6. ASSUME NEW q \in Queries, Lookup(q) PROVE NeverDatedBefore'
  BY <1>6, <1>t DEF Lookup
<1>7. ASSUME NEW q \in Queries, CountHit(q) PROVE NeverDatedBefore'
  BY <1>7, <1>t DEF CountHit
<1>8. ASSUME NEW q \in Queries, GetLastUpdate(q) PROVE NeverDatedBefore'
  <2>1. /\ pc[q] = "valued"
        /\ query[q].kind = "metric" /\ query[q].of \in Switches
    BY <1>8, AsksHave DEF GetLastUpdate, Asked
  <2>2. /\ lastUpdated[query[q].of] = data[query[q].of]
        /\ data[query[q].of] >= value[q] \/ data[query[q].of] = 0
    BY <2>1 DEF NotOlder
  <2>3. timestamp'[q] >= value[q] \/ (q \in Queued /\ timestamp'[q] = 0)
    BY <1>8, <1>t, <2>1, <2>2 DEF GetLastUpdate
  <2> QED
    BY <1>8, <1>t, <2>3 DEF GetLastUpdate
<1>9. CASE UNCHANGED vars
  BY <1>9 DEF vars
<1> HIDE DEF NeverDatedBefore
<1> QED
  BY <1>1, <1>2, <1>3, <1>4, <1>5, <1>6, <1>7, <1>8, <1>9 DEF Next, QueryStep

-----------------------------------------------------------------------------
(* No instant lies in the future, in the cache, in a load or in an answer. *)
THEOREM TypeCorrect == Spec => []TypeOK
BY TypedAlways, PTL

(* requestCount and hitCount never count a query that was not made or did  *)
(* not hit: racing readers only lose increments.                           *)
THEOREM CountersOnlyLose ==
  ASSUME IsFiniteSet(Queries)
  PROVE  Spec => []CountersNeverExceed
<1>1. Init => CountersNeverExceed /\ LoadsCount
  <2> SUFFICES ASSUME Init PROVE CountersNeverExceed /\ LoadsCount
    OBVIOUS
  <2>1. Requested = {} /\ Hits = {}
    BY DEF Init, Requested, Hits
  <2>2. /\ Cardinality(Requested) = 0
        /\ Cardinality({q \in Hits : \/ query[q].kind = "list"
                                     \/ value[q] # Absent}) = 0
    BY <2>1, FS_EmptySet
  <2> QED
    BY <2>2 DEF Init, CountersNeverExceed, LoadsCount
<1>2. /\ TypeOK /\ Asked
      /\ CountersNeverExceed /\ LoadsCount
      /\ [Next]_vars
      => CountersNeverExceed' /\ LoadsCount'
  BY CountsStep
<1> QED
  BY <1>1, <1>2, TypedAlways, PTL DEF Spec

(* A metric is never dated before its own record, whatever updates and     *)
(* clean-ups come between the reads of its value and of its time.          *)
THEOREM NeverTooOld == Spec => []NeverDatedBefore
<1>1. Init => NotOlder /\ NeverDatedBefore
  BY DEF Init, NotOlder, NeverDatedBefore, Absent
<1>2. TypeOK /\ Asked /\ NotOlder /\ [Next]_vars => NotOlder'
  BY NotOlderStep
<1>3. TypeOK /\ Asked /\ NotOlder /\ NeverDatedBefore /\ [Next]_vars
        => NeverDatedBefore'
  BY DatedStep
<1> QED
  BY <1>1, <1>2, <1>3, TypedAlways, PTL DEF Spec
=============================================================================
