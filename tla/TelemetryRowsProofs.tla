------------------------ MODULE TelemetryRowsProofs ------------------------
(***************************************************************************)
(* Theorems about TelemetryRows for any contents of the generations and    *)
(* any number of them.                                                     *)
(***************************************************************************)
EXTENDS TelemetryRows, InMemoryCacheProofs, WellFoundedInduction

rvars == <<rowVars, vars>>

(* A non-empty set of numbers up to n has a last one.                      *)
LEMMA LastExists ==
  ASSUME NEW n \in Nat, NEW T \in SUBSET (1..n), T # {}
  PROVE  \E m \in T : \A j \in T : j <= m
<1> DEFINE U == {k \in 0..n : n - k \in T}
<1>1. U \subseteq Nat
  OBVIOUS
<1>2. PICK t \in T : TRUE
  OBVIOUS
<1>3. n - t \in 0..n /\ n - (n - t) = t
  BY <1>2
<1>4. U # {}
  BY <1>2, <1>3
<1>5. PICK x \in U : \A y \in U : ~(<<y, x>> \in OpToRel(<, Nat))
  BY <1>1, <1>4, NatLessThanWellFounded, WFMin
<1>6. ASSUME NEW a \in Nat, NEW b \in Nat, a < b PROVE <<a, b>> \in OpToRel(<, Nat)
  BY <1>6 DEF OpToRel
<1>7. ASSUME NEW j \in T PROVE j <= n - x
  <2>1. j \in 1..n /\ n - j \in Nat /\ n - (n - j) = j
    OBVIOUS
  <2>2. n - j \in U
    BY <2>1
  <2>3. ~(<<n - j, x>> \in OpToRel(<, Nat))
    BY <1>5, <2>2
  <2>4. x \in Nat /\ ~(n - j < x)
    <3> HIDE DEF U
    <3>1. x \in Nat
      BY <1>1, <1>5
    <3> QED BY <1>6, <2>1, <2>3, <3>1
  <2> QED BY <2>1, <2>4
<1> QED BY <1>5, <1>7

-----------------------------------------------------------------------------
(***************************************************************************)
(* The rows.                                                               *)
(***************************************************************************)
Typed ==
  /\ content \in Seq(Contents)
  /\ poll \in {"idle", "parsed", "registered", "cached"}
  /\ fetched \in 0..Len(content)
  /\ poll # "idle" => fetched # 0 /\ tracked < fetched
  /\ tracked \in 0..fetched
  /\ record \in [Switches -> Nat \X Nat]
  /\ \A r \in metricsTable : \E g \in 1..fetched : r \in RowsIn(g)

LEMMA ContentTyped ==
  ASSUME Typed, NEW g \in 1..Len(content)
  PROVE  /\ content[g] \in Seq(Row)
         /\ Valid(g) \subseteq 1..Len(content[g])
         /\ SwitchesIn(g) \subseteq Switches
<1>1. content[g] \in Contents
  BY DEF Typed
<1>2. content[g] \in Seq(Row)
  BY <1>1, ContentsAssumption
<1>3. DOMAIN content[g] = 1..Len(content[g])
  BY <1>2
<1>4. \A i \in DOMAIN content[g] : content[g][i] \in Row
  BY <1>2, <1>3
<1> QED BY <1>2, <1>3, <1>4 DEF Valid, Parsed, SwitchesIn, SwitchOf, Row

(* What the cache gets of a switch is the last row of the batch for it.    *)
LEMMA LastOfIsLast ==
  ASSUME Typed, NEW g \in 1..Len(content), NEW s \in SwitchesIn(g)
  PROVE  /\ LastOf(g, s) \in Valid(g) /\ LastOf(g, s) \in Nat
         /\ SwitchOf(g, LastOf(g, s)) = s
         /\ \A j \in Valid(g) : SwitchOf(g, j) = s => j <= LastOf(g, s)
<1> DEFINE T == {i \in Valid(g) : SwitchOf(g, i) = s}
<1>1. Valid(g) \subseteq 1..Len(content[g]) /\ Len(content[g]) \in Nat
  BY ContentTyped
<1>2. T # {}
  BY DEF SwitchesIn
<1>3. \E m \in T : \A j \in T : j <= m
  BY <1>1, <1>2, LastExists
<1>4. \E i \in Valid(g) :
        SwitchOf(g, i) = s /\ \A j \in Valid(g) : SwitchOf(g, j) = s => j <= i
  BY <1>3
<1> QED BY <1>1, <1>4 DEF LastOf

(* Publishing a generation leaves the earlier ones as they are.            *)
LEMMA PublishKeeps ==
  ASSUME Typed, NEW c \in Contents, content' = Append(content, c),
         NEW g \in 1..Len(content)
  PROVE  /\ content'[g] = content[g]
         /\ Valid(g)' = Valid(g)
         /\ \A i : SwitchOf(g, i)' = SwitchOf(g, i)
         /\ SwitchesIn(g)' = SwitchesIn(g)
         /\ RowsIn(g)' = RowsIn(g)
<1>1. content'[g] = content[g]
  BY DEF Typed
<1>2. Valid(g)' = Valid(g)
  BY <1>1 DEF Valid, Parsed
<1>3. \A i : SwitchOf(g, i)' = SwitchOf(g, i)
  BY <1>1 DEF SwitchOf
<1> QED BY <1>1, <1>2, <1>3 DEF SwitchesIn, RowsIn

(* Published generations change in no other way.                           *)
LEMMA SameContent ==
  ASSUME UNCHANGED content, NEW g
  PROVE  /\ Valid(g)' = Valid(g)
         /\ \A i : SwitchOf(g, i)' = SwitchOf(g, i)
         /\ SwitchesIn(g)' = SwitchesIn(g)
         /\ RowsIn(g)' = RowsIn(g)
BY DEF Valid, Parsed, SwitchOf, SwitchesIn, RowsIn

LEMMA TypedRowsStep == Typed /\ [RowsNext]_rvars => Typed'
<1> SUFFICES ASSUME Typed, [RowsNext]_rvars PROVE Typed'
  OBVIOUS
<1> USE DEF Typed
<1>0. Len(content) \in Nat /\ fetched \in Nat /\ tracked \in Nat
  OBVIOUS
<1>1. CASE Publish
  <2>1. PICK c \in Contents : content' = Append(content, c)
    BY <1>1 DEF Publish
  <2>2. content' \in Seq(Contents) /\ Len(content') = Len(content) + 1
    BY <2>1
  <2>3. UNCHANGED <<poll, fetched, tracked, record, metricsTable>>
    BY <1>1 DEF Publish, tables
  <2>4. \A g \in 1..fetched : RowsIn(g)' = RowsIn(g)
    BY <2>1, <1>0, PublishKeeps
  <2> QED BY <1>0, <2>2, <2>3, <2>4
<1>2. CASE Fetch
  <2>1. /\ fetched' = Len(content) /\ poll' = "parsed"
        /\ UNCHANGED <<content, tracked, record, metricsTable>>
        /\ content # <<>> /\ Len(content) # tracked
    BY <1>2 DEF Fetch, tables
  <2>2. \A r \in metricsTable : \E g \in 1..fetched' : r \in RowsIn(g)'
    BY <1>0, <2>1, SameContent
  <2> QED BY <1>0, <2>1, <2>2
<1>3. CASE registerSwitchesFromData \/ IngestNothing \/ UpdateCache
  <2>1. /\ UNCHANGED <<content, fetched, metricsTable>>
        /\ tracked' \in {tracked, fetched} /\ (tracked' # tracked => poll' = "idle")
        /\ poll' \in {"idle", "registered", "cached"} /\ poll # "idle"
    BY <1>3 DEF registerSwitchesFromData, IngestNothing, UpdateCache, tables
  <2>2. \A r \in metricsTable' : \E g \in 1..fetched' : r \in RowsIn(g)'
    BY <2>1, SameContent
  <2>3. record' \in [Switches -> Nat \X Nat]
    <3>1. CASE UpdateCache
      <4>1. fetched \in 1..Len(content)
        BY <1>0, <2>1
      <4>2. \A s \in SwitchesIn(fetched) : LastOf(fetched, s) \in Nat
        BY <4>1, LastOfIsLast
      <4> QED BY <1>0, <3>1, <4>2 DEF UpdateCache
    <3>2. CASE ~UpdateCache
      BY <1>3, <3>2 DEF registerSwitchesFromData, IngestNothing
    <3> QED BY <3>1, <3>2
  <2> QED BY <1>0, <2>1, <2>2, <2>3
<1>4. CASE WriteToDatabase
  <2>1. /\ UNCHANGED <<content, fetched, record>>
        /\ tracked' \in {tracked, fetched} /\ poll = "cached" /\ poll' = "idle"
        /\ metricsTable' \in {metricsTable, metricsTable \cup RowsIn(fetched)}
    BY <1>4 DEF WriteToDatabase, Written
  <2>2. \A r \in metricsTable' : \E g \in 1..fetched' : r \in RowsIn(g)'
    <3>1. fetched \in 1..fetched
      BY <1>0, <2>1
    <3> QED BY <2>1, <3>1, SameContent
  <2> QED BY <1>0, <2>1, <2>2
<1>5. CASE CacheNext \/ UNCHANGED rvars
  <2>1. UNCHANGED rowVars
    BY <1>5 DEF CacheNext, rvars
  <2> QED BY <2>1, SameContent DEF rowVars, tables
<1> QED BY <1>1, <1>2, <1>3, <1>4, <1>5 DEF RowsNext, Poll

LEMMA TypedRows == RowsSpec => []Typed
<1>1. RowsInit => Typed
  BY DEF RowsInit, Typed, None
<1>2. Typed /\ [RowsNext]_rvars => Typed'
  BY TypedRowsStep
<1> QED BY <1>1, <1>2, PTL DEF RowsSpec, rvars

-----------------------------------------------------------------------------
(***************************************************************************)
(* The cache under the rows: an ingest is an update of the cache, so what  *)
(* InMemoryCacheProofs proves of the cache holds of it here.               *)
(***************************************************************************)
LEMMA StepOfCache == Typed /\ [RowsNext]_rvars => [Next]_vars
<1> SUFFICES ASSUME Typed, [RowsNext]_rvars PROVE [Next]_vars
  OBVIOUS
<1>1. CASE UpdateCache
  <2>1. fetched \in 1..Len(content)
    BY <1>1 DEF UpdateCache, Typed
  <2>2. SwitchesIn(fetched) \subseteq Switches
    BY <2>1, ContentTyped
  <2>3. SwitchesIn(fetched) # {}
    BY <1>1 DEF UpdateCache, SwitchesIn
  <2>4. SwitchesIn(fetched) \in (SUBSET Switches) \ {{}}
    BY <2>2, <2>3
  <2>5. Update(SwitchesIn(fetched))
    BY <1>1 DEF UpdateCache
  <2> QED BY <2>4, <2>5 DEF Next
<1>2. CASE Publish \/ Fetch \/ registerSwitchesFromData \/ IngestNothing \/ WriteToDatabase
  BY <1>2 DEF Publish, Fetch, registerSwitchesFromData, IngestNothing, WriteToDatabase
<1>3. CASE CacheNext \/ UNCHANGED rvars
  BY <1>3 DEF CacheNext, Next, rvars
<1> QED BY <1>1, <1>2, <1>3 DEF RowsNext, Poll

(* The cache that the polls write and the queries read is the cache of     *)
(* InMemoryCache: StoreMetricsBulk updates it in one batch (hybrid.go:277).*)
THEOREM RowsUseTheCache == RowsSpec => Spec
<1>1. RowsInit => Init
  BY DEF RowsInit
<1> QED BY <1>1, StepOfCache, TypedRows, PTL DEF RowsSpec, Spec, rvars

(* NeverDatedBefore under the updates that ingests make, between the polls *)
(* of a worker, failing registrations and refused rows.                    *)
THEOREM RowsNeverTooOld == RowsSpec => []NeverDatedBefore
BY RowsUseTheCache, NeverTooOld

(* CountersNeverExceed beside the polls (cache.go:85 and 93).              *)
THEOREM RowsCountersOnlyLose ==
  ASSUME IsFiniteSet(Queries)
  PROVE  RowsSpec => []CountersNeverExceed
BY RowsUseTheCache, CountersOnlyLose

-----------------------------------------------------------------------------
(***************************************************************************)
(* The database.                                                           *)
(***************************************************************************)
(* TrackedIsComplete: whatever rows a generation has, the client only      *)
(* records it as seen when all that can be stored are.                     *)
THEOREM TrackedRows == RowsSpec => []TrackedIsComplete
<1>1. RowsInit => TrackedIsComplete
  BY DEF RowsInit, TrackedIsComplete
<1>2. Typed /\ TrackedIsComplete /\ [RowsNext]_rvars => TrackedIsComplete'
  <2> SUFFICES ASSUME Typed, TrackedIsComplete, [RowsNext]_rvars
               PROVE  TrackedIsComplete'
    OBVIOUS
  <2>0. tracked \in 0..Len(content)
    BY DEF Typed
  <2>1. CASE Publish
    <3>1. PICK c \in Contents : content' = Append(content, c)
      BY <2>1 DEF Publish
    <3>2. tracked # 0 => RowsIn(tracked)' = RowsIn(tracked)
      <4>1. ASSUME NEW g \in 1..Len(content) PROVE RowsIn(g)' = RowsIn(g)
        BY <3>1, PublishKeeps
      <4> QED BY <2>0, <2>1, <4>1 DEF Publish, RowsIn, Valid, Parsed
    <3> QED BY <2>1, <3>2 DEF Publish, tables, TrackedIsComplete
  <2>2. CASE UNCHANGED <<content, tracked, metricsTable>>
    BY <2>2 DEF TrackedIsComplete, RowsIn, Valid, Parsed
  <2>3. CASE IngestNothing /\ tracked' = fetched
    <3>1. Valid(fetched) = {} /\ UNCHANGED content
      BY <2>3 DEF IngestNothing
    <3> QED BY <2>3, <3>1 DEF TrackedIsComplete, RowsIn, Valid, Parsed
  <2>4. CASE WriteToDatabase
    <3>1. /\ UNCHANGED content /\ metricsTable \subseteq metricsTable'
          /\ tracked' \in {tracked, fetched}
          /\ tracked' # tracked => RowsIn(fetched) \subseteq metricsTable'
      BY <2>4 DEF WriteToDatabase, Written
    <3> QED BY <3>1 DEF TrackedIsComplete, RowsIn, Valid, Parsed
  <2> QED BY <2>1, <2>2, <2>3, <2>4 DEF RowsNext, Poll, Fetch, registerSwitchesFromData,
            IngestNothing, UpdateCache, CacheNext, rvars, rowVars, tables
<1> QED BY <1>1, <1>2, TypedRows, PTL DEF RowsSpec, rvars

(***************************************************************************)
(* The cache is never behind: it has had the rows of a batch before the    *)
(* database gets them, and a later generation after an earlier one.        *)
(***************************************************************************)
Ahead ==
  /\ \A s \in Switches : record[s][1] <= fetched
  /\ poll = "cached" => \A s \in SwitchesIn(fetched) :
                          record[s] = <<fetched, LastOf(fetched, s)>>
  /\ CacheNotBehind

(* Later(r): the row in the cache for the switch of row r is not older.    *)
Later(r) == ~Older(record[SwitchOf(r[1], r[2])], r)

LEMMA BatchIsLast ==
  ASSUME Typed, NEW g \in 1..Len(content), NEW s \in SwitchesIn(g), NEW i \in Valid(g),
         SwitchOf(g, i) = s
  PROVE  ~Older(<<g, LastOf(g, s)>>, <<g, i>>)
<1>1. i <= LastOf(g, s) /\ LastOf(g, s) \in Nat
  BY LastOfIsLast
<1>2. i \in Nat
  BY ContentTyped
<1> QED BY <1>1, <1>2 DEF Older

LEMMA StepAhead == Typed /\ Ahead /\ [RowsNext]_rvars => Ahead'
<1> SUFFICES ASSUME Typed, Ahead, [RowsNext]_rvars PROVE Ahead'
  OBVIOUS
<1>0. /\ Len(content) \in Nat /\ fetched \in 0..Len(content)
      /\ \A s \in Switches : record[s] \in Nat \X Nat
      /\ poll # "idle" => fetched \in 1..Len(content) /\ tracked < fetched
      /\ tracked \in 0..fetched
  BY DEF Typed
<1>1. ASSUME NEW r \in metricsTable
      PROVE  \E g \in 1..fetched : \E i \in Valid(g) :
               /\ r = <<g, i>> /\ g \in 1..Len(content)
               /\ SwitchOf(g, i) \in SwitchesIn(g) /\ SwitchOf(g, i) \in Switches
  <2>1. PICK g \in 1..fetched : r \in RowsIn(g)
    BY DEF Typed
  <2>2. PICK i \in Valid(g) : r = <<g, i>>
    BY <2>1 DEF RowsIn
  <2>3. g \in 1..Len(content)
    BY <1>0, <2>1
  <2>4. SwitchOf(g, i) \in SwitchesIn(g)
    BY <2>2 DEF SwitchesIn
  <2> QED BY <2>1, <2>2, <2>3, <2>4, ContentTyped
<1>2. CASE Publish
  <2>1. PICK c \in Contents : content' = Append(content, c)
    BY <1>2 DEF Publish
  <2>2. UNCHANGED <<poll, fetched, tracked, record, metricsTable>>
    BY <1>2 DEF Publish, tables
  <2>3. ASSUME NEW g \in 1..Len(content)
        PROVE  /\ Valid(g)' = Valid(g) /\ SwitchesIn(g)' = SwitchesIn(g)
               /\ \A i : SwitchOf(g, i)' = SwitchOf(g, i)
               /\ \A s : LastOf(g, s)' = LastOf(g, s)
    <3>1. Valid(g)' = Valid(g) /\ \A i : SwitchOf(g, i)' = SwitchOf(g, i)
      BY <2>1, PublishKeeps
    <3> QED BY <2>1, <3>1, PublishKeeps DEF LastOf
  <2>4. poll = "cached" => \A s \in SwitchesIn(fetched)' :
                             record[s] = <<fetched, LastOf(fetched, s)'>>
    BY <1>0, <2>2, <2>3 DEF Ahead
  <2>5. \A r \in metricsTable : Later(r)'
    <3> SUFFICES ASSUME NEW r \in metricsTable PROVE Later(r)'
      OBVIOUS
    <3>0. PICK g \in 1..Len(content) : \E i \in Valid(g) : r = <<g, i>>
      BY <1>1
    <3>1. PICK i \in Valid(g) : r = <<g, i>>
      BY <3>0
    <3>2. Later(r)
      BY DEF Ahead, CacheNotBehind, Later
    <3> QED BY <2>2, <2>3, <3>1, <3>2 DEF Later, Older
  <2>6. tracked # 0 /\ fetched = tracked =>
          \A s \in SwitchesIn(tracked)' : \A i \in Valid(tracked)' :
            SwitchOf(tracked, i)' = s => ~Older(record[s], <<tracked, i>>)
    BY <1>0, <2>2, <2>3 DEF Ahead, CacheNotBehind
  <2> QED BY <2>2, <2>4, <2>5, <2>6 DEF Ahead, CacheNotBehind, Later, Older
<1>3. CASE Fetch
  <2>1. /\ fetched' = Len(content) /\ poll' = "parsed" /\ Len(content) # tracked
        /\ UNCHANGED <<content, tracked, record, metricsTable>>
    BY <1>3 DEF Fetch, tables
  <2>2. \A s \in Switches : record'[s][1] <= fetched'
    BY <1>0, <2>1 DEF Ahead
  <2>3. CacheNotBehind'
    BY <2>1 DEF Ahead, CacheNotBehind, Older, SwitchOf
  <2> QED BY <2>1, <2>2, <2>3 DEF Ahead
<1>4. CASE registerSwitchesFromData \/ IngestNothing
  <2>1. /\ UNCHANGED <<content, fetched, record, metricsTable>>
        /\ poll' # "cached"
        /\ tracked' = tracked \/ SwitchesIn(fetched) = {}
        /\ tracked' \in {tracked, fetched}
    BY <1>4 DEF registerSwitchesFromData, IngestNothing, SwitchesIn, tables
  <2>2. CacheNotBehind'
    BY <2>1 DEF Ahead, CacheNotBehind, Older, SwitchOf, SwitchesIn, Valid, Parsed
  <2> QED BY <2>1, <2>2 DEF Ahead
<1>5. CASE UpdateCache
  <2>1. /\ UNCHANGED <<content, fetched, tracked, metricsTable>>
        /\ \A s \in Switches : record'[s] = IF s \in SwitchesIn(fetched)
                                              THEN <<fetched, LastOf(fetched, s)>>
                                              ELSE record[s]
        /\ tracked # fetched /\ fetched \in 1..Len(content)
    BY <1>0, <1>5 DEF UpdateCache, tables
  <2>2. SwitchesIn(fetched) \subseteq Switches
    BY <2>1, ContentTyped
  <2>3. \A r \in metricsTable : Later(r)'
    <3> SUFFICES ASSUME NEW r \in metricsTable PROVE Later(r)'
      OBVIOUS
    <3>0. PICK g \in 1..fetched : \E i \in Valid(g) :
             /\ r = <<g, i>> /\ g \in 1..Len(content)
             /\ SwitchOf(g, i) \in SwitchesIn(g) /\ SwitchOf(g, i) \in Switches
      BY <1>1
    <3>1. PICK i \in Valid(g) :
             /\ r = <<g, i>> /\ g \in 1..Len(content)
             /\ SwitchOf(g, i) \in SwitchesIn(g) /\ SwitchOf(g, i) \in Switches
      BY <3>0
    <3> DEFINE s == SwitchOf(g, i)
    <3>2. SwitchOf(g, i)' = s
      BY <2>1 DEF SwitchOf
    <3>3. CASE s \in SwitchesIn(fetched) /\ g = fetched
      <4>1. record'[s] = <<fetched, LastOf(fetched, s)>>
        BY <2>1, <2>2, <3>3
      <4>2. ~Older(<<fetched, LastOf(fetched, s)>>, <<g, i>>)
        BY <2>1, <3>1, <3>3, BatchIsLast
      <4> QED BY <3>1, <3>2, <4>1, <4>2 DEF Later, Older
    <3>4. CASE s \in SwitchesIn(fetched) /\ g # fetched
      <4>1. record'[s] = <<fetched, LastOf(fetched, s)>>
        BY <2>1, <2>2, <3>4
      <4>2. g < fetched /\ g \in Nat /\ fetched \in Nat
        BY <1>0, <3>4
      <4> QED BY <3>1, <3>2, <4>1, <4>2 DEF Later, Older
    <3>5. CASE s \notin SwitchesIn(fetched)
      <4>1. record'[s] = record[s]
        BY <2>1, <3>1, <3>5
      <4>2. ~Older(record[s], r)
        BY <3>1 DEF Ahead, CacheNotBehind
      <4> QED BY <3>1, <3>2, <4>1, <4>2 DEF Later, Older
    <3> QED BY <3>3, <3>4, <3>5
  <2>4. ASSUME NEW s \in Switches PROVE record'[s][1] <= fetched'
    <3>1. CASE s \in SwitchesIn(fetched)
      <4>1. record'[s] = <<fetched, LastOf(fetched, s)>>
        BY <2>1, <3>1
      <4> QED BY <1>0, <2>1, <4>1
    <3>2. CASE s \notin SwitchesIn(fetched)
      BY <2>1, <3>2 DEF Ahead
    <3> QED BY <3>1, <3>2
  <2>5. \A s \in SwitchesIn(fetched)' : record'[s] = <<fetched, LastOf(fetched, s)'>>
    <3>1. SwitchesIn(fetched)' = SwitchesIn(fetched)
      BY <2>1 DEF SwitchesIn, Valid, Parsed, SwitchOf
    <3>2. \A s : LastOf(fetched, s)' = LastOf(fetched, s)
      BY <2>1 DEF LastOf, Valid, Parsed, SwitchOf
    <3> QED BY <2>1, <2>2, <3>1, <3>2
  <2>6. CacheNotBehind'
    BY <2>1, <2>3 DEF CacheNotBehind, Later
  <2> QED BY <2>1, <2>4, <2>5, <2>6 DEF Ahead
<1>6. CASE WriteToDatabase
  <2>1. /\ UNCHANGED <<content, fetched, record>> /\ poll = "cached" /\ poll' = "idle"
        /\ tracked' \in {tracked, fetched} /\ fetched \in 1..Len(content)
        /\ tracked # fetched
        /\ metricsTable' \in {metricsTable, metricsTable \cup RowsIn(fetched)}
    BY <1>0, <1>6 DEF WriteToDatabase, Written
  <2>2. ASSUME NEW i \in Valid(fetched)
        PROVE  ~Older(record[SwitchOf(fetched, i)], <<fetched, i>>)
    <3>1. SwitchOf(fetched, i) \in SwitchesIn(fetched)
      BY DEF SwitchesIn
    <3>2. record[SwitchOf(fetched, i)] = <<fetched, LastOf(fetched, SwitchOf(fetched, i))>>
      BY <2>1, <3>1 DEF Ahead
    <3> QED BY <2>1, <3>1, <3>2, BatchIsLast
  <2>3. \A r \in metricsTable' : ~Older(record[SwitchOf(r[1], r[2])], r)
    BY <2>1, <2>2 DEF Ahead, CacheNotBehind, RowsIn
  <2>4. CacheNotBehind'
    BY <2>1, <2>2, <2>3 DEF CacheNotBehind, Older, SwitchOf, SwitchesIn, Valid, Parsed
  <2> QED BY <2>1, <2>4 DEF Ahead
<1>7. CASE CacheNext \/ UNCHANGED rvars
  <2>1. UNCHANGED <<content, poll, fetched, tracked, record, metricsTable>>
    BY <1>7 DEF CacheNext, rvars, rowVars, tables
  <2> QED BY <2>1 DEF Ahead, CacheNotBehind, Older, SwitchOf, SwitchesIn, Valid, Parsed,
                      LastOf
<1> QED BY <1>2, <1>3, <1>4, <1>5, <1>6, <1>7 DEF RowsNext, Poll

(* CacheNotBehind for any batches, failing registrations, refused rows and *)
(* lost commits.                                                           *)
THEOREM CacheLeads == RowsSpec => []CacheNotBehind
<1>1. RowsInit => Ahead
  BY DEF RowsInit, Ahead, CacheNotBehind, None
<1>2. Typed /\ Ahead /\ [RowsNext]_rvars => Ahead'
  BY StepAhead
<1>3. Ahead => CacheNotBehind
  BY DEF Ahead
<1> QED BY <1>1, <1>2, <1>3, TypedRows, PTL DEF RowsSpec, rvars
-----------------------------------------------------------------------------
(* A record of the cache is the last row of its switch in a generation     *)
(* that was fetched.                                                       *)
RecordIsLast ==
  \A s \in Switches :
    record[s] = None \/ \E g \in 1..fetched : /\ s \in SwitchesIn(g)
                                            /\ record[s] = <<g, LastOf(g, s)>>

(* Generations keep their last rows.                                       *)
LEMMA LastStays ==
  ASSUME Typed, [RowsNext]_rvars, NEW g \in 1..Len(content)
  PROVE  SwitchesIn(g)' = SwitchesIn(g) /\ \A s : LastOf(g, s)' = LastOf(g, s)
<1>1. CASE Publish
  <2>1. PICK c \in Contents : content' = Append(content, c)
    BY <1>1 DEF Publish
  <2> QED BY <2>1, PublishKeeps DEF LastOf
<1>2. CASE UNCHANGED content
  BY <1>2, SameContent DEF LastOf
<1> QED BY <1>1, <1>2
           DEF RowsNext, Poll, Fetch, registerSwitchesFromData, IngestNothing, UpdateCache,
               WriteToDatabase, CacheNext, rvars, rowVars

(* A step leaves a record alone or replaces it by the last row of the      *)
(* generation in hand.                                                     *)
LEMMA RecordSteps ==
  ASSUME Typed, [RowsNext]_rvars, NEW s \in Switches
  PROVE  /\ fetched' \in Nat /\ fetched <= fetched'
         /\ \/ record'[s] = record[s]
            \/ /\ UpdateCache /\ fetched \in 1..Len(content) /\ fetched' = fetched
               /\ s \in SwitchesIn(fetched)
               /\ record'[s] = <<fetched, LastOf(fetched, s)>>
<1>0. /\ Len(content) \in Nat /\ fetched \in 0..Len(content)
      /\ poll # "idle" => fetched \in 1..Len(content)
  BY DEF Typed
<1>1. CASE UpdateCache
  BY <1>0, <1>1 DEF UpdateCache
<1>2. CASE Fetch
  BY <1>0, <1>2 DEF Fetch
<1>3. CASE ~UpdateCache /\ ~Fetch
  BY <1>0, <1>3 DEF RowsNext, Poll, Publish, registerSwitchesFromData, IngestNothing,
                    WriteToDatabase, CacheNext, rvars, rowVars
<1> QED BY <1>1, <1>2, <1>3

LEMMA StepRecordIsLast == Typed /\ RecordIsLast /\ [RowsNext]_rvars => RecordIsLast'
<1> SUFFICES ASSUME Typed, RecordIsLast, [RowsNext]_rvars, NEW s \in Switches
             PROVE  \/ record'[s] = None
                    \/ \E g \in 1..fetched' : /\ s \in SwitchesIn(g)'
                                             /\ record'[s] = <<g, LastOf(g, s)'>>
  BY DEF RecordIsLast
<1>0. Len(content) \in Nat /\ fetched \in 0..Len(content)
  BY DEF Typed
<1>1. CASE record'[s] = record[s]
  <2>1. CASE record[s] = None
    BY <1>1, <2>1
  <2>2. CASE record[s] # None
    <3>1. PICK g \in 1..fetched : s \in SwitchesIn(g) /\ record[s] = <<g, LastOf(g, s)>>
      BY <2>2 DEF RecordIsLast
    <3>2. g \in 1..Len(content) /\ g \in 1..fetched'
      BY <1>0, RecordSteps
    <3>3. s \in SwitchesIn(g)' /\ LastOf(g, s)' = LastOf(g, s)
      BY <3>1, <3>2, LastStays
    <3> QED BY <1>1, <3>1, <3>2, <3>3
  <2> QED BY <2>1, <2>2
<1>2. CASE record'[s] # record[s]
  <2>1. /\ fetched \in 1..Len(content) /\ fetched' = fetched /\ s \in SwitchesIn(fetched)
        /\ record'[s] = <<fetched, LastOf(fetched, s)>>
    BY <1>2, RecordSteps
  <2>2. s \in SwitchesIn(fetched)' /\ LastOf(fetched, s)' = LastOf(fetched, s)
    BY <2>1, LastStays
  <2>3. fetched \in 1..fetched'
    BY <2>1
  <2> QED BY <2>1, <2>2, <2>3
<1> QED BY <1>1, <1>2

(* RecordsMoveForward, whatever is polled again and however often: the     *)
(* batch that goes into the cache (hybrid.go:272-277) never replaces a     *)
(* record by an older one.                                                 *)
THEOREM CacheMovesForward == RowsSpec => RecordsMoveForward
<1>1. RowsInit => RecordIsLast
  BY DEF RowsInit, RecordIsLast
<1>2. Typed /\ RecordIsLast /\ [RowsNext]_rvars => RecordIsLast'
  BY StepRecordIsLast
<1>3. ASSUME Typed, RecordIsLast, [RowsNext]_rvars,
             NEW s \in Switches, record'[s] # record[s]
      PROVE  Older(record[s], record'[s])
  <2>1. /\ fetched \in 1..Len(content) /\ s \in SwitchesIn(fetched)
        /\ record'[s] = <<fetched, LastOf(fetched, s)>>
    BY <1>3, RecordSteps
  <2>2. CASE record[s] = None
    BY <1>3, <2>1, <2>2 DEF None, Older, Typed
  <2>3. CASE record[s] # None
    <3>1. PICK g \in 1..fetched : record[s] = <<g, LastOf(g, s)>>
      BY <1>3, <2>3 DEF RecordIsLast
    <3>2. g # fetched
      BY <1>3, <2>1, <3>1
    <3>3. g < fetched
      BY <1>3, <3>2 DEF Typed
    <3> QED BY <2>1, <3>1, <3>3 DEF Older
  <2> QED BY <2>2, <2>3
<1>4. Typed /\ RecordIsLast /\ [RowsNext]_rvars
        => [\A s \in Switches : record'[s] # record[s]
                                => Older(record[s], record'[s])]_rvars
  BY <1>3
<1> QED BY <1>1, <1>2, <1>4, TypedRows, PTL DEF RowsSpec, RecordsMoveForward, rvars
=============================================================================
