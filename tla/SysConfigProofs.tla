-------------------------- MODULE SysConfigProofs --------------------------
(***************************************************************************)
(* Theorems about SysConfig for any keys, any contents of the file and any *)
(* number of edits.                                                        *)
(***************************************************************************)
EXTENDS SysConfig, TLAPS

USE AbsentAssumption, FilesAssumption, TypesAssumption

(* Each edit makes at most three write events; the one that first creates  *)
(* the file, or fills an empty one, makes two.                             *)
EventsBounded ==
  events <= 3 * edits + CASE file = Nothing -> 0
                          [] file \in Cuts -> 1
                          [] OTHER         -> 2

(* The map has a setting of the key that counts, or the watcher is about   *)
(* to merge one: the first Config may have been read through the race.     *)
Set(k)    == Counts(data[k], k)
Coming(k) == watcher = "merge" /\ unmerged[k] # Absent

InMap(k) == Set(k) \/ Coming(k)

Survives ==
  \A k \in Keys : Firm(k) =>
    /\ init = "publish" /\ initView[k] \notin Unset(k) => InMap(k)
    /\ init = "done" /\ config[k] \notin Unset(k) => InMap(k)

(* Once there is a watcher, an edit leaves an event or a mark: without     *)
(* either, what has been read is what the file holds, and what has been    *)
(* merged is in the map.  The first Config is built after the first load   *)
(* and after the assignment that the listener looks for.                   *)
Unchanged == events = 0 /\ ~replaced

Followed ==
  /\ init \in {"load", "watch"} => watcher = "none"
  /\ init \in {"read", "publish", "done"} => sysConfig
  /\ watcher = "merge" /\ Unchanged => unmerged = file
  /\ watcher = "listen" /\ Unchanged =>
       \A k \in Keys : file[k] # Absent => data[k] = file[k]

IInv == TypeOK /\ EventsBounded /\ Survives /\ Followed

-----------------------------------------------------------------------------
LEMMA SettingTyped ==
  ASSUME NEW k \in Keys, NEW setting \in Settings
  PROVE  OrDefault(setting, k) \in Nat
<1>1. Get(setting, k) \in Nat
  BY DEF Get, Settings
<1> QED BY <1>1 DEF OrDefault

LEMMA ViewTyped ==
  ASSUME NEW d \in [Keys -> Settings]
  PROVE  View(d) \in [Keys -> Nat]
BY SettingTyped DEF View

LEMMA NothingTyped == Nothing \in [Keys -> Settings]
BY DEF Nothing, Settings

(* A merge keeps the types and every key that has a default.               *)
LEMMA MergedTyped ==
  ASSUME TypeOK, NEW f \in Files \cup Cuts \cup {Nothing}
  PROVE  /\ Merged(f) \in [Keys -> Settings]
         /\ \A k \in Keys : Default[k] # Absent => Merged(f)[k] # Absent
<1>1. f \in [Keys -> Settings]
  BY NothingTyped
<1>2. data \in [Keys -> Settings]
      /\ \A k \in Keys : Default[k] # Absent => data[k] # Absent
  BY DEF TypeOK
<1> QED BY <1>1, <1>2 DEF Merged

(* Merging never makes a firm key fall back to a default.                  *)
LEMMA MergeKeeps ==
  ASSUME TypeOK, NEW k \in Keys, Firm(k), NEW f \in Files \cup Cuts \cup {Nothing},
         Set(k) \/ f[k] # Absent
  PROVE  Counts(Merged(f)[k], k)
<1>1. CASE f[k] # Absent
  <2>1. f \in Files \cup Cuts
    BY <1>1 DEF Nothing
  <2> QED BY <1>1, <2>1 DEF Firm, Merged
<1>2. CASE f[k] = Absent
  BY <1>2 DEF Set, Merged
<1> QED BY <1>1, <1>2

LEMMA ViewAt ==
  ASSUME NEW d, NEW k \in Keys
  PROVE  View(d)[k] = OrDefault(d[k], k)
BY DEF View

-----------------------------------------------------------------------------
LEMMA InitIInv == Init => IInv
<1> SUFFICES ASSUME Init PROVE IInv
  OBVIOUS
<1>1. TypeOK
  <2>1. data \in [Keys -> Settings]
        /\ \A k \in Keys : Default[k] # Absent => data[k] # Absent
    BY DEF Init
  <2>2. edits \in 0..MaxEdits /\ events \in 0..(3 * edits + 2)
    BY DEF Init
  <2>3. config \in [Keys -> Nat] /\ initView \in [Keys -> Nat]
    BY DEF Init
  <2>4. file \in Files \cup {Nothing} /\ unmerged = Nothing
    BY DEF Init
  <2> QED BY <2>1, <2>2, <2>3, <2>4 DEF Init, TypeOK
<1>2. EventsBounded
  BY DEF Init, EventsBounded
<1>3. Survives
  BY DEF Init, Survives
<1>4. Followed
  BY DEF Init, Followed
<1> QED BY <1>1, <1>2, <1>3, <1>4 DEF IInv

(* The types, and the bound on the events that the edits need.             *)
LEMMA TypeStep ==
  ASSUME TypeOK, EventsBounded, [Next]_vars
  PROVE  TypeOK' /\ EventsBounded'
<1> USE DEF TypeOK, EventsBounded
<1> /\ Merged(file) \in [Keys -> Settings] /\ Merged(unmerged) \in [Keys -> Settings]
    /\ \A k \in Keys : Default[k] # Absent =>
         Merged(file)[k] # Absent /\ Merged(unmerged)[k] # Absent
  BY MergedTyped
<1>1. CASE InitLoad
  BY <1>1 DEF InitLoad, fileVars, initVars, watcherVars
<1>2. CASE StartWatcher
  BY <1>2 DEF StartWatcher, fileVars
<1>3. CASE AssignSysConfig
  BY <1>3 DEF AssignSysConfig, fileVars, watcherVars
<1>4. CASE InitRead
  <2>1. View(data) \in [Keys -> Nat] /\ View(Merged(unmerged)) \in [Keys -> Nat]
    BY ViewTyped
  <2>2. initView' \in [Keys -> Nat]
    <3>1. CASE initView' = View(data)
      BY <2>1, <3>1
    <3>2. ASSUME NEW seen \in SUBSET Keys,
                 initView' = [k \in Keys |-> IF k \in seen THEN View(Merged(unmerged))[k]
                                                           ELSE View(data)[k]]
          PROVE  initView' \in [Keys -> Nat]
      BY <2>1, <3>2
    <3> QED BY <1>4, <3>1, <3>2 DEF InitRead
  <2> QED BY <1>4, <2>2 DEF InitRead, fileVars, watcherVars
<1>5. CASE InitPublish
  BY <1>5 DEF InitPublish, fileVars, watcherVars
<1>6. CASE MapRace
  BY <1>6 DEF MapRace, fileVars, initVars, watcherVars
<1>7. CASE ReceiveEvent
  BY <1>7 DEF ReceiveEvent, initVars
<1>8. CASE Reload
  BY <1>8 DEF Reload, fileVars, initVars
<1>9. CASE Merge
  BY <1>9 DEF Merge, fileVars, initVars
<1>10. CASE Listen
  <2>1. View(data) \in [Keys -> Nat]
    BY ViewTyped
  <2> QED BY <1>10, <2>1 DEF Listen, fileVars, initVars
<1>11. CASE Truncate
  <2>1. events' = events + 1 \/ events' = events
    BY <1>11 DEF Truncate, WriteEvent
  <2>2. edits' = edits + 1 /\ edits < MaxEdits /\ file' = Nothing
        /\ events <= 3 * edits + 2
    BY <1>11 DEF Truncate
  <2>3. edits' \in 0..MaxEdits /\ events' \in 0..(3 * edits' + 2) /\ EventsBounded'
    BY <2>1, <2>2
  <2> QED BY <1>11, <2>3 DEF Truncate, initVars, watcherVars
<1>12. CASE WriteHalf \/ Write
  <2>1. events' = events + 1 \/ events' = events
    BY <1>12 DEF WriteHalf, Write, WriteEvent
  <2>2. \/ file = Nothing /\ file' \in Cuts /\ file' # Nothing
        \/ /\ file \in Cuts \cup {Nothing}
           /\ file' \in Files /\ file' # Nothing /\ file' \notin Cuts
    BY <1>12 DEF WriteHalf, Write, Nothing
  <2>3. edits' = edits /\ edits \in Nat /\ events \in Nat
    BY <1>12 DEF WriteHalf, Write
  <2>4. EventsBounded'
    <3>1. CASE file = Nothing /\ file' \in Cuts /\ file' # Nothing
      <4>1. Nothing \notin Cuts
        BY DEF Nothing
      <4>2. events <= 3 * edits /\ (EventsBounded' <=> events' <= 3 * edits' + 1)
        BY <2>3, <3>1, <4>1
      <4> QED BY <2>1, <2>3, <4>2
    <3>2. CASE file \in Cuts \cup {Nothing} /\ file' # Nothing /\ file' \notin Cuts
      <4>1. events <= 3 * edits + 1 /\ (EventsBounded' <=> events' <= 3 * edits' + 2)
        BY <2>3, <3>2
      <4> QED BY <2>1, <2>3, <4>1
    <3> QED BY <2>2, <3>1, <3>2
  <2>5. events' \in 0..(3 * edits' + 2)
    BY <1>12, <2>1, <2>2, <2>3, <2>4
  <2> QED BY <1>12, <2>3, <2>4, <2>5 DEF WriteHalf, Write, initVars, watcherVars
<1>13. CASE Replace
  BY <1>13 DEF Replace, initVars, watcherVars
<1>14. CASE UNCHANGED vars
  BY <1>14 DEF vars, fileVars, initVars, watcherVars
<1> QED
  BY <1>1, <1>2, <1>3, <1>4, <1>5, <1>6, <1>7, <1>8, <1>9, <1>10, <1>11, <1>12,
     <1>13, <1>14 DEF Next, InitStep, WatchStep, Edit

(* What a Config has of a firm key is in the map, or on its way there.     *)
LEMMA SurvivesStep ==
  ASSUME TypeOK, Survives, [Next]_vars
  PROVE  Survives'
<1> SUFFICES ASSUME NEW k \in Keys, Firm(k)
             PROVE  /\ init' = "publish" /\ initView'[k] \notin Unset(k) => InMap(k)'
                    /\ init' = "done" /\ config'[k] \notin Unset(k) => InMap(k)'
  BY DEF Survives, Firm, Counts, Unset, OrDefault, Get
<1> DEFINE Published == \/ init = "publish" /\ initView[k] \notin Unset(k)
                        \/ init = "done" /\ config[k] \notin Unset(k)
<1>0. Published => InMap(k)
  BY DEF Survives
<1>1. CASE InitLoad \/ StartWatcher \/ AssignSysConfig
  BY <1>1 DEF InitLoad, StartWatcher, AssignSysConfig
<1>2. CASE InitRead
  <2>1. init' = "publish" /\ UNCHANGED <<data, watcherVars>>
    BY <1>2 DEF InitRead
  <2>2. InMap(k)' <=> InMap(k)
    BY <2>1 DEF InMap, Set, Coming, watcherVars, Counts, Unset,
                                               OrDefault, Get
  <2>3. initView'[k] = View(data)[k]
        \/ (watcher = "merge" /\ initView'[k] = View(Merged(unmerged))[k])
    BY <1>2 DEF InitRead, Racing
  <2>4. CASE initView'[k] = View(data)[k]
    BY <2>1, <2>2, <2>4, ViewAt DEF InMap, Set, Counts
  <2>5. CASE watcher = "merge" /\ initView'[k] = View(Merged(unmerged))[k]
    <3>1. CASE unmerged[k] # Absent
      BY <2>1, <2>2, <2>5, <3>1 DEF InMap, Coming
    <3>2. CASE unmerged[k] = Absent
      <4>1. Merged(unmerged)[k] = data[k]
        BY <3>2 DEF Merged
      <4> QED BY <2>1, <2>2, <2>5, <4>1, ViewAt DEF InMap, Set, Counts
    <3> QED BY <3>1, <3>2
  <2> QED BY <2>3, <2>4, <2>5
<1>3. CASE InitPublish
  BY <1>0, <1>3 DEF InitPublish, InMap, Set, Coming, watcherVars, OrDefault, Get
<1>4. CASE Merge
  <2>1. data' = Merged(unmerged) /\ UNCHANGED <<config, init, initView>>
    BY <1>4 DEF Merge, initVars
  <2>2. SUFFICES ASSUME Published PROVE Set(k)'
    BY <2>1 DEF InMap
  <2>3. Set(k) \/ unmerged[k] # Absent
    BY <1>0, <2>2 DEF InMap, Coming
  <2>4. Counts(Merged(unmerged)[k], k)
    BY <2>3, MergeKeeps DEF TypeOK
  <2> QED BY <2>1, <2>4 DEF Set, Counts, Unset, OrDefault, Get
<1>5. CASE Listen
  <2>1. watcher = "listen" /\ UNCHANGED <<data, init, initView>>
        /\ (config' = config \/ config' = View(data))
    BY <1>5 DEF Listen, initVars
  <2>2. Set(k)' <=> Set(k)
    BY <2>1 DEF Set, Counts, Unset, OrDefault, Get
  <2>3. CASE Published
    BY <1>0, <2>1, <2>2, <2>3 DEF InMap, Coming
  <2>4. CASE ~Published /\ config' = config
    BY <2>1, <2>4
  <2>5. CASE ~Published /\ config' = View(data)
    BY <2>1, <2>2, <2>5, ViewAt DEF InMap, Set, Counts
  <2> QED BY <2>1, <2>3, <2>4, <2>5
<1>6. CASE ReceiveEvent \/ Reload
  <2>1. watcher # "merge" /\ UNCHANGED <<data, config, init, initView>>
    BY <1>6 DEF ReceiveEvent, Reload, initVars
  <2>2. Set(k)' <=> Set(k)
    BY <2>1 DEF Set, Counts, Unset, OrDefault, Get
  <2> QED BY <1>0, <2>1, <2>2 DEF InMap, Coming
<1>7. CASE MapRace \/ Edit \/ UNCHANGED vars
  <2>1. UNCHANGED <<data, config, init, initView, watcher, unmerged>>
    BY <1>7 DEF MapRace, Edit, Truncate, WriteHalf, Write, Replace, vars, initVars,
                watcherVars
  <2> QED BY <1>0, <2>1 DEF InMap, Set, Coming, Counts, Unset, OrDefault, Get
<1> QED
  BY <1>1, <1>2, <1>3, <1>4, <1>5, <1>6, <1>7 DEF Next, InitStep, WatchStep

(* An edit of the file leaves an event or a mark.                          *)
LEMMA EditShows ==
  ASSUME TypeOK, Edit, watcher # "none"
  PROVE  ~Unchanged'
<1>1. CASE Replace
  BY <1>1 DEF Replace, Unchanged
<1>2. CASE Truncate \/ WriteHalf \/ Write
  <2>1. events \in Nat
    BY DEF TypeOK
  <2>2. events' = events + 1 \/ (events > 0 /\ events' = events)
    BY <1>2 DEF Truncate, WriteHalf, Write, WriteEvent
  <2> QED BY <2>1, <2>2 DEF Unchanged
<1> QED BY <1>1, <1>2 DEF Edit

LEMMA FollowedStep ==
  ASSUME TypeOK, Followed, [Next]_vars
  PROVE  Followed'
<1> USE DEF Followed, Unchanged
<1>1. CASE InitLoad
  BY <1>1 DEF InitLoad, fileVars, watcherVars
<1>2. CASE StartWatcher
  BY <1>2 DEF StartWatcher, fileVars
<1>3. CASE AssignSysConfig \/ InitRead \/ InitPublish
  BY <1>3 DEF AssignSysConfig, InitRead, InitPublish, fileVars, watcherVars
<1>4. CASE ReceiveEvent \/ Reload
  BY <1>4 DEF ReceiveEvent, Reload, fileVars, initVars
<1>5. CASE Merge
  <2>1. init \notin {"load", "watch"}
    BY <1>5 DEF Merge
  <2>2. Unchanged => \A k \in Keys : file[k] # Absent => Merged(unmerged)[k] = file[k]
    BY <1>5 DEF Merge, Merged
  <2> QED BY <1>5, <2>1, <2>2 DEF Merge, fileVars, initVars
<1>6. CASE Listen
  BY <1>6 DEF Listen, fileVars, initVars
<1>7. CASE Edit
  <2>1. watcher # "none" => ~Unchanged'
    BY <1>7, EditShows
  <2>2. UNCHANGED <<data, sysConfig, init, watcher, unmerged>>
    BY <1>7 DEF Edit, Truncate, WriteHalf, Write, Replace, initVars, watcherVars
  <2> QED BY <2>1, <2>2
<1>8. CASE MapRace \/ UNCHANGED vars
  <2>1. UNCHANGED <<file, events, replaced, data, sysConfig, init, watcher, unmerged>>
    BY <1>8 DEF MapRace, vars, fileVars, initVars, watcherVars
  <2> QED BY <2>1
<1> QED
  BY <1>1, <1>2, <1>3, <1>4, <1>5, <1>6, <1>7, <1>8 DEF Next, InitStep, WatchStep

LEMMA IInvStep == IInv /\ [Next]_vars => IInv'
BY TypeStep, SurvivesStep, FollowedStep DEF IInv

LEMMA Invariance == Spec => []IInv
BY InitIInv, IInvStep, PTL DEF Spec

-----------------------------------------------------------------------------
(* The configuration keeps its types, a key that has a default stays set,  *)
(* though it may come to be null, and the watcher has at most three events *)
(* to receive for each edit (sysconfig.go:130-159, config.go:116-252).     *)
THEOREM TypeCorrect == Spec => []TypeOK
BY Invariance, PTL DEF IInv

(* A setting in force never falls back to a default that no version of the *)
(* file, whole or half, sets: SettingsSurviveEdits, though the watcher     *)
(* reads truncated files and races with the first Config                   *)
(* (sysconfig.go:150, config.go:83-114).                                   *)
THEOREM SettingsSurvive == Spec => SettingsSurviveEdits
<1>1. IInv /\ [Next]_vars => [NoneFallsBack]_vars
  <2> SUFFICES ASSUME IInv, Next, NEW k \in Keys, init = "done", Firm(k),
                      config[k] \notin Unset(k)
               PROVE  config'[k] \notin Unset(k)
    BY DEF NoneFallsBack
  <2>1. CASE Listen
    <3>1. Set(k)
      BY <2>1 DEF IInv, Survives, InMap, Coming, Listen
    <3>2. config' = config \/ config' = View(data)
      BY <2>1 DEF Listen
    <3> QED BY <3>1, <3>2, ViewAt DEF Set, Counts
  <2>2. CASE ~Listen
    <3>1. config' = config
      BY <2>2 DEF Next, InitStep, WatchStep, Edit, InitLoad, StartWatcher,
         AssignSysConfig, InitRead, InitPublish, MapRace, ReceiveEvent, Reload, Merge,
         Truncate, WriteHalf, Write, Replace
    <3> QED BY <3>1
  <2> QED BY <2>1, <2>2
<1> QED BY Invariance, <1>1, PTL DEF Spec, SettingsSurviveEdits

(* Whenever the watcher is through with an event and has no other, the     *)
(* Config is what the file says: however edits fell between the debounce,  *)
(* the read, the merge and the listener, none was consumed unseen          *)
(* (sysconfig.go:219-275, config.go:83-114).  A file that was put in place *)
(* by a rename, and half a file, are the exceptions the property names.    *)
THEOREM IdleWatcherIsCurrent == Spec => IdleIsCurrent
<1> DEFINE A == /\ init = "done"
                /\ watcher # "select" /\ watcher' = "select" /\ events' = 0
                /\ ~replaced' /\ file' \notin Cuts
                => InForce'
<1>1. IInv /\ [Next]_vars => [A]_vars
  <2> SUFFICES ASSUME IInv, Next, init = "done", watcher # "select",
                      watcher' = "select", events' = 0, ~replaced', file' \notin Cuts
               PROVE  InForce'
    OBVIOUS
  <2>1. CASE Listen
    <3>1. sysConfig /\ UNCHANGED <<file, data>> /\ config' = View(data)
      BY <2>1 DEF Listen, IInv, Followed, fileVars
    <3>2. \A k \in Keys : file[k] # Absent => data[k] = file[k]
      BY <2>1 DEF Listen, IInv, Followed, Unchanged, fileVars
    <3>3. ASSUME NEW k \in Keys, file'[k] # Absent
          PROVE  config'[k] = OrDefault(file'[k], k)
      BY <3>1, <3>2, <3>3, ViewAt
    <3> QED BY <3>3 DEF InForce, OrDefault, Get
  <2>2. CASE Reload
    <3>1. file' = Nothing
      BY <2>2 DEF Reload, HalfWritten, fileVars
    <3> QED BY <3>1 DEF InForce, Nothing
  <2>3. CASE ~Listen /\ ~Reload
    <3>1. watcher' # "select"
      BY <2>3 DEF Next, InitStep, WatchStep, Edit, InitLoad, StartWatcher,
         AssignSysConfig, InitRead, InitPublish, MapRace, ReceiveEvent, Merge,
         Truncate, WriteHalf, Write, Replace, watcherVars
    <3> QED BY <3>1
  <2> QED BY <2>1, <2>2, <2>3
<1> QED BY Invariance, <1>1, PTL DEF Spec, IdleIsCurrent
=============================================================================
