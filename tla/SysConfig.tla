----------------------------- MODULE SysConfig -----------------------------
(***************************************************************************)
(* The configuration (internal/sysconfig/sysconfig.go, internal/config/    *)
(* config.go): a map of flattened keys that a YAML file is merged into, a  *)
(* watcher that merges the file again when it is written, and the typed    *)
(* Config that the service reads, rebuilt from the map.                    *)
(*                                                                         *)
(* Neither the map nor the pointer to the Config has a lock.  The          *)
(* goroutine that creates the service (init) reads the map after it has    *)
(* started the watcher.                                                    *)
(***************************************************************************)
EXTENDS Naturals, FiniteSets

CONSTANTS Keys,         \* flattened keys
          KeyType,      \* what Config wants of each: string, bool or int
          Fallback,     \* what it takes without (getStringOrDefault, ...)
          Default,      \* what getConfigDefaults puts into the map, if anything
          Files,        \* contents the file may be given: settings of keys
          Cuts,         \* what half of one may parse to
          Absent,       \* a key that is not set
          MaxEdits      \* bound on the edits of the file

(* A YAML value has a kind and a value; the zero of each type is 0 (for a  *)
(* string the empty one, for a bool FALSE).  A key that is cut before its  *)
(* value is a null, which the map then holds.                              *)
Kinds    == {"string", "bool", "int", "float", "null"}
Settings == [kind : Kinds, val : Nat] \cup {Absent}

ASSUME AbsentAssumption == Absent \notin [kind : Kinds, val : Nat]
\* Every version of the file has a setting: that tells it from the truncated file.
ASSUME FilesAssumption == /\ Files \subseteq [Keys -> Settings]
                          /\ Cuts \subseteq [Keys -> Settings]
                          /\ [k \in Keys |-> Absent] \notin Files \cup Cuts
                          /\ Files \cap Cuts = {}
ASSUME TypesAssumption == /\ KeyType \in [Keys -> {"string", "bool", "int"}]
                          /\ Fallback \in [Keys -> Nat]
                          /\ Default \in [Keys -> Settings]
                          /\ MaxEdits \in Nat

VARIABLES file,         \* what the file holds
          events,       \* write events the watcher has not received
          edits,        \* edits begun
          replaced,     \* the last edit put a new file in the place of the old
          data,         \* the map
          sysConfig,    \* s.sysConfig has been assigned
          config,       \* *s.config
          init,         \* where the goroutine of NewService is
          initView,     \* the Config it is building
          watcher,      \* where the watcher is
          unmerged,     \* what it has read and not yet merged
          crashed       \* the process has died

fileVars    == <<file, events, edits, replaced>>
initVars    == <<init, initView>>
watcherVars == <<watcher, unmerged>>
vars == <<fileVars, data, sysConfig, config, initVars, watcherVars, crashed>>

Nothing == [k \in Keys |-> Absent]  \* an empty file sets no key

(***************************************************************************)
(* What unmarshalConfig makes of a setting.  GetString, GetBool and GetInt *)
(* assert a type and answer zero if it is another one; GetInt asserts      *)
(* float64, and YAML makes an int of a whole number.  A zero string or     *)
(* number, but no bool that is set, gives way to the fallback; a null is   *)
(* as good as no setting.                                                  *)
(***************************************************************************)
Asserted(k) == CASE KeyType[k] = "string" -> "string"
                 [] KeyType[k] = "bool"   -> "bool"
                 [] KeyType[k] = "int"    -> "float"

Get(setting, k) ==
  IF setting # Absent /\ setting.kind = Asserted(k) THEN setting.val ELSE 0

OrDefault(setting, k) ==
  IF \/ KeyType[k] = "bool" /\ setting # Absent /\ setting.kind # "null"
     \/ Get(setting, k) # 0
    THEN Get(setting, k) ELSE Fallback[k]

View(settings) == [k \in Keys |-> OrDefault(settings[k], k)]

(* What the map holds once `settings` has been merged into it.             *)
Merged_Replaces(settings) == settings   \* the map is made anew
Merged(settings) ==
  [k \in Keys |-> IF settings[k] = Absent THEN data[k] ELSE settings[k]]

Init == /\ file \in Files \cup {Nothing}     \* Nothing: there is none
        /\ events = 0
        /\ edits = 0
        /\ replaced = FALSE
        /\ data = Default
        /\ sysConfig = FALSE
        /\ config = [k \in Keys |-> 0]
        /\ init = "load"
        /\ initView = [k \in Keys |-> 0]
        /\ watcher = "none"
        /\ unmerged = Nothing
        /\ crashed = FALSE

(***************************************************************************)
(* Load, in the goroutine of NewService: the file, then the watcher.  A    *)
(* file that does not parse ends the process.                              *)
(***************************************************************************)
HalfWritten == (file = Nothing /\ edits > 0) \/ file \in Cuts

InitLoad ==
  /\ init = "load"
  /\ \/ data' = Merged(file) /\ init' = "watch" /\ UNCHANGED crashed
     \/ HalfWritten /\ crashed' = TRUE /\ UNCHANGED <<data, init>>
  /\ UNCHANGED <<fileVars, sysConfig, config, initView, watcherVars>>

StartWatcher ==
  /\ init = "watch"
  /\ watcher' = "select"
  /\ init' = "assign"
  /\ UNCHANGED <<fileVars, data, sysConfig, config, initView, unmerged, crashed>>

AssignSysConfig ==
  /\ init = "assign"
  /\ sysConfig' = TRUE
  /\ init' = "read"
  /\ UNCHANGED <<fileVars, data, config, initView, watcherVars, crashed>>

(* unmarshalConfig: the map is read, and then the Config published.  While *)
(* the watcher writes to the map, Go lets the reader die or see some keys  *)
(* as they were and others as they are.                                    *)
Racing == init = "read" /\ watcher = "merge"

InitRead ==
  /\ init = "read"
  /\ \/ initView' = View(data)
     \/ Racing /\ \E seen \in SUBSET Keys :
          initView' = [k \in Keys |-> IF k \in seen THEN View(Merged(unmerged))[k]
                                                    ELSE View(data)[k]]
  /\ init' = "publish"
  /\ UNCHANGED <<fileVars, data, sysConfig, config, watcherVars, crashed>>

MapRace ==
  /\ Racing
  /\ crashed' = TRUE
  /\ UNCHANGED <<fileVars, data, sysConfig, config, initVars, watcherVars>>

InitPublish ==
  /\ init = "publish"
  /\ config' = initView
  /\ init' = "done"
  /\ UNCHANGED <<fileVars, data, sysConfig, initView, watcherVars, crashed>>

(***************************************************************************)
(* handleWatchEvents.  Only write events of the file count.  After 100 ms  *)
(* the file is read, merged, and the listener run.                         *)
(***************************************************************************)
ReceiveEvent ==
  /\ watcher = "select"
  /\ events > 0
  /\ events' = events - 1
  /\ watcher' = "debounce"
  /\ UNCHANGED <<file, edits, replaced, data, sysConfig, config, initVars,
                 unmerged, crashed>>

(* Later, a file that does not parse is left alone.                        *)
Reload ==
  /\ watcher = "debounce"
  /\ \/ watcher' = "merge" /\ unmerged' = file
     \/ HalfWritten /\ watcher' = "select" /\ UNCHANGED unmerged
  /\ UNCHANGED <<fileVars, data, sysConfig, config, initVars, crashed>>

Merge_Drains ==    \* events that came during the reload are dropped
  /\ watcher = "merge"
  /\ data' = Merged(unmerged)
  /\ events' = 0
  /\ unmerged' = Nothing
  /\ watcher' = "listen"
  /\ UNCHANGED <<file, edits, replaced, sysConfig, config, initVars, crashed>>

Merge ==
  /\ watcher = "merge"
  /\ data' = Merged(unmerged)
  /\ unmerged' = Nothing
  /\ watcher' = "listen"
  /\ UNCHANGED <<fileVars, sysConfig, config, initVars, crashed>>

(* sysConfigUpdateListener; no listener of the service follows it.         *)
Listen ==
  /\ watcher = "listen"
  /\ config' = IF sysConfig THEN View(data) ELSE config
  /\ watcher' = "select"
  /\ UNCHANGED <<fileVars, data, sysConfig, initVars, unmerged, crashed>>

(***************************************************************************)
(* The file is edited: an editor truncates it and writes it, at once or in *)
(* two pieces, which gives as many write events, or puts a new file in its *)
(* place, which gives none.                                                *)
(* Events that have not been received may be merged into one.  Before the  *)
(* watcher is there nothing is reported at all: an edit that comes after   *)
(* the first load and before startWatcher goes unseen.                     *)
(***************************************************************************)
WriteEvent ==
  IF watcher = "none" THEN events' = events
  ELSE events' \in {events + 1} \cup (IF events > 0 THEN {events} ELSE {})

Truncate ==
  /\ edits < MaxEdits
  /\ file # Nothing
  /\ file' = Nothing
  /\ edits' = edits + 1
  /\ replaced' = FALSE
  /\ WriteEvent
  /\ UNCHANGED <<data, sysConfig, config, initVars, watcherVars, crashed>>

WriteHalf ==
  /\ file = Nothing
  /\ file' \in Cuts
  /\ WriteEvent
  /\ UNCHANGED <<edits, replaced, data, sysConfig, config, initVars, watcherVars,
                 crashed>>

Write ==
  /\ file \notin Files
  /\ file' \in Files
  /\ WriteEvent
  /\ UNCHANGED <<edits, replaced, data, sysConfig, config, initVars, watcherVars,
                 crashed>>

Replace ==
  /\ edits < MaxEdits
  /\ file' \in Files
  /\ edits' = edits + 1
  /\ replaced' = TRUE
  /\ UNCHANGED <<events, data, sysConfig, config, initVars, watcherVars, crashed>>

-----------------------------------------------------------------------------
InitStep  == InitLoad \/ StartWatcher \/ AssignSysConfig \/ InitRead \/ InitPublish
WatchStep == ReceiveEvent \/ Reload \/ Merge \/ Listen
Edit      == Truncate \/ WriteHalf \/ Write \/ Replace

Next == ~crashed /\ (InitStep \/ MapRace \/ WatchStep \/ Edit)

(* Both goroutines run, and who has truncated the file writes it whole.    *)
Fairness == /\ WF_vars(~crashed /\ InitStep)
            /\ WF_vars(~crashed /\ WatchStep)
            /\ WF_vars(~crashed /\ Write)

Spec     == Init /\ [][Next]_vars
FairSpec == Spec /\ Fairness

-----------------------------------------------------------------------------
(* Type invariant: each goroutine stays within its code, a key that has a  *)
(* default is never unset, and there is at most an event for each write.   *)
TypeOK ==
  /\ file \in Files \cup Cuts \cup {Nothing}
  /\ edits \in 0..MaxEdits /\ events \in 0..(3 * edits + 2)
  /\ replaced \in BOOLEAN
  /\ data \in [Keys -> Settings]
  /\ \A k \in Keys : Default[k] # Absent => data[k] # Absent
  /\ sysConfig \in BOOLEAN
  /\ config \in [Keys -> Nat] /\ initView \in [Keys -> Nat]
  /\ init \in {"load", "watch", "assign", "read", "publish", "done"}
  /\ watcher \in {"none", "select", "debounce", "merge", "listen"}
  /\ unmerged \in Files \cup Cuts \cup {Nothing}
  /\ crashed \in BOOLEAN

(* What the file says is in force if Config has it for each key it sets,   *)
(* as far as the getters understand the setting.                           *)
InForce == \A k \in Keys : file[k] # Absent => config[k] = OrDefault(file[k], k)

(* A file that was written after the service had come up is in force in    *)
(* the end, if nobody touches it any more: the debounce, half written      *)
(* files and merged events lose no last write.                             *)
WritesTakeEffect ==
  \A f \in Files : init = "done" /\ events > 0 /\ file = f /\ ~replaced
                     ~> InForce \/ file # f \/ replaced

(* Whenever the watcher has finished with an event and has no other, the   *)
(* file is in force, unless it is half of one: however the edits fell      *)
(* between the 100 ms, the read, the merge and the listener, none was      *)
(* consumed unseen.                                                        *)
IdleIsCurrent ==
  [][ /\ init = "done"
      /\ watcher # "select" /\ watcher' = "select" /\ events' = 0
      /\ ~replaced' /\ file' \notin Cuts
      => InForce' ]_vars

(* What Config has of a key that no file sets: the default of the map, or  *)
(* the fallback of the getter, which differ for some keys.                 *)
Unset(k) == {OrDefault(Default[k], k), Fallback[k]}

(* A setting that is in force never falls back to a default, although the  *)
(* watcher may read the file when it is truncated or half written.  It may *)
(* only if a version of the file, or half of one, sets the key to its      *)
(* default, to nothing, or to what the getter does not understand.         *)
Counts(setting, k) == OrDefault(setting, k) \notin Unset(k)

Firm(k) == \A f \in Files \cup Cuts : f[k] # Absent => Counts(f[k], k)

NoneFallsBack ==
  \A k \in Keys : init = "done" /\ Firm(k) /\ config[k] \notin Unset(k)
                   => config'[k] \notin Unset(k)

SettingsSurviveEdits == [][NoneFallsBack]_vars

(* "GetInt returns configuration value as int" (sysconfig.go:121): a whole *)
(* number that is set for an int key is what Config has.                   *)
IntsAreHonoured ==
  \A k \in Keys :
    /\ init = "done" /\ watcher = "select"
    /\ KeyType[k] = "int" /\ data[k] # Absent /\ data[k].kind = "int"
    => config[k] = data[k].val
=============================================================================
