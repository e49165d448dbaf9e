----------------------------- MODULE MCSysConfig -----------------------------
(* SysConfig on small instances. *)
EXTENDS SysConfig

(* A key of each type. *)
MCKeys == {"telemetry.ingestion.timeout", "telemetry.ingestion.enabled",
           "telemetry.queue.workers"}

Setting(kind, val) == [kind |-> kind, val |-> val]
File(timeout, enabled, workers) ==
  [k \in MCKeys |-> CASE k = "telemetry.ingestion.timeout" -> timeout
                      [] k = "telemetry.ingestion.enabled" -> enabled
                      [] k = "telemetry.queue.workers" -> workers]

(* The map's default of the timeout (4 for 5 s) is not the fallback (1 for *)
(* 10 s), and it has none for the pool.                                    *)
MCKeyType  == File("string", "bool", "int")
MCFallback == File(1, 1, 1)
MCDefault  == File(Setting("string", 4), Setting("bool", 1), Absent)

(* The timeout is in every file, the switch in the second only (as FALSE), *)
(* the pool size as a whole number or as one with a point.                 *)

MCFiles == {File(Setting("string", 2), Absent, Setting("int", 2)),
            File(Setting("string", 3), Setting("bool", 0), Setting("float", 3))}

(* Halves: one ends before the size of the pool, one within the timeout.   *)
MCCuts == {File(Setting("string", 2), Absent, Setting("null", 0)),
           File(Setting("string", 5), Absent, Absent)}
=============================================================================
