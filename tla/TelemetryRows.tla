--------------------------- MODULE TelemetryRows ---------------------------
(***************************************************************************)
(* The rows of a generation on their way from the generator's answer to    *)
(* the cache and the database: parsing, registration of switches,          *)
(* IngestBatch, StoreMetricsBulk and the constraints of the schema.        *)
(*                                                                         *)
(* Ingestion follows whole generations and what the client counts,         *)
(* HybridStore the attempts of a write.  Here a generation is its rows,    *)
(* a write is what its last attempt came to, and the cache is the one of   *)
(* InMemoryCache with its queries and its clean-ups.                       *)
(*                                                                         *)
(* The generator of this repository only makes good rows; the client       *)
(* expects others, and the schema refuses some of those that it parses.    *)
(***************************************************************************)
EXTENDS InMemoryCache, Sequences

CONSTANTS NoSwitch,         \* the empty switch_id
          Contents,         \* what the rows of a generation may be
          MaxGenerations    \* bound on the generations

(* A row whose fields do not parse is garbled; one out of range parses but *)
(* violates a CHECK of the table.                                          *)
Row == [switch : Switches \cup {NoSwitch}, fields : {"good", "outOfRange", "garbled"}]

ASSUME NoSwitchAssumption == NoSwitch \notin Switches
ASSUME ContentsAssumption == Contents \subseteq Seq(Row)

VARIABLES content,      \* the rows of each generation so far, by number
          poll,         \* where the client's worker is
          fetched,      \* the generation it has in hand
          tracked,      \* the generation it ingested last
          record,       \* the row that data holds of each switch
          switchTable,  \* the table switches
          metricsTable  \* the table telemetry_metrics

tables  == <<switchTable, metricsTable>>
rowVars == <<content, poll, fetched, tracked, record, tables>>

None == <<0, 0>>

RowsInit == /\ Init
            /\ content = <<>>
            /\ poll = "idle"
            /\ fetched = 0
            /\ tracked = 0
            /\ record = [s \in Switches |-> None]
            /\ switchTable = {}
            /\ metricsTable = {}

Publish == /\ Len(content) < MaxGenerations
           /\ \E c \in Contents : content' = Append(content, c)
           /\ UNCHANGED <<poll, fetched, tracked, record, tables, vars>>

(***************************************************************************)
(* A poll.  One that fails, finds the generation it has ingested last, or  *)
(* gets no data rows, changes nothing here.                                *)
(***************************************************************************)
Parsed(g) == {i \in DOMAIN content[g] : content[g][i].fields # "garbled"}
Valid(g)  == {i \in Parsed(g) : content[g][i].switch # NoSwitch}

SwitchOf(g, i) == content[g][i].switch
SwitchesIn(g)  == {SwitchOf(g, i) : i \in Valid(g)}
RowsIn(g)      == {<<g, i>> : i \in Valid(g)}

Fetch == /\ poll = "idle"
         /\ content # <<>>
         /\ Len(content) # tracked
         /\ DOMAIN content[Len(content)] # {}
         /\ fetched' = Len(content)
         /\ poll' = "parsed"
         /\ UNCHANGED <<content, tracked, record, tables, vars>>

(* A switch that cannot be registered is only warned about.                *)
registerSwitchesFromData ==
  /\ poll = "parsed"
  /\ \E R \in SUBSET SwitchesIn(fetched) : switchTable' = switchTable \cup R
  /\ poll' = "registered"
  /\ UNCHANGED <<content, fetched, tracked, record, metricsTable, vars>>

(* The last row of a switch in a batch is the one for the cache.           *)
LastOf_First(g, s) == CHOOSE i \in Valid(g) : \* a switch in the map is kept
  SwitchOf(g, i) = s /\ \A j \in Valid(g) : SwitchOf(g, j) = s => i <= j
LastOf(g, s) == CHOOSE i \in Valid(g) :
  SwitchOf(g, i) = s /\ \A j \in Valid(g) : SwitchOf(g, j) = s => j <= i

(* A batch of which no row has parsed is a success.                        *)
IngestNothing ==
  /\ poll = "registered"
  /\ Valid(fetched) = {}
  /\ tracked' = IF Parsed(fetched) = {} THEN fetched ELSE tracked
  /\ poll' = "idle"
  /\ UNCHANGED <<content, fetched, record, tables, vars>>

UpdateCache ==
  /\ poll = "registered"
  /\ Valid(fetched) # {}
  /\ Update(SwitchesIn(fetched))
  /\ record' = [s \in Switches |-> IF s \in SwitchesIn(fetched)
                                     THEN <<fetched, LastOf(fetched, s)>>
                                     ELSE record[s]]
  /\ poll' = "cached"
  /\ UNCHANGED <<content, fetched, tracked, tables>>

(* The foreign key and the CHECKs of the table: one row that they refuse   *)
(* fails the transaction.                                                  *)
Admitted(g) == \A i \in Valid(g) : /\ SwitchOf(g, i) \in switchTable
                                   /\ content[g][i].fields = "good"

Written_Latest(g) == {<<g, LastOf(g, s)>> : s \in SwitchesIn(g)} \* cacheData, not metrics
Written(g) == RowsIn(g)

(* The last attempt commits, commits and loses its answer, or fails.       *)
WriteToDatabase ==
  /\ poll = "cached"
  /\ \/ /\ Admitted(fetched)
        /\ metricsTable' = metricsTable \cup Written(fetched)
        /\ tracked' \in {fetched, tracked}
     \/ UNCHANGED <<metricsTable, tracked>>
  /\ poll' = "idle"
  /\ UNCHANGED <<content, fetched, record, switchTable, vars>>

Poll == Fetch \/ registerSwitchesFromData \/ IngestNothing \/ UpdateCache \/ WriteToDatabase

CacheNext == /\ Tick \/ CleanupStale \/ \E q \in Queries : QueryStep(q)
             /\ UNCHANGED rowVars

RowsNext == Publish \/ Poll \/ CacheNext

RowsSpec == RowsInit /\ [][RowsNext]_<<rowVars, vars>>

-----------------------------------------------------------------------------
(* A generation that the client will not ask for again is in the database  *)
(* with all its rows but those that cannot be read or name no switch: rows *)
(* refused by the schema, switches that were not registered and commits    *)
(* whose answer was lost all leave it to the next poll.                    *)
TrackedIsComplete == tracked # 0 => RowsIn(tracked) \subseteq metricsTable

(* The API is never behind the database: what the cache has, or had when   *)
(* it was cleaned up, of a switch is no older than any row stored of it,   *)
(* and is the last row of the generation ingested last.                    *)
Older(a, b) == a[1] < b[1] \/ (a[1] = b[1] /\ a[2] < b[2])

CacheNotBehind ==
  /\ \A r \in metricsTable : ~Older(record[SwitchOf(r[1], r[2])], r)
  /\ tracked # 0 /\ fetched = tracked =>
       \A s \in SwitchesIn(tracked) : \A i \in Valid(tracked) :
         SwitchOf(tracked, i) = s => ~Older(record[s], <<tracked, i>>)

(* The record of a switch never goes back: polls repeat a generation after *)
(* a failed write, and then put the same row in the cache again.           *)
RecordsMoveForward ==
  [][ \A s \in Switches :
        record'[s] # record[s] => Older(record[s], record'[s]) ]_<<rowVars, vars>>
=============================================================================
