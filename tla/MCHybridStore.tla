---------------------------- MODULE MCHybridStore ----------------------------
(* HybridStore on small instances. *)
EXTENDS HybridStore, TLC, FiniteSetsExt

(* A bulk batch has two records, a queued one has one.                     *)
Size(b) == IF b \in BulkBatches THEN 2 ELSE 1

MCItems == [S \in SUBSET Batches |-> MapThenSumSet(Size, S)]

(* Queued batches are interchangeable; used by the safety runs only.       *)
Symmetry == Permutations(QueueBatches)
=============================================================================
