---------------------------- MODULE DurableSink ----------------------------
(***************************************************************************)
(* What the hybrid store promises about the database, without queue,       *)
(* workers, retries or shutdown: a batch is refused at once or becomes     *)
(* pending; sets of pending batches become durable or are lost, each batch *)
(* once; nothing durable is lost, and nothing refused or lost comes back.  *)
(***************************************************************************)
CONSTANT Batches

VARIABLE status

Init == status = [b \in Batches |-> "new"]

(* Every batch of S leaves the state "from" for the state "to".            *)
Move(S, from, to) ==
  /\ \A b \in S : status[b] = from
  /\ status' = [b \in Batches |-> IF b \in S THEN to ELSE status[b]]

Offer(b)   == Move({b}, "new", "pending")
Refuse(b)  == Move({b}, "new", "refused")
Persist(S) == Move(S, "pending", "durable")
Lose(S)    == Move(S, "pending", "lost")

Next == \/ \E b \in Batches : Offer(b) \/ Refuse(b)
        \/ \E S \in SUBSET Batches : Persist(S) \/ Lose(S)

Spec == Init /\ [][Next]_status
=============================================================================
