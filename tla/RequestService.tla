--------------------------- MODULE RequestService ---------------------------
(***************************************************************************)
(* What the request queue promises its callers, without channels, workers  *)
(* or counters: a call is refused, or it is accepted and then ends exactly *)
(* once; the handler runs at most once for a call, never for a refused     *)
(* one; and a call that ends with an answer ends with the answer its own   *)
(* run of the handler gave.  A handler may still run for a call that has   *)
(* already given up.                                                       *)
(***************************************************************************)
CONSTANT Requests

VARIABLES phase,    \* where each call is
          work      \* the handler's run for each call

svars == <<phase, work>>

Answers  == {"data", "error"}
Refusals == {"dropped", "panic"}
GivenUp  == {"timeout", "shutdown"}

Init == /\ phase = [r \in Requests |-> "new"]
        /\ work = [r \in Requests |-> "none"]

Accept(r) == /\ phase[r] = "new"
             /\ phase' = [phase EXCEPT ![r] = "open"]
             /\ UNCHANGED work

Refuse(r) == /\ phase[r] = "new"
             /\ \E why \in Refusals : phase' = [phase EXCEPT ![r] = why]
             /\ UNCHANGED work

Begin(r) == /\ phase[r] \notin {"new"} \cup Refusals
            /\ work[r] = "none"
            /\ work' = [work EXCEPT ![r] = "running"]
            /\ UNCHANGED phase

Finish(r) == /\ work[r] = "running"
             /\ \E a \in Answers : work' = [work EXCEPT ![r] = a]
             /\ UNCHANGED phase

Return(r) == /\ phase[r] = "open"
             /\ work[r] \in Answers
             /\ phase' = [phase EXCEPT ![r] = work[r]]
             /\ UNCHANGED work

GiveUp(r) == /\ phase[r] = "open"
             /\ \E why \in GivenUp : phase' = [phase EXCEPT ![r] = why]
             /\ UNCHANGED work

Next == \E r \in Requests : \/ Accept(r) \/ Refuse(r)
                            \/ Begin(r)  \/ Finish(r)
                            \/ Return(r) \/ GiveUp(r)

Spec == Init /\ [][Next]_svars
=============================================================================
