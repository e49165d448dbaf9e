-------------------------- MODULE MCTelemetryRows --------------------------
(* TelemetryRows on a small instance. *)
EXTENDS TelemetryRows, TLC

CONSTANTS s1, s2

Good(s)      == [switch |-> s, fields |-> "good"]
OutOfRange   == [switch |-> s1, fields |-> "outOfRange"]
Garbled      == [switch |-> s1, fields |-> "garbled"]

(* Two rows of one switch, one bad row of each kind beside a good one, and *)
(* rows that cannot be read at all.                                        *)
SmallContents ==
  {<<Good(s1), Good(s1)>>, <<OutOfRange, Good(s2)>>, <<Garbled, Good(s1)>>,
   <<Good(NoSwitch), Good(s2)>>, <<Garbled>>}
=============================================================================
