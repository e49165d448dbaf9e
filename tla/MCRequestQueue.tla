--------------------------- MODULE MCRequestQueue ---------------------------
(* RequestQueue on small instances: calls and workers are model values.  No *)
(* symmetry, since the run checks a liveness property.                      *)
EXTENDS RequestQueue
=============================================================================
