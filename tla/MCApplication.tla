--------------------------- MODULE MCApplication ---------------------------
(* Application on small instances. *)
EXTENDS Application

(* The second generation has no row that can be read. *)
MCGenerations == 1..3
MCBlank       == {2}
=============================================================================
