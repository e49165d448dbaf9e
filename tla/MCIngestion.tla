---------------------------- MODULE MCIngestion ----------------------------
(* Ingestion on small instances. *)
EXTENDS Ingestion

MCGenerations == 1..MaxGenerations
=============================================================================
