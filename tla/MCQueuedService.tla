-------------------------- MODULE MCQueuedService --------------------------
(* QueuedService on a small instance. *)
EXTENDS QueuedService
=============================================================================
