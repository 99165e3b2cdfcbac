---------------------------- MODULE MCQueuedLoads ----------------------------
(* A small instance of QueuedLoads for TLC. *)
EXTENDS QueuedLoads, TLC
=============================================================================
