-------------------------- MODULE MCEmailFeedback ---------------------------
(* A small instance of EmailFeedback for TLC. *)
EXTENDS EmailFeedback, TLC
=============================================================================
