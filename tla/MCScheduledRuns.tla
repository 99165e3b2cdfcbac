-------------------------- MODULE MCScheduledRuns ---------------------------
(* Small instances of ScheduledRuns for TLC. *)
EXTENDS ScheduledRuns, TLC

CONSTANT r

\* All items belong to one run.
OneRun == [i \in Item |-> r]
=============================================================================
