---------------------------- MODULE MCActivityLog ----------------------------
(* A small instance of ActivityLog for TLC. *)
EXTENDS ActivityLog, TLC

CONSTANTS log_, e1, e2, roll1, d1, d2

\* e1 and e2 are the first two events of one aggregate.
OneAggregate == (e1 :> {}) @@ (e2 :> {e1}) @@ (roll1 :> {})

OneRegistry == {[subscribers |-> <<log_>>, maxAttempts |-> 2]}
DelayOne == <<1>>
\* The year turns after the first instant; year 0 can be rolled from then on.
NewYear == [i \in 0..MaxInstant |-> IF i = 0 THEN 0 ELSE 1]
RollOfYear == 0 :> roll1
Ranks == (e1 :> 1) @@ (e2 :> 2) @@ (roll1 :> 3)
=============================================================================
