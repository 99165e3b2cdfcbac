------------------------------ MODULE MCOutbox ------------------------------
(* A small instance of Outbox for TLC. *)
EXTENDS Outbox, TLC

CONSTANTS s1, e1, e2, d1, d2

\* e1 and e2 are the first two events of one aggregate.
OneAggregate == (e1 :> {}) @@ (e2 :> {e1})

\* The worker and the container are two deployments; a release may lower the
\* budget of one before the other's.
TwoBudgets == {[subscribers |-> <<s1>>, maxAttempts |-> n] : n \in 1..2}

DelayOne == <<1>>
=============================================================================
