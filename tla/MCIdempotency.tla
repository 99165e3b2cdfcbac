---------------------------- MODULE MCIdempotency ----------------------------
(* A small instance of Idempotency for TLC. *)
EXTENDS Idempotency, TLC

CONSTANTS a1, a2, same

\* A request and its retry by one client.
AllSame == [a \in Attempt |-> same]
=============================================================================
