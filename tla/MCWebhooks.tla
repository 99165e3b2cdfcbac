----------------------------- MODULE MCWebhooks -----------------------------
(* A small instance of Webhooks for TLC. *)
EXTENDS Webhooks, TLC

CONSTANTS h1, h2, w1, w2

\* The sweeps of two minutes that overlap, a handler each.
Overlapping == (h1 :> w1) @@ (h2 :> w2)
DelayOne == <<1>>
=============================================================================
