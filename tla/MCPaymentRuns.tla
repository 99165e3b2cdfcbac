---------------------------- MODULE MCPaymentRuns ----------------------------
(* Small instances of PaymentRuns for TLC. *)
EXTENDS PaymentRuns, TLC

CONSTANTS r1, r2, i1, i2, person

\* Each run pays one item, all of them for the same person and month.
RunOfItem == [i \in Item |-> IF i = i1 THEN r1 ELSE r2]
OneAccount == [i \in Item |-> person]
Ones == [i \in Item |-> 1]
OneOwed == [x \in Account |-> 1]
TwoOwed == [x \in Account |-> 2]
=============================================================================
