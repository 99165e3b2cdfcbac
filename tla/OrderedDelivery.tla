--------------------------- MODULE OrderedDelivery ---------------------------
(***************************************************************************)
(* What the event outbox promises, without drains, claims, leases or       *)
(* budgets.  A producer appends events; an event is applied for a          *)
(* subscriber any number of times (here: its effect is in a set), is       *)
(* acknowledged for that subscriber only after it was applied, and only    *)
(* after every earlier event of its aggregate was acknowledged for the     *)
(* subscriber or retired altogether; and it is retired (published) only    *)
(* when one whole registry of subscribers has acknowledged it.             *)
(***************************************************************************)
CONSTANTS Subscriber,   \* subscriber ids
          Event,        \* event ids
          Prior,        \* Prior[e]: the earlier events of e's aggregate
          Registry      \* the sets of subscribers a service may run with

VARIABLES appended, applied, acknowledged, retired

vars == <<appended, applied, acknowledged, retired>>

Init ==
  /\ appended = {}
  /\ applied = {}
  /\ acknowledged = {}
  /\ retired = {}

\* The order of the aggregate lets s see e: nothing earlier is outstanding.
Clear(s, e) == \A p \in Prior[e] : p \in retired \/ <<s, p>> \in acknowledged

Append(e) ==
  /\ Prior[e] \subseteq appended
  /\ appended' = appended \cup {e}
  /\ UNCHANGED <<applied, acknowledged, retired>>

Apply(s, e) ==
  /\ e \in appended
  /\ Clear(s, e)
  /\ applied' = applied \cup {<<s, e>>}
  /\ UNCHANGED <<appended, acknowledged, retired>>

\* A stale acknowledgement adds nothing but may still retire the event.
Acknowledge(s, e) ==
  /\ <<s, e>> \in applied
  /\ acknowledged' \in {acknowledged, acknowledged \cup {<<s, e>>}}
  /\ retired' = retired \/
       /\ retired' = retired \cup {e}
       /\ \E R \in Registry : \A r \in R : <<r, e>> \in acknowledged'
  /\ UNCHANGED <<appended, applied>>

Next ==
  \/ \E e \in Event : Append(e)
  \/ \E s \in Subscriber, e \in Event : Apply(s, e) \/ Acknowledge(s, e)

Spec == Init /\ [][Next]_vars
=============================================================================
