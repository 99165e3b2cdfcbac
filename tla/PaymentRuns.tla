----------------------------- MODULE PaymentRuns -----------------------------
(***************************************************************************)
(* Payment runs: reviewed staff payments that wait for their approval,     *)
(* reserve what is owed, and are carried out at Wise by the passes of      *)
(* processDue (packages/db/src/payment-runs.ts) over the tables and        *)
(* triggers of migration 0093.                                             *)
(*                                                                         *)
(* Abstractions:                                                           *)
(*  - every write of an item but retry's and the triggers' moves its       *)
(*    version on, so lease_token and version together are "own": whose     *)
(*    claim was the last such write;                                       *)
(*  - when an item is due again, and when a lease of 120 seconds is over,  *)
(*    is left open (what lengthens or shortens it, webhooks among them, is *)
(*    left out with it); so is the age of a review and of a paid transfer; *)
(*  - whether a destination, a quote and its cost are what was approved is *)
(*    one choice;                                                          *)
(*  - failure texts, audit rows, advances and the currency are left out:   *)
(*    an item in attention always has a failure;                           *)
(*  - what a person has been paid for a month is derived: what is entered  *)
(*    by hand and the amounts of the items in state paid, which is what    *)
(*    the triggers on that state add to the register and void again.       *)
(***************************************************************************)
EXTENDS Integers, FiniteSets, FiniteSetsExt

CONSTANTS
  Run,          \* payment_runs
  Item,         \* payment_run_items
  RunOf,        \* [Item -> Run]
  Account,      \* what is owed: a person and a month
  AccountOf,    \* [Item -> Account]
  Amount,       \* [Item -> amount_cents]
  Owed,         \* [Account -> what is owed at first]
  Revised,      \* bound: the amounts an account may be changed to
  MaxManual,    \* bound: what is paid by hand, by account
  Worker,       \* concurrent passes of processDue
  MaxAttempts,  \* creations are repeated below this many attempts: 8
  MaxFaults,    \* bound: calls that fail, passes that stop or are too slow
  None

ASSUME PaymentRunsAssumption ==
  /\ IsFiniteSet(Item)
  /\ RunOf \in [Item -> Run] /\ AccountOf \in [Item -> Account]
  /\ \A i, j \in Item : i # j /\ RunOf[i] = RunOf[j] => AccountOf[i] # AccountOf[j]
  /\ Amount \in [Item -> Nat \ {0}] /\ Owed \in [Account -> Nat]
  /\ Revised \subseteq Nat /\ MaxManual \in Nat
  /\ MaxAttempts \in Nat \ {0} /\ MaxFaults \in Nat
  /\ None \notin Worker /\ None \notin Item

State == {"draft", "queued", "creating", "funding", "processing", "paid",
          "failed", "attention", "cancelled"}
Holding == {"queued", "creating", "funding", "processing", "attention"}
Row == [state : State, quoted : BOOLEAN, known : BOOLEAN,
        attempts : 0..MaxAttempts, own : Worker \cup {None}, leased : BOOLEAN]

\* A transfer at Wise: incoming_payment_waiting, any status on the way,
\* outgoing_payment_sent, bounced_back or charged_back, funds_refunded, cancelled.
Transfer == {"none", "waiting", "moving", "sent", "returned", "refunded", "cancelled"}
Answer == {"accepted", "rejected", "refused"}

VARIABLES
  run,         \* payment_runs.state
  cancelling,  \* runs whose cancel is between its two statements
  item,        \* payment_run_items: quoted and known are its execution quote
               \* and transfer id
  stale,       \* drafts whose account has had an entry since their review
  owed, manual,
  wise,        \* the transfer with the item's id
  asked,       \* requests to fund it that Wise has not turned down
  pc,          \* where each pass is
  hold,        \* the item in its hands
  seen,        \* the row it was given with its claim
  reply,       \* what Wise told it
  faults

runs == <<run, cancelling, stale>>
register == <<owed, manual>>
bank == <<wise, asked>>
pass == <<pc, hold, seen, reply>>
vars == <<runs, item, register, bank, pass, faults>>

NewRow == [state |-> "draft", quoted |-> FALSE, known |-> FALSE,
           attempts |-> 0, own |-> None, leased |-> FALSE]

Init ==
  /\ run = [r \in Run |-> "none"] /\ cancelling = {} /\ stale = {}
  /\ item = [i \in Item |-> NewRow]
  /\ owed = Owed /\ manual = [a \in Account |-> 0]
  /\ wise = [i \in Item |-> "none"] /\ asked = [i \in Item |-> 0]
  /\ pc = [w \in Worker |-> "idle"] /\ hold = [w \in Worker |-> None]
  /\ seen = [w \in Worker |-> NewRow] /\ reply = [w \in Worker |-> None]
  /\ faults = 0

ItemsOf(r) == {i \in Item : RunOf[i] = r}
Total(S) == MapThenSumSet(LAMBDA i : Amount[i], S)
InState(a, states) == {i \in Item : AccountOf[i] = a /\ item[i].state \in states}

Reserved(a) == Total(InState(a, Holding))
Paid(a) == manual[a] + Total(InState(a, {"paid"}))
Goto(w, place) == pc' = [pc EXCEPT ![w] = place]

----------------------------------------------------------------------------
(* Reviews, approval and cancellation *)

Preview(r) ==
  /\ run[r] = "none" /\ ItemsOf(r) # {}
  /\ run' = [run EXCEPT ![r] = "draft"]
  /\ stale' = stale \ ItemsOf(r)
  /\ UNCHANGED <<cancelling, item, register, bank, pass, faults>>

\* payment_item_reserve, which only looks at an item that leaves the draft.
Reservable(i) ==
  item[i].state = "draft" =>
    /\ i \notin stale
    /\ LET a == AccountOf[i] IN owed[a] - Paid(a) - Reserved(a) >= Amount[i]

\* payment_run_approve: every item of the run is queued, or none is.
Approve(r) ==
  /\ run[r] = "draft"
  /\ \A i \in ItemsOf(r) : Reservable(i)
  /\ run' = [run EXCEPT ![r] = "approved"] /\ stale' = stale \ ItemsOf(r)
  /\ item' = [i \in Item |-> IF i \in ItemsOf(r)
                             THEN [item[i] EXCEPT !.state = "queued", !.own = None]
                             ELSE item[i]]
  /\ UNCHANGED <<cancelling, register, bank, pass, faults>>

\* Mutant of Cancellable: a payment in attention counts as unsent.
CancellableInAttention(i) == item[i].state \in {"draft", "queued", "attention"}

Cancellable(i) ==
  \/ item[i].state \in {"draft", "queued"}
  \/ item[i].state = "attention" /\ ~item[i].quoted /\ ~item[i].known

\* The first statement of cancel.
Cancel(r) ==
  /\ run[r] # "none" /\ r \notin cancelling
  /\ \E i \in ItemsOf(r) : Cancellable(i)
  /\ cancelling' = cancelling \cup {r}
  /\ item' = [i \in Item |->
       IF i \in ItemsOf(r) /\ Cancellable(i)
       THEN [item[i] EXCEPT !.state = "cancelled", !.own = None, !.leased = FALSE]
       ELSE item[i]]
  /\ UNCHANGED <<run, stale, register, bank, pass, faults>>

\* The second one, which may never come.
CancelRun(r) ==
  /\ r \in cancelling
  /\ cancelling' = cancelling \ {r}
  /\ run' = IF \A i \in ItemsOf(r) : item[i].state \in {"cancelled", "failed"}
            THEN [run EXCEPT ![r] = "cancelled"] ELSE run
  /\ UNCHANGED <<stale, item, register, bank, pass, faults>>

\* retry: an operator asks for the status; a creation that stopped goes on.
Retry(i) ==
  /\ item[i].state = "attention" /\ item[i].quoted /\ ~item[i].known
  /\ item' = [item EXCEPT ![i].state = "creating"]
  /\ UNCHANGED <<runs, register, bank, pass, faults>>

----------------------------------------------------------------------------
(* The register of an account *)

Entered(a) == stale' = stale \cup InState(a, {"draft"})

\* staff_payment_reservation_guard on a payment of n.
Payable(a, n) == n + Reserved(a) <= owed[a] - Paid(a)

PayByHand(a) ==
  /\ manual[a] < MaxManual /\ Payable(a, 1)
  /\ manual' = [manual EXCEPT ![a] = @ + 1]
  /\ Entered(a)
  /\ UNCHANGED <<run, cancelling, item, owed, bank, pass, faults>>

\* The same on a new amount: it may fall below what is paid, but not below
\* what is reserved on top of that.
Revise(a) ==
  /\ \E n \in Revised \ {owed[a]} :
       /\ Reserved(a) > 0 => n >= Paid(a) + Reserved(a)
       /\ owed' = [owed EXCEPT ![a] = n]
  /\ Entered(a)
  /\ UNCHANGED <<run, cancelling, item, manual, bank, pass, faults>>

----------------------------------------------------------------------------
(* Wise *)

\* A request for a transfer with an id that is there already changes nothing.
Created(i) == IF wise[i] = "none" THEN [wise EXCEPT ![i] = "waiting"] ELSE wise

\* What may become of a transfer.  It is funded by a request or by hand,
\* and may be returned and delivered again.
After(status) ==
  CASE status = "waiting"  -> {"moving", "cancelled"}
    [] status = "moving"   -> {"sent", "refunded", "cancelled"}
    [] status = "sent"     -> {"returned", "refunded", "cancelled"}
    [] status = "returned" -> {"moving", "refunded"}
    [] OTHER -> {}

Proceed(i) ==
  /\ \E status \in After(wise[i]) : wise' = [wise EXCEPT ![i] = status]
  /\ UNCHANGED <<runs, item, register, asked, pass, faults>>

----------------------------------------------------------------------------
(* A pass of processDue *)

\* Mutant of Due: what is left to the operator is not looked at any more.
DueUnattended(i) ==
  /\ run[RunOf[i]] = "approved" /\ ~item[i].leased
  /\ item[i].state \in {"queued", "creating", "funding", "processing", "paid"}

\* The selection.
Due(i) ==
  /\ run[RunOf[i]] = "approved" /\ ~item[i].leased
  /\ \/ item[i].state \in {"queued", "creating", "funding", "processing", "paid"}
     \/ item[i].state = "attention" /\ item[i].known

Select(w, i) ==
  /\ pc[w] = "idle" /\ Due(i)
  /\ hold' = [hold EXCEPT ![w] = i]
  /\ Goto(w, "claim")
  /\ UNCHANGED <<runs, item, register, bank, seen, reply, faults>>

\* process is over with an item that is due at once, or with a later one.
Forget(w, place) ==
  /\ Goto(w, place)
  /\ seen' = [seen EXCEPT ![w] = NewRow] /\ reply' = [reply EXCEPT ![w] = None]
Again(w) == Forget(w, "claim") /\ UNCHANGED hold
Release(w) == Forget(w, "idle") /\ hold' = [hold EXCEPT ![w] = None]

Claimed(row, w) ==
  [row EXCEPT !.own = w, !.leased = TRUE,
              !.attempts = IF @ = MaxAttempts THEN @ ELSE @ + 1]

\* Where process goes with a row; with any other it has nothing to do.
Work(row) ==
  CASE row.known -> "read"
    [] ~row.known /\ row.state = "queued" -> "quote"
    [] ~row.known /\ row.state = "creating" /\ row.quoted -> "create"
    [] OTHER -> "idle"

\* The claim, which asks for less than the selection did.
Claim(w) ==
  /\ pc[w] = "claim"
  /\ LET i == hold[w] IN
     IF ~item[i].leased /\ item[i].state \notin {"cancelled", "failed"}
     THEN /\ item' = [item EXCEPT ![i] = Claimed(@, w)]
          /\ IF Work(item'[i]) = "idle" THEN Release(w)
             ELSE /\ seen' = [seen EXCEPT ![w] = item'[i]]
                  /\ Goto(w, Work(item'[i]))
                  /\ UNCHANGED <<hold, reply>>
     ELSE Release(w) /\ UNCHANGED item
  /\ UNCHANGED <<runs, register, bank, faults>>

\* Mutant of Owns: the version is not compared.
OwnsAny(w) == item[hold[w]].state \notin {"cancelled", "failed"}

\* WHERE id = ? AND version = ? AND lease_token = ?
Owns(w) == item[hold[w]].own = w

\* update, with the columns the row was given back as they were.
Update(w, row) ==
  item' = IF Owns(w)
          THEN [item EXCEPT ![hold[w]] = [row EXCEPT !.own = None, !.leased = FALSE]]
          ELSE item
Becomes(w, state) == Update(w, [seen[w] EXCEPT !.state = state])

\* The quote is taken and its cost compared; the exact quote is kept before
\* anything is created under it.
Quote(w) ==
  /\ pc[w] = "quote"
  /\ \/ Update(w, [seen[w] EXCEPT !.state = "creating", !.quoted = TRUE])
        /\ Again(w)
     \/ Becomes(w, "attention") /\ Release(w)
  /\ UNCHANGED <<runs, register, bank, faults>>

Create(w) ==
  /\ pc[w] = "create"
  /\ wise' = Created(hold[w])
  /\ Goto(w, "store")
  /\ UNCHANGED <<runs, item, register, asked, hold, seen, reply, faults>>

Store(w) ==
  /\ pc[w] = "store"
  /\ Update(w, [seen[w] EXCEPT !.known = TRUE])
  /\ Again(w)
  /\ UNCHANGED <<runs, register, bank, faults>>

Read(w) ==
  /\ pc[w] = "read"
  /\ reply' = [reply EXCEPT ![w] = wise[hold[w]]]
  /\ Goto(w, "settle")
  /\ UNCHANGED <<runs, item, register, bank, hold, seen, faults>>

\* A payment that was recorded stays so, any other is left to the operator.
Kept(state) == IF state = "paid" THEN "paid" ELSE "attention"

\* Mutant of Fundable: a transfer that still waits is funded.
FundableWhileWaiting(w) == reply[w] = "waiting" /\ seen[w].state # "paid"

\* Only an item that was never marked as funding may be funded.
Fundable(w) == reply[w] = "waiting" /\ seen[w].state = "creating"

\* The payment of payment_item_settle meets the guard above, its own amount
\* being among the reserved ones until then; if it fails, so does the update.
Recordable(w) ==
  seen[w].state = "paid" \/ ~Owns(w) \/ Payable(AccountOf[hold[w]], 0)

\* The state an item is given for the status that was read.
Verdict(w) ==
  LET state == seen[w].state IN
  CASE reply[w] = "sent"      -> IF Recordable(w) THEN "paid" ELSE "attention"
    [] reply[w] = "refunded"  -> "failed"
    [] reply[w] = "cancelled" -> IF state = "paid" THEN "paid" ELSE "failed"
    [] reply[w] = "returned"  -> Kept(state)
    [] reply[w] = "moving"    -> IF state \in {"paid", "attention"} THEN state
                                 ELSE "processing"
    [] OTHER                  -> Kept(state)

Settle(w) ==
  /\ pc[w] = "settle" /\ ~Fundable(w)
  /\ Becomes(w, Verdict(w))
  /\ IF (item[hold[w]].state = "paid") # (item'[hold[w]].state = "paid")
     THEN Entered(AccountOf[hold[w]]) ELSE UNCHANGED stale
  /\ Release(w)
  /\ UNCHANGED <<run, cancelling, register, bank, faults>>

\* Funding is marked before the request, and only by the owner.
Mark(w) ==
  /\ pc[w] = "settle" /\ Fundable(w)
  /\ Becomes(w, "funding")
  /\ IF Owns(w) THEN Goto(w, "fund") /\ UNCHANGED <<hold, seen, reply>> ELSE Release(w)
  /\ UNCHANGED <<runs, register, bank, faults>>

Ask(i) == asked' = [asked EXCEPT ![i] = @ + 1]

\* The request: accepted, rejected for good, or refused with a 429.
Fund(w) ==
  /\ pc[w] = "fund"
  /\ \/ Ask(hold[w]) /\ reply' = [reply EXCEPT ![w] = "accepted"] /\ UNCHANGED faults
     \/ /\ reply' = [reply EXCEPT ![w] = "rejected"]
        /\ UNCHANGED <<asked, faults>>
     \/ /\ faults < MaxFaults /\ faults' = faults + 1
        /\ reply' = [reply EXCEPT ![w] = "refused"]
        /\ UNCHANGED asked
  /\ Goto(w, "record")
  /\ UNCHANGED <<runs, item, register, wise, hold, seen>>

\* Its reply is lost or makes no sense: the marker stays.
FundLost(w) ==
  /\ pc[w] = "fund" /\ faults < MaxFaults
  /\ faults' = faults + 1
  /\ Ask(hold[w]) \/ UNCHANGED asked
  /\ Release(w)
  /\ UNCHANGED <<runs, item, register, wise>>

Outcome(answer) ==
  CASE answer = "accepted" -> "processing"
    [] answer = "rejected" -> "attention"
    [] answer = "refused"  -> "creating"

\* The statements after the request ask for the marker, not for the version.
Record(w) ==
  /\ pc[w] = "record"
  /\ LET i == hold[w] IN
     item' = IF item[i].state = "funding"
             THEN [item EXCEPT ![i].state = Outcome(reply[w]), ![i].own = None]
             ELSE item
  /\ Release(w)
  /\ UNCHANGED <<runs, register, bank, faults>>

\* What the handler of an error other than a 429 makes of a row.
Interrupted(row) ==
  CASE row.state = "paid" -> "paid"
    [] row.state # "paid" /\ ~row.known /\ row.state = "creating"
       /\ row.attempts < MaxAttempts -> "creating"
    [] OTHER -> "attention"

\* A call of process fails, a creation perhaps after it was carried out.
Throw(w) ==
  /\ pc[w] \in {"read", "settle", "quote", "create", "store"} /\ faults < MaxFaults
  /\ faults' = faults + 1
  /\ wise' \in {wise, IF pc[w] = "create" THEN Created(hold[w]) ELSE wise}
  /\ \E state \in {seen[w].state, Interrupted(seen[w])} : Becomes(w, state)
  /\ Release(w)
  /\ UNCHANGED <<runs, register, asked>>

\* The pass is gone, with a request of its on the way.
Stop(w) ==
  /\ pc[w] # "idle" /\ faults < MaxFaults
  /\ faults' = faults + 1
  /\ wise' \in {wise, IF pc[w] = "create" THEN Created(hold[w]) ELSE wise}
  /\ \/ UNCHANGED asked
     \/ pc[w] = "fund" /\ Ask(hold[w])
  /\ Release(w)
  /\ UNCHANGED <<runs, item, register>>

\* lease_until is over.  A request gives up after 20 seconds, so it takes a
\* fault to come so far while the claim is worked on.
LeaseOver(i) ==
  /\ item[i].leased
  /\ IF \E w \in Worker : hold[w] = i /\ item[i].own = w
     THEN faults < MaxFaults /\ faults' = faults + 1
     ELSE UNCHANGED faults
  /\ item' = [item EXCEPT ![i].leased = FALSE]
  /\ UNCHANGED <<runs, register, bank, pass>>

----------------------------------------------------------------------------
Administrator(r) == Preview(r) \/ Approve(r) \/ Cancel(r) \/ CancelRun(r)
Step(w) ==
  \/ Claim(w) \/ Quote(w) \/ Create(w) \/ Store(w) \/ Read(w)
  \/ Settle(w) \/ Mark(w) \/ Fund(w) \/ Record(w)

Next ==
  \/ \E r \in Run : Administrator(r)
  \/ \E a \in Account : PayByHand(a) \/ Revise(a)
  \/ \E i \in Item : Retry(i) \/ Proceed(i) \/ LeaseOver(i)
  \/ \E w \in Worker, i \in Item : Select(w, i)
  \/ \E w \in Worker : Step(w) \/ FundLost(w) \/ Throw(w) \/ Stop(w)

Spec == Init /\ [][Next]_vars

\* A pass starts every minute, goes on, and leases run out.  Nothing is
\* assumed of Wise or of an administrator.
Fairness ==
  /\ \A i \in Item : SF_vars(\E w \in Worker : Select(w, i)) /\ WF_vars(LeaseOver(i))
  /\ \A w \in Worker : WF_vars(Step(w))
FairSpec == Spec /\ Fairness

----------------------------------------------------------------------------
(* What must hold *)

TypeOK ==
  /\ run \in [Run -> {"none", "draft", "approved", "cancelled"}]
  /\ cancelling \subseteq Run /\ stale \subseteq Item
  /\ item \in [Item -> Row]
  /\ owed \in [Account -> Nat] /\ manual \in [Account -> Nat]
  /\ wise \in [Item -> Transfer] /\ asked \in [Item -> Nat] /\ faults \in Nat
  /\ pc \in [Worker -> {"idle", "claim", "quote", "create", "store",
                        "read", "settle", "fund", "record"}]
  /\ hold \in [Worker -> Item \cup {None}]
  /\ seen \in [Worker -> Row]
  /\ reply \in [Worker -> Transfer \cup Answer \cup {None}]

\* An item is debited at most once: after a request to fund it that Wise may
\* have taken there is never another one, whatever was lost, whoever took the
\* item over, and whatever an operator asked for (docs/staff-payments.md: a
\* lost response causes status reconciliation, never an automatic second
\* funding attempt).
FundedOnce == \A i \in Item : asked[i] <= 1

\* What a payment has reserved is released only when no money can leave for
\* it any more: it was never sent to Wise, or Wise has closed its transfer
\* (docs/staff-payments.md: cancelling releases only items that have never
\* entered transfer creation).
ReleasedIsOver == \A i \in Item :
  /\ item[i].state = "cancelled" => wise[i] = "none" /\ asked[i] = 0
  /\ item[i].state = "failed" => wise[i] \in {"refunded", "cancelled"}

\* A payment that was recorded stays so until Wise has confirmed the refund,
\* and is never recorded again (docs/staff-payments.md: records a payment in
\* the immutable register exactly once).
RecordedStands ==
  [][\A i \in Item :
       /\ item[i].state = "paid" /\ item'[i].state # "paid" =>
            item'[i].state = "failed" /\ wise[i] = "refunded"
       /\ item[i].state = "failed" => item'[i].state = "failed"]_vars

\* Whatever was lost or interrupted, what Wise did in the end is what the
\* register says: a transfer that stays sent is recorded, one that stays
\* refunded is not.
EventuallyReconciled == \A i \in Item :
  /\ <>[](item[i].known /\ wise[i] = "sent") => <>[](item[i].state = "paid")
  /\ <>[](item[i].known /\ wise[i] = "refunded") => <>[](item[i].state = "failed")

\* What is reserved is there: a competing run, a payment by hand or a lower
\* amount cannot consume it (docs/staff-payments.md: approval atomically
\* reserves each recipient amount against its obligation).
ReservationsCovered == \A a \in Account :
  Reserved(a) > 0 => Paid(a) + Reserved(a) <= owed[a]
=============================================================================
