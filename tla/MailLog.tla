------------------------------ MODULE MailLog -------------------------------
(***************************************************************************)
(* What the delivery log email_log promises about outgoing mail, whatever  *)
(* queue, consumers and clocks stand behind it: the provider is called for *)
(* a message only under a lease, one call at a time, each with a number of *)
(* its own and MaxAttempts at most; no lease runs out, and nothing is      *)
(* settled, while such a call is waited for; a message is called sent only *)
(* under the number of its last call, when that was answered by an         *)
(* acceptance; and no sender touches it once it is settled.  A call that   *)
(* is no longer waited for may still be accepted, whatever the log shows.  *)
(* EmailQueue implements this; EmailFeedback relies on it.                 *)
(***************************************************************************)
EXTENDS Integers

CONSTANTS
  Delivery,    \* ids of email_log
  MaxAttempts  \* EMAIL_RETRY_POLICY.maxAttempts

VARIABLES
  entry,     \* of each message: its status, is it held, calls made, the id it was sent as
  open,      \* calls that are waited for
  abandoned, \* calls that are not, and were not answered
  accepted   \* calls the provider has accepted

calls == <<open, abandoned, accepted>>
mailVars == <<entry, calls>>

Accepted == Delivery \X (1..MaxAttempts)
SendStatus == {"none", "queued", "sent", "failed"}

MailInit ==
  /\ entry = [d \in Delivery |->
                [status |-> "none", held |-> FALSE, tries |-> 0, id |-> 0]]
  /\ open = {} /\ abandoned = {} /\ accepted = {}

Queued(d) == entry[d].status = "queued"
Quiet(d) == \A n \in 1..MaxAttempts : <<d, n>> \notin open
Becomes(d, status, held, tries, id) ==
  entry' = [entry EXCEPT ![d] =
              [status |-> status, held |-> held, tries |-> tries, id |-> id]]

Open(d) ==
  /\ entry[d].status = "none"
  /\ Becomes(d, "queued", FALSE, 0, 0)
  /\ UNCHANGED calls

\* The provider is called as long as the budget lasts.
Hold(d) ==
  /\ Queued(d) /\ ~entry[d].held
  /\ LET tries == entry[d].tries + 1 IN
     \/ /\ tries <= MaxAttempts
        /\ Becomes(d, "queued", TRUE, tries, 0)
        /\ open' = open \cup {<<d, tries>>}
     \/ /\ tries > MaxAttempts
        /\ Becomes(d, "queued", TRUE, entry[d].tries, 0)
        /\ UNCHANGED open
  /\ UNCHANGED <<abandoned, accepted>>

\* The answer to a call: accepted, refused, or none that could be waited for.
Accept(a) ==
  /\ a \in open
  /\ open' = open \ {a}
  /\ accepted' = accepted \cup {a}
  /\ UNCHANGED <<entry, abandoned>>

HangUp(a) ==
  /\ a \in open
  /\ open' = open \ {a}
  /\ abandoned' \in {abandoned, abandoned \cup {a}}
  /\ UNCHANGED <<entry, accepted>>

AcceptLate(a) ==
  /\ a \in abandoned
  /\ accepted' = accepted \cup {a}
  /\ UNCHANGED <<entry, open, abandoned>>

\* Attempts are let go, or their leases run out.
Drop(D) ==
  /\ \A d \in D : Queued(d) /\ entry[d].held /\ Quiet(d)
  /\ entry' = [d \in Delivery |->
                 IF d \in D THEN [entry[d] EXCEPT !.held = FALSE] ELSE entry[d]]
  /\ UNCHANGED calls

\* Under the lease or, late, after it.
Sent(d) ==
  LET n == entry[d].tries IN
  /\ Queued(d) /\ Quiet(d)
  /\ <<d, n>> \in accepted \ abandoned
  /\ Becomes(d, "sent", FALSE, n, n)
  /\ UNCHANGED calls

Fail(d) ==
  /\ Queued(d) /\ Quiet(d)
  /\ Becomes(d, "failed", FALSE, entry[d].tries, 0)
  /\ UNCHANGED calls

MailNext ==
  \/ \E d \in Delivery : Open(d) \/ Hold(d) \/ Sent(d) \/ Fail(d)
  \/ \E a \in Accepted : Accept(a) \/ HangUp(a) \/ AcceptLate(a)
  \/ \E D \in SUBSET Delivery : Drop(D)
MailSpec == MailInit /\ [][MailNext]_mailVars
=============================================================================
