---------------------------- MODULE EmailFeedback ----------------------------
(***************************************************************************)
(* Bounces and complaints: Mailgun's webhook deliveries                    *)
(* (packages/mailer/src/mailgun-feedback.ts), the ledger that lets each    *)
(* event count once (packages/db/src/email-feedback-events.ts) and the     *)
(* verdict written to email_log (processFeedbackEvent), beside the senders *)
(* of MailLog, which EmailQueue implements.                                *)
(*                                                                         *)
(* Abstractions:                                                           *)
(*  - an event is signed, fresh, wanted and addressed: the refusals that   *)
(*    come before any table is read are left out, and so are 'delivered'   *)
(*    events, which write the ledger only;                                 *)
(*  - an event's id, token and fields are its own, so that of the fields   *)
(*    claim compares only the delivery it was matched with can differ;     *)
(*  - Mailgun (external) posts an event about something it has accepted,   *)
(*    again and also beside itself, until it is answered 200.              *)
(***************************************************************************)
EXTENDS MailLog

CONSTANTS
  Bounces,   \* ids of Mailgun's permanent failures
  Complaints, \* and of its complaints
  Request,   \* concurrent requests to /webhooks/mailgun
  MaxStops,  \* bound: requests that stop, answers that Mailgun misses
  None       \* SQL NULL, and the absence of a row

Event == Bounces \cup Complaints
Verdict == {"bounced", "complained"}
Status == SendStatus \cup Verdict
Outcome == Verdict \cup {"ignored"}
\* The match and the outcome recorded for an event, None until it is finished.
Entry == [delivery : Delivery \cup {None}, outcome : Outcome \cup {None}]
Message == [delivery : Delivery, status : Status]

ASSUME EmailFeedbackAssumption ==
  /\ MaxAttempts \in Nat \ {0} /\ MaxStops \in Nat
  /\ Bounces \cap Complaints = {}
  /\ None \notin Delivery \cup Outcome \cup Accepted \cup Entry \cup Message

VARIABLES
  about,   \* the acceptance each of Mailgun's events is about
  posted,  \* events Mailgun still posts
  ledger,  \* email_feedback_events
  pc,      \* where each request is
  event,   \* the event it carries
  found,   \* the message its event was matched with, and the status it had
  stops,
  late,    \* history: acceptances not recorded under their lease
  prompt   \* history: events about a message recorded before they arose

requests == <<pc, event, found>>
mailgun == <<about, posted>>
history == <<late, prompt>>
vars == <<mailVars, mailgun, ledger, requests, stops, history>>

Init ==
  /\ MailInit
  /\ about = [e \in Event |-> None] /\ posted = {}
  /\ ledger = [e \in Event |-> None]
  /\ pc = [r \in Request |-> "idle"]
  /\ event = [r \in Request |-> None] /\ found = [r \in Request |-> None]
  /\ stops = 0
  /\ late = {} /\ prompt = {}

Goto(r, place) == pc' = [pc EXCEPT ![r] = place] /\ UNCHANGED <<event, found>>
Leave(r) ==
  /\ pc' = [pc EXCEPT ![r] = "idle"]
  /\ event' = [event EXCEPT ![r] = None] /\ found' = [found EXCEPT ![r] = None]

\* Mutant of Recorded: the message is found whichever attempt was recorded.
RecordedSomehow(receipt) == entry[receipt[1]].status \in {"sent"} \cup Verdict

\* The message that was sent under this receipt's id, as email_log shows it.
Recorded(receipt) ==
  /\ entry[receipt[1]].status \in {"sent"} \cup Verdict
  /\ entry[receipt[1]].id = receipt[2]
Wanted(r) == IF event[r] \in Bounces THEN "bounced" ELSE "complained"

----------------------------------------------------------------------------
(* Around the requests *)

\* The acceptance of the call that a message was held for last.
Newest(d) == <<d, entry[d].tries>>

\* A step of a sender, or of the provider.
Mail ==
  /\ MailNext
  /\ late' = late \cup {Newest(d) : d \in
                 {x \in Delivery : /\ Newest(x) \in accepted
                                   /\ entry[x].held /\ ~entry'[x].held
                                   /\ entry'[x].status = "queued"}}
  /\ UNCHANGED <<mailgun, ledger, requests, stops, prompt>>

Arise(e) ==
  /\ about[e] = None
  /\ \E receipt \in accepted :
       /\ about' = [about EXCEPT ![e] = receipt]
       /\ prompt' = IF Recorded(receipt) THEN prompt \cup {e} ELSE prompt
  /\ posted' = posted \cup {e}
  /\ UNCHANGED <<mailVars, ledger, requests, stops, late>>

----------------------------------------------------------------------------
(* A request *)

\* getByProviderMessageId reads the message as the request arrives.
Lookup(receipt) ==
  IF Recorded(receipt)
  THEN [delivery |-> receipt[1], status |-> entry[receipt[1]].status]
  ELSE None

Receive(r, e) ==
  /\ pc[r] = "idle" /\ e \in posted
  /\ event' = [event EXCEPT ![r] = e]
  /\ found' = [found EXCEPT ![r] = Lookup(about[e])]
  /\ pc' = [pc EXCEPT ![r] = IF Recorded(about[e]) THEN "claim" ELSE "inflight"]
  /\ UNCHANGED <<mailVars, mailgun, ledger, stops, history>>

\* attemptInFlight: for a message nobody knows, 503 while anything is in flight.
InFlight(r) ==
  /\ pc[r] = "inflight"
  /\ IF \E d \in Delivery : Queued(d) /\ entry[d].held
     THEN Leave(r) ELSE Goto(r, "claim")
  /\ UNCHANGED <<mailVars, mailgun, ledger, stops, history>>

Match(r) == IF found[r] = None THEN None ELSE found[r].delivery

\* Mutant of Judged: a message that was sent counts as marked.
JudgedWhenSent(r) ==
  IF found[r] = None THEN "ignored"
  ELSE IF found[r].status \in {"sent", Wanted(r)} THEN Wanted(r) ELSE "ignored"

\* The outcome of a claimed event, None where the message is yet to be marked.
Judged(r) ==
  IF found[r] = None THEN "ignored"
  ELSE IF found[r].status = "sent" THEN None
  ELSE IF found[r].status = Wanted(r) THEN Wanted(r)
  ELSE "ignored"

Judge(r) == Goto(r, CASE Judged(r) = None -> "process"
                      [] Judged(r) = "ignored" -> "ignore"
                      [] OTHER -> "finish")

\* Mutant of Resumable: an event that was begun counts as done.
ResumableNever(e) == FALSE

Resumable(e) == ledger[e].outcome = None

\* claim: an event that is new, or begun and not finished, is judged; a
\* finished one is answered 200; one matched with something else is refused.
Claim(r) ==
  /\ pc[r] = "claim"
  /\ LET e == event[r]
         mine == [delivery |-> Match(r), outcome |-> None]
     IN
     \/ /\ ledger[e] = None
        /\ ledger' = [ledger EXCEPT ![e] = mine]
        /\ Judge(r)
     \/ /\ ledger[e] # None
        /\ IF ledger[e].delivery # Match(r) THEN Leave(r)
           ELSE IF Resumable(e) THEN Judge(r)
           ELSE Goto(r, "answer")
        /\ UNCHANGED ledger
  /\ UNCHANGED <<mailVars, mailgun, stops, history>>

\* processFeedbackEvent reads the message again and leaves one that is not
\* 'sent' alone, without an error.
Process(r) ==
  /\ pc[r] = "process"
  /\ Goto(r, IF entry[found[r].delivery].status = "sent" THEN "mark" ELSE "finish")
  /\ UNCHANGED <<mailVars, mailgun, ledger, stops, history>>

\* Mutant of Markable: a verdict is replaced by the next one.
MarkableAlways(d, wanted) == TRUE

\* status IN ('sent', 'queued'), or 'sent' for a complaint
Markable(d, wanted) ==
  entry[d].status \in (IF wanted = "bounced" THEN {"sent", "queued"} ELSE {"sent"})

\* markBounced and markComplained, which throw where they match no row.
Mark(r) ==
  /\ pc[r] = "mark"
  /\ LET d == found[r].delivery IN
     IF Markable(d, Wanted(r))
     THEN /\ entry' = [entry EXCEPT ![d].status = Wanted(r)]
          /\ Goto(r, "finish")
     ELSE Goto(r, "reread") /\ UNCHANGED entry
  /\ UNCHANGED <<calls, mailgun, ledger, stops, history>>

\* After the error: done if the message has the verdict wanted, else a 500.
Reread(r) ==
  /\ pc[r] = "reread"
  /\ IF entry[found[r].delivery].status = Wanted(r)
     THEN Goto(r, "finish") ELSE Leave(r)
  /\ UNCHANGED <<mailVars, mailgun, ledger, stops, history>>

\* processed_at IS NULL
Finished(e, outcome) ==
  IF ledger[e].outcome = None
  THEN [ledger EXCEPT ![e].outcome = outcome] ELSE ledger

Finish(r) ==
  /\ pc[r] \in {"ignore", "finish"}
  /\ ledger' = Finished(event[r], IF pc[r] = "finish" THEN Wanted(r) ELSE "ignored")
  /\ Goto(r, "answer")
  /\ UNCHANGED <<mailVars, mailgun, stops, history>>

\* 200, which Mailgun may miss.
Answer(r) ==
  /\ pc[r] = "answer"
  /\ Leave(r)
  /\ \/ posted' = posted \ {event[r]} /\ UNCHANGED stops
     \/ stops < MaxStops /\ stops' = stops + 1 /\ UNCHANGED posted
  /\ UNCHANGED <<mailVars, about, ledger, history>>

\* The request is gone, or a statement of it failed.
Stop(r) ==
  /\ pc[r] \notin {"idle", "answer"} /\ stops < MaxStops
  /\ stops' = stops + 1
  /\ Leave(r)
  /\ UNCHANGED <<mailVars, mailgun, ledger, history>>

----------------------------------------------------------------------------
Step(r) ==
  \/ InFlight(r) \/ Claim(r) \/ Process(r) \/ Mark(r) \/ Reread(r)
  \/ Finish(r) \/ Answer(r)

Next ==
  \/ Mail
  \/ \E e \in Event : Arise(e)
  \/ \E r \in Request, e \in Event : Receive(r, e)
  \/ \E r \in Request : Step(r) \/ Stop(r)

Spec == Init /\ [][Next]_vars

\* Mailgun posts an event again until it is answered; requests do not hang.
Fairness ==
  /\ \A e \in Event : SF_vars(\E r \in Request : Receive(r, e))
  /\ \A r \in Request : WF_vars(Step(r))
FairSpec == Spec /\ Fairness

----------------------------------------------------------------------------
(* What must hold *)

FeedbackTypeOK ==
  /\ entry \in [Delivery -> [status : Status, held : BOOLEAN,
                          tries : 0..MaxAttempts, id : 0..MaxAttempts]]
  /\ open \subseteq Accepted /\ abandoned \subseteq Accepted
  /\ accepted \subseteq Accepted
  /\ about \in [Event -> Accepted \cup {None}]
  /\ posted \subseteq Event
  /\ ledger \in [Event -> Entry \cup {None}]
  /\ pc \in [Request -> {"idle", "inflight", "claim", "process", "mark",
                         "reread", "ignore", "finish", "answer"}]
  /\ event \in [Request -> Event \cup {None}]
  /\ found \in [Request -> Message \cup {None}]
  /\ \A r \in Request :
       pc[r] \in {"process", "mark", "reread", "finish"} => found[r] # None
  /\ stops \in 0..MaxStops
  /\ late \subseteq Accepted /\ prompt \subseteq Event

\* A verdict stands: whatever events of a message arrive together, are retried
\* or stop half-way, a bounce is not turned into a complaint, nor a complaint
\* into a bounce (mailer/src/index.ts: already terminal records should not be
\* overwritten).
VerdictStands ==
  [][\A d \in Delivery :
       entry[d].status \in Verdict => entry'[d].status = entry[d].status]_vars

\* No outcome is recorded before its work is done, and none is ever taken
\* back: an event finished as a verdict left the message with a verdict, so
\* that a retry after a stop is never answered as a duplicate of nothing
\* (migrations/0132: a crash in between is visible and the retry resumes it).
OutcomeMeansMarked ==
  \A e \in Event :
    ledger[e] # None /\ ledger[e].outcome \in Verdict =>
      entry[ledger[e].delivery].status \in Verdict

\* A message has only a verdict that an event on record gives it, and one about
\* the very acceptance it was sent under: an attempt that was given up, and
\* bounced all the same, says nothing of the one that was recorded.
VerdictHasEvidence ==
  \A d \in Delivery :
    entry[d].status \in Verdict =>
      \E e \in (IF entry[d].status = "bounced" THEN Bounces ELSE Complaints) :
        about[e] = <<d, entry[d].id>> /\ ledger[e] # None

\* A bounce or complaint about a message that was recorded before the event
\* arose lands: its event is finished, once for all, and the message has a
\* verdict, whatever stops and however often it is posted.
PromptEventLands ==
  \A e \in Event :
    e \in prompt ~>
      /\ ledger[e] # None /\ ledger[e].outcome # None
      /\ entry[about[e][1]].status \in Verdict
      /\ e \notin posted

\* mailgun-feedback.ts: while the send an event is about may not have written
\* its message id, answering would drop an event that a retry would land.  Yet
\* the message is looked up before the question whether anything is in flight
\* is asked, and the send may be recorded in between.
NoEventDropped ==
  \A e \in Event :
    /\ ledger[e] = [delivery |-> None, outcome |-> "ignored"]
    /\ about[e] \notin late
    => ~Recorded(about[e])
=============================================================================
