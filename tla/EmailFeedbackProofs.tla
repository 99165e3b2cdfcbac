------------------------- MODULE EmailFeedbackProofs -------------------------
(***************************************************************************)
(* The safety properties of EmailFeedback, for any messages, events and    *)
(* concurrent requests, and any number of stops and missed answers.        *)
(*                                                                         *)
(* What they rest on: a message recorded as sent under an acceptance stays *)
(* so, whatever a sender does after it; so what a request has found stays  *)
(* found, and what it has begun in the ledger stays its.                   *)
(***************************************************************************)
EXTENDS EmailFeedback, TLAPS

USE DEF calls

----------------------------------------------------------------------------
(* The inductive invariant *)

\* What is posted, or on record, arose from an acceptance.
EventsArose == \A e \in Event :
  /\ about[e] # None => about[e] \in accepted
  /\ e \in posted \/ ledger[e] # None => about[e] # None

\* What a request has found is still there, with a verdict if it had one; what
\* it works on it has begun in the ledger.
RequestFits(r) ==
  /\ pc[r] # "idle" => event[r] \in Event /\ about[event[r]] # None
  /\ found[r] # None =>
       /\ pc[r] # "idle" /\ found[r].delivery = about[event[r]][1]
       /\ Recorded(about[event[r]])
       /\ found[r].status \in Verdict => entry[found[r].delivery].status \in Verdict
  /\ pc[r] \in {"process", "mark", "reread", "finish"} => found[r] # None
  /\ pc[r] \in {"process", "mark", "reread", "finish", "ignore"} =>
       ledger[event[r]] # None /\ ledger[event[r]].delivery = Match(r)
  /\ pc[r] = "finish" => entry[found[r].delivery].status \in Verdict

\* An event in the ledger was matched with a message of ours, or with none.
OutcomeFits == \A e \in Event :
  ledger[e] # None /\ ledger[e].outcome \in Verdict =>
    /\ ledger[e].delivery \in Delivery
    /\ entry[ledger[e].delivery].status \in Verdict

IInv ==
  /\ FeedbackTypeOK /\ EventsArose /\ OutcomeFits /\ VerdictHasEvidence
  /\ \A r \in Request : RequestFits(r)

----------------------------------------------------------------------------
(* Types *)

Place == {"idle", "inflight", "claim", "process", "mark", "reread", "ignore",
          "finish", "answer"}
Sort == [status : Status, held : BOOLEAN, tries : 0..MaxAttempts, id : 0..MaxAttempts]

LEMMA Bounds ==
  /\ MaxAttempts \in Nat /\ MaxAttempts > 0 /\ MaxStops \in Nat
  /\ None \notin Delivery /\ None \notin Outcome /\ None \notin Accepted
  /\ None \notin Entry /\ None \notin Message
BY EmailFeedbackAssumption

LEMMA Types ==
  ASSUME IInv
  PROVE  /\ entry \in [Delivery -> Sort] /\ accepted \subseteq Accepted
         /\ open \subseteq Accepted /\ abandoned \subseteq Accepted
         /\ about \in [Event -> Accepted \cup {None}] /\ posted \subseteq Event
         /\ ledger \in [Event -> Entry \cup {None}] /\ pc \in [Request -> Place]
         /\ event \in [Request -> Event \cup {None}]
         /\ found \in [Request -> Message \cup {None}]
         /\ stops \in 0..MaxStops /\ late \subseteq Accepted /\ prompt \subseteq Event
BY DEF IInv, FeedbackTypeOK, Sort, Place

LEMMA ReceiptMeans ==
  ASSUME NEW receipt \in Accepted
  PROVE  /\ receipt[1] \in Delivery /\ receipt[2] \in 1..MaxAttempts
         /\ receipt = <<receipt[1], receipt[2]>> /\ receipt # None
BY Bounds DEF Accepted

\* A request's event, and the message it is about.
LEMMA EventMeans ==
  ASSUME IInv, NEW r \in Request, pc[r] # "idle"
  PROVE  /\ event[r] \in Event /\ about[event[r]] \in Accepted
         /\ about[event[r]][1] \in Delivery /\ Wanted(r) \in Verdict
         /\ found[r] # None => found[r] \in Message /\ found[r].delivery \in Delivery
<1>1. /\ event[r] \in Event /\ about[event[r]] \in Accepted
  BY Types DEF IInv, RequestFits
<1>2. Wanted(r) \in Verdict
  BY DEF Wanted, Verdict
<1>3. found[r] # None => found[r] \in Message /\ found[r].delivery \in Delivery
  BY Types DEF Message
<1> QED
  BY <1>1, <1>2, <1>3, ReceiptMeans

----------------------------------------------------------------------------
(* Settled messages *)

\* What every step leaves of the messages: the recorded ones stay recorded,
\* under their id, and a verdict stays.
Settling ==
  \A d \in Delivery : entry[d].status \in {"sent"} \cup Verdict =>
    /\ entry'[d].status \in {"sent"} \cup Verdict /\ entry'[d].id = entry[d].id
    /\ entry[d].status \in Verdict => entry'[d].status = entry[d].status

LEMMA RecordedStays ==
  ASSUME Settling, NEW receipt \in Accepted, Recorded(receipt)
  PROVE  Recorded(receipt)'
BY ReceiptMeans DEF Settling, Recorded

\* A sender's step touches queued messages and new ones only.
LEMMA MailSettles ==
  ASSUME IInv, MailNext
  PROVE  /\ entry' \in [Delivery -> Sort] /\ accepted' \subseteq Accepted
         /\ open' \subseteq Accepted /\ abandoned' \subseteq Accepted
         /\ accepted \subseteq accepted' /\ Settling
         /\ \A d \in Delivery : entry'[d].status \in Verdict => entry[d].status \in Verdict
<1>1. /\ entry \in [Delivery -> Sort] /\ accepted \subseteq Accepted
      /\ open \subseteq Accepted /\ abandoned \subseteq Accepted
  BY Types
<1>2. ASSUME NEW d \in Delivery, NEW s \in SendStatus, NEW h \in BOOLEAN,
             NEW t \in 0..MaxAttempts, NEW n \in 0..MaxAttempts,
             Becomes(d, s, h, t, n), entry[d].status \in {"none", "queued"}
      PROVE  /\ entry' \in [Delivery -> Sort] /\ Settling
             /\ \A x \in Delivery : entry'[x].status \in Verdict => entry[x].status \in Verdict
  <2> DEFINE row == [status |-> s, held |-> h, tries |-> t, id |-> n]
  <2>1. row \in Sort /\ row.status = s
    BY DEF Sort, Status
  <2>2. entry' = [entry EXCEPT ![d] = row]
    BY <1>2 DEF Becomes
  <2> HIDE DEF row
  <2>3. /\ entry' \in [Delivery -> Sort] /\ entry'[d] = row
        /\ \A x \in Delivery \ {d} : entry'[x] = entry[x]
    BY <1>1, <2>1, <2>2
  <2> QED
    BY <1>2, <2>1, <2>3 DEF Settling, SendStatus, Verdict
<1>3. /\ 0 \in 0..MaxAttempts /\ \A d \in Delivery : entry[d].tries \in 0..MaxAttempts
      /\ SendStatus = {"none", "queued", "sent", "failed"}
  BY <1>1, Bounds DEF Sort, SendStatus
<1>4. ASSUME NEW d \in Delivery, Open(d) \/ Hold(d) \/ Sent(d) \/ Fail(d)
      PROVE  /\ entry' \in [Delivery -> Sort] /\ Settling /\ UNCHANGED <<abandoned, accepted>>
             /\ open' \subseteq Accepted
             /\ \A x \in Delivery : entry'[x].status \in Verdict => entry[x].status \in Verdict
  <2>1. \E s \in SendStatus, h \in BOOLEAN, t, n \in 0..MaxAttempts :
          Becomes(d, s, h, t, n) /\ entry[d].status \in {"none", "queued"}
    <3>1. CASE Open(d)
      BY <1>3, <3>1 DEF Open
    <3>2. CASE Hold(d)
      <4>1. entry[d].tries + 1 <= MaxAttempts => entry[d].tries + 1 \in 0..MaxAttempts
        BY <1>3, Bounds
      <4> QED
        BY <1>3, <3>2, <4>1 DEF Hold, Queued
    <3>3. CASE Sent(d) \/ Fail(d)
      BY <1>3, <3>3 DEF Sent, Fail, Queued
    <3> QED
      BY <1>4, <3>1, <3>2, <3>3
  <2>2. UNCHANGED <<abandoned, accepted>> /\ open' \subseteq Accepted
    <3>1. CASE Hold(d)
      <4>1. entry[d].tries + 1 <= MaxAttempts => <<d, entry[d].tries + 1>> \in Accepted
        BY <1>3, Bounds DEF Accepted
      <4> QED
        BY <1>1, <3>1, <4>1 DEF Hold
    <3> QED
      BY <1>1, <1>4, <3>1 DEF Open, Sent, Fail
  <2> QED
    BY <1>2, <2>1, <2>2
<1>5. ASSUME NEW a \in Accepted, Accept(a) \/ HangUp(a) \/ AcceptLate(a)
      PROVE  /\ entry' = entry /\ accepted' \subseteq Accepted /\ accepted \subseteq accepted'
             /\ open' \subseteq Accepted /\ abandoned' \subseteq Accepted
  BY <1>1, <1>5 DEF Accept, HangUp, AcceptLate
<1>6. ASSUME NEW D \in SUBSET Delivery, Drop(D)
      PROVE  /\ entry' \in [Delivery -> Sort] /\ UNCHANGED calls
             /\ \A x \in Delivery : entry'[x].status = entry[x].status /\ entry'[x].id = entry[x].id
  <2>1. \A x \in Delivery : LET row == [entry[x] EXCEPT !.held = FALSE] IN
          row \in Sort /\ row.status = entry[x].status /\ row.id = entry[x].id
    BY <1>1 DEF Sort
  <2> QED
    BY <1>1, <1>6, <2>1 DEF Drop
<1> QED
  BY <1>1, <1>4, <1>5, <1>6 DEF MailNext, Settling

----------------------------------------------------------------------------
(* What most steps have in common *)

AboutStays == \A e \in Event : about[e] # None => about'[e] = about[e]
LedgerStays == \A e \in Event :
  ledger[e] # None => ledger'[e] # None /\ ledger'[e].delivery = ledger[e].delivery

LEMMA RequestStays ==
  ASSUME IInv, Settling, AboutStays, LedgerStays, NEW r \in Request,
         pc'[r] = pc[r], event'[r] = event[r], found'[r] = found[r]
  PROVE  RequestFits(r)'
<1>1. CASE pc[r] = "idle"
  BY <1>1 DEF IInv, RequestFits
<1>2. CASE pc[r] # "idle"
  <2>1. PICK receipt \in Accepted : receipt = about[event[r]] /\ event[r] \in Event
    BY <1>2, EventMeans
  <2>2. about'[event'[r]] = receipt /\ receipt # None
    BY <2>1, ReceiptMeans DEF AboutStays
  <2>3. found[r] # None => Recorded(receipt)'
    BY <2>1, RecordedStays DEF IInv, RequestFits
  <2>4. found[r] # None => /\ found[r].delivery \in Delivery
                           /\ entry[found[r].delivery].status \in Verdict =>
                                entry'[found[r].delivery].status \in Verdict
    BY <1>2, EventMeans DEF Settling
  <2>5. Match(r)' = Match(r)
    BY DEF Match
  <2>6. ledger[event[r]] # None => /\ ledger'[event[r]] # None
                                   /\ ledger'[event[r]].delivery = ledger[event[r]].delivery
    BY <2>1 DEF LedgerStays
  <2>7. RequestFits(r)
    BY DEF IInv
  <2>8. found'[r] # None => /\ pc'[r] # "idle" /\ found'[r].delivery = about'[event'[r]][1]
                            /\ Recorded(about[event[r]])'
                            /\ found'[r].status \in Verdict =>
                                 entry'[found'[r].delivery].status \in Verdict
    BY <1>2, <2>1, <2>2, <2>3, <2>4, <2>7 DEF RequestFits, Recorded
  <2>9. /\ pc'[r] \in {"process", "mark", "reread", "finish"} => found'[r] # None
        /\ pc'[r] \in {"process", "mark", "reread", "finish", "ignore"} =>
             ledger'[event'[r]] # None /\ ledger'[event'[r]].delivery = Match(r)'
        /\ pc'[r] = "finish" => entry'[found'[r].delivery].status \in Verdict
    BY <2>4, <2>5, <2>6, <2>7 DEF RequestFits
  <2> QED
    BY <2>1, <2>2, <2>8, <2>9 DEF RequestFits
<1> QED
  BY <1>1, <1>2

\* A request that leaves its place keeps what it has.
LEMMA MovesOn ==
  ASSUME IInv, Settling, AboutStays, LedgerStays, NEW r \in Request, pc[r] # "idle",
         event'[r] = event[r], found'[r] = found[r], pc'[r] # "idle",
         pc'[r] \in {"process", "mark", "reread", "finish"} => found[r] # None,
         pc'[r] \in {"process", "mark", "reread", "finish", "ignore"} =>
           ledger'[event[r]] # None /\ ledger'[event[r]].delivery = Match(r),
         pc'[r] = "finish" => entry'[found[r].delivery].status \in Verdict
  PROVE  RequestFits(r)'
<1>1. PICK receipt \in Accepted : receipt = about[event[r]] /\ event[r] \in Event
  BY EventMeans
<1>2. about'[event'[r]] = receipt /\ receipt # None
  BY <1>1, ReceiptMeans DEF AboutStays
<1>3. found[r] # None => Recorded(receipt)'
  BY <1>1, RecordedStays DEF IInv, RequestFits
<1>4. found[r] # None => /\ found[r].delivery \in Delivery
                         /\ entry[found[r].delivery].status \in Verdict =>
                              entry'[found[r].delivery].status \in Verdict
  BY EventMeans DEF Settling
<1>5. Match(r)' = Match(r)
  BY DEF Match
<1>6. RequestFits(r)
  BY DEF IInv
<1>7. found'[r] # None => /\ pc'[r] # "idle" /\ found'[r].delivery = about'[event'[r]][1]
                          /\ Recorded(about[event[r]])'
                          /\ found'[r].status \in Verdict =>
                               entry'[found'[r].delivery].status \in Verdict
  BY <1>1, <1>2, <1>3, <1>4, <1>6 DEF RequestFits, Recorded
<1>8. /\ pc'[r] \in {"process", "mark", "reread", "finish"} => found'[r] # None
      /\ pc'[r] \in {"process", "mark", "reread", "finish", "ignore"} =>
           ledger'[event'[r]] # None /\ ledger'[event'[r]].delivery = Match(r)'
      /\ pc'[r] = "finish" => entry'[found'[r].delivery].status \in Verdict
  BY <1>5
<1> QED
  BY <1>1, <1>2, <1>7, <1>8 DEF RequestFits

LEMMA GoesAway ==
  ASSUME NEW r \in Request, pc'[r] = "idle", found'[r] = None
  PROVE  RequestFits(r)'
BY DEF RequestFits

\* A step that writes neither messages nor outcomes.
LEMMA OutcomesStay ==
  ASSUME IInv, Settling, \A e \in Event : ledger'[e] = ledger[e] \/ ledger'[e].outcome = None
  PROVE  OutcomeFits'
<1> SUFFICES ASSUME NEW e \in Event, ledger'[e] # None, ledger'[e].outcome \in Verdict
             PROVE  /\ ledger'[e].delivery \in Delivery
                    /\ entry'[ledger'[e].delivery].status \in Verdict
  BY DEF OutcomeFits
<1>1. None \notin Verdict
  BY Bounds DEF Outcome
<1>2. ledger'[e] = ledger[e]
  BY <1>1
<1>3. ledger[e].delivery \in Delivery /\ entry[ledger[e].delivery].status \in Verdict
  BY <1>2 DEF IInv, OutcomeFits
<1> QED
  BY <1>2, <1>3 DEF Settling

LEMMA EvidenceStays ==
  ASSUME IInv, Settling, AboutStays, LedgerStays, NEW d \in Delivery,
         entry[d].status \in Verdict
  PROVE  \E e \in (IF entry'[d].status = "bounced" THEN Bounces ELSE Complaints) :
           about'[e] = <<d, entry'[d].id>> /\ ledger'[e] # None
<1>1. /\ entry'[d].status = entry[d].status /\ entry'[d].id = entry[d].id
  BY DEF Settling
<1>2. PICK e \in (IF entry[d].status = "bounced" THEN Bounces ELSE Complaints) :
        about[e] = <<d, entry[d].id>> /\ ledger[e] # None
  BY DEF IInv, VerdictHasEvidence
<1>3. e \in Event /\ about[e] # None
  BY <1>2 DEF Event, IInv, EventsArose
<1> QED
  BY <1>1, <1>2, <1>3 DEF AboutStays, LedgerStays

\* The types, once the requests fit.
LEMMA Assembled ==
  ASSUME /\ entry' \in [Delivery -> Sort] /\ accepted' \subseteq Accepted
         /\ open' \subseteq Accepted /\ abandoned' \subseteq Accepted
         /\ about' \in [Event -> Accepted \cup {None}] /\ posted' \subseteq Event
         /\ ledger' \in [Event -> Entry \cup {None}] /\ pc' \in [Request -> Place]
         /\ event' \in [Request -> Event \cup {None}]
         /\ found' \in [Request -> Message \cup {None}]
         /\ stops' \in 0..MaxStops /\ late' \subseteq Accepted /\ prompt' \subseteq Event,
         \A r \in Request : RequestFits(r)'
  PROVE  FeedbackTypeOK'
BY DEF FeedbackTypeOK, Sort, Place, RequestFits

----------------------------------------------------------------------------
(* Around the requests *)

LEMMA MailKeeps == ASSUME IInv, Mail PROVE IInv'
<1>1. /\ MailNext /\ UNCHANGED <<about, posted, ledger, pc, event, found, stops, prompt>>
      /\ late' \subseteq Accepted
  BY Types DEF Mail, mailgun, requests, Newest
<1>2. AboutStays /\ LedgerStays
  BY <1>1 DEF AboutStays, LedgerStays
<1>3. \A r \in Request : RequestFits(r)'
  BY <1>1, <1>2, MailSettles, RequestStays
<1>4. FeedbackTypeOK'
  BY <1>1, <1>3, MailSettles, Types, Assembled
<1>5. EventsArose'
  BY <1>1, MailSettles DEF IInv, EventsArose
<1>6. OutcomeFits'
  BY <1>1, MailSettles, OutcomesStay
<1>7. VerdictHasEvidence'
  BY <1>1, <1>2, MailSettles, EvidenceStays DEF VerdictHasEvidence
<1> QED
  BY <1>3, <1>4, <1>5, <1>6, <1>7 DEF IInv

LEMMA AriseKeeps == ASSUME IInv, NEW e \in Event, Arise(e) PROVE IInv'
<1>1. PICK receipt \in accepted :
        /\ about[e] = None /\ about' = [about EXCEPT ![e] = receipt]
        /\ prompt' \in {prompt, prompt \cup {e}} /\ posted' = posted \cup {e}
        /\ UNCHANGED <<entry, calls, ledger, pc, event, found, stops, late>>
  BY DEF Arise, mailVars, requests
<1>2. receipt \in Accepted /\ receipt # None
  BY Types, ReceiptMeans
<1>3. /\ about' \in [Event -> Accepted \cup {None}] /\ about'[e] = receipt
      /\ \A f \in Event \ {e} : about'[f] = about[f]
  BY <1>1, <1>2, Types
<1>4. Settling /\ AboutStays /\ LedgerStays
  BY <1>1, <1>3 DEF Settling, AboutStays, LedgerStays
<1>5. \A r \in Request : RequestFits(r)'
  BY <1>1, <1>4, RequestStays
<1>6. FeedbackTypeOK'
  BY <1>1, <1>3, <1>5, Types, Assembled
<1>7. EventsArose'
  BY <1>1, <1>2, <1>3 DEF IInv, EventsArose
<1>8. OutcomeFits'
  BY <1>1, <1>4, OutcomesStay
<1>9. VerdictHasEvidence'
  BY <1>1, <1>4, EvidenceStays DEF VerdictHasEvidence
<1> QED
  BY <1>5, <1>6, <1>7, <1>8, <1>9 DEF IInv

----------------------------------------------------------------------------
(* A request *)

\* A step of a request that writes neither messages nor outcomes.
LEMMA RequestKeeps ==
  ASSUME IInv, NEW r \in Request, RequestFits(r)',
         UNCHANGED <<entry, calls, about, late, prompt>>, LedgerStays,
         posted' \subseteq posted, stops' \in 0..MaxStops,
         ledger' \in [Event -> Entry \cup {None}],
         \A e \in Event : \/ ledger'[e] = ledger[e]
                          \/ ledger'[e].outcome = None /\ about[e] # None,
         pc' \in [Request -> Place], event' \in [Request -> Event \cup {None}],
         found' \in [Request -> Message \cup {None}],
         \A q \in Request \ {r} :
           pc'[q] = pc[q] /\ event'[q] = event[q] /\ found'[q] = found[q]
  PROVE  IInv'
<1>1. Settling /\ AboutStays
  BY DEF Settling, AboutStays
<1>2. \A q \in Request : RequestFits(q)'
  <2> SUFFICES ASSUME NEW q \in Request, q # r PROVE RequestFits(q)'
    OBVIOUS
  <2> QED
    BY <1>1, RequestStays
<1>3. FeedbackTypeOK'
  BY <1>2, Types, Assembled
<1>4. EventsArose'
  BY DEF IInv, EventsArose
<1>5. OutcomeFits'
  BY <1>1, OutcomesStay
<1>6. VerdictHasEvidence'
  BY <1>1, EvidenceStays DEF VerdictHasEvidence
<1> QED
  BY <1>2, <1>3, <1>4, <1>5, <1>6 DEF IInv

LEMMA Places ==
  ASSUME IInv, NEW r \in Request, NEW p \in Place, Goto(r, p)
  PROVE  /\ pc' \in [Request -> Place] /\ pc'[r] = p /\ event' = event /\ found' = found
         /\ \A q \in Request \ {r} : pc'[q] = pc[q]
BY Types DEF Goto

LEMMA Left ==
  ASSUME IInv, NEW r \in Request, Leave(r)
  PROVE  /\ pc' \in [Request -> Place] /\ event' \in [Request -> Event \cup {None}]
         /\ found' \in [Request -> Message \cup {None}]
         /\ RequestFits(r)'
         /\ \A q \in Request \ {r} :
              pc'[q] = pc[q] /\ event'[q] = event[q] /\ found'[q] = found[q]
<1>1. /\ pc' \in [Request -> Place] /\ event' \in [Request -> Event \cup {None}]
      /\ found' \in [Request -> Message \cup {None}] /\ pc'[r] = "idle" /\ found'[r] = None
      /\ \A q \in Request \ {r} :
           pc'[q] = pc[q] /\ event'[q] = event[q] /\ found'[q] = found[q]
  BY Types DEF Leave, Place
<1> QED
  BY <1>1, GoesAway

LEMMA ReceiveKeeps == ASSUME IInv, NEW r \in Request, NEW e \in Event, Receive(r, e) PROVE IInv'
<1>1. /\ pc[r] = "idle" /\ e \in posted /\ event' = [event EXCEPT ![r] = e]
      /\ found' = [found EXCEPT ![r] = Lookup(about[e])]
      /\ pc' = [pc EXCEPT ![r] = IF Recorded(about[e]) THEN "claim" ELSE "inflight"]
      /\ UNCHANGED <<entry, calls, about, posted, ledger, stops, late, prompt>>
  BY DEF Receive, mailVars, mailgun, history
<1>2. PICK receipt \in Accepted : receipt = about[e] /\ receipt # None
  BY <1>1, Types DEF IInv, EventsArose
<1>3. Lookup(receipt) # None =>
        /\ Lookup(receipt) \in Message /\ Recorded(receipt)
        /\ Lookup(receipt).delivery = receipt[1]
        /\ Lookup(receipt).status = entry[receipt[1]].status
  BY ReceiptMeans DEF Lookup, Recorded, Message, Status, SendStatus, Verdict
<1>4. /\ pc' \in [Request -> Place] /\ event' \in [Request -> Event \cup {None}]
      /\ found' \in [Request -> Message \cup {None}]
      /\ pc'[r] \in {"claim", "inflight"} /\ event'[r] = e /\ found'[r] = Lookup(receipt)
      /\ \A q \in Request \ {r} :
           pc'[q] = pc[q] /\ event'[q] = event[q] /\ found'[q] = found[q]
  BY <1>1, <1>2, <1>3, Types DEF Place
<1>5. RequestFits(r)'
  <2>1. about'[event'[r]] = receipt
    BY <1>1, <1>2, <1>4
  <2>2. found'[r] # None => /\ found'[r].delivery = receipt[1] /\ Recorded(receipt)'
                            /\ found'[r].status \in Verdict =>
                                 entry'[found'[r].delivery].status \in Verdict
    BY <1>1, <1>3, <1>4 DEF Recorded
  <2> QED
    BY <1>2, <1>4, <2>1, <2>2 DEF RequestFits, Recorded
<1>6. LedgerStays /\ ledger' \in [Event -> Entry \cup {None}] /\ stops' \in 0..MaxStops
  BY <1>1, Types DEF LedgerStays
<1> QED
  BY <1>1, <1>4, <1>5, <1>6, RequestKeeps


\* A step by which a request ends, and one by which it goes on.
LEMMA LeavingKeeps ==
  ASSUME IInv, NEW r \in Request, Leave(r),
         UNCHANGED <<entry, calls, about, ledger, late, prompt>>,
         posted' \subseteq posted, stops' \in 0..MaxStops
  PROVE  IInv'
<1>1. LedgerStays /\ ledger' \in [Event -> Entry \cup {None}]
  BY Types DEF LedgerStays
<1> QED
  BY <1>1, Left, RequestKeeps

LEMMA GoingKeeps ==
  ASSUME IInv, NEW r \in Request, NEW p \in Place \ {"idle"}, Goto(r, p), pc[r] # "idle",
         UNCHANGED <<entry, calls, about, posted, ledger, stops, late, prompt>>,
         p \in {"process", "mark", "reread", "finish"} => found[r] # None,
         p \in {"process", "mark", "reread", "finish", "ignore"} =>
           ledger[event[r]] # None /\ ledger[event[r]].delivery = Match(r),
         p = "finish" => entry[found[r].delivery].status \in Verdict
  PROVE  IInv'
<1>1. Settling /\ AboutStays /\ LedgerStays
  BY DEF Settling, AboutStays, LedgerStays
<1>2. /\ pc' \in [Request -> Place] /\ pc'[r] = p /\ event' = event /\ found' = found
      /\ \A q \in Request \ {r} : pc'[q] = pc[q]
  BY Places
<1>3. RequestFits(r)'
  BY <1>1, <1>2, MovesOn
<1> QED
  BY <1>1, <1>2, <1>3, Types, RequestKeeps

LEMMA InFlightKeeps == ASSUME IInv, NEW r \in Request, InFlight(r) PROVE IInv'
<1>1. /\ pc[r] = "inflight" /\ (Leave(r) \/ Goto(r, "claim"))
      /\ UNCHANGED <<entry, calls, about, posted, ledger, stops, late, prompt>>
  BY DEF InFlight, mailVars, mailgun, history
<1>2. CASE Leave(r)
  BY <1>1, <1>2, Types, LeavingKeeps
<1>3. CASE Goto(r, "claim")
  BY <1>1, <1>3, GoingKeeps DEF Place
<1> QED
  BY <1>1, <1>2, <1>3

\* What a judged request has found.
LEMMA JudgeMeans ==
  ASSUME IInv, NEW r \in Request, pc[r] # "idle", Judge(r)
  PROVE  \E p \in {"process", "finish", "ignore"} :
           /\ Goto(r, p)
           /\ p # "ignore" => found[r] # None
           /\ p = "finish" => entry[found[r].delivery].status \in Verdict
<1>1. None \notin Verdict /\ None # "ignored" /\ "ignored" \notin Verdict
  BY Bounds DEF Outcome, Verdict
<1>2. Wanted(r) \in Verdict
  BY EventMeans
<1>3. CASE Judged(r) = None
  BY <1>1, <1>2, <1>3 DEF Judge, Judged
<1>4. CASE Judged(r) = "ignored"
  BY <1>1, <1>4 DEF Judge
<1>5. CASE Judged(r) \notin {None, "ignored"}
  <2>1. found[r] # None /\ found[r].status \in Verdict
    BY <1>2, <1>5 DEF Judged
  <2>2. entry[found[r].delivery].status \in Verdict
    BY <2>1 DEF IInv, RequestFits
  <2> QED
    BY <1>5, <2>1, <2>2 DEF Judge
<1> QED
  BY <1>3, <1>4, <1>5

LEMMA ClaimKeeps == ASSUME IInv, NEW r \in Request, Claim(r) PROVE IInv'
<1>1. pc[r] = "claim" /\ UNCHANGED <<entry, calls, about, posted, stops, late, prompt>>
  BY DEF Claim, mailVars, mailgun, history
<1>2. event[r] \in Event /\ about[event[r]] \in Accepted /\ None \notin Accepted
  BY <1>1, EventMeans, Bounds
<1> DEFINE mine == [delivery |-> Match(r), outcome |-> None]
<1>3. CASE ledger[event[r]] = None /\ ledger' = [ledger EXCEPT ![event[r]] = mine] /\ Judge(r)
  <2>1. mine \in Entry /\ mine # None /\ mine.delivery = Match(r) /\ mine.outcome = None
    <3>1. Match(r) \in Delivery \cup {None}
      BY <1>1, EventMeans DEF Match
    <3>2. mine \in Entry
      BY <3>1 DEF Entry
    <3> QED
      BY <3>2, Bounds
  <2> HIDE DEF mine
  <2>2. /\ ledger' \in [Event -> Entry \cup {None}] /\ ledger'[event[r]] = mine
        /\ \A e \in Event \ {event[r]} : ledger'[e] = ledger[e]
    BY <1>2, <1>3, <2>1, Types
  <2>3. PICK p \in {"process", "finish", "ignore"} :
           /\ Goto(r, p)
           /\ p # "ignore" => found[r] # None
           /\ p = "finish" => entry[found[r].delivery].status \in Verdict
    BY <1>1, <1>3, JudgeMeans
  <2>4. /\ pc' \in [Request -> Place] /\ pc'[r] = p /\ event' = event /\ found' = found
        /\ \A q \in Request \ {r} : pc'[q] = pc[q]
    BY <2>3, Places DEF Place
  <2>5. Settling /\ AboutStays /\ LedgerStays
    BY <1>1, <1>3, <2>2 DEF Settling, AboutStays, LedgerStays
  <2>6. RequestFits(r)'
    BY <1>1, <2>1, <2>2, <2>3, <2>4, <2>5, MovesOn
  <2> QED
    BY <1>1, <1>2, <2>1, <2>2, <2>4, <2>5, <2>6, Types, RequestKeeps
<1>4. CASE ledger[event[r]] # None /\ UNCHANGED ledger
  <2>1. CASE ledger[event[r]].delivery # Match(r) /\ Leave(r)
    BY <1>1, <1>4, <2>1, Types, LeavingKeeps
  <2>2. CASE ledger[event[r]].delivery = Match(r) /\ Judge(r)
    <3>1. PICK p \in {"process", "finish", "ignore"} :
             /\ Goto(r, p)
             /\ p # "ignore" => found[r] # None
             /\ p = "finish" => entry[found[r].delivery].status \in Verdict
      BY <1>1, <2>2, JudgeMeans
    <3>2. p \in Place \ {"idle"}
      BY DEF Place
    <3> QED
      BY <1>1, <1>4, <2>2, <3>1, <3>2, GoingKeeps
  <2>3. CASE Goto(r, "answer")
    BY <1>1, <1>4, <2>3, GoingKeeps DEF Place
  <2> QED
    BY <1>4, <2>1, <2>2, <2>3 DEF Claim
<1> QED
  BY <1>3, <1>4 DEF Claim

\* What a request that works on a message has found is recorded, as sent.
LEMMA WorksOn ==
  ASSUME IInv, NEW r \in Request, pc[r] \in {"process", "mark", "reread", "finish"}
  PROVE  /\ found[r] # None /\ found[r].delivery \in Delivery
         /\ Match(r) = found[r].delivery
         /\ ledger[event[r]] # None /\ ledger[event[r]].delivery = Match(r)
         /\ entry[found[r].delivery].status \in {"sent"} \cup Verdict
         /\ about[event[r]] = <<found[r].delivery, entry[found[r].delivery].id>>
<1>1. RequestFits(r) /\ pc[r] # "idle"
  BY DEF IInv
<1>2. /\ found[r] # None /\ found[r].delivery = about[event[r]][1]
      /\ Recorded(about[event[r]])
      /\ ledger[event[r]] # None /\ ledger[event[r]].delivery = Match(r)
  BY <1>1 DEF RequestFits
<1>3. about[event[r]] \in Accepted /\ found[r].delivery \in Delivery
  BY <1>1, <1>2, EventMeans
<1> QED
  BY <1>2, <1>3, ReceiptMeans DEF Recorded, Match

LEMMA ProcessKeeps == ASSUME IInv, NEW r \in Request, Process(r) PROVE IInv'
<1>1. /\ pc[r] = "process"
      /\ Goto(r, IF entry[found[r].delivery].status = "sent" THEN "mark" ELSE "finish")
      /\ UNCHANGED <<entry, calls, about, posted, ledger, stops, late, prompt>>
  BY DEF Process, mailVars, mailgun, history
<1>2. CASE entry[found[r].delivery].status = "sent"
  BY <1>1, <1>2, WorksOn, GoingKeeps DEF Place
<1>3. CASE entry[found[r].delivery].status # "sent"
  BY <1>1, <1>3, WorksOn, GoingKeeps DEF Place
<1> QED
  BY <1>2, <1>3

LEMMA RereadKeeps == ASSUME IInv, NEW r \in Request, Reread(r) PROVE IInv'
<1>1. /\ pc[r] = "reread"
      /\ IF entry[found[r].delivery].status = Wanted(r)
         THEN Goto(r, "finish") ELSE Leave(r)
      /\ UNCHANGED <<entry, calls, about, posted, ledger, stops, late, prompt>>
  BY DEF Reread, mailVars, mailgun, history
<1>2. CASE entry[found[r].delivery].status = Wanted(r)
  <2>1. Wanted(r) \in Verdict
    BY <1>1, EventMeans
  <2> QED
    BY <1>1, <1>2, <2>1, WorksOn, GoingKeeps DEF Place
<1>3. CASE entry[found[r].delivery].status # Wanted(r)
  BY <1>1, <1>3, Types, LeavingKeeps
<1> QED
  BY <1>2, <1>3


\* The verdict written is that of the event, on the message it is about.
LEMMA MarkKeeps == ASSUME IInv, NEW r \in Request, Mark(r) PROVE IInv' /\ Settling
<1> DEFINE d == found[r].delivery
<1>1. /\ pc[r] = "mark" /\ UNCHANGED <<calls, about, posted, ledger, stops, late, prompt>>
      /\ IF Markable(d, Wanted(r))
         THEN entry' = [entry EXCEPT ![d].status = Wanted(r)] /\ Goto(r, "finish")
         ELSE Goto(r, "reread") /\ UNCHANGED entry
  BY DEF Mark, mailgun, history
<1>2. CASE ~Markable(d, Wanted(r))
  <2>1. Settling
    BY <1>1, <1>2 DEF Settling
  <2>2. found[r] # None /\ ledger[event[r]] # None /\ ledger[event[r]].delivery = Match(r)
    BY <1>1, WorksOn
  <2> QED
    BY <1>1, <1>2, <2>1, <2>2, GoingKeeps DEF Place
<1>3. CASE Markable(d, Wanted(r))
  <2>1. /\ found[r] # None /\ d \in Delivery /\ Match(r) = d
        /\ ledger[event[r]] # None /\ ledger[event[r]].delivery = d
        /\ entry[d].status \in {"sent"} \cup Verdict
        /\ about[event[r]] = <<d, entry[d].id>>
    BY <1>1, WorksOn
  <2>2. /\ event[r] \in Event /\ about[event[r]] \in Accepted /\ Wanted(r) \in Verdict
    BY <1>1, EventMeans
  <2>3. entry[d].status = "sent" /\ "sent" \notin Verdict
    BY <1>3, <2>1 DEF Markable, Verdict
  <2>4. /\ entry' \in [Delivery -> Sort]
        /\ entry'[d].status = Wanted(r) /\ entry'[d].id = entry[d].id
        /\ \A x \in Delivery \ {d} : entry'[x] = entry[x]
    <3>1. entry \in [Delivery -> Sort]
      BY Types
    <3>2. Wanted(r) \in Status
      BY <2>2 DEF Status
    <3>3. entry' = [entry EXCEPT ![d] = [entry[d] EXCEPT !.status = Wanted(r)]]
      BY <1>1, <1>3
    <3>4. LET row == [entry[d] EXCEPT !.status = Wanted(r)] IN
            row \in Sort /\ row.status = Wanted(r) /\ row.id = entry[d].id
      BY <2>1, <3>1, <3>2 DEF Sort
    <3> QED
      BY <2>1, <3>1, <3>3, <3>4
  <2> HIDE DEF d
  <2>5. Settling
    BY <2>2, <2>3, <2>4 DEF Settling
  <2>6. AboutStays /\ LedgerStays
    BY <1>1 DEF AboutStays, LedgerStays
  <2>7. /\ pc' \in [Request -> Place] /\ pc'[r] = "finish" /\ event' = event /\ found' = found
        /\ \A q \in Request \ {r} : pc'[q] = pc[q]
    BY <1>1, <1>3, Places DEF Place
  <2>8. entry'[found[r].delivery].status \in Verdict /\ ledger'[event[r]].delivery = Match(r)
    BY <1>1, <2>1, <2>2, <2>4 DEF d
  <2>9. RequestFits(r)'
    BY <1>1, <2>1, <2>5, <2>6, <2>7, <2>8, MovesOn
  <2>10. \A q \in Request : RequestFits(q)'
    <3> SUFFICES ASSUME NEW q \in Request, q # r PROVE RequestFits(q)'
      BY <2>9
    <3> QED
      BY <2>5, <2>6, <2>7, RequestStays
  <2>11. FeedbackTypeOK'
    BY <1>1, <2>4, <2>7, <2>10, Types, Assembled
  <2>12. EventsArose'
    BY <1>1 DEF IInv, EventsArose
  <2>13. OutcomeFits'
    BY <1>1, <2>5, OutcomesStay
  <2>14. VerdictHasEvidence'
    <3> SUFFICES ASSUME NEW x \in Delivery, entry'[x].status \in Verdict
                 PROVE  \E e \in (IF entry'[x].status = "bounced" THEN Bounces ELSE Complaints) :
                          about'[e] = <<x, entry'[x].id>> /\ ledger'[e] # None
      BY DEF VerdictHasEvidence
    <3>1. CASE x = d
      <4>1. event[r] \in (IF Wanted(r) = "bounced" THEN Bounces ELSE Complaints)
        BY <2>2 DEF Wanted, Event
      <4> QED
        BY <1>1, <2>1, <2>4, <3>1, <4>1
    <3>2. CASE x # d
      BY <2>4, <2>5, <2>6, <3>2, EvidenceStays
    <3> QED
      BY <3>1, <3>2
  <2> QED
    BY <2>5, <2>10, <2>11, <2>12, <2>13, <2>14 DEF IInv
<1> QED
  BY <1>2, <1>3

\* A verdict is recorded as the outcome only from "finish", where the message has one.
LEMMA FinishKeeps == ASSUME IInv, NEW r \in Request, Finish(r) PROVE IInv'
<1> DEFINE e == event[r]
           outcome == IF pc[r] = "finish" THEN Wanted(r) ELSE "ignored"
<1>1. /\ pc[r] \in {"ignore", "finish"} /\ ledger' = Finished(e, outcome) /\ Goto(r, "answer")
      /\ UNCHANGED <<entry, calls, about, posted, stops, late, prompt>>
  BY DEF Finish, mailVars, mailgun, history
<1>2. e \in Event /\ Wanted(r) \in Verdict /\ ledger[e] # None
  <2>1. RequestFits(r) /\ pc[r] # "idle"
    BY <1>1 DEF IInv
  <2> QED
    BY <1>1, <2>1, EventMeans DEF RequestFits
<1>3. outcome \in Outcome /\ (outcome \in Verdict => pc[r] = "finish")
  BY <1>2 DEF Outcome, Verdict
<1> HIDE DEF outcome
<1>4. /\ ledger' \in [Event -> Entry \cup {None}]
      /\ ledger'[e] # None /\ ledger'[e].delivery = ledger[e].delivery
      /\ \A f \in Event \ {e} : ledger'[f] = ledger[f]
      /\ ledger'[e] = ledger[e] \/ ledger'[e].outcome = outcome
  <2>1. ledger \in [Event -> Entry \cup {None}] /\ ledger[e] \in Entry
    BY <1>2, Types
  <2>2. CASE ledger[e].outcome # None
    BY <1>1, <1>2, <2>1, <2>2 DEF Finished
  <2>3. CASE ledger[e].outcome = None
    <3> DEFINE row == [ledger[e] EXCEPT !.outcome = outcome]
    <3>1. /\ row \in Entry /\ row.delivery = ledger[e].delivery /\ row.outcome = outcome
      BY <1>3, <2>1 DEF Entry
    <3>2. ledger' = [ledger EXCEPT ![e] = row]
      BY <1>1, <2>3 DEF Finished
    <3>3. row # None
      BY <3>1, Bounds
    <3> HIDE DEF row
    <3> QED
      BY <1>2, <2>1, <3>1, <3>2, <3>3
  <2> QED
    BY <2>2, <2>3
<1>5. Settling /\ AboutStays /\ LedgerStays
  BY <1>1, <1>4 DEF Settling, AboutStays, LedgerStays
<1>6. /\ pc' \in [Request -> Place] /\ pc'[r] = "answer" /\ event' = event /\ found' = found
      /\ \A q \in Request \ {r} : pc'[q] = pc[q]
  BY <1>1, Places DEF Place
<1>7. RequestFits(r)'
  BY <1>1, <1>5, <1>6, MovesOn
<1>8. \A q \in Request : RequestFits(q)'
  <2> SUFFICES ASSUME NEW q \in Request, q # r PROVE RequestFits(q)'
    BY <1>7
  <2> QED
    BY <1>5, <1>6, RequestStays
<1>9. FeedbackTypeOK'
  BY <1>1, <1>4, <1>6, <1>8, Types, Assembled
<1>10. EventsArose'
  BY <1>1, <1>2, <1>4 DEF IInv, EventsArose
<1>11. OutcomeFits'
  <2>1. pc[r] = "finish" => /\ ledger[e].delivery \in Delivery
                            /\ entry[ledger[e].delivery].status \in Verdict
    <3> SUFFICES ASSUME pc[r] = "finish"
                 PROVE  /\ ledger[e].delivery \in Delivery
                        /\ entry[ledger[e].delivery].status \in Verdict
      OBVIOUS
    <3>1. entry[found[r].delivery].status \in Verdict
      BY DEF IInv, RequestFits
    <3> QED
      BY <3>1, WorksOn
  <2> QED
    BY <1>1, <1>3, <1>4, <2>1 DEF IInv, OutcomeFits
<1>12. VerdictHasEvidence'
  BY <1>1, <1>5, EvidenceStays DEF VerdictHasEvidence
<1> QED
  BY <1>8, <1>9, <1>10, <1>11, <1>12 DEF IInv

LEMMA AnswerKeeps == ASSUME IInv, NEW r \in Request, Answer(r) PROVE IInv'
<1>1. /\ Leave(r) /\ UNCHANGED <<entry, calls, about, ledger, late, prompt>>
      /\ posted' \subseteq posted
      /\ stops' = stops \/ (stops < MaxStops /\ stops' = stops + 1)
  BY DEF Answer, mailVars, history
<1>2. stops' \in 0..MaxStops
  BY <1>1, Types, Bounds
<1> QED
  BY <1>1, <1>2, LeavingKeeps

LEMMA StopKeeps == ASSUME IInv, NEW r \in Request, Stop(r) PROVE IInv'
<1>1. /\ Leave(r) /\ UNCHANGED <<entry, calls, about, posted, ledger, late, prompt>>
      /\ stops < MaxStops /\ stops' = stops + 1
  BY DEF Stop, mailVars, mailgun, history
<1>2. stops' \in 0..MaxStops
  BY <1>1, Types, Bounds
<1> QED
  BY <1>1, <1>2, LeavingKeeps

----------------------------------------------------------------------------
(* The theorems *)

LEMMA InitKeeps == ASSUME Init PROVE IInv
<1>1. /\ entry = [d \in Delivery |-> [status |-> "none", held |-> FALSE, tries |-> 0, id |-> 0]]
      /\ open = {} /\ abandoned = {} /\ accepted = {} /\ about = [e \in Event |-> None] /\ posted = {}
      /\ ledger = [e \in Event |-> None] /\ pc = [r \in Request |-> "idle"]
      /\ event = [r \in Request |-> None] /\ found = [r \in Request |-> None]
      /\ stops = 0 /\ late = {} /\ prompt = {}
  BY DEF Init, MailInit
<1>2. FeedbackTypeOK
  BY <1>1, Bounds DEF FeedbackTypeOK, Status, SendStatus
<1>3. EventsArose /\ OutcomeFits
  BY <1>1 DEF EventsArose, OutcomeFits
<1>4. VerdictHasEvidence
  BY <1>1 DEF VerdictHasEvidence, Verdict
<1>5. \A r \in Request : RequestFits(r)
  BY <1>1 DEF RequestFits
<1> QED
  BY <1>2, <1>3, <1>4, <1>5 DEF IInv

LEMMA NextKeeps == ASSUME IInv, [Next]_vars PROVE IInv' /\ Settling
<1>1. CASE UNCHANGED vars
  <2>1. UNCHANGED <<entry, calls, about, posted, ledger, pc, event, found, stops, late, prompt>>
    BY <1>1 DEF vars, mailVars, mailgun, requests, history
  <2>2. Settling
    BY <2>1 DEF Settling
  <2>3. /\ FeedbackTypeOK' /\ EventsArose' /\ OutcomeFits' /\ VerdictHasEvidence'
    BY <2>1 DEF IInv, FeedbackTypeOK, EventsArose, OutcomeFits, VerdictHasEvidence
  <2>4. \A r \in Request : RequestFits(r)'
    BY <2>1 DEF IInv, RequestFits, Recorded, Match
  <2> QED
    BY <2>2, <2>3, <2>4 DEF IInv
<1>2. CASE Mail
  BY <1>2, MailKeeps, MailSettles DEF Mail
<1>3. ASSUME NEW e \in Event, Arise(e) PROVE IInv' /\ UNCHANGED entry
  BY <1>3, AriseKeeps DEF Arise, mailVars
<1>4. ASSUME NEW r \in Request, NEW e \in Event, Receive(r, e) PROVE IInv' /\ UNCHANGED entry
  BY <1>4, ReceiveKeeps DEF Receive, mailVars
<1>5. ASSUME NEW r \in Request, Mark(r) PROVE IInv' /\ Settling
  BY <1>5, MarkKeeps
<1>6. ASSUME NEW r \in Request, InFlight(r) \/ Claim(r) \/ Process(r) \/ Reread(r)
      PROVE  IInv' /\ UNCHANGED entry
  BY <1>6, InFlightKeeps, ClaimKeeps, ProcessKeeps, RereadKeeps
     DEF InFlight, Claim, Process, Reread, mailVars
<1>7. ASSUME NEW r \in Request, Finish(r) \/ Answer(r) \/ Stop(r)
      PROVE  IInv' /\ UNCHANGED entry
  BY <1>7, FinishKeeps, AnswerKeeps, StopKeeps DEF Finish, Answer, Stop, mailVars
<1>8. UNCHANGED entry => Settling
  BY DEF Settling
<1> QED
  BY <1>1, <1>2, <1>3, <1>4, <1>5, <1>6, <1>7, <1>8 DEF Next, Step

LEMMA Inductive == Spec => []IInv
<1>1. Init => IInv
  BY InitKeeps
<1>2. IInv /\ [Next]_vars => IInv'
  BY NextKeeps
<1> QED
  BY <1>1, <1>2, PTL DEF Spec

\* Whatever senders, Mailgun and the requests do, the tables and the requests
\* hold what they are declared to hold; a request works only on a message it
\* has found.
THEOREM FeedbackTypeCorrect == Spec => []FeedbackTypeOK
<1>1. IInv => FeedbackTypeOK
  BY DEF IInv
<1> QED
  BY <1>1, Inductive, PTL

\* An event on record as bounced or complained has left its message with a
\* verdict, for any number of requests and stops: the outcome is written last.
THEOREM OutcomeIsEarned == Spec => []OutcomeMeansMarked
<1>1. IInv => OutcomeMeansMarked
  BY DEF IInv, OutcomeFits, OutcomeMeansMarked
<1> QED
  BY <1>1, Inductive, PTL

\* A message has only a verdict that an event about its recorded acceptance
\* gave it: a later attempt never inherits the bounce of an earlier one.
THEOREM VerdictIsEvident == Spec => []VerdictHasEvidence
<1>1. IInv => VerdictHasEvidence
  BY DEF IInv
<1> QED
  BY <1>1, Inductive, PTL

\* The first verdict of a message is its last, however its events interleave.
THEOREM VerdictIsFinal == Spec => VerdictStands
<1>1. IInv /\ [Next]_vars =>
        [\A d \in Delivery :
           entry[d].status \in Verdict => entry'[d].status = entry[d].status]_vars
  BY NextKeeps DEF Settling
<1> QED
  BY <1>1, Inductive, PTL DEF Spec, VerdictStands

----------------------------------------------------------------------------
(* What it takes to drop an event *)

\* The send that a request's event is about is recorded after the request has
\* looked its message up and before it asks whether anything is in flight.
Overtaken(r) ==
  \E receipt \in accepted :
    /\ pc[r] = "inflight" /\ about[event[r]] = receipt
    /\ ~Recorded(receipt) /\ Recorded(receipt)'

Terminal(d) == entry[d].status \notin {"none", "queued"}

\* A call that is waited for is the last of a message that is held; one that was
\* abandoned is recorded of no message, neither now nor later; one that was
\* answered by an acceptance is held until its message is settled, or late.
HeldFor(a) == Queued(a[1]) /\ entry[a[1]].held /\ entry[a[1]].tries = a[2]
Spent(a) == ~Recorded(a) /\ entry[a[1]].status # "none" /\ a[2] <= entry[a[1]].tries
Answered(a) == Terminal(a[1]) \/ a \in late \/ HeldFor(a)
CallsFit ==
  /\ open \cap abandoned = {}
  /\ \A a \in open : HeldFor(a)
  /\ \A a \in abandoned : Spent(a)
  /\ \A a \in accepted \ abandoned : Answered(a)

\* The call was abandoned, or its message is settled and was not sent under its
\* id.
Missed(receipt) ==
  receipt \in abandoned \/ (Terminal(receipt[1]) /\ ~Recorded(receipt))

\* Without such a step: what a request did not find and what the ledger has no
\* message for will never be found either.
NothingOvertaken ==
  /\ \A r \in Request : pc[r] = "inflight" => found[r] = None /\ ~Recorded(about[event[r]])
  /\ \A r \in Request :
       pc[r] = "claim" /\ found[r] = None /\ about[event[r]] \notin late =>
         Missed(about[event[r]])
  /\ \A e \in Event :
       ledger[e] # None /\ ledger[e].delivery = None /\ about[e] \notin late =>
         Missed(about[e])

LEMMA CallMeans ==
  ASSUME IInv, NEW a \in open \cup abandoned \cup accepted
  PROVE  /\ a \in Accepted /\ a[1] \in Delivery /\ a[2] \in 1..MaxAttempts
         /\ a = <<a[1], a[2]>>
BY Types, ReceiptMeans

LEMMA FitsStay ==
  ASSUME NEW a, entry'[a[1]] = entry[a[1]], late \subseteq late'
  PROVE  /\ HeldFor(a) => HeldFor(a)'
         /\ Spent(a) => Spent(a)'
         /\ Answered(a) => Answered(a)'
BY DEF HeldFor, Spent, Answered, Queued, Recorded, Terminal

\* A step of a sender that begins or ends something of one message.
LEMMA SenderFits ==
  ASSUME IInv, CallsFit, late \subseteq late', NEW d \in Delivery,
         Open(d) \/ Hold(d) \/ Sent(d) \/ Fail(d)
  PROVE  CallsFit'
<1> DEFINE t == entry[d].tries
<1>1. entry \in [Delivery -> Sort] /\ t \in 0..MaxAttempts /\ MaxAttempts \in Nat
  BY Types, Bounds DEF Sort
<1>2. \A s, h, n, i : Becomes(d, s, h, n, i) =>
        /\ entry'[d].status = s /\ entry'[d].held = h
        /\ entry'[d].tries = n /\ entry'[d].id = i
        /\ \A e \in Delivery \ {d} : entry'[e] = entry[e]
  BY <1>1 DEF Becomes
<1>3. ASSUME NEW a \in open \cup abandoned \cup accepted, a[1] # d
      PROVE  /\ HeldFor(a) => HeldFor(a)'
             /\ Spent(a) => Spent(a)'
             /\ Answered(a) => Answered(a)'
  <2>1. entry'[a[1]] = entry[a[1]]
    BY <1>2, <1>3, CallMeans DEF Open, Hold, Sent, Fail
  <2> QED
    BY <2>1, FitsStay
<1>4. CASE Open(d)
  <2>1. UNCHANGED calls /\ entry[d].status = "none"
    BY <1>4 DEF Open
  <2>2. \A a \in open \cup abandoned : a[1] # d
    BY <2>1 DEF CallsFit, HeldFor, Spent, Queued
  <2>3. \A a \in accepted \ abandoned : a[1] = d => a \in late
    BY <2>1 DEF CallsFit, Answered, HeldFor, Queued, Terminal
  <2> QED
    BY <1>3, <2>1, <2>2, <2>3 DEF CallsFit, Answered
<1>5. CASE Hold(d)
  <2>1. /\ Queued(d) /\ ~entry[d].held /\ UNCHANGED <<abandoned, accepted>>
        /\ \/ /\ Becomes(d, "queued", TRUE, t + 1, 0) /\ open' = open \cup {<<d, t + 1>>}
              /\ t + 1 <= MaxAttempts
           \/ Becomes(d, "queued", TRUE, t, 0) /\ UNCHANGED open
    BY <1>5 DEF Hold
  <2>2. \A a \in open : a[1] # d
    BY <2>1 DEF CallsFit, HeldFor
  <2>3. \A a \in accepted \ abandoned : a[1] = d => a \in late
    BY <2>1 DEF CallsFit, Answered, HeldFor, Queued, Terminal
  <2>4. entry'[d].status = "queued" /\ entry'[d].tries \in {t, t + 1}
    BY <1>2, <2>1
  <2>5. ASSUME NEW a \in abandoned, a[1] = d
        PROVE  Spent(a)' /\ a # <<d, t + 1>>
    <3>1. a[2] <= t /\ a[2] \in 1..MaxAttempts
      BY <2>5, CallMeans DEF CallsFit, Spent
    <3>2. a[2] # t + 1 /\ a[2] <= entry'[d].tries
      BY <1>1, <2>4, <3>1
    <3>3. ~Recorded(a)'
      BY <2>4, <2>5 DEF Recorded, Verdict
    <3> QED
      BY <2>4, <2>5, <3>2, <3>3 DEF Spent
  <2>6. ASSUME NEW a \in open', a \notin open
        PROVE  a = <<d, t + 1>> /\ HeldFor(a)'
    <3>1. a = <<d, t + 1>> /\ Becomes(d, "queued", TRUE, t + 1, 0)
      BY <2>1, <2>6
    <3>2. entry'[d].status = "queued" /\ entry'[d].held /\ entry'[d].tries = t + 1
      BY ONLY <1>2, <3>1
    <3> QED
      BY <3>1, <3>2 DEF HeldFor, Queued
  <2>7. open' \cap abandoned = {}
    <3>1. <<d, t + 1>> \notin abandoned
      BY <2>5
    <3> QED
      BY <2>6, <3>1 DEF CallsFit
  <2> QED
    BY <1>3, <2>1, <2>2, <2>3, <2>5, <2>6, <2>7 DEF CallsFit, Answered
<1>6. CASE Sent(d) \/ Fail(d)
  <2>1. /\ Quiet(d) /\ UNCHANGED calls /\ Terminal(d)'
        /\ \/ <<d, t>> \notin abandoned /\ entry'[d].tries = t /\ entry'[d].id = t
           \/ entry'[d].tries = t /\ entry'[d].status = "failed"
    <3>1. CASE Sent(d)
      <4>1. /\ Becomes(d, "sent", FALSE, t, t) /\ <<d, t>> \notin abandoned
            /\ Quiet(d) /\ UNCHANGED calls
        BY <3>1 DEF Sent
      <4>2. entry'[d].status = "sent" /\ entry'[d].tries = t /\ entry'[d].id = t
        <5> HIDE DEF t
        <5> QED
          BY ONLY <1>2, <4>1, Zenon
      <4> QED
        BY <4>1, <4>2 DEF Terminal
    <3>2. CASE Fail(d)
      <4>1. Becomes(d, "failed", FALSE, t, 0) /\ Quiet(d) /\ UNCHANGED calls
        BY <3>2 DEF Fail
      <4>2. entry'[d].status = "failed" /\ entry'[d].tries = t
        BY ONLY <1>2, <4>1
      <4> QED
        BY <4>1, <4>2 DEF Terminal
    <3> QED
      BY <1>6, <3>1, <3>2
  <2>2. \A a \in open : a[1] # d
    BY <2>1, CallMeans DEF Quiet
  <2>3. \A a \in accepted : a[1] = d => Answered(a)'
    BY <2>1 DEF Answered, Terminal
  <2>4. ASSUME NEW a \in abandoned, a[1] = d PROVE Spent(a)'
    <3>1. a = <<d, a[2]>>
      BY <2>4, CallMeans
    <3>2. ~Recorded(a)'
      BY <2>1, <2>4, <3>1 DEF Recorded, Verdict
    <3> QED
      BY <2>1, <2>4, <3>2 DEF Spent, CallsFit, Terminal
  <2> QED
    BY <1>3, <2>1, <2>2, <2>3, <2>4 DEF CallsFit
<1> QED
  BY <1>4, <1>5, <1>6

LEMMA MailFits == ASSUME IInv, CallsFit, Mail PROVE CallsFit'
<1>1. MailNext /\ late \subseteq late'
  BY DEF Mail
<1>2. ASSUME NEW a \in Accepted, Accept(a) \/ HangUp(a) \/ AcceptLate(a) PROVE CallsFit'
  <2>1. entry' = entry
    BY <1>2 DEF Accept, HangUp, AcceptLate
  <2>2. \A b : /\ HeldFor(b) => HeldFor(b)'
               /\ Spent(b) => Spent(b)'
               /\ Answered(b) => Answered(b)'
    BY <1>1, <2>1, FitsStay
  <2>3. CASE Accept(a)
    <3>1. a \in open /\ HeldFor(a) /\ Answered(a)
      BY <2>3 DEF Accept, CallsFit, Answered
    <3> QED
      BY <2>2, <2>3, <3>1 DEF Accept, CallsFit
  <2>4. CASE HangUp(a)
    <3>1. a \in open /\ HeldFor(a) /\ a \in Accepted /\ a[2] \in 1..MaxAttempts
      BY <2>4, CallMeans DEF HangUp, CallsFit
    <3>2. Spent(a)
      BY <3>1, Bounds DEF HeldFor, Queued, Spent, Recorded, Verdict
    <3> QED
      BY <2>2, <2>4, <3>1, <3>2 DEF HangUp, CallsFit
  <2>5. CASE AcceptLate(a)
    BY <2>2, <2>5 DEF AcceptLate, CallsFit
  <2> QED
    BY <1>2, <2>3, <2>4, <2>5
<1>3. ASSUME NEW D \in SUBSET Delivery, Drop(D) PROVE CallsFit'
  <2>1. /\ entry \in [Delivery -> Sort] /\ UNCHANGED calls
        /\ \A d \in D : Quiet(d) /\ Queued(d) /\ entry[d].held
        /\ entry' = [d \in Delivery |->
                       IF d \in D THEN [entry[d] EXCEPT !.held = FALSE] ELSE entry[d]]
    BY <1>3, Types DEF Drop
  <2>2. \A d \in Delivery \ D : entry'[d] = entry[d]
    BY <2>1
  <2>3. \A d \in D : /\ entry'[d].status = "queued" /\ ~entry'[d].held
                     /\ entry'[d].tries = entry[d].tries
    BY <2>1 DEF Sort, Queued
  <2>4. ASSUME NEW a \in open PROVE HeldFor(a)'
    <3>1. a[1] \in Delivery \ D
      BY <2>1, CallMeans DEF Quiet
    <3> QED
      BY <1>1, <2>2, <3>1, FitsStay DEF CallsFit
  <2>5. ASSUME NEW a \in abandoned PROVE Spent(a)'
    <3>1. CASE a[1] \in D
      BY <2>3, <3>1 DEF CallsFit, Spent, Recorded, Verdict
    <3>2. CASE a[1] \notin D
      BY <1>1, <2>2, <3>2, CallMeans, FitsStay DEF CallsFit
    <3> QED
      BY <3>1, <3>2
  <2>6. ASSUME NEW a \in accepted \ abandoned PROVE Answered(a)'
    <3>1. CASE a[1] \in D
      <4>1. CASE HeldFor(a)
        <5>1. a[1] \in Delivery /\ a = Newest(a[1])
          BY <4>1, CallMeans DEF HeldFor, Newest
        <5>2. entry[a[1]].held /\ ~entry'[a[1]].held /\ entry'[a[1]].status = "queued"
          BY <2>1, <2>3, <3>1
        <5>3. a \in late'
          BY <5>1, <5>2 DEF Mail
        <5> QED
          BY <5>3 DEF Answered
      <4>2. CASE a \in late
        BY <1>1, <4>2 DEF Answered
      <4>3. ~Terminal(a[1])
        BY <2>1, <3>1 DEF Queued, Terminal
      <4> QED
        BY <4>1, <4>2, <4>3 DEF CallsFit, Answered
    <3>2. CASE a[1] \notin D
      BY <1>1, <2>2, <3>2, CallMeans, FitsStay DEF CallsFit
    <3> QED
      BY <3>1, <3>2
  <2> QED
    BY <2>1, <2>4, <2>5, <2>6 DEF CallsFit
<1> QED
  BY <1>1, <1>2, <1>3, SenderFits DEF MailNext

\* Requests write to settled messages only, and leave their ids.
LEMMA MarkWrites ==
  ASSUME IInv, NEW r \in Request, Mark(r), NEW d \in Delivery
  PROVE  \/ entry'[d] = entry[d]
         \/ /\ entry[d].status \in {"sent"} \cup Verdict
            /\ entry'[d].status \in {"sent"} \cup Verdict
            /\ entry'[d].id = entry[d].id /\ entry'[d].tries = entry[d].tries
<1>1. CASE UNCHANGED entry \/ d # found[r].delivery
  BY <1>1, Types DEF Mark
<1>2. CASE ~UNCHANGED entry /\ d = found[r].delivery
  <2>1. entry[d].status \in {"sent"} \cup Verdict /\ Wanted(r) \in Verdict
    BY <1>2, WorksOn, EventMeans DEF Mark
  <2>2. entry' = [entry EXCEPT ![d].status = Wanted(r)] /\ entry \in [Delivery -> Sort]
    BY <1>2, Types DEF Mark
  <2> QED
    BY <2>1, <2>2 DEF Sort
<1> QED
  BY <1>1, <1>2

LEMMA OtherSteps ==
  ASSUME [Next]_vars, ~Mail
  PROVE  /\ UNCHANGED <<calls, late>>
         /\ (\E r \in Request : Mark(r)) \/ UNCHANGED entry
BY DEF Next, Arise, Receive, Step, InFlight, Claim, Process, Mark, Reread, Finish, Answer,
       Stop, mailVars, history, vars

LEMMA CallsStay == ASSUME IInv, CallsFit, [Next]_vars PROVE CallsFit'
<1>1. CASE ~Mail
  <2>1. ASSUME NEW a \in open \cup abandoned \cup accepted
        PROVE  /\ HeldFor(a) => HeldFor(a)'
               /\ Spent(a) => Spent(a)'
               /\ Answered(a) => Answered(a)'
    <3>1. CASE entry'[a[1]] = entry[a[1]]
      BY <1>1, <3>1, OtherSteps, FitsStay
    <3>2. CASE entry'[a[1]] # entry[a[1]]
      <4>1. /\ entry[a[1]].status \in {"sent"} \cup Verdict
            /\ entry'[a[1]].status \in {"sent"} \cup Verdict
            /\ entry'[a[1]].id = entry[a[1]].id /\ entry'[a[1]].tries = entry[a[1]].tries
        BY <1>1, <3>2, CallMeans, OtherSteps, MarkWrites
      <4> QED
        BY <4>1 DEF HeldFor, Spent, Answered, Queued, Recorded, Terminal, Verdict
    <3> QED
      BY <3>1, <3>2
  <2> QED
    BY <1>1, <2>1, OtherSteps DEF CallsFit
<1> QED
  BY <1>1, MailFits

\* A sender leaves a settled message as it is.
LEMMA MailLeaves ==
  ASSUME IInv, MailNext, NEW d \in Delivery, Terminal(d)
  PROVE  entry'[d] = entry[d]
<1>1. entry \in [Delivery -> Sort]
  BY Types
<1>2. ASSUME NEW x \in Delivery, Open(x) \/ Hold(x) \/ Sent(x) \/ Fail(x)
      PROVE  entry'[d] = entry[d]
  <2>1. /\ entry[x].status \in {"none", "queued"}
        /\ \E s, h, n, i : Becomes(x, s, h, n, i)
    BY <1>2 DEF Open, Hold, Fail, Sent, Queued
  <2> QED
    BY <1>1, <2>1 DEF Becomes, Terminal
<1>3. ASSUME NEW D \in SUBSET Delivery, Drop(D) PROVE entry'[d] = entry[d]
  BY <1>3 DEF Drop, Queued, Terminal
<1> QED
  BY <1>2, <1>3 DEF MailNext, Accept, HangUp, AcceptLate

LEMMA MissedStays ==
  ASSUME IInv, [Next]_vars, NEW receipt \in Accepted, Missed(receipt)
  PROVE  Missed(receipt)'
<1> DEFINE d == receipt[1]
<1>1. d \in Delivery
  BY ReceiptMeans
<1>2. abandoned \subseteq abandoned'
  <2>1. CASE Mail
    BY <2>1 DEF Mail, MailNext, Open, Hold, Sent, Fail, Accept, HangUp, AcceptLate, Drop
  <2> QED
    BY <2>1, OtherSteps
<1>3. CASE receipt \in abandoned
  BY <1>2, <1>3 DEF Missed
<1>4. CASE Terminal(d) /\ ~Recorded(receipt)
  <2>1. CASE entry'[d] = entry[d]
    BY <1>4, <2>1 DEF Missed, Terminal, Recorded
  <2>2. CASE Mail
    BY <1>1, <1>4, <2>1, <2>2, MailLeaves DEF Mail
  <2>3. ASSUME NEW r \in Request, Mark(r), entry'[d] # entry[d] PROVE Missed(receipt)'
    <3>1. /\ entry[d].status \in {"sent"} \cup Verdict
          /\ entry'[d].status \in {"sent"} \cup Verdict /\ entry'[d].id = entry[d].id
      BY <1>1, <2>3, MarkWrites
    <3> QED
      BY <1>4, <3>1 DEF Missed, Terminal, Recorded, Verdict
  <2> QED
    BY <2>1, <2>2, <2>3, OtherSteps
<1> QED
  BY <1>3, <1>4 DEF Missed

LEMMA HistoryGrows ==
  ASSUME IInv, [Next]_vars
  PROVE  late \subseteq late' /\ \A e \in Event : about[e] # None => about'[e] = about[e]
<1>1. late \subseteq late'
  <2>1. CASE Mail
    BY <2>1 DEF Mail
  <2> QED
    BY <2>1, OtherSteps
<1>2. CASE \E f \in Event : Arise(f)
  BY <1>2, Types DEF Arise
<1>3. CASE ~\E f \in Event : Arise(f)
  <2>1. UNCHANGED about
    BY <1>3 DEF Next, Mail, Step, Arise, Receive, InFlight, Claim, Process, Mark, Reread, Finish,
           Answer, Stop, mailgun, vars
  <2> QED
    BY <1>1, <2>1
<1> QED
  BY <1>1, <1>2, <1>3

LEMMA RequestMoves ==
  ASSUME IInv, [Next]_vars, NEW q \in Request, pc'[q] \in {"inflight", "claim"}
  PROVE  \/ pc'[q] = pc[q] /\ event'[q] = event[q] /\ found'[q] = found[q]
         \/ \E e \in Event : Receive(q, e)
         \/ InFlight(q) /\ pc'[q] = "claim"
<1>1. CASE Mail \/ (\E e \in Event : Arise(e)) \/ UNCHANGED vars
  BY <1>1 DEF Mail, Arise, requests, vars
<1>2. ASSUME NEW r \in Request, NEW e \in Event, Receive(r, e)
      PROVE  r = q \/ (pc'[q] = pc[q] /\ event'[q] = event[q] /\ found'[q] = found[q])
  BY <1>2 DEF Receive
<1>3. ASSUME NEW r \in Request, Step(r) \/ Stop(r), r # q
      PROVE  pc'[q] = pc[q] /\ event'[q] = event[q] /\ found'[q] = found[q]
  <2>1. Leave(r) \/ \E p : Goto(r, p)
    BY <1>3 DEF Step, Stop, InFlight, Claim, Judge, Process, Mark, Reread, Finish, Answer
  <2> QED
    BY <1>3, <2>1, Types DEF Leave, Goto
<1>4. CASE Step(q) \/ Stop(q)
  <2>1. InFlight(q) \/ Leave(q) \/ \E p \in Place \ {"inflight", "claim"} : Goto(q, p)
    <3>1. CASE Claim(q)
      <4>1. pc[q] = "claim" /\ (Judge(q) \/ Leave(q) \/ Goto(q, "answer"))
        BY <3>1 DEF Claim
      <4> QED
        BY <4>1, JudgeMeans DEF Place
    <3> QED
      BY <1>4, <3>1 DEF Step, Stop, Process, Mark, Reread, Finish, Answer, Place
  <2>2. ~Leave(q)
    BY Types DEF Leave
  <2>3. ~\E p \in Place \ {"inflight", "claim"} : Goto(q, p)
    BY Types DEF Goto
  <2>4. InFlight(q) => pc'[q] = "claim"
    BY <2>2, Types DEF InFlight, Goto
  <2> QED
    BY <2>1, <2>2, <2>3, <2>4
<1> QED
  BY <1>1, <1>2, <1>3, <1>4 DEF Next

LEMMA LedgerMoves ==
  ASSUME IInv, [Next]_vars, NEW e \in Event, ledger'[e] # None
  PROVE  \/ ledger[e] # None /\ ledger'[e].delivery = ledger[e].delivery
         \/ \E r \in Request : /\ pc[r] = "claim" /\ event[r] = e
                               /\ ledger'[e].delivery = Match(r)
<1>1. CASE UNCHANGED ledger
  BY <1>1
<1>2. ASSUME NEW r \in Request, Claim(r), ~UNCHANGED ledger
      PROVE  \/ ledger[e] # None /\ ledger'[e].delivery = ledger[e].delivery
             \/ pc[r] = "claim" /\ event[r] = e /\ ledger'[e].delivery = Match(r)
  <2> DEFINE mine == [delivery |-> Match(r), outcome |-> None]
  <2>1. /\ pc[r] = "claim" /\ ledger' = [ledger EXCEPT ![event[r]] = mine]
    BY <1>2 DEF Claim
  <2>2. mine.delivery = Match(r)
    OBVIOUS
  <2> HIDE DEF mine
  <2> QED
    BY <2>1, <2>2, Types
<1>3. ASSUME NEW r \in Request, Finish(r)
      PROVE  ledger[e] # None /\ ledger'[e].delivery = ledger[e].delivery
  <2> DEFINE outcome == IF pc[r] = "finish" THEN Wanted(r) ELSE "ignored"
  <2>1. ledger' = Finished(event[r], outcome)
    BY <1>3 DEF Finish
  <2> HIDE DEF outcome
  <2>2. event[r] \in Event /\ ledger[event[r]] # None
    BY <1>3, EventMeans DEF Finish, IInv, RequestFits
  <2>3. CASE ledger[event[r]].outcome # None \/ event[r] # e
    BY <2>1, <2>2, <2>3, Types DEF Finished
  <2>4. CASE ledger[event[r]].outcome = None /\ event[r] = e
    <3>1. ledger[e] \in Entry
      BY <2>2, <2>4, Types
    <3>2. ledger'[e] = [ledger[e] EXCEPT !.outcome = outcome]
      BY <2>1, <2>2, <2>4, Types DEF Finished
    <3> QED
      BY <2>2, <2>4, <3>1, <3>2 DEF Entry
  <2> QED
    BY <2>3, <2>4
<1>4. \/ UNCHANGED ledger
      \/ \E r \in Request : Claim(r) \/ Finish(r)
  BY DEF Next, Mail, Step, Arise, Receive, InFlight, Process, Mark, Reread, Answer, Stop, vars
<1> QED
  BY <1>1, <1>2, <1>3, <1>4

LEMMA InFlightSettles ==
  ASSUME IInv, CallsFit, NothingOvertaken, NEW q \in Request, InFlight(q), pc'[q] = "claim",
         about[event[q]] \notin late
  PROVE  Missed(about[event[q]])
<1> DEFINE receipt == about[event[q]]
<1>1. pc[q] = "inflight" /\ pc[q] # "idle"
  BY DEF InFlight
<1>2. receipt \in accepted /\ receipt[1] \in Delivery
  BY <1>1, EventMeans, Bounds DEF IInv, EventsArose
<1>3. ~\E d \in Delivery : Queued(d) /\ entry[d].held
  BY Types DEF InFlight, Leave
<1>4. ~Recorded(receipt)
  BY <1>1 DEF NothingOvertaken
<1>5. receipt \in abandoned \/ Terminal(receipt[1])
  BY <1>2, <1>3 DEF CallsFit, Answered, HeldFor
<1> QED
  BY <1>4, <1>5 DEF Missed

LEMMA NothingOvertakenStays ==
  ASSUME IInv, CallsFit, NothingOvertaken, [Next]_vars, ~\E r \in Request : Overtaken(r)
  PROVE  NothingOvertaken'
<1>1. IInv'
  BY NextKeeps
<1>2. ASSUME NEW q \in Request, pc'[q] = "inflight"
      PROVE  found'[q] = None /\ ~Recorded(about[event[q]])'
  <2>1. CASE pc'[q] = pc[q] /\ event'[q] = event[q] /\ found'[q] = found[q]
    <3>1. PICK receipt : receipt = about[event[q]]
      OBVIOUS
    <3>2. event[q] \in Event /\ receipt \in Accepted /\ receipt \in accepted /\ receipt # None
      BY <1>2, <2>1, <3>1, EventMeans, Bounds DEF IInv, EventsArose
    <3>3. about'[event'[q]] = receipt
      BY <2>1, <3>1, <3>2, HistoryGrows
    <3>4. ~Recorded(receipt)'
      BY <1>2, <2>1, <3>1, <3>2 DEF NothingOvertaken, Overtaken
    <3>5. found'[q] = None
      BY <1>2, <2>1 DEF NothingOvertaken
    <3> QED
      BY <3>3, <3>4, <3>5 DEF Recorded
  <2>2. ASSUME NEW e \in Event, Receive(q, e)
        PROVE  found'[q] = None /\ ~Recorded(about[event[q]])'
    <3>1. /\ event'[q] = e /\ found'[q] = Lookup(about[e]) /\ UNCHANGED <<entry, about>>
          /\ pc'[q] = IF Recorded(about[e]) THEN "claim" ELSE "inflight"
      BY <2>2, Types DEF Receive, mailVars, mailgun
    <3>2. ~Recorded(about[e])
      BY <1>2, <3>1
    <3> QED
      BY <3>1, <3>2 DEF Lookup, Recorded
  <2> QED
    BY <1>2, <2>1, <2>2, RequestMoves
<1>3. ASSUME NEW q \in Request, pc'[q] = "claim", found'[q] = None,
             about'[event'[q]] \notin late'
      PROVE  Missed(about[event[q]])'
  <2>1. CASE \/ pc'[q] = pc[q] /\ event'[q] = event[q] /\ found'[q] = found[q]
             \/ InFlight(q)
    <3>1. PICK receipt : receipt = about[event[q]]
      OBVIOUS
    <3>2. event[q] \in Event /\ receipt \in Accepted /\ receipt # None
      BY <1>3, <2>1, <3>1, EventMeans, Bounds DEF InFlight
    <3>3. event'[q] = event[q]
      BY <1>3, <2>1, Types DEF InFlight, Leave, Goto
    <3>4. about'[event'[q]] = receipt /\ receipt \notin late
      BY <1>3, <3>1, <3>2, <3>3, HistoryGrows
    <3>5. Missed(receipt)
      BY <1>3, <2>1, <3>1, <3>4, InFlightSettles DEF NothingOvertaken
    <3>6. Missed(receipt)'
      BY <3>2, <3>5, MissedStays
    <3> QED
      BY <3>4, <3>6 DEF Missed, Recorded, Terminal
  <2>2. ~\E e \in Event : Receive(q, e)
    <3> SUFFICES ASSUME NEW e \in Event, Receive(q, e) PROVE FALSE
      OBVIOUS
    <3>1. /\ found'[q] = Lookup(about[e])
          /\ pc'[q] = IF Recorded(about[e]) THEN "claim" ELSE "inflight"
      BY Types DEF Receive
    <3>2. Recorded(about[e]) /\ about[e] \in Accepted
      <4>1. e \in posted /\ about[e] # None
        BY DEF Receive, IInv, EventsArose
      <4> QED
        BY <1>3, <3>1, <4>1, Types
    <3>3. Lookup(about[e]) \in Message
      BY <3>2, ReceiptMeans DEF Lookup, Recorded, Message, Status, SendStatus
    <3> QED
      BY <1>3, <3>1, <3>3, Bounds
  <2> QED
    BY <1>3, <2>1, <2>2, RequestMoves
<1>4. ASSUME NEW e \in Event, ledger'[e] # None, ledger'[e].delivery = None,
             about'[e] \notin late'
      PROVE  Missed(about[e])'
  <2>1. PICK receipt : receipt = about[e]
    OBVIOUS
  <2>2. CASE ledger[e] # None /\ ledger'[e].delivery = ledger[e].delivery
    <3>1. receipt \in Accepted /\ receipt # None
      BY <2>1, <2>2, Types, Bounds DEF IInv, EventsArose
    <3>2. about'[e] = receipt /\ receipt \notin late
      BY <1>4, <2>1, <3>1, HistoryGrows
    <3>3. Missed(receipt)
      BY <1>4, <2>1, <2>2, <3>2 DEF NothingOvertaken
    <3>4. Missed(receipt)'
      BY <3>1, <3>3, MissedStays
    <3> QED
      BY <3>2, <3>4 DEF Missed, Recorded, Terminal
  <2>3. ASSUME NEW r \in Request, pc[r] = "claim", event[r] = e, ledger'[e].delivery = Match(r)
        PROVE  Missed(about[e])'
    <3>1. receipt \in Accepted /\ receipt # None
      BY <2>1, <2>3, EventMeans, Bounds
    <3>2. about'[e] = receipt /\ receipt \notin late
      BY <1>4, <2>1, <3>1, HistoryGrows
    <3>3. found[r] = None
      BY <1>4, <2>3, EventMeans, Bounds DEF Match
    <3>4. Missed(receipt)
      BY <2>1, <2>3, <3>2, <3>3 DEF NothingOvertaken
    <3>5. Missed(receipt)'
      BY <3>1, <3>4, MissedStays
    <3> QED
      BY <3>2, <3>5 DEF Missed, Recorded, Terminal
  <2> QED
    BY <1>4, <2>2, <2>3, LedgerMoves
<1> QED
  BY <1>2, <1>3, <1>4 DEF NothingOvertaken

\* No event about a message that was recorded under its lease is dropped, for
\* any number of requests, events and senders, unless its send is recorded
\* between the two questions a request asks: what MCEmailFeedback_dropped finds
\* is the only way.
THEOREM NoneDroppedUnlessOvertaken ==
  Spec /\ [][~\E r \in Request : Overtaken(r)]_vars => []NoEventDropped
<1>1. Init => IInv /\ CallsFit /\ NothingOvertaken
  <2> SUFFICES ASSUME Init PROVE CallsFit /\ NothingOvertaken
    BY InitKeeps
  <2> QED
    BY DEF Init, MailInit, CallsFit, NothingOvertaken
<1>2. ASSUME IInv, CallsFit, NothingOvertaken, [Next]_vars,
             [~\E r \in Request : Overtaken(r)]_vars
      PROVE  IInv' /\ CallsFit' /\ NothingOvertaken'
  <2>1. CASE UNCHANGED vars
    <3>1. ~\E r \in Request : Overtaken(r)
      BY <2>1 DEF Overtaken, Recorded, vars, mailVars
    <3> QED
      BY <1>2, <3>1, NextKeeps, CallsStay, NothingOvertakenStays
  <2> QED
    BY <1>2, <2>1, NextKeeps, CallsStay, NothingOvertakenStays
<1>3. IInv /\ CallsFit /\ NothingOvertaken => NoEventDropped
  <2> SUFFICES ASSUME IInv, CallsFit, NothingOvertaken, NEW e \in Event, about[e] \notin late,
                      ledger[e] = [delivery |-> None, outcome |-> "ignored"]
               PROVE  ~Recorded(about[e])
    BY DEF NoEventDropped
  <2>1. ledger[e] # None
    BY Bounds DEF Entry, Outcome
  <2> QED
    BY <2>1 DEF NothingOvertaken, Missed, CallsFit, Spent
<1> QED
  BY <1>1, <1>2, <1>3, PTL DEF Spec
=============================================================================
