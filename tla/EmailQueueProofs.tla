-------------------------- MODULE EmailQueueProofs --------------------------
(***************************************************************************)
(* The safety properties of EmailQueue, and that it implements MailLog,    *)
(* for any messages and consumers, any budget of attempts and any lease    *)
(* that is longer than the provider's deadline.                            *)
(*                                                                         *)
(* All of it rests on two facts about a consumer: while it calls the       *)
(* provider the row is its own, with more left of the lease than of the    *)
(* deadline; and an acceptance that is not yet recorded is either in the   *)
(* hands of the consumer that holds the row, or was noted in unsaid.  The  *)
(* refinement needs a third: calls are told apart by their numbers, so that*)
(* a call which is waited for was not abandoned before, by anybody.        *)
(***************************************************************************)
EXTENDS EmailQueue, TLAPS

USE DEF provider

----------------------------------------------------------------------------
(* The inductive invariant *)

\* A consumer at work has a job, and past its claim an attempt of it.
InHand == \A c \in Consumer :
  /\ pc[c] # "idle" => job[c] # None
  /\ pc[c] \in {"call", "release", "sent", "fail"} => attempt[c] > 0

\* There is no row before its message; one that nobody holds has no lease,
\* and only a queued one is held.
RowsFit == \A d \in Delivery :
  /\ hand[d] = "none" => log[d] = None
  /\ log[d] # None =>
       /\ log[d].holder = None => log[d].lease = 0
       /\ log[d].status # "queued" => log[d].holder = None
       /\ log[d].status # "sent" => log[d].id = 0

\* Who calls the provider holds the row for longer than the call can last.
CallIsHeld == \A c \in Consumer :
  pc[c] = "call" => Fenced(c) /\ log[Of(c)].lease > timer[c]

\* Calls are covered by counted attempts.
Covered == \A d \in Delivery :
  /\ calls[d] <= MaxAttempts
  /\ log[d] = None => calls[d] = 0
  /\ log[d] # None => calls[d] <= log[d].attempts

\* A message whose sender was told is out of the consumers' reach.
ToldIsFailed == \A d \in told : Is(d, "failed") /\ calls[d] = 0

\* What a consumer will record was accepted.
AcceptedFirst == \A c \in Consumer : pc[c] = "sent" => Receipt(c) \in accepted

\* A consumer that is about to record a receipt, in time.
Bears(c, d, n) ==
  /\ pc[c] = "sent" /\ Of(c) = d /\ attempt[c] = n
  /\ Fenced(c) /\ log[d].lease > 0
Recorded(d, n) == Is(d, "sent") /\ log[d].id = n
NoneLost == \A d \in Delivery : \A n \in 1..MaxAttempts :
  d \notin unsaid /\ <<d, n>> \in accepted =>
    Recorded(d, n) \/ \E c \in Consumer : Bears(c, d, n)
SentIsAccepted == \A d \in Delivery : Is(d, "sent") => <<d, log[d].id>> \in accepted

\* The number of a call that is waited for, or was just accepted, is the count
\* of its row as long as its consumer holds that, and nobody has abandoned it.
AttemptFits(c) ==
  /\ log[Of(c)] # None /\ attempt[c] <= log[Of(c)].attempts
  /\ Fenced(c) => attempt[c] = log[Of(c)].attempts
  /\ Receipt(c) \notin abandoned
AtCall(c) == pc[c] \in {"call", "sent"}
Numbered ==
  /\ \A c \in Consumer : AtCall(c) => AttemptFits(c)
  /\ \A b, c \in Consumer :
       AtCall(b) /\ AtCall(c) /\ Receipt(b) = Receipt(c) => b = c
  /\ \A a \in abandoned : log[a[1]] # None /\ a[2] <= log[a[1]].attempts

IInv ==
  /\ TypeOK /\ InHand /\ RowsFit /\ CallIsHeld
  /\ Covered /\ ToldIsFailed
  /\ AcceptedFirst /\ NoneLost /\ SentIsAccepted

----------------------------------------------------------------------------
(* Rows *)

LEMMA Bounds ==
  /\ MaxAttempts \in Nat /\ MaxAttempts > 0 /\ MaxHandoffs \in Nat
  /\ Timeout \in Nat /\ Timeout > 0 /\ Lease \in Nat /\ Timeout < Lease
  /\ None \notin Consumer /\ None \notin Row /\ None \notin Job
BY EmailQueueAssumption, RowsAssumption

LEMMA NewRow ==
  [status |-> "queued", attempts |-> 0, holder |-> None, lease |-> 0, id |-> 0] \in Row
BY Bounds DEF Row, Status

LEMMA OneMoreFits ==
  ASSUME NEW n \in 0..(MaxAttempts + 1)
  PROVE  /\ OneMore(n) \in 0..(MaxAttempts + 1)
         /\ InBudget(OneMore(n)) => OneMore(n) = n + 1 /\ OneMore(n) \in 1..MaxAttempts
         /\ n <= OneMore(n)
BY Bounds DEF OneMore, InBudget

LEMMA ClaimedRow ==
  ASSUME NEW r \in Row, NEW c \in Consumer
  PROVE  LET q == Claimed(r, c) IN
         /\ q \in Row /\ q.status = r.status /\ q.id = r.id
         /\ q.attempts = OneMore(r.attempts) /\ q.holder = c /\ q.lease = Lease
<1>1. OneMore(r.attempts) \in 0..(MaxAttempts + 1) /\ Lease \in 0..Lease
  BY OneMoreFits, Bounds DEF Row
<1> QED
  BY <1>1 DEF Claimed, Row

LEMMA LetGoRow ==
  ASSUME NEW r \in Row
  PROVE  LET q == LetGo(r) IN
         /\ q \in Row /\ q.status = r.status /\ q.id = r.id
         /\ q.attempts = r.attempts /\ q.holder = None /\ q.lease = 0
<1>1. 0 \in 0..Lease
  BY Bounds
<1> QED
  BY <1>1 DEF LetGo, Row

LEMMA SentRow ==
  ASSUME NEW r \in Row, NEW n \in 0..MaxAttempts
  PROVE  LET q == SentAs(r, n) IN
         /\ q \in Row /\ q.status = "sent" /\ q.id = n
         /\ q.attempts = r.attempts /\ q.holder = None /\ q.lease = 0
<1> DEFINE s == LetGo(r)
<1>1. /\ s \in Row /\ s.attempts = r.attempts /\ s.holder = None /\ s.lease = 0
  BY LetGoRow
<1>2. SentAs(r, n) = [s EXCEPT !.status = "sent", !.id = n]
  BY DEF SentAs
<1> HIDE DEF s
<1> QED
  BY <1>1, <1>2 DEF Row, Status

LEMMA GivenUpRow ==
  ASSUME NEW r \in Row
  PROVE  LET q == GivenUp(r) IN
         /\ q \in Row /\ q.status = "failed" /\ q.id = r.id
         /\ q.attempts = r.attempts /\ q.holder = None /\ q.lease = 0
<1> DEFINE s == LetGo(r)
<1>1. /\ s \in Row /\ s.attempts = r.attempts /\ s.holder = None /\ s.lease = 0
      /\ s.id = r.id
  BY LetGoRow
<1>2. GivenUp(r) = [s EXCEPT !.status = "failed"]
  BY DEF GivenUp
<1> HIDE DEF s
<1> QED
  BY <1>1, <1>2 DEF Row, Status

LEMMA AgedRow ==
  ASSUME NEW r \in Row
  PROVE  LET q == Aged(r) IN
         /\ q \in Row /\ q.status = r.status /\ q.id = r.id
         /\ q.attempts = r.attempts /\ q.holder = r.holder
         /\ q.lease = Less(r.lease)
<1>1. Less(r.lease) \in 0..Lease
  BY Bounds DEF Row, Less
<1> QED
  BY <1>1 DEF Aged, Row

LEMMA OfConsumer ==
  ASSUME TypeOK, InHand, NEW c \in Consumer, pc[c] # "idle"
  PROVE  job[c] \in Job /\ Of(c) \in Delivery
BY DEF TypeOK, InHand, Job, Of

----------------------------------------------------------------------------
(* Types *)

LEMMA InitType == Init => TypeOK
BY Bounds DEF Init, TypeOK, Place

LEMMA ProduceType ==
  ASSUME TypeOK, NEW d \in Delivery, Produce(d) \/ Abandon(d) PROVE TypeOK'
<1>1. CASE Record(d)
  BY <1>1, NewRow DEF TypeOK, Record, consumer, history
<1>2. CASE HandOff(d)
  <2>1. handed[d] + 1 \in 1..MaxHandoffs /\ <<d, handed[d] + 1>> \in Job
    BY <1>2, Bounds DEF TypeOK, HandOff, Job
  <2>2. queue' \subseteq Job /\ handed' \in [Delivery -> 0..MaxHandoffs]
    BY <1>2, <2>1 DEF TypeOK, HandOff
  <2>3. hand' \in [Delivery -> {"none", "fresh", "persisted", "thrown", "done", "gone"}]
    BY <1>2 DEF TypeOK, HandOff
  <2> QED
    BY <1>2, <2>2, <2>3 DEF TypeOK, HandOff, consumer, history
<1>3. CASE QueueFailed(d)
  <2>1. log' \in [Delivery -> Row \cup {None}]
    BY <1>3, Bounds DEF TypeOK, QueueFailed, Untouched, Is, Row, Status
  <2> QED
    BY <1>3, <2>1 DEF TypeOK, QueueFailed, consumer
<1>4. CASE Abandon(d)
  BY <1>4 DEF TypeOK, Abandon, consumer, history
<1> QED
  BY <1>1, <1>2, <1>3, <1>4 DEF Produce

LEMMA ConsumerType ==
  ASSUME TypeOK, InHand, NEW c \in Consumer,
         (\E j \in Job : Take(c, j)) \/ Step(c) \/ Stop(c)
  PROVE  TypeOK'
<1>1. ASSUME NEW j \in Job, Take(c, j) PROVE TypeOK'
  BY <1>1 DEF TypeOK, Take, Goto, Place, producer, history
<1>2. CASE Claim(c)
  <2> DEFINE d == Of(c)
  <2>1. d \in Delivery
    BY <1>2, OfConsumer DEF Claim
  <2>2. CASE Claimable(d)
    <3>1. log[d] \in Row
      BY <2>1, <2>2 DEF TypeOK, Claimable, Is
    <3>2. log' = [log EXCEPT ![d] = Claimed(log[d], c)]
      BY <1>2, <2>2 DEF Claim
    <3>3. log' \in [Delivery -> Row \cup {None}]
      BY <2>1, <3>1, <3>2, ClaimedRow DEF TypeOK
    <3>4. log[d].attempts \in 0..(MaxAttempts + 1)
      BY <3>1 DEF Row
    <3>5. /\ pc' \in [Consumer -> Place]
          /\ attempt' \in [Consumer -> 0..MaxAttempts]
          /\ timer' \in [Consumer -> 0..Timeout] /\ calls' \in [Delivery -> Nat]
      <4>1. CASE InBudget(OneMore(log[d].attempts))
        <5>1. /\ pc' = [pc EXCEPT ![c] = "call"]
              /\ attempt' = [attempt EXCEPT ![c] = OneMore(log[d].attempts)]
              /\ timer' = [timer EXCEPT ![c] = Timeout]
              /\ calls' = [calls EXCEPT ![d] = calls[d] + 1]
          BY <1>2, <2>2, <4>1 DEF Claim, Goto
        <5>2. OneMore(log[d].attempts) \in 0..MaxAttempts /\ Timeout \in 0..Timeout
          BY <4>1, <3>4, OneMoreFits, Bounds
        <5> QED
          BY <5>1, <5>2, <2>1 DEF TypeOK, Place
      <4>2. CASE ~InBudget(OneMore(log[d].attempts))
        BY <1>2, <2>2, <4>2 DEF Claim, Goto, TypeOK, Place
      <4> QED
        BY <4>1, <4>2
    <3> QED
      BY <1>2, <3>3, <3>5 DEF TypeOK, Claim, producer
  <2>3. CASE ~Claimable(d)
    BY <1>2, <2>3 DEF TypeOK, Claim, Goto, Place, producer
  <2> QED
    BY <2>2, <2>3
<1>3. CASE Answer(c)
  <2>1. Receipt(c) \in Accepted /\ Of(c) \in Delivery
    BY <1>3, OfConsumer, Bounds DEF TypeOK, InHand, Answer, Accepted, Receipt
  <2>2. /\ accepted' \subseteq Accepted /\ abandoned' \subseteq Accepted
        /\ pc' \in [Consumer -> Place]
    BY <1>3, <2>1 DEF TypeOK, Answer, Goto, Place
  <2>3. timer' \in [Consumer -> 0..Timeout]
    BY <1>3, Bounds DEF TypeOK, Answer
  <2> QED
    BY <1>3, <2>2, <2>3 DEF TypeOK, Answer, producer, history
<1>4. CASE Release(c)
  <2>1. Of(c) \in Delivery
    BY <1>4, OfConsumer DEF Release
  <2>2. log' \in [Delivery -> Row \cup {None}]
    <3>1. CASE Fenced(c)
      <4>1. log[Of(c)] \in Row
        BY <2>1, <3>1 DEF TypeOK, Fenced, Is
      <4>2. LetGo(log[Of(c)]) \in Row
        BY <4>1, LetGoRow
      <4> QED
        BY <1>4, <2>1, <3>1, <4>2 DEF TypeOK, Release
    <3>2. CASE ~Fenced(c)
      BY <1>4, <3>2 DEF TypeOK, Release
    <3> QED
      BY <3>1, <3>2
  <2> QED
    BY <1>4, <2>2 DEF TypeOK, Release, Goto, Place, producer, history
<1>5. CASE Settle(c)
  <2>1. Of(c) \in Delivery /\ attempt[c] \in 0..MaxAttempts
    BY <1>5, OfConsumer DEF Settle, TypeOK
  <2>2. log' \in [Delivery -> Row \cup {None}]
    <3>1. CASE Fenced(c)
      <4>1. log[Of(c)] \in Row
        BY <2>1, <3>1 DEF TypeOK, Fenced, Is
      <4>2. /\ SentAs(log[Of(c)], attempt[c]) \in Row
            /\ GivenUp(log[Of(c)]) \in Row
        BY <2>1, <4>1, SentRow, GivenUpRow
      <4> QED
        BY <1>5, <2>1, <3>1, <4>2 DEF TypeOK, Settle
    <3>2. CASE ~Fenced(c)
      BY <1>5, <3>2 DEF TypeOK, Settle
    <3> QED
      BY <3>1, <3>2
  <2> QED
    BY <1>5, <2>2 DEF TypeOK, Settle, Goto, Place, producer, history
<1>6. CASE Ack(c)
  BY <1>6 DEF TypeOK, Ack, Goto, Place, producer, history
<1>7. CASE Stop(c)
  <2>1. Of(c) \in Delivery /\ (pc[c] = "call" => Receipt(c) \in Accepted)
    BY <1>7, OfConsumer, Bounds DEF TypeOK, InHand, Stop, Accepted, Receipt
  <2>2. abandoned' \subseteq Accepted /\ unsaid' \subseteq Delivery
    BY <1>7, <2>1 DEF TypeOK, Stop
  <2>3. timer' \in [Consumer -> 0..Timeout] /\ faults' \in Nat
    BY <1>7, Bounds DEF TypeOK, Stop
  <2> QED
    BY <1>7, <2>2, <2>3 DEF TypeOK, Stop, Goto, Place, producer
<1> QED
  BY <1>1, <1>2, <1>3, <1>4, <1>5, <1>6, <1>7 DEF Step

LEMMA AcceptLateType ==
  ASSUME TypeOK, NEW a \in Accepted, AcceptLate(a) PROVE TypeOK'
<1>1. accepted' \subseteq Accepted /\ unsaid' \subseteq Delivery
  BY DEF TypeOK, AcceptLate, Accepted
<1> QED
  BY <1>1 DEF TypeOK, AcceptLate, producer, consumer

LEMMA TickRow ==
  ASSUME TypeOK, Tick, NEW d \in Delivery
  PROVE  /\ log[d] = None => log'[d] = None
         /\ log[d] # None => /\ log[d] \in Row /\ log'[d] \in Row /\ log'[d] # None
                             /\ log'[d].status = log[d].status /\ log'[d].id = log[d].id
                             /\ log'[d].attempts = log[d].attempts
                             /\ log'[d].holder = log[d].holder
                             /\ log'[d].lease = Less(log[d].lease)
<1>1. log[d] # None => log[d] \in Row /\ log'[d] = Aged(log[d])
  BY DEF TypeOK, Tick
<1>2. log[d] # None => log'[d] \in Row
  BY <1>1, AgedRow
<1> QED
  BY <1>1, <1>2, AgedRow, Bounds DEF Tick

LEMMA TickType == ASSUME TypeOK, Tick PROVE TypeOK'
<1>1. log' \in [Delivery -> Row \cup {None}]
  BY TickRow DEF TypeOK, Tick
<1>2. timer' \in [Consumer -> 0..Timeout]
  BY Bounds DEF TypeOK, Tick, Less
<1> QED
  BY <1>1, <1>2 DEF TypeOK, Tick, producer

----------------------------------------------------------------------------
(* The inductive invariant holds at first, and every step keeps it *)

LEMMA InitInv == Init => IInv
<1> SUFFICES ASSUME Init PROVE IInv
  OBVIOUS
<1>1. TypeOK
  BY InitType
<1> QED
  BY <1>1, Bounds DEF Init, IInv, InHand, RowsFit, CallIsHeld, Covered, ToldIsFailed,
                      AcceptedFirst, NoneLost, SentIsAccepted, Is

\* A step that leaves the log, the consumers and what was accepted alone.
LEMMA AsideKeeps ==
  ASSUME IInv, TypeOK', UNCHANGED <<log, consumer, provider, history>>,
         \A d \in Delivery : hand'[d] = "none" => hand[d] = "none"
  PROVE  IInv'
<1>1. InHand' /\ RowsFit' /\ CallIsHeld' /\ AcceptedFirst'
  BY DEF IInv, InHand, RowsFit, CallIsHeld, AcceptedFirst, consumer,
         Fenced, Is, Of, Receipt
<1>2. Covered' /\ ToldIsFailed' /\ SentIsAccepted'
  BY DEF IInv, Covered, ToldIsFailed, SentIsAccepted, history, Is
<1>3. NoneLost'
  BY DEF IInv, NoneLost, Recorded, Bears, consumer, history, Fenced, Is, Of
<1> QED
  BY <1>1, <1>2, <1>3 DEF IInv

LEMMA RecordKeeps == ASSUME IInv, NEW d \in Delivery, Record(d) PROVE IInv'
<1> DEFINE r == [status |-> "queued", attempts |-> 0, holder |-> None,
                 lease |-> 0, id |-> 0]
<1>1. TypeOK'
  BY ProduceType DEF IInv, Produce
<1>2. /\ log[d] = None /\ log'[d] = r /\ hand'[d] # "none"
      /\ \A e \in Delivery \ {d} : log'[e] = log[e] /\ hand'[e] = hand[e]
      /\ UNCHANGED <<consumer, accepted, history>>
  BY DEF IInv, TypeOK, RowsFit, Record
<1>3. r # None
  BY NewRow, Bounds
<1>4. \A c \in Consumer : Fenced(c)  /\ Of(c) \in Delivery => Of(c) # d
  BY <1>2 DEF Fenced, Is
<1>5. \A c \in Consumer : pc[c] # "idle" => Of(c) \in Delivery
  BY OfConsumer DEF IInv
<1> HIDE DEF r
<1>6. InHand' /\ AcceptedFirst'
  BY <1>2 DEF IInv, InHand, AcceptedFirst, consumer, Of, Receipt
<1>7. RowsFit'
  BY <1>2, <1>3 DEF IInv, RowsFit, r
<1>8. CallIsHeld'
  BY <1>2, <1>4, <1>5 DEF IInv, CallIsHeld, consumer, Fenced, Is, Of
<1>9. Covered' /\ ToldIsFailed' /\ SentIsAccepted'
  BY <1>2, <1>3, Bounds DEF IInv, TypeOK, Covered, ToldIsFailed, SentIsAccepted,
                            history, Is, r
<1>10. NoneLost'
  <2> SUFFICES ASSUME NEW e \in Delivery, NEW n \in 1..MaxAttempts,
                      e \notin unsaid, <<e, n>> \in accepted
               PROVE  Recorded(e, n)' \/ \E c \in Consumer : Bears(c, e, n)'
    BY <1>2 DEF NoneLost, history
  <2>1. Recorded(e, n) \/ \E c \in Consumer : Bears(c, e, n)
    BY DEF IInv, NoneLost
  <2>2. e # d
    BY <1>2, <2>1 DEF Recorded, Bears, Fenced, Is
  <2> QED
    BY <1>2, <2>1, <2>2 DEF Recorded, Bears, consumer, Fenced, Is, Of
<1> QED
  BY <1>1, <1>6, <1>7, <1>8, <1>9, <1>10 DEF IInv

LEMMA QueueFailedKeeps ==
  ASSUME IInv, NEW d \in Delivery, QueueFailed(d) PROVE IInv'
<1>1. TypeOK'
  BY ProduceType DEF IInv, Produce
<1>2. CASE ~Untouched(d)
  <2>1. UNCHANGED <<log, consumer, provider, history>>
    BY <1>2 DEF QueueFailed, history
  <2>2. \A e \in Delivery : hand'[e] = "none" => hand[e] = "none"
    BY DEF QueueFailed, IInv, TypeOK
  <2> QED
    BY <1>1, <2>1, <2>2, AsideKeeps
<1>3. CASE Untouched(d)
  <2>1. /\ Is(d, "queued") /\ log[d].attempts = 0 /\ log[d].holder = None
        /\ log[d] \in Row
    BY <1>3 DEF Untouched, Is, IInv, TypeOK
  <2>2. /\ log'[d] = [log[d] EXCEPT !.status = "failed"]
        /\ \A e \in Delivery \ {d} : log'[e] = log[e]
        /\ \A e \in Delivery : hand'[e] = "none" => hand[e] = "none"
        /\ hand'[d] # "none"
        /\ told' = told \cup {d}
        /\ UNCHANGED <<consumer, accepted, calls, unsaid>>
    BY <1>3 DEF QueueFailed, IInv, TypeOK
  <2>3. /\ log'[d].status = "failed" /\ log'[d].attempts = 0 /\ log'[d].holder = None
        /\ log'[d].lease = log[d].lease /\ log'[d].id = log[d].id
    BY <2>1, <2>2 DEF Row
  <2>4. log'[d] # None
    <3>1. log'[d] \in Row
      BY <2>1, <2>2 DEF Row, Status
    <3> QED
      BY <3>1, Bounds
  <2>5. calls[d] = 0
    BY <2>1, Bounds DEF IInv, TypeOK, Covered, Is
  <2>6. \A c \in Consumer : Fenced(c) => Of(c) # d
    BY <2>1, Bounds DEF Fenced
  <2>7. \A c \in Consumer : pc[c] # "idle" => Of(c) \in Delivery
    BY OfConsumer DEF IInv
  <2>8. InHand' /\ AcceptedFirst'
    BY <2>2 DEF IInv, InHand, AcceptedFirst, consumer, Of, Receipt
  <2>9. RowsFit'
    BY <2>1, <2>2, <2>3, <2>4, ZenonT(60) DEF IInv, RowsFit, Is
  <2>10. CallIsHeld'
    BY <2>2, <2>6, <2>7 DEF IInv, CallIsHeld, consumer, Fenced, Is, Of
  <2>11. Covered'
    <3>1. calls'[d] = 0 /\ 0 <= MaxAttempts
      BY <2>2, <2>5, Bounds
    <3>2. 0 <= log'[d].attempts
      BY <2>3
    <3>3. ASSUME NEW e \in Delivery \ {d}
          PROVE  log'[e] = log[e] /\ calls'[e] = calls[e]
      BY <2>2
    <3> QED
      BY <2>4, <3>1, <3>2, <3>3 DEF IInv, Covered
  <2>14. ToldIsFailed'
    BY <2>2, <2>3, <2>4, <2>5, ZenonT(60) DEF IInv, TypeOK, ToldIsFailed, Is
  <2>13. SentIsAccepted'
    BY <2>2, <2>3 DEF IInv, SentIsAccepted, Is
  <2>12. NoneLost'
    <3> SUFFICES ASSUME NEW e \in Delivery, NEW n \in 1..MaxAttempts,
                        e \notin unsaid, <<e, n>> \in accepted
                 PROVE  Recorded(e, n)' \/ \E c \in Consumer : Bears(c, e, n)'
      BY <2>2 DEF NoneLost
    <3>1. Recorded(e, n) \/ \E c \in Consumer : Bears(c, e, n)
      BY DEF IInv, NoneLost
    <3>2. e # d
      BY <2>1, <2>6, <3>1 DEF Recorded, Bears, Is
    <3> QED
      BY <2>2, <3>1, <3>2 DEF Recorded, Bears, consumer, Fenced, Is, Of
  <2> QED
    BY <1>1, <2>8, <2>9, <2>10, <2>11, <2>12, <2>13, <2>14 DEF IInv
<1> QED
  BY <1>2, <1>3

\* What a consumer holds, nobody else holds.
LEMMA FencedApart ==
  ASSUME NEW b \in Consumer, NEW c \in Consumer, Fenced(b), Fenced(c), Of(b) = Of(c)
  PROVE  b = c
BY DEF Fenced

LEMMA AtWork ==
  ASSUME IInv, NEW c \in Consumer, pc[c] # "idle"
  PROVE  Of(c) \in Delivery /\ (log[Of(c)] # None => log[Of(c)] \in Row)
BY OfConsumer DEF IInv, TypeOK

LEMMA TakeKeeps ==
  ASSUME IInv, NEW c \in Consumer, NEW j \in Job, Take(c, j) PROVE IInv'
<1>1. TypeOK'
  BY ConsumerType DEF IInv
<1>2. /\ pc[c] = "idle" /\ pc'[c] = "claim" /\ job'[c] = j
      /\ \A b \in Consumer \ {c} : pc'[b] = pc[b] /\ job'[b] = job[b]
      /\ UNCHANGED <<log, hand, attempt, timer, accepted, history>>
  BY DEF Take, Goto, IInv, TypeOK, producer
<1>3. \A b \in Consumer \ {c} : Of(b)' = Of(b) /\ Receipt(b)' = Receipt(b)
                              /\ (Fenced(b)' <=> Fenced(b))
  BY <1>2 DEF Of, Receipt, Fenced, Is
<1>4. InHand'
  BY <1>2, Bounds DEF IInv, InHand
<1>5. RowsFit' /\ Covered' /\ ToldIsFailed' /\ SentIsAccepted'
  BY <1>2 DEF IInv, RowsFit, Covered, ToldIsFailed, SentIsAccepted, history, Is
<1>6. CallIsHeld' /\ AcceptedFirst'
  BY <1>2, <1>3 DEF IInv, CallIsHeld, AcceptedFirst
<1>7. NoneLost'
  BY <1>2, <1>3 DEF IInv, NoneLost, Recorded, Bears, history, Is
<1> QED
  BY <1>1, <1>4, <1>5, <1>6, <1>7 DEF IInv

LEMMA ClaimKeeps == ASSUME IInv, NEW c \in Consumer, Claim(c) PROVE IInv'
<1> DEFINE d == Of(c)
           q == Claimed(log[d], c)
<1>1. TypeOK'
  BY ConsumerType DEF IInv, Step
<1>2. d \in Delivery /\ pc[c] = "claim"
  BY AtWork DEF Claim
<1>3. \A b \in Consumer : Of(b)' = Of(b)
  BY DEF Claim, Of
<1>4. CASE ~Claimable(d)
  <2>1. /\ pc'[c] \in {"idle", "ack"}
        /\ \A b \in Consumer \ {c} : pc'[b] = pc[b]
        /\ UNCHANGED <<log, hand, job, attempt, timer, accepted, history>>
    BY <1>2, <1>4 DEF Claim, Goto, IInv, TypeOK, producer, history
  <2>2. \A b \in Consumer : (Fenced(b)' <=> Fenced(b)) /\ Receipt(b)' = Receipt(b)
    BY <1>3, <2>1 DEF Fenced, Is, Receipt
  <2>3. InHand' /\ CallIsHeld' /\ AcceptedFirst'
    BY <1>2, <1>3, <2>1, <2>2 DEF IInv, InHand, CallIsHeld, AcceptedFirst
  <2>4. RowsFit' /\ Covered' /\ ToldIsFailed' /\ SentIsAccepted'
    BY <2>1 DEF IInv, RowsFit, Covered, ToldIsFailed, SentIsAccepted, history, Is
  <2>5. NoneLost'
    BY <1>2, <1>3, <2>1, <2>2 DEF IInv, NoneLost, Recorded, Bears, history, Is
  <2> QED
    BY <1>1, <2>3, <2>4, <2>5 DEF IInv
<1>5. CASE Claimable(d)
  <2>1. log[d] \in Row /\ log[d].status = "queued" /\ log[d].id = 0
        /\ log[d].attempts \in 0..(MaxAttempts + 1)
    BY <1>2, <1>5, AtWork DEF Claimable, Is, Row, IInv, RowsFit
  <2>2. /\ q \in Row /\ q.status = "queued" /\ q.id = 0
        /\ q.attempts = OneMore(log[d].attempts) /\ q.holder = c /\ q.lease = Lease
    BY <2>1, ClaimedRow
  <2>3. q # None
    BY <2>2, Bounds
  <2>4. /\ log'[d] = q /\ \A e \in Delivery \ {d} : log'[e] = log[e]
        /\ UNCHANGED <<hand, job, accepted, told, unsaid>>
    BY <1>2, <1>5 DEF Claim, IInv, TypeOK, producer
  <2>5. \A b \in Consumer \ {c} :
          /\ pc'[b] = pc[b] /\ attempt'[b] = attempt[b] /\ timer'[b] = timer[b]
          /\ Receipt(b)' = Receipt(b)
    BY <1>2, <1>3, <1>5 DEF Claim, Goto, IInv, TypeOK, Receipt
  <2> HIDE DEF q
  <2>6. pc'[c] \in {"call", "idle"}
    BY <1>2, <1>5 DEF Claim, Goto, IInv, TypeOK
  <2>7. pc'[c] = "call" =>
          /\ attempt'[c] = OneMore(log[d].attempts) /\ attempt'[c] \in 1..MaxAttempts
          /\ timer'[c] = Timeout /\ calls' = [calls EXCEPT ![d] = calls[d] + 1]
          /\ OneMore(log[d].attempts) = log[d].attempts + 1
    <3>1. pc'[c] = "call" => InBudget(OneMore(log[d].attempts))
      BY <1>2, <1>5 DEF Claim, Goto, IInv, TypeOK
    <3>2. ASSUME InBudget(OneMore(log[d].attempts))
          PROVE  /\ attempt'[c] = OneMore(log[d].attempts)
                 /\ timer'[c] = Timeout /\ calls' = [calls EXCEPT ![d] = calls[d] + 1]
      BY <1>2, <1>5, <3>2 DEF Claim, IInv, TypeOK
    <3> QED
      BY <2>1, <3>1, <3>2, OneMoreFits
  <2>8. pc'[c] = "idle" => calls' = calls
    BY <1>2, <1>5 DEF Claim, Goto, IInv, TypeOK
  <2>9. \A b \in Consumer : Fenced(b) /\ Of(b) = d => log[d].lease = 0
    BY <1>5, Bounds DEF Claimable, Fenced, Is
  <2>10. \A b \in Consumer \ {c} :
           /\ Of(b) # d /\ Of(b) \in Delivery => (Fenced(b)' <=> Fenced(b))
           /\ pc[b] = "call" => Of(b) \in Delivery /\ Of(b) # d
    <3>1. ASSUME NEW b \in Consumer, pc[b] = "call" PROVE Of(b) # d
      BY <2>1, <2>9, <3>1, Bounds DEF IInv, TypeOK, CallIsHeld, Row
    <3> QED
      BY <1>3, <2>4, <3>1, AtWork DEF Fenced, Is
  <2>11. InHand'
    BY <2>4, <2>5, <2>6, <2>7, <1>2 DEF IInv, InHand
  <2>12. RowsFit'
    BY <2>2, <2>3, <2>4, Bounds, <2>1 DEF IInv, RowsFit
  <2>13. CallIsHeld'
    <3>1. pc'[c] = "call" => Fenced(c)' /\ log'[Of(c)'].lease > timer'[c]
      BY <1>3, <2>2, <2>3, <2>4, <2>7, Bounds DEF Fenced, Is
    <3>2. ASSUME NEW b \in Consumer \ {c}, pc'[b] = "call"
          PROVE  Fenced(b)' /\ log'[Of(b)'].lease > timer'[b]
      BY <1>3, <2>4, <2>5, <2>10, <3>2 DEF IInv, CallIsHeld
    <3> QED
      BY <3>1, <3>2 DEF CallIsHeld
  <2>14. Covered'
    <3>1. /\ calls'[d] <= MaxAttempts /\ calls'[d] <= q.attempts
      BY <1>2, <2>1, <2>2, <2>6, <2>7, <2>8, OneMoreFits, Bounds
         DEF IInv, TypeOK, Covered
    <3>2. \A e \in Delivery \ {d} : calls'[e] = calls[e]
      BY <2>6, <2>7, <2>8 DEF IInv, TypeOK
    <3> QED
      BY <2>3, <2>4, <3>1, <3>2 DEF IInv, Covered
  <2>15. ToldIsFailed'
    <3>1. \A e \in Delivery \ {d} : calls'[e] = calls[e]
      BY <2>6, <2>7, <2>8 DEF IInv, TypeOK
    <3> QED
      BY <2>1, <2>4, <3>1 DEF IInv, TypeOK, ToldIsFailed, Is
  <2>16. AcceptedFirst' /\ SentIsAccepted'
    BY <2>2, <2>4, <2>5, <2>6 DEF IInv, AcceptedFirst, SentIsAccepted, Is
  <2>17. NoneLost'
    <3> SUFFICES ASSUME NEW e \in Delivery, NEW n \in 1..MaxAttempts,
                        e \notin unsaid, <<e, n>> \in accepted
                 PROVE  Recorded(e, n)' \/ \E b \in Consumer : Bears(b, e, n)'
      BY <2>4 DEF NoneLost
    <3>1. Recorded(e, n) \/ \E b \in Consumer : Bears(b, e, n)
      BY DEF IInv, NoneLost
    <3>2. e # d
      BY <2>1, <2>9, <3>1 DEF Recorded, Bears, Is
    <3>3. CASE Recorded(e, n)
      BY <2>4, <3>2, <3>3 DEF Recorded, Is
    <3>4. ASSUME NEW b \in Consumer, Bears(b, e, n) PROVE Bears(b, e, n)'
      <4>1. b # c /\ Of(b) = e /\ Of(b) \in Delivery
        BY <1>2, <3>4 DEF Bears
      <4> QED
        BY <1>3, <2>4, <2>5, <2>10, <3>2, <3>4, <4>1 DEF Bears
    <3> QED
      BY <3>1, <3>3, <3>4
  <2> QED
    BY <1>1, <2>11, <2>12, <2>13, <2>14, <2>15, <2>16, <2>17 DEF IInv
<1> QED
  BY <1>4, <1>5

LEMMA AnswerKeeps == ASSUME IInv, NEW c \in Consumer, Answer(c) PROVE IInv'
<1> DEFINE d == Of(c)
<1>1. TypeOK'
  BY ConsumerType DEF IInv, Step
<1>2. /\ d \in Delivery /\ pc[c] = "call" /\ pc'[c] \in {"sent", "fail", "release"}
      /\ \A b \in Consumer \ {c} : pc'[b] = pc[b] /\ timer'[b] = timer[b]
      /\ UNCHANGED <<log, hand, job, attempt, history>>
  BY AtWork DEF Answer, Goto, IInv, TypeOK, producer, history
<1>3. \A b \in Consumer :
        Of(b)' = Of(b) /\ Receipt(b)' = Receipt(b) /\ (Fenced(b)' <=> Fenced(b))
  BY <1>2 DEF Of, Receipt, Fenced, Is
<1>4. Fenced(c) /\ log[d].lease > 0
  <2>1. Fenced(c) /\ log[d].lease > timer[c]
    BY <1>2 DEF IInv, CallIsHeld
  <2>2. log[d] \in Row /\ timer[c] \in Nat
    BY <1>2, <2>1 DEF IInv, TypeOK, Fenced, Is
  <2> QED
    BY <2>1, <2>2, Bounds DEF Row
<1>5. /\ accepted \subseteq accepted' /\ unsaid' = unsaid
      /\ accepted' \subseteq accepted \cup {Receipt(c)}
      /\ pc'[c] = "sent" => Receipt(c) \in accepted'
      /\ pc'[c] # "sent" => accepted' = accepted
  BY DEF Answer, Goto, IInv, TypeOK, history
<1>6. InHand' /\ RowsFit' /\ Covered' /\ ToldIsFailed'
  BY <1>2 DEF IInv, InHand, RowsFit, Covered, ToldIsFailed, Is, history
<1>7. CallIsHeld' /\ AcceptedFirst' /\ SentIsAccepted'
  BY <1>2, <1>3, <1>5
     DEF IInv, CallIsHeld, AcceptedFirst, SentIsAccepted, Is
<1>8. NoneLost'
  <2> SUFFICES ASSUME NEW e \in Delivery, NEW n \in 1..MaxAttempts,
                      e \notin unsaid', <<e, n>> \in accepted'
               PROVE  Recorded(e, n)' \/ \E b \in Consumer : Bears(b, e, n)'
    BY DEF NoneLost
  <2>1. CASE <<e, n>> \in accepted
    BY <1>2, <1>3, <1>5, <2>1 DEF IInv, NoneLost, Recorded, Bears, Is
  <2>2. CASE <<e, n>> \notin accepted
    <3>1. <<e, n>> = Receipt(c)
      BY <1>5, <2>2
    <3>2. e = d /\ n = attempt[c]
      BY <3>1 DEF Receipt
    <3>3. pc'[c] = "sent"
      BY <1>5, <2>2
    <3> QED
      BY <1>2, <1>3, <1>4, <3>2, <3>3 DEF Bears
  <2> QED
    BY <2>1, <2>2
<1> QED
  BY <1>1, <1>6, <1>7, <1>8 DEF IInv

LEMMA ReleaseKeeps == ASSUME IInv, NEW c \in Consumer, Release(c) PROVE IInv'
<1> DEFINE d == Of(c)
<1>1. TypeOK'
  BY ConsumerType DEF IInv, Step
<1>2. /\ d \in Delivery /\ pc[c] = "release" /\ pc'[c] = "idle"
      /\ \A b \in Consumer \ {c} : pc'[b] = pc[b]
      /\ \A e \in Delivery \ {d} : log'[e] = log[e]
      /\ UNCHANGED <<hand, job, attempt, timer, accepted, history>>
  BY AtWork DEF Release, Goto, IInv, TypeOK, producer
<1>3. \A b \in Consumer : Of(b)' = Of(b) /\ Receipt(b)' = Receipt(b)
  BY <1>2 DEF Of, Receipt
<1>4. \/ log'[d] = log[d]
      \/ /\ Fenced(c) /\ log[d] # None /\ log'[d] # None
         /\ log[d].status = "queued" /\ log'[d].status = "queued"
         /\ log'[d].attempts = log[d].attempts /\ log'[d].id = log[d].id
         /\ log'[d].holder = None /\ log'[d].lease = 0
  <2>1. CASE Fenced(c)
    <3>1. log[d] \in Row /\ log[d] # None /\ log[d].status = "queued"
      BY <1>2, <2>1 DEF IInv, TypeOK, Fenced, Is
    <3>2. log'[d] = LetGo(log[d])
      BY <1>2, <2>1 DEF Release, IInv, TypeOK
    <3> QED
      BY <2>1, <3>1, <3>2, LetGoRow, Bounds
  <2>2. CASE ~Fenced(c)
    BY <2>2 DEF Release
  <2> QED
    BY <2>1, <2>2
<1>5. \A b \in Consumer : pc[b] \in {"call", "sent"} /\ Fenced(b) =>
        /\ b # c /\ Fenced(b)' /\ log'[Of(b)] = log[Of(b)] /\ Of(b) \in Delivery
  <2> SUFFICES ASSUME NEW b \in Consumer, pc[b] \in {"call", "sent"}, Fenced(b)
               PROVE  b # c /\ Fenced(b)' /\ log'[Of(b)] = log[Of(b)] /\ Of(b) \in Delivery
    OBVIOUS
  <2>1. b # c /\ Of(b) \in Delivery
    BY <1>2, AtWork
  <2>2. log'[Of(b)] = log[Of(b)]
    BY <1>2, <1>4, <2>1, FencedApart
  <2> QED
    BY <1>3, <2>1, <2>2 DEF Fenced, Is
<1>6. InHand' /\ RowsFit'
  BY <1>2, <1>4 DEF IInv, InHand, RowsFit
<1>7. CallIsHeld' /\ AcceptedFirst'
  BY <1>2, <1>3, <1>5 DEF IInv, CallIsHeld, AcceptedFirst
<1>8. Covered' /\ ToldIsFailed' /\ SentIsAccepted'
  BY <1>2, <1>4 DEF IInv, TypeOK, Covered, ToldIsFailed, SentIsAccepted, Is, history
<1>9. NoneLost'
  <2> SUFFICES ASSUME NEW e \in Delivery, NEW n \in 1..MaxAttempts,
                      e \notin unsaid, <<e, n>> \in accepted
               PROVE  Recorded(e, n)' \/ \E b \in Consumer : Bears(b, e, n)'
    BY <1>2 DEF NoneLost, history
  <2>1. CASE Recorded(e, n)
    BY <1>2, <1>4, <2>1 DEF Recorded, Is
  <2>2. ASSUME NEW b \in Consumer, Bears(b, e, n) PROVE Bears(b, e, n)'
    BY <1>2, <1>3, <1>5, <2>2 DEF Bears
  <2> QED
    BY <2>1, <2>2 DEF IInv, NoneLost
<1> QED
  BY <1>1, <1>6, <1>7, <1>8, <1>9 DEF IInv

LEMMA SettleKeeps == ASSUME IInv, NEW c \in Consumer, Settle(c) PROVE IInv'
<1> DEFINE d == Of(c)
<1>1. TypeOK'
  BY ConsumerType DEF IInv, Step
<1>2. /\ d \in Delivery /\ pc[c] \in {"sent", "fail"} /\ pc'[c] \in {"idle", "ack"}
      /\ \A b \in Consumer \ {c} : pc'[b] = pc[b]
      /\ \A e \in Delivery \ {d} : log'[e] = log[e]
      /\ UNCHANGED <<hand, job, attempt, timer, accepted, history>>
  BY AtWork DEF Settle, Goto, IInv, TypeOK, producer
<1>3. \A b \in Consumer : Of(b)' = Of(b) /\ Receipt(b)' = Receipt(b)
  BY <1>2 DEF Of, Receipt
<1>4. \/ ~Fenced(c) /\ log'[d] = log[d]
      \/ /\ Fenced(c) /\ log[d] # None /\ log'[d] # None
         /\ log[d].status = "queued"
         /\ log'[d].attempts = log[d].attempts
         /\ log'[d].holder = None /\ log'[d].lease = 0
         /\ \/ pc[c] = "sent" /\ log'[d].status = "sent" /\ log'[d].id = attempt[c]
            \/ pc[c] = "fail" /\ log'[d].status = "failed" /\ log'[d].id = log[d].id
  <2>1. CASE Fenced(c)
    <3>1. /\ log[d] \in Row /\ log[d] # None /\ log[d].status = "queued"
          /\ attempt[c] \in 0..MaxAttempts
      BY <1>2, <2>1 DEF IInv, TypeOK, Fenced, Is
    <3>2. log'[d] = IF pc[c] = "sent" THEN SentAs(log[d], attempt[c]) ELSE GivenUp(log[d])
      BY <1>2, <2>1 DEF Settle, IInv, TypeOK
    <3>3. CASE pc[c] = "sent"
      BY <2>1, <3>1, <3>2, <3>3, SentRow, Bounds
    <3>4. CASE pc[c] = "fail"
      BY <2>1, <3>1, <3>2, <3>4, GivenUpRow, Bounds
    <3> QED
      BY <1>2, <3>3, <3>4
  <2>2. CASE ~Fenced(c)
    BY <2>2 DEF Settle
  <2> QED
    BY <2>1, <2>2
<1>5. \A b \in Consumer \ {c} : pc[b] \in {"call", "sent"} /\ Fenced(b) =>
        Fenced(b)' /\ log'[Of(b)] = log[Of(b)] /\ Of(b) \in Delivery
  <2> SUFFICES ASSUME NEW b \in Consumer \ {c}, pc[b] \in {"call", "sent"}, Fenced(b)
               PROVE  Fenced(b)' /\ log'[Of(b)] = log[Of(b)] /\ Of(b) \in Delivery
    OBVIOUS
  <2>1. Of(b) \in Delivery
    BY AtWork
  <2>2. log'[Of(b)] = log[Of(b)]
    BY <1>2, <1>4, <2>1, FencedApart
  <2> QED
    BY <1>3, <2>1, <2>2 DEF Fenced, Is
<1>6. InHand'
  BY <1>2 DEF IInv, InHand
<1>7. RowsFit'
  BY <1>2, <1>4 DEF IInv, RowsFit
<1>8. CallIsHeld' /\ AcceptedFirst'
  BY <1>2, <1>3, <1>5 DEF IInv, CallIsHeld, AcceptedFirst
<1>9. Covered' /\ ToldIsFailed'
  BY <1>2, <1>4 DEF IInv, TypeOK, Covered, ToldIsFailed, Is, history
<1>10. SentIsAccepted'
  BY <1>2, <1>4 DEF IInv, AcceptedFirst, SentIsAccepted, Is, Receipt
<1>11. NoneLost'
  <2> SUFFICES ASSUME NEW e \in Delivery, NEW n \in 1..MaxAttempts,
                      e \notin unsaid, <<e, n>> \in accepted
               PROVE  Recorded(e, n)' \/ \E b \in Consumer : Bears(b, e, n)'
    BY <1>2 DEF NoneLost, history
  <2>1. CASE Recorded(e, n)
    BY <1>2, <1>4, <2>1 DEF Recorded, Is
  <2>2. ASSUME NEW b \in Consumer \ {c}, Bears(b, e, n) PROVE Bears(b, e, n)'
    BY <1>2, <1>3, <1>5, <2>2 DEF Bears
  <2>3. CASE Bears(c, e, n)
    BY <1>4, <2>3 DEF Bears, Recorded, Is
  <2> QED
    BY <2>1, <2>2, <2>3 DEF IInv, NoneLost
<1> QED
  BY <1>1, <1>6, <1>7, <1>8, <1>9, <1>10, <1>11 DEF IInv

LEMMA StopKeeps == ASSUME IInv, NEW c \in Consumer, Stop(c) PROVE IInv'
<1> DEFINE d == Of(c)
<1>1. TypeOK'
  BY ConsumerType DEF IInv
<1>2. /\ pc'[c] = "idle"
      /\ \A b \in Consumer \ {c} : pc'[b] = pc[b] /\ timer'[b] = timer[b]
      /\ UNCHANGED <<log, hand, job, attempt, calls, told>>
  BY DEF Stop, Goto, IInv, TypeOK, producer
<1>3. \A b \in Consumer :
        Of(b)' = Of(b) /\ Receipt(b)' = Receipt(b) /\ (Fenced(b)' <=> Fenced(b))
  BY <1>2 DEF Of, Receipt, Fenced, Is
<1>4. /\ accepted' = accepted /\ unsaid \subseteq unsaid'
      /\ pc[c] = "sent" => d \in unsaid'
  BY DEF Stop
<1>5. InHand' /\ RowsFit' /\ Covered' /\ ToldIsFailed'
  BY <1>2 DEF IInv, InHand, RowsFit, Covered, ToldIsFailed, Is
<1>6. CallIsHeld' /\ AcceptedFirst' /\ SentIsAccepted'
  BY <1>2, <1>3, <1>4 DEF IInv, CallIsHeld, AcceptedFirst, SentIsAccepted, Is
<1>7. NoneLost'
  <2> SUFFICES ASSUME NEW e \in Delivery, NEW n \in 1..MaxAttempts,
                      e \notin unsaid', <<e, n>> \in accepted'
               PROVE  Recorded(e, n)' \/ \E b \in Consumer : Bears(b, e, n)'
    BY DEF NoneLost
  <2>1. <<e, n>> \in accepted
    BY <1>4 DEF Receipt
  <2>2. CASE Recorded(e, n)
    BY <1>2, <2>2 DEF Recorded, Is
  <2>3. ASSUME NEW b \in Consumer, Bears(b, e, n) PROVE Bears(b, e, n)'
    BY <1>2, <1>3, <1>4, <2>3 DEF Bears
  <2> QED
    BY <1>4, <2>1, <2>2, <2>3 DEF IInv, NoneLost
<1> QED
  BY <1>1, <1>5, <1>6, <1>7 DEF IInv

LEMMA AckKeeps == ASSUME IInv, NEW c \in Consumer, Ack(c) PROVE IInv'
<1>1. TypeOK'
  BY ConsumerType DEF IInv, Step
<1>2. /\ pc[c] = "ack" /\ pc'[c] = "idle"
      /\ \A b \in Consumer \ {c} : pc'[b] = pc[b]
      /\ UNCHANGED <<log, hand, job, attempt, timer, accepted, history>>
  BY DEF Ack, Goto, IInv, TypeOK, producer
<1>3. \A b \in Consumer :
        Of(b)' = Of(b) /\ Receipt(b)' = Receipt(b) /\ (Fenced(b)' <=> Fenced(b))
  BY <1>2 DEF Of, Receipt, Fenced, Is
<1>4. InHand' /\ RowsFit' /\ Covered' /\ ToldIsFailed'
  BY <1>2 DEF IInv, InHand, RowsFit, Covered, ToldIsFailed, Is, history
<1>5. CallIsHeld' /\ AcceptedFirst' /\ SentIsAccepted'
  BY <1>2, <1>3 DEF IInv, CallIsHeld, AcceptedFirst, SentIsAccepted, Is
<1>6. NoneLost'
  BY <1>2, <1>3 DEF IInv, NoneLost, Recorded, Bears, Is, history
<1> QED
  BY <1>1, <1>4, <1>5, <1>6 DEF IInv

LEMMA AcceptLateKeeps ==
  ASSUME IInv, NEW a \in Accepted, AcceptLate(a) PROVE IInv'
<1>1. TypeOK'
  BY AcceptLateType DEF IInv
<1>2. /\ UNCHANGED <<log, hand, pc, job, attempt, timer, calls, told>>
      /\ accepted' = accepted \cup {a} /\ unsaid' = unsaid \cup {a[1]}
  BY DEF AcceptLate, producer, consumer
<1>3. \A c \in Consumer :
        Of(c)' = Of(c) /\ Receipt(c)' = Receipt(c) /\ (Fenced(c)' <=> Fenced(c))
  BY <1>2 DEF Of, Receipt, Fenced, Is
<1>4. InHand' /\ RowsFit' /\ Covered' /\ ToldIsFailed'
  BY <1>2 DEF IInv, InHand, RowsFit, Covered, ToldIsFailed, Is
<1>5. CallIsHeld' /\ AcceptedFirst' /\ SentIsAccepted'
  BY <1>2, <1>3 DEF IInv, CallIsHeld, AcceptedFirst, SentIsAccepted, Is
<1>6. NoneLost'
  <2> SUFFICES ASSUME NEW d \in Delivery, NEW n \in 1..MaxAttempts,
                      d \notin unsaid', <<d, n>> \in accepted'
               PROVE  Recorded(d, n)' \/ \E c \in Consumer : Bears(c, d, n)'
    BY DEF NoneLost
  <2>1. <<d, n>> \in accepted /\ d \notin unsaid
    BY <1>2
  <2> QED
    BY <1>2, <1>3, <2>1 DEF IInv, NoneLost, Recorded, Bears, Is
<1> QED
  BY <1>1, <1>4, <1>5, <1>6 DEF IInv

LEMMA TickKeeps == ASSUME IInv, Tick PROVE IInv'
<1>1. TypeOK'
  BY TickType DEF IInv
<1>2. \A d \in Delivery :
        /\ log[d] = None <=> log'[d] = None
        /\ log[d] # None => /\ log[d].lease \in Nat
                            /\ log'[d].status = log[d].status /\ log'[d].id = log[d].id
                            /\ log'[d].attempts = log[d].attempts
                            /\ log'[d].holder = log[d].holder
                            /\ log'[d].lease = Less(log[d].lease)
  BY TickRow, Bounds DEF IInv, Row
<1>3. \A c \in Consumer : Of(c)' = Of(c) /\ Receipt(c)' = Receipt(c)
  BY DEF Tick, Of, Receipt
<1>4. \A c \in Consumer : Of(c) \in Delivery => (Fenced(c)' <=> Fenced(c))
  BY <1>2, <1>3 DEF Fenced, Is
<1>5. UNCHANGED <<hand, pc, attempt, accepted, calls, told>>
  BY DEF Tick, producer
<1>6. InHand'
  BY <1>5 DEF IInv, InHand, Tick
<1>7. RowsFit'
  BY <1>2, <1>5 DEF IInv, RowsFit, Less
<1>8. CallIsHeld'
  <2> SUFFICES ASSUME NEW c \in Consumer, pc[c] = "call"
               PROVE  Fenced(c)' /\ log'[Of(c)].lease > timer'[c]
    BY <1>3, <1>5 DEF CallIsHeld
  <2>1. Of(c) \in Delivery /\ Fenced(c) /\ log[Of(c)].lease > timer[c]
    BY AtWork DEF IInv, CallIsHeld
  <2>2. timer[c] \in Nat /\ timer[c] > 0 /\ timer'[c] = Less(timer[c])
    BY Bounds DEF Tick, IInv, TypeOK
  <2> QED
    BY <1>2, <1>4, <2>1, <2>2 DEF Fenced, Is, Less
<1>9. Covered' /\ ToldIsFailed' /\ SentIsAccepted'
  BY <1>2, <1>5 DEF IInv, TypeOK, Covered, ToldIsFailed, SentIsAccepted, Is
<1>10. AcceptedFirst'
  BY <1>3, <1>5 DEF IInv, AcceptedFirst
<1>11. NoneLost'
  <2> SUFFICES ASSUME NEW e \in Delivery, NEW n \in 1..MaxAttempts,
                      e \notin unsaid', <<e, n>> \in accepted
               PROVE  Recorded(e, n)' \/ \E b \in Consumer : Bears(b, e, n)'
    BY <1>5 DEF NoneLost
  <2>1. CASE Recorded(e, n)
    BY <1>2, <2>1 DEF Recorded, Is
  <2>2. ASSUME NEW b \in Consumer, Bears(b, e, n) PROVE Bears(b, e, n)'
    <3>1. log[e] # None /\ log[e].lease > 0 /\ ~Lapses(e)
      BY <2>2 DEF Bears, Fenced, Is, Tick
    <3>2. log[e].lease \in Nat /\ log[e].lease # 1
      BY <1>2, <2>2, <3>1 DEF Bears, Lapses
    <3>3. log'[e].lease > 0
      BY <1>2, <3>1, <3>2 DEF Less
    <3> QED
      BY <1>3, <1>4, <1>5, <2>2, <3>3 DEF Bears
  <2>3. e \notin unsaid
    BY DEF Tick
  <2> QED
    BY <2>1, <2>2, <2>3 DEF IInv, NoneLost
<1> QED
  BY <1>1, <1>6, <1>7, <1>8, <1>9, <1>10, <1>11 DEF IInv

LEMMA NextKeeps == ASSUME IInv, [Next]_vars PROVE IInv'
<1>1. ASSUME NEW d \in Delivery, Produce(d) \/ Abandon(d) PROVE IInv'
  <2>1. CASE HandOff(d) \/ Abandon(d)
    <3>1. TypeOK'
      BY <2>1, ProduceType DEF IInv, Produce
    <3>2. /\ UNCHANGED <<log, consumer, provider, history>>
          /\ \A e \in Delivery : hand'[e] = "none" => hand[e] = "none"
      BY <2>1 DEF HandOff, Abandon, IInv, TypeOK
    <3> QED
      BY <3>1, <3>2, AsideKeeps
  <2> QED
    BY <1>1, <2>1, RecordKeeps, QueueFailedKeeps DEF Produce
<1>2. ASSUME NEW c \in Consumer, Step(c) \/ Stop(c) PROVE IInv'
  BY <1>2, ClaimKeeps, AnswerKeeps, ReleaseKeeps, SettleKeeps, AckKeeps, StopKeeps DEF Step
<1>3. CASE UNCHANGED vars
  <2>1. TypeOK'
    BY <1>3 DEF vars, producer, consumer, history, IInv, TypeOK
  <2> QED
    BY <1>3, <2>1, AsideKeeps DEF vars, producer, consumer, history
<1> QED
  BY <1>1, <1>2, <1>3, TakeKeeps, AcceptLateKeeps, TickKeeps DEF Next

----------------------------------------------------------------------------
(* What follows *)

LEMMA Invariant == Spec => []IInv
<1>1. Init => IInv
  BY InitInv
<1>2. IInv /\ [Next]_vars => IInv'
  BY NextKeeps
<1> QED
  BY <1>1, <1>2, PTL DEF Spec

\* The types of the log, the queue and the consumers.
THEOREM TypeCorrect == Spec => []TypeOK
<1>1. IInv => TypeOK
  BY DEF IInv
<1> QED
  BY <1>1, Invariant, PTL

\* A lease that is longer than the deadline keeps two calls for a message apart
\* (claimAttempt, and the check of the policy in processQueuedEmail).
THEOREM CallsApart == Spec => []OneCallAtATime
<1>1. IInv => OneCallAtATime
  BY FencedApart DEF IInv, CallIsHeld, OneCallAtATime
<1> QED
  BY <1>1, Invariant, PTL

\* No number of redeliveries, hand-offs or stops makes more than maxAttempts
\* calls for a message.
THEOREM Budget == Spec => []BudgetKept
<1>1. IInv => BudgetKept
  BY DEF IInv, Covered, BudgetKept
<1> QED
  BY <1>1, Invariant, PTL

\* markQueueFailed matches only a message no consumer has ever claimed.
THEOREM ToldTheTruth == Spec => []UnavailableMeansUncalled
<1>1. IInv => UnavailableMeansUncalled
  BY DEF IInv, TypeOK, ToldIsFailed, UnavailableMeansUncalled
<1> QED
  BY <1>1, Invariant, PTL

\* A message that is called sent was accepted under the id the log has; unless
\* an acceptance was missed, nothing else was accepted, and a message that is
\* called failed was not accepted at all.
THEOREM LogTellsTheTruth == Spec => []LogIsRight
<1>1. IInv => LogIsRight
  <2> SUFFICES ASSUME IInv, NEW d \in Delivery, d \notin unsaid,
                      NEW a \in accepted, a[1] = d
               PROVE  ~Is(d, "failed") /\ \A b \in accepted : b[1] = d => a = b
    BY DEF LogIsRight, IInv, SentIsAccepted
  <2>1. ASSUME NEW b \in accepted, b[1] = d
        PROVE  /\ b[2] \in 1..MaxAttempts /\ b = <<d, b[2]>>
               /\ \/ Recorded(d, b[2])
                  \/ \E c \in Consumer : Bears(c, d, b[2])
    <3>1. b[2] \in 1..MaxAttempts /\ b = <<d, b[2]>>
      BY <2>1 DEF IInv, TypeOK, Accepted
    <3> QED
      BY <3>1 DEF IInv, NoneLost
  <2>2. ~Is(d, "failed")
    BY <2>1 DEF Recorded, Bears, Fenced, Is
  <2>3. ASSUME NEW b \in accepted, b[1] = d PROVE a[2] = b[2]
    BY <2>1, <2>3, FencedApart DEF Recorded, Bears, Fenced, Is
  <2> QED
    BY <2>1, <2>2, <2>3
<1> QED
  BY <1>1, Invariant, PTL

----------------------------------------------------------------------------
(* Calls are told apart by their numbers *)

\* What a step leaves of a row: its count, and its holder unless that is let go;
\* or one more claim, which is the claimer's.
Kept(d) ==
  /\ log'[d].attempts = log[d].attempts
  /\ log'[d].holder \in {log[d].holder, None}
  /\ log'[d].status = "queued" => log[d].status = "queued"
ClaimedBy(d, b) ==
  /\ pc[b] = "claim" /\ log'[d].holder = b
  /\ log'[d].attempts = OneMore(log[d].attempts)

LEMMA RowMoves ==
  ASSUME IInv, [Next]_vars, NEW d \in Delivery, log[d] # None
  PROVE  /\ log[d].attempts \in 0..(MaxAttempts + 1) /\ log'[d] # None
         /\ Kept(d) \/ \E b \in Consumer : ClaimedBy(d, b)
<1>1. log[d] \in Row /\ log[d].attempts \in 0..(MaxAttempts + 1)
  BY DEF IInv, TypeOK, Row
<1>2. CASE log'[d] = log[d]
  BY <1>1, <1>2 DEF Kept
<1>3. CASE QueueFailed(d) /\ Untouched(d)
  <2>1. log'[d] = [log[d] EXCEPT !.status = "failed"] /\ log[d].status = "queued"
    BY <1>3 DEF QueueFailed, Untouched, Is, IInv, TypeOK
  <2>2. log'[d] \in Row
    BY <1>1, <2>1 DEF Row, Status
  <2> QED
    BY <1>1, <2>1, <2>2, Bounds DEF Kept, Row
<1>4. ASSUME NEW c \in Consumer, Claim(c), Of(c) = d, Claimable(d)
      PROVE  log'[d] # None /\ ClaimedBy(d, c)
  <2>1. log'[d] = Claimed(log[d], c) /\ pc[c] = "claim"
    BY <1>4 DEF Claim, IInv, TypeOK
  <2> QED
    BY <1>1, <2>1, ClaimedRow, Bounds DEF ClaimedBy
<1>5. ASSUME NEW c \in Consumer, Release(c) \/ Settle(c), Of(c) = d, Fenced(c)
      PROVE  log'[d] # None /\ Kept(d)
  <2>1. log[d].status = "queued"
    BY <1>5 DEF Fenced, Is
  <2>2. CASE Release(c)
    <3>1. log'[d] = LetGo(log[d])
      BY <1>5, <2>2 DEF Release, IInv, TypeOK
    <3> QED
      BY <1>1, <2>1, <3>1, LetGoRow, Bounds DEF Kept
  <2>3. CASE Settle(c)
    <3>1. /\ attempt[c] \in 0..MaxAttempts
          /\ log'[d] = IF pc[c] = "sent" THEN SentAs(log[d], attempt[c]) ELSE GivenUp(log[d])
      BY <1>5, <2>3 DEF Settle, IInv, TypeOK
    <3>2. CASE pc[c] = "sent"
      BY <1>1, <2>1, <3>1, <3>2, SentRow, Bounds DEF Kept
    <3>3. CASE pc[c] # "sent"
      BY <1>1, <2>1, <3>1, <3>3, GivenUpRow, Bounds DEF Kept
    <3> QED
      BY <3>2, <3>3
  <2> QED
    BY <1>5, <2>2, <2>3
<1>6. CASE Tick
  <2>1. /\ log'[d] # None /\ log'[d].status = log[d].status
        /\ log'[d].attempts = log[d].attempts /\ log'[d].holder = log[d].holder
    BY <1>6, TickRow DEF IInv
  <2> QED
    BY <1>1, <2>1 DEF Kept
<1>7. ASSUME NEW e \in Delivery, Produce(e) \/ Abandon(e),
             ~(e = d /\ QueueFailed(d) /\ Untouched(d))
      PROVE  log'[d] = log[d]
  <2>1. CASE Record(e)
    <3>1. log[e] = None
      BY <2>1 DEF Record, IInv, RowsFit
    <3> QED
      BY <2>1, <3>1 DEF Record, IInv, TypeOK
  <2>2. CASE QueueFailed(e)
    BY <1>7, <2>2 DEF QueueFailed, IInv, TypeOK
  <2> QED
    BY <1>7, <2>1, <2>2 DEF Produce, HandOff, Abandon
<1>8. ASSUME NEW c \in Consumer, Step(c) \/ Stop(c),
             ~(Claim(c) /\ Of(c) = d /\ Claimable(d)),
             ~((Release(c) \/ Settle(c)) /\ Of(c) = d /\ Fenced(c))
      PROVE  log'[d] = log[d]
  <2>1. CASE Claim(c)
    BY <1>8, <2>1 DEF Claim, IInv, TypeOK
  <2>2. CASE Release(c)
    BY <1>8, <2>2 DEF Release, IInv, TypeOK
  <2>3. CASE Settle(c)
    BY <1>8, <2>3 DEF Settle, IInv, TypeOK
  <2> QED
    BY <1>8, <2>1, <2>2, <2>3 DEF Step, Answer, Ack, Stop
<1>9. \/ log'[d] = log[d] \/ Tick
      \/ \E e \in Delivery : Produce(e) \/ Abandon(e)
      \/ \E c \in Consumer : Step(c) \/ Stop(c)
  BY DEF Next, Take, AcceptLate, vars
<1> QED
  BY <1>1, <1>2, <1>3, <1>4, <1>5, <1>6, <1>7, <1>8, <1>9

\* What a step leaves of a consumer with a call: the call, and the row if it still
\* holds that.
LEMMA CallStays ==
  ASSUME IInv, Numbered, [Next]_vars, NEW c \in Consumer, AtCall(c), AtCall(c)'
  PROVE  /\ job'[c] = job[c] /\ attempt'[c] = attempt[c]
         /\ log'[Of(c)] # None /\ attempt[c] <= log'[Of(c)].attempts
         /\ Fenced(c)' => attempt[c] = log'[Of(c)].attempts
<1>1. job'[c] = job[c] /\ attempt'[c] = attempt[c]
  <2>1. ASSUME NEW b \in Consumer, Step(b) \/ Stop(b)
        PROVE  job'[c] = job[c] /\ attempt'[c] = attempt[c]
    <3>1. CASE Claim(b)
      <4>1. b # c
        BY <3>1 DEF Claim, AtCall
      <4> QED
        BY <3>1, <4>1 DEF Claim, IInv, TypeOK
    <3> QED
      BY <2>1, <3>1 DEF Step, Answer, Release, Settle, Ack, Stop
  <2>2. ASSUME NEW b \in Consumer, NEW j \in Job, Take(b, j)
        PROVE  job'[c] = job[c] /\ attempt'[c] = attempt[c]
    BY <2>2 DEF Take, AtCall, IInv, TypeOK
  <2>3. ASSUME NEW d \in Delivery, Produce(d) \/ Abandon(d)
        PROVE  job'[c] = job[c] /\ attempt'[c] = attempt[c]
    BY <2>3 DEF Produce, Record, HandOff, QueueFailed, Abandon, consumer
  <2> QED
    BY <2>1, <2>2, <2>3 DEF Next, AcceptLate, Tick, vars, consumer
<1>2. PICK d \in Delivery : d = Of(c)
  BY AtWork DEF AtCall
<1>3. /\ log[d] # None /\ attempt[c] <= log[d].attempts /\ attempt[c] \in 0..MaxAttempts
      /\ Fenced(c) => attempt[c] = log[d].attempts
  BY <1>2 DEF Numbered, AttemptFits, IInv, TypeOK
<1>4. Of(c)' = d
  BY <1>1, <1>2 DEF Of
<1>5. CASE Kept(d)
  <2>1. log'[d] # None /\ log'[d].attempts = log[d].attempts
    BY <1>3, <1>5, RowMoves DEF Kept
  <2>2. Fenced(c)' => Fenced(c)
    BY <1>2, <1>3, <1>4, <1>5, Bounds DEF Kept, Fenced, Is
  <2> QED
    BY <1>1, <1>2, <1>3, <2>1, <2>2
<1>6. ASSUME NEW b \in Consumer, ClaimedBy(d, b)
      PROVE  attempt[c] <= log'[d].attempts /\ ~Fenced(c)'
  <2>1. log[d].attempts \in 0..(MaxAttempts + 1)
    BY <1>3, RowMoves
  <2>2. /\ log'[d].attempts = OneMore(log[d].attempts)
        /\ log[d].attempts <= OneMore(log[d].attempts)
        /\ OneMore(log[d].attempts) \in 0..(MaxAttempts + 1)
    BY <1>6, <2>1, OneMoreFits DEF ClaimedBy
  <2>3. attempt[c] <= log'[d].attempts
    BY <1>3, <2>1, <2>2, Bounds
  <2>4. b # c
    BY <1>6 DEF ClaimedBy, AtCall
  <2> QED
    BY <1>4, <1>6, <2>3, <2>4 DEF ClaimedBy, Fenced
<1> QED
  BY <1>1, <1>2, <1>3, <1>5, <1>6, RowMoves

\* Steps that begin no call: at most they abandon one.
LEMMA NoNewCall ==
  ASSUME IInv, Numbered, [Next]_vars,
         \A c \in Consumer : AtCall(c)' => AtCall(c),
         \A a \in abandoned' : a \in abandoned \/
           \E c \in Consumer : AtCall(c) /\ ~AtCall(c)' /\ a = Receipt(c)
  PROVE  Numbered'
<1>1. ASSUME NEW c \in Consumer, AtCall(c)'
      PROVE  /\ Of(c)' = Of(c) /\ Receipt(c)' = Receipt(c) /\ AttemptFits(c)'
  <2>1. AtCall(c) /\ AttemptFits(c)
    BY <1>1 DEF Numbered
  <2>2. Of(c)' = Of(c) /\ Receipt(c)' = Receipt(c)
    BY <1>1, <2>1, CallStays DEF Of, Receipt
  <2>3. Receipt(c) \notin abandoned'
    BY <1>1, <2>1 DEF Numbered, AttemptFits
  <2> QED
    BY <1>1, <2>1, <2>2, <2>3, CallStays DEF AttemptFits
<1>2. \A b, c \in Consumer :
        AtCall(b)' /\ AtCall(c)' /\ Receipt(b)' = Receipt(c)' => b = c
  BY <1>1 DEF Numbered
<1>3. ASSUME NEW a \in abandoned'
      PROVE  log'[a[1]] # None /\ a[2] <= log'[a[1]].attempts
  <2>1. PICK d \in Delivery, n \in 1..MaxAttempts : a = <<d, n>>
    <3>1. IInv'
      BY NextKeeps
    <3> QED
      BY <3>1 DEF IInv, TypeOK, Accepted
  <2>2. log[d] # None /\ n <= log[d].attempts
    BY <1>3, <2>1 DEF Numbered, AttemptFits, Receipt
  <2>3. /\ log'[d] # None /\ log[d].attempts \in 0..(MaxAttempts + 1)
        /\ Kept(d) \/ \E b \in Consumer : ClaimedBy(d, b)
    BY <2>2, RowMoves
  <2>4. CASE Kept(d)
    BY <2>1, <2>2, <2>3, <2>4 DEF Kept
  <2>5. ASSUME NEW b \in Consumer, ClaimedBy(d, b) PROVE n <= log'[d].attempts
    <3>1. /\ log'[d].attempts = OneMore(log[d].attempts)
          /\ log[d].attempts <= OneMore(log[d].attempts)
          /\ OneMore(log[d].attempts) \in 0..(MaxAttempts + 1)
      BY <2>3, <2>5, OneMoreFits DEF ClaimedBy
    <3> QED
      BY <2>2, <2>3, <3>1, Bounds
  <2> QED
    BY <2>1, <2>3, <2>4, <2>5
<1> QED
  BY <1>1, <1>2, <1>3 DEF Numbered

\* A call that begins has a number no call of its message had.
LEMMA NewCall ==
  ASSUME IInv, Numbered, NEW c \in Consumer, Claim(c), AtCall(c)'
  PROVE  Numbered'
<1>1. PICK d \in Delivery : d = Of(c)
  BY AtWork DEF Claim
<1>2. /\ Claimable(d) /\ InBudget(OneMore(log[d].attempts)) /\ ~AtCall(c)
      /\ attempt' = [attempt EXCEPT ![c] = OneMore(log[d].attempts)]
      /\ log' = [log EXCEPT ![d] = Claimed(log[d], c)]
      /\ \A b \in Consumer \ {c} : pc'[b] = pc[b]
      /\ UNCHANGED <<job, abandoned>>
  BY <1>1 DEF Claim, Goto, AtCall, IInv, TypeOK
<1>3. /\ log[d] # None /\ log[d].attempts \in 0..(MaxAttempts + 1)
      /\ attempt'[c] = log[d].attempts + 1 /\ log'[d].attempts = log[d].attempts + 1
      /\ log'[d].holder = c /\ log'[d] # None
      /\ \A e \in Delivery \ {d} : log'[e] = log[e]
  <2>1. log[d] # None /\ log[d] \in Row
    BY <1>2 DEF Claimable, Is, IInv, TypeOK
  <2>2. /\ log[d].attempts \in 0..(MaxAttempts + 1)
        /\ OneMore(log[d].attempts) = log[d].attempts + 1
    BY <1>2, <2>1, OneMoreFits DEF Row
  <2>3. log'[d] = Claimed(log[d], c) /\ \A e \in Delivery \ {d} : log'[e] = log[e]
    BY <1>2 DEF IInv, TypeOK
  <2>4. attempt'[c] = OneMore(log[d].attempts)
    BY <1>2 DEF IInv, TypeOK
  <2> QED
    BY <2>1, <2>2, <2>3, <2>4, ClaimedRow, Bounds
<1>4. \A b \in Consumer : Of(b)' = Of(b)
  BY <1>2 DEF Of
<1>5. Receipt(c)' = <<d, log[d].attempts + 1>>
  BY <1>1, <1>3, <1>4 DEF Receipt
<1>6. [Next]_vars
  BY DEF Next, Step
<1>7. ASSUME NEW b \in Consumer \ {c}, AtCall(b)'
      PROVE  /\ AtCall(b) /\ AttemptFits(b)' /\ Receipt(b)' = Receipt(b)
             /\ Receipt(b) # Receipt(c)'
  <2>1. AtCall(b) /\ AttemptFits(b)
    BY <1>2, <1>7 DEF AtCall, Numbered
  <2>2. Receipt(b)' = Receipt(b)
    BY <1>2, <1>4, <1>7 DEF Receipt, IInv, TypeOK
  <2>3. Receipt(b) # <<d, log[d].attempts + 1>>
    <3>1. CASE Of(b) = d
      <4>1. attempt[b] <= log[d].attempts /\ attempt[b] \in 0..MaxAttempts
        BY <2>1, <3>1 DEF AttemptFits, IInv, TypeOK
      <4> QED
        BY <1>3, <4>1, Bounds DEF Receipt
    <3>2. CASE Of(b) # d
      BY <3>2 DEF Receipt
    <3> QED
      BY <3>1, <3>2
  <2>4. AttemptFits(b)'
    BY <1>2, <1>4, <1>6, <1>7, <2>1, <2>2, CallStays DEF AttemptFits
  <2> QED
    BY <1>5, <2>1, <2>2, <2>3, <2>4
<1>8. AttemptFits(c)'
  <2>1. <<d, log[d].attempts + 1>> \notin abandoned
    <3> SUFFICES ASSUME <<d, log[d].attempts + 1>> \in abandoned PROVE FALSE
      OBVIOUS
    <3>1. log[d].attempts + 1 <= log[d].attempts
      BY DEF Numbered
    <3> QED
      BY <1>3, <3>1, Bounds
  <2> QED
    BY <1>1, <1>2, <1>3, <1>4, <1>5, <2>1 DEF AttemptFits
<1>9. ASSUME NEW a \in abandoned PROVE log'[a[1]] # None /\ a[2] <= log'[a[1]].attempts
  <2>1. PICK e \in Delivery, n \in 1..MaxAttempts : a = <<e, n>>
    BY DEF IInv, TypeOK, Accepted
  <2>2. log[e] # None /\ n <= log[e].attempts
    BY <2>1 DEF Numbered
  <2> QED
    BY <1>3, <2>1, <2>2, Bounds
<1> QED
  BY <1>2, <1>5, <1>7, <1>8, <1>9 DEF Numbered

LEMMA NumberedStays == ASSUME IInv, Numbered, [Next]_vars PROVE Numbered'
<1>1. ASSUME NEW c \in Consumer, Step(c) \/ Stop(c), ~(Claim(c) /\ AtCall(c)')
      PROVE  /\ \A b \in Consumer : AtCall(b)' => AtCall(b)
             /\ abandoned' = abandoned \/ (AtCall(c) /\ ~AtCall(c)'
                                           /\ abandoned' = abandoned \cup {Receipt(c)})
  <2>1. CASE Claim(c)
    BY <1>1, <2>1 DEF Claim, Goto, AtCall, IInv, TypeOK
  <2>2. CASE Answer(c)
    BY <2>2 DEF Answer, Goto, AtCall, IInv, TypeOK
  <2>3. CASE Stop(c)
    BY <2>3 DEF Stop, Goto, AtCall, IInv, TypeOK
  <2>4. CASE Release(c) \/ Settle(c) \/ Ack(c)
    BY <2>4 DEF Release, Settle, Ack, Goto, AtCall, IInv, TypeOK
  <2> QED
    BY <1>1, <2>1, <2>2, <2>3, <2>4 DEF Step
<1>2. ASSUME NEW c \in Consumer, Step(c) \/ Stop(c) PROVE Numbered'
  <2>1. CASE Claim(c) /\ AtCall(c)'
    BY <2>1, NewCall
  <2>2. CASE ~(Claim(c) /\ AtCall(c)')
    BY <1>1, <1>2, <2>2, NoNewCall
  <2> QED
    BY <2>1, <2>2
<1>3. CASE \/ UNCHANGED vars \/ Tick
           \/ \E d \in Delivery : Produce(d) \/ Abandon(d)
           \/ \E a \in Accepted : AcceptLate(a)
           \/ \E c \in Consumer, j \in Job : Take(c, j)
  <2>1. abandoned' = abandoned
    BY <1>3 DEF Tick, Produce, Record, HandOff, QueueFailed, Abandon, AcceptLate, Take, vars
  <2>2. \A b \in Consumer : AtCall(b)' => AtCall(b)
    <3>1. ASSUME NEW c \in Consumer, NEW j \in Job, Take(c, j), NEW b \in Consumer, AtCall(b)'
          PROVE  AtCall(b)
      BY <3>1 DEF Take, Goto, AtCall, IInv, TypeOK
    <3> QED
      BY <1>3, <3>1 DEF Tick, Produce, Record, HandOff, QueueFailed, Abandon, AcceptLate,
           vars, consumer, AtCall
  <2> QED
    BY <2>1, <2>2, NoNewCall
<1> QED
  BY <1>2, <1>3 DEF Next

LEMMA CallsNumbered == Spec => []Numbered
<1>1. Init => Numbered
  BY DEF Init, Numbered, AtCall
<1>2. IInv /\ Numbered /\ [Next]_vars => Numbered'
  BY NumberedStays
<1> QED
  BY <1>1, <1>2, Invariant, PTL DEF Spec

----------------------------------------------------------------------------
(* The refinement *)

Entries == [d \in Delivery |-> Seen(d)]

LEMMA EntryMoves ==
  ASSUME NEW d \in Delivery, \A e \in Delivery \ {d} : log'[e] = log[e]
  PROVE  Entries' = [Entries EXCEPT ![d] = Seen(d)']
BY DEF Entries, Seen

LEMMA SeenNow ==
  ASSUME NEW d \in Delivery, log[d] # None, log[d].lease \in Nat
  PROVE  /\ log[d].lease = 0 =>
              Seen(d) = [status |-> log[d].status, held |-> FALSE,
                         tries |-> CallsMade(log[d]), id |-> log[d].id]
         /\ log[d].lease > 0 =>
              Seen(d) = [status |-> log[d].status, held |-> TRUE,
                         tries |-> CallsMade(log[d]), id |-> log[d].id]
<1>1. Seen(d) = [status |-> log[d].status, held |-> log[d].lease > 0,
                 tries |-> CallsMade(log[d]), id |-> log[d].id]
  BY DEF Seen
<1>2. log[d].lease = 0 => (log[d].lease > 0) = FALSE
  OBVIOUS
<1>3. log[d].lease > 0 => (log[d].lease > 0) = TRUE
  OBVIOUS
<1> QED
  BY <1>1, <1>2, <1>3, Zenon

LEMMA SeenNext ==
  ASSUME NEW d \in Delivery, log'[d] # None, log'[d].lease \in Nat
  PROVE  /\ log'[d].lease = 0 =>
              Seen(d)' = [status |-> log'[d].status, held |-> FALSE,
                          tries |-> CallsMade(log'[d]), id |-> log'[d].id]
         /\ log'[d].lease > 0 =>
              Seen(d)' = [status |-> log'[d].status, held |-> TRUE,
                          tries |-> CallsMade(log'[d]), id |-> log'[d].id]
<1>1. Seen(d)' = [status |-> log'[d].status, held |-> log'[d].lease > 0,
                  tries |-> CallsMade(log'[d]), id |-> log'[d].id]
  BY DEF Seen
<1>2. log'[d].lease = 0 => (log'[d].lease > 0) = FALSE
  OBVIOUS
<1>3. log'[d].lease > 0 => (log'[d].lease > 0) = TRUE
  OBVIOUS
<1> QED
  BY <1>1, <1>2, <1>3, Zenon

LEMMA SeenOf ==
  ASSUME NEW d \in Delivery, log[d] # None, log[d].lease \in Nat
  PROVE  /\ Entries[d].status = log[d].status /\ Entries[d].id = log[d].id
         /\ Entries[d].tries = CallsMade(log[d])
         /\ log[d].lease = 0 => Entries[d].held = FALSE
         /\ log[d].lease > 0 => Entries[d].held = TRUE
<1>1. Entries[d] = Seen(d)
  BY DEF Entries
<1>2. log[d].lease = 0 \/ log[d].lease > 0
  OBVIOUS
<1> QED
  BY <1>1, <1>2, SeenNow

LEMMA HeldOff ==
  ASSUME NEW s, NEW t, NEW n
  PROVE  [[status |-> s, held |-> TRUE, tries |-> t, id |-> n] EXCEPT !.held = FALSE]
         = [status |-> s, held |-> FALSE, tries |-> t, id |-> n]
<1>1. ASSUME NEW a, NEW b
      PROVE  [[status |-> s, held |-> a, tries |-> t, id |-> n] EXCEPT !.held = b]
             = [status |-> s, held |-> b, tries |-> t, id |-> n]
  OBVIOUS
<1> QED
  BY <1>1, Zenon

\* Nobody waits for a call of a message whose row has no lease, or is in the hands
\* of a consumer that is not calling.
LEMMA NobodyCalls ==
  ASSUME IInv, NEW d \in Delivery,
         \/ log[d] # None /\ log[d].lease = 0
         \/ \E b \in Consumer : pc[b] # "call" /\ log[d].holder = b
  PROVE  Mail!Quiet(d)
<1>1. ASSUME NEW c \in Consumer, pc[c] = "call", Of(c) = d PROVE FALSE
  <2>1. Fenced(c) /\ log[d].lease > timer[c] /\ timer[c] \in Nat
    BY <1>1, Bounds DEF IInv, TypeOK, CallIsHeld
  <2> QED
    BY <1>1, <2>1 DEF Fenced
<1> QED
  BY <1>1 DEF Mail!Quiet, Running, Receipt

LEMMA SameCalls ==
  ASSUME \A c \in Consumer :
           /\ (pc[c] = "call") <=> (pc'[c] = "call")
           /\ pc[c] = "call" => job'[c] = job[c] /\ attempt'[c] = attempt[c]
  PROVE  Running' = Running
<1>1. \A c \in Consumer : pc[c] = "call" => Receipt(c)' = Receipt(c)
  BY DEF Receipt, Of
<1> QED
  BY <1>1 DEF Running

\* A step that shows nothing of itself.
LEMMA Unseen ==
  ASSUME UNCHANGED <<log, abandoned, accepted>>,
         \A c \in Consumer :
           /\ (pc[c] = "call") <=> (pc'[c] = "call")
           /\ pc[c] = "call" => job'[c] = job[c] /\ attempt'[c] = attempt[c]
  PROVE  UNCHANGED Mail!mailVars
<1>1. Running' = Running
  BY SameCalls
<1> QED
  BY <1>1 DEF Mail!mailVars, Mail!calls, Seen

\* A call that is over is not one of another consumer.
LEMMA CallEnds ==
  ASSUME IInv, Numbered, NEW c \in Consumer, pc[c] = "call", pc'[c] # "call",
         \A b \in Consumer \ {c} : pc'[b] = pc[b], UNCHANGED <<job, attempt>>
  PROVE  Receipt(c) \in Accepted \cap Running /\ Running' = Running \ {Receipt(c)}
<1>1. \A b \in Consumer : Receipt(b)' = Receipt(b)
  BY DEF Receipt, Of
<1>2. \A b \in Consumer \ {c} : pc[b] = "call" => Receipt(b) # Receipt(c)
  BY DEF Numbered, AtCall
<1>3. Receipt(c) \in Accepted
  <2>1. Of(c) \in Delivery
    BY AtWork
  <2>2. attempt[c] \in 1..MaxAttempts
    BY Bounds DEF IInv, TypeOK, InHand
  <2> QED
    BY <2>1, <2>2 DEF Accepted, Receipt
<1> QED
  BY <1>1, <1>2, <1>3 DEF Running

LEMMA InitMaps == Init => Mail!MailInit
BY DEF Init, Mail!MailInit, Seen, Running

LEMMA ProduceMaps ==
  ASSUME IInv, NEW d \in Delivery, Produce(d) \/ Abandon(d)
  PROVE  [Mail!MailNext]_(Mail!mailVars)
<1>0. UNCHANGED <<pc, job, attempt, abandoned, accepted>> /\ Running' = Running
  <2>1. UNCHANGED <<pc, job, attempt, abandoned, accepted>>
    BY DEF Produce, Record, HandOff, QueueFailed, Abandon, consumer
  <2> QED
    BY <2>1, SameCalls
<1>1. CASE Record(d)
  <2>1. /\ log[d] = None
        /\ log'[d] = [status |-> "queued", attempts |-> 0, holder |-> None,
                      lease |-> 0, id |-> 0]
        /\ \A e \in Delivery \ {d} : log'[e] = log[e]
    BY <1>1 DEF IInv, TypeOK, RowsFit, Record
  <2>2. log'[d] # None
    BY <2>1, NewRow, Bounds
  <2>3. CallsMade(log'[d]) = 0
    BY <2>1, Bounds DEF CallsMade, InBudget
  <2>4. Seen(d)' = [status |-> "queued", held |-> FALSE, tries |-> 0, id |-> 0]
    BY <2>1, <2>2, <2>3, SeenNext
  <2>5. Mail!Becomes(d, "queued", FALSE, 0, 0)
    BY <2>1, <2>4, EntryMoves DEF Mail!Becomes, Entries
  <2>6. Entries[d].status = "none"
    BY <2>1 DEF Entries, Seen
  <2>7. Mail!Open(d)
    BY <1>0, <2>5, <2>6 DEF Mail!Open, Mail!calls, Entries
  <2> QED
    BY <2>7 DEF Mail!MailNext
<1>2. CASE QueueFailed(d) /\ Untouched(d)
  <2>1. /\ log[d] \in Row /\ log[d].status = "queued" /\ log[d] # None
        /\ log[d].lease = 0 /\ log[d].id = 0
    BY <1>2 DEF Untouched, Is, IInv, TypeOK, RowsFit
  <2>2. /\ log'[d] = [log[d] EXCEPT !.status = "failed"]
        /\ \A e \in Delivery \ {d} : log'[e] = log[e]
    BY <1>2 DEF QueueFailed, IInv, TypeOK
  <2>3. /\ log'[d] \in Row /\ log'[d].attempts = log[d].attempts
        /\ log'[d].status = "failed" /\ log'[d].lease = 0 /\ log'[d].id = 0
    BY <2>1, <2>2 DEF Row, Status
  <2>4. Seen(d)' = [status |-> "failed", held |-> FALSE,
                    tries |-> CallsMade(log[d]), id |-> 0]
    <3>1. CallsMade(log'[d]) = CallsMade(log[d])
      BY <2>3 DEF CallsMade
    <3> QED
      BY <2>3, <3>1, Bounds, SeenNext
  <2>5. Entries[d].status = "queued" /\ Entries[d].tries = CallsMade(log[d])
    <3>1. log[d].lease \in Nat
      BY <2>1
    <3> QED
      BY <2>1, <3>1, SeenOf
  <2>6. Mail!Becomes(d, "failed", FALSE, Entries[d].tries, 0)
    BY <2>2, <2>4, <2>5, EntryMoves DEF Mail!Becomes, Entries
  <2>7. Mail!Quiet(d)
    BY <2>1, NobodyCalls
  <2>8. Mail!Fail(d)
    BY <1>0, <2>5, <2>6, <2>7 DEF Mail!Fail, Mail!Queued, Mail!calls, Entries
  <2> QED
    BY <2>8 DEF Mail!MailNext
<1>3. CASE HandOff(d) \/ Abandon(d) \/ (QueueFailed(d) /\ ~Untouched(d))
  <2>1. UNCHANGED log
    BY <1>3 DEF HandOff, Abandon, QueueFailed
  <2> QED
    BY <1>0, <2>1, Unseen
<1> QED
  BY <1>1, <1>2, <1>3 DEF Produce

LEMMA ClaimMaps ==
  ASSUME IInv, NEW c \in Consumer, Claim(c) PROVE [Mail!MailNext]_(Mail!mailVars)
<1>0. PICK d \in Delivery : d = Of(c)
  BY AtWork DEF Claim
<1>1. CASE Claimable(d)
  <2> DEFINE n == OneMore(log[d].attempts)
  <2>1. /\ log[d] \in Row /\ log[d] # None
        /\ log[d].status = "queued" /\ log[d].lease = 0 /\ log[d].id = 0
        /\ log[d].attempts \in 0..(MaxAttempts + 1)
    BY <1>1 DEF Claimable, Is, IInv, TypeOK, RowsFit, Row
  <2>2. /\ UNCHANGED <<job, abandoned, accepted>> /\ pc[c] = "claim"
        /\ log'[d] = Claimed(log[d], c)
        /\ \A e \in Delivery \ {d} : log'[e] = log[e]
        /\ \A b \in Consumer \ {c} : pc'[b] = pc[b] /\ attempt'[b] = attempt[b]
    BY <1>0, <1>1, <2>1 DEF Claim, Goto, IInv, TypeOK
  <2>3. /\ log'[d] # None /\ log'[d].status = "queued" /\ log'[d].lease = Lease
        /\ log'[d].id = 0 /\ log'[d].attempts = n
    BY <2>1, <2>2, ClaimedRow, Bounds
  <2>4. /\ Entries[d].status = "queued" /\ Entries[d].held = FALSE
        /\ Entries[d].tries = CallsMade(log[d])
    <3>1. log[d].lease \in Nat
      BY <2>1
    <3> QED
      BY <2>1, <3>1, SeenOf
  <2>5. Seen(d)' = [status |-> "queued", held |-> TRUE,
                    tries |-> CallsMade(log'[d]), id |-> 0]
    BY <2>3, Bounds, SeenNext
  <2>6. Entries' = [Entries EXCEPT ![d] = [status |-> "queued", held |-> TRUE,
                                           tries |-> CallsMade(log'[d]), id |-> 0]]
    BY <2>2, <2>5, EntryMoves
  <2>7. CASE InBudget(n)
    <3>1. /\ CallsMade(log'[d]) = CallsMade(log[d]) + 1 /\ CallsMade(log'[d]) = n
          /\ n \in 1..MaxAttempts
      BY <2>1, <2>3, <2>7, OneMoreFits, Bounds DEF CallsMade, InBudget
    <3>2. pc'[c] = "call" /\ attempt'[c] = n
      BY <1>0, <1>1, <2>7 DEF Claim, Goto, IInv, TypeOK
    <3>3. /\ \A b \in Consumer \ {c} : Receipt(b)' = Receipt(b)
          /\ Receipt(c)' = <<d, n>>
      BY <1>0, <2>2, <3>2 DEF Receipt, Of
    <3>4. Running' = Running \cup {<<d, n>>}
      BY <2>2, <3>2, <3>3 DEF Running
    <3> HIDE DEF n
    <3>5. Entries[d].tries + 1 = n /\ n <= MaxAttempts /\ CallsMade(log'[d]) = n
      BY <2>4, <3>1, Bounds
    <3>6. Mail!Hold(d)
      BY <2>2, <2>4, <2>6, <3>4, <3>5 DEF Mail!Hold, Mail!Queued, Mail!Becomes, Entries
    <3> QED
      BY <3>6 DEF Mail!MailNext
  <2>8. CASE ~InBudget(n)
    <3>1. CallsMade(log'[d]) = CallsMade(log[d]) /\ CallsMade(log[d]) = MaxAttempts
      BY <2>1, <2>3, <2>8, Bounds DEF CallsMade, InBudget, OneMore
    <3>2. pc'[c] = "idle" /\ UNCHANGED attempt
      BY <1>0, <1>1, <2>8 DEF Claim, Goto, IInv, TypeOK
    <3>3. Running' = Running
      BY <2>2, <3>2, SameCalls
    <3>4. MaxAttempts + 1 > MaxAttempts
      BY Bounds
    <3>5. Mail!Hold(d)
      BY <2>2, <2>4, <2>6, <3>1, <3>3, <3>4
         DEF Mail!Hold, Mail!Queued, Mail!Becomes, Entries
    <3> QED
      BY <3>5 DEF Mail!MailNext
  <2> QED
    BY <2>7, <2>8
<1>2. CASE ~Claimable(d)
  <2>1. /\ UNCHANGED <<log, abandoned, accepted, job, attempt>>
        /\ pc[c] # "call" /\ pc'[c] # "call" /\ \A b \in Consumer \ {c} : pc'[b] = pc[b]
    BY <1>0, <1>2 DEF Claim, Goto, IInv, TypeOK
  <2> QED
    BY <2>1, Unseen
<1> QED
  BY <1>1, <1>2

LEMMA AnswerMaps ==
  ASSUME IInv, Numbered, NEW c \in Consumer, Answer(c) \/ Stop(c)
  PROVE  [Mail!MailNext]_(Mail!mailVars)
<1>1. /\ UNCHANGED <<log, job, attempt>> /\ pc'[c] # "call"
      /\ \A b \in Consumer \ {c} : pc'[b] = pc[b]
  BY DEF Answer, Stop, Goto, IInv, TypeOK
<1>2. CASE pc[c] = "call"
  <2>1. Receipt(c) \in Accepted \cap Running /\ Running' = Running \ {Receipt(c)}
    BY <1>1, <1>2, CallEnds
  <2>2. UNCHANGED Entries
    BY <1>1 DEF Entries, Seen
  <2>3. \/ accepted' = accepted \cup {Receipt(c)} /\ UNCHANGED abandoned
        \/ /\ abandoned' \in {abandoned, abandoned \cup {Receipt(c)}}
           /\ UNCHANGED accepted
    BY <1>2 DEF Answer, Stop
  <2>4. Mail!Accept(Receipt(c)) \/ Mail!HangUp(Receipt(c))
    BY <2>1, <2>2, <2>3 DEF Mail!Accept, Mail!HangUp, Entries
  <2>5. Receipt(c) \in Mail!Accepted
    BY <2>1 DEF Accepted, Mail!Accepted
  <2> QED
    BY <2>4, <2>5 DEF Mail!MailNext
<1>3. CASE pc[c] # "call"
  <2>1. UNCHANGED <<abandoned, accepted>>
    BY <1>3 DEF Answer, Stop
  <2> QED
    BY <1>1, <1>3, <2>1, Unseen
<1> QED
  BY <1>2, <1>3

\* A call that was abandoned shows in the log neither before nor after.
LEMMA AcceptLateMaps ==
  ASSUME IInv, NEW a \in Accepted, AcceptLate(a) PROVE Mail!MailNext
<1>1. /\ UNCHANGED <<log, abandoned>> /\ a \in abandoned
      /\ accepted' = accepted \cup {a}
  BY DEF AcceptLate
<1>2. Running' = Running
  BY SameCalls DEF AcceptLate, consumer
<1>3. Mail!AcceptLate(a)
  BY <1>1, <1>2 DEF Mail!AcceptLate, Seen
<1> QED
  BY <1>3 DEF Mail!MailNext, Accepted, Mail!Accepted

LEMMA ReleaseMaps ==
  ASSUME IInv, NEW c \in Consumer, Release(c) PROVE [Mail!MailNext]_(Mail!mailVars)
<1>0. PICK d \in Delivery : d = Of(c)
  BY AtWork DEF Release
<1>1. /\ UNCHANGED <<job, attempt, abandoned, accepted>> /\ Running' = Running
      /\ pc[c] # "call" /\ \A b \in Consumer : (pc[b] = "call") <=> (pc'[b] = "call")
  <2>1. /\ UNCHANGED <<job, attempt, abandoned, accepted>>
        /\ pc[c] # "call" /\ \A b \in Consumer : (pc[b] = "call") <=> (pc'[b] = "call")
    BY DEF Release, Goto, IInv, TypeOK
  <2> QED
    BY <2>1, SameCalls
<1>2. CASE ~Fenced(c)
  <2>1. UNCHANGED log
    BY <1>2 DEF Release
  <2> QED
    BY <1>1, <2>1, Unseen
<1>3. CASE Fenced(c)
  <2>1. /\ log[d] \in Row /\ log[d] # None /\ log[d].status = "queued"
        /\ log[d].holder = c
    BY <1>0, <1>3 DEF Fenced, Is, IInv, TypeOK
  <2>2. /\ log'[d] = LetGo(log[d])
        /\ \A e \in Delivery \ {d} : log'[e] = log[e]
    BY <1>0, <1>3, <2>1 DEF Release, IInv, TypeOK
  <2>3. /\ log'[d] # None /\ log'[d].status = "queued" /\ log'[d].lease = 0
        /\ log'[d].id = log[d].id /\ CallsMade(log'[d]) = CallsMade(log[d])
    BY <2>1, <2>2, LetGoRow, Bounds DEF CallsMade
  <2>4. Seen(d)' = [status |-> "queued", held |-> FALSE,
                    tries |-> CallsMade(log[d]), id |-> log[d].id]
    BY <2>3, SeenNext
  <2>5. log[d].lease \in Nat
    BY <2>1, Bounds DEF Row
  <2>6. CASE log[d].lease > 0
    <3>1. Seen(d)' = [Seen(d) EXCEPT !.held = FALSE]
      <4>1. Seen(d) = [status |-> "queued", held |-> TRUE,
                       tries |-> CallsMade(log[d]), id |-> log[d].id]
        BY <2>1, <2>5, <2>6, SeenNow
      <4> QED
        BY <2>4, <4>1, HeldOff
    <3>2. Entries' = [e \in Delivery |->
              IF e \in {d} THEN [Entries[e] EXCEPT !.held = FALSE] ELSE Entries[e]]
      BY <2>2, <3>1, EntryMoves DEF Entries
    <3>3. Entries[d].status = "queued" /\ Entries[d].held = TRUE
      BY <2>1, <2>5, <2>6, SeenOf
    <3>4. Mail!Quiet(d)
      BY <1>1, <2>1, NobodyCalls
    <3>5. Mail!Drop({d})
      BY <1>1, <3>2, <3>3, <3>4 DEF Mail!Drop, Mail!Queued, Mail!calls, Entries
    <3> QED
      BY <3>5 DEF Mail!MailNext
  <2>7. CASE ~(log[d].lease > 0)
    <3>1. Seen(d)' = Seen(d)
      BY <2>1, <2>4, <2>5, <2>7, SeenNow
    <3>2. Entries' = Entries
      BY <2>2, <3>1, EntryMoves DEF Entries
    <3> QED
      BY <1>1, <3>2 DEF Mail!mailVars, Mail!calls, Entries
  <2> QED
    BY <2>6, <2>7
<1> QED
  BY <1>2, <1>3

LEMMA SettleMaps ==
  ASSUME IInv, Numbered, NEW c \in Consumer, Settle(c)
  PROVE  [Mail!MailNext]_(Mail!mailVars)
<1>0. PICK d \in Delivery : d = Of(c)
  BY AtWork DEF Settle
<1>1. /\ UNCHANGED <<job, attempt, abandoned, accepted>> /\ Running' = Running
      /\ pc[c] # "call" /\ \A b \in Consumer : (pc[b] = "call") <=> (pc'[b] = "call")
  <2>1. /\ UNCHANGED <<job, attempt, abandoned, accepted>>
        /\ pc[c] # "call" /\ \A b \in Consumer : (pc[b] = "call") <=> (pc'[b] = "call")
    BY DEF Settle, Goto, IInv, TypeOK
  <2> QED
    BY <2>1, SameCalls
<1>2. CASE ~Fenced(c)
  <2>1. UNCHANGED log
    BY <1>2 DEF Settle
  <2> QED
    BY <1>1, <2>1, Unseen
<1>3. CASE Fenced(c)
  <2>1. /\ log[d] \in Row /\ log[d] # None /\ log[d].lease \in Nat
        /\ log[d].status = "queued" /\ log[d].id = 0 /\ log[d].holder = c
    BY <1>0, <1>3, Bounds DEF Fenced, Is, IInv, TypeOK, RowsFit, Row
  <2>2. /\ log'[d] = IF pc[c] = "sent" THEN SentAs(log[d], attempt[c]) ELSE GivenUp(log[d])
        /\ \A e \in Delivery \ {d} : log'[e] = log[e]
    BY <1>0, <1>3, <2>1 DEF Settle, IInv, TypeOK
  <2>3. Entries[d].status = "queued" /\ Entries[d].tries = CallsMade(log[d])
    BY <2>1, SeenOf
  <2>4. Mail!Quiet(d)
    BY <1>1, <2>1, NobodyCalls
  <2>5. CASE pc[c] = "sent"
    <3> DEFINE n == attempt[c]
    <3>1. n \in 1..MaxAttempts
      BY <2>5, Bounds DEF IInv, TypeOK, InHand
    <3>2. n = log[d].attempts /\ <<d, n>> \in accepted \ abandoned
      BY <1>0, <1>3, <2>5 DEF Numbered, AtCall, AttemptFits, Receipt, IInv, AcceptedFirst
    <3>3. /\ log'[d] # None /\ log'[d].status = "sent" /\ log'[d].lease = 0
          /\ log'[d].id = n /\ log'[d].attempts = log[d].attempts
      <4>1. log'[d] = SentAs(log[d], n) /\ n \in 0..MaxAttempts
        BY <2>2, <2>5, <3>1, Bounds
      <4>2. /\ SentAs(log[d], n) \in Row
            /\ SentAs(log[d], n).status = "sent" /\ SentAs(log[d], n).lease = 0
            /\ SentAs(log[d], n).id = n /\ SentAs(log[d], n).attempts = log[d].attempts
        BY <2>1, <4>1, SentRow
      <4> QED
        BY <4>1, <4>2, Bounds
    <3>4. CallsMade(log[d]) = n /\ CallsMade(log'[d]) = n
      BY <3>1, <3>2, <3>3, Bounds DEF CallsMade, InBudget
    <3> HIDE DEF n
    <3>5. Seen(d)' = [status |-> "sent", held |-> FALSE, tries |-> n, id |-> n]
      BY <3>3, <3>4, SeenNext
    <3>6. Mail!Becomes(d, "sent", FALSE, n, n)
      BY <2>2, <3>5, EntryMoves DEF Mail!Becomes, Entries
    <3>7. Mail!Sent(d)
      BY <1>1, <2>3, <2>4, <3>2, <3>4, <3>6 DEF Mail!Sent, Mail!Queued, Mail!calls, Entries
    <3> QED
      BY <3>7 DEF Mail!MailNext
  <2>6. CASE pc[c] = "fail"
    <3>1. /\ log'[d] # None /\ log'[d].status = "failed" /\ log'[d].lease = 0
          /\ log'[d].id = 0 /\ log'[d].attempts = log[d].attempts
      BY <2>1, <2>2, <2>6, GivenUpRow, Bounds
    <3>2. CallsMade(log'[d]) = CallsMade(log[d])
      BY <3>1 DEF CallsMade
    <3>3. Seen(d)' = [status |-> "failed", held |-> FALSE,
                      tries |-> CallsMade(log[d]), id |-> 0]
      BY <3>1, <3>2, SeenNext
    <3>4. Mail!Becomes(d, "failed", FALSE, Entries[d].tries, 0)
      BY <2>2, <2>3, <3>3, EntryMoves DEF Mail!Becomes, Entries
    <3>5. Mail!Fail(d)
      BY <1>1, <2>3, <2>4, <3>4 DEF Mail!Fail, Mail!Queued, Mail!calls, Entries
    <3> QED
      BY <3>5 DEF Mail!MailNext
  <2> QED
    BY <2>5, <2>6 DEF Settle
<1> QED
  BY <1>2, <1>3

LEMMA TickMaps == ASSUME IInv, Tick PROVE [Mail!MailNext]_(Mail!mailVars)
<1> DEFINE D == {d \in Delivery : log[d] # None /\ log[d].lease = 1}
<1>1. ASSUME NEW d \in D
      PROVE  Entries[d].status = "queued" /\ Entries[d].held = TRUE /\ Mail!Quiet(d)
  <2>1. d \in Delivery /\ log[d] # None /\ log[d].lease = 1 /\ log[d].status = "queued"
    BY DEF IInv, RowsFit
  <2>2. log[d].lease \in Nat /\ log[d].lease > 0
    BY <2>1
  <2>3. \A c \in Consumer : pc[c] = "call" => Of(c) # d
    <3> SUFFICES ASSUME NEW c \in Consumer, pc[c] = "call", Of(c) = d PROVE FALSE
      OBVIOUS
    <3>1. log[d].lease > timer[c] /\ timer[c] > 0 /\ timer[c] \in Nat
      BY Bounds DEF Tick, IInv, TypeOK, CallIsHeld
    <3> QED
      BY <2>1, <3>1
  <2>4. Mail!Quiet(d)
    BY <2>3 DEF Mail!Quiet, Running, Receipt
  <2> QED
    BY <2>1, <2>2, <2>4, SeenOf
<1>2. ASSUME NEW d \in Delivery
      PROVE  Seen(d)' = IF d \in D THEN [Seen(d) EXCEPT !.held = FALSE] ELSE Seen(d)
  <2>1. CASE log[d] = None
    BY <2>1, TickRow DEF IInv, Seen
  <2>2. CASE log[d] # None
    <3> DEFINE n == CallsMade(log[d])
    <3>1. /\ log[d].lease \in Nat /\ log'[d] # None
          /\ log'[d].status = log[d].status /\ log'[d].id = log[d].id
          /\ log'[d].lease = Less(log[d].lease) /\ CallsMade(log'[d]) = n
      BY <2>2, TickRow, Bounds DEF IInv, Row, CallsMade
    <3> HIDE DEF n
    <3>2. /\ log[d].lease = 0 => Seen(d) = [status |-> log[d].status, held |-> FALSE,
                                            tries |-> n, id |-> log[d].id]
          /\ log[d].lease > 0 => Seen(d) = [status |-> log[d].status, held |-> TRUE,
                                            tries |-> n, id |-> log[d].id]
      BY <2>2, <3>1, SeenNow DEF n
    <3>3. CASE log[d].lease = 1
      <4>1. log'[d].lease = 0 /\ d \in D
        BY <2>2, <3>1, <3>3 DEF Less
      <4>2. Seen(d)' = [status |-> log[d].status, held |-> FALSE,
                        tries |-> n, id |-> log[d].id]
        BY <3>1, <4>1, SeenNext
      <4> QED
        BY <3>2, <3>3, <4>1, <4>2, HeldOff
    <3>4. CASE log[d].lease # 1
      <4>1. /\ d \notin D /\ log'[d].lease \in Nat
            /\ log[d].lease = 0 => log'[d].lease = 0
            /\ log[d].lease > 0 => log'[d].lease > 0
        BY <3>1, <3>4 DEF Less
      <4>2. CASE log[d].lease = 0
        BY <3>1, <3>2, <4>1, <4>2, SeenNext
      <4>3. CASE log[d].lease > 0
        BY <3>1, <3>2, <4>1, <4>3, SeenNext
      <4> QED
        BY <3>1, <4>2, <4>3
    <3> QED
      BY <3>3, <3>4
  <2> QED
    BY <2>1, <2>2
<1>3. Entries' = [d \in Delivery |->
                    IF d \in D THEN [Entries[d] EXCEPT !.held = FALSE] ELSE Entries[d]]
  BY <1>2 DEF Entries
<1>4. UNCHANGED <<abandoned, accepted>> /\ Running' = Running
  <2>1. UNCHANGED <<pc, job, attempt, abandoned, accepted>>
    BY DEF Tick
  <2> QED
    BY <2>1, SameCalls
<1> HIDE DEF D
<1>5. Mail!Drop(D)
  BY <1>1, <1>3, <1>4 DEF Mail!Drop, Mail!Queued, Mail!calls, Entries
<1>6. D \in SUBSET Delivery
  BY DEF D
<1> QED
  BY <1>5, <1>6 DEF Mail!MailNext

\* The queue, its consumers and their leases implement the delivery log, for
\* any number of messages and consumers: a step of theirs is a step of MailLog
\* or leaves what it shows unchanged.  A call the race has abandoned
\* (processQueuedEmail) is accepted at any time, after its lease too, and still
\* nothing is recorded for it.
THEOREM LogImplemented == Spec => ImplementsMailLog
<1>1. Init => Mail!MailInit
  BY InitMaps
<1>2. IInv /\ Numbered /\ [Next]_vars => [Mail!MailNext]_(Mail!mailVars)
  <2> SUFFICES ASSUME IInv, Numbered, [Next]_vars PROVE [Mail!MailNext]_(Mail!mailVars)
    OBVIOUS
  <2>1. ASSUME NEW c \in Consumer, Step(c) \/ Stop(c)
        PROVE  [Mail!MailNext]_(Mail!mailVars)
    <3>1. CASE Ack(c)
      BY <3>1, Unseen DEF Ack, Goto, IInv, TypeOK
    <3> QED
      BY <2>1, <3>1, ClaimMaps, AnswerMaps, ReleaseMaps, SettleMaps DEF Step
  <2>2. ASSUME NEW c \in Consumer, NEW j \in Job, Take(c, j)
        PROVE  [Mail!MailNext]_(Mail!mailVars)
    <3>1. /\ UNCHANGED <<log, abandoned, accepted, attempt>>
          /\ pc[c] # "call" /\ pc'[c] # "call"
          /\ \A b \in Consumer \ {c} : pc'[b] = pc[b] /\ job'[b] = job[b]
      BY <2>2 DEF Take, Goto, IInv, TypeOK
    <3> QED
      BY <3>1, Unseen
  <2>3. CASE UNCHANGED vars
    BY <2>3, Unseen DEF vars, consumer
  <2> QED
    BY <2>1, <2>2, <2>3, ProduceMaps, AcceptLateMaps, TickMaps DEF Next
<1> QED
  BY <1>1, <1>2, Invariant, CallsNumbered, PTL DEF Spec, ImplementsMailLog, Mail!MailSpec
=============================================================================
