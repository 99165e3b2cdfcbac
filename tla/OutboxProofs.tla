---------------------------- MODULE OutboxProofs ----------------------------
(***************************************************************************)
(* Proofs about Outbox, and about ActivityLog, its first subscriber, for   *)
(* any subscribers, events, drains, deployments, delays and years that     *)
(* satisfy their assumptions, and any number of walks of the log.          *)
(*                                                                         *)
(* Every step of the log is a step of the outbox or none of its, so what   *)
(* the first part shows of the outbox holds with the log beside it.  What  *)
(* the second part adds: an event is in the log exactly when its effect    *)
(* for the activity subscriber has landed, rows move but stay, and a walk  *)
(* that no roll tore has read all of its snapshot but what is older than   *)
(* its cursor.                                                             *)
(***************************************************************************)
EXTENDS ActivityLog, TLAPS

----------------------------------------------------------------------------
(* The inductive invariant *)

\* An attempt counts from the moment it is claimed.
ProcessingCounted ==
  \A s \in Subscriber, e \in Event :
    receipt[s][e].status = "processing" => receipt[s][e].attempts > 0

Shape == TypeOK /\ ProcessingCounted

\* A row of the receipts means that the order let the event through; so does
\* having selected it.
ClaimsInOrder ==
  /\ \A s \in Subscriber, e \in Event :
       receipt[s][e].status # "none" => PriorsDone(s, e)
  /\ \A d \in Drain : pc[d] = "claim" => PriorsDone(job[d].sub, job[d].event)

\* Nobody calls a handler without a receipt, nor has its effect done without it.
CallsClaimed ==
  /\ \A d \in Drain : pc[d] = "done" => <<job[d].sub, job[d].event>> \in landed
  /\ \A d \in Drain : pc[d] \in {"call", "done"} =>
       receipt[job[d].sub][job[d].event].status # "none"
  /\ \A s \in Subscriber, e \in Event : <<s, e>> \in landed \cup late =>
       receipt[s][e].status # "none"

\* What is acknowledged is applied.
DeliveredLanded ==
  \A s \in Subscriber, e \in Event :
    receipt[s][e].status = "delivered" => <<s, e>> \in landed

IInv == Shape /\ ClaimsInOrder /\ CallsClaimed /\ DeliveredLanded

----------------------------------------------------------------------------
(* Types *)

LEMMA ModRange ==
  ASSUME NEW n \in Nat, NEW m \in Nat \ {0}
  PROVE  n % m \in 0..(m - 1) /\ n % m \in Nat
OBVIOUS

\* The subscriber a scan is at is a registered one.
LEMMA ScannedType ==
  ASSUME TypeOK, NEW d \in Drain, pc[d] # "idle"
  PROVE  /\ cursor[d].deployment \in Deployment
         /\ Len(Subs(d)) \in Nat \ {0}
         /\ Scanned(d) \in Subscriber
         /\ MaxAttempts(d) \in Nat \ {0}
         /\ Registered(cursor[d].deployment) \subseteq Subscriber
<1>1. cursor[d].deployment \in Deployment
  BY DEF TypeOK
<1>2. cursor[d].deployment \in Deployments
  BY <1>1, OutboxAssumption
<1>3. /\ Subs(d) \in Seq(Subscriber) /\ Subs(d) # <<>>
      /\ MaxAttempts(d) \in Nat \ {0}
  BY <1>2 DEF Deployments, Subs, MaxAttempts
<1>4. Len(Subs(d)) \in Nat \ {0}
  BY <1>3
<1>5. cursor[d].next + cursor[d].offset \in Nat
  BY DEF TypeOK, Cursor
<1>6. (cursor[d].next + cursor[d].offset) % Len(Subs(d)) \in 0..(Len(Subs(d)) - 1)
  BY <1>4, <1>5, ModRange
<1>7. Scanned(d) \in Subscriber
  <2> DEFINE i == (cursor[d].next + cursor[d].offset) % Len(Subs(d))
  <2>1. i + 1 \in 1..Len(Subs(d))
    <3> HIDE DEF i
    <3> QED BY <1>4, <1>6 DEF i
  <2> HIDE DEF i
  <2>2. Subs(d)[i + 1] \in Subscriber
    BY <2>1, <1>3
  <2> QED
    BY <2>2 DEF Scanned, i
<1>8. Registered(cursor[d].deployment) \subseteq Subscriber
  BY <1>3 DEF Registered, Subs
<1> QED
  BY <1>1, <1>3, <1>4, <1>7, <1>8

\* Writing one receipt keeps the table well typed.
LEMMA ReceiptWrite ==
  ASSUME receipt \in [Subscriber -> [Event -> Receipt]],
         NEW s \in Subscriber, NEW e \in Event, NEW r \in Receipt
  PROVE  [receipt EXCEPT ![s][e] = r] \in [Subscriber -> [Event -> Receipt]]
OBVIOUS

LEMMA InitShape == Init => Shape
BY OutboxAssumption
DEF Init, Shape, TypeOK, ProcessingCounted, Receipt, Status, Absent, Cursor,
    NoCursor, Job, NoJob

LEMMA StartDrainShape ==
  ASSUME Shape, NEW d \in Drain, StartDrain(d) PROVE Shape'
BY DEF Shape, TypeOK, ProcessingCounted, StartDrain, Cursor, NoCursor, rows, bounds

LEMMA StopTypes ==
  ASSUME TypeOK, NEW d \in Drain, Stop(d)
  PROVE  /\ pc' \in [Drain -> {"idle", "scan", "claim", "call", "done"}]
         /\ cursor' \in [Drain -> Cursor]
         /\ job' \in [Drain -> Job]
         /\ \A x \in Drain : pc'[x] # "idle" => cursor'[x].deployment \in Deployment
         /\ \A x \in Drain : pc'[x] \in {"claim", "call", "done"} =>
               job'[x].sub \in Subscriber /\ job'[x].event \in enqueued
BY DEF TypeOK, Stop, Cursor, NoCursor, Job, NoJob

LEMMA ResumeTypes ==
  ASSUME TypeOK, NEW d \in Drain, pc[d] # "idle", Resume(d)
  PROVE  /\ pc' \in [Drain -> {"idle", "scan", "claim", "call", "done"}]
         /\ cursor' \in [Drain -> Cursor]
         /\ job' \in [Drain -> Job]
         /\ \A x \in Drain : pc'[x] # "idle" => cursor'[x].deployment \in Deployment
         /\ \A x \in Drain : pc'[x] \in {"claim", "call", "done"} =>
               job'[x].sub \in Subscriber /\ job'[x].event \in enqueued
BY DEF TypeOK, Resume, Job, NoJob

LEMMA ScanShape ==
  ASSUME Shape, NEW d \in Drain, ScanHit(d) \/ ScanMiss(d) \/ EndDrain(d)
  PROVE  Shape'
<1>1. CASE ScanHit(d)
  <2>1. /\ Scanned(d) \in Subscriber
        /\ Len(Subs(d)) \in Nat \ {0}
        /\ cursor[d].deployment \in Deployment
    BY <1>1, ScannedType DEF Shape, ScanHit, Scanning
  <2>2. cursor[d].next + cursor[d].offset + 1 \in Nat
    BY DEF Shape, TypeOK, Cursor
  <2>3. (cursor[d].next + cursor[d].offset + 1) % Len(Subs(d)) \in Nat
    BY <2>1, <2>2, ModRange
  <2>4. cursor' \in [Drain -> Cursor]
    <3> DEFINE n == (cursor[d].next + cursor[d].offset + 1) % Len(Subs(d))
               c == [deployment |-> cursor[d].deployment, next |-> n, offset |-> 0,
                     examined |-> cursor[d].examined + 1]
    <3>1. cursor \in [Drain -> Cursor]
      BY DEF Shape, TypeOK
    <3>2. cursor' = [cursor EXCEPT ![d] = c]
      BY <1>1 DEF ScanHit
    <3>3. n \in Nat
      BY <2>3
    <3> HIDE DEF n
    <3>4. c \in Cursor
      BY <3>1, <3>3 DEF Cursor
    <3> QED
      BY <3>1, <3>2, <3>4
  <2>5. PICK e \in Candidates(Scanned(d)) :
          job' = [job EXCEPT ![d] = [sub |-> Scanned(d), event |-> e]]
    BY <1>1 DEF ScanHit
  <2>6. e \in enqueued /\ e \in Event
    BY <2>5 DEF Candidates, Shape, TypeOK
  <2>7. job' \in [Drain -> Job]
    BY <2>1, <2>5, <2>6 DEF Shape, TypeOK, Job
  <2>8. \A x \in Drain : cursor'[x].deployment = cursor[x].deployment
    BY <1>1 DEF ScanHit, Shape, TypeOK, Cursor
  <2>9. \A x \in Drain : pc'[x] \in {"claim", "call", "done"} =>
           job'[x].sub \in Subscriber /\ job'[x].event \in enqueued
    BY <1>1, <2>1, <2>5, <2>6 DEF ScanHit, Shape, TypeOK
  <2>10. \A x \in Drain : pc'[x] # "idle" => cursor'[x].deployment \in Deployment
    BY <1>1, <2>8, <2>1 DEF ScanHit, Shape, TypeOK
  <2> QED
    BY <1>1, <2>4, <2>7, <2>9, <2>10
    DEF ScanHit, Shape, TypeOK, ProcessingCounted, rows, bounds
<1>2. CASE ScanMiss(d)
  BY <1>2 DEF ScanMiss, Shape, TypeOK, ProcessingCounted, Cursor, rows, bounds
<1>3. CASE EndDrain(d)
  BY <1>3, StopTypes DEF EndDrain, Shape, TypeOK, ProcessingCounted, rows, bounds
<1> QED
  BY <1>1, <1>2, <1>3

\* Every way a claim can end.
LEMMA ClaimShape ==
  ASSUME Shape, NEW d \in Drain, Claim(d)
  PROVE  Shape'
<1> DEFINE s == job[d].sub
           e == job[d].event
<1>0. /\ pc[d] = "claim" /\ s \in Subscriber /\ e \in Event /\ e \in enqueued
      /\ receipt[s][e] \in Receipt /\ Lease \in Nat \ {0}
      /\ cursor[d].deployment \in Deployment
  <2>1. pc[d] = "claim"
    BY DEF Claim, ClaimAttempt, ClaimExhausted, ClaimRefused, ClaimContended
  <2>2. /\ s \in Subscriber /\ e \in enqueued /\ enqueued \subseteq Event
        /\ cursor[d].deployment \in Deployment
    BY <2>1 DEF Shape, TypeOK
  <2>3. receipt[s][e] \in Receipt
    BY <2>2 DEF Shape, TypeOK
  <2> QED
    BY <2>1, <2>2, <2>3, OutboxAssumption
<1>1. CASE ClaimAttempt(d)
  <2> DEFINE r == [status |-> "processing", attempts |-> receipt[s][e].attempts + 1,
                   owner |-> d, timer |-> Lease]
  <2>1. r \in Receipt /\ r.status = "processing" /\ r.attempts > 0
    BY <1>0 DEF Receipt, Status
  <2>2. receipt' = [receipt EXCEPT ![s][e] = r]
    BY <1>1 DEF ClaimAttempt
  <2> HIDE DEF r
  <2>3. receipt' \in [Subscriber -> [Event -> Receipt]]
    BY <1>0, <2>1, <2>2, ReceiptWrite DEF Shape, TypeOK
  <2>4. ProcessingCounted'
    BY <1>0, <2>1, <2>2 DEF Shape, TypeOK, ProcessingCounted
  <2> QED
    BY <1>0, <1>1, <2>3, <2>4 DEF ClaimAttempt, Shape, TypeOK, bounds
<1>2. CASE ClaimExhausted(d)
  <2> DEFINE r == [receipt[s][e] EXCEPT !.status = "failed", !.owner = None]
  <2>1. r \in Receipt /\ r.status = "failed"
    BY <1>0 DEF Receipt, Status
  <2>2. receipt' = [receipt EXCEPT ![s][e] = r]
    BY <1>0, <1>2 DEF ClaimExhausted, Shape, TypeOK
  <2> HIDE DEF r
  <2>3. receipt' \in [Subscriber -> [Event -> Receipt]]
    BY <1>0, <2>1, <2>2, ReceiptWrite DEF Shape, TypeOK
  <2>4. ProcessingCounted'
    BY <1>0, <2>1, <2>2 DEF Shape, TypeOK, ProcessingCounted
  <2> QED
    BY <1>0, <1>2, <2>3, <2>4, ResumeTypes DEF ClaimExhausted, Shape, TypeOK, bounds
<1>3. CASE ClaimRefused(d)
  BY <1>3, StopTypes DEF ClaimRefused, Shape, TypeOK, ProcessingCounted, rows, bounds
<1>4. CASE ClaimContended(d)
  BY <1>0, <1>4, ResumeTypes
  DEF ClaimContended, Shape, TypeOK, ProcessingCounted, rows, bounds
<1> QED
  BY <1>1, <1>2, <1>3, <1>4 DEF Claim

LEMMA HandlerShape ==
  ASSUME Shape
  PROVE  /\ \A d \in Drain : Land(d) => Shape'
         /\ \A s \in Subscriber, e \in Event : LateLand(s, e) => Shape'
<1>1. ASSUME NEW d \in Drain, Land(d) PROVE Shape'
  <2>1. <<job[d].sub, job[d].event>> \in Subscriber \X enqueued
    BY <1>1 DEF Land, Shape, TypeOK
  <2> QED
    BY <1>1, <2>1 DEF Land, Shape, TypeOK, ProcessingCounted, rows, bounds
<1>2. ASSUME NEW s \in Subscriber, NEW e \in Event, LateLand(s, e) PROVE Shape'
  BY <1>2 DEF LateLand, Shape, TypeOK, ProcessingCounted, rows, bounds
<1> QED
  BY <1>1, <1>2

LEMMA SettleDeliveredShape ==
  ASSUME Shape, NEW d \in Drain, SettleDelivered(d)
  PROVE  Shape'
<1> DEFINE s == job[d].sub
           e == job[d].event
           r == [receipt[s][e] EXCEPT !.status = "delivered", !.owner = None, !.timer = 0]
<1>0. pc[d] = "done" /\ s \in Subscriber /\ e \in Event /\ e \in enqueued
  BY DEF SettleDelivered, Shape, TypeOK
<1>1. receipt[s][e] \in Receipt
  BY <1>0 DEF Shape, TypeOK
<1>2. r \in Receipt /\ r.status = "delivered"
  BY <1>1 DEF Receipt, Status
<1>3. receipt' = receipt \/ receipt' = [receipt EXCEPT ![s][e] = r]
  BY <1>0 DEF SettleDelivered, Shape, TypeOK
<1> HIDE DEF r
<1> HIDE DEF s, e
<1>4. receipt' \in [Subscriber -> [Event -> Receipt]]
  <2>1. receipt \in [Subscriber -> [Event -> Receipt]]
    BY DEF Shape, TypeOK
  <2>2. [receipt EXCEPT ![s][e] = r] \in [Subscriber -> [Event -> Receipt]]
    BY <1>0, <1>2, <2>1, ReceiptWrite
  <2> QED
    BY <1>3, <2>1, <2>2
<1>5. ProcessingCounted'
  <2>1. receipt \in [Subscriber -> [Event -> Receipt]] /\ ProcessingCounted
    BY DEF Shape, TypeOK
  <2>2. CASE receipt' = receipt
    BY <2>1, <2>2 DEF ProcessingCounted
  <2>3. CASE receipt' = [receipt EXCEPT ![s][e] = r]
    BY <1>0, <1>2, <2>1, <2>3 DEF ProcessingCounted
  <2> QED
    BY <1>3, <2>2, <2>3
<1>6. published' \subseteq enqueued
  BY <1>0 DEF s, e, SettleDelivered, Shape, TypeOK
<1>7. UNCHANGED <<enqueued, landed, late, faults, retries>> /\ Resume(d)
  BY DEF SettleDelivered, bounds
<1> QED
  BY <1>0, <1>4, <1>5, <1>6, <1>7, ResumeTypes DEF Shape, TypeOK

LEMMA SettleFailureShape ==
  ASSUME Shape, NEW d \in Drain, SettleFailure(d)
  PROVE  Shape'
<1> DEFINE s == job[d].sub
           e == job[d].event
           n == receipt[s][e].attempts
           f == [receipt[s][e] EXCEPT !.status = "failed", !.owner = None, !.timer = 0]
           p == [receipt[s][e] EXCEPT !.status = "pending", !.owner = None,
                                      !.timer = RetryDelay[n]]
<1>0. pc[d] \in {"call", "done"} /\ s \in Subscriber /\ e \in Event /\ e \in enqueued
  BY DEF SettleFailure, Shape, TypeOK
<1>1. receipt[s][e] \in Receipt /\ receipt \in [Subscriber -> [Event -> Receipt]]
  BY <1>0 DEF Shape, TypeOK
<1>2. f \in Receipt /\ f.status = "failed"
  BY <1>1 DEF Receipt, Status
<1>3. ASSUME Owns(d), ~(n >= MaxAttempts(d)) PROVE p \in Receipt /\ p.status = "pending"
  <2>1. n \in Nat \ {0}
    BY <1>0, <1>1, <1>3 DEF Owns, Shape, ProcessingCounted, Receipt
  <2>2. cursor[d].deployment \in Deployment /\ MaxAttempts(d) \in Nat \ {0}
    BY <1>0, ScannedType DEF Shape
  <2>3. n \in 1..(MaxAttempts(d) - 1)
    BY <2>1, <2>2, <1>3
  <2>4. RetryDelay[n] \in Nat
    BY <2>2, <2>3, OutboxAssumption DEF MaxAttempts
  <2> QED
    BY <1>1, <2>4 DEF Receipt, Status
<1>4. \/ receipt' = receipt
      \/ receipt' = [receipt EXCEPT ![s][e] = f]
      \/ Owns(d) /\ ~(n >= MaxAttempts(d)) /\ receipt' = [receipt EXCEPT ![s][e] = p]
  <2>1. CASE ~Owns(d)
    BY <2>1 DEF SettleFailure
  <2>2. CASE Owns(d) /\ n >= MaxAttempts(d)
    BY <1>0, <1>1, <2>2 DEF SettleFailure
  <2>3. CASE Owns(d) /\ ~(n >= MaxAttempts(d))
    BY <1>0, <1>1, <2>3, ZenonT(60) DEF SettleFailure
  <2> QED
    BY <2>1, <2>2, <2>3
<1>5. late' \subseteq Subscriber \X enqueued
  <2>1. <<s, e>> \in Subscriber \X enqueued /\ late \subseteq Subscriber \X enqueued
    BY <1>0 DEF Shape, TypeOK
  <2>2. late' = late \/ late' = late \cup {<<s, e>>}
    BY DEF SettleFailure, Abandon
  <2> QED
    BY <2>1, <2>2
<1> HIDE DEF f, p, n, s, e
<1>6. \/ receipt' = receipt
      \/ \E r \in Receipt : r.status # "processing" /\ receipt' = [receipt EXCEPT ![s][e] = r]
  BY <1>2, <1>3, <1>4
<1>7. receipt' \in [Subscriber -> [Event -> Receipt]]
  <2>1. ASSUME NEW r \in Receipt
        PROVE  [receipt EXCEPT ![s][e] = r] \in [Subscriber -> [Event -> Receipt]]
    BY <1>0, <1>1, ReceiptWrite
  <2> QED
    BY <1>1, <1>6, <2>1
<1>8. ProcessingCounted'
  BY <1>0, <1>1, <1>6 DEF Shape, ProcessingCounted
<1>9. UNCHANGED <<enqueued, published, landed, faults, retries>> /\ Resume(d)
  BY DEF SettleFailure, bounds
<1> QED
  BY <1>0, <1>5, <1>7, <1>8, <1>9, ResumeTypes DEF Shape, TypeOK

LEMMA CrashShape ==
  ASSUME Shape, NEW d \in Drain, Crash(d)
  PROVE  Shape'
<1>1. late' \subseteq Subscriber \X enqueued
  BY DEF Crash, Abandon, Shape, TypeOK
<1>2. UNCHANGED <<enqueued, published, receipt, landed, retries>> /\ Stop(d)
  BY DEF Crash, rows
<1>3. faults' \in Nat
  BY DEF Crash, Shape, TypeOK
<1> QED
  BY <1>1, <1>2, <1>3, StopTypes DEF Shape, TypeOK, ProcessingCounted

LEMMA OutsideShape ==
  ASSUME Shape
  PROVE  /\ \A e \in Event : Enqueue(e) => Shape'
         /\ \A s \in Subscriber, e \in Event : RetryFailed(s, e) => Shape'
         /\ Tick => Shape'
<1>1. ASSUME NEW e \in Event, Enqueue(e) PROVE Shape'
  BY <1>1 DEF Enqueue, Shape, TypeOK, ProcessingCounted, bounds
<1>2. ASSUME NEW s \in Subscriber, NEW e \in Event, RetryFailed(s, e) PROVE Shape'
  <2> DEFINE r == [status |-> "pending", attempts |-> 0, owner |-> None, timer |-> 0]
  <2>1. r \in Receipt /\ r.status = "pending"
    BY DEF Receipt, Status
  <2>2. receipt' = [receipt EXCEPT ![s][e] = r]
    BY <1>2 DEF RetryFailed
  <2> HIDE DEF r
  <2>3. receipt' \in [Subscriber -> [Event -> Receipt]]
    BY <2>1, <2>2, ReceiptWrite DEF Shape, TypeOK
  <2>4. ProcessingCounted'
    BY <2>1, <2>2 DEF Shape, TypeOK, ProcessingCounted
  <2> QED
    BY <1>2, <2>3, <2>4 DEF RetryFailed, Shape, TypeOK
<1>3. ASSUME Tick PROVE Shape'
  <2>1. ASSUME NEW s \in Subscriber, NEW e \in Event
        PROVE  /\ receipt'[s][e] \in Receipt
               /\ receipt'[s][e].status = receipt[s][e].status
               /\ receipt'[s][e].attempts = receipt[s][e].attempts
    <3> DEFINE r == receipt[s][e]
               t == IF r.timer > 0 THEN r.timer - 1 ELSE 0
    <3>1. receipt'[s][e] = [r EXCEPT !.timer = t]
      BY <1>3 DEF Tick
    <3>2. r \in Receipt
      BY DEF Shape, TypeOK
    <3>3. t \in Nat
      BY <3>2 DEF Receipt
    <3> HIDE DEF t, r
    <3>4. receipt'[s][e].status = r.status /\ receipt'[s][e].attempts = r.attempts
      BY <3>1, <3>2 DEF Receipt
    <3> QED
      BY <3>1, <3>2, <3>3, <3>4 DEF Receipt, r
  <2>2. receipt' \in [Subscriber -> [Event -> Receipt]]
    BY <1>3, <2>1 DEF Tick
  <2>3. ProcessingCounted'
    BY <2>1 DEF Shape, ProcessingCounted
  <2> QED
    BY <1>3, <2>2, <2>3 DEF Tick, Shape, TypeOK, bounds
<1> QED
  BY <1>1, <1>2, <1>3

LEMMA ShapeStep == Shape /\ [Next]_vars => Shape'
<1> SUFFICES ASSUME Shape, [Next]_vars PROVE Shape'
  OBVIOUS
<1>1. ASSUME NEW d \in Drain, Step(d) \/ Land(d) \/ Crash(d) PROVE Shape'
  BY <1>1, StartDrainShape, ScanShape, ClaimShape, HandlerShape,
     SettleDeliveredShape, SettleFailureShape, CrashShape
  DEF Step, Settle
<1>2. CASE UNCHANGED vars
  BY <1>2 DEF vars, Shape, TypeOK, ProcessingCounted
<1> QED
  BY <1>1, <1>2, HandlerShape, OutsideShape DEF Next

\* Every drain holds a known deployment while it runs and a registered
\* subscriber and enqueued event while it claims or calls, and the tables
\* have their columns' types, for any configuration.
THEOREM TypeCorrect == Spec => []TypeOK
<1>1. Spec => []Shape
  BY InitShape, ShapeStep, PTL DEF Spec
<1>2. Shape => TypeOK
  BY DEF Shape
<1> QED
  BY <1>1, <1>2, PTL

----------------------------------------------------------------------------
(* What one step can do to a row *)

\* What a step may make of the row of (s, e): it never leaves delivered, never
\* goes away, appears only in order, becomes delivered only after the effect
\* landed, stays within a budget, fails only when one is spent, and is put off
\* only when one is not.
RowStep(s, e) ==
  LET r == receipt[s][e]  q == receipt'[s][e] IN
  /\ r.status = "delivered" => q.status = "delivered"
  /\ r.status # "none" => q.status # "none"
  /\ r.status = "none" /\ q.status # "none" => PriorsDone(s, e)
  /\ q.status = "delivered" =>
       \/ r.status = "delivered"
       \/ \E d \in Drain : pc[d] = "done" /\ job[d].sub = s /\ job[d].event = e
  /\ \/ q.attempts = r.attempts
     \/ q.attempts = 0
     \/ \E dep \in Deployment : q.attempts <= dep.maxAttempts
  /\ q.status = "failed" =>
       \/ r.status = "failed" /\ q.attempts = r.attempts
       \/ \E dep \in Deployment : q.attempts >= dep.maxAttempts
  /\ q.status = "pending" =>
       \/ r.status = "pending" /\ q.attempts = r.attempts
       \/ \E dep \in Deployment : q.attempts < dep.maxAttempts

LEMMA SameRows == UNCHANGED receipt => \A s \in Subscriber, e \in Event : RowStep(s, e)
BY DEF RowStep

\* Only the written row needs a look.
LEMMA RowWrite ==
  ASSUME receipt \in [Subscriber -> [Event -> Receipt]],
         NEW t \in Subscriber, NEW f \in Event, NEW r,
         receipt' = [receipt EXCEPT ![t][f] = r],
         RowStep(t, f)
  PROVE  \A s \in Subscriber, e \in Event : RowStep(s, e)
<1> SUFFICES ASSUME NEW s \in Subscriber, NEW e \in Event,
                    s # t \/ e # f
             PROVE  RowStep(s, e)
  OBVIOUS
<1>1. receipt'[s][e] = receipt[s][e]
  OBVIOUS
<1> QED
  BY <1>1 DEF RowStep

LEMMA ClaimRows ==
  ASSUME Shape, NEW d \in Drain, Claim(d)
  PROVE  \A s \in Subscriber, e \in Event : RowStep(s, e)
<1> DEFINE s == job[d].sub
           e == job[d].event
<1>0. /\ pc[d] = "claim" /\ s \in Subscriber /\ e \in Event
      /\ receipt \in [Subscriber -> [Event -> Receipt]]
      /\ receipt[s][e] \in Receipt
      /\ cursor[d].deployment \in Deployment /\ MaxAttempts(d) \in Nat \ {0}
  BY ScannedType
  DEF Claim, ClaimAttempt, ClaimExhausted, ClaimRefused, ClaimContended, Shape, TypeOK
<1>1. CASE ClaimAttempt(d)
  <2> DEFINE r == [status |-> "processing", attempts |-> receipt[s][e].attempts + 1,
                   owner |-> d, timer |-> Lease]
  <2>1. /\ receipt' = [receipt EXCEPT ![s][e] = r]
        /\ receipt[s][e].status # "delivered"
        /\ receipt[s][e].attempts < MaxAttempts(d)
        /\ PriorsDone(s, e)
    BY <1>1 DEF ClaimAttempt, Claimable, Due
  <2>2. receipt'[s][e] = r
    BY <1>0, <2>1
  <2>3. r.status = "processing" /\ r.attempts <= cursor[d].deployment.maxAttempts
    BY <1>0, <2>1 DEF MaxAttempts, Receipt
  <2> HIDE DEF r, s, e
  <2>4. RowStep(s, e)
    BY <1>0, <2>1, <2>2, <2>3 DEF RowStep
  <2> QED
    BY <1>0, <2>1, <2>4, RowWrite
<1>2. CASE ClaimExhausted(d)
  <2> DEFINE r == [receipt[s][e] EXCEPT !.status = "failed", !.owner = None]
  <2>1. /\ receipt' = [receipt EXCEPT ![s][e] = r]
        /\ receipt[s][e].status = "processing"
        /\ receipt[s][e].attempts >= MaxAttempts(d)
    BY <1>0, <1>2 DEF ClaimExhausted, Exhausted
  <2>2. receipt'[s][e] = r
    BY <1>0, <2>1
  <2>3. r.status = "failed" /\ r.attempts = receipt[s][e].attempts
    BY <1>0 DEF Receipt
  <2> HIDE DEF r, s, e
  <2>4. RowStep(s, e)
    BY <1>0, <2>1, <2>2, <2>3 DEF RowStep, MaxAttempts
  <2> QED
    BY <1>0, <2>1, <2>4, RowWrite
<1>3. CASE ClaimRefused(d) \/ ClaimContended(d)
  BY <1>3, SameRows DEF ClaimRefused, ClaimContended, rows
<1> QED
  BY <1>1, <1>2, <1>3 DEF Claim

LEMMA SettleRows ==
  ASSUME Shape, NEW d \in Drain, Settle(d)
  PROVE  \A s \in Subscriber, e \in Event : RowStep(s, e)
<1> DEFINE s == job[d].sub
           e == job[d].event
<1>0. /\ pc[d] \in {"call", "done"} /\ s \in Subscriber /\ e \in Event
      /\ receipt \in [Subscriber -> [Event -> Receipt]]
      /\ receipt[s][e] \in Receipt
      /\ cursor[d].deployment \in Deployment
  <2>1. pc[d] \in {"call", "done"}
    BY DEF Settle, SettleDelivered, SettleFailure
  <2> QED
    BY <2>1 DEF Shape, TypeOK
<1>1. CASE UNCHANGED receipt
  BY <1>1, SameRows
<1>2. CASE SettleDelivered(d) /\ Owns(d)
  <2> DEFINE r == [receipt[s][e] EXCEPT !.status = "delivered", !.owner = None, !.timer = 0]
  <2>1. /\ receipt' = [receipt EXCEPT ![s][e] = r]
        /\ pc[d] = "done" /\ job[d].sub = s /\ job[d].event = e
        /\ receipt[s][e].status = "processing"
    BY <1>0, <1>2 DEF SettleDelivered, Owns
  <2>2. receipt'[s][e] = r
    BY <1>0, <2>1
  <2>3. r.status = "delivered" /\ r.attempts = receipt[s][e].attempts
    BY <1>0 DEF Receipt
  <2> HIDE DEF r, s, e
  <2>4. RowStep(s, e)
    BY <2>1, <2>2, <2>3 DEF RowStep
  <2> QED
    BY <1>0, <2>1, <2>4, RowWrite
<1>3. CASE SettleFailure(d) /\ Owns(d)
  <2> DEFINE n == receipt[s][e].attempts
             f == [receipt[s][e] EXCEPT !.status = "failed", !.owner = None, !.timer = 0]
             p == [receipt[s][e] EXCEPT !.status = "pending", !.owner = None,
                                        !.timer = RetryDelay[n]]
  <2>1. receipt[s][e].status = "processing"
    BY <1>3 DEF Owns
  <2>2. CASE n >= MaxAttempts(d)
    <3>1. receipt' = [receipt EXCEPT ![s][e] = f]
      BY <1>0, <1>3, <2>2 DEF SettleFailure
    <3>2. receipt'[s][e] = f
      BY <1>0, <3>1
    <3>3. f.status = "failed" /\ f.attempts = n
      BY <1>0 DEF Receipt
    <3> HIDE DEF f, s, e
    <3>4. RowStep(s, e)
      BY <1>0, <2>1, <2>2, <3>2, <3>3 DEF RowStep, MaxAttempts
    <3> QED
      BY <1>0, <3>1, <3>4, RowWrite
  <2>3. CASE ~(n >= MaxAttempts(d))
    <3>1. receipt' = [receipt EXCEPT ![s][e] = p]
      BY <1>0, <1>3, <2>3 DEF SettleFailure
    <3>2. receipt'[s][e] = p
      BY <1>0, <3>1
    <3>3. p.status = "pending" /\ p.attempts = n
      BY <1>0 DEF Receipt
    <3> HIDE DEF p, s, e
    <3>4. \E dep \in Deployment : n < dep.maxAttempts
      <4>1. cursor[d].deployment.maxAttempts \in Nat /\ n \in Nat
        BY <1>0, OutboxAssumption DEF Deployments, Receipt
      <4> QED
        BY <1>0, <2>3, <4>1 DEF MaxAttempts
    <3>5. RowStep(s, e)
      BY <2>1, <3>2, <3>3, <3>4 DEF RowStep
    <3> QED
      BY <1>0, <3>1, <3>5, RowWrite
  <2> QED
    BY <2>2, <2>3
<1> QED
  BY <1>1, <1>2, <1>3 DEF Settle, SettleDelivered, SettleFailure

LEMMA OutsideRows ==
  ASSUME Shape
  PROVE  /\ \A t \in Subscriber, f \in Event : RetryFailed(t, f) =>
              \A s \in Subscriber, e \in Event : RowStep(s, e)
         /\ Tick => \A s \in Subscriber, e \in Event : RowStep(s, e)
<1>0. receipt \in [Subscriber -> [Event -> Receipt]]
  BY DEF Shape, TypeOK
<1>1. ASSUME NEW t \in Subscriber, NEW f \in Event, RetryFailed(t, f)
      PROVE  \A s \in Subscriber, e \in Event : RowStep(s, e)
  <2> DEFINE r == [status |-> "pending", attempts |-> 0, owner |-> None, timer |-> 0]
  <2>1. receipt' = [receipt EXCEPT ![t][f] = r] /\ receipt[t][f].status = "failed"
    BY <1>1 DEF RetryFailed
  <2>2. receipt'[t][f] = r
    BY <1>0, <2>1
  <2>3. \E dep \in Deployment : 0 < dep.maxAttempts
    BY <1>1, OutboxAssumption DEF RetryFailed, Deployments
  <2>4. RowStep(t, f)
    BY <2>1, <2>2, <2>3 DEF RowStep
  <2> QED
    BY <1>0, <2>1, <2>4, RowWrite
<1>2. ASSUME Tick, NEW s \in Subscriber, NEW e \in Event PROVE RowStep(s, e)
  <2>1. receipt[s][e] \in Receipt
    BY <1>0
  <2>2. receipt'[s][e] = [receipt[s][e] EXCEPT !.timer = IF @ > 0 THEN @ - 1 ELSE 0]
    BY <1>2 DEF Tick
  <2>3. /\ receipt'[s][e].status = receipt[s][e].status
        /\ receipt'[s][e].attempts = receipt[s][e].attempts
    BY <2>1, <2>2 DEF Receipt
  <2> QED
    BY <2>3 DEF RowStep
<1> QED
  BY <1>1, <1>2

LEMMA RowsStep ==
  ASSUME Shape, [Next]_vars
  PROVE  \A s \in Subscriber, e \in Event : RowStep(s, e)
<1>1. CASE UNCHANGED receipt
  BY <1>1, SameRows
<1>2. ASSUME NEW d \in Drain, Step(d) \/ Land(d) \/ Crash(d)
      PROVE  UNCHANGED receipt \/ Claim(d) \/ Settle(d)
  BY <1>2 DEF Step, StartDrain, ScanHit, ScanMiss, EndDrain, Land, Crash, rows
<1>3. ASSUME NEW e \in Event, Enqueue(e) PROVE UNCHANGED receipt
  BY <1>3 DEF Enqueue
<1>4. ASSUME NEW s \in Subscriber, NEW e \in Event, LateLand(s, e)
      PROVE  UNCHANGED receipt
  BY <1>4 DEF LateLand, rows
<1>5. UNCHANGED vars => UNCHANGED receipt
  BY DEF vars
<1> QED
  BY <1>1, <1>2, <1>3, <1>4, <1>5, ClaimRows, SettleRows, OutsideRows DEF Next

----------------------------------------------------------------------------
(* What one step can do to a drain and to the effects *)

LEMMA TablesGrow ==
  ASSUME [Next]_vars
  PROVE  enqueued \subseteq enqueued' /\ published \subseteq published' /\ landed \subseteq landed'
<1>1. ASSUME NEW d \in Drain, Step(d) \/ Land(d) \/ Crash(d)
      PROVE  enqueued \subseteq enqueued' /\ published \subseteq published' /\ landed \subseteq landed'
  BY <1>1 DEF Step, StartDrain, ScanHit, ScanMiss, EndDrain, Claim, ClaimAttempt,
     ClaimExhausted, ClaimRefused, ClaimContended, Settle, SettleDelivered,
     SettleFailure, Land, Crash, rows
<1>2. ASSUME NEW e \in Event, Enqueue(e)
      PROVE  enqueued \subseteq enqueued' /\ published \subseteq published' /\ landed \subseteq landed'
  BY <1>2 DEF Enqueue
<1>3. ASSUME NEW s \in Subscriber, NEW e \in Event, LateLand(s, e) \/ RetryFailed(s, e)
      PROVE  enqueued \subseteq enqueued' /\ published \subseteq published' /\ landed \subseteq landed'
  BY <1>3 DEF LateLand, RetryFailed, rows
<1>4. CASE Tick
  BY <1>4 DEF Tick
<1>5. CASE UNCHANGED vars
  BY <1>5 DEF vars
<1> QED
  BY <1>1, <1>2, <1>3, <1>4, <1>5 DEF Next

\* What the order let through once stays let through.
LEMMA PriorsDoneStable ==
  ASSUME Shape, [Next]_vars, NEW s \in Subscriber, NEW e \in Event, PriorsDone(s, e)
  PROVE  PriorsDone(s, e)'
<1>1. Prior[e] \subseteq Event
  BY OutboxAssumption
<1>2. \A p \in Prior[e] : receipt[s][p].status = "delivered" => receipt'[s][p].status = "delivered"
  BY <1>1, RowsStep DEF RowStep
<1> QED
  BY <1>2, TablesGrow DEF PriorsDone

\* A drain comes to claim through the query of candidate, to call through a
\* receipt it wrote, and is done when the effect is there.
LEMMA DrainStep ==
  ASSUME Shape, [Next]_vars, NEW x \in Drain
  PROVE  /\ pc'[x] = "claim" =>
              \/ pc[x] = "claim" /\ job'[x] = job[x]
              \/ PriorsDone(job'[x].sub, job'[x].event)
         /\ pc'[x] \in {"call", "done"} =>
              \/ pc[x] \in {"call", "done"} /\ job'[x] = job[x]
              \/ receipt'[job'[x].sub][job'[x].event].status # "none"
         /\ pc'[x] = "done" =>
              \/ pc[x] = "done" /\ job'[x] = job[x]
              \/ <<job'[x].sub, job'[x].event>> \in landed'
<1> DEFINE G == /\ pc'[x] = "claim" =>
                     \/ pc[x] = "claim" /\ job'[x] = job[x]
                     \/ PriorsDone(job'[x].sub, job'[x].event)
                /\ pc'[x] \in {"call", "done"} =>
                     \/ pc[x] \in {"call", "done"} /\ job'[x] = job[x]
                     \/ receipt'[job'[x].sub][job'[x].event].status # "none"
                /\ pc'[x] = "done" =>
                     \/ pc[x] = "done" /\ job'[x] = job[x]
                     \/ <<job'[x].sub, job'[x].event>> \in landed'
<1>0. pc \in [Drain -> {"idle", "scan", "claim", "call", "done"}] /\ job \in [Drain -> Job]
  BY DEF Shape, TypeOK
<1>1. CASE UNCHANGED <<pc, job>>
  BY <1>1
<1>2. ASSUME NEW d \in Drain, StartDrain(d) \/ Stop(d) \/ Resume(d) PROVE G
  BY <1>0, <1>2 DEF StartDrain, Stop, Resume
<1>3. ASSUME NEW d \in Drain, ScanHit(d) PROVE G
  BY <1>0, <1>3 DEF ScanHit, Candidates
<1>4. ASSUME NEW d \in Drain, ClaimAttempt(d) PROVE G
  <2>1. /\ receipt \in [Subscriber -> [Event -> Receipt]]
        /\ job[d].sub \in Subscriber /\ job[d].event \in Event
    BY <1>4 DEF ClaimAttempt, Shape, TypeOK
  <2>2. receipt'[job[d].sub][job[d].event].status = "processing"
    BY <1>4, <2>1 DEF ClaimAttempt
  <2> QED
    BY <1>0, <1>4, <2>2 DEF ClaimAttempt
<1>5. ASSUME NEW d \in Drain, Step(d) \/ Land(d) \/ Crash(d)
      PROVE  \/ UNCHANGED <<pc, job>>
             \/ StartDrain(d) \/ Stop(d) \/ Resume(d) \/ ScanHit(d) \/ ClaimAttempt(d)
             \/ Land(d)
  BY <1>5 DEF Step, Claim, Settle, ScanMiss, EndDrain, ClaimExhausted, ClaimRefused,
     ClaimContended, SettleDelivered, SettleFailure, Crash
<1>10. ASSUME NEW d \in Drain, Land(d) PROVE G
  BY <1>0, <1>10 DEF Land
<1>6. ASSUME NEW s \in Subscriber, NEW e \in Event,
             Enqueue(e) \/ LateLand(s, e) \/ RetryFailed(s, e)
      PROVE  UNCHANGED <<pc, job>>
  BY <1>6 DEF Enqueue, LateLand, RetryFailed
<1>7. ASSUME NEW e \in Event, Enqueue(e) PROVE UNCHANGED <<pc, job>>
  BY <1>7 DEF Enqueue
<1>8. Tick \/ UNCHANGED vars => UNCHANGED <<pc, job>>
  BY DEF Tick, vars
<1> HIDE DEF G
<1>9. G
  BY <1>1, <1>2, <1>3, <1>4, <1>5, <1>6, <1>7, <1>8, <1>10 DEF Next, G
<1> QED
  BY <1>9 DEF G

\* An effect, now or to come, was already one or is that of a call.
LEMMA EffectStep ==
  ASSUME Shape, [Next]_vars, NEW s \in Subscriber, NEW e \in Event,
         <<s, e>> \in landed' \cup late'
  PROVE  \/ <<s, e>> \in landed \cup late
         \/ \E d \in Drain : pc[d] = "call" /\ job[d].sub = s /\ job[d].event = e
<1>1. ASSUME NEW d \in Drain, Step(d) \/ Land(d) \/ Crash(d)
      PROVE  \/ landed' \cup late' \subseteq landed \cup late
             \/ /\ pc[d] = "call"
                /\ landed' \cup late' \subseteq landed \cup late \cup {<<job[d].sub, job[d].event>>}
  BY <1>1 DEF Step, StartDrain, ScanHit, ScanMiss, EndDrain, Claim, ClaimAttempt,
     ClaimExhausted, ClaimRefused, ClaimContended, Settle, SettleDelivered,
     SettleFailure, Land, Crash, Abandon
<1>2. ASSUME NEW t \in Subscriber, NEW f \in Event, LateLand(t, f) \/ RetryFailed(t, f)
      PROVE  landed' \cup late' \subseteq landed \cup late
  BY <1>2 DEF LateLand, RetryFailed
<1>3. ASSUME NEW f \in Event, Enqueue(f)
      PROVE  landed' \cup late' \subseteq landed \cup late
  BY <1>3 DEF Enqueue
<1>4. Tick \/ UNCHANGED vars => landed' \cup late' \subseteq landed \cup late
  BY DEF Tick, vars
<1>5. \/ landed' \cup late' \subseteq landed \cup late
      \/ \E d \in Drain : /\ pc[d] = "call"
                          /\ landed' \cup late' \subseteq landed \cup late \cup {<<job[d].sub, job[d].event>>}
  BY <1>1, <1>2, <1>3, <1>4 DEF Next
<1> QED
  BY <1>5

\* An event is published by a settlement that sees its whole registry done.
LEMMA PublishStep ==
  ASSUME Shape, [Next]_vars, NEW e \in published', e \notin published
  PROVE  \E dep \in Deployment : \A s \in Registered(dep) : receipt'[s][e].status = "delivered"
<1>1. ASSUME NEW d \in Drain, SettleDelivered(d)
      PROVE  \E dep \in Deployment : \A s \in Registered(dep) : receipt'[s][e].status = "delivered"
  <2>1. cursor[d].deployment \in Deployment
    BY <1>1 DEF SettleDelivered, Shape, TypeOK
  <2>2. \A s \in Registered(cursor[d].deployment) : receipt'[s][e].status = "delivered"
    BY <1>1 DEF SettleDelivered, RegistryDone
  <2> QED
    BY <2>1, <2>2
<1>2. ASSUME NEW d \in Drain, Step(d) \/ Land(d) \/ Crash(d)
      PROVE  SettleDelivered(d) \/ UNCHANGED published
  BY <1>2 DEF Step, StartDrain, ScanHit, ScanMiss, EndDrain, Claim, ClaimAttempt,
     ClaimExhausted, ClaimRefused, ClaimContended, Settle, SettleFailure, Land, Crash, rows
<1>3. ASSUME NEW s \in Subscriber, NEW f \in Event, LateLand(s, f) \/ RetryFailed(s, f)
      PROVE  UNCHANGED published
  BY <1>3 DEF LateLand, RetryFailed, rows
<1>4. ASSUME NEW f \in Event, Enqueue(f) PROVE UNCHANGED published
  BY <1>4 DEF Enqueue
<1>5. Tick \/ UNCHANGED vars => UNCHANGED published
  BY DEF Tick, vars
<1> QED
  BY <1>1, <1>2, <1>3, <1>4, <1>5 DEF Next

----------------------------------------------------------------------------
(* The invariant is inductive *)

LEMMA InitIInv == Init => IInv
BY InitShape
DEF Init, IInv, ClaimsInOrder, CallsClaimed, DeliveredLanded, Absent

LEMMA ClaimsInOrderStep ==
  ASSUME IInv, [Next]_vars PROVE ClaimsInOrder'
<1>0. Shape /\ Shape'
  BY ShapeStep DEF IInv
<1>1. ASSUME NEW s \in Subscriber, NEW e \in Event, receipt'[s][e].status # "none"
      PROVE  PriorsDone(s, e)'
  <2>1. PriorsDone(s, e)
    BY <1>0, <1>1, RowsStep DEF RowStep, IInv, ClaimsInOrder
  <2> QED
    BY <1>0, <2>1, PriorsDoneStable
<1>2. ASSUME NEW d \in Drain, pc'[d] = "claim"
      PROVE  PriorsDone(job[d].sub, job[d].event)'
  <2>1. job'[d].sub \in Subscriber /\ job'[d].event \in Event
    BY <1>0, <1>2 DEF Shape, TypeOK
  <2>2. PriorsDone(job'[d].sub, job'[d].event)
    BY <1>0, <1>2, DrainStep DEF IInv, ClaimsInOrder
  <2> DEFINE s == job'[d].sub
             e == job'[d].event
  <2>3. /\ Prior[e] \subseteq Event
        /\ \A p \in Prior[e] : receipt[s][p].status = "delivered" => receipt'[s][p].status = "delivered"
    <3>1. Prior[e] \subseteq Event
      BY <2>1, OutboxAssumption
    <3>2. \A p \in Event : RowStep(s, p)
      BY <1>0, <2>1, RowsStep
    <3> QED
      BY <3>1, <3>2 DEF RowStep
  <2> QED
    BY <2>2, <2>3, TablesGrow DEF PriorsDone
<1> QED
  BY <1>1, <1>2 DEF ClaimsInOrder

LEMMA CallsClaimedStep ==
  ASSUME IInv, [Next]_vars PROVE CallsClaimed'
<1>0. Shape /\ Shape'
  BY ShapeStep DEF IInv
<1>1. ASSUME NEW d \in Drain, pc'[d] \in {"call", "done"}
      PROVE  receipt'[job'[d].sub][job'[d].event].status # "none"
  <2>1. job'[d].sub \in Subscriber /\ job'[d].event \in Event
    BY <1>0, <1>1 DEF Shape, TypeOK
  <2> QED
    <3>1. CASE pc[d] \in {"call", "done"} /\ job'[d] = job[d]
      <4>1. receipt[job'[d].sub][job'[d].event].status # "none"
        BY <3>1 DEF IInv, CallsClaimed
      <4>2. RowStep(job'[d].sub, job'[d].event)
        BY <1>0, <2>1, RowsStep
      <4> QED
        BY <4>1, <4>2 DEF RowStep
    <3>2. CASE ~(pc[d] \in {"call", "done"} /\ job'[d] = job[d])
      BY <1>0, <1>1, <3>2, DrainStep
    <3> QED
      BY <3>1, <3>2
<1>2. ASSUME NEW s \in Subscriber, NEW e \in Event, <<s, e>> \in landed' \cup late'
      PROVE  receipt'[s][e].status # "none"
  <2>1. receipt[s][e].status # "none"
    BY <1>0, <1>2, EffectStep DEF IInv, CallsClaimed
  <2> QED
    BY <1>0, <2>1, RowsStep DEF RowStep
<1>3. ASSUME NEW d \in Drain, pc'[d] = "done"
      PROVE  <<job'[d].sub, job'[d].event>> \in landed'
  BY <1>0, <1>3, DrainStep, TablesGrow DEF IInv, CallsClaimed
<1> QED
  BY <1>1, <1>2, <1>3 DEF CallsClaimed

LEMMA DeliveredLandedStep ==
  ASSUME IInv, [Next]_vars PROVE DeliveredLanded'
BY RowsStep, TablesGrow DEF RowStep, IInv, DeliveredLanded, CallsClaimed

LEMMA IInvStep == IInv /\ [Next]_vars => IInv'
BY ShapeStep, ClaimsInOrderStep, CallsClaimedStep, DeliveredLandedStep DEF IInv

LEMMA Inductive == Spec => []IInv
BY InitIInv, IInvStep, PTL DEF Spec

----------------------------------------------------------------------------
(* What follows *)

\* No effect overtakes an outstanding earlier event of its aggregate, whatever
\* crashes, takeovers, late handlers, retries and changes of registry happen.
THEOREM OrderKept == Spec => []EffectsInOrder
<1>1. IInv => EffectsInOrder
  BY DEF IInv, ClaimsInOrder, CallsClaimed, EffectsInOrder, PriorsDone
<1> QED
  BY <1>1, Inductive, PTL

LEMMA PublishedStep ==
  ASSUME IInv, IInv', PublishedMeansApplied, [Next]_vars
  PROVE  PublishedMeansApplied'
<1>0. /\ Shape /\ DeliveredLanded' /\ published' \subseteq Event
      /\ \A dep \in Deployment : Registered(dep) \subseteq Subscriber
  <2>1. \A dep \in Deployment : dep.subscribers \in Seq(Subscriber)
    BY OutboxAssumption DEF Deployments
  <2> QED
    BY <2>1 DEF IInv, Shape, TypeOK, Registered
<1> SUFFICES ASSUME NEW e \in published'
             PROVE  \E dep \in Deployment : \A s \in Registered(dep) :
                      receipt'[s][e].status = "delivered" /\ <<s, e>> \in landed'
  BY DEF PublishedMeansApplied
<1>1. \E dep \in Deployment : \A s \in Registered(dep) : receipt'[s][e].status = "delivered"
  <2>1. CASE e \in published
    <3>1. PICK dep \in Deployment : \A s \in Registered(dep) : receipt[s][e].status = "delivered"
      BY <2>1 DEF PublishedMeansApplied
    <3>2. \A s \in Registered(dep) : RowStep(s, e)
      BY <1>0, RowsStep
    <3> QED
      BY <3>1, <3>2 DEF RowStep
  <2>2. CASE e \notin published
    BY <1>0, <2>2, PublishStep
  <2> QED
    BY <2>1, <2>2
<1> QED
  BY <1>0, <1>1 DEF DeliveredLanded

\* An event is retired only when one whole registry acknowledged and applied it.
THEOREM PublishedApplied == Spec => []PublishedMeansApplied
<1>1. Init => PublishedMeansApplied
  BY DEF Init, PublishedMeansApplied
<1> QED
  BY <1>1, Inductive, PublishedStep, PTL DEF Spec

LEMMA BudgetStep ==
  ASSUME Shape, BudgetKept, [Next]_vars PROVE BudgetKept'
<1> SUFFICES ASSUME NEW s \in Subscriber, NEW e \in Event
             PROVE  /\ receipt'[s][e].attempts > 0 =>
                         \E dep \in Deployment : receipt'[s][e].attempts <= dep.maxAttempts
                    /\ receipt'[s][e].status = "failed" =>
                         \E dep \in Deployment : receipt'[s][e].attempts >= dep.maxAttempts
  BY DEF BudgetKept
<1>1. RowStep(s, e)
  BY RowsStep
<1> QED
  BY <1>1 DEF RowStep, BudgetKept

\* No attempt exceeds every budget and no receipt fails with budget left under
\* every deployment.
THEOREM BudgetsKept == Spec => []BudgetKept
<1>1. Init => BudgetKept
  BY DEF Init, BudgetKept, Absent
<1>2. IInv => Shape
  BY DEF IInv
<1> QED
  BY <1>1, <1>2, Inductive, BudgetStep, PTL DEF Spec

\* A budget that every deployment has: no release is lowering it.
OneBudget == \A D, F \in Deployment : D.maxAttempts = F.maxAttempts

PendingFits ==
  \A s \in Subscriber, e \in Event, dep \in Deployment :
    receipt[s][e].status = "pending" => receipt[s][e].attempts < dep.maxAttempts

LEMMA PendingFitsStep ==
  ASSUME OneBudget, Shape, PendingFits, [Next]_vars PROVE PendingFits'
<1> SUFFICES ASSUME NEW s \in Subscriber, NEW e \in Event, NEW dep \in Deployment,
                    receipt'[s][e].status = "pending"
             PROVE  receipt'[s][e].attempts < dep.maxAttempts
  BY DEF PendingFits
<1>1. RowStep(s, e)
  BY RowsStep
<1> QED
  BY <1>1 DEF RowStep, PendingFits, OneBudget

LEMMA FitsIsNotSpent ==
  ASSUME Shape, PendingFits
  PROVE  /\ \A s \in Subscriber, e \in Event : ~Spent(s, e)
         /\ \A d \in Drain : ~ClaimRefused(d)
<1>0. /\ \A dep \in Deployment : dep.maxAttempts \in Nat
      /\ \A s \in Subscriber, e \in Event : receipt[s][e].attempts \in Nat
  <2>1. \A s \in Subscriber, e \in Event : receipt[s][e] \in Receipt
    BY DEF Shape, TypeOK
  <2> QED
    BY <2>1, OutboxAssumption DEF Deployments, Receipt
<1>1. ASSUME NEW s \in Subscriber, NEW e \in Event, Spent(s, e) PROVE FALSE
  BY <1>0, <1>1 DEF Spent, PendingFits
<1>2. ASSUME NEW d \in Drain, ClaimRefused(d) PROVE FALSE
  <2>1. /\ job[d].sub \in Subscriber /\ job[d].event \in Event
        /\ cursor[d].deployment \in Deployment
    BY <1>2 DEF ClaimRefused, Shape, TypeOK
  <2>2. /\ receipt[job[d].sub][job[d].event].status = "pending"
        /\ receipt[job[d].sub][job[d].event].attempts >= cursor[d].deployment.maxAttempts
    BY <1>2 DEF ClaimRefused, Exhausted, MaxAttempts
  <2> QED
    BY <1>0, <2>1, <2>2 DEF PendingFits
<1> QED
  BY <1>1, <1>2

\* As long as all deployments agree on the budget no tick is ever interrupted
\* by a claim that the table refuses, and no receipt is left with attempts that
\* suffice for one release only: what EventuallySettled has to except comes
\* from a release that changes maxAttempts and from nothing else.
THEOREM NeverRefused ==
  OneBudget /\ Spec =>
    /\ [](\A s \in Subscriber, e \in Event : ~Spent(s, e))
    /\ [][\A d \in Drain : ~ClaimRefused(d)]_vars
<1> SUFFICES ASSUME OneBudget
             PROVE  Spec => /\ [](\A s \in Subscriber, e \in Event : ~Spent(s, e))
                            /\ [][\A d \in Drain : ~ClaimRefused(d)]_vars
  OBVIOUS
<1>1. Init => PendingFits
  BY DEF Init, PendingFits, Absent
<1>2. IInv => Shape
  BY DEF IInv
<1>3. Shape /\ PendingFits => \A s \in Subscriber, e \in Event : ~Spent(s, e)
  BY FitsIsNotSpent
<1>4. Shape /\ PendingFits => [\A d \in Drain : ~ClaimRefused(d)]_vars
  BY FitsIsNotSpent
<1> QED
  BY <1>1, <1>2, <1>3, <1>4, Inductive, PendingFitsStep, PTL DEF Spec

\* Drains of two deployments may differ in budgets, not in subscribers.
OneRegistry == \A D, F \in Deployment : Registered(D) = Registered(F)

\* While every deployment registers the same subscribers, an event that is
\* published stays delivered to all of them, so that an operator's retry never
\* revives a receipt no drain looks at any more (outbox.ts, retryFailed: it
\* asks whether the subscriber is registered, not whether the event is
\* published).
THEOREM RetriesAreScanned ==
  OneRegistry /\ Spec =>
    /\ [](\A e \in published : \A dep \in Deployment : \A s \in Registered(dep) :
           receipt[s][e].status = "delivered")
    /\ [][\A s \in Subscriber, e \in Event : RetryFailed(s, e) => e \notin published]_vars
<1> DEFINE Whole == \A e \in published : \A dep \in Deployment : \A s \in Registered(dep) :
                      receipt[s][e].status = "delivered"
<1> SUFFICES ASSUME OneRegistry
             PROVE  Spec => /\ []Whole
                            /\ [][\A s \in Subscriber, e \in Event :
                                   RetryFailed(s, e) => e \notin published]_vars
  OBVIOUS
<1>1. PublishedMeansApplied => Whole
  BY DEF PublishedMeansApplied, OneRegistry
<1>2. Whole => [\A s \in Subscriber, e \in Event :
                  RetryFailed(s, e) => e \notin published]_vars
  BY DEF RetryFailed
<1> QED
  BY <1>1, <1>2, PublishedApplied, PTL

----------------------------------------------------------------------------
(* The live lease *)

\* A claim or a settlement writes the row it is about and no other, and only
\* a settlement of a delivery makes it delivered.
LEMMA OwnRow ==
  ASSUME Shape, NEW d \in Drain, Claim(d) \/ Settle(d),
         NEW s \in Subscriber, NEW e \in Event, receipt'[s][e] # receipt[s][e]
  PROVE  /\ job[d].sub = s /\ job[d].event = e
         /\ ~SettleDelivered(d) => receipt'[s][e].status # "delivered"
<1> DEFINE t == job[d].sub
           f == job[d].event
           Written == \E r : /\ receipt' = [receipt EXCEPT ![t][f] = r]
                             /\ ~SettleDelivered(d) => r.status # "delivered"
<1>0. /\ t \in Subscriber /\ f \in Event
      /\ receipt \in [Subscriber -> [Event -> Receipt]] /\ receipt[t][f] \in Receipt
  <2>1. pc[d] \in {"claim", "call", "done"}
    BY DEF Claim, ClaimAttempt, ClaimExhausted, ClaimRefused, ClaimContended,
       Settle, SettleDelivered, SettleFailure
  <2> QED
    BY <2>1 DEF Shape, TypeOK
<1>1. ASSUME ClaimAttempt(d) PROVE Written
  <2> DEFINE r == [status |-> "processing", attempts |-> receipt[t][f].attempts + 1,
                   owner |-> d, timer |-> Lease]
  <2>1. receipt' = [receipt EXCEPT ![t][f] = r] /\ r.status # "delivered"
    BY <1>1 DEF ClaimAttempt
  <2> QED
    BY <2>1
<1>2. ASSUME ClaimExhausted(d) PROVE Written
  <2> DEFINE r == [receipt[t][f] EXCEPT !.status = "failed", !.owner = None]
  <2>1. receipt' = [receipt EXCEPT ![t][f] = r]
    BY <1>0, <1>2 DEF ClaimExhausted
  <2>2. r.status # "delivered"
    BY <1>0 DEF Receipt
  <2> QED
    BY <2>1, <2>2
<1>3. ASSUME ClaimRefused(d) \/ ClaimContended(d) PROVE Written
  BY <1>3 DEF ClaimRefused, ClaimContended, rows
<1>4. ASSUME SettleDelivered(d) PROVE Written
  <2> DEFINE r == [receipt[t][f] EXCEPT !.status = "delivered", !.owner = None, !.timer = 0]
  <2>1. receipt' = receipt \/ receipt' = [receipt EXCEPT ![t][f] = r]
    BY <1>0, <1>4, ZenonT(60) DEF SettleDelivered
  <2> QED
    BY <1>4, <2>1
<1>5. ASSUME SettleFailure(d) PROVE Written
  <2> DEFINE n == receipt[t][f].attempts
             a == [receipt[t][f] EXCEPT !.status = "failed", !.owner = None, !.timer = 0]
             b == [receipt[t][f] EXCEPT !.status = "pending", !.owner = None,
                                        !.timer = RetryDelay[n]]
  <2>0. Owns(d)
    BY <1>5 DEF SettleFailure
  <2>1. a.status # "delivered" /\ b.status # "delivered"
    BY <1>0 DEF Receipt
  <2>2. CASE n >= MaxAttempts(d)
    <3>1. receipt' = [receipt EXCEPT ![t][f] = a]
      BY <1>0, <1>5, <2>0, <2>2, ZenonT(60) DEF SettleFailure
    <3> HIDE DEF a
    <3> QED
      BY <2>1, <3>1
  <2>3. CASE ~(n >= MaxAttempts(d))
    <3>1. receipt' = [receipt EXCEPT ![t][f] = b]
      BY <1>0, <1>5, <2>0, <2>3, ZenonT(60) DEF SettleFailure
    <3> HIDE DEF b
    <3> QED
      BY <2>1, <3>1
  <2> QED
    BY <2>2, <2>3
<1>6. Written
  BY <1>1, <1>2, <1>3, <1>4, <1>5 DEF Claim, Settle
<1>7. PICK r : /\ receipt' = [receipt EXCEPT ![t][f] = r]
               /\ ~SettleDelivered(d) => r.status # "delivered"
  BY <1>6
<1> HIDE DEF t, f
<1>8. t = s /\ f = e
  BY <1>0, <1>7
<1>9. receipt'[s][e] = r
  BY <1>0, <1>7, <1>8
<1> QED
  BY <1>7, <1>8, <1>9 DEF t, f

\* The only steps that touch a receipt whose lease runs are the settlement by
\* its owner and the clock.
LEMMA LeaseStep ==
  ASSUME Shape, [Next]_vars, NEW s \in Subscriber, NEW e \in Event,
         receipt[s][e].status = "processing", receipt[s][e].timer > 0,
         receipt'[s][e].status # "processing" \/ receipt'[s][e].owner # receipt[s][e].owner
  PROVE  \E d \in Drain : /\ d = receipt[s][e].owner /\ pc[d] \in {"call", "done"}
                          /\ job[d] = [sub |-> s, event |-> e]
                          /\ pc'[d] = "scan"
<1>0. /\ receipt \in [Subscriber -> [Event -> Receipt]] /\ job \in [Drain -> Job]
      /\ pc \in [Drain -> {"idle", "scan", "claim", "call", "done"}]
  BY DEF Shape, TypeOK
<1>1. ASSUME UNCHANGED receipt PROVE FALSE
  BY <1>1
<1>2. ASSUME NEW d \in Drain, Claim(d) PROVE FALSE
  <2>1. ~Due(s, e) /\ receipt[s][e].status # "none"
    BY DEF Due
  <2>2. receipt'[s][e] # receipt[s][e]
    OBVIOUS
  <2>3. job[d].sub = s /\ job[d].event = e
    BY <1>2, <2>2, OwnRow
  <2>4. ~ClaimAttempt(d) /\ ~ClaimExhausted(d)
    BY <2>1, <2>3 DEF ClaimAttempt, ClaimExhausted, Claimable, Exhausted
  <2>5. UNCHANGED receipt
    BY <1>2, <2>4 DEF Claim, ClaimRefused, ClaimContended, rows
  <2> QED
    BY <2>2, <2>5
<1>3. ASSUME NEW d \in Drain, Settle(d)
      PROVE  /\ d = receipt[s][e].owner /\ pc[d] \in {"call", "done"}
             /\ job[d] = [sub |-> s, event |-> e] /\ pc'[d] = "scan"
  <2>1. pc[d] \in {"call", "done"} /\ pc'[d] = "scan"
    BY <1>0, <1>3 DEF Settle, SettleDelivered, SettleFailure, Resume
  <2>2. job[d].sub \in Subscriber /\ job[d].event \in Event /\ job[d] \in Job
    BY <2>1 DEF Shape, TypeOK
  <2>3. job[d].sub = s /\ job[d].event = e /\ Owns(d)
    <3>1. UNCHANGED receipt \/ Owns(d)
      BY <1>3 DEF Settle, SettleDelivered, SettleFailure
    <3>2. receipt'[s][e] # receipt[s][e]
      OBVIOUS
    <3> QED
      BY <1>3, <3>1, <3>2, OwnRow
  <2> QED
    BY <2>1, <2>2, <2>3 DEF Owns, Job
<1>4. ASSUME NEW t \in Subscriber, NEW f \in Event, RetryFailed(t, f) PROVE FALSE
  BY <1>0, <1>4 DEF RetryFailed
<1>5. ASSUME Tick PROVE FALSE
  <2>1. receipt[s][e] \in Receipt
    BY <1>0
  <2>2. receipt'[s][e] = [receipt[s][e] EXCEPT !.timer = IF @ > 0 THEN @ - 1 ELSE 0]
    BY <1>5 DEF Tick
  <2> QED
    BY <2>1, <2>2 DEF Receipt
<1>6. ASSUME NEW d \in Drain, Step(d) \/ Land(d) \/ Crash(d)
      PROVE  UNCHANGED receipt \/ Claim(d) \/ Settle(d)
  BY <1>6 DEF Step, StartDrain, ScanHit, ScanMiss, EndDrain, Land, Crash, rows
<1>7. ASSUME NEW t \in Subscriber, NEW f \in Event, LateLand(t, f)
      PROVE  UNCHANGED receipt
  BY <1>7 DEF LateLand, rows
<1>8. ASSUME NEW f \in Event, Enqueue(f) PROVE UNCHANGED receipt
  BY <1>8 DEF Enqueue
<1>9. UNCHANGED vars => UNCHANGED receipt
  BY DEF vars
<1> QED
  BY <1>1, <1>2, <1>3, <1>4, <1>5, <1>6, <1>7, <1>8, <1>9 DEF Next

\* While a lease runs, only its owner's settlement ends the attempt.
THEOREM LeasesRespected == Spec => LeaseRespected
<1>1. Shape /\ [Next]_vars =>
        [\A s \in Subscriber, e \in Event : LET r == receipt[s][e] IN
           /\ r.status = "processing" /\ r.timer > 0
           /\ receipt'[s][e].status # "processing" \/ receipt'[s][e].owner # r.owner
           => \E d \in Drain : /\ d = r.owner /\ pc[d] \in {"call", "done"}
                               /\ job[d] = [sub |-> s, event |-> e]
                               /\ pc'[d] = "scan"]_vars
  BY LeaseStep
<1>2. Spec => []Shape
  BY InitShape, ShapeStep, PTL DEF Spec
<1> QED
  BY <1>1, <1>2, PTL DEF Spec, LeaseRespected

----------------------------------------------------------------------------
(* The outbox keeps the promise of OrderedDelivery *)

Acknowledged == {k \in Subscriber \X Event : receipt[k[1]][k[2]].status = "delivered"}
Registries == {Registered(dep) : dep \in Deployment}

\* The settlement of a delivery is an acknowledgement.
LEMMA SettleAcknowledges ==
  ASSUME IInv, NEW d \in Drain, SettleDelivered(d),
         NEW s \in Subscriber, NEW e \in Event, job[d].sub = s, job[d].event = e
  PROVE  Promise!Acknowledge(s, e)
<1> DEFINE q == [receipt[s][e] EXCEPT !.status = "delivered", !.owner = None, !.timer = 0]
<1>0. /\ pc[d] = "done" /\ s \in Subscriber /\ e \in Event
      /\ receipt \in [Subscriber -> [Event -> Receipt]]
      /\ cursor[d].deployment \in Deployment
      /\ Registered(cursor[d].deployment) \subseteq Subscriber
  <2>1. pc[d] = "done"
    BY DEF SettleDelivered, RegistryDone
  <2>2. s \in Subscriber /\ e \in Event /\ receipt \in [Subscriber -> [Event -> Receipt]]
    BY <2>1 DEF IInv, Shape, TypeOK
  <2> QED
    BY <2>1, <2>2, ScannedType DEF IInv, Shape
<1>1. receipt' = receipt \/ receipt' = [receipt EXCEPT ![s][e] = q]
  BY <1>0 DEF SettleDelivered
<1>2. receipt[s][e] \in Receipt /\ q.status = "delivered"
  BY <1>0 DEF Receipt
<1> HIDE DEF q
<1>3. Acknowledged' \in {Acknowledged, Acknowledged \cup {<<s, e>>}}
  <2>1. CASE receipt' = receipt
    BY <2>1 DEF Acknowledged
  <2>2. CASE receipt' = [receipt EXCEPT ![s][e] = q]
    <3>1. \A t \in Subscriber, f \in Event :
             receipt'[t][f].status = IF t = s /\ f = e THEN "delivered" ELSE receipt[t][f].status
      BY <1>0, <1>2, <2>2
    <3>2. \A k \in Subscriber \X Event : k = <<k[1], k[2]>> /\ k[1] \in Subscriber /\ k[2] \in Event
      OBVIOUS
    <3>3. Acknowledged' = Acknowledged \cup {<<s, e>>}
      BY <1>0, <3>1, <3>2 DEF Acknowledged
    <3> QED
      BY <3>3
  <2> QED
    BY <1>1, <2>1, <2>2
<1>4. \/ published' = published
      \/ /\ published' = published \cup {e}
         /\ \E R \in Registries : \A r \in R : <<r, e>> \in Acknowledged'
  <2>1. \/ published' = published
        \/ /\ published' = published \cup {e}
           /\ \A r \in Registered(cursor[d].deployment) : receipt'[r][e].status = "delivered"
    BY DEF SettleDelivered, RegistryDone
  <2>2. ASSUME NEW r \in Registered(cursor[d].deployment), receipt'[r][e].status = "delivered"
        PROVE  <<r, e>> \in Acknowledged'
    BY <1>0, <2>2 DEF Acknowledged
  <2>3. Registered(cursor[d].deployment) \in Registries
    BY <1>0 DEF Registries
  <2> QED
    BY <2>1, <2>2, <2>3
<1>5. <<s, e>> \in landed /\ UNCHANGED <<enqueued, landed>>
  BY <1>0 DEF SettleDelivered, IInv, CallsClaimed
<1> QED
  BY <1>3, <1>4, <1>5 DEF Promise!Acknowledge, Acknowledged, Registries

\* Steps that change neither the rows nor the effects are invisible.
LEMMA NextImplements ==
  ASSUME IInv, IInv', [Next]_vars
  PROVE  [Promise!Next]_Promise!vars
<1> DEFINE G == [Promise!Next]_Promise!vars
<1>0. Shape /\ Shape'
  BY DEF IInv
<1>a. ASSUME UNCHANGED <<enqueued, landed, published>>, UNCHANGED Acknowledged PROVE G
  BY <1>a DEF Promise!vars, Acknowledged
<1>b. ASSUME UNCHANGED <<enqueued, landed, published>>,
             \A s \in Subscriber, e \in Event :
               receipt'[s][e].status = "delivered" => receipt[s][e].status = "delivered"
      PROVE  G
  <2>1. \A s \in Subscriber, e \in Event :
           receipt'[s][e].status = "delivered" <=> receipt[s][e].status = "delivered"
    BY <1>0, <1>b, RowsStep DEF RowStep
  <2>2. \A k \in Subscriber \X Event :
           receipt'[k[1]][k[2]].status = "delivered" <=> receipt[k[1]][k[2]].status = "delivered"
    BY <2>1
  <2>3. UNCHANGED Acknowledged
    BY <2>2 DEF Acknowledged
  <2> QED
    BY <1>a, <1>b, <2>3
<1>c. ASSUME NEW s \in Subscriber, NEW e \in Event, <<s, e>> \in landed \cup late \/
               (\E d \in Drain : pc[d] = "call" /\ job[d].sub = s /\ job[d].event = e),
             landed' = landed \cup {<<s, e>>}, UNCHANGED <<enqueued, published, receipt>>
      PROVE  G
  <2>1. PriorsDone(s, e) /\ e \in enqueued
    BY <1>0, <1>c DEF IInv, ClaimsInOrder, CallsClaimed, Shape, TypeOK
  <2>2. Prior[e] \subseteq Event
    BY OutboxAssumption
  <2>3. \A p \in Prior[e] : p \in published \/ <<s, p>> \in Acknowledged
    BY <2>1, <2>2 DEF PriorsDone, Acknowledged
  <2>4. Promise!Apply(s, e)
    BY <1>c, <2>1, <2>3 DEF Promise!Apply, Promise!Clear, Acknowledged
  <2> QED
    BY <2>4 DEF Promise!Next
<1>1. ASSUME NEW d \in Drain, SettleDelivered(d) PROVE G
  <2>1. PICK s \in Subscriber, e \in Event : job[d].sub = s /\ job[d].event = e
    BY <1>0, <1>1 DEF SettleDelivered, Shape, TypeOK
  <2>2. Promise!Acknowledge(s, e)
    BY <1>1, <2>1, SettleAcknowledges
  <2>3. Promise!Next
    BY <2>2 DEF Promise!Next
  <2> QED
    BY <2>3
<1>2. ASSUME NEW d \in Drain, Land(d) PROVE G
  <2>1. job[d].sub \in Subscriber /\ job[d].event \in Event /\ pc[d] = "call"
    BY <1>0, <1>2 DEF Land, Shape, TypeOK
  <2>2. landed' = landed \cup {<<job[d].sub, job[d].event>>} /\ UNCHANGED <<enqueued, published, receipt>>
    BY <1>2 DEF Land, rows
  <2> QED
    BY <1>c, <2>1, <2>2
<1>3. ASSUME NEW d \in Drain, Step(d) \/ Crash(d), ~SettleDelivered(d) PROVE G
  <2>1. UNCHANGED <<enqueued, landed, published>>
    BY <1>3 DEF Step, StartDrain, ScanHit, ScanMiss, EndDrain, Claim, ClaimAttempt,
       ClaimExhausted, ClaimRefused, ClaimContended, Settle, SettleFailure, Crash, rows
  <2>2. UNCHANGED receipt \/ Claim(d) \/ SettleFailure(d)
    BY <1>3 DEF Step, StartDrain, ScanHit, ScanMiss, EndDrain, Settle, Crash, rows
  <2>3. ASSUME NEW s \in Subscriber, NEW e \in Event, receipt'[s][e].status = "delivered"
        PROVE  receipt[s][e].status = "delivered"
    BY <1>0, <1>3, <2>2, <2>3, OwnRow DEF Settle
  <2> QED
    BY <1>b, <2>1, <2>3
<1>4. ASSUME NEW e \in Event, Enqueue(e) PROVE G
  <2>1. Promise!Append(e)
    BY <1>4 DEF Enqueue, Promise!Append
  <2> QED
    BY <2>1 DEF Promise!Next
<1>5. ASSUME NEW s \in Subscriber, NEW e \in Event, LateLand(s, e) PROVE G
  <2>1. /\ <<s, e>> \in landed \cup late
        /\ landed' = landed \cup {<<s, e>>} /\ UNCHANGED <<enqueued, published, receipt>>
    BY <1>5 DEF LateLand, rows
  <2> QED
    BY <1>c, <2>1
<1>6. ASSUME NEW s \in Subscriber, NEW e \in Event, RetryFailed(s, e) PROVE G
  <2>1. UNCHANGED <<enqueued, landed, published>>
    BY <1>6 DEF RetryFailed
  <2>2. \A t \in Subscriber, f \in Event :
           receipt'[t][f].status = "delivered" => receipt[t][f].status = "delivered"
    BY <1>0, <1>6 DEF RetryFailed, Shape, TypeOK
  <2> QED
    BY <1>b, <2>1, <2>2
<1>7. ASSUME Tick PROVE G
  <2>1. UNCHANGED <<enqueued, landed, published>>
    BY <1>7 DEF Tick
  <2>2. ASSUME NEW s \in Subscriber, NEW e \in Event
        PROVE  receipt'[s][e].status = receipt[s][e].status
    <3>1. receipt[s][e] \in Receipt
      BY <1>0 DEF Shape, TypeOK
    <3>2. receipt'[s][e] = [receipt[s][e] EXCEPT !.timer = IF @ > 0 THEN @ - 1 ELSE 0]
      BY <1>7 DEF Tick
    <3> QED
      BY <3>1, <3>2 DEF Receipt
  <2> QED
    BY <1>b, <2>1, <2>2
<1>8. ASSUME UNCHANGED vars PROVE G
  BY <1>8, <1>a DEF vars, Acknowledged
<1> HIDE DEF G
<1>9. G
  BY <1>1, <1>2, <1>3, <1>4, <1>5, <1>6, <1>7, <1>8 DEF Next
<1> QED
  BY <1>9 DEF G

LEMMA InitImplements == Init => Promise!Init
<1> SUFFICES ASSUME Init PROVE Promise!Init
  OBVIOUS
<1>1. \A k \in Subscriber \X Event : receipt[k[1]][k[2]].status # "delivered"
  BY DEF Init, Absent
<1> QED
  BY <1>1 DEF Init, Promise!Init

\* Claims, leases, budgets, crashes, late handlers and retries included, the
\* outbox delivers every aggregate in order to each subscriber and retires an
\* event only when a whole registry acknowledged it.
THEOREM Implements == Spec => PromiseKept
<1>1. IInv /\ IInv' /\ [Next]_vars => [Promise!Next]_Promise!vars
  BY NextImplements
<1> QED
  BY <1>1, InitImplements, Inductive, PTL DEF Spec, PromiseKept, Promise!Spec


----------------------------------------------------------------------------
(* The outbox underneath *)

LEMMA OutboxStep == [LogNext]_logVars => [Next]_vars
<1> SUFFICES ASSUME [LogNext]_logVars PROVE [Next]_vars
  OBVIOUS
<1>1. CASE \E d \in Drain : ClaimAt(d) \/ Record(d) \/ GiveUp(d)
  BY <1>1 DEF ClaimAt, Record, GiveUp, Next, Step, Claim, Settle
<1>2. CASE \E s \in Subscriber, e \in Event : RecordLate(s, e)
  BY <1>2 DEF RecordLate, Next
<1>3. CASE Elsewhere
  BY <1>3 DEF Elsewhere, Next, Step, Claim, Settle
<1>4. CASE Instants
  BY <1>4 DEF Instants, Next
<1>5. CASE \E y \in Year : Roll(y)
  <2>1. \A y \in Year : RollEvent[y] \in Event
    BY ActivityAssumption DEF Year
  <2> QED
    BY <1>5, <2>1 DEF Roll, Next
<1>6. CASE ListForSnapshot \/ TakeSnapshot \/ ListForPage \/ SelectPage \/ EndWalk
  BY <1>6 DEF ListForSnapshot, TakeSnapshot, ListForPage, SelectPage, EndWalk
<1>7. CASE UNCHANGED logVars
  BY <1>7 DEF logVars
<1> QED
  BY <1>1, <1>2, <1>3, <1>4, <1>5, <1>6, <1>7 DEF LogNext

\* The log adds nothing to what the outbox does: with the roll and the walks
\* beside it, it is the outbox still (outbox.ts: the log is a subscriber).
THEOREM OutboxRefined == LogSpec => Spec
<1>1. LogInit => Init
  BY DEF LogInit
<1> QED
  BY <1>1, OutboxStep, PTL DEF LogSpec, Spec

----------------------------------------------------------------------------
(* The inductive invariant *)

LogTypes ==
  /\ now \in Instant
  /\ claimedAt \in [Drain -> Instant]
  /\ lateAt \in [Event -> SUBSET Instant]
  /\ hot \subseteq Row
  /\ archive \in [Year -> (SUBSET Row) \cup {None}]
  /\ walk \in Walk
  /\ standing \subseteq Row
  /\ torn \in BOOLEAN

LoggedIsLanded ==
  \A e \in Event : e \in Logged <=> <<Activity, e>> \in landed

\* What a walk has still to read of its snapshot lies behind its cursor.
WalkFits ==
  /\ standing \subseteq Log
  /\ walk.tables \subseteq Partitions
  /\ walk.pc \in {"idle", "snapshot"} => walk.after = None
  /\ walk.pc \in {"page", "select"} => walk.through \in Instant
  /\ walk.pc \in {"page", "select"} /\ ~torn =>
       \A r \in standing : /\ r.at <= walk.through
                           /\ r \in walk.read \/ walk.after = None \/ Before(r, walk.after)
  /\ walk.pc = "done" /\ ~torn => standing \subseteq walk.read

LogInv == IInv /\ LogTypes /\ LoggedIsLanded /\ WalkFits

LEMMA Setting ==
  /\ Activity \in Subscriber /\ None \notin Row
  /\ \A table \in SUBSET Row : table # None
  /\ \A y \in Year : RollEvent[y] \in Event
BY ActivityAssumption DEF Year

LEMMA LogRows ==
  ASSUME LogTypes
  PROVE  /\ Partitions \subseteq Year /\ \A y \in Partitions : archive[y] \subseteq Row
         /\ Log \subseteq Row
<1>1. Partitions \subseteq Year /\ \A y \in Partitions : archive[y] \subseteq Row
  <2> SUFFICES ASSUME NEW y \in Year, archive[y] # None PROVE archive[y] \subseteq Row
    BY DEF Partitions
  <2>1. archive[y] \in (SUBSET Row) \cup {None}
    BY DEF LogTypes
  <2> QED
    BY <2>1
<1> QED
  BY <1>1 DEF LogTypes, Log, Tables

LEMMA RowMeans ==
  ASSUME NEW r \in Row
  PROVE  r.event \in Event /\ r.at \in Instant /\ r # None
BY Setting DEF Row

----------------------------------------------------------------------------
(* What a step does to the log *)

LEMMA LogEffect ==
  ASSUME LogInv, [LogNext]_logVars
  PROVE  \/ UNCHANGED <<hot, archive, landed>>
         \/ /\ UNCHANGED <<archive, walk, standing, torn>>
            /\ \E s \in Subscriber, e \in Event :
                 /\ landed' = landed \cup {<<s, e>>}
                 /\ IF s = Activity THEN \E at \in Instant : Insert(e, at) ELSE hot' = hot
         \/ /\ UNCHANGED <<landed, walk, standing, torn>> /\ hot' = {}
            /\ \E y \in Year \ Partitions : archive' = [archive EXCEPT ![y] = hot]
<1>1. ASSUME NEW d \in Drain, ClaimAt(d) \/ GiveUp(d)
      PROVE  UNCHANGED <<hot, archive, landed>>
  BY <1>1 DEF ClaimAt, GiveUp, ClaimAttempt, SettleFailure, Crash, log
<1>2. ASSUME NEW d \in Drain, Record(d)
      PROVE  /\ UNCHANGED <<archive, walk, standing, torn>>
             /\ \E s \in Subscriber, e \in Event :
                  /\ landed' = landed \cup {<<s, e>>}
                  /\ IF s = Activity THEN \E at \in Instant : Insert(e, at) ELSE hot' = hot
  <2>1. job[d].sub \in Subscriber /\ job[d].event \in Event
    BY <1>2 DEF Record, Land, LogInv, IInv, Shape, TypeOK
  <2>2. claimedAt[d] \in Instant
    BY DEF LogInv, LogTypes
  <2> QED
    BY <1>2, <2>1, <2>2 DEF Record, Land, reader
<1>3. ASSUME NEW s \in Subscriber, NEW e \in Event, RecordLate(s, e)
      PROVE  /\ UNCHANGED <<archive, walk, standing, torn>>
             /\ landed' = landed \cup {<<s, e>>}
             /\ IF s = Activity THEN \E at \in Instant : Insert(e, at) ELSE hot' = hot
  <2>1. lateAt[e] \subseteq Instant
    BY DEF LogInv, LogTypes
  <2> QED
    BY <1>3, <2>1 DEF RecordLate, LateLand, reader
<1>4. CASE Elsewhere
  BY <1>4 DEF Elsewhere, StartDrain, ScanHit, ScanMiss, EndDrain, ClaimExhausted,
     ClaimRefused, ClaimContended, SettleDelivered, Enqueue, RetryFailed, log
<1>5. CASE Instants
  BY <1>5 DEF Instants, Tick, vars, log
<1>6. ASSUME NEW y \in Year, Roll(y)
      PROVE  /\ UNCHANGED <<landed, walk, standing, torn>> /\ hot' = {}
             /\ y \notin Partitions /\ archive' = [archive EXCEPT ![y] = hot]
  BY <1>6 DEF Roll, Moved, Enqueue, reader
<1>7. CASE ListForSnapshot \/ TakeSnapshot \/ ListForPage \/ SelectPage \/ EndWalk
  BY <1>7 DEF ListForSnapshot, TakeSnapshot, ListForPage, SelectPage, EndWalk, vars, log
<1>8. CASE UNCHANGED logVars
  BY <1>8 DEF logVars, vars, log
<1> QED
  BY <1>1, <1>2, <1>3, <1>4, <1>5, <1>6, <1>7, <1>8 DEF LogNext

\* Rows move from table to table, and stay.
LEMMA LogGrows ==
  ASSUME LogInv, [LogNext]_logVars
  PROVE  /\ hot' \subseteq Row /\ archive' \in [Year -> (SUBSET Row) \cup {None}]
         /\ Partitions \subseteq Partitions' /\ Log \subseteq Log'
         /\ LoggedIsLanded'
<1>1. /\ hot \subseteq Row /\ archive \in [Year -> (SUBSET Row) \cup {None}] /\ LoggedIsLanded
      /\ LogTypes
  BY DEF LogInv, LogTypes
<1>2. CASE UNCHANGED <<hot, archive, landed>>
  BY <1>1, <1>2 DEF Partitions, Log, Tables, LoggedIsLanded, Logged
<1>3. CASE archive' = archive /\
           \E s \in Subscriber, e \in Event :
             /\ landed' = landed \cup {<<s, e>>}
             /\ IF s = Activity THEN \E at \in Instant : Insert(e, at) ELSE hot' = hot
  <2>1. PICK s \in Subscriber, e \in Event :
          /\ landed' = landed \cup {<<s, e>>}
          /\ IF s = Activity THEN \E at \in Instant : Insert(e, at) ELSE hot' = hot
    BY <1>3
  <2>2. Partitions' = Partitions
    BY <1>3 DEF Partitions
  <2>3. CASE s # Activity
    <3>1. Log' = Log
      BY <1>3, <2>1, <2>2, <2>3 DEF Log, Tables, Partitions
    <3> QED
      BY <1>1, <1>3, <2>1, <2>2, <2>3, <3>1 DEF LoggedIsLanded, Logged
  <2>4. CASE s = Activity
    <3>1. PICK at \in Instant : Insert(e, at)
      BY <2>1, <2>4
    <3>2. [event |-> e, at |-> at] \in Row /\ [event |-> e, at |-> at].event = e
      BY DEF Row
    <3>3. /\ hot' \subseteq Row /\ hot \subseteq hot'
          /\ \E r \in hot' : r.event = e
          /\ \A r \in hot' : r \in hot \/ r.event = e
      BY <1>1, <3>1, <3>2 DEF Insert
    <3>4. Log' = (Log \ hot) \cup (Log \cap hot) \cup hot'
      BY <1>3, <2>2, <3>3 DEF Log, Tables, Partitions
    <3>5. \A f \in Event : f \in Logged' <=> f \in Logged \/ f = e
      BY <3>3, <3>4 DEF Logged, Log, Tables
    <3>6. \A f \in Event : <<Activity, f>> \in landed' <=> <<Activity, f>> \in landed \/ f = e
      BY <2>1, <2>4
    <3>7. LoggedIsLanded'
      BY <1>1, <3>5, <3>6 DEF LoggedIsLanded
    <3> QED
      BY <1>1, <1>3, <2>2, <3>3, <3>4, <3>7
  <2> QED
    BY <2>3, <2>4
<1>4. CASE landed' = landed /\ hot' = {}
           /\ \E y \in Year \ Partitions : archive' = [archive EXCEPT ![y] = hot]
  <2>1. PICK y \in Year \ Partitions : archive' = [archive EXCEPT ![y] = hot]
    BY <1>4
  <2>2. /\ archive' \in [Year -> (SUBSET Row) \cup {None}] /\ archive'[y] = hot
        /\ \A z \in Year \ {y} : archive'[z] = archive[z]
    BY <1>1, <2>1
  <2>3. Partitions' = Partitions \cup {y}
    BY <1>1, <2>2, Setting DEF Partitions
  <2>4. Log' = Log
    BY <1>4, <2>2, <2>3 DEF Log, Tables, Partitions
  <2> QED
    BY <1>1, <1>4, <2>2, <2>3, <2>4 DEF LoggedIsLanded, Logged
<1> QED
  BY <1>2, <1>3, <1>4, LogEffect

----------------------------------------------------------------------------
(* The clock and the claims *)

LEMMA ClockTypes ==
  ASSUME LogInv, [LogNext]_logVars
  PROVE  /\ now' \in Instant /\ claimedAt' \in [Drain -> Instant]
         /\ lateAt' \in [Event -> SUBSET Instant]
<1>1. /\ now \in Instant /\ claimedAt \in [Drain -> Instant] /\ lateAt \in [Event -> SUBSET Instant]
  BY DEF LogInv, LogTypes
<1>2. ASSUME NEW d \in Drain, ClaimAt(d)
      PROVE  now' = now /\ claimedAt' \in [Drain -> Instant] /\ lateAt' = lateAt
  BY <1>1, <1>2 DEF ClaimAt
<1>3. ASSUME NEW d \in Drain, GiveUp(d)
      PROVE  now' = now /\ claimedAt' = claimedAt /\ lateAt' \in [Event -> SUBSET Instant]
  <2>1. \/ lateAt' = lateAt
        \/ lateAt' = [lateAt EXCEPT ![job[d].event] = @ \cup {claimedAt[d]}]
    BY <1>3 DEF GiveUp
  <2>2. now' = now /\ claimedAt' = claimedAt
    BY <1>3 DEF GiveUp
  <2>3. lateAt' \in [Event -> SUBSET Instant]
    BY <1>1, <2>1
  <2> QED
    BY <2>2, <2>3
<1>4. CASE Instants
  BY <1>1, <1>4, ActivityAssumption DEF Instants, Instant
<1>5. ASSUME NEW d \in Drain, Record(d) PROVE UNCHANGED <<now, claimedAt, lateAt>>
  BY <1>5 DEF Record
<1>6. ASSUME NEW s \in Subscriber, NEW e \in Event, RecordLate(s, e)
      PROVE  UNCHANGED <<now, claimedAt, lateAt>>
  BY <1>6 DEF RecordLate
<1>7. CASE Elsewhere
  BY <1>1, <1>7 DEF Elsewhere
<1>8. ASSUME NEW y \in Year, Roll(y) PROVE UNCHANGED <<now, claimedAt, lateAt>>
  BY <1>8 DEF Roll
<1>9. CASE ListForSnapshot \/ TakeSnapshot \/ ListForPage \/ SelectPage \/ EndWalk
  BY <1>1, <1>9 DEF ListForSnapshot, TakeSnapshot, ListForPage, SelectPage, EndWalk
<1>10. CASE UNCHANGED logVars
  BY <1>1, <1>10 DEF logVars
<1> QED
  BY <1>1, <1>2, <1>3, <1>4, <1>5, <1>6, <1>7, <1>8, <1>9, <1>10 DEF LogNext

----------------------------------------------------------------------------
(* The walk *)

\* What the tables of an untorn walk hold is the log.
LEMMA WholeLog == walk.tables = Listed => Tables(walk.tables) = Log
BY DEF Listed, Log

LEMMA WalkTyped ==
  ASSUME LogTypes
  PROVE  /\ walk \in Walk /\ NoWalk \in Walk /\ walk.tables \subseteq Year
         /\ walk.read \subseteq Row /\ walk.after \in Row \cup {None} /\ walk.count \in Nat
BY DEF LogTypes, Walk, NoWalk

LEMMA ListKeeps ==
  ASSUME LogInv, ListForSnapshot \/ ListForPage
  PROVE  walk' \in Walk /\ standing' = standing /\ torn' = torn /\ WalkFits'
<1>1. /\ UNCHANGED <<hot, archive, standing, torn>>
      /\ \/ /\ walk.pc = "idle"
            /\ walk' = [walk EXCEPT !.pc = "snapshot", !.tables = Partitions, !.count = @ + 1]
         \/ /\ walk.pc = "page"
            /\ walk' = [walk EXCEPT !.pc = "select", !.tables = Partitions]
  BY DEF ListForSnapshot, ListForPage, Listed, log
<1>2. Partitions' = Partitions /\ Log' = Log
  BY <1>1 DEF Partitions, Log, Tables
<1>3. Partitions \subseteq Year /\ walk \in Walk
  BY LogRows, WalkTyped DEF LogInv
<1>4. /\ walk' \in Walk /\ walk'.tables = Partitions
      /\ walk'.after = walk.after /\ walk'.through = walk.through /\ walk'.read = walk.read
      /\ \/ walk.pc = "idle" /\ walk'.pc = "snapshot"
         \/ walk.pc = "page" /\ walk'.pc = "select"
  <2>1. CASE /\ walk.pc = "idle"
             /\ walk' = [walk EXCEPT !.pc = "snapshot", !.tables = Partitions, !.count = @ + 1]
    <3> DEFINE count == walk.count + 1
    <3>1. count \in Nat
      BY WalkTyped DEF LogInv
    <3>2. walk' = [walk EXCEPT !.pc = "snapshot", !.tables = Partitions, !.count = count]
      BY <2>1
    <3> HIDE DEF count
    <3> QED
      BY <1>3, <2>1, <3>1, <3>2 DEF Walk
  <2>2. CASE /\ walk.pc = "page"
             /\ walk' = [walk EXCEPT !.pc = "select", !.tables = Partitions]
    BY <1>3, <2>2 DEF Walk
  <2> QED
    BY <1>1, <2>1, <2>2
<1> QED
  BY <1>1, <1>2, <1>4 DEF LogInv, WalkFits

LEMMA SnapshotKeeps ==
  ASSUME LogInv, TakeSnapshot
  PROVE  walk' \in Walk /\ standing' \subseteq Row /\ torn' \in BOOLEAN /\ WalkFits'
<1>1. /\ walk.pc = "snapshot" /\ walk.after = None /\ walk.tables \subseteq Partitions
      /\ UNCHANGED <<hot, archive>> /\ torn' = (walk.tables # Listed)
      /\ walk \in Walk /\ Log \subseteq Row
  BY LogRows, WalkTyped DEF TakeSnapshot, LogInv, WalkFits, log
<1>2. Partitions' = Partitions /\ Log' = Log
  BY <1>1 DEF Partitions, Log, Tables
<1>3. CASE /\ Tables(walk.tables) = {} /\ walk' = [walk EXCEPT !.pc = "done"]
           /\ standing' = Log
  <2>1. /\ walk' \in Walk /\ walk'.pc = "done" /\ walk'.tables = walk.tables
        /\ walk'.read = walk.read
    BY <1>1, <1>3 DEF Walk
  <2>2. ~torn' => Log = {}
    BY <1>1, <1>3, WholeLog
  <2> QED
    BY <1>1, <1>2, <1>3, <2>1, <2>2 DEF WalkFits
<1>4. ASSUME NEW last \in Tables(walk.tables),
             walk' = [walk EXCEPT !.pc = "page", !.through = last.at],
             standing' = {r \in Log : r.at <= last.at}
      PROVE  walk' \in Walk /\ standing' \subseteq Row /\ torn' \in BOOLEAN /\ WalkFits'
  <2>1. last \in Log
    BY <1>1, <1>4 DEF Log, Tables
  <2>2. last.at \in Instant
    BY <1>1, <2>1, RowMeans
  <2>3. /\ walk' \in Walk /\ walk'.pc = "page" /\ walk'.through = last.at
        /\ walk'.tables = walk.tables /\ walk'.after = walk.after /\ walk'.read = walk.read
    BY <1>1, <1>4, <2>2 DEF Walk
  <2> QED
    BY <1>1, <1>2, <1>4, <2>2, <2>3 DEF WalkFits
<1> QED
  BY <1>3, <1>4 DEF TakeSnapshot

LEMMA PageKeeps ==
  ASSUME LogInv, SelectPage
  PROVE  walk' \in Walk /\ standing' = standing /\ torn' \in BOOLEAN /\ WalkFits'
<1> DEFINE page == {r \in Tables(walk.tables) :
                      /\ r.at <= walk.through
                      /\ walk.after # None => Before(r, walk.after)}
<1>1. /\ walk.pc = "select" /\ walk.tables \subseteq Partitions
      /\ UNCHANGED <<hot, archive, standing>> /\ torn' = (torn \/ walk.tables # Listed)
      /\ walk \in Walk /\ torn \in BOOLEAN /\ Log \subseteq Row /\ WalkFits
      /\ standing \subseteq Log /\ walk.through \in Instant
  BY LogRows, WalkTyped DEF SelectPage, LogInv, LogTypes, WalkFits, log
<1>2. Partitions' = Partitions /\ Log' = Log
  BY <1>1 DEF Partitions, Log, Tables
<1>3. ASSUME ~torn', NEW q \in standing, q \notin walk.read
      PROVE  q \in page /\ q.at <= walk.through
  <2>1. ~torn /\ Tables(walk.tables) = Log
    BY <1>1, <1>3, WholeLog
  <2>2. /\ q.at <= walk.through
        /\ walk.after = None \/ Before(q, walk.after)
    BY <1>1, <1>3, <2>1 DEF WalkFits
  <2> QED
    BY <1>1, <1>3, <2>1, <2>2
<1>4. CASE page = {} /\ walk' = [walk EXCEPT !.pc = "done"]
  <2>1. /\ walk' \in Walk /\ walk'.pc = "done" /\ walk'.tables = walk.tables
        /\ walk'.read = walk.read
    BY <1>1, <1>4 DEF Walk
  <2>2. ~torn' => standing \subseteq walk.read
    BY <1>3, <1>4
  <2> QED
    BY <1>1, <1>2, <2>1, <2>2 DEF WalkFits
<1>5. ASSUME NEW r \in page, \A q \in page : q = r \/ Before(q, r),
             walk' = [walk EXCEPT !.pc = "page", !.after = r, !.read = @ \cup {r}]
      PROVE  walk' \in Walk /\ standing' = standing /\ torn' \in BOOLEAN /\ WalkFits'
  <2>1. r \in Log
    BY <1>1 DEF Log, Tables
  <2>2. r \in Row
    BY <1>1, <2>1
  <2>3. /\ walk' \in Walk /\ walk'.pc = "page" /\ walk'.tables = walk.tables
        /\ walk'.after = r /\ walk'.read = walk.read \cup {r} /\ walk'.through = walk.through
    BY <1>1, <1>5, <2>2 DEF Walk
  <2> HIDE DEF page
  <2>4. ASSUME ~torn', NEW q \in standing
        PROVE  q.at <= walk.through /\ (q \in walk'.read \/ Before(q, r))
    <3>1. CASE q \in walk.read
      <4>1. ~torn
        BY <1>1, <2>4
      <4> QED
        BY <1>1, <2>3, <3>1, <4>1 DEF WalkFits
    <3>2. CASE q \notin walk.read
      BY <1>3, <1>5, <2>3, <2>4, <3>2
    <3> QED
      BY <3>1, <3>2
  <2> QED
    BY <1>1, <1>2, <2>3, <2>4 DEF WalkFits
<1> QED
  BY <1>4, <1>5 DEF SelectPage

LEMMA EndKeeps ==
  ASSUME LogInv, EndWalk
  PROVE  walk' \in Walk /\ standing' \subseteq Row /\ torn' \in BOOLEAN /\ WalkFits'
<1>1. /\ UNCHANGED <<hot, archive>> /\ standing' = {} /\ torn' = FALSE
      /\ walk' = [NoWalk EXCEPT !.count = walk.count]
  BY DEF EndWalk, log
<1>2. /\ walk' \in Walk /\ walk'.pc = "idle" /\ walk'.tables = {} /\ walk'.after = None
  BY <1>1, WalkTyped DEF LogInv, NoWalk, Walk
<1> QED
  BY <1>1, <1>2 DEF WalkFits

LEMMA WalkStep ==
  ASSUME LogInv, [LogNext]_logVars
  PROVE  walk' \in Walk /\ standing' \subseteq Row /\ torn' \in BOOLEAN /\ WalkFits'
<1>1. walk \in Walk /\ standing \subseteq Row /\ torn \in BOOLEAN /\ WalkFits
  BY DEF LogInv, LogTypes
<1>2. CASE UNCHANGED <<walk, standing, torn>>
  <2>1. Partitions \subseteq Partitions' /\ Log \subseteq Log'
    BY LogGrows
  <2> QED
    BY <1>1, <1>2, <2>1 DEF WalkFits, Before
<1>3. ASSUME NEW d \in Drain, ClaimAt(d) \/ Record(d) \/ GiveUp(d)
      PROVE  UNCHANGED <<walk, standing, torn>>
  BY <1>3 DEF ClaimAt, Record, GiveUp, reader
<1>4. ASSUME NEW s \in Subscriber, NEW e \in Event, RecordLate(s, e)
      PROVE  UNCHANGED <<walk, standing, torn>>
  BY <1>4 DEF RecordLate, reader
<1>5. CASE Elsewhere \/ Instants
  BY <1>2, <1>5 DEF Elsewhere, Instants, reader
<1>6. ASSUME NEW y \in Year, Roll(y) PROVE UNCHANGED <<walk, standing, torn>>
  BY <1>6 DEF Roll, reader
<1>7. CASE UNCHANGED logVars
  BY <1>2, <1>7 DEF logVars, reader
<1> QED
  BY <1>1, <1>2, <1>3, <1>4, <1>5, <1>6, <1>7, ListKeeps, SnapshotKeeps, PageKeeps, EndKeeps
  DEF LogNext

----------------------------------------------------------------------------
(* The theorems *)

LEMMA InitLog == LogInit => LogInv
<1> SUFFICES ASSUME LogInit PROVE LogInv
  OBVIOUS
<1>1. IInv
  BY InitIInv DEF LogInit
<1>2. NoWalk \in Walk
  BY DEF NoWalk, Walk
<1>3. 0 \in Instant
  BY ActivityAssumption DEF Instant
<1>4. LogTypes
  <2>1. archive \in [Year -> (SUBSET Row) \cup {None}]
    BY DEF LogInit
  <2>2. /\ claimedAt \in [Drain -> Instant] /\ lateAt \in [Event -> SUBSET Instant]
        /\ now \in Instant
    BY <1>3 DEF LogInit
  <2> QED
    BY <1>2, <2>1, <2>2 DEF LogInit, LogTypes
<1>5. Partitions = {} /\ Log = {} /\ landed = {}
  BY DEF LogInit, Init, Partitions, Log, Tables
<1>6. LoggedIsLanded
  BY <1>5 DEF LoggedIsLanded, Logged
<1>7. WalkFits
  BY <1>5 DEF LogInit, NoWalk, WalkFits
<1> QED
  BY <1>1, <1>4, <1>6, <1>7 DEF LogInv

LEMMA LogStepKeeps == LogInv /\ [LogNext]_logVars => LogInv'
<1> SUFFICES ASSUME LogInv, [LogNext]_logVars PROVE LogInv'
  OBVIOUS
<1>1. IInv'
  BY OutboxStep, IInvStep DEF LogInv
<1>2. LogTypes' /\ LoggedIsLanded' /\ WalkFits'
  BY ClockTypes, LogGrows, WalkStep DEF LogTypes
<1> QED
  BY <1>1, <1>2 DEF LogInv

LEMMA LogInductive == LogSpec => []LogInv
BY InitLog, LogStepKeeps, PTL DEF LogSpec

\* The types of the log, its partitions and its reader.
THEOREM LogTypeCorrect == LogSpec => []LogTypeOK
<1>1. LogInv => LogTypeOK
  BY DEF LogInv, IInv, Shape, LogTypes, LogTypeOK
<1> QED
  BY <1>1, LogInductive, PTL

LEMMA AcknowledgedLanded ==
  ASSUME LogInv, PublishedMeansApplied PROVE AcknowledgedIsLogged
<1> SUFFICES ASSUME NEW e \in Event,
                    receipt[Activity][e].status = "delivered" \/ e \in published
             PROVE  e \in Logged
  BY DEF AcknowledgedIsLogged
<1>1. CASE receipt[Activity][e].status = "delivered"
  BY <1>1, Setting DEF LogInv, IInv, DeliveredLanded, LoggedIsLanded
<1>2. CASE e \in published
  <2>1. PICK dep \in Deployment : \A s \in Registered(dep) : <<s, e>> \in landed
    BY <1>2 DEF PublishedMeansApplied
  <2> QED
    BY <2>1, ActivityAssumption DEF LogInv, LoggedIsLanded
<1> QED
  BY <1>1, <1>2

\* What the outbox has acknowledged or retired is in the log, through every
\* roll (archive-activity moves rows, it deletes none).
THEOREM NothingLost == LogSpec => []AcknowledgedIsLogged
BY AcknowledgedLanded, LogInductive, OutboxRefined, PublishedApplied, PTL

LEMMA InOrder ==
  ASSUME LogInv, EffectsInOrder, AcknowledgedIsLogged PROVE LogFollowsAggregate
<1> SUFFICES ASSUME NEW e \in Logged, NEW p \in Prior[e] PROVE p \in Logged
  BY DEF LogFollowsAggregate
<1>1. e \in Event
  BY LogRows, RowMeans DEF LogInv, Logged
<1>2. p \in Event
  BY <1>1, OutboxAssumption
<1>3. <<Activity, e>> \in landed
  BY <1>1 DEF LogInv, LoggedIsLanded
<1>4. p \in published \/ receipt[Activity][p].status = "delivered"
  BY <1>1, <1>3, Setting DEF EffectsInOrder
<1> QED
  BY <1>2, <1>4 DEF AcknowledgedIsLogged

\* The log shows an event only with the earlier ones of its aggregate.
THEOREM LogInOrder == LogSpec => []LogFollowsAggregate
BY InOrder, NothingLost, LogInductive, OutboxRefined, OrderKept, PTL

\* A walk that no roll tore has read all of its snapshot.
THEOREM WalksComplete == LogSpec => []WalkComplete
<1>1. LogInv => WalkComplete
  BY DEF LogInv, WalkFits, WalkComplete
<1> QED
  BY <1>1, LogInductive, PTL

----------------------------------------------------------------------------
(* What the log is handed *)

\* A handler of the log runs that may insert e under the instant at: the call
\* of a drain, or one that its drain gave up.
InFlight(e, at) ==
  \/ \E d \in Drain : /\ pc[d] = "call" /\ claimedAt[d] = at
                      /\ job[d].sub = Activity /\ job[d].event = e
  \/ <<Activity, e>> \in late /\ at \in lateAt[e]

\* A row is inserted by a handler in flight; a roll only moves rows.
LEMMA LogGains ==
  ASSUME LogInv, [LogNext]_logVars
  PROVE  \/ UNCHANGED log
         \/ /\ archive' = archive
            /\ \E e \in Event, at \in Instant : Insert(e, at) /\ InFlight(e, at)
         \/ \E y \in Year : Roll(y)
<1>1. ASSUME NEW d \in Drain, ClaimAt(d) \/ GiveUp(d)
      PROVE  UNCHANGED log
  BY <1>1 DEF ClaimAt, GiveUp, log
<1>2. ASSUME NEW d \in Drain, Record(d)
      PROVE  \/ UNCHANGED log
             \/ /\ archive' = archive
                /\ \E e \in Event, at \in Instant : Insert(e, at) /\ InFlight(e, at)
  <2>1. pc[d] = "call" /\ archive' = archive
    BY <1>2 DEF Record, Land
  <2>2. job[d].event \in Event /\ claimedAt[d] \in Instant
    BY <2>1 DEF LogInv, IInv, Shape, TypeOK, LogTypes
  <2>3. CASE job[d].sub = Activity
    <3>1. Insert(job[d].event, claimedAt[d])
      BY <1>2, <2>3 DEF Record
    <3>2. InFlight(job[d].event, claimedAt[d])
      BY <2>1, <2>3 DEF InFlight
    <3> QED
      BY <2>1, <2>2, <3>1, <3>2
  <2>4. CASE job[d].sub # Activity
    BY <1>2, <2>1, <2>4 DEF Record, log
  <2> QED
    BY <2>3, <2>4
<1>3. ASSUME NEW s \in Subscriber, NEW e \in Event, RecordLate(s, e)
      PROVE  \/ UNCHANGED log
             \/ /\ archive' = archive
                /\ \E f \in Event, at \in Instant : Insert(f, at) /\ InFlight(f, at)
  <2>1. CASE s = Activity
    <3>1. PICK at \in lateAt[e] : Insert(e, at)
      BY <1>3, <2>1 DEF RecordLate
    <3>2. at \in Instant
      BY <3>1 DEF LogInv, LogTypes
    <3>3. InFlight(e, at) /\ archive' = archive
      BY <1>3, <2>1, <3>1 DEF RecordLate, LateLand, InFlight
    <3> QED
      BY <3>1, <3>2, <3>3
  <2>2. CASE s # Activity
    BY <1>3, <2>2 DEF RecordLate, log
  <2> QED
    BY <2>1, <2>2
<1>4. CASE Elsewhere \/ Instants
  BY <1>4 DEF Elsewhere, Instants, log
<1>5. CASE ListForSnapshot \/ TakeSnapshot \/ ListForPage \/ SelectPage \/ EndWalk
  BY <1>5 DEF ListForSnapshot, TakeSnapshot, ListForPage, SelectPage, EndWalk, log
<1>6. CASE UNCHANGED logVars
  BY <1>6 DEF logVars, log
<1> QED
  BY <1>1, <1>2, <1>3, <1>4, <1>5, <1>6 DEF LogNext

\* An insert adds one row or none; a row stays in the table it is in.
LEMMA InsertAdds ==
  ASSUME LogTypes, archive' = archive, NEW e \in Event, NEW at \in Instant, Insert(e, at)
  PROVE  \/ hot' = hot /\ Log' = Log
         \/ /\ \A r \in hot : r.event # e
            /\ hot' = hot \cup {[event |-> e, at |-> at]}
            /\ Log' = Log \cup {[event |-> e, at |-> at]}
<1>1. Partitions' = Partitions
  BY DEF Partitions
<1> QED
  BY <1>1 DEF Insert, Log, Tables

LEMMA RollMoves ==
  ASSUME LogTypes, NEW y \in Year, Roll(y)
  PROVE  /\ hot' = {} /\ archive'[y] = hot /\ Partitions' = Partitions \cup {y}
         /\ y \notin Partitions
         /\ \A z \in Year \ {y} : archive'[z] = archive[z]
         /\ Log' = Log
<1>1. /\ y \notin Partitions /\ hot' = {} /\ hot # None
      /\ archive' = [archive EXCEPT ![y] = hot]
      /\ archive \in [Year -> (SUBSET Row) \cup {None}]
  BY Setting DEF Roll, Moved, LogTypes
<1>2. archive'[y] = hot /\ \A z \in Year \ {y} : archive'[z] = archive[z]
  BY <1>1
<1>3. Partitions' = Partitions \cup {y}
  BY <1>1, <1>2 DEF Partitions
<1>4. Log' = Log
  BY <1>1, <1>2, <1>3 DEF Log, Tables, Partitions
<1> QED
  BY <1>1, <1>2, <1>3, <1>4

----------------------------------------------------------------------------
(* Everything up to the snapshot *)

\* No handler of the log that was claimed up to the instant t runs on or was
\* given up, and that instant is over.
Quiet(t) ==
  /\ t < now
  /\ \A d \in Drain : pc[d] = "call" /\ job[d].sub = Activity => claimedAt[d] > t
  /\ \A e \in Event : \A at \in lateAt[e] : at > t

\* What a walk's snapshot covers is all that will ever be recorded up to it.
WalkQuiet ==
  /\ walk.pc \in {"idle", "snapshot"} => walk.through = None
  /\ walk.through # None =>
       /\ walk.through \in Instant /\ Quiet(walk.through)
       /\ standing = {r \in Log : r.at <= walk.through}

\* A drain enters the call of a handler by a claim of now.
LEMMA CallsSince ==
  ASSUME LogInv, [LogNext]_logVars, NEW x \in Drain, pc'[x] = "call"
  PROVE  \/ pc[x] = "call" /\ job'[x] = job[x] /\ claimedAt'[x] = claimedAt[x]
         \/ claimedAt'[x] = now
<1> DEFINE G == \/ pc[x] = "call" /\ job'[x] = job[x] /\ claimedAt'[x] = claimedAt[x]
                \/ claimedAt'[x] = now
<1>0. /\ pc \in [Drain -> {"idle", "scan", "claim", "call", "done"}] /\ job \in [Drain -> Job]
      /\ claimedAt \in [Drain -> Instant]
  BY DEF LogInv, IInv, Shape, TypeOK, LogTypes
<1>1. CASE UNCHANGED <<pc, job, claimedAt>>
  BY <1>1
<1>2. ASSUME NEW d \in Drain, ClaimAt(d) PROVE G
  BY <1>0, <1>2 DEF ClaimAt, ClaimAttempt
<1>3. ASSUME NEW d \in Drain, Record(d) PROVE G
  BY <1>0, <1>3 DEF Record, Land
<1>4. ASSUME NEW d \in Drain, GiveUp(d) PROVE G
  BY <1>0, <1>4 DEF GiveUp, SettleFailure, Crash, Resume, Stop
<1>5. ASSUME NEW s \in Subscriber, NEW e \in Event, RecordLate(s, e)
      PROVE  UNCHANGED <<pc, job, claimedAt>>
  BY <1>5 DEF RecordLate, LateLand
<1>6. ASSUME Elsewhere PROVE G
  <2>1. claimedAt' = claimedAt
    BY <1>6 DEF Elsewhere
  <2>2. ASSUME NEW d \in Drain, StartDrain(d) \/ ScanHit(d) PROVE G
    BY <1>0, <2>1, <2>2 DEF StartDrain, ScanHit
  <2>3. ASSUME NEW d \in Drain,
               EndDrain(d) \/ ClaimExhausted(d) \/ ClaimRefused(d) \/ ClaimContended(d)
                 \/ SettleDelivered(d)
        PROVE  G
    BY <1>0, <2>1, <2>3
    DEF EndDrain, ClaimExhausted, ClaimRefused, ClaimContended, SettleDelivered, Resume, Stop
  <2>4. ASSUME NEW d \in Drain, ScanMiss(d) PROVE UNCHANGED <<pc, job>>
    BY <2>4 DEF ScanMiss
  <2>5. ASSUME NEW e \in Event, Enqueue(e) PROVE UNCHANGED <<pc, job>>
    BY <2>5 DEF Enqueue
  <2>6. ASSUME NEW s \in Subscriber, NEW e \in Event, RetryFailed(s, e)
        PROVE  UNCHANGED <<pc, job>>
    BY <2>6 DEF RetryFailed
  <2> HIDE DEF G
  <2>7. UNCHANGED <<pc, job>> => G
    BY <1>1, <2>1 DEF G
  <2> QED
    BY <1>6, <2>2, <2>3, <2>4, <2>5, <2>6, <2>7 DEF Elsewhere
<1>7. Instants => UNCHANGED <<pc, job, claimedAt>>
  BY DEF Instants, Tick, vars
<1>8. ASSUME NEW y \in Year, Roll(y) PROVE UNCHANGED <<pc, job, claimedAt>>
  BY <1>8 DEF Roll, Enqueue
<1>9. CASE ListForSnapshot \/ TakeSnapshot \/ ListForPage \/ SelectPage \/ EndWalk
  BY <1>1, <1>9 DEF ListForSnapshot, TakeSnapshot, ListForPage, SelectPage, EndWalk, vars
<1>10. UNCHANGED logVars => UNCHANGED <<pc, job, claimedAt>>
  BY DEF logVars, vars
<1> HIDE DEF G
<1>11. UNCHANGED <<pc, job, claimedAt>> => G
  BY <1>1 DEF G
<1>12. G
  BY <1>2, <1>3, <1>4, <1>5, <1>6, <1>7, <1>8, <1>9, <1>10, <1>11 DEF LogNext, G
<1> QED
  BY <1>12 DEF G

\* A claim time is remembered when the call it belongs to is given up.
LEMMA GivenUpSince ==
  ASSUME LogInv, [LogNext]_logVars, NEW e \in Event, NEW at \in lateAt'[e]
  PROVE  \/ at \in lateAt[e]
         \/ \E d \in Drain : pc[d] = "call" /\ job[d].sub = Activity /\ claimedAt[d] = at
<1>0. lateAt \in [Event -> SUBSET Instant]
  BY DEF LogInv, LogTypes
<1>1. CASE lateAt' = lateAt
  BY <1>1
<1>2. ASSUME NEW d \in Drain, GiveUp(d)
      PROVE  \/ at \in lateAt[e]
             \/ pc[d] = "call" /\ job[d].sub = Activity /\ claimedAt[d] = at
  BY <1>0, <1>2 DEF GiveUp
<1>3. ASSUME NEW d \in Drain, ClaimAt(d) \/ Record(d) PROVE lateAt' = lateAt
  BY <1>3 DEF ClaimAt, Record
<1>4. ASSUME NEW s \in Subscriber, NEW f \in Event, RecordLate(s, f) PROVE lateAt' = lateAt
  BY <1>4 DEF RecordLate
<1>5. Elsewhere \/ Instants => lateAt' = lateAt
  BY DEF Elsewhere, Instants
<1>6. ASSUME NEW y \in Year, Roll(y) PROVE lateAt' = lateAt
  BY <1>6 DEF Roll
<1>7. ListForSnapshot \/ TakeSnapshot \/ ListForPage \/ SelectPage \/ EndWalk => lateAt' = lateAt
  BY DEF ListForSnapshot, TakeSnapshot, ListForPage, SelectPage, EndWalk
<1>8. UNCHANGED logVars => lateAt' = lateAt
  BY DEF logVars
<1> QED
  BY <1>1, <1>2, <1>3, <1>4, <1>5, <1>6, <1>7, <1>8 DEF LogNext

LEMMA TimePasses ==
  ASSUME LogInv, [LogNext]_logVars PROVE now' >= now
<1>0. now \in Nat
  BY ActivityAssumption DEF LogInv, LogTypes, Instant
<1>1. CASE now' = now
  BY <1>0, <1>1
<1>2. CASE Instants
  BY <1>0, <1>2 DEF Instants
<1>3. ASSUME NEW d \in Drain, ClaimAt(d) \/ Record(d) \/ GiveUp(d) PROVE now' = now
  BY <1>3 DEF ClaimAt, Record, GiveUp
<1>4. ASSUME NEW s \in Subscriber, NEW f \in Event, RecordLate(s, f) PROVE now' = now
  BY <1>4 DEF RecordLate
<1>5. Elsewhere => now' = now
  BY DEF Elsewhere
<1>6. ASSUME NEW y \in Year, Roll(y) PROVE now' = now
  BY <1>6 DEF Roll
<1>7. ListForSnapshot \/ TakeSnapshot \/ ListForPage \/ SelectPage \/ EndWalk => now' = now
  BY DEF ListForSnapshot, TakeSnapshot, ListForPage, SelectPage, EndWalk
<1>8. UNCHANGED logVars => now' = now
  BY DEF logVars
<1> QED
  BY <1>1, <1>2, <1>3, <1>4, <1>5, <1>6, <1>7, <1>8 DEF LogNext

LEMMA QuietStays ==
  ASSUME LogInv, [LogNext]_logVars, NEW t \in Instant, Quiet(t)
  PROVE  Quiet(t)'
<1>0. /\ t \in Nat /\ now \in Nat /\ now' \in Nat
      /\ \A d \in Drain : job'[d] \in Job
      /\ \A d \in Drain : claimedAt[d] \in Nat
  <2>1. LogInv'
    BY LogStepKeeps
  <2>2. LogTypes /\ now' \in Instant /\ \A d \in Drain : job'[d] \in Job
    BY <2>1 DEF LogInv, LogTypes, IInv, Shape, TypeOK
  <2> QED
    BY <2>2, ActivityAssumption DEF LogTypes, Instant
<1>1. t < now'
  BY <1>0, TimePasses DEF Quiet
<1>2. ASSUME NEW d \in Drain, pc'[d] = "call", job'[d].sub = Activity
      PROVE  claimedAt'[d] > t
  BY <1>0, <1>2, CallsSince DEF Quiet
<1>3. ASSUME NEW e \in Event, NEW at \in lateAt'[e] PROVE at > t
  BY <1>3, GivenUpSince DEF Quiet
<1> QED
  BY <1>1, <1>2, <1>3 DEF Quiet

\* What is inserted while t is quiet is recorded after t.
LEMMA QuietLog ==
  ASSUME LogInv, [LogNext]_logVars, NEW t \in Instant, Quiet(t)
  PROVE  {r \in Log : r.at <= t}' = {r \in Log : r.at <= t}
<1>0. LogTypes /\ t \in Nat
  BY ActivityAssumption DEF LogInv, Instant
<1>1. CASE UNCHANGED log
  <2>1. Log' = Log
    BY <1>1 DEF log, Log, Tables, Partitions
  <2> QED
    BY <2>1
<1>2. ASSUME archive' = archive, NEW e \in Event, NEW at \in Instant,
             Insert(e, at), InFlight(e, at)
      PROVE  {r \in Log : r.at <= t}' = {r \in Log : r.at <= t}
  <2>1. at > t /\ at \in Nat
    BY <1>2, ActivityAssumption DEF InFlight, Quiet, Instant
  <2>2. Log' = Log \/ Log' = Log \cup {[event |-> e, at |-> at]}
    BY <1>0, <1>2, InsertAdds
  <2> QED
    BY <1>0, <2>1, <2>2
<1>3. ASSUME NEW y \in Year, Roll(y) PROVE Log' = Log
  BY <1>0, <1>3, RollMoves
<1>4. CASE Log' = Log
  BY <1>4
<1> QED
  BY <1>1, <1>2, <1>3, <1>4, LogGains

LEMMA WalkQuietStays ==
  ASSUME LogInv, WalkQuiet, [LogNext]_logVars,
         TakeSnapshot /\ walk'.through # None => Quiet(walk'.through)
  PROVE  WalkQuiet'
<1>0. walk \in Walk /\ Log \subseteq Row /\ LogTypes
  BY WalkTyped, LogRows DEF LogInv
<1>1. CASE walk'.through = walk.through /\ standing' = standing
           /\ (walk'.pc \in {"idle", "snapshot"} => walk.pc \in {"idle", "snapshot"})
  BY <1>1, QuietStays, QuietLog DEF WalkQuiet
<1>2. CASE TakeSnapshot
  <2>1. /\ walk.through = None /\ Log' = Log
        /\ UNCHANGED <<pc, job, now, claimedAt, lateAt>>
    <3>1. UNCHANGED <<vars, log, now, claimedAt, lateAt>> /\ walk.pc = "snapshot"
      BY <1>2 DEF TakeSnapshot
    <3>2. Log' = Log
      BY <3>1 DEF log, Log, Tables, Partitions
    <3>3. UNCHANGED <<pc, job>>
      BY <3>1 DEF vars
    <3> QED
      BY <3>1, <3>2, <3>3 DEF WalkQuiet
  <2>2. CASE walk' = [walk EXCEPT !.pc = "done"]
    BY <1>0, <2>1, <2>2 DEF Walk, WalkQuiet
  <2>3. ASSUME NEW last \in Tables(walk.tables),
               walk' = [walk EXCEPT !.pc = "page", !.through = last.at],
               standing' = {r \in Log : r.at <= last.at}
        PROVE  WalkQuiet'
    <3>1. last \in Row
      BY <1>0, <2>3 DEF LogInv, WalkFits, Log, Tables
    <3>2. last.at \in Instant
      BY <3>1, RowMeans
    <3>3. walk'.through = last.at /\ walk'.pc = "page"
      BY <1>0, <2>3 DEF Walk
    <3>4. last.at # None => Quiet(last.at)
      BY <1>2, <3>3
    <3>5. last.at # None => Quiet(last.at)'
      BY <2>1, <3>4 DEF Quiet
    <3> QED
      BY <2>1, <2>3, <3>2, <3>3, <3>5 DEF WalkQuiet
  <2> QED
    BY <1>2, <2>2, <2>3 DEF TakeSnapshot
<1>3. CASE UNCHANGED <<walk, standing>>
  BY <1>1, <1>3
<1>4. CASE ListForSnapshot \/ ListForPage
  BY <1>0, <1>1, <1>4 DEF ListForSnapshot, ListForPage, Walk
<1>5. CASE SelectPage
  BY <1>0, <1>1, <1>5 DEF SelectPage, Walk
<1>6. CASE EndWalk
  BY <1>6 DEF EndWalk, NoWalk, WalkQuiet
<1>7. ASSUME NEW d \in Drain, ClaimAt(d) \/ Record(d) \/ GiveUp(d)
      PROVE  UNCHANGED <<walk, standing>>
  BY <1>7 DEF ClaimAt, Record, GiveUp, reader
<1>8. ASSUME NEW s \in Subscriber, NEW e \in Event, RecordLate(s, e)
      PROVE  UNCHANGED <<walk, standing>>
  BY <1>8 DEF RecordLate, reader
<1>9. CASE Elsewhere \/ Instants
  BY <1>3, <1>9 DEF Elsewhere, Instants, reader
<1>10. ASSUME NEW y \in Year, Roll(y) PROVE UNCHANGED <<walk, standing>>
  BY <1>10 DEF Roll, reader
<1>11. CASE UNCHANGED logVars
  BY <1>3, <1>11 DEF logVars, reader
<1> QED
  BY <1>2, <1>3, <1>4, <1>5, <1>6, <1>7, <1>8, <1>9, <1>10, <1>11 DEF LogNext

\* A walk whose snapshot found the instant it reads up to over, and no
\* delivery claimed by then unsettled, reads everything that is ever recorded
\* up to that instant, and not only what was there when it began.  A delivery
\* in flight is what makes the difference (outbox.ts: a row is recorded under
\* the instant of its claim and inserted later).
THEOREM QuietWalksSeeAll ==
  LogSpec /\ [][TakeSnapshot /\ walk'.through # None => Quiet(walk'.through)]_logVars
    => [](walk.pc = "done" /\ walk.through # None /\ ~torn =>
            {r \in Log : r.at <= walk.through} \subseteq walk.read)
<1>1. LogInit => WalkQuiet
  BY DEF LogInit, NoWalk, WalkQuiet
<1>2. LogInv /\ WalkQuiet /\ [LogNext]_logVars
        /\ [TakeSnapshot /\ walk'.through # None => Quiet(walk'.through)]_logVars
      => WalkQuiet'
  <2> SUFFICES ASSUME LogInv, WalkQuiet, [LogNext]_logVars,
                      [TakeSnapshot /\ walk'.through # None => Quiet(walk'.through)]_logVars
               PROVE  WalkQuiet'
    OBVIOUS
  <2>1. CASE TakeSnapshot /\ walk'.through # None => Quiet(walk'.through)
    BY <2>1, WalkQuietStays
  <2>2. CASE UNCHANGED logVars
    <3>1. ~TakeSnapshot
      <4>1. TakeSnapshot => walk'.pc # "snapshot" /\ walk.pc = "snapshot"
        BY WalkTyped DEF TakeSnapshot, LogInv, Walk
      <4> QED
        BY <2>2, <4>1 DEF logVars, reader
    <3> QED
      BY <3>1, WalkQuietStays
  <2> QED
    BY <2>1, <2>2
<1>3. WalkQuiet /\ WalkComplete =>
        (walk.pc = "done" /\ walk.through # None /\ ~torn =>
           {r \in Log : r.at <= walk.through} \subseteq walk.read)
  BY DEF WalkQuiet, WalkComplete
<1> QED
  BY <1>1, <1>2, <1>3, LogInductive, WalksComplete, PTL DEF LogSpec

----------------------------------------------------------------------------
(* Once in the log *)

\* The log may still be handed e: it is not acknowledged, or a handler is out.
Reaching(e) ==
  \/ receipt[Activity][e].status # "delivered"
  \/ <<Activity, e>> \in late
  \/ \E d \in Drain : pc[d] = "call" /\ job[d].sub = Activity /\ job[d].event = e

\* An event has one row of the table it is in, and what a roll took away is
\* not handed to the log any more.
OneRowEach ==
  /\ \A r, q \in Log : r.event = q.event => r = q
  /\ \A y \in Partitions : \A r \in archive[y] : r \notin hot /\ ~Reaching(r.event)
  /\ \A y, z \in Partitions : y # z => archive[y] \cap archive[z] = {}

\* A drain enters the call of a handler with the receipt in processing.
LEMMA CallsProcess ==
  ASSUME Shape, [Next]_vars, NEW x \in Drain, pc'[x] = "call"
  PROVE  \/ pc[x] = "call" /\ job'[x] = job[x]
         \/ receipt'[job'[x].sub][job'[x].event].status = "processing"
<1> DEFINE G == \/ pc[x] = "call" /\ job'[x] = job[x]
                \/ receipt'[job'[x].sub][job'[x].event].status = "processing"
<1>0. pc \in [Drain -> {"idle", "scan", "claim", "call", "done"}] /\ job \in [Drain -> Job]
  BY DEF Shape, TypeOK
<1>1. CASE UNCHANGED <<pc, job>>
  BY <1>1
<1>2. ASSUME NEW d \in Drain, StartDrain(d) \/ Stop(d) \/ Resume(d) \/ ScanHit(d) \/ Land(d)
      PROVE  G
  BY <1>0, <1>2 DEF StartDrain, Stop, Resume, ScanHit, Land
<1>3. ASSUME NEW d \in Drain, ClaimAttempt(d) PROVE G
  <2>1. /\ receipt \in [Subscriber -> [Event -> Receipt]]
        /\ job[d].sub \in Subscriber /\ job[d].event \in Event
    BY <1>3 DEF ClaimAttempt, Shape, TypeOK
  <2>2. receipt'[job[d].sub][job[d].event].status = "processing"
    BY <1>3, <2>1 DEF ClaimAttempt
  <2> QED
    BY <1>0, <1>3, <2>2 DEF ClaimAttempt
<1>4. ASSUME NEW d \in Drain, Step(d) \/ Land(d) \/ Crash(d)
      PROVE  \/ UNCHANGED <<pc, job>>
             \/ StartDrain(d) \/ Stop(d) \/ Resume(d) \/ ScanHit(d) \/ Land(d)
             \/ ClaimAttempt(d)
  BY <1>4 DEF Step, Claim, Settle, ScanMiss, EndDrain, ClaimExhausted, ClaimRefused,
     ClaimContended, SettleDelivered, SettleFailure, Crash
<1>5. ASSUME NEW s \in Subscriber, NEW e \in Event, LateLand(s, e) \/ RetryFailed(s, e)
      PROVE  UNCHANGED <<pc, job>>
  BY <1>5 DEF LateLand, RetryFailed
<1>6. ASSUME NEW e \in Event, Enqueue(e) PROVE UNCHANGED <<pc, job>>
  BY <1>6 DEF Enqueue
<1>7. Tick \/ UNCHANGED vars => UNCHANGED <<pc, job>>
  BY DEF Tick, vars
<1> HIDE DEF G
<1>8. UNCHANGED <<pc, job>> => G
  BY <1>1 DEF G
<1>9. G
  BY <1>2, <1>3, <1>4, <1>5, <1>6, <1>7, <1>8 DEF Next, G
<1> QED
  BY <1>9 DEF G

\* A handler is given up only while it runs.
LEMMA LateWasCalled ==
  ASSUME [Next]_vars, NEW s \in Subscriber, NEW e \in Event, <<s, e>> \in late'
  PROVE  \/ <<s, e>> \in late
         \/ \E d \in Drain : pc[d] = "call" /\ job[d].sub = s /\ job[d].event = e
<1>1. ASSUME NEW d \in Drain, Step(d) \/ Land(d) \/ Crash(d)
      PROVE  \/ late' \subseteq late
             \/ pc[d] = "call" /\ late' \subseteq late \cup {<<job[d].sub, job[d].event>>}
  BY <1>1 DEF Step, StartDrain, ScanHit, ScanMiss, EndDrain, Claim, ClaimAttempt,
     ClaimExhausted, ClaimRefused, ClaimContended, Settle, SettleDelivered,
     SettleFailure, Land, Crash, Abandon
<1>2. ASSUME NEW t \in Subscriber, NEW f \in Event, LateLand(t, f) \/ RetryFailed(t, f)
      PROVE  late' \subseteq late
  BY <1>2 DEF LateLand, RetryFailed
<1>3. ASSUME NEW f \in Event, Enqueue(f) PROVE late' \subseteq late
  BY <1>3 DEF Enqueue
<1>4. Tick \/ UNCHANGED vars => late' \subseteq late
  BY DEF Tick, vars
<1> QED
  BY <1>1, <1>2, <1>3, <1>4 DEF Next

\* What is acknowledged and in no handler's hands stays out of them.
LEMMA PastReach ==
  ASSUME LogInv, [LogNext]_logVars, NEW e \in Event, ~Reaching(e)
  PROVE  ~Reaching(e)'
<1>0. Shape /\ [Next]_vars /\ Activity \in Subscriber
  BY OutboxStep, Setting DEF LogInv, IInv
<1>1. receipt'[Activity][e].status = "delivered"
  <2>1. RowStep(Activity, e)
    BY <1>0, RowsStep
  <2> QED
    BY <2>1 DEF RowStep, Reaching
<1>2. <<Activity, e>> \notin late'
  BY <1>0, LateWasCalled DEF Reaching
<1>3. ASSUME NEW d \in Drain, pc'[d] = "call", job'[d].sub = Activity, job'[d].event = e
      PROVE  FALSE
  BY <1>0, <1>1, <1>3, CallsProcess DEF Reaching
<1> QED
  BY <1>1, <1>2, <1>3 DEF Reaching

LEMMA OneRowStays ==
  ASSUME LogInv, OneRowEach, [LogNext]_logVars,
         \A y \in Year : Roll(y) => \A r \in hot : ~Reaching(r.event)
  PROVE  OneRowEach'
<1>0. /\ LogTypes /\ Log \subseteq Row /\ Partitions \subseteq Year
      /\ \A r \in Log : r.event \in Event
      /\ hot \subseteq Log /\ \A y \in Partitions : archive[y] \subseteq Log
  <2>1. LogTypes /\ Log \subseteq Row /\ Partitions \subseteq Year
    BY LogRows DEF LogInv
  <2> QED
    BY <2>1, RowMeans DEF Log, Tables
<1>1. \A r \in Log : ~Reaching(r.event) => ~Reaching(r.event)'
  <2> SUFFICES ASSUME NEW r \in Log, ~Reaching(r.event) PROVE ~Reaching(r.event)'
    OBVIOUS
  <2> DEFINE e == r.event
  <2>1. e \in Event /\ ~Reaching(e)
    BY <1>0
  <2> HIDE DEF e
  <2>2. ~Reaching(e)'
    BY <2>1, PastReach
  <2> QED
    BY <2>2 DEF e
<1>2. CASE UNCHANGED log
  <2>1. hot' = hot /\ archive' = archive /\ Partitions' = Partitions /\ Log' = Log
    BY <1>2 DEF log, Log, Tables, Partitions
  <2> QED
    BY <1>0, <1>1, <2>1 DEF OneRowEach
<1>3. ASSUME archive' = archive, NEW e \in Event, NEW at \in Instant,
             Insert(e, at), InFlight(e, at)
      PROVE  OneRowEach'
  <2>1. Partitions' = Partitions
    BY <1>3 DEF Partitions
  <2>2. CASE hot' = hot /\ Log' = Log
    BY <1>0, <1>1, <1>3, <2>1, <2>2 DEF OneRowEach
  <2>3. CASE /\ \A r \in hot : r.event # e
             /\ hot' = hot \cup {[event |-> e, at |-> at]}
             /\ Log' = Log \cup {[event |-> e, at |-> at]}
    <3> DEFINE new == [event |-> e, at |-> at]
    <3>1. Reaching(e)
      BY <1>3 DEF InFlight, Reaching
    <3>2. \A r \in Log : r.event # e
      <4>1. \A y \in Partitions : \A r \in archive[y] : r.event # e
        BY <3>1 DEF OneRowEach
      <4> QED
        BY <2>3, <4>1 DEF Log, Tables
    <3>3. new.event = e
      OBVIOUS
    <3> HIDE DEF new
    <3>4. hot' = hot \cup {new} /\ Log' = Log \cup {new}
      BY <2>3 DEF new
    <3>5. \A r, q \in Log' : r.event = q.event => r = q
      BY <3>2, <3>3, <3>4 DEF OneRowEach
    <3>6. \A y \in Partitions' : \A r \in archive'[y] : r \notin hot' /\ ~Reaching(r.event)'
      BY <1>0, <1>1, <1>3, <2>1, <3>2, <3>3, <3>4 DEF OneRowEach
    <3> QED
      BY <1>3, <2>1, <3>5, <3>6 DEF OneRowEach
  <2> QED
    BY <1>0, <1>3, <2>2, <2>3, InsertAdds
<1>4. ASSUME NEW y \in Year, Roll(y) PROVE OneRowEach'
  <2>1. /\ hot' = {} /\ archive'[y] = hot /\ Partitions' = Partitions \cup {y}
        /\ y \notin Partitions
        /\ \A z \in Year \ {y} : archive'[z] = archive[z]
        /\ Log' = Log
    BY <1>0, <1>4, RollMoves
  <2>2. \A r \in hot : ~Reaching(r.event)
    BY <1>4
  <2>3. \A z \in Partitions' : \A r \in archive'[z] : r \notin hot' /\ ~Reaching(r.event)'
    <3> SUFFICES ASSUME NEW z \in Partitions', NEW r \in archive'[z]
                 PROVE  r \notin hot' /\ ~Reaching(r.event)'
      OBVIOUS
    <3>1. r \in Log /\ ~Reaching(r.event)
      BY <1>0, <2>1, <2>2 DEF OneRowEach
    <3> QED
      BY <1>1, <2>1, <3>1
  <2>4. \A w, z \in Partitions' : w # z => archive'[w] \cap archive'[z] = {}
    BY <1>0, <2>1 DEF OneRowEach
  <2> QED
    BY <2>1, <2>3, <2>4 DEF OneRowEach
<1> QED
  BY <1>2, <1>3, <1>4, LogGains

\* An event has one row in the log, in one of its tables, as long as no roll
\* comes between a row and the end of what may still insert it: the
\* acknowledgement of its delivery and the last handler of it that runs.  The
\* insert looks for the row in the hot table only (outbox.ts,
\* createActivitySubscriber; activity-partitions.ts, rename).
THEOREM LoggedOnce ==
  LogSpec /\ [][\A y \in Year : Roll(y) => \A r \in hot : ~Reaching(r.event)]_logVars
    => [](/\ \A r, q \in Log : r.event = q.event => r = q
          /\ \A y \in Partitions : archive[y] \cap hot = {}
          /\ \A y, z \in Partitions : y # z => archive[y] \cap archive[z] = {})
<1>1. LogInit => OneRowEach
  BY DEF LogInit, OneRowEach, Log, Tables, Partitions
<1>2. LogInv /\ OneRowEach /\ [LogNext]_logVars
        /\ [\A y \in Year : Roll(y) => \A r \in hot : ~Reaching(r.event)]_logVars
      => OneRowEach'
  <2> SUFFICES ASSUME LogInv, OneRowEach, [LogNext]_logVars,
                      [\A y \in Year : Roll(y) => \A r \in hot : ~Reaching(r.event)]_logVars
               PROVE  OneRowEach'
    OBVIOUS
  <2>1. CASE \A y \in Year : Roll(y) => \A r \in hot : ~Reaching(r.event)
    BY <2>1, OneRowStays
  <2>2. CASE UNCHANGED logVars
    <3>1. ASSUME NEW y \in Year PROVE ~Roll(y)
      <4>1. Roll(y) => y \notin Partitions /\ y \in Partitions'
        BY RollMoves DEF LogInv
      <4>2. Partitions' = Partitions
        BY <2>2 DEF logVars, log, Partitions
      <4> QED
        BY <4>1, <4>2
    <3> QED
      BY <3>1, OneRowStays
  <2> QED
    BY <2>1, <2>2
<1>3. OneRowEach =>
        /\ \A r, q \in Log : r.event = q.event => r = q
        /\ \A y \in Partitions : archive[y] \cap hot = {}
        /\ \A y, z \in Partitions : y # z => archive[y] \cap archive[z] = {}
  BY DEF OneRowEach
<1> QED
  BY <1>1, <1>2, <1>3, LogInductive, PTL DEF LogSpec
=============================================================================
