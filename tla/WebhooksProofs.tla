--------------------------- MODULE WebhooksProofs ---------------------------
(***************************************************************************)
(* The safety properties of Webhooks, for any subscriptions, events and    *)
(* sweeps, any number of handlers and any budget of attempts.              *)
(*                                                                         *)
(* The budget is the hard one: a pause gives an attempt back, and attempts *)
(* whose lease was lost go on for a while.  The invariant counts the       *)
(* requests that were sent together with those that still may be: both     *)
(* are covered by the attempts the row has counted.                        *)
(***************************************************************************)
EXTENDS Webhooks, FiniteSetTheorems, TLAPS

----------------------------------------------------------------------------
(* The inductive invariant *)

\* A handler past its claim has a delivery in hand, as an attempt of it.
Working == {"look", "putback", "send", "settle"}
InHand ==
  \A h \in Handler : pc[h] \in Working => job[h] # None /\ job[h].cycle > 0

\* While a handler holds the lease, the row is as the handler claimed it.
HoldsAsClaimed ==
  \A h \in Handler : pc[h] \in Working =>
    LET d == job[h].delivery IN
    Is(d, "processing") /\ row[d].holder = h =>
      row[d].cycle = job[h].cycle /\ row[d].replays = job[h].replays

\* The handlers that may still send a request for d in its cycle r.
Sending == {"look", "putback", "send"}
Open(d, r) ==
  {h \in Handler : /\ pc[h] \in Sending
                   /\ job[h].delivery = d /\ job[h].replays = r}

\* The requests of a cycle, those that were sent and those that still may be.
Load(d, r) == sends[d][r] + Cardinality(Open(d, r))

\* There is no delivery before its event, and no request of a cycle to come.
NothingEarly ==
  \A d \in Delivery :
    /\ d[2] \notin emitted => row[d] = None
    /\ \A r \in 0..MaxReplays :
         (d[2] \notin emitted \/ (row[d] # None /\ row[d].replays < r))
         => Load(d, r) = 0

\* Requests sent and still to be sent are covered by counted attempts.
Covered ==
  \A d \in Delivery, r \in 0..MaxReplays :
    /\ Load(d, r) <= MaxAttempts
    /\ row[d] # None /\ row[d].replays = r => Load(d, r) <= row[d].cycle

\* A handler that reports a success has seen it.
SuccessSeen ==
  \A h \in Handler : pc[h] = "settle" /\ job[h].result = "ok" =>
    accepted[job[h].delivery][job[h].replays]

Shape == TypeOK /\ InHand /\ HoldsAsClaimed
Rest ==
  /\ NothingEarly /\ Covered
  /\ SuccessSeen /\ RemovedIsQuiet /\ DeliveredMeansAccepted
IInv == Shape /\ Rest

----------------------------------------------------------------------------
LEMMA LimitedSubset ==
  ASSUME NEW n, NEW S, NEW D \in Limited(n, S) PROVE D \subseteq S
BY DEF Limited, kSubset

LEMMA InitShape == Init => Shape
BY WebhooksAssumption
DEF Init, Shape, TypeOK, InHand, HoldsAsClaimed, Working, Row, Job

\* A row that nobody works on, or that is worked on as before.
RowKept(d) ==
  /\ row'[d] # None /\ row'[d].status = "processing" =>
       /\ row[d] # None /\ row[d].status = "processing"
       /\ row'[d].holder = row[d].holder /\ row'[d].cycle = row[d].cycle
       /\ row'[d].replays = row[d].replays

\* Steps that leave the handlers at work alone.
LEMMA RowsShape ==
  ASSUME Shape, TypeOK', job' = job,
         \A h \in Handler : pc'[h] \in Working => pc[h] \in Working,
         \A d \in Delivery : RowKept(d)
  PROVE  Shape'
<1>1. InHand'
  BY DEF Shape, InHand
<1>2. HoldsAsClaimed'
  <2> SUFFICES ASSUME NEW h \in Handler, pc'[h] \in Working,
                      row'[job[h].delivery] # None,
                      row'[job[h].delivery].status = "processing",
                      row'[job[h].delivery].holder = h
               PROVE  /\ row'[job[h].delivery].cycle = job[h].cycle
                      /\ row'[job[h].delivery].replays = job[h].replays
      BY DEF HoldsAsClaimed, Is
  <2>1. job[h].delivery \in Delivery
    BY DEF Shape, TypeOK, InHand, Job
  <2> QED
    BY <2>1 DEF Shape, HoldsAsClaimed, Is, RowKept
<1> QED
  BY <1>1, <1>2 DEF Shape

LEMMA FailedRow ==
  ASSUME NEW r \in Row
  PROVE  /\ Failed(r) \in Row /\ Failed(r) # None /\ Failed(r).status = "failed"
         /\ Failed(r).cycle = r.cycle /\ Failed(r).replays = r.replays
<1>1. Failed(r) \in Row
  BY DEF Failed, Row, Status
<1>2. Failed(r) # None
  BY <1>1, WebhooksAssumption
<1> QED
  BY <1>1, <1>2 DEF Failed, Row

\* Commands, events and time.
LEMMA CommandShape ==
  ASSUME Shape, NEW s \in Subscription, Command(s) PROVE Shape'
<1>1. CASE Create(s) \/ SetActive(s)
  <2>1. TypeOK' /\ pc' = pc /\ job' = job /\ row' = row
    BY <1>1, SMTT(30) DEF Shape, TypeOK, Create, SetActive, sweeps, handlers, bounds, history
  <2> QED
    BY <2>1, RowsShape DEF RowKept
<1>2. CASE Remove(s)
  <2>1. \A d \in Delivery : row'[d] = row[d] \/ (row[d] \in Row /\ row'[d] = Failed(row[d]))
    <3> TAKE d \in Delivery
    <3>1. row'[d] = IF d[1] = s /\ Unsettled(d) THEN Failed(row[d]) ELSE row[d]
      BY <1>2 DEF Remove
    <3>2. Unsettled(d) => row[d] \in Row
      BY DEF Shape, TypeOK, Unsettled, Is
    <3> QED
      BY <3>1, <3>2
  <2>2. \A d \in Delivery : RowKept(d) /\ row'[d] \in Row \cup {None}
    BY <2>1, FailedRow DEF Shape, TypeOK, RowKept
  <2>3. TypeOK' /\ pc' = pc /\ job' = job
    BY <1>2, <2>2 DEF Shape, TypeOK, Remove, sweeps, handlers, bounds, history
  <2> QED
    BY <2>2, <2>3, RowsShape
<1> QED
  BY <1>1, <1>2 DEF Command

LEMMA EmitShape ==
  ASSUME Shape, NEW e \in Event, Emit(e) PROVE Shape'
<1>1. TypeOK' /\ pc' = pc /\ job' = job
  BY WebhooksAssumption
  DEF Shape, TypeOK, Emit, Row, Status, Age, sweeps, handlers, bounds, history
<1>2. \A d \in Delivery : RowKept(d)
  BY DEF Shape, TypeOK, Emit, RowKept
<1> QED
  BY <1>1, <1>2, RowsShape

LEMMA ReplayedRow ==
  ASSUME NEW r \in Row, r.replays < MaxReplays
  PROVE  /\ Replayed(r) \in Row /\ Replayed(r).status = "pending"
         /\ Replayed(r).cycle = 0 /\ Replayed(r).replays = r.replays + 1
<1>1. MaxAttempts \in Nat /\ MaxReplays \in Nat
  BY WebhooksAssumption
<1>2. r.replays + 1 \in 0..MaxReplays /\ 0 \in 0..MaxAttempts
  BY <1>1 DEF Row
<1>3. Replayed(r) \in Row
  BY <1>2 DEF Replayed, Row, Status
<1> QED
  BY <1>3 DEF Replayed, Row

LEMMA ReplayShape ==
  ASSUME Shape, NEW d \in Delivery, Replay(d) PROVE Shape'
<1>1. row[d] \in Row /\ row[d].replays < MaxReplays
  BY DEF Shape, TypeOK, Replay, Is
<1>2. row' = [row EXCEPT ![d] = Replayed(row[d])]
  BY DEF Replay
<1>3. TypeOK' /\ pc' = pc /\ job' = job
  BY <1>1, <1>2, ReplayedRow
  DEF Shape, TypeOK, Replay, sweeps, handlers, bounds, history
<1>4. \A x \in Delivery : RowKept(x)
  BY <1>1, <1>2, ReplayedRow DEF Shape, TypeOK, RowKept
<1> QED
  BY <1>3, <1>4, RowsShape

\* A row that only grew older.
LEMMA AgedRow ==
  ASSUME NEW d \in Delivery, row[d] \in Row, NEW t \in Nat, NEW age \in Age,
         \/ row'[d] = [row[d] EXCEPT !.timer = t]
         \/ row'[d] = [row[d] EXCEPT !.age = age]
  PROVE  RowKept(d) /\ row'[d] \in Row
<1>1. row[d] # None
  BY WebhooksAssumption
<1> QED
  BY <1>1 DEF Row, RowKept

LEMMA TimeShape ==
  ASSUME Shape, Tick \/ Purge \/ \E d \in Delivery : GrowOld(d) PROVE Shape'
<1>1. CASE Tick
  <2>1. \A d \in Delivery :
          \/ row'[d] = row[d]
          \/ \E t \in Nat : /\ row[d] \in Row
                            /\ row'[d] = [row[d] EXCEPT !.timer = t]
    <3> TAKE d \in Delivery
    <3>1. CASE row[d] # None /\ ~Expired(d)
      <4>1. row[d] \in Row /\ row[d].timer - 1 \in Nat
        BY <3>1 DEF Shape, TypeOK, Expired, Row
      <4>2. row'[d] = [row[d] EXCEPT !.timer = row[d].timer - 1]
        BY <1>1, <3>1 DEF Tick
      <4> QED
        BY <4>1, <4>2
    <3>2. CASE ~(row[d] # None /\ ~Expired(d))
      BY <1>1, <3>2 DEF Tick
    <3> QED
      BY <3>1, <3>2
  <2>2. \A d \in Delivery : RowKept(d) /\ row'[d] \in Row \cup {None}
    <3> "old" \in Age
      BY DEF Age
    <3> TAKE d \in Delivery
    <3>1. CASE row'[d] = row[d]
      BY <3>1 DEF Shape, TypeOK, RowKept
    <3> QED
      BY <2>1, <3>1, AgedRow
  <2>3. TypeOK' /\ pc' = pc /\ job' = job
    BY <1>1, <2>2 DEF Shape, TypeOK, Tick, sweeps, handlers, bounds, history
  <2> QED
    BY <2>2, <2>3, RowsShape
<1>2. CASE Purge
  <2>1. TypeOK' /\ pc' = pc /\ job' = job
    BY <1>2 DEF Shape, TypeOK, Purge, sweeps, handlers, bounds, history
  <2>2. \A d \in Delivery : RowKept(d)
    BY <1>2 DEF Shape, TypeOK, Purge, RowKept
  <2> QED
    BY <2>1, <2>2, RowsShape
<1>3. ASSUME NEW d \in Delivery, GrowOld(d) PROVE Shape'
  <2>1. PICK age \in Age : row' = [row EXCEPT ![d] = [row[d] EXCEPT !.age = age]]
    <3> DEFINE age == IF row[d].age = "replayable" THEN "kept" ELSE "old"
    <3>1. age \in Age
      BY DEF Age
    <3> QED
      BY <1>3, <3>1 DEF GrowOld
  <2>2. row[d] \in Row
    BY <1>3 DEF GrowOld, Shape, TypeOK
  <2>3. \A x \in Delivery : RowKept(x) /\ row'[x] \in Row \cup {None}
    <3> TAKE x \in Delivery
    <3>1. CASE x = d
      <4>1. row'[d] = [row[d] EXCEPT !.age = age]
        BY <2>1 DEF Shape, TypeOK
      <4> QED
        BY <2>2, <3>1, <4>1, AgedRow
    <3>2. CASE x # d
      BY <2>1, <3>2 DEF Shape, TypeOK, RowKept
    <3> QED
      BY <3>1, <3>2
  <2>4. TypeOK' /\ pc' = pc /\ job' = job
    BY <1>3, <2>1, <2>3 DEF Shape, TypeOK, GrowOld, sweeps, handlers, bounds, history
  <2> QED
    BY <2>3, <2>4, RowsShape
<1> QED
  BY <1>1, <1>2, <1>3

LEMMA SweepShape ==
  ASSUME Shape, NEW w \in Sweep, SweepStep(w) PROVE Shape'
<1>1. CASE Reap(w)
  <2>1. PICK D \in Limited(Batch, {d \in Delivery : Abandoned(d)}) :
          row' = [d \in Delivery |-> IF d \in D THEN Failed(row[d]) ELSE row[d]]
    BY <1>1 DEF Reap
  <2>2. \A d \in Delivery :
          row'[d] = row[d] \/ (row[d] \in Row /\ row'[d] = Failed(row[d]))
    <3> TAKE d \in Delivery
    <3>1. row'[d] = IF d \in D THEN Failed(row[d]) ELSE row[d]
      BY <2>1
    <3>2. d \in D => row[d] \in Row
      BY LimitedSubset DEF Abandoned, Is, Shape, TypeOK
    <3> QED
      BY <3>1, <3>2
  <2>3. \A d \in Delivery : RowKept(d) /\ row'[d] \in Row \cup {None}
    BY <2>2, FailedRow DEF Shape, TypeOK, RowKept
  <2>4. TypeOK' /\ job' = job
    BY <1>1, <2>1, <2>3 DEF Shape, TypeOK, Reap, bounds, history
  <2>5. \A h \in Handler : pc'[h] \in Working => pc[h] \in Working
    BY <1>1 DEF Shape, TypeOK, Reap, Working
  <2> QED
    BY <2>3, <2>4, <2>5, RowsShape
<1>2. CASE Select(w)
  <2>1. \A D \in Limited(Batch, {d \in Delivery : Claimable(d)}) : D \subseteq Delivery
    BY LimitedSubset
  <2>2. TypeOK' /\ job' = job /\ pc' = pc /\ row' = row
    BY <1>2, <2>1 DEF Shape, TypeOK, Select, handlers, bounds, history
  <2> QED
    BY <2>2, RowsShape DEF RowKept
<1>3. CASE EndSweep(w)
  <2>1. TypeOK' /\ job' = job /\ pc' = pc /\ row' = row
    BY <1>3 DEF Shape, TypeOK, EndSweep, handlers, bounds, history
  <2> QED
    BY <2>1, RowsShape DEF RowKept
<1> QED
  BY <1>1, <1>2, <1>3 DEF SweepStep

----------------------------------------------------------------------------
(* The steps of a handler *)

LEMMA ClaimedRow ==
  ASSUME NEW r \in Row, NEW h \in Handler, r.cycle < MaxAttempts
  PROVE  /\ Claimed(r, h) \in Row /\ Claimed(r, h) # None
         /\ Claimed(r, h).status = "processing" /\ Claimed(r, h).holder = h
         /\ Claimed(r, h).cycle = r.cycle + 1 /\ Claimed(r, h).replays = r.replays
<1>1. MaxAttempts \in Nat /\ Lease \in Nat
  BY WebhooksAssumption
<1>2. r.cycle + 1 \in 0..MaxAttempts
  BY <1>1 DEF Row
<1>3. Claimed(r, h) \in Row
  BY <1>1, <1>2 DEF Claimed, Row, Status
<1>4. Claimed(r, h) # None
  BY <1>3, WebhooksAssumption
<1> QED
  BY <1>3, <1>4 DEF Claimed, Row

LEMMA ReturnedRow ==
  ASSUME NEW r \in Row, r.cycle > 0
  PROVE  /\ Returned(r) \in Row /\ Returned(r) # None
         /\ Returned(r).status = "pending"
         /\ Returned(r).cycle = r.cycle - 1 /\ Returned(r).replays = r.replays
<1>1. MaxAttempts \in Nat
  BY WebhooksAssumption
<1>2. r.cycle - 1 \in 0..MaxAttempts
  BY <1>1 DEF Row
<1>3. Returned(r) \in Row
  BY <1>2 DEF Returned, Row, Status
<1>4. Returned(r) # None
  BY <1>3, WebhooksAssumption
<1> QED
  BY <1>3, <1>4 DEF Returned, Row

LEMMA OutcomeRow ==
  ASSUME NEW r \in Row, NEW h \in Handler, job[h] \in Job, job[h].cycle > 0
  PROVE  /\ Outcome(r, h) \in Row /\ Outcome(r, h) # None
         /\ Outcome(r, h).status \in {"delivered", "pending", "failed"}
         /\ Outcome(r, h).status = "delivered" => job[h].result = "ok"
         /\ Outcome(r, h).cycle = r.cycle /\ Outcome(r, h).replays = r.replays
<1>1. CASE job[h].result = "ok"
  <2> DEFINE q == [r EXCEPT !.status = "delivered", !.timer = 0, !.holder = None]
  <2>1. Outcome(r, h) = q
    BY <1>1 DEF Outcome
  <2>2. q \in Row /\ q.status = "delivered" /\ q.cycle = r.cycle /\ q.replays = r.replays
    BY DEF Row, Status
  <2>3. q # None
    BY <2>2, WebhooksAssumption
  <2> QED
    BY <1>1, <2>1, <2>2, <2>3
<1>2. CASE job[h].result # "ok" /\ Retries(h)
  <2> DEFINE q == [r EXCEPT !.status = "pending",
                     !.timer = RetryDelay[job[h].cycle], !.holder = None]
  <2>1. Outcome(r, h) = q
    BY <1>2 DEF Outcome
  <2>2. job[h].cycle \in 1..(MaxAttempts - 1)
    BY <1>2, WebhooksAssumption DEF Retries, Job
  <2>3. RetryDelay[job[h].cycle] \in Nat
    BY <2>2, WebhooksAssumption
  <2>4. q \in Row /\ q.status = "pending" /\ q.cycle = r.cycle /\ q.replays = r.replays
    BY <2>3 DEF Row, Status
  <2>5. q # None
    BY <2>4, WebhooksAssumption
  <2> QED
    BY <2>1, <2>4, <2>5
<1>3. CASE job[h].result # "ok" /\ ~Retries(h)
  BY <1>3, FailedRow DEF Outcome
<1> QED
  BY <1>1, <1>2, <1>3

LEMMA HandlerShape ==
  ASSUME Shape, TypeOK', NEW h \in Handler,
         \A g \in Handler \ {h} : pc'[g] = pc[g] /\ job'[g] = job[g],
         \A d \in Delivery : RowKept(d) \/ row'[d].holder = h,
         pc'[h] \in Working =>
           /\ job'[h] # None /\ job'[h].cycle > 0
           /\ \/ /\ row'[job'[h].delivery].cycle = job'[h].cycle
                 /\ row'[job'[h].delivery].replays = job'[h].replays
              \/ /\ pc[h] \in Working
                 /\ RowKept(job[h].delivery)
                 /\ job'[h].delivery = job[h].delivery
                 /\ job'[h].cycle = job[h].cycle
                 /\ job'[h].replays = job[h].replays
  PROVE  Shape'
<1>1. InHand'
  BY DEF Shape, InHand
<1>2. ASSUME NEW g \in Handler, pc'[g] \in Working,
             row'[job'[g].delivery] # None,
             row'[job'[g].delivery].status = "processing",
             row'[job'[g].delivery].holder = g
      PROVE  /\ row'[job'[g].delivery].cycle = job'[g].cycle
             /\ row'[job'[g].delivery].replays = job'[g].replays
  <2>1. CASE g = h
    BY <1>2, <2>1 DEF Shape, HoldsAsClaimed, Is, RowKept
  <2>2. CASE g # h
    <3>1. job'[g] = job[g] /\ pc'[g] = pc[g]
      BY <2>2
    <3>2. job[g].delivery \in Delivery
      BY <1>2, <3>1 DEF Shape, TypeOK, InHand, Job
    <3>3. RowKept(job[g].delivery)
      BY <1>2, <2>2, <3>1, <3>2
    <3> QED
      BY <1>2, <3>1, <3>3 DEF Shape, HoldsAsClaimed, Is, RowKept
  <2> QED
    BY <2>1, <2>2
<1>3. HoldsAsClaimed'
  BY <1>2 DEF HoldsAsClaimed, Is
<1> QED
  BY <1>1, <1>3 DEF Shape

\* What a handler at work has in hand.
LEMMA Hand ==
  ASSUME Shape, NEW h \in Handler, pc[h] \in Working
  PROVE  /\ job[h] \in Job /\ job[h] # None
         /\ job[h].delivery \in Delivery /\ job[h].cycle > 0
         /\ job[h].replays \in 0..MaxReplays
         /\ Fenced(h) =>
              /\ row[job[h].delivery] \in Row
              /\ row[job[h].delivery].status = "processing"
              /\ row[job[h].delivery].cycle = job[h].cycle
              /\ row[job[h].delivery].replays = job[h].replays
BY DEF Shape, TypeOK, InHand, HoldsAsClaimed, Fenced, Is, Job

LEMMA ClaimShape ==
  ASSUME Shape, NEW h \in Handler, Claim(h) PROVE Shape'
<1>1. PICK d \in due[SweepOf[h]] :
        /\ due' = [due EXCEPT ![SweepOf[h]] = @ \ {d}]
        /\ IF Claimable(d)
           THEN /\ row' = [row EXCEPT ![d] = Claimed(@, h)]
                /\ job' = [job EXCEPT ![h] =
                     [delivery |-> d, cycle |-> row[d].cycle + 1,
                      replays |-> row[d].replays, result |-> None]]
                /\ Goto(h, "look")
           ELSE UNCHANGED <<row, handlers>>
  BY DEF Claim
<1>2. d \in Delivery /\ due' \in [Sweep -> SUBSET Delivery]
  BY <1>1, WebhooksAssumption DEF Shape, TypeOK
<1>3. CASE Claimable(d)
  <2>1. row[d] \in Row /\ row[d].cycle < MaxAttempts
    BY <1>2, <1>3 DEF Claimable, Unsettled, Is, Shape, TypeOK
  <2>2. row' = [row EXCEPT ![d] = Claimed(row[d], h)]
    BY <1>1, <1>3
  <2> DEFINE j == [delivery |-> d, cycle |-> row[d].cycle + 1,
                   replays |-> row[d].replays, result |-> None]
  <2>3. job' = [job EXCEPT ![h] = j] /\ pc' = [pc EXCEPT ![h] = "look"]
    BY <1>1, <1>3 DEF Goto
  <2>4. MaxAttempts \in Nat
    BY WebhooksAssumption
  <2>5. j \in Job /\ j # None /\ j.cycle > 0
    <3>1. row[d].cycle + 1 \in 0..MaxAttempts /\ row[d].cycle + 1 > 0
      BY <2>1, <2>4 DEF Row
    <3>2. j \in Job
      BY <1>2, <2>1, <3>1 DEF Job, Row
    <3> QED
      BY <3>1, <3>2, WebhooksAssumption
  <2>6. j.delivery = d /\ j.cycle = row[d].cycle + 1 /\ j.replays = row[d].replays
    OBVIOUS
  <2> HIDE DEF j
  <2>7. TypeOK'
    BY <1>2, <2>1, <2>2, <2>3, <2>5, ClaimedRow
    DEF Claim, Shape, TypeOK, bounds, history
  <2>8. /\ row'[d].cycle = j.cycle /\ row'[d].replays = j.replays
        /\ row'[d].holder = h
    BY <1>2, <2>1, <2>2, <2>6, ClaimedRow DEF Shape, TypeOK
  <2>9. \A x \in Delivery : RowKept(x) \/ row'[x].holder = h
    BY <2>2, <2>8 DEF Shape, TypeOK, RowKept
  <2>10. \A g \in Handler \ {h} : pc'[g] = pc[g] /\ job'[g] = job[g]
    BY <2>3 DEF Shape, TypeOK
  <2>11. job'[h] = j
    BY <2>3 DEF Shape, TypeOK
  <2> QED
    BY <2>5, <2>6, <2>7, <2>8, <2>9, <2>10, <2>11, HandlerShape
<1>4. CASE ~Claimable(d)
  <2>1. TypeOK' /\ pc' = pc /\ job' = job /\ row' = row
    BY <1>1, <1>2, <1>4 DEF Claim, Shape, TypeOK, handlers, bounds, history
  <2> QED
    BY <2>1, RowsShape DEF RowKept
<1> QED
  BY <1>3, <1>4

\* A handler that moves, and may learn how its attempt ended.
LEMMA MoveShape ==
  ASSUME Shape, NEW h \in Handler, pc[h] \in Working, row' = row,
         NEW p \in Working, pc' = [pc EXCEPT ![h] = p],
         NEW result \in Result \cup {None},
         job' = [job EXCEPT ![h].result = result],
         UNCHANGED <<sub, emitted, sweeps, bounds>>,
         sends' \in [Delivery -> [0..MaxReplays -> Nat]],
         accepted' \in [Delivery -> [0..MaxReplays -> BOOLEAN]]
  PROVE  Shape'
<1> DEFINE j == [job[h] EXCEPT !.result = result]
<1>1. job' = [job EXCEPT ![h] = j]
  OBVIOUS
<1>2. /\ j \in Job /\ j.delivery = job[h].delivery
      /\ j.cycle = job[h].cycle /\ j.replays = job[h].replays
  BY Hand DEF Job
<1>3. j # None
  BY <1>2, WebhooksAssumption
<1> HIDE DEF j
<1>4. TypeOK'
  BY <1>1, <1>2, ZenonT(60) DEF Shape, TypeOK, Working, sweeps, bounds
<1>5. job'[h] = j /\ \A g \in Handler \ {h} : pc'[g] = pc[g] /\ job'[g] = job[g]
  BY <1>1 DEF Shape, TypeOK
<1>6. \A d \in Delivery : RowKept(d)
  BY DEF RowKept
<1> QED
  BY <1>2, <1>3, <1>4, <1>5, <1>6, Hand, HandlerShape

LEMMA SameResult ==
  ASSUME TypeOK, NEW h \in Handler, job[h] \in Job
  PROVE  job[h].result \in Result \cup {None} /\ job = [job EXCEPT ![h].result = job[h].result]
BY DEF TypeOK, Job

LEMMA LookShape ==
  ASSUME Shape, NEW h \in Handler, Look(h) PROVE Shape'
<1>1. /\ pc[h] \in Working /\ row' = row /\ UNCHANGED <<sub, emitted, sweeps, bounds>>
      /\ sends' \in [Delivery -> [0..MaxReplays -> Nat]]
      /\ accepted' \in [Delivery -> [0..MaxReplays -> BOOLEAN]]
  BY DEF Look, Working, Shape, TypeOK, history
<1>2. \E p \in Working, result \in Result \cup {None} :
        pc' = [pc EXCEPT ![h] = p] /\ job' = [job EXCEPT ![h].result = result]
  <2>1. CASE job' = job
    <3>1. /\ job[h].result \in Result \cup {None}
          /\ job = [job EXCEPT ![h].result = job[h].result]
      BY <1>1, Hand, SameResult DEF Shape
    <3>2. \E p \in {"putback", "send", "settle"} : pc' = [pc EXCEPT ![h] = p]
      BY DEF Look, Goto
    <3> QED
      BY <2>1, <3>1, <3>2 DEF Working
  <2>2. CASE job' # job
    BY <2>2 DEF Look, Goto, Working, Result
  <2> QED
    BY <2>1, <2>2
<1> QED
  BY <1>1, <1>2, MoveShape

LEMMA SendShape ==
  ASSUME Shape, NEW h \in Handler, Send(h) PROVE Shape'
<1>1. pc[h] \in Working /\ row' = row /\ UNCHANGED <<sub, emitted, sweeps, bounds>>
  BY DEF Send, Working
<1>2. job[h].delivery \in Delivery /\ job[h].replays \in 0..MaxReplays
  BY <1>1, Hand
<1>3. sends' \in [Delivery -> [0..MaxReplays -> Nat]]
  <2> DEFINE d == job[h].delivery
             r == job[h].replays
             counts == [sends[d] EXCEPT ![r] = sends[d][r] + 1]
  <2>1. sends' = [sends EXCEPT ![d] = counts]
    BY DEF Send
  <2>2. sends[d] \in [0..MaxReplays -> Nat] /\ sends[d][r] + 1 \in Nat
    <3>1. sends[d] \in [0..MaxReplays -> Nat] /\ r \in 0..MaxReplays
      BY <1>2 DEF Shape, TypeOK
    <3>2. sends[d][r] \in Nat
      BY <3>1
    <3> QED
      BY <3>1, <3>2
  <2>3. counts \in [0..MaxReplays -> Nat]
    <3> DEFINE n == sends[d][r] + 1
               c == sends[d]
    <3>1. n \in Nat /\ c \in [0..MaxReplays -> Nat]
      BY <2>2
    <3> HIDE DEF n, c
    <3>2. [c EXCEPT ![r] = n] \in [0..MaxReplays -> Nat]
      BY <3>1
    <3> QED
      BY <3>2 DEF n, c
  <2> QED
    BY <2>1, <2>3 DEF Shape, TypeOK
<1>4. accepted' \in [Delivery -> [0..MaxReplays -> BOOLEAN]]
  BY <1>2 DEF Send, Shape, TypeOK
<1>5. \E result \in Result \cup {None} :
        pc' = [pc EXCEPT ![h] = "settle"] /\ job' = [job EXCEPT ![h].result = result]
  BY DEF Send, Goto
<1>6. "settle" \in Working
  BY DEF Working
<1> QED
  BY <1>1, <1>3, <1>4, <1>5, <1>6, MoveShape

\* A handler that is done with its delivery.
LEMMA LeaveShape ==
  ASSUME Shape, NEW h \in Handler, TypeOK',
         NEW p \in {"take", "stopped"}, pc' = [pc EXCEPT ![h] = p],
         job' = [job EXCEPT ![h] = None],
         \A d \in Delivery : RowKept(d)
  PROVE  Shape'
<1>1. pc'[h] \notin Working
  BY DEF Shape, TypeOK, Working
<1>2. \A g \in Handler \ {h} : pc'[g] = pc[g] /\ job'[g] = job[g]
  BY DEF Shape, TypeOK
<1> QED
  BY <1>1, <1>2, HandlerShape

LEMMA SettleShape ==
  ASSUME Shape, NEW h \in Handler, Settle(h) PROVE Shape'
<1> DEFINE d == job[h].delivery
<1>1. pc[h] \in Working
  BY DEF Settle, Working
<1>2. d \in Delivery /\ job[h] \in Job /\ job[h].cycle > 0
  BY <1>1, Hand
<1>3. CASE Fenced(h)
  <2>1. row[d] \in Row /\ row' = [row EXCEPT ![d] = Outcome(row[d], h)]
    BY <1>1, <1>3, Hand DEF Settle
  <2>2. /\ Outcome(row[d], h) \in Row
        /\ Outcome(row[d], h).status # "processing"
    BY <1>2, <2>1, OutcomeRow
  <2>3. TypeOK'
    BY <1>2, <2>1, <2>2 DEF Settle, Goto, Shape, TypeOK, sweeps, bounds, history
  <2>4. \A x \in Delivery : RowKept(x)
    BY <1>2, <2>1, <2>2 DEF Shape, TypeOK, RowKept
  <2> QED
    BY <2>3, <2>4, LeaveShape DEF Settle, Goto
<1>4. CASE ~Fenced(h)
  <2>1. TypeOK' /\ row' = row
    BY <1>4 DEF Settle, Goto, Shape, TypeOK, sweeps, bounds, history
  <2> QED
    BY <2>1, LeaveShape DEF Settle, Goto, RowKept
<1> QED
  BY <1>3, <1>4

LEMMA StopShape ==
  ASSUME Shape, NEW h \in Handler, Stop(h) PROVE Shape'
<1>1. TypeOK' /\ row' = row
  BY DEF Stop, Goto, Shape, TypeOK, sweeps, history
<1> QED
  BY <1>1, LeaveShape DEF Stop, Goto, RowKept

LEMMA PutBackShape ==
  ASSUME Shape, NEW h \in Handler, PutBack(h) PROVE Shape'
<1> DEFINE d == job[h].delivery
           q == Returned(row[d])
<1>1. pc[h] \in Working
  BY DEF PutBack, Working
<1>2. d \in Delivery /\ job[h] \in Job /\ job[h] # None /\ job[h].cycle > 0
  BY <1>1, Hand
<1>3. row' = row \/ (Fenced(h) /\ row' = [row EXCEPT ![d] = q])
  BY DEF PutBack
<1>4. Fenced(h) => q \in Row /\ q.status # "processing"
  BY <1>1, <1>2, Hand, ReturnedRow
<1>5. row' \in [Delivery -> Row \cup {None}]
  BY <1>2, <1>3, <1>4 DEF Shape, TypeOK
<1>6. \A x \in Delivery : RowKept(x)
  BY <1>2, <1>3, <1>4 DEF Shape, TypeOK, RowKept
<1>7. CASE Goto(h, "take") /\ job' = [job EXCEPT ![h] = None]
  <2>1. TypeOK'
    <3>1. /\ job' \in [Handler -> Job \cup {None}]
          /\ pc' \in [Handler -> {"take", "look", "putback", "send", "settle", "stopped"}]
      BY <1>7 DEF Goto, Shape, TypeOK
    <3>2. UNCHANGED <<sub, emitted, phase, due, faults, commands, sends, accepted>>
      BY DEF PutBack, sweeps, bounds, history
    <3> QED
      BY <1>5, <3>1, <3>2 DEF Shape, TypeOK
  <2> QED
    BY <1>6, <1>7, <2>1, LeaveShape DEF Goto
<1>8. CASE Goto(h, "settle") /\ job' = [job EXCEPT ![h].result = "again"]
  <2> DEFINE j == [job[h] EXCEPT !.result = "again"]
  <2>1. job' = [job EXCEPT ![h] = j]
    BY <1>8
  <2>2. /\ j \in Job /\ j.delivery = d /\ j.cycle = job[h].cycle
        /\ j.replays = job[h].replays
    BY <1>2 DEF Job, Result
  <2>3. j # None
    BY <2>2, WebhooksAssumption
  <2> HIDE DEF j
  <2>4. TypeOK'
    <3>1. job' \in [Handler -> Job \cup {None}]
      BY <2>1, <2>2 DEF Shape, TypeOK
    <3>2. pc' \in [Handler -> {"take", "look", "putback", "send", "settle", "stopped"}]
      BY <1>8 DEF Goto, Shape, TypeOK
    <3>3. UNCHANGED <<sub, emitted, phase, due, faults, commands, sends, accepted>>
      BY DEF PutBack, sweeps, bounds, history
    <3> QED
      BY <1>5, <3>1, <3>2, <3>3 DEF Shape, TypeOK
  <2>5. job'[h] = j /\ \A g \in Handler \ {h} : pc'[g] = pc[g] /\ job'[g] = job[g]
    BY <1>8, <2>1 DEF Goto, Shape, TypeOK
  <2> QED
    BY <1>1, <1>2, <1>6, <2>2, <2>3, <2>4, <2>5, HandlerShape
<1> QED
  BY <1>7, <1>8 DEF PutBack

LEMMA StutterShape == ASSUME Shape, UNCHANGED vars PROVE Shape'
<1>1. TypeOK' /\ pc' = pc /\ job' = job /\ row' = row
  BY DEF Shape, TypeOK, vars, sweeps, handlers, bounds, history
<1> QED
  BY <1>1, RowsShape DEF RowKept

LEMMA StepShape == Shape /\ [Next]_vars => Shape'
<1> SUFFICES ASSUME Shape, [Next]_vars PROVE Shape'
  OBVIOUS
<1>1. ASSUME NEW h \in Handler, Step(h) \/ Stop(h) PROVE Shape'
  BY <1>1, ClaimShape, LookShape, PutBackShape, SendShape, SettleShape, StopShape
  DEF Step
<1> QED
  BY <1>1, CommandShape, EmitShape, ReplayShape, SweepShape, TimeShape, StutterShape
  DEF Next

\* The rows, the sweeps and the handlers keep their shape; with it, a handler
\* at work always has a claimed delivery in hand (processDue).
THEOREM TypeCorrect == Spec => []TypeOK
<1>1. Spec => []Shape
  BY InitShape, StepShape, PTL DEF Spec
<1>2. Shape => TypeOK
  BY DEF Shape
<1> QED
  BY <1>1, <1>2, PTL

----------------------------------------------------------------------------
(* The load of a cycle *)

LEMMA OpenFinite ==
  ASSUME NEW d, NEW r
  PROVE  IsFiniteSet(Open(d, r)) /\ Cardinality(Open(d, r)) \in Nat
BY FS_Subset, FS_CardinalityType, WebhooksAssumption DEF Open

LEMMA LoadNat ==
  ASSUME TypeOK, NEW d \in Delivery, NEW r \in 0..MaxReplays
  PROVE  Load(d, r) \in Nat /\ sends[d][r] \in Nat /\ sends[d][r] <= Load(d, r)
<1>1. sends[d] \in [0..MaxReplays -> Nat]
  BY DEF TypeOK
<1>2. sends[d][r] \in Nat
  BY <1>1
<1> QED
  BY <1>2, OpenFinite DEF Load

\* No handler starts to send.
LEMMA LoadShrinks ==
  ASSUME TypeOK, sends' = sends, NEW d \in Delivery, NEW r \in 0..MaxReplays,
         Open(d, r)' \subseteq Open(d, r)
  PROVE  Load(d, r)' \in 0..Load(d, r)
<1>1. /\ Cardinality(Open(d, r)') \in Nat
      /\ Cardinality(Open(d, r)') <= Cardinality(Open(d, r))
  BY OpenFinite, FS_Subset, FS_CardinalityType
<1>2. sends[d][r] \in Nat /\ Load(d, r)' = sends[d][r] + Cardinality(Open(d, r)')
  BY LoadNat DEF Load
<1> QED
  BY <1>1, <1>2, OpenFinite DEF Load

\* A handler that leaves, or moves on.
HandKept(h) ==
  pc'[h] \in Sending =>
    /\ pc[h] \in Sending
    /\ job'[h].delivery = job[h].delivery /\ job'[h].replays = job[h].replays

LEMMA HandsKept ==
  ASSUME TypeOK, sends' = sends, \A h \in Handler : HandKept(h)
  PROVE  \A d \in Delivery, r \in 0..MaxReplays : Load(d, r)' \in 0..Load(d, r)
<1> TAKE d \in Delivery, r \in 0..MaxReplays
<1>1. Open(d, r)' \subseteq Open(d, r)
  BY DEF Open, HandKept
<1> QED
  BY <1>1, LoadShrinks

----------------------------------------------------------------------------
(* Steps that count nothing *)

Kept(d) ==
  row'[d] # None =>
    /\ row[d] # None
    /\ row'[d].cycle = row[d].cycle /\ row'[d].replays = row[d].replays
    /\ row'[d].status \in {"pending", "processing"} => Unsettled(d)
    /\ row'[d].status = "delivered" =>
         Is(d, "delivered") \/ accepted[d][row[d].replays]

LEMMA SeenFrame ==
  ASSUME Shape, Rest,
         \A d \in Delivery, r \in 0..MaxReplays : accepted[d][r] => accepted'[d][r],
         \A d \in Delivery :
           row'[d] # None /\ row'[d].status = "delivered" =>
             /\ row[d] # None /\ row'[d].replays = row[d].replays
             /\ Is(d, "delivered") \/ accepted[d][row[d].replays],
         \A h \in Handler :
           pc'[h] = "settle" /\ job'[h].result = "ok" =>
             accepted'[job'[h].delivery][job'[h].replays]
  PROVE  SuccessSeen' /\ DeliveredMeansAccepted'
<1>1. SuccessSeen'
  BY DEF SuccessSeen
<1>2. DeliveredMeansAccepted'
  <2> SUFFICES ASSUME NEW d \in Delivery, row'[d] # None, row'[d].status = "delivered"
               PROVE  accepted'[d][row'[d].replays]
    BY DEF DeliveredMeansAccepted, Is
  <2>1. row[d] \in Row /\ row[d].replays \in 0..MaxReplays
    BY DEF Shape, TypeOK, Row
  <2> QED
    BY <2>1 DEF Rest, DeliveredMeansAccepted
<1> QED
  BY <1>1, <1>2

LEMMA KeepFrame ==
  ASSUME Shape, Rest, emitted' = emitted,
         \A d \in Delivery, r \in 0..MaxReplays : Load(d, r)' \in 0..Load(d, r),
         \A d \in Delivery, r \in 0..MaxReplays : accepted[d][r] => accepted'[d][r],
         \A d \in Delivery : Kept(d),
         \A d \in Delivery : sub'[d[1]] = "deleted" =>
           sub[d[1]] = "deleted" \/ ~Unsettled(d)',
         \A h \in Handler :
           pc'[h] = "settle" /\ job'[h].result = "ok" =>
             accepted'[job'[h].delivery][job'[h].replays]
  PROVE  Rest'
<1>1. \A d \in Delivery, r \in 0..MaxReplays : Load(d, r) \in Nat
  BY LoadNat DEF Shape
<1>2. NothingEarly'
  BY <1>1 DEF Rest, NothingEarly, Kept
<1>3. Covered'
  <2> SUFFICES ASSUME NEW d \in Delivery, NEW r \in 0..MaxReplays
               PROVE  /\ Load(d, r)' <= MaxAttempts
                      /\ row'[d] # None /\ row'[d].replays = r =>
                           Load(d, r)' <= row'[d].cycle
    BY DEF Covered
  <2>1. Load(d, r)' \in Nat /\ Load(d, r)' <= Load(d, r) /\ Load(d, r) \in Nat
    BY <1>1
  <2>2. Load(d, r) <= MaxAttempts /\ MaxAttempts \in Nat
    BY WebhooksAssumption DEF Rest, Covered
  <2>3. ASSUME row'[d] # None, row'[d].replays = r
        PROVE  Load(d, r)' <= row'[d].cycle
    <3>1. /\ row[d] # None /\ row'[d].cycle = row[d].cycle
          /\ row[d].replays = r
      BY <2>3 DEF Kept
    <3>2. row[d].cycle \in Nat
      BY <3>1, <2>2 DEF Shape, TypeOK, Row
    <3>3. Load(d, r) <= row[d].cycle
      BY <3>1 DEF Rest, Covered
    <3> QED
      BY <2>1, <3>1, <3>2, <3>3
  <2> QED
    BY <2>1, <2>2, <2>3
<1>4. RemovedIsQuiet'
  BY DEF Rest, RemovedIsQuiet, Kept, Unsettled, Is
<1>5. SuccessSeen' /\ DeliveredMeansAccepted'
  BY SeenFrame DEF Kept
<1> QED
  BY <1>2, <1>3, <1>4, <1>5 DEF Rest

\* Handlers that leave, move on or stay, and rows that are kept.
LEMMA QuietFrame ==
  ASSUME Shape, Rest, UNCHANGED <<emitted, history>>,
         \A d \in Delivery : Kept(d),
         \A d \in Delivery : sub'[d[1]] = "deleted" =>
           sub[d[1]] = "deleted" \/ ~Unsettled(d)',
         \A h \in Handler : HandKept(h),
         \A h \in Handler :
           pc'[h] = "settle" /\ job'[h].result = "ok" =>
             /\ pc[h] = "settle" /\ job[h].result = "ok"
             /\ job'[h].delivery = job[h].delivery
             /\ job'[h].replays = job[h].replays
  PROVE  Rest'
<1>1. sends' = sends /\ accepted' = accepted /\ emitted' = emitted
  BY DEF history
<1>2. \A d \in Delivery, r \in 0..MaxReplays : Load(d, r)' \in 0..Load(d, r)
  BY <1>1, HandsKept DEF Shape
<1>3. \A h \in Handler :
        pc'[h] = "settle" /\ job'[h].result = "ok" =>
          accepted'[job'[h].delivery][job'[h].replays]
  BY <1>1 DEF Rest, SuccessSeen
<1> QED
  BY <1>1, <1>2, <1>3, KeepFrame

LEMMA InitRest == Init => Rest
<1> SUFFICES ASSUME Init PROVE Rest
  OBVIOUS
<1>1. \A d \in Delivery, r \in 0..MaxReplays : Load(d, r) = 0
  <2> TAKE d \in Delivery, r \in 0..MaxReplays
  <2>1. Open(d, r) = {} /\ sends[d][r] = 0
    BY DEF Init, Open, Sending
  <2> QED
    BY <2>1, FS_EmptySet DEF Load
<1>2. NothingEarly /\ Covered
  BY <1>1, WebhooksAssumption DEF Init, NothingEarly, Covered
<1>3. SuccessSeen /\ RemovedIsQuiet /\ DeliveredMeansAccepted
  BY DEF Init, SuccessSeen, RemovedIsQuiet, DeliveredMeansAccepted, Is
<1> QED
  BY <1>2, <1>3 DEF Rest

LEMMA SameKept ==
  ASSUME NEW d \in Delivery, row'[d] = row[d] \/ row'[d] = None PROVE Kept(d)
BY DEF Kept, Unsettled, Is

LEMMA FailedKept ==
  ASSUME NEW d \in Delivery, row[d] \in Row, row'[d] = Failed(row[d])
  PROVE  Kept(d) /\ ~Unsettled(d)'
<1>1. row[d] # None
  BY WebhooksAssumption
<1> QED
  BY <1>1, FailedRow DEF Kept, Unsettled, Is

LEMMA AgedKept ==
  ASSUME NEW d \in Delivery, row[d] \in Row, NEW t, NEW age,
         \/ row'[d] = [row[d] EXCEPT !.timer = t]
         \/ row'[d] = [row[d] EXCEPT !.age = age]
  PROVE  Kept(d)
<1>1. row[d] # None
  BY WebhooksAssumption
<1>2. /\ row'[d].status = row[d].status /\ row'[d].cycle = row[d].cycle
      /\ row'[d].replays = row[d].replays
  BY DEF Row
<1> QED
  BY <1>1, <1>2 DEF Kept, Unsettled, Is

LEMMA SameHands ==
  ASSUME pc' = pc, job' = job
  PROVE  \A h \in Handler :
           /\ HandKept(h)
           /\ pc'[h] = "settle" /\ job'[h].result = "ok" =>
                /\ pc[h] = "settle" /\ job[h].result = "ok"
                /\ job'[h].delivery = job[h].delivery
                /\ job'[h].replays = job[h].replays
BY DEF HandKept

LEMMA CommandRest ==
  ASSUME Shape, Rest, NEW s \in Subscription, Command(s) PROVE Rest'
<1>0. pc' = pc /\ job' = job /\ UNCHANGED <<emitted, history>>
  BY DEF Command, Create, SetActive, Remove, handlers, history
<1>1. CASE Create(s) \/ SetActive(s)
  <2>1. row' = row /\ \A x \in Subscription : sub'[x] = "deleted" => sub[x] = "deleted"
    BY <1>1 DEF Create, SetActive, Shape, TypeOK
  <2>2. \A d \in Delivery : sub'[d[1]] = "deleted" => sub[d[1]] = "deleted"
    BY <2>1 DEF Delivery
  <2> QED
    BY <1>0, <2>1, <2>2, SameHands, SameKept, QuietFrame
<1>2. CASE Remove(s)
  <2>1. \A d \in Delivery :
          /\ row'[d] = row[d] \/ (row[d] \in Row /\ row'[d] = Failed(row[d]))
          /\ d[1] = s => ~Unsettled(d) \/ (row[d] \in Row /\ row'[d] = Failed(row[d]))
    <3> TAKE d \in Delivery
    <3>1. row'[d] = IF d[1] = s /\ Unsettled(d) THEN Failed(row[d]) ELSE row[d]
      BY <1>2 DEF Remove
    <3>2. Unsettled(d) => row[d] \in Row
      BY DEF Shape, TypeOK, Unsettled, Is
    <3> QED
      BY <3>1, <3>2
  <2>2. \A d \in Delivery : Kept(d)
    BY <2>1, SameKept, FailedKept
  <2>3. \A d \in Delivery : sub'[d[1]] = "deleted" =>
          sub[d[1]] = "deleted" \/ ~Unsettled(d)'
    <3> SUFFICES ASSUME NEW d \in Delivery, sub'[d[1]] = "deleted", sub[d[1]] # "deleted"
                 PROVE  ~Unsettled(d)'
      OBVIOUS
    <3>1. d[1] = s
      BY <1>2 DEF Remove, Delivery, Shape, TypeOK
    <3>2. CASE row[d] \in Row /\ row'[d] = Failed(row[d])
      BY <3>2, FailedKept
    <3>3. CASE ~Unsettled(d) /\ row'[d] = row[d]
      BY <3>3 DEF Unsettled, Is
    <3> QED
      BY <2>1, <3>1, <3>2, <3>3
  <2> QED
    BY <1>0, <2>2, <2>3, SameHands, QuietFrame
<1> QED
  BY <1>1, <1>2 DEF Command

LEMMA TimeRest ==
  ASSUME Shape, Rest, Tick \/ Purge \/ \E d \in Delivery : GrowOld(d) PROVE Rest'
<1>0. pc' = pc /\ job' = job /\ sub' = sub /\ UNCHANGED <<emitted, history>>
  BY DEF Tick, Purge, GrowOld, handlers, history
<1>1. ASSUME \A d \in Delivery : Kept(d) PROVE Rest'
  BY <1>0, <1>1, SameHands, QuietFrame
<1>2. CASE Tick
  <2>1. \A d \in Delivery : Kept(d)
    <3> TAKE d \in Delivery
    <3>1. CASE row[d] # None /\ ~Expired(d)
      <4>1. row[d] \in Row
        BY <3>1 DEF Shape, TypeOK
      <4>2. row'[d] = [row[d] EXCEPT !.timer = row[d].timer - 1]
        BY <1>2, <3>1 DEF Tick
      <4> QED
        BY <4>1, <4>2, AgedKept
    <3>2. CASE ~(row[d] # None /\ ~Expired(d))
      BY <1>2, <3>2, SameKept DEF Tick
    <3> QED
      BY <3>1, <3>2
  <2> QED
    BY <1>1, <2>1
<1>3. CASE Purge
  <2>1. \A d \in Delivery : row'[d] = row[d] \/ row'[d] = None
    BY <1>3 DEF Purge
  <2> QED
    BY <1>1, <2>1, SameKept
<1>4. ASSUME NEW d \in Delivery, GrowOld(d) PROVE Rest'
  <2>1. PICK age : row' = [row EXCEPT ![d] = [row[d] EXCEPT !.age = age]]
    BY <1>4 DEF GrowOld
  <2>2. row[d] \in Row
    BY <1>4 DEF GrowOld, Shape, TypeOK
  <2>3. \A x \in Delivery : Kept(x)
    <3> TAKE x \in Delivery
    <3>1. CASE x = d
      <4>1. row'[d] = [row[d] EXCEPT !.age = age]
        BY <2>1 DEF Shape, TypeOK
      <4> QED
        BY <2>2, <3>1, <4>1, AgedKept
    <3>2. CASE x # d
      BY <2>1, <3>2, SameKept DEF Shape, TypeOK
    <3> QED
      BY <3>1, <3>2
  <2> QED
    BY <1>1, <2>3
<1> QED
  BY <1>2, <1>3, <1>4

LEMMA SweepRest ==
  ASSUME Shape, Rest, NEW w \in Sweep, SweepStep(w) PROVE Rest'
<1>0. job' = job /\ sub' = sub /\ UNCHANGED <<emitted, history>>
  BY DEF SweepStep, Reap, Select, EndSweep, handlers, history
<1>1. CASE Reap(w)
  <2>1. PICK D \in Limited(Batch, {d \in Delivery : Abandoned(d)}) :
          row' = [d \in Delivery |-> IF d \in D THEN Failed(row[d]) ELSE row[d]]
    BY <1>1 DEF Reap
  <2>2. \A d \in Delivery : Kept(d)
    <3> TAKE d \in Delivery
    <3>1. row'[d] = IF d \in D THEN Failed(row[d]) ELSE row[d]
      BY <2>1
    <3>2. d \in D => row[d] \in Row
      BY LimitedSubset DEF Abandoned, Is, Shape, TypeOK
    <3> QED
      BY <3>1, <3>2, SameKept, FailedKept
  <2>3. \A h \in Handler : pc'[h] = pc[h] \/ pc'[h] = "take"
    BY <1>1 DEF Reap, Shape, TypeOK
  <2>4. \A h \in Handler : HandKept(h)
    BY <1>0, <2>3 DEF HandKept, Sending
  <2> QED
    BY <1>0, <2>2, <2>3, <2>4, QuietFrame
<1>2. CASE Select(w) \/ EndSweep(w)
  <2>1. row' = row /\ pc' = pc
    BY <1>2 DEF Select, EndSweep, handlers
  <2> QED
    BY <1>0, <2>1, SameHands, SameKept, QuietFrame
<1> QED
  BY <1>1, <1>2 DEF SweepStep

LEMMA StutterRest == ASSUME Shape, Rest, UNCHANGED vars PROVE Rest'
<1>1. pc' = pc /\ job' = job /\ row' = row /\ sub' = sub /\ UNCHANGED <<emitted, history>>
  BY DEF vars, handlers, history
<1> QED
  BY <1>1, SameHands, SameKept, QuietFrame

----------------------------------------------------------------------------
(* Handlers that leave or move on *)

\* One handler moves, the rows are kept.
LEMMA HandlerRest ==
  ASSUME Shape, Rest, UNCHANGED <<sub, emitted, history>>, NEW h \in Handler,
         NEW p \in {"take", "stopped", "putback", "send", "settle"},
         pc' = [pc EXCEPT ![h] = p],
         \A g \in Handler \ {h} : job'[g] = job[g],
         HandKept(h), p = "settle" => job'[h].result # "ok",
         \A d \in Delivery : Kept(d)
  PROVE  Rest'
<1>1. pc'[h] = p /\ \A g \in Handler \ {h} : pc'[g] = pc[g] /\ job'[g] = job[g]
  BY DEF Shape, TypeOK
<1>2. \A g \in Handler : HandKept(g)
  BY <1>1 DEF HandKept
<1> QED
  BY <1>1, <1>2, QuietFrame

LEMMA LookRest ==
  ASSUME Shape, Rest, NEW h \in Handler, Look(h) PROVE Rest'
<1>1. pc[h] \in Working /\ pc[h] \in Sending
  BY DEF Look, Working, Sending
<1>2. PICK p \in {"putback", "send", "settle"} : pc' = [pc EXCEPT ![h] = p]
  BY DEF Look, Goto
<1>3. /\ \A g \in Handler \ {h} : job'[g] = job[g]
      /\ job'[h].delivery = job[h].delivery /\ job'[h].replays = job[h].replays
      /\ p = "settle" => job'[h].result # "ok"
  <2>1. job[h] \in Job /\ job \in [Handler -> Job \cup {None}]
    BY <1>1, Hand DEF Shape, TypeOK
  <2>2. CASE \E result \in {"again", "never"} : job' = [job EXCEPT ![h].result = result]
    BY <2>1, <2>2 DEF Job
  <2>3. CASE job' = job /\ p # "settle"
    BY <2>3
  <2>4. pc'[h] = p
    BY <1>2 DEF Shape, TypeOK
  <2>5. Goto(h, "putback") \/ Goto(h, "send") => p # "settle"
    BY <2>4 DEF Goto, Shape, TypeOK
  <2> QED
    BY <2>2, <2>3, <2>5 DEF Look
<1>4. HandKept(h)
  BY <1>1, <1>3 DEF HandKept
<1>5. row' = row /\ UNCHANGED <<sub, emitted, history>>
  BY DEF Look
<1> QED
  BY <1>2, <1>3, <1>4, <1>5, SameKept, HandlerRest

LEMMA StopRest ==
  ASSUME Shape, Rest, NEW h \in Handler, Stop(h) PROVE Rest'
<1>1. /\ row' = row /\ UNCHANGED <<sub, emitted, history>>
      /\ pc' = [pc EXCEPT ![h] = "stopped"] /\ job' = [job EXCEPT ![h] = None]
  BY DEF Stop, Goto
<1>2. HandKept(h) /\ \A g \in Handler \ {h} : job'[g] = job[g]
  BY <1>1 DEF HandKept, Shape, TypeOK, Sending
<1> QED
  BY <1>1, <1>2, SameKept, HandlerRest

LEMMA SettleRest ==
  ASSUME Shape, Rest, NEW h \in Handler, Settle(h) PROVE Rest'
<1> DEFINE d == job[h].delivery
<1>1. pc[h] \in Working
  BY DEF Settle, Working
<1>2. d \in Delivery /\ job[h] \in Job /\ job[h].cycle > 0
  BY <1>1, Hand
<1>3. /\ UNCHANGED <<sub, emitted, history>>
      /\ pc' = [pc EXCEPT ![h] = "take"] /\ job' = [job EXCEPT ![h] = None]
  BY DEF Settle, Goto
<1>4. HandKept(h) /\ \A g \in Handler \ {h} : job'[g] = job[g]
  BY <1>3 DEF HandKept, Shape, TypeOK, Sending
<1>5. \A x \in Delivery : Kept(x)
  <2>1. CASE ~Fenced(h)
    BY <2>1, SameKept DEF Settle
  <2>2. CASE Fenced(h)
    <3>1. /\ row[d] \in Row /\ row' = [row EXCEPT ![d] = Outcome(row[d], h)]
          /\ row[d].replays = job[h].replays
      BY <1>1, <2>2, Hand DEF Settle
    <3>2. row[d] # None /\ Unsettled(d)
      BY <2>2 DEF Fenced, Unsettled, Is
    <3>3. Kept(d)
      <4>1. row'[d] = Outcome(row[d], h)
        BY <1>2, <3>1 DEF Shape, TypeOK
      <4>2. row'[d].status = "delivered" => accepted[d][row[d].replays]
        BY <1>2, <3>1, <4>1, OutcomeRow DEF Settle, Rest, SuccessSeen
      <4>3. row'[d].cycle = row[d].cycle /\ row'[d].replays = row[d].replays
        BY <1>2, <3>1, <4>1, OutcomeRow
      <4> QED
        BY <3>2, <4>2, <4>3 DEF Kept
    <3>4. ASSUME NEW x \in Delivery, x # d PROVE Kept(x)
      <4>1. row'[x] = row[x]
        BY <3>1, <3>4 DEF Shape, TypeOK
      <4> QED
        BY <4>1, SameKept
    <3> QED
      BY <3>3, <3>4
  <2> QED
    BY <2>1, <2>2
<1> QED
  BY <1>3, <1>4, <1>5, HandlerRest

----------------------------------------------------------------------------
(* Steps that count *)

\* A handler that will send no more, or has just sent.
LEMMA OneLess ==
  ASSUME Shape, NEW h \in Handler, pc[h] \in Sending, pc'[h] \notin Sending,
         \A g \in Handler \ {h} : pc'[g] = pc[g] /\ job'[g] = job[g],
         NEW x \in Delivery, NEW r \in 0..MaxReplays
  PROVE  /\ Cardinality(Open(x, r)') \in Nat
         /\ Cardinality(Open(x, r)') =
              IF job[h].delivery = x /\ job[h].replays = r
              THEN Cardinality(Open(x, r)) - 1 ELSE Cardinality(Open(x, r))
<1>1. Open(x, r)' = Open(x, r) \ {h}
  BY DEF Open
<1>2. h \in Open(x, r) <=> job[h].delivery = x /\ job[h].replays = r
  BY DEF Open
<1>3. /\ Cardinality(Open(x, r) \ {h}) =
           IF h \in Open(x, r) THEN Cardinality(Open(x, r)) - 1
           ELSE Cardinality(Open(x, r))
      /\ Cardinality(Open(x, r) \ {h}) \in Nat
  BY OpenFinite, FS_RemoveElement, FS_CardinalityType
<1> QED
  BY <1>1, <1>2, <1>3

LEMMA SendRest ==
  ASSUME Shape, Rest, NEW h \in Handler, Send(h) PROVE Rest'
<1> DEFINE d == job[h].delivery
           c == job[h].replays
<1>1. pc[h] \in Working /\ pc[h] \in Sending
  BY DEF Send, Working, Sending
<1>2. d \in Delivery /\ c \in 0..MaxReplays /\ job[h] \in Job
  BY <1>1, Hand
<1>3. PICK result \in Result :
        /\ job' = [job EXCEPT ![h].result = result]
        /\ accepted' = [accepted EXCEPT ![d][c] = accepted[d][c] \/ result = "ok"]
  BY DEF Send
<1>4. /\ pc'[h] = "settle" /\ job'[h].result = result
      /\ job'[h].delivery = d /\ job'[h].replays = c
      /\ \A g \in Handler \ {h} : pc'[g] = pc[g] /\ job'[g] = job[g]
  BY <1>2, <1>3 DEF Send, Goto, Shape, TypeOK, Job
<1>5. \A x \in Delivery, r \in 0..MaxReplays :
        /\ accepted[x][r] => accepted'[x][r]
        /\ x = d /\ r = c /\ result = "ok" => accepted'[x][r]
  <2> TAKE x \in Delivery, r \in 0..MaxReplays
  <2>1. accepted[x] \in [0..MaxReplays -> BOOLEAN] /\ accepted[d] \in [0..MaxReplays -> BOOLEAN]
    BY <1>2 DEF Shape, TypeOK
  <2>2. CASE x = d
    <3>1. accepted'[x] = [accepted[d] EXCEPT ![c] = accepted[d][c] \/ result = "ok"]
      BY <1>2, <1>3, <2>2 DEF Shape, TypeOK
    <3> QED
      BY <1>2, <2>1, <2>2, <3>1
  <2>3. CASE x # d
    BY <1>3, <2>3 DEF Shape, TypeOK
  <2> QED
    BY <2>2, <2>3
<1>6. \A x \in Delivery, r \in 0..MaxReplays : Load(x, r)' \in 0..Load(x, r)
  <2> TAKE x \in Delivery, r \in 0..MaxReplays
  <2>1. /\ Cardinality(Open(x, r)') \in Nat
        /\ Cardinality(Open(x, r)') =
             IF d = x /\ c = r
             THEN Cardinality(Open(x, r)) - 1 ELSE Cardinality(Open(x, r))
    BY <1>1, <1>4, OneLess DEF Sending
  <2>2. sends'[x][r] = IF d = x /\ c = r THEN sends[x][r] + 1 ELSE sends[x][r]
    <3>1. sends[x] \in [0..MaxReplays -> Nat] /\ sends[d] \in [0..MaxReplays -> Nat]
      BY <1>2 DEF Shape, TypeOK
    <3>2. CASE x = d
      <4>1. sends'[x] = [sends[d] EXCEPT ![c] = sends[d][c] + 1]
        BY <1>2, <3>2 DEF Send, Shape, TypeOK
      <4> QED
        BY <1>2, <3>1, <3>2, <4>1
    <3>3. CASE x # d
      BY <3>3 DEF Send, Shape, TypeOK
    <3> QED
      BY <3>2, <3>3
  <2>3. sends[x][r] \in Nat /\ Cardinality(Open(x, r)) \in Nat
    BY LoadNat, OpenFinite DEF Shape
  <2>4. /\ Load(x, r) = sends[x][r] + Cardinality(Open(x, r))
        /\ Load(x, r)' = sends'[x][r] + Cardinality(Open(x, r)')
    BY DEF Load
  <2> QED
    BY <2>1, <2>2, <2>3, <2>4
<1>7. \A g \in Handler :
        pc'[g] = "settle" /\ job'[g].result = "ok" =>
          accepted'[job'[g].delivery][job'[g].replays]
  <2> SUFFICES ASSUME NEW g \in Handler, pc'[g] = "settle", job'[g].result = "ok"
               PROVE  accepted'[job'[g].delivery][job'[g].replays]
    OBVIOUS
  <2>1. CASE g = h
    BY <1>2, <1>4, <1>5, <2>1
  <2>2. CASE g # h
    <3>1. pc[g] = "settle" /\ job[g] = job'[g]
      BY <1>4, <2>2
    <3>2. job[g].delivery \in Delivery /\ job[g].replays \in 0..MaxReplays
      BY <3>1, Hand DEF Working
    <3> QED
      BY <1>5, <3>1, <3>2 DEF Rest, SuccessSeen
  <2> QED
    BY <2>1, <2>2
<1>8. row' = row /\ sub' = sub /\ emitted' = emitted
  BY DEF Send
<1> QED
  BY <1>5, <1>6, <1>7, <1>8, SameKept, KeepFrame

LEMMA PutBackRest ==
  ASSUME Shape, Rest, NEW h \in Handler, PutBack(h) PROVE Rest'
<1> DEFINE d == job[h].delivery
           c == job[h].replays
           q == Returned(row[d])
<1>1. pc[h] \in Working /\ pc[h] \in Sending
  BY DEF PutBack, Working, Sending
<1>2. /\ d \in Delivery /\ c \in 0..MaxReplays
      /\ job[h] \in Job /\ job[h] # None /\ job[h].cycle > 0
  BY <1>1, Hand
<1>3. UNCHANGED <<sub, emitted, history>> /\ sends' = sends /\ accepted' = accepted
  BY DEF PutBack, history
<1>4. PICK p \in {"take", "settle"} :
        /\ pc' = [pc EXCEPT ![h] = p]
        /\ \A g \in Handler \ {h} : job'[g] = job[g]
        /\ p = "settle" => job'[h].result # "ok"
  <2>1. CASE Goto(h, "take") /\ job' = [job EXCEPT ![h] = None]
    BY <2>1 DEF Goto, Shape, TypeOK
  <2>2. CASE Goto(h, "settle") /\ job' = [job EXCEPT ![h].result = "again"]
    BY <1>2, <2>2 DEF Goto, Shape, TypeOK, Job
  <2> QED
    BY <2>1, <2>2 DEF PutBack
<1>5. pc'[h] = p /\ \A g \in Handler \ {h} : pc'[g] = pc[g] /\ job'[g] = job[g]
  BY <1>4 DEF Shape, TypeOK
<1>6. HandKept(h)
  BY <1>5 DEF HandKept, Sending
<1>7. CASE row' = row
  BY <1>3, <1>4, <1>6, <1>7, SameKept, HandlerRest
<1>8. CASE Fenced(h) /\ row' = [row EXCEPT ![d] = q]
  <2>1. /\ row[d] \in Row /\ row[d].replays = c /\ row[d] # None
        /\ row[d].status = "processing" /\ row[d].cycle > 0
    BY <1>1, <1>2, <1>8, Hand, WebhooksAssumption
  <2>2. /\ row'[d] = q /\ q # None /\ q.status = "pending"
        /\ q.cycle = row[d].cycle - 1 /\ q.replays = row[d].replays
    BY <1>2, <1>8, <2>1, ReturnedRow DEF Shape, TypeOK
  <2>3. \A x \in Delivery \ {d} : row'[x] = row[x]
    BY <1>8 DEF Shape, TypeOK
  <2> HIDE DEF q, c
  <2>4. \A x \in Delivery, r \in 0..MaxReplays :
          /\ Load(x, r) \in Nat /\ Load(x, r)' \in Nat
          /\ Load(x, r)' = IF d = x /\ c = r THEN Load(x, r) - 1 ELSE Load(x, r)
    <3> TAKE x \in Delivery, r \in 0..MaxReplays
    <3>1. /\ Cardinality(Open(x, r)') \in Nat
          /\ Cardinality(Open(x, r)') =
               IF d = x /\ c = r
               THEN Cardinality(Open(x, r)) - 1 ELSE Cardinality(Open(x, r))
      BY <1>1, <1>5, OneLess DEF Sending, c
    <3>2. sends[x][r] \in Nat /\ Cardinality(Open(x, r)) \in Nat
      BY LoadNat, OpenFinite DEF Shape
    <3>3. /\ Load(x, r) = sends[x][r] + Cardinality(Open(x, r))
          /\ Load(x, r)' = sends[x][r] + Cardinality(Open(x, r)')
      BY <1>3 DEF Load
    <3> QED
      BY <3>1, <3>2, <3>3
  <2>5. NothingEarly'
    <3> SUFFICES ASSUME NEW x \in Delivery
                 PROVE  /\ x[2] \notin emitted => row'[x] = None
                        /\ \A r \in 0..MaxReplays :
                             (x[2] \notin emitted \/ (row'[x] # None /\ row'[x].replays < r))
                             => Load(x, r)' = 0
      BY <1>3 DEF NothingEarly
    <3>1. x[2] \notin emitted => row[x] = None
      BY DEF Rest, NothingEarly
    <3>2. ASSUME NEW r \in 0..MaxReplays,
                 x[2] \notin emitted \/ (row'[x] # None /\ row'[x].replays < r)
          PROVE  Load(x, r)' = 0
      <4>1. x[2] \notin emitted \/ (row[x] # None /\ row[x].replays < r)
        BY <2>1, <2>2, <2>3, <3>2
      <4>2. Load(x, r) = 0
        BY <4>1 DEF Rest, NothingEarly
      <4> QED
        BY <2>4, <4>2
    <3> QED
      BY <2>1, <2>3, <3>1, <3>2
  <2>6. Covered'
    <3> SUFFICES ASSUME NEW x \in Delivery, NEW r \in 0..MaxReplays
                 PROVE  /\ Load(x, r)' <= MaxAttempts
                        /\ row'[x] # None /\ row'[x].replays = r =>
                             Load(x, r)' <= row'[x].cycle
      BY DEF Covered
    <3>1. /\ Load(x, r) <= MaxAttempts
          /\ row[x] # None /\ row[x].replays = r => Load(x, r) <= row[x].cycle
      BY DEF Rest, Covered
    <3>2. Load(x, r) \in Nat /\ MaxAttempts \in Nat
      BY <2>4, WebhooksAssumption
    <3>3. Load(x, r)' <= MaxAttempts
      BY <2>4, <3>1, <3>2
    <3>4. CASE x = d
      <4>1. row[d].cycle \in Nat
        BY <2>1, WebhooksAssumption DEF Row
      <4> QED
        BY <2>1, <2>2, <2>4, <3>1, <3>2, <3>3, <3>4, <4>1
    <3>5. CASE x # d
      BY <2>3, <2>4, <3>1, <3>3, <3>5
    <3> QED
      BY <3>4, <3>5
  <2>7. RemovedIsQuiet'
    BY <1>3, <2>1, <2>2, <2>3 DEF Rest, RemovedIsQuiet, Is
  <2>8. \A x \in Delivery :
          row'[x] # None /\ row'[x].status = "delivered" =>
            /\ row[x] # None /\ row'[x].replays = row[x].replays
            /\ Is(x, "delivered") \/ accepted[x][row[x].replays]
    BY <2>2, <2>3 DEF Is
  <2>9. \A g \in Handler :
          pc'[g] = "settle" /\ job'[g].result = "ok" =>
            accepted'[job'[g].delivery][job'[g].replays]
    BY <1>3, <1>4, <1>5 DEF Rest, SuccessSeen
  <2>10. SuccessSeen' /\ DeliveredMeansAccepted'
    BY <1>3, <2>8, <2>9, SeenFrame
  <2> QED
    BY <2>5, <2>6, <2>7, <2>10 DEF Rest
<1> QED
  BY <1>7, <1>8 DEF PutBack

\* What the steps that count have in common: a row that is new to its load.
LEMMA CountFrame ==
  ASSUME Shape, Rest, emitted \subseteq emitted',
         \A d \in Delivery, r \in 0..MaxReplays :
           Load(d, r) \in Nat /\ Load(d, r)' \in Nat,
         \A d \in Delivery :
           \/ /\ row'[d] = row[d] \/ (row[d] = None /\ d[2] \in emitted')
              /\ \A r \in 0..MaxReplays : Load(d, r)' = Load(d, r)
              /\ row'[d] # row[d] => row'[d].cycle = 0 /\ d[2] \notin emitted
           \/ /\ d[2] \in emitted' /\ row'[d] # None /\ row[d] # None
              /\ row[d].replays <= row'[d].replays
              /\ row[d].replays \in Nat /\ row'[d].replays \in Nat
              /\ \A r \in 0..MaxReplays :
                   \/ /\ Load(d, r)' = Load(d, r)
                      /\ r # row'[d].replays \/ (Load(d, r) = 0 /\ row'[d].cycle \in Nat)
                   \/ /\ Load(d, r)' = Load(d, r) + 1
                      /\ r = row'[d].replays /\ row[d].replays = r
                      /\ row'[d].cycle = row[d].cycle + 1
                      /\ row'[d].cycle \in 0..MaxAttempts /\ row[d].cycle \in Nat
  PROVE  NothingEarly' /\ Covered'
<1>0. MaxAttempts \in Nat
  BY WebhooksAssumption
<1>1. ASSUME NEW d \in Delivery
      PROVE  /\ d[2] \notin emitted' => row'[d] = None
             /\ \A r \in 0..MaxReplays :
                  (d[2] \notin emitted' \/ (row'[d] # None /\ row'[d].replays < r))
                  => Load(d, r)' = 0
  <2>1. d[2] \notin emitted => row[d] = None
    BY DEF Rest, NothingEarly
  <2>2. \A r \in 0..MaxReplays :
          d[2] \notin emitted \/ (row[d] # None /\ row[d].replays < r) => Load(d, r) = 0
    BY DEF Rest, NothingEarly
  <2>3. CASE /\ row'[d] = row[d] \/ (row[d] = None /\ d[2] \in emitted')
             /\ \A r \in 0..MaxReplays : Load(d, r)' = Load(d, r)
             /\ row'[d] # row[d] => row'[d].cycle = 0 /\ d[2] \notin emitted
    BY <2>1, <2>2, <2>3
  <2>4. CASE ~(/\ row'[d] = row[d] \/ (row[d] = None /\ d[2] \in emitted')
               /\ \A r \in 0..MaxReplays : Load(d, r)' = Load(d, r)
               /\ row'[d] # row[d] => row'[d].cycle = 0 /\ d[2] \notin emitted)
    BY <2>2, <2>4
  <2> QED
    BY <2>3, <2>4
<1>2. ASSUME NEW d \in Delivery, NEW r \in 0..MaxReplays
      PROVE  /\ Load(d, r)' <= MaxAttempts
             /\ row'[d] # None /\ row'[d].replays = r => Load(d, r)' <= row'[d].cycle
  <2>1. /\ Load(d, r) <= MaxAttempts
        /\ row[d] # None /\ row[d].replays = r => Load(d, r) <= row[d].cycle
    BY DEF Rest, Covered
  <2>2. d[2] \notin emitted => Load(d, r) = 0
    BY DEF Rest, NothingEarly
  <2>3. Load(d, r) \in Nat /\ Load(d, r)' \in Nat
    OBVIOUS
  <2> QED
    BY <1>0, <2>1, <2>2, <2>3
<1> QED
  BY <1>1, <1>2 DEF NothingEarly, Covered

LEMMA EmitRest ==
  ASSUME Shape, Rest, NEW e \in Event, Emit(e) PROVE Rest'
<1> DEFINE new == [status |-> "pending", cycle |-> 0, replays |-> 0, timer |-> 0,
                   holder |-> None, age |-> "replayable"]
<1>1. /\ sub' = sub /\ pc' = pc /\ job' = job /\ sends' = sends /\ accepted' = accepted
      /\ emitted' = emitted \cup {e} /\ e \notin emitted
  BY DEF Emit, handlers, history
<1>2. \A d \in Delivery : row'[d] = IF d[2] = e /\ Active(d[1]) THEN new ELSE row[d]
  BY DEF Emit
<1>3. /\ new.cycle = 0 /\ new.status = "pending"
  OBVIOUS
<1> HIDE DEF new
<1>4. \A d \in Delivery, r \in 0..MaxReplays :
        Load(d, r) \in Nat /\ Load(d, r)' = Load(d, r)
  BY <1>1, LoadNat DEF Load, Open, Shape
<1>5. \A d \in Delivery : d[2] = e => row[d] = None
  BY <1>1 DEF Rest, NothingEarly
<1>6. \A d \in Delivery :
        /\ row'[d] = row[d] \/ (row[d] = None /\ d[2] \in emitted')
        /\ \A r \in 0..MaxReplays : Load(d, r)' = Load(d, r)
        /\ row'[d] # row[d] => row'[d].cycle = 0 /\ d[2] \notin emitted
  BY <1>1, <1>2, <1>3, <1>4, <1>5
<1>7. NothingEarly' /\ Covered'
  BY <1>1, <1>4, <1>6, CountFrame
<1>8. RemovedIsQuiet'
  BY <1>1, <1>2 DEF Rest, RemovedIsQuiet, Is, Active
<1>9. \A x \in Delivery :
        row'[x] # None /\ row'[x].status = "delivered" =>
          /\ row[x] # None /\ row'[x].replays = row[x].replays
          /\ Is(x, "delivered") \/ accepted[x][row[x].replays]
  BY <1>2, <1>3 DEF Is
<1>10. SuccessSeen' /\ DeliveredMeansAccepted'
  BY <1>1, <1>9, SeenFrame DEF Rest, SuccessSeen
<1> QED
  BY <1>7, <1>8, <1>10 DEF Rest

LEMMA ReplayRest ==
  ASSUME Shape, Rest, NEW d \in Delivery, Replay(d) PROVE Rest'
<1> DEFINE q == Replayed(row[d])
<1>1. /\ sub' = sub /\ pc' = pc /\ job' = job /\ sends' = sends /\ accepted' = accepted
      /\ emitted' = emitted /\ sub[d[1]] = "active"
  BY DEF Replay, Active, handlers, history
<1>2. row[d] \in Row /\ row[d] # None /\ row[d].replays < MaxReplays
  BY DEF Shape, TypeOK, Replay, Is
<1>3. /\ row'[d] = q /\ q \in Row /\ q # None
      /\ q.status = "pending" /\ q.cycle = 0 /\ q.replays = row[d].replays + 1
  <2>1. row'[d] = q
    BY DEF Replay, Shape, TypeOK
  <2> QED
    BY <1>2, <2>1, ReplayedRow, WebhooksAssumption
<1>4. \A x \in Delivery \ {d} : row'[x] = row[x]
  BY DEF Replay, Shape, TypeOK
<1> HIDE DEF q
<1>5. \A x \in Delivery, r \in 0..MaxReplays :
        Load(x, r) \in Nat /\ Load(x, r)' = Load(x, r)
  BY <1>1, LoadNat DEF Load, Open, Shape
<1>6. /\ d[2] \in emitted /\ row[d].replays \in Nat /\ q.replays \in Nat
      /\ row[d].replays < q.replays
      /\ \A r \in 0..MaxReplays : r = q.replays => Load(d, r) = 0
  <2>1. row[d].replays \in Nat /\ row[d].replays < row[d].replays + 1
    BY <1>2, WebhooksAssumption DEF Row
  <2> QED
    BY <1>2, <1>3, <2>1 DEF Rest, NothingEarly
<1>7. NothingEarly' /\ Covered'
  <2>1. \A x \in Delivery, r \in 0..MaxReplays :
          Load(x, r) \in Nat /\ Load(x, r)' \in Nat
    BY <1>5
  <2>2. ASSUME NEW x \in Delivery, x # d
        PROVE  row'[x] = row[x] /\ \A r \in 0..MaxReplays : Load(x, r)' = Load(x, r)
    BY <1>4, <1>5, <2>2
  <2>3. /\ d[2] \in emitted' /\ row'[d] # None /\ row[d] # None
        /\ row[d].replays <= row'[d].replays
        /\ row[d].replays \in Nat /\ row'[d].replays \in Nat
        /\ \A r \in 0..MaxReplays :
             /\ Load(d, r)' = Load(d, r)
             /\ r # row'[d].replays \/ (Load(d, r) = 0 /\ row'[d].cycle \in Nat)
    BY <1>1, <1>2, <1>3, <1>5, <1>6
  <2> QED
    BY <1>1, <2>1, <2>2, <2>3, CountFrame
<1>8. RemovedIsQuiet'
  BY <1>1, <1>4 DEF Rest, RemovedIsQuiet, Is
<1>9. \A x \in Delivery :
        row'[x] # None /\ row'[x].status = "delivered" =>
          /\ row[x] # None /\ row'[x].replays = row[x].replays
          /\ Is(x, "delivered") \/ accepted[x][row[x].replays]
  BY <1>3, <1>4 DEF Is
<1>10. SuccessSeen' /\ DeliveredMeansAccepted'
  BY <1>1, <1>9, SeenFrame DEF Rest, SuccessSeen
<1> QED
  BY <1>7, <1>8, <1>10 DEF Rest

LEMMA ClaimRest ==
  ASSUME Shape, Rest, NEW h \in Handler, Claim(h) PROVE Rest'
<1>1. PICK d \in due[SweepOf[h]] :
        IF Claimable(d)
        THEN /\ row' = [row EXCEPT ![d] = Claimed(@, h)]
             /\ job' = [job EXCEPT ![h] =
                  [delivery |-> d, cycle |-> row[d].cycle + 1,
                   replays |-> row[d].replays, result |-> None]]
             /\ Goto(h, "look")
        ELSE UNCHANGED <<row, handlers>>
  BY DEF Claim
<1>2. d \in Delivery
  BY <1>1, WebhooksAssumption DEF Shape, TypeOK
<1>3. /\ sub' = sub /\ emitted' = emitted /\ UNCHANGED <<emitted, history>>
      /\ sends' = sends /\ accepted' = accepted /\ pc[h] = "take"
  BY DEF Claim, history
<1>4. CASE ~Claimable(d)
  BY <1>1, <1>3, <1>4, SameHands, SameKept, QuietFrame DEF handlers
<1>5. CASE Claimable(d)
  <2> DEFINE q == Claimed(row[d], h)
             c == row[d].replays
  <2>1. /\ row[d] \in Row /\ row[d] # None /\ row[d].cycle < MaxAttempts
        /\ sub[d[1]] = "active"
    BY <1>2, <1>5 DEF Claimable, Active, Unsettled, Is, Shape, TypeOK
  <2>2. /\ row'[d] = q /\ q \in Row /\ q # None
        /\ q.status = "processing" /\ q.replays = row[d].replays
        /\ q.cycle = row[d].cycle + 1
    <3>1. row'[d] = q
      BY <1>1, <1>2, <1>5 DEF Shape, TypeOK
    <3> QED
      BY <2>1, <3>1, ClaimedRow
  <2>3. \A x \in Delivery \ {d} : row'[x] = row[x]
    BY <1>1, <1>5 DEF Shape, TypeOK
  <2>4. /\ pc'[h] = "look" /\ job'[h].delivery = d /\ job'[h].replays = c
        /\ \A g \in Handler \ {h} : pc'[g] = pc[g] /\ job'[g] = job[g]
    BY <1>1, <1>5 DEF Goto, Shape, TypeOK
  <2>5. /\ c \in 0..MaxReplays /\ c \in Nat
        /\ row[d].cycle \in Nat /\ row[d].cycle + 1 \in 0..MaxAttempts
    BY <2>1, WebhooksAssumption DEF Row
  <2> HIDE DEF q, c
  <2>6. \A x \in Delivery, r \in 0..MaxReplays :
          /\ Load(x, r) \in Nat /\ Load(x, r)' \in Nat
          /\ Load(x, r)' = IF d = x /\ c = r THEN Load(x, r) + 1 ELSE Load(x, r)
    <3> TAKE x \in Delivery, r \in 0..MaxReplays
    <3>1. /\ h \notin Open(x, r)
          /\ Open(x, r)' = IF d = x /\ c = r THEN Open(x, r) \cup {h} ELSE Open(x, r)
      BY <1>3, <2>4 DEF Open, Sending
    <3>2. sends[x][r] \in Nat /\ Cardinality(Open(x, r)) \in Nat
      BY LoadNat, OpenFinite DEF Shape
    <3>3. Cardinality(Open(x, r) \cup {h}) = Cardinality(Open(x, r)) + 1
      BY <3>1, OpenFinite, FS_AddElement
    <3>4. /\ Load(x, r) = sends[x][r] + Cardinality(Open(x, r))
          /\ Load(x, r)' = sends[x][r] + Cardinality(Open(x, r)')
      BY <1>3 DEF Load
    <3> QED
      BY <3>1, <3>2, <3>3, <3>4
  <2>7. NothingEarly' /\ Covered'
    <3>1. \A x \in Delivery, r \in 0..MaxReplays :
            Load(x, r) \in Nat /\ Load(x, r)' \in Nat
      BY <2>6
    <3>2. ASSUME NEW x \in Delivery, x # d
          PROVE  row'[x] = row[x] /\ \A r \in 0..MaxReplays : Load(x, r)' = Load(x, r)
      BY <2>3, <2>6, <3>2
    <3>3. d[2] \in emitted'
      BY <1>2, <1>3, <2>1 DEF Rest, NothingEarly
    <3>4. ASSUME NEW r \in 0..MaxReplays
          PROVE  \/ /\ Load(d, r)' = Load(d, r) /\ r # row'[d].replays
                 \/ /\ Load(d, r)' = Load(d, r) + 1
                    /\ r = row'[d].replays /\ row[d].replays = r
                    /\ row'[d].cycle = row[d].cycle + 1
                    /\ row'[d].cycle \in 0..MaxAttempts /\ row[d].cycle \in Nat
      BY <1>2, <2>2, <2>5, <2>6 DEF c
    <3>5. /\ row'[d] # None /\ row[d] # None /\ row[d].replays <= row'[d].replays
          /\ row[d].replays \in Nat /\ row'[d].replays \in Nat
      BY <2>1, <2>2, <2>5 DEF c
    <3> QED
      BY <1>3, <3>1, <3>2, <3>3, <3>4, <3>5, CountFrame
  <2>8. RemovedIsQuiet'
    BY <1>3, <2>1, <2>3 DEF Rest, RemovedIsQuiet, Is
  <2>9. \A x \in Delivery :
          row'[x] # None /\ row'[x].status = "delivered" =>
            /\ row[x] # None /\ row'[x].replays = row[x].replays
            /\ Is(x, "delivered") \/ accepted[x][row[x].replays]
    BY <2>2, <2>3 DEF Is
  <2>10. \A g \in Handler :
          pc'[g] = "settle" /\ job'[g].result = "ok" =>
            accepted'[job'[g].delivery][job'[g].replays]
    BY <1>3, <2>4 DEF Rest, SuccessSeen
  <2>11. SuccessSeen' /\ DeliveredMeansAccepted'
    BY <1>3, <2>9, <2>10, SeenFrame
  <2> QED
    BY <2>7, <2>8, <2>11 DEF Rest
<1> QED
  BY <1>4, <1>5

----------------------------------------------------------------------------
(* The theorems *)

LEMMA StepRest == IInv /\ [Next]_vars => Rest'
<1> SUFFICES ASSUME Shape, Rest, [Next]_vars PROVE Rest'
  BY DEF IInv
<1>1. ASSUME NEW h \in Handler, Step(h) \/ Stop(h) PROVE Rest'
  BY <1>1, ClaimRest, LookRest, PutBackRest, SendRest, SettleRest, StopRest DEF Step
<1> QED
  BY <1>1, CommandRest, EmitRest, ReplayRest, SweepRest, TimeRest, StutterRest DEF Next

LEMMA Inductive == Spec => []IInv
<1>1. Init => IInv
  BY InitShape, InitRest DEF IInv
<1>2. IInv /\ [Next]_vars => IInv'
  BY StepShape, StepRest DEF IInv
<1> QED
  BY <1>1, <1>2, PTL DEF Spec

\* No delivery, and no replay of one, sends more requests than its budget,
\* whatever is paused, taken over or settled late (claimAttempt, the pause in
\* deliverOne, settle).
THEOREM BudgetIsKept == Spec => []BudgetKept
<1>1. IInv => BudgetKept
  <2> SUFFICES ASSUME Shape, Rest, NEW d \in Delivery, NEW r \in 0..MaxReplays
               PROVE  sends[d][r] <= MaxAttempts
    BY DEF IInv, BudgetKept
  <2>1. Load(d, r) \in Nat /\ sends[d][r] \in Nat /\ sends[d][r] <= Load(d, r)
    BY LoadNat DEF Shape
  <2>2. Load(d, r) <= MaxAttempts /\ MaxAttempts \in Nat
    BY WebhooksAssumption DEF Rest, Covered
  <2> QED
    BY <2>1, <2>2
<1> QED
  BY <1>1, Inductive, PTL

\* A removed subscription has no work left, and no late handler, retry or
\* event gives it any (the removal batch, webhook_outbox_fanout, settle).
THEOREM RemovedStaysQuiet == Spec => []RemovedIsQuiet
<1>1. IInv => RemovedIsQuiet
  BY DEF IInv, Rest
<1> QED
  BY <1>1, Inductive, PTL

\* Whatever the log calls delivered was accepted in that very cycle (settle
\* under its fence).
THEOREM DeliveredWasAccepted == Spec => []DeliveredMeansAccepted
<1>1. IInv => DeliveredMeansAccepted
  BY DEF IInv, Rest
<1> QED
  BY <1>1, Inductive, PTL

\* A delivery under a live lease, and how it may leave its handler.
Leased(d) == Is(d, "processing") /\ ~Expired(d)
Left(d) ==
  \/ sub'[d[1]] = "deleted"
  \/ /\ row'[d].status = "processing"
     /\ row'[d].holder = row[d].holder
     /\ row'[d].cycle = row[d].cycle
  \/ pc[row[d].holder] \in {"putback", "settle"} /\ job[row[d].holder].delivery = d

LEMMA LeaseStep ==
  ASSUME Shape, NothingEarly, [Next]_vars, NEW d \in Delivery, Leased(d)
  PROVE  Left(d)
<1>0. row[d] \in Row /\ row[d] # None /\ row[d].status = "processing" /\ ~Expired(d)
  BY DEF Leased, Is, Shape, TypeOK
<1>1. ASSUME row'[d] = row[d] PROVE Left(d)
  BY <1>0, <1>1 DEF Left
<1>2. ASSUME NEW s \in Subscription, Command(s) PROVE Left(d)
  <2>1. CASE Create(s) \/ SetActive(s)
    BY <1>1, <2>1 DEF Create, SetActive
  <2>2. CASE Remove(s)
    <3>1. row'[d] = row[d] \/ d[1] = s
      BY <2>2 DEF Remove
    <3>2. sub'[s] = "deleted"
      BY <2>2 DEF Remove, Shape, TypeOK
    <3> QED
      BY <1>1, <3>1, <3>2 DEF Left
  <2> QED
    BY <1>2, <2>1, <2>2 DEF Command
<1>3. ASSUME NEW e \in Event, Emit(e) PROVE Left(d)
  <2>1. row'[d] = row[d] \/ (d[2] = e /\ e \notin emitted)
    BY <1>3 DEF Emit
  <2> QED
    BY <1>0, <1>1, <2>1 DEF NothingEarly
<1>4. ASSUME NEW x \in Delivery, Replay(x) \/ GrowOld(x) PROVE Left(d)
  <2>1. x # d
    BY <1>0, <1>4 DEF Replay, GrowOld, Is
  <2> QED
    BY <1>1, <1>4, <2>1 DEF Replay, GrowOld, Shape, TypeOK
<1>5. ASSUME NEW w \in Sweep, SweepStep(w) PROVE Left(d)
  <2>1. CASE Reap(w)
    <3>1. PICK D \in Limited(Batch, {y \in Delivery : Abandoned(y)}) :
            row' = [y \in Delivery |-> IF y \in D THEN Failed(row[y]) ELSE row[y]]
      BY <2>1 DEF Reap
    <3>2. d \notin D
      BY <1>0, LimitedSubset DEF Abandoned
    <3> QED
      BY <1>1, <3>1, <3>2
  <2>2. CASE Select(w) \/ EndSweep(w)
    BY <1>1, <2>2 DEF Select, EndSweep
  <2> QED
    BY <1>5, <2>1, <2>2 DEF SweepStep
<1>6. ASSUME NEW h \in Handler, Step(h) \/ Stop(h) PROVE Left(d)
  <2>1. CASE Claim(h)
    <3>1. PICK x \in due[SweepOf[h]] :
            row' = row \/ (Claimable(x) /\ row' = [row EXCEPT ![x] = Claimed(@, h)])
      BY <2>1 DEF Claim
    <3>2. Claimable(x) => x # d
      BY <1>0 DEF Claimable
    <3> QED
      BY <1>1, <3>1, <3>2 DEF Shape, TypeOK
  <2>2. CASE PutBack(h) \/ Settle(h)
    <3>1. pc[h] \in {"putback", "settle"}
      BY <2>2 DEF PutBack, Settle
    <3>2. \/ row' = row
          \/ /\ Fenced(h)
             /\ \E q : row' = [row EXCEPT ![job[h].delivery] = q]
      BY <2>2 DEF PutBack, Settle
    <3>3. CASE Fenced(h) /\ job[h].delivery = d
      BY <3>1, <3>3 DEF Left, Fenced
    <3>4. CASE ~(Fenced(h) /\ job[h].delivery = d)
      BY <1>1, <3>2, <3>4 DEF Shape, TypeOK
    <3> QED
      BY <3>3, <3>4
  <2>3. CASE Look(h) \/ Send(h) \/ Stop(h)
    BY <1>1, <2>3 DEF Look, Send, Stop
  <2> QED
    BY <1>6, <2>1, <2>2, <2>3 DEF Step
<1>7. CASE Tick
  <2>1. row'[d] = [row[d] EXCEPT !.timer = row[d].timer - 1]
    BY <1>0, <1>7 DEF Tick
  <2>2. /\ row'[d].status = row[d].status /\ row'[d].holder = row[d].holder
        /\ row'[d].cycle = row[d].cycle
    BY <1>0, <2>1 DEF Row
  <2> QED
    BY <1>0, <2>2 DEF Left
<1>8. CASE Purge
  <2>1. PICK D \in Limited(Batch, {y \in Delivery :
          /\ row[y] # None /\ row[y].age = "old"
          /\ Is(y, "processing") => Expired(y)}) :
          row' = [y \in Delivery |-> IF y \in D THEN None ELSE row[y]]
    BY <1>8 DEF Purge
  <2>2. d \notin D
    BY <1>0, LimitedSubset DEF Is
  <2> QED
    BY <1>1, <2>1, <2>2
<1>9. CASE UNCHANGED vars
  BY <1>1, <1>9 DEF vars
<1> QED
  BY <1>2, <1>3, <1>4, <1>5, <1>6, <1>7, <1>8, <1>9 DEF Next

\* While the lease of an attempt runs, nothing but its own handler or the
\* removal of its subscription takes the delivery away (the guards of the
\* reaping, the claim, the replay and the purge).
THEOREM LeaseIsRespected == Spec => LeaseRespected
<1>1. IInv /\ [Next]_vars => \A d \in Delivery : Leased(d) => Left(d)
  BY LeaseStep DEF IInv, Rest
<1>2. IInv /\ [Next]_vars =>
        [\A d \in Delivery : Is(d, "processing") /\ ~Expired(d)
           => \/ sub'[d[1]] = "deleted"
              \/ /\ row'[d].status = "processing"
                 /\ row'[d].holder = row[d].holder
                 /\ row'[d].cycle = row[d].cycle
              \/ pc[row[d].holder] \in {"putback", "settle"}
                 /\ job[row[d].holder].delivery = d]_vars
  BY <1>1 DEF Leased, Left
<1> QED
  BY <1>2, Inductive, PTL DEF Spec, LeaseRespected

----------------------------------------------------------------------------
(* An accepted delivery is not sent again *)

\* A handler that has its answer from the endpoint, and one that may still get
\* it.
HasAcceptance(h) == pc[h] = "settle" /\ job[h].result = "ok"
Hot(h) == pc[h] \in Sending \/ HasAcceptance(h)

\* The two ways to lose one: the handler stops before it settles, or its lease
\* runs out under it.
Loses(h) ==
  \/ Stop(h) /\ HasAcceptance(h)
  \/ Tick /\ Hot(h) /\ Fenced(h) /\ row[job[h].delivery].timer = 1

\* Without either a handler keeps its delivery, and no other works on it,
\* until the subscription is removed.
HotHeld ==
  \A h \in Handler : Hot(h) => Fenced(h) \/ sub[job[h].delivery[1]] = "deleted"
HotAlone ==
  \A g, h \in Handler :
    Hot(g) /\ Hot(h) /\ job[g].delivery = job[h].delivery => g = h

\* What was accepted in a cycle is over in that cycle, or about to be.
AcceptedIsOver ==
  \A d \in Delivery, r \in 0..MaxReplays : accepted[d][r] =>
    /\ sends[d][r] > 0
    /\ \A h \in Handler :
         pc[h] \in Sending /\ job[h].delivery = d => job[h].replays # r
    /\ row[d] # None /\ row[d].replays = r =>
         \/ row[d].status = "delivered"
         \/ sub[d[1]] = "deleted"
         \/ \E h \in Handler : HasAcceptance(h) /\ job[h].delivery = d

SentOnce == HotHeld /\ HotAlone /\ AcceptedIsOver

\* A handler that may get an acceptance goes on with its delivery in hand.
LEMMA HotHand ==
  ASSUME Shape, NEW h \in Handler, Hot(h)
  PROVE  pc[h] \in Working /\ job[h].delivery \in Delivery
BY Hand DEF Hot, HasAcceptance, Sending, Working

\* No request was sent for a delivery in a cycle to come.
LEMMA NotYet ==
  ASSUME IInv, SentOnce, NEW d \in Delivery, NEW r \in 0..MaxReplays,
         d[2] \notin emitted \/ (row[d] # None /\ row[d].replays < r)
  PROVE  ~accepted[d][r]
<1>1. Load(d, r) = 0
  BY DEF IInv, Rest, NothingEarly
<1>2. sends[d][r] \in Nat /\ sends[d][r] <= Load(d, r)
  BY LoadNat DEF IInv, Shape
<1>3. ~(sends[d][r] > 0)
  BY <1>1, <1>2
<1> QED
  BY <1>3 DEF SentOnce, AcceptedIsOver

\* A row under a live lease with an acceptance on the way belongs to its
\* handler; nobody else finds the delivery claimable, abandoned or settleable.
LEMMA AcceptedIsKept ==
  ASSUME IInv, SentOnce, NEW d \in Delivery, row[d] # None,
         accepted[d][row[d].replays], sub[d[1]] # "deleted",
         row[d].status # "delivered"
  PROVE  \E h \in Handler :
           /\ HasAcceptance(h) /\ job[h].delivery = d /\ Fenced(h)
           /\ row[d].status = "processing" /\ row[d].holder = h /\ ~Expired(d)
<1>1. row[d].replays \in 0..MaxReplays
  BY DEF IInv, Shape, TypeOK, Row
<1>2. PICK h \in Handler : HasAcceptance(h) /\ job[h].delivery = d
  BY <1>1 DEF SentOnce, AcceptedIsOver
<1>3. Fenced(h)
  BY <1>2 DEF SentOnce, HotHeld, Hot
<1> QED
  BY <1>2, <1>3 DEF Fenced, Is

\* A removed subscription stays removed.
LEMMA RemovedStays ==
  ASSUME Shape, [Next]_vars, NEW d \in Delivery, sub[d[1]] = "deleted"
  PROVE  sub'[d[1]] = "deleted"
<1>1. d[1] \in Subscription
  BY DEF Delivery
<1>2. ASSUME NEW s \in Subscription, Command(s) PROVE sub'[d[1]] = "deleted"
  BY <1>1, <1>2 DEF Command, Create, SetActive, Remove, Shape, TypeOK
<1>3. ASSUME sub' = sub PROVE sub'[d[1]] = "deleted"
  BY <1>3
<1> QED
  BY <1>2, <1>3
  DEF Next, Emit, Replay, GrowOld, SweepStep, Reap, Select, EndSweep, Step, Claim,
      Look, PutBack, Send, Settle, Stop, Tick, Purge, vars

\* The claim of a delivery by a handler.
Claims(h, d) ==
  /\ Claimable(d) /\ row' = [row EXCEPT ![d] = Claimed(@, h)]
  /\ pc'[h] = "look" /\ job'[h].delivery = d /\ job'[h].replays = row[d].replays
  /\ \A g \in Handler \ {h} : pc'[g] = pc[g] /\ job'[g] = job[g]
  /\ UNCHANGED <<sub, history>>

\* A handler's step is about its own work.
LEMMA OthersRest ==
  ASSUME Shape, NEW g \in Handler, Step(g) \/ Stop(g), NEW h \in Handler, g # h
  PROVE  pc'[h] = pc[h] /\ job'[h] = job[h]
<1>0. pc \in [Handler -> {"take", "look", "putback", "send", "settle", "stopped"}]
      /\ job \in [Handler -> Job \cup {None}]
  BY DEF Shape, TypeOK
<1>1. CASE Claim(g)
  BY <1>0, <1>1 DEF Claim, Goto, handlers
<1>2. CASE Look(g) \/ Send(g)
  BY <1>0, <1>2 DEF Look, Send, Goto
<1>3. CASE PutBack(g)
  BY <1>0, <1>3 DEF PutBack, Goto
<1>4. CASE Settle(g) \/ Stop(g)
  BY <1>0, <1>4 DEF Settle, Stop, Goto
<1> QED
  BY <1>1, <1>2, <1>3, <1>4 DEF Step

\* A handler that goes on with its delivery.
GoesOn(h) ==
  /\ job'[h].delivery = job[h].delivery /\ job'[h].replays = job[h].replays
  /\ \/ pc[h] \in Sending
     \/ HasAcceptance(h) /\ HasAcceptance(h)'

LEMMA HotMoves ==
  ASSUME Shape, [Next]_vars, NEW h \in Handler, Hot(h)'
  PROVE  GoesOn(h) \/ \E d \in Delivery : Claims(h, d)
<1>0. Shape'
  BY StepShape
<1>1. pc'[h] \in {"look", "putback", "send", "settle"}
  BY DEF Hot, HasAcceptance, Sending
<1>2. ASSUME pc'[h] = pc[h], job'[h] = job[h] PROVE GoesOn(h)
  BY <1>2 DEF GoesOn, Hot, HasAcceptance
<1>3. ASSUME NEW g \in Handler, Step(g) \/ Stop(g), g # h PROVE GoesOn(h)
  <2>1. pc'[h] = pc[h] /\ job'[h] = job[h]
    BY <1>3, OthersRest
  <2> QED
    BY <1>2, <2>1
<1>4. CASE Claim(h)
  <2>1. PICK d \in due[SweepOf[h]] :
          IF Claimable(d)
          THEN /\ row' = [row EXCEPT ![d] = Claimed(@, h)]
               /\ job' = [job EXCEPT ![h] =
                    [delivery |-> d, cycle |-> row[d].cycle + 1,
                     replays |-> row[d].replays, result |-> None]]
               /\ Goto(h, "look")
          ELSE UNCHANGED <<row, handlers>>
    BY <1>4 DEF Claim
  <2>2. d \in Delivery
    BY <2>1, WebhooksAssumption DEF Shape, TypeOK
  <2>3. CASE Claimable(d)
    <3>1. /\ pc'[h] = "look" /\ job'[h].delivery = d
          /\ job'[h].replays = row[d].replays
          /\ \A g \in Handler \ {h} : pc'[g] = pc[g] /\ job'[g] = job[g]
      BY <2>1, <2>3 DEF Goto, Shape, TypeOK
    <3>2. UNCHANGED <<sub, history>>
      BY <1>4 DEF Claim
    <3> QED
      BY <2>1, <2>2, <2>3, <3>1, <3>2 DEF Claims
  <2>4. CASE ~Claimable(d)
    BY <1>2, <2>1, <2>4 DEF handlers
  <2> QED
    BY <2>3, <2>4
<1>5. CASE Look(h) \/ Send(h)
  <2>1. pc[h] \in Sending /\ pc[h] \in Working
    BY <1>5 DEF Look, Send, Sending, Working
  <2>2. job[h] \in Job /\ job \in [Handler -> Job \cup {None}]
    BY <2>1, Hand DEF Shape, TypeOK
  <2>3. job'[h].delivery = job[h].delivery /\ job'[h].replays = job[h].replays
    <3>1. CASE job' = job
      BY <3>1
    <3>2. ASSUME NEW result, job' = [job EXCEPT ![h].result = result]
          PROVE  job'[h].delivery = job[h].delivery /\ job'[h].replays = job[h].replays
      BY <2>2, <3>2 DEF Job
    <3> QED
      BY <1>5, <3>1, <3>2 DEF Look, Send
  <2> QED
    BY <2>1, <2>3 DEF GoesOn
<1>6. CASE PutBack(h)
  <2>1. pc[h] \in Working
    BY <1>6 DEF PutBack, Working
  <2>2. job[h] \in Job /\ job \in [Handler -> Job \cup {None}] /\ pc \in [Handler -> {"take", "look", "putback", "send", "settle", "stopped"}]
    BY <2>1, Hand DEF Shape, TypeOK
  <2>3. pc'[h] = "take" \/ (pc'[h] = "settle" /\ job'[h].result = "again")
    BY <1>6, <2>2 DEF PutBack, Goto, Job
  <2> QED
    BY <2>3 DEF Hot, HasAcceptance, Sending
<1>7. CASE Settle(h) \/ Stop(h)
  <2>1. pc'[h] \in {"take", "stopped"}
    BY <1>7 DEF Settle, Stop, Goto, Shape, TypeOK
  <2> QED
    BY <1>1, <2>1
<1>8. ASSUME NEW g \in Handler, Step(g) \/ Stop(g)
      PROVE  GoesOn(h) \/ \E d \in Delivery : Claims(h, d)
  BY <1>3, <1>4, <1>5, <1>6, <1>7, <1>8 DEF Step
<1>9. ASSUME NEW w \in Sweep, SweepStep(w) PROVE GoesOn(h)
  <2>1. pc'[h] = pc[h] \/ pc'[h] = "take"
    BY <1>9 DEF SweepStep, Reap, Select, EndSweep, handlers, Shape, TypeOK
  <2>2. job' = job
    BY <1>9 DEF SweepStep, Reap, Select, EndSweep, handlers
  <2> QED
    BY <1>1, <1>2, <2>1, <2>2
<1>10. ASSUME UNCHANGED handlers PROVE GoesOn(h)
  BY <1>2, <1>10 DEF handlers
<1> QED
  BY <1>8, <1>9, <1>10
  DEF Next, Command, Create, SetActive, Remove, Emit, Replay, GrowOld, Tick, Purge,
      vars, handlers

\* A delivery that is held stays held, unless its subscription is removed, its
\* handler is done with it, or its lease runs out.
LEMMA HeldStays ==
  ASSUME Shape, NothingEarly, [Next]_vars, NEW h \in Handler, Hot(h), Fenced(h),
         ~Loses(h)
  PROVE  LET d == job[h].delivery IN
         \/ sub'[d[1]] = "deleted"
         \/ PutBack(h) \/ Settle(h)
         \/ /\ row'[d] # None /\ row'[d].status = "processing"
            /\ row'[d].holder = h /\ row'[d].timer # 0
<1> DEFINE d == job[h].delivery
           Stays == \/ sub'[d[1]] = "deleted"
                    \/ PutBack(h) \/ Settle(h)
                    \/ /\ row'[d] # None /\ row'[d].status = "processing"
                       /\ row'[d].holder = h /\ row'[d].timer # 0
<1>0. /\ d \in Delivery /\ row[d] \in Row /\ row[d] # None
      /\ row[d].status = "processing" /\ row[d].holder = h /\ row[d].timer # 0
  BY HotHand DEF Fenced, Is, Expired, Shape, TypeOK
<1>1. ASSUME row'[d] = row[d] PROVE Stays
  BY <1>0, <1>1
<1>2. ASSUME NEW s \in Subscription, Command(s) PROVE Stays
  <2>1. CASE Create(s) \/ SetActive(s)
    BY <1>1, <2>1 DEF Create, SetActive
  <2>2. CASE Remove(s)
    <3>1. row'[d] = row[d] \/ d[1] = s
      BY <1>0, <2>2 DEF Remove
    <3>2. sub'[s] = "deleted"
      BY <2>2 DEF Remove, Shape, TypeOK
    <3> QED
      BY <1>1, <3>1, <3>2
  <2> QED
    BY <1>2, <2>1, <2>2 DEF Command
<1>3. ASSUME NEW e \in Event, Emit(e) PROVE Stays
  <2>1. row'[d] = row[d] \/ (d[2] = e /\ e \notin emitted)
    BY <1>0, <1>3 DEF Emit
  <2> QED
    BY <1>0, <1>1, <2>1 DEF NothingEarly
<1>4. ASSUME NEW x \in Delivery, Replay(x) \/ GrowOld(x) PROVE Stays
  <2>1. x # d
    BY <1>0, <1>4 DEF Replay, GrowOld, Is, Expired
  <2>2. row'[d] = row[d]
    BY <1>0, <1>4, <2>1 DEF Replay, GrowOld, Shape, TypeOK
  <2> QED
    BY <1>1, <2>2
<1>5. ASSUME NEW w \in Sweep, SweepStep(w) PROVE Stays
  <2>1. CASE Reap(w)
    <3>1. PICK D \in Limited(Batch, {y \in Delivery : Abandoned(y)}) :
            row' = [y \in Delivery |-> IF y \in D THEN Failed(row[y]) ELSE row[y]]
      BY <2>1 DEF Reap
    <3>2. d \notin D
      BY <1>0, LimitedSubset DEF Abandoned, Expired
    <3> QED
      BY <1>0, <1>1, <3>1, <3>2
  <2>2. CASE Select(w) \/ EndSweep(w)
    BY <1>1, <2>2 DEF Select, EndSweep
  <2> QED
    BY <1>5, <2>1, <2>2 DEF SweepStep
<1>6. ASSUME NEW g \in Handler, Step(g) \/ Stop(g) PROVE Stays
  <2>1. CASE Claim(g)
    <3>1. PICK x \in due[SweepOf[g]] :
            row' = row \/ (Claimable(x) /\ row' = [row EXCEPT ![x] = Claimed(@, g)])
      BY <2>1 DEF Claim
    <3>2. Claimable(x) => x # d
      BY <1>0 DEF Claimable, Expired
    <3>3. row'[d] = row[d]
      BY <1>0, <3>1, <3>2 DEF Shape, TypeOK
    <3> QED
      BY <1>1, <3>3
  <2>2. CASE PutBack(g) \/ Settle(g)
    <3>1. CASE g = h
      BY <2>2, <3>1
    <3>2. CASE g # h
      <4>1. \/ row' = row
            \/ /\ Fenced(g)
               /\ \E q : row' = [row EXCEPT ![job[g].delivery] = q]
        BY <2>2 DEF PutBack, Settle
      <4>2. Fenced(g) => job[g].delivery # d
        BY <1>0, <3>2 DEF Fenced
      <4>3. row'[d] = row[d]
        BY <1>0, <4>1, <4>2 DEF Shape, TypeOK
      <4> QED
        BY <1>1, <4>3
    <3> QED
      BY <3>1, <3>2
  <2>3. CASE Look(g) \/ Send(g) \/ Stop(g)
    BY <1>1, <2>3 DEF Look, Send, Stop
  <2> QED
    BY <1>6, <2>1, <2>2, <2>3 DEF Step
<1>7. CASE Tick
  <2>1. row'[d] = [row[d] EXCEPT !.timer = row[d].timer - 1]
    BY <1>0, <1>7 DEF Tick, Expired
  <2>2. row[d].timer # 1 /\ row[d].timer \in Nat
    BY <1>0, <1>7 DEF Loses, Row
  <2>3. row[d].timer - 1 \in Nat /\ row[d].timer - 1 # 0
    BY <1>0, <2>2
  <2>4. row'[d] \in Row
    BY <1>0, <2>1, <2>3 DEF Row
  <2>5. row'[d] # None
    BY <2>4, WebhooksAssumption
  <2>6. /\ row'[d].status = "processing" /\ row'[d].holder = h
        /\ row'[d].timer = row[d].timer - 1
    BY <1>0, <2>1 DEF Row
  <2> QED
    BY <2>3, <2>5, <2>6
<1>8. CASE Purge
  <2>1. PICK D \in Limited(Batch, {y \in Delivery :
          /\ row[y] # None /\ row[y].age = "old"
          /\ Is(y, "processing") => Expired(y)}) :
          row' = [y \in Delivery |-> IF y \in D THEN None ELSE row[y]]
    BY <1>8 DEF Purge
  <2>2. d \notin D
    BY <1>0, LimitedSubset DEF Is, Expired
  <2> QED
    BY <1>0, <1>1, <2>1, <2>2
<1>9. CASE UNCHANGED vars
  BY <1>1, <1>9 DEF vars
<1>10. Stays
  BY <1>2, <1>3, <1>4, <1>5, <1>6, <1>7, <1>8, <1>9 DEF Next
<1> QED
  BY <1>10

\* An acceptance stays with its handler until the handler settles.
LEMMA AcceptanceStays ==
  ASSUME Shape, [Next]_vars, NEW h \in Handler, HasAcceptance(h), ~Loses(h)
  PROVE  Settle(h) \/ (HasAcceptance(h)' /\ job'[h].delivery = job[h].delivery)
<1>1. ASSUME pc'[h] = pc[h], job'[h] = job[h]
      PROVE  HasAcceptance(h)' /\ job'[h].delivery = job[h].delivery
  BY <1>1 DEF HasAcceptance
<1>2. ASSUME NEW g \in Handler, Step(g) \/ Stop(g), g # h
      PROVE  pc'[h] = pc[h] /\ job'[h] = job[h]
  BY <1>2, OthersRest
<1>3. ~Stop(h) /\ (Step(h) => Settle(h))
  BY DEF Loses, HasAcceptance, Step, Claim, Look, PutBack, Send
<1>4. ASSUME NEW w \in Sweep, SweepStep(w) PROVE pc'[h] = pc[h] /\ job'[h] = job[h]
  BY <1>4 DEF SweepStep, Reap, Select, EndSweep, handlers, HasAcceptance, Shape, TypeOK
<1>5. ASSUME UNCHANGED handlers PROVE pc'[h] = pc[h] /\ job'[h] = job[h]
  BY <1>5 DEF handlers
<1>6. Settle(h) \/ (pc'[h] = pc[h] /\ job'[h] = job[h])
  BY <1>2, <1>3, <1>4, <1>5
  DEF Next, Command, Create, SetActive, Remove, Emit, Replay, GrowOld, Tick, Purge,
      vars, handlers
<1> QED
  BY <1>1, <1>6

\* Where an acceptance comes from, and that requests sent stay sent.
LEMMA AcceptanceMade ==
  ASSUME Shape, [Next]_vars, NEW d \in Delivery, NEW r \in 0..MaxReplays
  PROVE  /\ sends[d][r] > 0 => sends'[d][r] > 0
         /\ accepted'[d][r] =>
              \/ accepted[d][r]
              \/ \E h \in Handler :
                   /\ Send(h) /\ HasAcceptance(h)' /\ sends'[d][r] > 0
                   /\ job[h].delivery = d /\ job[h].replays = r
                   /\ job'[h].delivery = d
<1> DEFINE Made ==
      /\ sends[d][r] > 0 => sends'[d][r] > 0
      /\ accepted'[d][r] =>
           \/ accepted[d][r]
           \/ \E h \in Handler :
                /\ Send(h) /\ HasAcceptance(h)' /\ sends'[d][r] > 0
                /\ job[h].delivery = d /\ job[h].replays = r
                /\ job'[h].delivery = d
<1>0. /\ sends[d] \in [0..MaxReplays -> Nat] /\ sends[d][r] \in Nat
      /\ accepted[d] \in [0..MaxReplays -> BOOLEAN]
  <2>1. sends[d] \in [0..MaxReplays -> Nat] /\ accepted[d] \in [0..MaxReplays -> BOOLEAN]
    BY DEF Shape, TypeOK
  <2> QED
    BY <2>1
<1>1. ASSUME NEW h \in Handler, Send(h) PROVE Made
  <2> DEFINE x == job[h].delivery
             c == job[h].replays
  <2>1. pc[h] \in Working
    BY <1>1 DEF Send, Working
  <2>2. x \in Delivery /\ c \in 0..MaxReplays /\ job[h] \in Job
    BY <2>1, Hand
  <2>3. PICK result \in Result :
          /\ job' = [job EXCEPT ![h].result = result]
          /\ accepted' = [accepted EXCEPT ![x][c] = accepted[x][c] \/ result = "ok"]
    BY <1>1 DEF Send
  <2>4. /\ pc'[h] = "settle" /\ job'[h].result = result /\ job'[h].delivery = x
    BY <1>1, <2>2, <2>3 DEF Send, Goto, Shape, TypeOK, Job
  <2>5. CASE x = d /\ c = r
    <3>1. sends'[d] = [sends[d] EXCEPT ![r] = sends[d][r] + 1]
      BY <1>1, <2>2, <2>5 DEF Send, Shape, TypeOK
    <3>2. sends'[d][r] = sends[d][r] + 1
      BY <1>0, <3>1
    <3>3. sends'[d][r] > 0
      BY <1>0, <3>2
    <3>4. accepted'[d] = [accepted[d] EXCEPT ![r] = accepted[d][r] \/ result = "ok"]
      BY <2>2, <2>3, <2>5 DEF Shape, TypeOK
    <3>5. accepted'[d][r] => accepted[d][r] \/ result = "ok"
      BY <1>0, <3>4
    <3>6. result = "ok" => HasAcceptance(h)'
      BY <2>4 DEF HasAcceptance
    <3> QED
      BY <1>1, <2>4, <2>5, <3>3, <3>5, <3>6
  <2>6. CASE x = d /\ c # r
    <3>1. sends'[d] = [sends[d] EXCEPT ![c] = sends[d][c] + 1]
      BY <1>1, <2>2, <2>6 DEF Send, Shape, TypeOK
    <3>2. accepted'[d] = [accepted[d] EXCEPT ![c] = accepted[d][c] \/ result = "ok"]
      BY <2>2, <2>3, <2>6 DEF Shape, TypeOK
    <3>3. sends'[d][r] = sends[d][r] /\ accepted'[d][r] = accepted[d][r]
      BY <1>0, <2>2, <2>6, <3>1, <3>2
    <3> QED
      BY <3>3
  <2>7. CASE x # d
    <3>1. sends'[d] = sends[d] /\ accepted'[d] = accepted[d]
      BY <1>1, <2>3, <2>7 DEF Send, Shape, TypeOK
    <3> QED
      BY <3>1
  <2> QED
    BY <2>5, <2>6, <2>7
<1>2. ASSUME UNCHANGED history PROVE Made
  BY <1>2 DEF history
<1>3. (\E h \in Handler : Send(h)) \/ UNCHANGED history
  BY DEF Next, Command, Create, SetActive, Remove, Emit, Replay, GrowOld, SweepStep,
      Reap, Select, EndSweep, Step, Claim, Look, PutBack, Settle, Stop, Tick, Purge,
      vars, history
<1>4. Made
  BY <1>1, <1>2, <1>3
<1> QED
  BY <1>4

\* A row begins a cycle with its event or a replay; what is delivered stays
\* delivered for the rest of its cycle.
LEMMA RowMoves ==
  ASSUME Shape, [Next]_vars, NEW d \in Delivery, row'[d] # None
  PROVE  \/ d[2] \notin emitted /\ row'[d].replays = 0 /\ UNCHANGED history
         \/ /\ Replay(d) /\ row[d] # None /\ UNCHANGED history
            /\ row'[d].replays = row[d].replays + 1
         \/ /\ row[d] # None /\ row'[d].replays = row[d].replays
            /\ row[d].status = "delivered" => row'[d].status = "delivered"
<1> DEFINE Moves ==
      \/ d[2] \notin emitted /\ row'[d].replays = 0 /\ UNCHANGED history
      \/ /\ Replay(d) /\ row[d] # None /\ UNCHANGED history
         /\ row'[d].replays = row[d].replays + 1
      \/ /\ row[d] # None /\ row'[d].replays = row[d].replays
         /\ row[d].status = "delivered" => row'[d].status = "delivered"
<1>0. row[d] # None => row[d] \in Row
  BY DEF Shape, TypeOK
<1>1. ASSUME row'[d] = row[d] PROVE Moves
  BY <1>1
<1>2. ASSUME NEW s \in Subscription, Command(s) PROVE Moves
  <2>1. row'[d] = row[d] \/ (Unsettled(d) /\ row'[d] = Failed(row[d]))
    BY <1>2 DEF Command, Create, SetActive, Remove
  <2> QED
    BY <1>0, <1>1, <2>1, FailedRow DEF Unsettled, Is
<1>3. ASSUME NEW e \in Event, Emit(e) PROVE Moves
  <2>1. CASE d[2] = e /\ Active(d[1])
    <3>1. row'[d] = [status |-> "pending", cycle |-> 0, replays |-> 0, timer |-> 0,
                     holder |-> None, age |-> "replayable"]
      BY <1>3, <2>1 DEF Emit
    <3> QED
      BY <1>3, <2>1, <3>1 DEF Emit
  <2>2. CASE ~(d[2] = e /\ Active(d[1]))
    BY <1>1, <1>3, <2>2 DEF Emit
  <2> QED
    BY <2>1, <2>2
<1>4. ASSUME NEW x \in Delivery, Replay(x) PROVE Moves
  <2>1. row[x] \in Row /\ row[x].replays < MaxReplays /\ row[x] # None
    BY <1>4 DEF Shape, TypeOK, Replay, Is
  <2>2. row' = [row EXCEPT ![x] = Replayed(row[x])] /\ UNCHANGED history
    BY <1>4 DEF Replay
  <2>3. CASE x = d
    <3>1. row'[d] = Replayed(row[d])
      BY <2>2, <2>3 DEF Shape, TypeOK
    <3> QED
      BY <1>4, <2>1, <2>2, <2>3, <3>1, ReplayedRow
  <2>4. CASE x # d
    BY <1>1, <2>2, <2>4 DEF Shape, TypeOK
  <2> QED
    BY <2>3, <2>4
<1>5. ASSUME NEW x \in Delivery, GrowOld(x) PROVE Moves
  <2>1. CASE x = d
    <3>1. \E age : row'[d] = [row[d] EXCEPT !.age = age]
      BY <1>5, <2>1 DEF GrowOld, Shape, TypeOK
    <3>2. row[d] # None
      BY <1>5, <2>1 DEF GrowOld
    <3> QED
      BY <1>0, <3>1, <3>2 DEF Row
  <2>2. CASE x # d
    BY <1>1, <1>5, <2>2 DEF GrowOld, Shape, TypeOK
  <2> QED
    BY <2>1, <2>2
<1>6. ASSUME NEW w \in Sweep, SweepStep(w) PROVE Moves
  <2>1. CASE Reap(w)
    <3>1. PICK D \in Limited(Batch, {y \in Delivery : Abandoned(y)}) :
            row' = [y \in Delivery |-> IF y \in D THEN Failed(row[y]) ELSE row[y]]
      BY <2>1 DEF Reap
    <3>2. CASE d \in D
      <4>1. row[d] # None /\ row[d].status = "processing" /\ row'[d] = Failed(row[d])
        BY <3>1, <3>2, LimitedSubset DEF Abandoned, Is
      <4> QED
        BY <1>0, <4>1, FailedRow
    <3>3. CASE d \notin D
      BY <1>1, <3>1, <3>3
    <3> QED
      BY <3>2, <3>3
  <2>2. CASE Select(w) \/ EndSweep(w)
    BY <1>1, <2>2 DEF Select, EndSweep
  <2> QED
    BY <1>6, <2>1, <2>2 DEF SweepStep
<1>7. ASSUME NEW h \in Handler, Claim(h) PROVE Moves
  <2>1. PICK x \in due[SweepOf[h]] :
          row' = row \/ (Claimable(x) /\ row' = [row EXCEPT ![x] = Claimed(row[x], h)])
    BY <1>7 DEF Claim
  <2>2. CASE x = d /\ row' # row
    <3>1. /\ row[d] # None /\ row[d].status # "delivered" /\ row[d].cycle < MaxAttempts
          /\ row'[d] = Claimed(row[d], h)
      BY <2>1, <2>2 DEF Claimable, Unsettled, Is, Shape, TypeOK
    <3> QED
      BY <1>0, <3>1, ClaimedRow
  <2>3. CASE x # d \/ row' = row
    BY <1>1, <2>1, <2>3 DEF Shape, TypeOK
  <2> QED
    BY <2>2, <2>3
<1>8. ASSUME NEW h \in Handler, PutBack(h) \/ Settle(h) PROVE Moves
  <2>1. pc[h] \in Working
    BY <1>8 DEF PutBack, Settle, Working
  <2>2. job[h] \in Job /\ job[h].delivery \in Delivery /\ job[h].cycle > 0
    BY <2>1, Hand
  <2>3. \/ row' = row
        \/ /\ Fenced(h)
           /\ \/ row' = [row EXCEPT ![job[h].delivery] = Returned(row[job[h].delivery])]
              \/ row' = [row EXCEPT ![job[h].delivery] = Outcome(row[job[h].delivery], h)]
    BY <1>8 DEF PutBack, Settle
  <2>4. CASE job[h].delivery = d /\ row' # row
    <3>1. /\ row[d] # None /\ row[d].status = "processing" /\ row[d].cycle > 0
          /\ row'[d] = Returned(row[d]) \/ row'[d] = Outcome(row[d], h)
      <4>1. Fenced(h) /\ row[d].cycle = job[h].cycle
        BY <2>1, <2>3, <2>4, Hand
      <4>2. row'[d] = Returned(row[d]) \/ row'[d] = Outcome(row[d], h)
        BY <2>3, <2>4 DEF Shape, TypeOK
      <4> QED
        BY <2>2, <2>4, <4>1, <4>2 DEF Fenced, Is
    <3> QED
      BY <1>0, <2>2, <3>1, ReturnedRow, OutcomeRow
  <2>5. CASE job[h].delivery # d \/ row' = row
    BY <1>1, <2>2, <2>3, <2>5 DEF Shape, TypeOK
  <2> QED
    BY <2>4, <2>5
<1>9. CASE Tick
  <2>1. CASE row[d] # None /\ ~Expired(d)
    <3>1. row'[d] = [row[d] EXCEPT !.timer = row[d].timer - 1]
      BY <1>9, <2>1 DEF Tick
    <3>2. row'[d].replays = row[d].replays /\ row'[d].status = row[d].status
      BY <1>0, <2>1, <3>1 DEF Row
    <3> QED
      BY <2>1, <3>2
  <2>2. CASE ~(row[d] # None /\ ~Expired(d))
    BY <1>1, <1>9, <2>2 DEF Tick
  <2> QED
    BY <2>1, <2>2
<1>10. CASE Purge
  BY <1>1, <1>10 DEF Purge
<1>11. ASSUME row' = row PROVE Moves
  BY <1>1, <1>11
<1>12. ASSUME NEW h \in Handler, Step(h) \/ Stop(h) PROVE Moves
  <2>1. CASE Look(h) \/ Send(h) \/ Stop(h)
    BY <1>11, <2>1 DEF Look, Send, Stop
  <2> QED
    BY <1>7, <1>8, <1>12, <2>1 DEF Step
<1>13. CASE UNCHANGED vars
  BY <1>11, <1>13 DEF vars
<1>14. Moves
  BY <1>2, <1>3, <1>4, <1>5, <1>6, <1>9, <1>10, <1>12, <1>13 DEF Next
<1> QED
  BY <1>14

\* Nobody claims a delivery that a handler may still get an acceptance for, or
\* that was accepted in its present cycle.
LEMMA NotClaimed ==
  ASSUME IInv, SentOnce, NEW d \in Delivery, Claimable(d)
  PROVE  /\ \A h \in Handler : Hot(h) => job[h].delivery # d
         /\ ~accepted[d][row[d].replays]
<1>1. /\ row[d] # None /\ row[d].status # "delivered" /\ Expired(d)
      /\ sub[d[1]] # "deleted"
  BY DEF Claimable, Unsettled, Is, Active
<1>2. \A h \in Handler : Hot(h) => job[h].delivery # d
  BY <1>1 DEF SentOnce, HotHeld, Fenced
<1>3. ~accepted[d][row[d].replays]
  BY <1>1, AcceptedIsKept
<1> QED
  BY <1>2, <1>3

LEMMA HotHeldStep ==
  ASSUME IInv, SentOnce, [Next]_vars, \A h \in Handler : ~Loses(h)
  PROVE  HotHeld'
<1> SUFFICES ASSUME NEW h \in Handler, Hot(h)'
             PROVE  Fenced(h)' \/ sub'[job'[h].delivery[1]] = "deleted"
  BY DEF HotHeld
<1>0. Shape /\ NothingEarly /\ HotHeld
  BY DEF IInv, Rest, SentOnce
<1>1. ASSUME NEW d \in Delivery, Claims(h, d)
      PROVE  Fenced(h)'
  <2>1. row[d] \in Row /\ row[d].cycle < MaxAttempts
    BY <1>0, <1>1 DEF Claims, Claimable, Unsettled, Is, Shape, TypeOK
  <2>2. row'[d] = Claimed(row[d], h) /\ job'[h].delivery = d
    BY <1>0, <1>1 DEF Claims, Shape, TypeOK
  <2>3. /\ Claimed(row[d], h) # None /\ Claimed(row[d], h).status = "processing"
        /\ Claimed(row[d], h).holder = h
    BY <2>1, ClaimedRow
  <2>4. Claimed(row[d], h).timer # 0
    BY <2>1, WebhooksAssumption DEF Claimed, Row
  <2> QED
    BY <2>2, <2>3, <2>4 DEF Fenced, Is, Expired
<1>2. CASE GoesOn(h)
  <2>1. Hot(h) /\ job'[h].delivery = job[h].delivery
    BY <1>2 DEF GoesOn, Hot
  <2>2. job[h].delivery \in Delivery
    BY <1>0, <2>1, HotHand
  <2>3. CASE Fenced(h)
    <3>1. ~PutBack(h) /\ ~Settle(h)
      <4>1. ASSUME PutBack(h) PROVE FALSE
        <5>1. pc[h] = "putback" /\ pc[h] \in Working
          BY <4>1 DEF PutBack, Working
        <5>2. job[h] \in Job
          BY <1>0, <5>1, Hand
        <5>3. pc'[h] = "take" \/ (pc'[h] = "settle" /\ job'[h].result = "again")
          BY <1>0, <4>1, <5>2 DEF PutBack, Goto, Shape, TypeOK, Job
        <5> QED
          BY <5>3 DEF Hot, HasAcceptance, Sending
      <4>2. ASSUME Settle(h) PROVE FALSE
        <5>1. pc'[h] = "take"
          BY <1>0, <4>2 DEF Settle, Goto, Shape, TypeOK
        <5> QED
          BY <5>1 DEF Hot, HasAcceptance, Sending
      <4> QED
        BY <4>1, <4>2
    <3>2. ~Loses(h)
      OBVIOUS
    <3>3. \/ sub'[job[h].delivery[1]] = "deleted"
          \/ /\ row'[job[h].delivery] # None
             /\ row'[job[h].delivery].status = "processing"
             /\ row'[job[h].delivery].holder = h /\ row'[job[h].delivery].timer # 0
      BY <1>0, <2>1, <2>3, <3>1, <3>2, HeldStays
    <3> QED
      BY <2>1, <3>3 DEF Fenced, Is, Expired
  <2>4. CASE ~Fenced(h)
    <3>1. sub[job[h].delivery[1]] = "deleted"
      BY <1>0, <2>1, <2>4 DEF HotHeld
    <3> QED
      BY <1>0, <2>1, <2>2, <3>1, RemovedStays
  <2> QED
    BY <2>3, <2>4
<1> QED
  BY <1>0, <1>1, <1>2, HotMoves

LEMMA HotAloneStep ==
  ASSUME IInv, SentOnce, [Next]_vars PROVE HotAlone'
<1> SUFFICES ASSUME NEW g \in Handler, NEW h \in Handler, Hot(g)', Hot(h)',
                    job'[g].delivery = job'[h].delivery, g # h
             PROVE  FALSE
  BY DEF HotAlone
<1>0. Shape /\ HotAlone
  BY DEF IInv, SentOnce
<1>1. ASSUME NEW x \in Handler, NEW y \in Handler \ {x}, NEW d \in Delivery,
             Claims(x, d), Hot(y)', job'[y].delivery = d
      PROVE  FALSE
  <2>1. Hot(y) /\ job[y].delivery = d
    BY <1>1 DEF Claims, Hot, HasAcceptance
  <2> QED
    BY <1>1, <2>1, NotClaimed DEF Claims
<1>2. \A d \in Delivery : ~Claims(g, d) /\ ~Claims(h, d)
  BY <1>1 DEF Claims
<1>3. GoesOn(g) /\ GoesOn(h)
  BY <1>0, <1>2, HotMoves
<1>4. Hot(g) /\ Hot(h) /\ job[g].delivery = job[h].delivery
  BY <1>3 DEF GoesOn, Hot
<1> QED
  BY <1>0, <1>4 DEF HotAlone

\* The handlers that may still send have nothing accepted in hand.
LEMMA SendingStep ==
  ASSUME IInv, SentOnce, [Next]_vars, NEW d \in Delivery, NEW r \in 0..MaxReplays,
         accepted'[d][r], NEW g \in Handler, pc'[g] \in Sending,
         job'[g].delivery = d, job'[g].replays = r
  PROVE  FALSE
<1>0. Shape /\ HotAlone /\ AcceptedIsOver
  BY DEF IInv, SentOnce
<1>1. Hot(g)'
  BY DEF Hot
<1>2. ASSUME NEW x \in Delivery, Claims(g, x) PROVE FALSE
  <2>1. x = d /\ row[d].replays = r /\ accepted' = accepted /\ Claimable(d)
    BY <1>2 DEF Claims, history
  <2> QED
    BY <2>1, NotClaimed
<1>3. CASE GoesOn(g)
  <2>1. /\ pc[g] \in Sending /\ Hot(g)
        /\ job[g].delivery = d /\ job[g].replays = r
    BY <1>3 DEF GoesOn, HasAcceptance, Hot, Sending
  <2>2. ~accepted[d][r]
    BY <1>0, <2>1 DEF AcceptedIsOver
  <2>3. PICK h \in Handler : Send(h) /\ HasAcceptance(h)' /\ job[h].delivery = d
    BY <1>0, <2>2, AcceptanceMade
  <2>4. Hot(h)
    BY <2>3 DEF Send, Hot, Sending
  <2>5. g = h
    BY <1>0, <2>1, <2>3, <2>4 DEF HotAlone
  <2> QED
    BY <2>3, <2>5 DEF HasAcceptance, Sending
<1> QED
  BY <1>0, <1>1, <1>2, <1>3, HotMoves

LEMMA AcceptedStep ==
  ASSUME IInv, SentOnce, [Next]_vars, \A h \in Handler : ~Loses(h)
  PROVE  AcceptedIsOver'
<1>0. Shape /\ HotHeld /\ AcceptedIsOver
  BY DEF IInv, SentOnce
<1>1. ASSUME NEW d \in Delivery, NEW r \in 0..MaxReplays, accepted'[d][r]
      PROVE  sends'[d][r] > 0
  BY <1>0, <1>1, AcceptanceMade DEF AcceptedIsOver
<1>2. ASSUME NEW d \in Delivery, NEW r \in 0..MaxReplays, accepted'[d][r],
             NEW h \in Handler, pc'[h] \in Sending, job'[h].delivery = d
      PROVE  job'[h].replays # r
  BY <1>2, SendingStep
<1>3. ASSUME NEW d \in Delivery, NEW r \in 0..MaxReplays, accepted'[d][r],
             row'[d] # None, row'[d].replays = r
      PROVE  \/ row'[d].status = "delivered"
             \/ sub'[d[1]] = "deleted"
             \/ \E h \in Handler : HasAcceptance(h)' /\ job'[h].delivery = d
  <2>1. CASE ~accepted[d][r]
    BY <1>0, <1>3, <2>1, AcceptanceMade
  <2>2. CASE accepted[d][r]
    <3>1. /\ row[d] # None /\ row[d].replays = r
          /\ row[d].status = "delivered" => row'[d].status = "delivered"
      <4>1. CASE d[2] \notin emitted
        BY <2>2, <4>1, NotYet
      <4>2. CASE row[d] # None /\ row'[d].replays = row[d].replays + 1
        <5>1. row[d].replays \in Nat /\ row[d].replays < r
          BY <1>0, <1>3, <4>2, WebhooksAssumption DEF Shape, TypeOK, Row
        <5> QED
          BY <2>2, <4>2, <5>1, NotYet
      <4> QED
        BY <1>0, <1>3, <4>1, <4>2, RowMoves
    <3>2. \/ row[d].status = "delivered" \/ sub[d[1]] = "deleted"
          \/ \E h \in Handler : HasAcceptance(h) /\ job[h].delivery = d
      BY <1>0, <2>2, <3>1 DEF AcceptedIsOver
    <3>3. ASSUME NEW h \in Handler, HasAcceptance(h), job[h].delivery = d, Settle(h),
                 sub[d[1]] # "deleted"
          PROVE  row'[d].status = "delivered"
      <4>1. Fenced(h)
        BY <1>0, <3>3 DEF HotHeld, Hot
      <4>2. row'[d] = Outcome(row[d], h)
        BY <1>0, <3>3, <4>1 DEF Settle, Shape, TypeOK
      <4>3. Outcome(row[d], h) = [row[d] EXCEPT !.status = "delivered", !.timer = 0,
                                                !.holder = None]
        BY <3>3 DEF Outcome, HasAcceptance
      <4>4. row[d] \in Row
        BY <1>0, <3>1 DEF Shape, TypeOK
      <4> QED
        BY <4>2, <4>3, <4>4 DEF Row
    <3>4. sub[d[1]] = "deleted" => sub'[d[1]] = "deleted"
      BY <1>0, RemovedStays
    <3> QED
      BY <1>0, <3>1, <3>2, <3>3, <3>4, AcceptanceStays
  <2> QED
    BY <2>1, <2>2
<1> QED
  BY <1>1, <1>2, <1>3 DEF AcceptedIsOver

LEMMA SentOnceStutter == ASSUME SentOnce, UNCHANGED vars PROVE SentOnce'
<1>1. UNCHANGED <<sub, row, pc, job, sends, accepted>>
  BY DEF vars, handlers, history
<1> QED
  BY <1>1
  DEF SentOnce, HotHeld, HotAlone, AcceptedIsOver, Hot, HasAcceptance, Fenced, Is,
      Expired

\* Delivery is at least once: an endpoint that has accepted a delivery can be
\* sent it again.  It takes a handler that stops between the answer and its
\* settlement, or a lease that runs out under a handler at work.  Without
\* either no request is sent for a delivery that the endpoint has accepted in
\* the same cycle, however many sweeps overlap and whatever is paused, put
\* back, removed or replayed (claimAttempt, deliverOne, settle).
THEOREM AcceptedUnlessLost ==
  Spec /\ [][\A h \in Handler : ~Loses(h)]_vars
    => [][\A h \in Handler :
            Send(h) => ~accepted[job[h].delivery][job[h].replays]]_vars
<1> DEFINE Lossless == \A h \in Handler : ~Loses(h)
           Once == \A h \in Handler :
                     Send(h) => ~accepted[job[h].delivery][job[h].replays]
<1>1. Init => SentOnce
  BY DEF Init, SentOnce, HotHeld, HotAlone, AcceptedIsOver, Hot, HasAcceptance, Sending
<1>2. IInv /\ SentOnce /\ [Next]_vars /\ [Lossless]_vars => SentOnce'
  <2> SUFFICES ASSUME IInv, SentOnce, [Next]_vars, [Lossless]_vars PROVE SentOnce'
    OBVIOUS
  <2>1. CASE Lossless
    BY <2>1, HotHeldStep, HotAloneStep, AcceptedStep DEF SentOnce
  <2>2. CASE UNCHANGED vars
    BY <2>2, SentOnceStutter
  <2> QED
    BY <2>1, <2>2
<1>3. IInv /\ SentOnce => [Once]_vars
  <2> SUFFICES ASSUME IInv, SentOnce, NEW h \in Handler, Send(h)
               PROVE  ~accepted[job[h].delivery][job[h].replays]
    OBVIOUS
  <2>1. pc[h] \in Working /\ pc[h] \in Sending
    BY DEF Send, Working, Sending
  <2>2. job[h].delivery \in Delivery /\ job[h].replays \in 0..MaxReplays
    BY <2>1, Hand DEF IInv
  <2> QED
    BY <2>1, <2>2 DEF SentOnce, AcceptedIsOver
<1> HIDE DEF Lossless, Once
<1>4. Spec /\ [][Lossless]_vars => [][Once]_vars
  BY <1>1, <1>2, <1>3, Inductive, PTL DEF Spec
<1> QED
  BY <1>4 DEF Lossless, Once
=============================================================================
