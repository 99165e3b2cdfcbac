------------------------------- MODULE Outbox -------------------------------
(***************************************************************************)
(* The event outbox of packages/db/src/outbox.ts: rows of event_outbox,    *)
(* one receipt per (subscriber, event), and any number of drains that scan *)
(* for a due event, claim it, call the subscriber and settle the receipt.  *)
(*                                                                         *)
(* Abstractions, all of data and none of control:                          *)
(*  - an event is a model value; Prior[e] are the rows of its aggregate    *)
(*    with a lower aggregate_sequence;                                     *)
(*  - the clock is a countdown per receipt: the time until next_attempt_at *)
(*    while it is pending, what is left of attempt_lease_expires_at while  *)
(*    it is processing; "due" and "expired" are both a countdown at zero;  *)
(*  - active_attempt_id is the drain that made it: a drain has at most one *)
(*    live attempt, always its latest, so the drain names the attempt;     *)
(*  - the RETURNING attempt_count a drain keeps is the receipt's own count *)
(*    as long as the attempt is the active one, and unused when it is not. *)
(* event_outbox.attempt_count and last_error, which no guard reads, are    *)
(* left out, and so are the read-only pages (listActivity, listDeliveries).*)
(***************************************************************************)
EXTENDS Integers, Sequences, FiniteSets

CONSTANTS
  Subscriber,   \* subscriber ids that any deployment registers
  Event,        \* event ids
  Prior,        \* [Event -> SUBSET Event]: earlier events of the aggregate
  Drain,        \* processes that may run a drain
  Deployment,   \* the configurations a drain may run under:
                \*   [subscribers : sequence of ids, maxAttempts : Nat \ {0}]
  RetryDelay,   \* [1..n -> Nat \ {0}]: retryDelaySeconds, in ticks
  Lease,        \* attemptLeaseSeconds, in ticks
  DrainLimit,   \* drain(limit)
  MaxFaults,    \* bound: crashes, and claims or settlements that throw
  MaxRetries,   \* bound: operator retries
  None          \* SQL NULL

Deployments ==
  [subscribers : Seq(Subscriber) \ {<<>>}, maxAttempts : Nat \ {0}]

Registered(dep) == {dep.subscribers[i] : i \in DOMAIN dep.subscribers}

ASSUME OutboxAssumption ==
  /\ Prior \in [Event -> SUBSET Event]
  /\ \A e \in Event : \A p \in Prior[e] : p # e /\ Prior[p] \subseteq Prior[e]
  /\ Deployment \subseteq Deployments
  /\ \A dep \in Deployment : \A n \in 1..(dep.maxAttempts - 1) :
        n \in DOMAIN RetryDelay /\ RetryDelay[n] \in Nat \ {0}
  /\ Lease \in Nat \ {0}
  /\ DrainLimit \in Nat \ {0}
  /\ MaxFaults \in Nat /\ MaxRetries \in Nat
  /\ None \notin Subscriber /\ None \notin Event
  /\ None \notin Drain /\ None \notin Deployment

VARIABLES
  enqueued,   \* the rows of event_outbox
  published,  \* those with published_at set
  receipt,    \* receipt[s][e]: the row of outbox_delivery_receipts, if any
  pc,         \* where each drain is: idle, scan, claim, call (the handler
              \* runs), done (its effect is in place, nothing settled yet)
  cursor,     \* its deployment, subscriberIndex, offset and summary.examined
  job,        \* the subscriber and event it selected
  landed,     \* <<s, e>>: the handler's effect is in place
  late,       \* <<s, e>>: a handler runs on although its drain gave it up
  faults, retries

vars == <<enqueued, published, receipt, pc, cursor, job, landed, late,
          faults, retries>>

rows == <<enqueued, published, receipt>>
bounds == <<faults, retries>>

----------------------------------------------------------------------------
(* State *)

Status == {"none", "pending", "processing", "delivered", "failed"}
Receipt == [status : Status, attempts : Nat, owner : Drain \cup {None},
            timer : Nat]
Absent == [status |-> "none", attempts |-> 0, owner |-> None, timer |-> 0]

Cursor == [deployment : Deployment \cup {None}, next : Nat, offset : Nat,
           examined : Nat]
NoCursor == [deployment |-> None, next |-> 0, offset |-> 0, examined |-> 0]
Job == [sub : Subscriber \cup {None}, event : Event \cup {None}]
NoJob == [sub |-> None, event |-> None]

Init ==
  /\ enqueued = {} /\ published = {}
  /\ receipt = [s \in Subscriber |-> [e \in Event |-> Absent]]
  /\ pc = [d \in Drain |-> "idle"]
  /\ cursor = [d \in Drain |-> NoCursor]
  /\ job = [d \in Drain |-> NoJob]
  /\ landed = {} /\ late = {}
  /\ faults = 0 /\ retries = 0

----------------------------------------------------------------------------
(* What the queries of candidate and claim ask of the rows *)

\* Mutants of PriorsDone: a prior that was given up, or is merely being worked
\* on, no longer holds the aggregate back.
PriorsDoneOrFailed(s, e) ==
  \A p \in Prior[e] : p \in published \/ receipt[s][p].status \in {"delivered", "failed"}
PriorsClaimed(s, e) ==
  \A p \in Prior[e] : p \in published \/ receipt[s][p].status \in {"delivered", "processing"}

\* NOT EXISTS (SELECT 1 FROM event_outbox prior ...): nothing of the
\* aggregate before e is both unpublished and undelivered to s.
PriorsDone(s, e) ==
  \A p \in Prior[e] : p \in published \/ receipt[s][p].status = "delivered"

\* Mutant of Due: a lease that ran out is never taken over.
DueWhilePending(s, e) ==
  receipt[s][e].status = "pending" /\ receipt[s][e].timer = 0

\* pending and due, or processing on a lease that ran out
Due(s, e) ==
  /\ receipt[s][e].status \in {"pending", "processing"}
  /\ receipt[s][e].timer = 0

Candidates(s) ==
  {e \in enqueued \ published :
     (receipt[s][e].status = "none" \/ Due(s, e)) /\ PriorsDone(s, e)}

\* Mutant of Claimable: the claim counts attempts but does not look at them.
ClaimableOverBudget(s, e, maxAttempts) ==
  /\ receipt[s][e].status = "none" \/ Due(s, e)
  /\ e \notin published
  /\ PriorsDone(s, e)

\* The second statement of the claim finds its row.
Claimable(s, e, maxAttempts) ==
  /\ receipt[s][e].status = "none" \/ Due(s, e)
  /\ receipt[s][e].attempts < maxAttempts
  /\ e \notin published
  /\ PriorsDone(s, e)

\* The third statement finds its row.
Exhausted(s, e, maxAttempts) ==
  Due(s, e) /\ receipt[s][e].attempts >= maxAttempts

----------------------------------------------------------------------------
(* A drain *)

Subs(d) == cursor[d].deployment.subscribers
Scanned(d) == Subs(d)[((cursor[d].next + cursor[d].offset) % Len(Subs(d))) + 1]
MaxAttempts(d) == cursor[d].deployment.maxAttempts
\* Mutant of Owns: the settlement is not fenced by the attempt id.
OwnsAny(d) == receipt[job[d].sub][job[d].event].status = "processing"
Owns(d) ==
  LET r == receipt[job[d].sub][job[d].event]
  IN  r.status = "processing" /\ r.owner = d

StartDrain(d) ==
  /\ pc[d] = "idle"
  /\ \E dep \in Deployment :
       cursor' = [cursor EXCEPT ![d] = [NoCursor EXCEPT !.deployment = dep]]
  /\ pc' = [pc EXCEPT ![d] = "scan"]
  /\ UNCHANGED <<rows, job, landed, late, bounds>>

Scanning(d) ==
  /\ pc[d] = "scan"
  /\ cursor[d].examined < DrainLimit
  /\ cursor[d].offset < Len(Subs(d))

\* Which aggregate's candidate is the oldest is left open; within an
\* aggregate there is at most one.
ScanHit(d) ==
  /\ Scanning(d)
  /\ \E e \in Candidates(Scanned(d)) :
       job' = [job EXCEPT ![d] = [sub |-> Scanned(d), event |-> e]]
  /\ pc' = [pc EXCEPT ![d] = "claim"]
  /\ cursor' = [cursor EXCEPT ![d] =
                  [deployment |-> @.deployment,
                   next |-> (@.next + @.offset + 1) % Len(Subs(d)),
                   offset |-> 0, examined |-> @.examined + 1]]
  /\ UNCHANGED <<rows, landed, late, bounds>>

ScanMiss(d) ==
  /\ Scanning(d)
  /\ Candidates(Scanned(d)) = {}
  /\ cursor' = [cursor EXCEPT ![d].offset = @ + 1]
  /\ UNCHANGED <<rows, pc, job, landed, late, bounds>>

\* The drain is over: its process answers, is cut off, or throws.
Stop(d) ==
  /\ pc' = [pc EXCEPT ![d] = "idle"]
  /\ cursor' = [cursor EXCEPT ![d] = NoCursor]
  /\ job' = [job EXCEPT ![d] = NoJob]

\* The loop goes on with the next round of the registry.
Resume(d) ==
  /\ pc' = [pc EXCEPT ![d] = "scan"]
  /\ job' = [job EXCEPT ![d] = NoJob]
  /\ UNCHANGED cursor

EndDrain(d) ==
  /\ pc[d] = "scan"
  /\ ~Scanning(d)
  /\ Stop(d)
  /\ UNCHANGED <<rows, landed, late, bounds>>

----------------------------------------------------------------------------
(* The claim: one atomic batch *)

ClaimAttempt(d) ==
  LET s == job[d].sub  e == job[d].event IN
  /\ pc[d] = "claim"
  /\ Claimable(s, e, MaxAttempts(d))
  /\ receipt' = [receipt EXCEPT ![s][e] =
                   [status |-> "processing", attempts |-> @.attempts + 1,
                    owner |-> d, timer |-> Lease]]
  /\ pc' = [pc EXCEPT ![d] = "call"]
  /\ UNCHANGED <<enqueued, published, cursor, job, landed, late, bounds>>

\* The final attempt was abandoned: its lease ran out and no budget is left.
ClaimExhausted(d) ==
  LET s == job[d].sub  e == job[d].event IN
  /\ pc[d] = "claim"
  /\ Exhausted(s, e, MaxAttempts(d))
  /\ receipt[s][e].status = "processing"
  /\ receipt' = [receipt EXCEPT ![s][e].status = "failed",
                                ![s][e].owner = None]
  /\ Resume(d)
  /\ UNCHANGED <<enqueued, published, landed, late, bounds>>

\* A pending receipt over the budget keeps its next_attempt_at in that
\* statement, and the table's CHECK wants none on a failed row: the batch is
\* rolled back and the tick ends as interrupted.
ClaimRefused(d) ==
  LET s == job[d].sub  e == job[d].event IN
  /\ pc[d] = "claim"
  /\ Exhausted(s, e, MaxAttempts(d))
  /\ receipt[s][e].status = "pending"
  /\ Stop(d)
  /\ UNCHANGED <<rows, landed, late, bounds>>

\* Another drain was there first: no statement finds its row.
ClaimContended(d) ==
  LET s == job[d].sub  e == job[d].event IN
  /\ pc[d] = "claim"
  /\ ~Claimable(s, e, MaxAttempts(d))
  /\ ~Exhausted(s, e, MaxAttempts(d))
  /\ Resume(d)
  /\ UNCHANGED <<rows, landed, late, bounds>>

----------------------------------------------------------------------------
(* The handler and its settlement *)

\* The handler's own effect, keyed by the event: a later attempt repeats it.
Land(d) ==
  /\ pc[d] = "call"
  /\ landed' = landed \cup {<<job[d].sub, job[d].event>>}
  /\ pc' = [pc EXCEPT ![d] = "done"]
  /\ UNCHANGED <<rows, cursor, job, late, bounds>>

\* A handler whose drain timed out or died may still finish.
LateLand(s, e) ==
  /\ <<s, e>> \in late
  /\ landed' = landed \cup {<<s, e>>}
  /\ late' = late \ {<<s, e>>}
  /\ UNCHANGED <<rows, pc, cursor, job, bounds>>

\* Mutant of RegistryDone: no acknowledgement is asked for.
RegistryIgnored(d, e) == TRUE

\* The second statement of finalizeDelivered counts the receipts the first one
\* left behind.
RegistryDone(d, e) ==
  \A r \in Registered(cursor[d].deployment) : receipt'[r][e].status = "delivered"

\* The handler resolved.  The second statement runs whether or not the first
\* one found the attempt still active.
SettleDelivered(d) ==
  LET s == job[d].sub  e == job[d].event IN
  /\ pc[d] = "done"
  /\ receipt' = IF Owns(d)
                THEN [receipt EXCEPT ![s][e].status = "delivered",
                                     ![s][e].owner = None, ![s][e].timer = 0]
                ELSE receipt
  /\ published' = IF RegistryDone(d, e) THEN published \cup {e} ELSE published
  /\ Resume(d)
  /\ UNCHANGED <<enqueued, landed, late, bounds>>

\* The attempt of d is given up; its handler may run on unless it is done.
Abandon(d) ==
  \/ UNCHANGED late
  \/ pc[d] = "call" /\ late' = late \cup {<<job[d].sub, job[d].event>>}

\* The handler rejected (perhaps after its effect), ran out of time, or was
\* never called because the payload does not parse.
SettleFailure(d) ==
  LET s == job[d].sub  e == job[d].event  n == receipt[s][e].attempts IN
  /\ pc[d] \in {"call", "done"}
  /\ receipt' =
       IF ~Owns(d) THEN receipt
       ELSE IF n >= MaxAttempts(d)
       THEN [receipt EXCEPT ![s][e].status = "failed",
                            ![s][e].owner = None, ![s][e].timer = 0]
       ELSE [receipt EXCEPT ![s][e].status = "pending",
                            ![s][e].owner = None, ![s][e].timer = RetryDelay[n]]
  /\ Abandon(d)
  /\ Resume(d)
  /\ UNCHANGED <<enqueued, published, landed, bounds>>

\* The process dies, or a database call throws and the drain with it.  A
\* claim whose batch committed but whose answer was lost is ClaimAttempt
\* followed by this.
Crash(d) ==
  /\ pc[d] # "idle"
  /\ faults < MaxFaults
  /\ faults' = faults + 1
  /\ Abandon(d)
  /\ Stop(d)
  /\ UNCHANGED <<rows, landed, retries>>

----------------------------------------------------------------------------
(* The producer, the operator and the clock *)

\* aggregate_sequence is max + 1: an event follows all its priors.
Enqueue(e) ==
  /\ e \notin enqueued
  /\ Prior[e] \subseteq enqueued
  /\ enqueued' = enqueued \cup {e}
  /\ UNCHANGED <<published, receipt, pc, cursor, job, landed, late, bounds>>

RetryFailed(s, e) ==
  /\ retries < MaxRetries
  /\ \E dep \in Deployment : s \in Registered(dep)
  /\ receipt[s][e].status = "failed"
  /\ receipt' = [receipt EXCEPT ![s][e] =
                   [status |-> "pending", attempts |-> 0, owner |-> None,
                    timer |-> 0]]
  /\ retries' = retries + 1
  /\ UNCHANGED <<enqueued, published, pc, cursor, job, landed, late, faults>>

Tick ==
  /\ \E s \in Subscriber, e \in Event : receipt[s][e].timer > 0
  /\ receipt' = [s \in Subscriber |-> [e \in Event |->
                   [receipt[s][e] EXCEPT !.timer = IF @ > 0 THEN @ - 1 ELSE 0]]]
  /\ UNCHANGED <<enqueued, published, pc, cursor, job, landed, late, bounds>>

----------------------------------------------------------------------------
Claim(d) ==
  ClaimAttempt(d) \/ ClaimExhausted(d) \/ ClaimRefused(d) \/ ClaimContended(d)
Settle(d) == SettleDelivered(d) \/ SettleFailure(d)

\* What the process of a drain does by itself.
Step(d) ==
  \/ StartDrain(d) \/ ScanHit(d) \/ ScanMiss(d) \/ EndDrain(d)
  \/ Claim(d) \/ Settle(d)

Next ==
  \/ \E d \in Drain : Step(d) \/ Land(d) \/ Crash(d)
  \/ \E e \in Event : Enqueue(e)
  \/ \E s \in Subscriber, e \in Event : LateLand(s, e) \/ RetryFailed(s, e)
  \/ Tick

Spec == Init /\ [][Next]_vars

\* The cron triggers keep starting drains, a started drain runs on (a handler
\* that hangs is cut off by the timeout), and time passes.
Fairness == WF_vars(Tick) /\ \A d \in Drain : WF_vars(Step(d))
FairSpec == Spec /\ Fairness

----------------------------------------------------------------------------
(* What must hold *)

\* Types, and what each place of a drain has in hand: a deployment once it
\* runs, a registered subscriber and an enqueued event once it selected.
TypeOK ==
  /\ enqueued \subseteq Event
  /\ published \subseteq enqueued
  /\ receipt \in [Subscriber -> [Event -> Receipt]]
  /\ pc \in [Drain -> {"idle", "scan", "claim", "call", "done"}]
  /\ cursor \in [Drain -> Cursor]
  /\ job \in [Drain -> Job]
  /\ landed \subseteq Subscriber \X enqueued
  /\ late \subseteq Subscriber \X enqueued
  /\ faults \in Nat /\ retries \in Nat
  /\ \A d \in Drain : pc[d] # "idle" => cursor[d].deployment \in Deployment
  /\ \A d \in Drain : pc[d] \in {"claim", "call", "done"} =>
        job[d].sub \in Subscriber /\ job[d].event \in enqueued

\* No handler's effect overtakes an earlier event of the aggregate that is
\* neither acknowledged for that subscriber nor published: not one a second
\* drain claimed, not one that failed for good, not through a handler that
\* finishes after its drain gave it up (outbox.ts, candidate and claim).
EffectsInOrder ==
  \A s \in Subscriber, e \in Event : <<s, e>> \in landed =>
    \A p \in Prior[e] : p \in published \/ receipt[s][p].status = "delivered"

\* published_at retires an event for good, so it is set only when every
\* subscriber of one whole registry has both acknowledged the event and has
\* its effect in place (outbox.ts, finalizeDelivered).
PublishedMeansApplied ==
  \A e \in published : \E dep \in Deployment : \A s \in Registered(dep) :
    receipt[s][e].status = "delivered" /\ <<s, e>> \in landed

\* A receipt is given up exactly when some deployment's budget is spent, and
\* no crash, takeover or lost answer pushes an attempt beyond every budget
\* (outbox.ts, claim: attempt_count against maxAttempts).
BudgetKept ==
  \A s \in Subscriber, e \in Event : LET r == receipt[s][e] IN
    /\ r.attempts > 0 => \E dep \in Deployment : r.attempts <= dep.maxAttempts
    /\ r.status = "failed" => \E dep \in Deployment : r.attempts >= dep.maxAttempts

\* While the lease of an attempt runs, only the drain that made it ends it: no
\* other drain takes the receipt over, and no stale drain settles it
\* (outbox.test.ts: permits only one live owner for a subscriber delivery).
LeaseRespected ==
  [][\A s \in Subscriber, e \in Event : LET r == receipt[s][e] IN
       /\ r.status = "processing" /\ r.timer > 0
       /\ receipt'[s][e].status # "processing" \/ receipt'[s][e].owner # r.owner
       => \E d \in Drain : /\ d = r.owner /\ pc[d] \in {"call", "done"}
                           /\ job[d] = [sub |-> s, event |-> e]
                           /\ pc'[d] = "scan"]_vars

\* In the end nothing is left hanging: an event is published, or acknowledged,
\* or given up, or waits behind one of its aggregate that was given up, for
\* every subscriber.  Whatever crashes, hangs or is taken over (outbox.ts,
\* drain: every undelivered event is still queued for the next tick).  Only a
\* receipt whose attempts suffice for one release and not for another may wait
\* for ever: a claim of the one is refused, and the other need not run again.
Spent(s, e) ==
  /\ receipt[s][e].status = "pending"
  /\ \E D, F \in Deployment :
       D.maxAttempts <= receipt[s][e].attempts /\ receipt[s][e].attempts < F.maxAttempts
Settled(s, e) ==
  \/ e \in published
  \/ receipt[s][e].status \in {"delivered", "failed"}
  \/ \E p \in Prior[e] : receipt[s][p].status = "failed"
  \/ \E p \in Prior[e] \cup {e} : Spent(s, p)
EventuallySettled ==
  <>[](\A s \in Subscriber : \A e \in enqueued : Settled(s, e))

\* The outbox delivers in order, at least once, to a whole registry.
Promise == INSTANCE OrderedDelivery WITH
  appended <- enqueued,
  applied <- landed,
  acknowledged <- {k \in Subscriber \X Event : receipt[k[1]][k[2]].status = "delivered"},
  retired <- published,
  Registry <- {Registered(dep) : dep \in Deployment}
PromiseKept == Promise!Spec
=============================================================================
