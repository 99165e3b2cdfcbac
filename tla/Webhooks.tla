------------------------------ MODULE Webhooks ------------------------------
(***************************************************************************)
(* Outbound webhooks: the fan-out of events to active subscriptions        *)
(* (migration 0151), the administrators' commands, and the minute sweep    *)
(* that claims deliveries, sends them and settles them under a lease       *)
(* (packages/db/src/webhooks.ts).                                          *)
(*                                                                         *)
(* Abstractions, all of data:                                              *)
(*  - `timer` is what is left of a lease or of the delay before the next   *)
(*    attempt, in ticks; `age` says whether a delivery may be replayed     *)
(*    (7 days), is merely kept, or is to be purged (30 days);              *)
(*  - a lease token is the handler that made it: a handler has one claim   *)
(*    in hand;                                                             *)
(*  - an administrator's command is the batch that carries it out; one     *)
(*    that its guard refuses changes nothing and is no step;               *)
(*  - what an endpoint answers is ok, again (retryable) or never;          *)
(*  - urls, bodies, signatures and signing keys are left out, and with     *)
(*    them the rotation of a key.                                          *)
(***************************************************************************)
EXTENDS Integers, Sequences, FiniteSetsExt

CONSTANTS
  Subscription,
  Event,
  Sweep,        \* executions of processDue
  Handler,      \* the concurrent handlers of the sweeps
  SweepOf,      \* [Handler -> Sweep]
  Batch,        \* webhookLimits.deliveryBatch
  MaxAttempts,  \* webhookLimits.maxAttempts
  RetryDelay,   \* webhookLimits.retryDelaySeconds, in ticks
  Lease,        \* webhookLimits.deliveryLeaseSeconds, in ticks
  MaxFaults,    \* bound: handlers that stop where they are
  MaxCommands,  \* bound: pauses, resumes and removals
  MaxReplays,   \* bound: replays of a delivery
  None          \* SQL NULL, and the absence of a row

Delivery == Subscription \X Event
Status == {"pending", "processing", "delivered", "failed"}
Age == {"replayable", "kept", "old"}
Row == [status : Status, cycle : 0..MaxAttempts, replays : 0..MaxReplays,
        timer : Nat, holder : Handler \cup {None}, age : Age]
Result == {"ok", "again", "never"}
Job == [delivery : Delivery, cycle : 0..MaxAttempts, replays : 0..MaxReplays,
        result : Result \cup {None}]

ASSUME WebhooksAssumption ==
  /\ IsFiniteSet(Handler) /\ SweepOf \in [Handler -> Sweep]
  /\ Batch \in Nat \ {0} /\ MaxAttempts \in Nat \ {0} /\ Lease \in Nat \ {0}
  /\ MaxFaults \in Nat /\ MaxCommands \in Nat /\ MaxReplays \in Nat
  /\ RetryDelay \in [1..(MaxAttempts - 1) -> Nat]
  /\ None \notin Handler /\ None \notin Row /\ None \notin Job
  /\ None \notin Result

VARIABLES
  sub,        \* where each subscription is
  row,        \* webhook_deliveries
  emitted,    \* events inserted into event_outbox
  phase,      \* where each sweep is
  due,        \* the candidates a sweep has left
  pc,         \* where each handler is
  job,        \* the delivery a handler has claimed, as it claimed it
  faults, commands,
  sends,      \* history: sends[d][r], requests sent by attempts of cycle r
  accepted    \* history: accepted[d][r], the endpoint answered one with 2xx

sweeps == <<phase, due>>
handlers == <<pc, job>>
bounds == <<faults, commands>>
history == <<sends, accepted>>
vars == <<sub, row, emitted, sweeps, handlers, bounds, history>>

Init ==
  /\ sub = [s \in Subscription |-> "none"]
  /\ row = [d \in Delivery |-> None]
  /\ emitted = {}
  /\ phase = [w \in Sweep |-> "idle"] /\ due = [w \in Sweep |-> {}]
  /\ pc = [h \in Handler |-> "take"] /\ job = [h \in Handler |-> None]
  /\ faults = 0 /\ commands = 0
  /\ sends = [d \in Delivery |-> [r \in 0..MaxReplays |-> 0]]
  /\ accepted = [d \in Delivery |-> [r \in 0..MaxReplays |-> FALSE]]

Is(d, status) == row[d] # None /\ row[d].status = status
Active(s) == sub[s] = "active"
Goto(h, place) == pc' = [pc EXCEPT ![h] = place]

\* LIMIT n: all of a small set, n of a larger one.
Limited(n, S) ==
  IF Cardinality(S) <= n THEN {S} ELSE kSubset(n, S)

----------------------------------------------------------------------------
(* Events and subscriptions *)

Create(s) ==
  /\ sub[s] = "none"
  /\ sub' = [sub EXCEPT ![s] = "active"]
  /\ UNCHANGED <<row, emitted, sweeps, handlers, bounds, history>>

\* The trigger webhook_outbox_fanout.
Emit(e) ==
  /\ e \notin emitted
  /\ emitted' = emitted \cup {e}
  /\ row' = [d \in Delivery |->
       IF d[2] = e /\ Active(d[1])
       THEN [status |-> "pending", cycle |-> 0, replays |-> 0, timer |-> 0,
             holder |-> None, age |-> "replayable"]
       ELSE row[d]]
  /\ UNCHANGED <<sub, sweeps, handlers, bounds, history>>

SetActive(s) ==
  /\ sub[s] \in {"active", "paused"}
  /\ commands < MaxCommands
  /\ \E to \in {"active", "paused"} \ {sub[s]} : sub' = [sub EXCEPT ![s] = to]
  /\ commands' = commands + 1
  /\ UNCHANGED <<row, emitted, sweeps, handlers, faults, history>>

\* Mutant of Unsettled: work in progress is left to its handler.
OnlyPending(d) == Is(d, "pending")
Unsettled(d) == Is(d, "pending") \/ Is(d, "processing")

Failed(r) == [r EXCEPT !.status = "failed", !.timer = 0, !.holder = None]

Remove(s) ==
  /\ sub[s] \in {"active", "paused"}
  /\ commands < MaxCommands
  /\ sub' = [sub EXCEPT ![s] = "deleted"]
  /\ row' = [d \in Delivery |->
               IF d[1] = s /\ Unsettled(d) THEN Failed(row[d]) ELSE row[d]]
  /\ commands' = commands + 1
  /\ UNCHANGED <<emitted, sweeps, handlers, faults, history>>

Replayed(r) == [r EXCEPT !.status = "pending", !.cycle = 0,
                         !.replays = @ + 1, !.timer = 0, !.holder = None]

Replay(d) ==
  /\ Is(d, "failed") \/ Is(d, "delivered")
  /\ Active(d[1])
  /\ row[d].age = "replayable"
  /\ row[d].replays < MaxReplays
  /\ row' = [row EXCEPT ![d] = Replayed(@)]
  /\ UNCHANGED <<sub, emitted, sweeps, handlers, bounds, history>>

----------------------------------------------------------------------------
(* A sweep: processDue *)

Expired(d) == row[d].timer = 0

\* Mutant of Abandoned: a last attempt is left to its handler.
NeverAbandoned(d) == FALSE

\* A last attempt whose lease is over.
Abandoned(d) ==
  Is(d, "processing") /\ Expired(d) /\ row[d].cycle >= MaxAttempts

Reap(w) ==
  /\ phase[w] = "idle"
  /\ \A h \in Handler : SweepOf[h] = w => pc[h] \in {"take", "stopped"}
  /\ \E D \in Limited(Batch, {d \in Delivery : Abandoned(d)}) :
       row' = [d \in Delivery |-> IF d \in D THEN Failed(row[d]) ELSE row[d]]
  /\ phase' = [phase EXCEPT ![w] = "select"]
  /\ pc' = [h \in Handler |-> IF SweepOf[h] = w THEN "take" ELSE pc[h]]
  /\ UNCHANGED <<sub, emitted, due, job, bounds, history>>

\* What the selection and the claim both ask for.
Claimable(d) ==
  /\ Active(d[1])
  /\ row[d] # None => row[d].cycle < MaxAttempts
  /\ Unsettled(d) /\ Expired(d)

Select(w) ==
  /\ phase[w] = "select"
  /\ \E D \in Limited(Batch, {d \in Delivery : Claimable(d)}) :
       due' = [due EXCEPT ![w] = D]
  /\ phase' = [phase EXCEPT ![w] = "run"]
  /\ UNCHANGED <<sub, row, emitted, handlers, bounds, history>>

\* Every handler has returned, or stopped.
EndSweep(w) ==
  /\ phase[w] = "run"
  /\ \/ due[w] = {} /\ \A h \in Handler :
                         SweepOf[h] = w => pc[h] \in {"take", "stopped"}
     \/ \A h \in Handler : SweepOf[h] = w => pc[h] = "stopped"
  /\ phase' = [phase EXCEPT ![w] = "idle"]
  /\ due' = [due EXCEPT ![w] = {}]
  /\ UNCHANGED <<sub, row, emitted, handlers, bounds, history>>

----------------------------------------------------------------------------
(* A handler *)

Claimed(r, h) == [r EXCEPT !.status = "processing", !.cycle = @ + 1,
                          !.timer = Lease, !.holder = h]

\* The next candidate is claimed, unless it is not to be had any more.
Claim(h) ==
  /\ pc[h] = "take"
  /\ phase[SweepOf[h]] = "run"
  /\ \E d \in due[SweepOf[h]] :
       /\ due' = [due EXCEPT ![SweepOf[h]] = @ \ {d}]
       /\ IF Claimable(d)
          THEN /\ row' = [row EXCEPT ![d] = Claimed(@, h)]
               /\ job' = [job EXCEPT ![h] =
                    [delivery |-> d, cycle |-> row[d].cycle + 1,
                     replays |-> row[d].replays, result |-> None]]
               /\ Goto(h, "look")
          ELSE UNCHANGED <<row, handlers>>
  /\ UNCHANGED <<sub, emitted, phase, bounds, history>>

\* privateSubscription: gone or without a usable key, paused, or fine; or the
\* statement fails, which counts as an error of the network.
Look(h) ==
  /\ pc[h] = "look"
  /\ LET s == job[h].delivery[1] IN
     \/ /\ \E result \in {"again", "never"} :
             /\ result = "never" => sub[s] # "paused"
             /\ job' = [job EXCEPT ![h].result = result]
        /\ Goto(h, "settle")
     \/ /\ sub[s] = "paused"
        /\ Goto(h, "putback") /\ UNCHANGED job
     \/ /\ sub[s] = "active"
        /\ Goto(h, "send") /\ UNCHANGED job
  /\ UNCHANGED <<sub, row, emitted, sweeps, bounds, history>>

\* Mutant of Fenced: any live lease will do.
FencedByLease(h) ==
  Is(job[h].delivery, "processing") /\ ~Expired(job[h].delivery)

\* status = 'processing' AND lease_token = ? AND lease_expires_at > ?
Fenced(h) ==
  LET d == job[h].delivery IN
  Is(d, "processing") /\ row[d].holder = h /\ ~Expired(d)

Returned(r) == [r EXCEPT !.status = "pending", !.cycle = @ - 1, !.timer = 0,
                         !.holder = None]

\* A pause after the claim is not an attempt, unless the statement that says
\* so fails, before or after it is carried out.
PutBack(h) ==
  /\ pc[h] = "putback"
  /\ LET d == job[h].delivery
         returned == IF Fenced(h) THEN [row EXCEPT ![d] = Returned(@)] ELSE row
     IN
     \/ /\ row' = returned
        /\ Goto(h, "take")
        /\ job' = [job EXCEPT ![h] = None]
     \/ /\ row' \in {row, returned}
        /\ Goto(h, "settle")
        /\ job' = [job EXCEPT ![h].result = "again"]
  /\ UNCHANGED <<sub, emitted, sweeps, bounds, history>>

\* The request and its answer, or the deadline.
Send(h) ==
  /\ pc[h] = "send"
  /\ \E result \in Result :
       /\ job' = [job EXCEPT ![h].result = result]
       /\ accepted' = [accepted EXCEPT ![job[h].delivery][job[h].replays] =
                         @ \/ result = "ok"]
  /\ sends' = [sends EXCEPT ![job[h].delivery][job[h].replays] = @ + 1]
  /\ Goto(h, "settle")
  /\ UNCHANGED <<sub, row, emitted, sweeps, bounds>>

Retries(h) == job[h].result = "again" /\ job[h].cycle < MaxAttempts

Outcome(r, h) ==
  IF job[h].result = "ok"
  THEN [r EXCEPT !.status = "delivered", !.timer = 0, !.holder = None]
  ELSE IF Retries(h)
  THEN [r EXCEPT !.status = "pending", !.timer = RetryDelay[job[h].cycle],
                 !.holder = None]
  ELSE Failed(r)

Settle(h) ==
  /\ pc[h] = "settle"
  /\ LET d == job[h].delivery IN
     row' = IF Fenced(h) THEN [row EXCEPT ![d] = Outcome(@, h)] ELSE row
  /\ Goto(h, "take")
  /\ job' = [job EXCEPT ![h] = None]
  /\ UNCHANGED <<sub, emitted, sweeps, bounds, history>>

\* The instance is gone, or a statement of the handler failed.
Stop(h) ==
  /\ faults < MaxFaults
  /\ phase[SweepOf[h]] = "run" /\ pc[h] # "stopped"
  /\ faults' = faults + 1
  /\ Goto(h, "stopped")
  /\ job' = [job EXCEPT ![h] = None]
  /\ UNCHANGED <<sub, row, emitted, sweeps, commands, history>>

----------------------------------------------------------------------------
(* Time *)

Tick ==
  /\ \E d \in Delivery : row[d] # None /\ ~Expired(d)
  /\ row' = [d \in Delivery |->
               IF row[d] # None /\ ~Expired(d)
               THEN [row[d] EXCEPT !.timer = @ - 1] ELSE row[d]]
  /\ UNCHANGED <<sub, emitted, sweeps, handlers, bounds, history>>

\* Days pass for a delivery.  No handler lasts as long.
GrowOld(d) ==
  /\ row[d] # None /\ row[d].age # "old" /\ Expired(d)
  /\ \A h \in Handler : pc[h] \in {"take", "stopped"}
  /\ row' = [row EXCEPT ![d].age = IF @ = "replayable" THEN "kept" ELSE "old"]
  /\ UNCHANGED <<sub, emitted, sweeps, handlers, bounds, history>>

\* purge
Purge ==
  /\ \E D \in Limited(Batch, {d \in Delivery :
       /\ row[d] # None /\ row[d].age = "old"
       /\ Is(d, "processing") => Expired(d)}) :
       /\ D # {}
       /\ row' = [d \in Delivery |-> IF d \in D THEN None ELSE row[d]]
  /\ UNCHANGED <<sub, emitted, sweeps, handlers, bounds, history>>

----------------------------------------------------------------------------
Command(s) == Create(s) \/ SetActive(s) \/ Remove(s)
SweepStep(w) == Reap(w) \/ Select(w) \/ EndSweep(w)
Step(h) == Claim(h) \/ Look(h) \/ PutBack(h) \/ Send(h) \/ Settle(h)

Next ==
  \/ \E s \in Subscription : Command(s)
  \/ \E e \in Event : Emit(e)
  \/ \E d \in Delivery : Replay(d) \/ GrowOld(d)
  \/ \E w \in Sweep : SweepStep(w)
  \/ \E h \in Handler : Step(h) \/ Stop(h)
  \/ Tick \/ Purge

Spec == Init /\ [][Next]_vars

\* The cron keeps starting sweeps, handlers do not hang (every request has a
\* deadline) and time passes.
Fairness ==
  /\ \A w \in Sweep : WF_vars(SweepStep(w))
  /\ \A h \in Handler : WF_vars(Step(h))
  /\ WF_vars(Tick)
FairSpec == Spec /\ Fairness

----------------------------------------------------------------------------
(* What must hold *)

TypeOK ==
  /\ sub \in [Subscription -> {"none", "active", "paused", "deleted"}]
  /\ row \in [Delivery -> Row \cup {None}]
  /\ emitted \subseteq Event
  /\ phase \in [Sweep -> {"idle", "select", "run"}]
  /\ due \in [Sweep -> SUBSET Delivery]
  /\ pc \in [Handler -> {"take", "look", "putback", "send", "settle", "stopped"}]
  /\ job \in [Handler -> Job \cup {None}]
  /\ faults \in Nat /\ commands \in Nat
  /\ sends \in [Delivery -> [0..MaxReplays -> Nat]]
  /\ accepted \in [Delivery -> [0..MaxReplays -> BOOLEAN]]

\* An endpoint gets at most five requests for a delivery and each of its
\* replays, whatever is paused, taken over or settled late in between
\* (docs/integrations.md: each delivery has five attempts; a pause observed
\* before sending does not consume its retry budget).
BudgetKept ==
  \A d \in Delivery, r \in 0..MaxReplays : sends[d][r] <= MaxAttempts

\* A removed subscription has no work left, and gets none
\* (docs/integrations.md: deleting an endpoint stops pending work).
RemovedIsQuiet ==
  \A d \in Delivery : sub[d[1]] = "deleted" =>
    ~Is(d, "pending") /\ ~Is(d, "processing")

\* What the log calls delivered was accepted by the endpoint in that very
\* cycle, not in the one before a replay (webhooks.test.ts: fences a late
\* response after lease takeover).
DeliveredMeansAccepted ==
  \A d \in Delivery : Is(d, "delivered") => accepted[d][row[d].replays]

\* While the lease of an attempt runs, the delivery is not taken away from
\* its handler, unless its subscription is removed.
LeaseRespected ==
  [][\A d \in Delivery :
       Is(d, "processing") /\ ~Expired(d)
       => \/ sub'[d[1]] = "deleted"
          \/ /\ row'[d].status = "processing"
             /\ row'[d].holder = row[d].holder
             /\ row'[d].cycle = row[d].cycle
          \/ pc[row[d].holder] \in {"putback", "settle"}
             /\ job[row[d].holder].delivery = d]_vars

\* Every delivery of a subscription that is not paused is settled in the end,
\* or purged, whatever stops, lingers or is paused for a while
\* (docs/integrations.md: resume permits pending work again).
Settled(d) ==
  \/ sub[d[1]] = "paused"
  \/ ~Is(d, "pending") /\ ~Is(d, "processing")
EventuallySettled == <>[](\A d \in Delivery : Settled(d))
=============================================================================
