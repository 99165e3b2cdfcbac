----------------------------- MODULE EmailQueue -----------------------------
(***************************************************************************)
(* Outgoing mail: the delivery log email_log (packages/db/src/email-log.ts),*)
(* the producers that hand a logged message to the queue, and the          *)
(* invocations of processQueuedEmail that take it, call the provider under *)
(* a lease and record the outcome (packages/mailer/src/index.ts).          *)
(*                                                                         *)
(* Abstractions:                                                           *)
(*  - a message is its id in email_log; addresses, templates, attachments  *)
(*    and suppression lists are left out: what they can do to a message is *)
(*    the terminal refusal of Answer; a message is accepted or refused for *)
(*    all its recipients;                                                  *)
(*  - an attempt id is the consumer that made it, for a consumer has one   *)
(*    attempt in hand; the provider's message id is the attempt number;    *)
(*  - leases and provider deadlines are counted in ticks, and a claim is   *)
(*    answered, and its call begun, within the tick;                       *)
(*  - the queue (external) offers a job again until it is acknowledged, to *)
(*    any number of consumers at once, and its delays are arbitrary.       *)
(***************************************************************************)
EXTENDS Integers, FiniteSets

CONSTANTS
  Delivery,     \* ids of email_log
  Consumer,     \* concurrent invocations of processQueuedEmail
  MaxAttempts,  \* EMAIL_RETRY_POLICY.maxAttempts
  Timeout,      \* EMAIL_RETRY_POLICY.providerTimeoutMs, in ticks
  Lease,        \* EMAIL_RETRY_POLICY.attemptLeaseSeconds, in ticks
  MaxHandoffs,  \* bound: times one message is handed to the queue
  MaxFaults,    \* bound: lost hand-offs, and invocations that stop
  None          \* SQL NULL, and the absence of a row

\* processQueuedEmail refuses a lease that does not exceed the deadline.
ASSUME EmailQueueAssumption ==
  /\ MaxAttempts \in Nat \ {0} /\ MaxHandoffs \in Nat /\ MaxFaults \in Nat
  /\ Timeout \in Nat \ {0} /\ Lease \in Nat /\ Timeout < Lease
  /\ None \notin Consumer

\* Bounces and complaints are EmailFeedback's.
Status == {"queued", "sent", "failed"}
\* The count is compared with MaxAttempts only, so it may stop one above it.
Row == [status : Status, attempts : 0..(MaxAttempts + 1),
        holder : Consumer \cup {None}, lease : 0..Lease, id : 0..MaxAttempts]
Job == Delivery \X (1..MaxHandoffs)
Accepted == Delivery \X (1..MaxAttempts)

ASSUME RowsAssumption == None \notin Row /\ None \notin Job

VARIABLES
  log,      \* email_log
  hand,     \* where the producer of each message is
  handed,   \* jobs made for it
  queue,    \* jobs not acknowledged
  pc,       \* where each consumer is
  job,      \* the job it has taken
  attempt,  \* the provider attempt it has claimed
  timer,    \* what is left of the provider's deadline
  accepted, \* calls the provider has accepted
  abandoned, \* calls nobody waits for any more, and that were not answered
  faults,
  calls,    \* history: provider calls for each message
  told,     \* history: messages whose sender was told the queue is unavailable
  unsaid    \* history: messages the provider accepted and the log missed

producer == <<hand, handed>>
consumer == <<pc, job, attempt, timer>>
provider == <<accepted, abandoned>>
history == <<calls, told, unsaid>>
vars == <<log, producer, queue, consumer, provider, faults, history>>

Init ==
  /\ log = [d \in Delivery |-> None]
  /\ hand = [d \in Delivery |-> "none"] /\ handed = [d \in Delivery |-> 0]
  /\ queue = {}
  /\ pc = [c \in Consumer |-> "idle"] /\ job = [c \in Consumer |-> None]
  /\ attempt = [c \in Consumer |-> 0] /\ timer = [c \in Consumer |-> 0]
  /\ accepted = {} /\ abandoned = {}
  /\ faults = 0
  /\ calls = [d \in Delivery |-> 0] /\ told = {} /\ unsaid = {}

Is(d, status) == log[d] # None /\ log[d].status = status
Goto(c, place) == pc' = [pc EXCEPT ![c] = place]
Of(c) == job[c][1]
Receipt(c) == <<Of(c), attempt[c]>>

----------------------------------------------------------------------------
(* Producers *)

\* createQueued, or the transaction that persists a message before its
\* hand-off (enqueueExisting).
Record(d) ==
  /\ hand[d] = "none"
  /\ log' = [log EXCEPT ![d] = [status |-> "queued", attempts |-> 0,
                                holder |-> None, lease |-> 0, id |-> 0]]
  /\ \E origin \in {"fresh", "persisted"} : hand' = [hand EXCEPT ![d] = origin]
  /\ UNCHANGED <<handed, queue, consumer, provider, faults, history>>

\* queue.send returns, or throws whether or not the job was taken in.  A
\* persisted message may be handed over again at any time.
HandOff(d) ==
  /\ hand[d] \in {"fresh", "persisted"} /\ handed[d] < MaxHandoffs
  /\ handed' = [handed EXCEPT ![d] = @ + 1]
  /\ LET more == queue \cup {<<d, handed[d] + 1>>}
         after(place) == IF hand[d] = "persisted" THEN hand
                         ELSE [hand EXCEPT ![d] = place]
     IN
     \/ /\ queue' = more
        /\ hand' = after("done")
        /\ UNCHANGED faults
     \/ /\ faults < MaxFaults
        /\ faults' = faults + 1
        /\ queue' \in {queue, more}
        /\ hand' = after("thrown")
  /\ UNCHANGED <<log, consumer, provider, history>>

\* The sender of a fresh message is gone, and nobody else will hand it over.
Abandon(d) ==
  /\ hand[d] \in {"fresh", "thrown"}
  /\ faults < MaxFaults
  /\ faults' = faults + 1
  /\ hand' = [hand EXCEPT ![d] = "gone"]
  /\ UNCHANGED <<log, handed, queue, consumer, provider, history>>

\* Mutant of Untouched: a message in a consumer's hands is failed as well.
StillQueued(d) == Is(d, "queued")

\* status = 'queued' AND provider IS NULL AND active_attempt_id IS NULL
Untouched(d) ==
  Is(d, "queued") /\ log[d].attempts = 0 /\ log[d].holder = None

\* markQueueFailed; where it matches nothing the sender gets another error.
QueueFailed(d) ==
  /\ hand[d] = "thrown"
  /\ hand' = [hand EXCEPT ![d] = "done"]
  /\ IF Untouched(d)
     THEN /\ log' = [log EXCEPT ![d].status = "failed"]
          /\ told' = told \cup {d}
     ELSE UNCHANGED <<log, told>>
  /\ UNCHANGED <<handed, queue, consumer, provider, faults, calls, unsaid>>

----------------------------------------------------------------------------
(* A consumer *)

Take(c, j) ==
  /\ pc[c] = "idle" /\ j \in queue
  /\ job' = [job EXCEPT ![c] = j]
  /\ Goto(c, "claim")
  /\ UNCHANGED <<log, producer, queue, attempt, timer, provider, faults, history>>

\* Mutants of Claimable: a lease that ran out is not taken over; the lease, or
\* the status, is not asked for.
ClaimableIfFree(d) == Is(d, "queued") /\ log[d].holder = None
ClaimableAnyTime(d) == Is(d, "queued")
ClaimableAnyStatus(d) ==
  log[d] # None /\ (log[d].holder = None \/ log[d].lease = 0)

Claimable(d) == Is(d, "queued") /\ (log[d].holder = None \/ log[d].lease = 0)

\* One more, as far as MaxAttempts can tell.
OneMore(n) == IF n > MaxAttempts THEN n ELSE n + 1
Claimed(r, c) == [r EXCEPT !.attempts = OneMore(r.attempts),
                           !.holder = c, !.lease = Lease]

\* Mutant of InBudget: off by one.
InBudgetLate(n) == n <= MaxAttempts + 1

InBudget(n) == n <= MaxAttempts

\* The claim and the call it allows.  A spent budget throws, so that the queue
\* offers the job again; a message somebody holds is offered again later; one
\* that is settled is acknowledged.
Claim(c) ==
  /\ pc[c] = "claim"
  /\ LET d == Of(c) IN
     IF Claimable(d)
     THEN /\ log' = [log EXCEPT ![d] = Claimed(@, c)]
          /\ IF InBudget(OneMore(log[d].attempts))
             THEN /\ attempt' = [attempt EXCEPT ![c] = OneMore(log[d].attempts)]
                  /\ timer' = [timer EXCEPT ![c] = Timeout]
                  /\ calls' = [calls EXCEPT ![d] = @ + 1]
                  /\ Goto(c, "call")
             ELSE Goto(c, "idle") /\ UNCHANGED <<attempt, timer, calls>>
     ELSE /\ Goto(c, IF Is(d, "queued") THEN "idle" ELSE "ack")
          /\ UNCHANGED <<log, attempt, timer, calls>>
  /\ UNCHANGED <<producer, queue, job, provider, faults, told, unsaid>>

\* The provider's answer: accepted; refused for good; or an error or the
\* deadline, which abandon the call: the race is over, and an abort closes the
\* client's side only.
Answer(c) ==
  /\ pc[c] = "call"
  /\ \/ /\ accepted' = accepted \cup {Receipt(c)}
        /\ Goto(c, "sent")
        /\ UNCHANGED abandoned
     \/ /\ Goto(c, "fail")
        /\ UNCHANGED provider
     \/ /\ abandoned' = abandoned \cup {Receipt(c)}
        /\ Goto(c, IF attempt[c] < MaxAttempts THEN "release" ELSE "fail")
        /\ UNCHANGED accepted
  /\ timer' = [timer EXCEPT ![c] = 0]
  /\ UNCHANGED <<log, producer, queue, job, attempt, faults, history>>

\* The provider accepts an abandoned call, at once or long afterwards.
AcceptLate(a) ==
  /\ a \in abandoned \ accepted
  /\ accepted' = accepted \cup {a}
  /\ unsaid' = unsaid \cup {a[1]}
  /\ UNCHANGED <<log, producer, queue, consumer, abandoned, faults, calls, told>>

\* status = 'queued' AND active_attempt_id = ?, whatever the lease says
Fenced(c) == Is(Of(c), "queued") /\ log[Of(c)].holder = c

LetGo(r) == [r EXCEPT !.holder = None, !.lease = 0]
SentAs(r, n) == [LetGo(r) EXCEPT !.status = "sent", !.id = n]
GivenUp(r) == [LetGo(r) EXCEPT !.status = "failed"]

\* releaseAttempt; without the fence it throws, and the job stays either way.
Release(c) ==
  /\ pc[c] = "release"
  /\ log' = IF Fenced(c) THEN [log EXCEPT ![Of(c)] = LetGo(@)] ELSE log
  /\ Goto(c, "idle")
  /\ UNCHANGED <<producer, queue, job, attempt, timer, provider, faults, history>>

\* markSent and markProviderFailed; without the fence they throw.
Settle(c) ==
  /\ pc[c] \in {"sent", "fail"}
  /\ IF Fenced(c)
     THEN /\ log' = [log EXCEPT ![Of(c)] = IF pc[c] = "sent" THEN SentAs(@, attempt[c])
                                           ELSE GivenUp(@)]
          /\ Goto(c, "ack")
     ELSE Goto(c, "idle") /\ UNCHANGED log
  /\ UNCHANGED <<producer, queue, job, attempt, timer, provider, faults, history>>

Ack(c) ==
  /\ pc[c] = "ack"
  /\ queue' = queue \ {job[c]}
  /\ Goto(c, "idle")
  /\ UNCHANGED <<log, producer, job, attempt, timer, provider, faults, history>>

\* The invocation is gone, or a statement of it failed.
Stop(c) ==
  /\ faults < MaxFaults /\ pc[c] # "idle"
  /\ faults' = faults + 1
  /\ Goto(c, "idle")
  /\ timer' = [timer EXCEPT ![c] = 0]
  /\ abandoned' = IF pc[c] = "call" THEN abandoned \cup {Receipt(c)} ELSE abandoned
  /\ unsaid' = IF pc[c] = "sent" THEN unsaid \cup {Of(c)} ELSE unsaid
  /\ UNCHANGED <<log, producer, queue, job, attempt, accepted, calls, told>>

----------------------------------------------------------------------------
(* Time *)

Less(n) == IF n = 0 THEN 0 ELSE n - 1
Aged(r) == [r EXCEPT !.lease = Less(r.lease)]

\* The lease of an accepted message runs out before it is recorded.
Lapses(d) ==
  \E c \in Consumer :
    pc[c] = "sent" /\ Of(c) = d /\ Fenced(c) /\ log[d].lease = 1

\* A provider call does not outlast its deadline.
Tick ==
  /\ \E d \in Delivery : log[d] # None /\ log[d].lease > 0
  /\ \A c \in Consumer : pc[c] = "call" => timer[c] > 0
  /\ log' = [d \in Delivery |->
       IF log[d] = None THEN None
       ELSE Aged(log[d])]
  /\ timer' = [c \in Consumer |-> Less(timer[c])]
  /\ unsaid' = unsaid \cup {d \in Delivery : Lapses(d)}
  /\ UNCHANGED <<producer, queue, pc, job, attempt, provider, faults, calls, told>>

----------------------------------------------------------------------------
Produce(d) == Record(d) \/ HandOff(d) \/ QueueFailed(d)
Step(c) == Claim(c) \/ Answer(c) \/ Release(c) \/ Settle(c) \/ Ack(c)

Next ==
  \/ \E d \in Delivery : Produce(d) \/ Abandon(d)
  \/ \E c \in Consumer, j \in Job : Take(c, j)
  \/ \E c \in Consumer : Step(c) \/ Stop(c)
  \/ \E a \in Accepted : AcceptLate(a)
  \/ Tick

Spec == Init /\ [][Next]_vars

\* Producers run, the queue offers every job again, no step of an invocation
\* hangs (the provider call has its deadline), and time passes.
Fairness ==
  /\ \A d \in Delivery : WF_vars(Produce(d))
  /\ \A j \in Job : SF_vars(\E c \in Consumer : Take(c, j))
  /\ \A c \in Consumer : WF_vars(Step(c))
  /\ WF_vars(Tick)
FairSpec == Spec /\ Fairness

----------------------------------------------------------------------------
(* What must hold *)

\* The calls that were made for a message.
CallsMade(r) == IF InBudget(r.attempts) THEN r.attempts ELSE MaxAttempts

\* What the rest of the system sees of a row of email_log.
Seen(d) ==
  IF log[d] = None
  THEN [status |-> "none", held |-> FALSE, tries |-> 0, id |-> 0]
  ELSE [status |-> log[d].status, held |-> log[d].lease > 0,
        tries |-> CallsMade(log[d]), id |-> log[d].id]

\* The calls whose deadline is running.
Running == {Receipt(c) : c \in {b \in Consumer : pc[b] = "call"}}

Mail == INSTANCE MailLog WITH
          entry <- [d \in Delivery |-> Seen(d)], open <- Running

\* The queue, its consumers and their leases implement the log's promise: a call
\* is made under a lease that no other consumer gets, and that does not run out,
\* before the call is answered or abandoned; it is the last of its message when
\* its acceptance is recorded; and a settled message stays as it is, whichever
\* consumer answers last (docs/infra.md: the durable queue lease fences
\* concurrent attempts).  What was abandoned may be accepted at any time: the
\* log then says nothing of it.
ImplementsMailLog == Mail!MailSpec

Place == {"idle", "claim", "call", "release", "sent", "fail", "ack"}

TypeOK ==
  /\ log \in [Delivery -> Row \cup {None}]
  /\ hand \in [Delivery ->
               {"none", "fresh", "persisted", "thrown", "done", "gone"}]
  /\ handed \in [Delivery -> 0..MaxHandoffs]
  /\ queue \subseteq Job
  /\ pc \in [Consumer -> Place]
  /\ job \in [Consumer -> Job \cup {None}]
  /\ attempt \in [Consumer -> 0..MaxAttempts]
  /\ timer \in [Consumer -> 0..Timeout]
  /\ accepted \subseteq Accepted /\ abandoned \subseteq Accepted
  /\ faults \in Nat
  /\ calls \in [Delivery -> Nat]
  /\ told \subseteq Delivery /\ unsaid \subseteq Delivery

\* Two consumers that have the job of one message never wait for the provider at
\* the same time: a lease outlasts the call it covers (email-log.test.ts:
\* overlapping consumers invoke the provider exactly once).  An abandoned call
\* may still be on its way when the next one is made.
OneCallAtATime ==
  \A b, c \in Consumer :
    pc[b] = "call" /\ pc[c] = "call" /\ Of(b) = Of(c) => b = c

\* Redelivery, contention and attempts cut short included, the provider is
\* called at most maxAttempts times for a message (mailer.test.ts: never
\* invokes the provider after the durable attempt budget).
BudgetKept == \A d \in Delivery : calls[d] <= MaxAttempts

\* Nobody is told the queue was unavailable about a message that was, or will
\* be, offered to the provider, even when the hand-off went through and only
\* its answer was lost.
UnavailableMeansUncalled == \A d \in told : calls[d] = 0

\* The log is right about a message, unless an acceptance was never recorded
\* under its lease: it calls sent what that attempt got accepted, it calls
\* failed only what was not accepted, and nothing is accepted twice, unless a
\* call was accepted after it had been abandoned
\* (docs/infra.md: the durable queue lease fences concurrent attempts and the
\* receipt is persisted before acknowledgement).
LogIsRight ==
  \A d \in Delivery :
    /\ Is(d, "sent") => <<d, log[d].id>> \in accepted
    /\ d \notin unsaid => \A a \in accepted : a[1] = d =>
         /\ ~Is(d, "failed")
         /\ \A b \in accepted : b[1] = d => a = b

\* Every message is settled in the end, or has spent its budget on attempts
\* that were cut short; a fresh one only if its sender stays to hand it over,
\* a persisted one if one of its hand-offs arrives.
Settled(d) ==
  \/ log[d] # None /\ log[d].status # "queued"
  \/ log[d] # None /\ log[d].attempts > MaxAttempts
  \/ hand[d] = "gone"
EventuallySettled == <>[](\A d \in Delivery : Settled(d))
=============================================================================
