# A verification development for ezacto

ezacto records time, bills it and pays people. One TypeScript code base runs
as a Cloudflare Worker over D1 or as a Node container over SQLite
(`src/docs/architecture.md`). Nearly every rule of the program is a pure
function, but a handful of parts are protocols: rows with leases that several
instances fight over, sweeps started by a cron that overlap, queues that deliver
again, handlers that are cut off and go on all the same, requests that clients
repeat, payments whose answer is lost. Those are what this development is about.
It holds TLA+ modules of them, small instances that TLC checks, and proofs that
TLAPS checks.

The paths below are relative to the repository, which is `src/` here: for
example `packages/db/src/outbox.ts` is `src/packages/db/src/outbox.ts`.

Contents

1. [The modules](#1-the-modules)
2. [How the database is modelled](#2-how-the-database-is-modelled)
3. [The event outbox](#3-the-event-outbox)
4. [The activity log](#4-the-activity-log)
5. [Idempotency keys](#5-idempotency-keys)
6. [Outbound webhooks](#6-outbound-webhooks)
7. [The email queue](#7-the-email-queue)
8. [Email feedback](#8-email-feedback)
9. [Scheduled runs](#9-scheduled-runs)
10. [Payment runs](#10-payment-runs)
11. [Migration loads driven by a queue](#11-migration-loads-driven-by-a-queue)
12. [Runs, bounds and fairness](#12-runs-bounds-and-fairness)
13. [What is proved](#13-what-is-proved)
14. [Where the code and its own words differ](#14-where-the-code-and-its-own-words-differ)
15. [Inventory of the system](#15-inventory-of-the-system)
16. [Plan](#16-plan)

## 1. The modules

| Module | What it is | Run | Proofs |
| --- | --- | --- | --- |
| `OrderedDelivery` | what the outbox promises, with no drains, leases or budgets | as `PromiseKept` of `Outbox` | `OutboxProofs!Implements` |
| `Outbox` | `packages/db/src/outbox.ts`: claim, call and settle event deliveries | `outbox_takeover` | `OutboxProofs` |
| `ActivityLog` | extends `Outbox`: the activity subscriber, the yearly roll, the paged reader | `activity_walk` | `OutboxProofs`, second part |
| `Idempotency` | one idempotency key: claims inside write batches, duplicates, replay | `idempotency_retries` | `IdempotencyProofs` |
| `Webhooks` | fan-out of events to subscriptions, the delivery sweep, commands | `webhooks_overlap` | `WebhooksProofs` |
| `MailLog` | what `email_log` promises about outgoing mail | as `ImplementsMailLog` of `EmailQueue` | `EmailQueueProofs!LogImplemented` |
| `EmailQueue` | producers, redelivered jobs, leased attempts, the provider | `email_queue` | `EmailQueueProofs` |
| `EmailFeedback` | extends `MailLog`: bounces and complaints, their ledger and the verdict | `email_feedback`, `email_feedback_dropped` | `EmailFeedbackProofs` |
| `ScheduledRuns` | proposals, confirmation, items under leases, the hand-off of their messages | `scheduled_takeover`, `scheduled_starved` | `ScheduledRunsProofs` |
| `PaymentRuns` | approval and reservation, the stages of a payment against Wise | `payments_takeover`, `payments_requeued` | `PaymentRunsProofs` |
| `LoadInOrder` | what a migration load promises | as `PromiseKept` of `QueuedLoads` | `QueuedLoadsProofs!Implements` |
| `QueuedLoads` | a load driven by messages: sequence, intents, lease, clean-up, operator | `queued_loads` | `QueuedLoadsProofs` |
| `MC...` | an instance of each for TLC | | |

How they compose:

- `ActivityLog` with `Outbox`: each of its steps is a step of the outbox that says
  in addition what it does to the log, so that late handlers, retries and rolls
  meet. `OutboxRefined` proves that the outbox underneath is the outbox still.
- `EmailFeedback` with `EmailQueue`, through `MailLog`: the queue with all its
  consumers and leases implements the log's promise (`ImplementsMailLog`), and the
  feedback is modelled beside any senders that keep it. A verdict of the feedback
  and a late consumer of the queue meet in this way without the product of both.
- `Outbox`, `EmailQueue` and `QueuedLoads` each implement an abstract
  specification, by an `INSTANCE ... WITH` that is checked by TLC on the instance
  and proved for every one.
- `Webhooks` begins where an event is inserted into `event_outbox` (a trigger fans
  it out), so it shares the producer with `Outbox` and no state. `ScheduledRuns`
  ends where the mail queue has taken a message, with the id that `EmailQueue`
  starts from.

To run things (the tools find the community modules and TLAPS libraries):

    tlc -workers 2 -config MCOutbox_takeover.cfg MCOutbox
    tlapm OutboxProofs.tla

Definitions named as a *mutant* in their comment (`OwnsAny`,
`ClaimableAnyTime`, ...) are wrong versions of the definition that follows them:
a plausible bug of the same line. Nothing refers to them. Putting one in the
place of the right definition makes a property fail, which shows that the
property has something to say about that line; `PROJECT.json` lists the pairs
under "mutants".

## 2. How the database is modelled

The same decisions recur in all modules.

*Atomic steps.* D1 has no interactive transactions: the unit is a batch of
statements that commits or rolls back as a whole (`packages/db/src/d1.ts`), and
in the container a batch is a SQLite transaction. One action is one batch, with
every statement of it and every trigger it fires; a read that a later batch
depends on is an action of its own, so that other processes can step between
them. Whether a statement "finds its row" is a guard.

*Lost answers.* A batch, a hand-off to a queue or a request to a provider may
take effect although its caller sees an error, and the process may stop at any
place. Both are explicit steps (`Crash`, `Die`, `Stop`, `Throw`, the two outcomes
of `Commit` or `Enqueue`), counted by a bound so that TLC can finish.

*Clocks.* Guards compare timestamps with now. What they can tell apart is
whether a lease or delay is over, so a row carries what is left of it in ticks
and a `Tick` action runs all of them down. Time between any two steps is
unconstrained: a tick may fall anywhere, so nothing depends on how fast a
process is, save where the code itself sets a deadline shorter than the lease
(the provider call of `EmailQueue`). Where only phases matter (a key's lease, then
its lifetime; the deadline of a proposal) the row carries the phase.

*Queues* (Cloudflare's, external). A message stays until it is acknowledged, is
delivered again and again in any order, and, where the configuration limits it,
given up after so many deliveries. Whether deliveries overlap follows
`max_concurrency` of `entries/worker/wrangler.jsonc`: where it is 1, a delivery
beside another is one of the bounded faults.

*Work that was given up.* A JavaScript promise cannot be cancelled. A handler
that loses the race against its timeout, or whose drain was cut off, may still
carry out its effect: `late` of `Outbox` holds such handlers. A call of the mail
provider is the same: the race is over at the deadline, an abort closes the
client's side only (`packages/mailer/src/smtp.ts:172`), and the provider may accept
afterwards. `abandoned` of `EmailQueue` and `MailLog` holds such calls, `AcceptLate`
is their acceptance.

*Data.* Ids are model values; payloads, hashes, signatures, error texts and
audit rows are left out wherever no guard reads them.

## 3. The event outbox

*The code.* Anything that changes state appends an event to `event_outbox` in
the same batch (`activity-log.ts`, `activityCaptureStatements`); the events of
one aggregate are numbered. A deployment registers subscribers (the activity
log always; notification mail, QuickBooks and others when configured). A
*drain* (`createService(...).drain`) goes round them: it selects the oldest due
event of one subscriber (`candidate`), claims it (`claim`, three statements in
one batch), calls the subscriber under a timeout (`callSubscriber`) and records
a success (`finalizeDelivered`) or a failure (`finalizeFailure`). One row of
`outbox_delivery_receipts` per subscriber and event keeps the status, the
number of attempts, the owner of the attempt and its lease. The last
acknowledgement sets `published_at`, after which nobody looks at the event.
Drains run every minute, may overlap, may be cut off, and may run under
different configurations during a release.

*The model* (`Outbox`).

| State | Code |
| --- | --- |
| `enqueued`, `published` | rows of `event_outbox`, those with `published_at` |
| `receipt[s][e]` | the receipt: `status`, `attempts`, `owner` (`active_attempt_id`), `timer` (`next_attempt_at` or `attempt_lease_expires_at`) |
| `pc`, `cursor`, `job` | a drain: where it is, its configuration and round-robin position, what it selected |
| `landed`, `late` | effects of handlers that are in place; handlers that run on although they were given up |

Actions: `StartDrain`, `ScanHit`, `ScanMiss`, `EndDrain` (the loop of `drain`);
`ClaimAttempt`, `ClaimExhausted`, `ClaimRefused`, `ClaimContended` (the four
ways `claim` can end, by which of its statements found a row, and whether the
table's CHECK let it pass); `Land`, `LateLand` (the handler); `SettleDelivered`,
`SettleFailure`; `Crash`; `Enqueue`, `RetryFailed` (the operator's button),
`Tick`.

What matters most:

- `EffectsInOrder`: the effect of an event is never in place for a subscriber
  while an earlier event of the aggregate is outstanding. The claim repeats the
  selection's condition, so a second drain, an earlier event that failed for
  good and a handler that finishes after its timeout all have to respect it.
- `PublishedMeansApplied`: an event is retired only if one whole registry of
  subscribers acknowledged it *and* has its effect, although drains with
  different registries settle it.
- `BudgetKept`, `LeaseRespected`, `EventuallySettled` and the implementation of
  `OrderedDelivery` (`PromiseKept`).

Deployments may differ in their subscribers and in their budget of attempts
(worker and container, or two releases); the run has two that differ in the
budget, the theorems have any.

*Known and not a property here.* An event that a smaller registry published
leaves a pending receipt of the other subscriber behind, for good: `retryFailed`
(`outbox.ts:1031`) accepts a failed receipt of a published event and makes it
pending, and no drain selects it again. `EventuallySettled` says so: it counts a
published event as settled. And a receipt that a deployment with a larger budget
made pending again waits for it when only the one with the smaller budget still
runs: `ClaimRefused` is the claim that the table turns down, over and over
(section 14). `Spent` names these receipts, and `EventuallySettled` excepts them.

*Left out*: the pages `listActivity` (modelled with the log) and
`listDeliveries` (a read); `event_outbox.attempt_count` and `last_error`, which no
guard reads.

## 4. The activity log

*The code.* The built-in subscriber inserts one row per event into
`activity_log`, stamped with the time its attempt was *claimed*, and asks first
whether the event is there (`createActivitySubscriber`). When a year is over,
`rollActivityLog` renames the table to `activity_log_<year>`, creates an empty
one and enqueues an event about it, in one batch. Readers find the tables by
asking `sqlite_master` and page backwards by `(recorded_at, event_id)` under a
snapshot (`activitySnapshot`, `listActivity`; the export of
`packages/api/src/outbox.ts` walks all pages).

*The model* (`ActivityLog`) extends `Outbox`. `hot` and `archive` are the
tables, `claimedAt` and `lateAt` the instants that the attempts in progress and
the abandoned ones would write, `walk` one reader. Each page is two steps, the
list of tables and the query, as in the code.

- `AcknowledgedIsLogged`: whatever is acknowledged or published is in one of the
  tables, through late handlers and rolls.
- `LogFollowsAggregate`: the log never shows an event of an aggregate without
  the earlier ones.
- `WalkComplete`: a walk reads every row its snapshot covered, as long as no
  roll falls between the list and the query of one page. The history variable
  `torn` says whether one did; without it the statement is false, see section 14.

A row may carry an instant that lies *before* rows that are there already, for
it is the time of the claim; so an export whose snapshot is taken while a
delivery is in flight does not promise to have everything up to that instant.
The property speaks of the rows that were there.

## 5. Idempotency keys

*The code.* A write may carry an `Idempotency-Key`
(`docs/api-contract.md:46-135`). `withIdempotency` reads the key's row: a fresh
one answers the request (`answerStored`), an expired one is deleted
(`forgetSql`), and then the handler runs with a database that puts the key's
*claim* into every write batch (`RidingD1Database`). The claim is an INSERT that
does nothing if the row is this attempt's and violates the primary key if it is
another's, so that a losing write takes its whole batch down. When the handler
is over, the batches it did not await are waited for (`runWithClaim`); an
attempt that lost answers from the row, one that wrote records its response
(`complete`), one that wrote nothing leaves no trace. A duplicate waits up to
five seconds for the response, is told "in progress" after that, and "already
carried out" if the claim is older than its lease. A stored response is
disclosed only to the same credentials, under an authorization that has not
changed since (`idempotency_authorization.revision`, migration 0108), and that
is asked again after the wait.

*The model* (`Idempotency`) has one key, any number of attempts with their
fingerprint, credentials and secret, and the row. `pc` follows `withIdempotency`
line by line; `inflight` is the write batch that is at the database, which the
attempt's death does not take back; `wrote`, `lost`, `failed` are the claim
state of `runWithClaim`; `answer` is what the client was told. `Commit` is the
batch with its claim, whose answer may be lost; `Settle` reads the row to find
out what a failure meant, and may fail itself.

- `OnceOnly`, `WriterHoldsKey` (the latter proved only): within one lifetime of
  the row at most one attempt commits anything, and the row is its.
- `AnsweredWritesNothing`, `UnrecordedWroteNothing`: after its answer an attempt
  commits nothing more, and one that answers without recording has written
  nothing and never will, so that a retry may run.
- `UnavailableMeansWritten`: "the write was done" is said only if one was.
- `ReplayIsAuthorized`: a stored answer is disclosed only for the same request,
  to the same holder, under unchanged authority.
- `EventuallyAnswered`: no request waits for a holder that died.

*Left out*: hashing, sealing and size limits of responses (data; whether a
response is kept is one nondeterministic choice), reads inside the handler,
which carry no claim.

## 6. Outbound webhooks

*The code.* Inserting an event fires the trigger `webhook_outbox_fanout`
(migration 0151), one delivery per active subscription. Every minute
`processDue` fails the deliveries whose last attempt was abandoned (`reaped`),
selects due ones, and lets up to three handlers claim them one by one. A claim
counts an attempt and takes a lease under a fresh token. The handler then looks
at the subscription again: gone means failed, paused means that the attempt is
given back, otherwise the signed request is sent, with a deadline, and the
outcome is recorded if the lease is still the handler's. Administrators pause,
resume and remove subscriptions and replay a delivery, which opens a new cycle
of attempts. `purge` deletes what is older than 30 days.

*The model* (`Webhooks`). `sub` and `row` are the two tables; `phase`, `due`,
`pc` and `job` the sweeps and their handlers; `sends` and `accepted` are history:
how many requests went out for each cycle of a delivery, and whether one was
answered with 2xx. A lease lasts 30 seconds and a request five, but nothing
bounds how long an instance or a database call may stall, so the sweeps of two
minutes may overlap, and a handler whose lease ended goes on. That is where the
hazards are.

- `BudgetKept`: no cycle of a delivery sends more than `MaxAttempts` requests.
  This is less obvious than it looks: a pause gives an attempt back, and a
  handler that lost its lease may still be about to send.
- `RemovedIsQuiet`: a removed subscription has no pending work and never gets any
  from a handler that settles late.
- `DeliveredMeansAccepted`: "delivered" is recorded only for a cycle in which the
  endpoint accepted a request, not for the one before a replay.
- `LeaseRespected` (proved only): a live lease ends through its own handler or
  through the removal of the subscription, through nothing else.
- `EventuallySettled`: no delivery is left in progress for ever.

A pause that is observed just as the lease of the *last* attempt runs out may lose
the race against another sweep, which records the delivery as failed though no
request went out. The endpoint then gets fewer requests than its budget, never
more; a replay repairs it.

*Left out*: signing keys and their rotation, URLs and their checks, the body of
requests. Look's two failures (a row without usable key, a failing statement)
are kept as outcomes.

## 7. The email queue

*The code.* A message is a row of `email_log` first; then its sender hands a job
with the row's id to a queue (`createQueuedMailer`,
`packages/mailer/src/index.ts:435-478`) and, if that throws, marks the row failed
unless a consumer has touched it (`markQueueFailed`). Messages that were persisted
with their occasion (`enqueueExisting`) may be handed over again and again. A
consumer (`processQueuedEmail`) claims the row under a lease that counts an
attempt, calls the provider under a deadline that is shorter, and then releases
the row for a retry, marks it sent, or marks it failed; only what was settled is
acknowledged to the queue (`entries/worker/src/email-queue.ts`).

*The model* (`EmailQueue`). `log` is the table, `hand` and `handed` the producers,
`queue` the jobs not acknowledged, `pc`, `job`, `attempt` and `timer` the
consumers; `accepted` is what the provider took. `Answer` is every way the wait for
a call can end: accepted, refused for good, or abandoned, by an error or by the
deadline. What was abandoned, by a consumer that stopped too, may be accepted by
the provider at any time afterwards (`AcceptLate`): before the row is released or
marked failed, under the next attempt, or never. `unsaid` remembers messages with
an acceptance that was not recorded under its lease, such late ones among them.

- `OneCallAtATime`: two consumers with jobs of one message never wait for the
  provider at the same time. It rests on the lease outlasting the deadline. An
  abandoned call may still be on its way beside the next one.
- `BudgetKept`: redelivery, hand-offs and stops included, at most `MaxAttempts`
  calls.
- `UnavailableMeansUncalled`: whoever is told that the queue is unavailable has a
  message the provider never hears of, although the hand-off may have gone
  through.
- `ImplementsMailLog`: the promise of `MailLog`, which section 8 relies on. A call
  is begun under a lease that nobody else has, has a number of its own, and is
  waited for only while that lease lasts; nothing is settled and no lease ends
  meanwhile; a message is called sent only under the number of its *last* call, when
  that was answered by an acceptance; what is settled stays as it is. An abandoned
  call may be accepted whatever the log shows, and the log says nothing of it.
- `LogIsRight` (proved, `LogTellsTheTruth`): sent means accepted; but for `unsaid`
  messages, failed means not accepted and nothing is accepted twice. With a late
  acceptance both may happen: the code has no way to learn of it.
- `EventuallySettled`: every message is settled or has spent its attempts, unless
  its sender stopped before handing it over.

*Left out*: attachments and the suppression lists (both a terminal refusal here),
the demo's `markRefused`, and the in-memory queue of the container.

## 8. Email feedback

*The code.* Mailgun posts bounces and complaints to a webhook until it gets a 200
(`packages/mailer/src/mailgun-feedback.ts`). `receive` looks for the message that
was sent under the event's message id; when there is none and some attempt is in
flight it answers 503, so that the event is posted again; then it claims the event
in a ledger (`packages/db/src/email-feedback-events.ts`), writes the verdict to
`email_log` (`processFeedbackEvent`, a read and a guarded update), and finishes the
event with its outcome. A request that stops half-way leaves an event that the
next post resumes.

*The model* (`EmailFeedback`) extends `MailLog`, whose steps are the senders'
(`Mail`), late acceptances of abandoned calls included. `about` is the acceptance
each event is about, `posted` what Mailgun still posts, `ledger` the events' table,
and a request carries what it `found` when it began. `late` remembers the
acceptances that were not recorded before their lease ended. Events about an
abandoned call find no message and are ignored, for its message id is on no row.

- `OutcomeMeansMarked`: an event finished as a bounce or complaint has left its
  message with a verdict.
- `VerdictHasEvidence`: a message has a verdict only through an event about the
  very acceptance it was recorded under, not about an attempt given up before.
- `VerdictStands`: the first verdict is the last.
- `PromptEventLands`: an event that arose after its send was recorded lands.
- `NoEventDropped` is violated: section 14.

*Left out*: signatures and their window, "delivered" events, which write the
ledger only, and what feeds the suppression lists.

## 9. Scheduled runs

*The code.* A job proposes a run with its items
(`packages/db/src/scheduled-actions.ts`); an administrator confirms or cancels it
before its deadline, or it lapses; a run that gave up can be retried. Every minute
crons and workflows select confirmed runs with due items and execute them
(`run-executor.ts`, `scheduled-run-dispatch.ts`): each pass lists what is
outstanding, claims items one by one under a lease of 15 minutes (two statements:
give up what was interrupted on its last attempt, take what can be taken), writes
a receipt with the message in it or finds an earlier one, asks once more whether
it still holds the lease, hands the message to the mail queue, and completes or
fails the item if the lease is still its own. When all items are done it completes
the run.

*The model* (`ScheduledRuns`). `run`, `past` and `item` are the tables; `asked`
holds the runs somebody asked to confirm or cancel before the deadline (`Ask`):
the code compares the deadline with the time of the request, and writes later
(`scheduled-actions.ts:291-326`). `receipt` keeps, for each item, the version of
the sender settings its message was written with; `handed` is what the queue was
given. Between any two steps the settings may change and an item may be withdrawn.

- `NothingExpiresIntoAction`: a run whose deadline passed before anybody asked to
  answer it, or that lapsed or was cancelled, has no item touched and no receipt,
  though an answer asked for in time may be written after the deadline and the sweep
  that marks a run expired may come late.
- `OneMessage`: whatever attempts, takeovers and changes there are, the queue is
  given only the message of the first receipt, under the item's id. It may be given
  that message more than once; how often it is sent is then a matter of the one
  budget that `EmailQueue` keeps for the id. That the receipt is never rewritten is
  proved with it (`MessageIsOne`).
- `LeaseRespected`: a live lease is ended by its own executor only, the late
  handlers of others included.
- `CompletedMeansHanded` (proved): nothing is done without its message.
- `EventuallyResolved`: every item of a confirmed run is done or has spent its
  attempts. With more items than a pass looks at this is false: section 14.

*Left out*: the definitions of jobs and their cadence, review links and notices,
the report attached to the messages, and the order in which a sweep visits runs.

## 10. Payment runs

*The code* (`packages/db/src/payment-runs.ts`, migration 0093). Staff payments are
reviewed in a draft, approved, which reserves their amounts against what each
person is owed for the month (by triggers), and carried out at Wise by passes that
start every minute: claim an item with a version and a lease, quote, create a
transfer under an id of ours, keep its id, read its status, mark the item as
*funding*, ask Wise to fund it, record the answer. A lost reply must not lead to a
second debit; the status of the transfer tells what happened. Paid items are in the
register of staff payments, whose triggers guard the reservations. Runs can be
cancelled (two statements), stuck creations asked for again.

*The model* (`PaymentRuns`). `run` and `item` are the tables, `own` whose claim
was the last write of an item that moved its version on; `owed` and `manual` the
register, from which `Paid` and `Reserved` are derived as the triggers do; `wise`
is the transfer at Wise (external), which moves on by itself; `asked` counts
funding requests that Wise may have taken. A pass works with `seen`, the row of its
claim, and `reply`, what Wise told it.

- `FundedOnce`: no item is ever debited twice.
- `ReleasedIsOver`: a reservation is released only before anything exists at Wise
  or after Wise has closed the transfer.
- `RecordedStands`: a recorded payment leaves the register only for a refund that
  Wise has reported, and what failed stays so.
- `EventuallyReconciled`: a transfer that stays sent is recorded, one that stays
  refunded is not.
- `ReservationsCovered` is violated: section 14.

A lease here outlasts the calls made under it (a request gives up after 20 seconds,
the lease has 120), so its end while a pass works counts as one of the faults.

*Left out*: advances, currencies and destinations as such, and what a webhook
does beyond making an item due.

## 11. Migration loads driven by a queue

*The code* (`packages/migrate/src/queued-loader.ts`). A snapshot is loaded in
chunks, one for each queue message. The row of `migration_loads` has a sequence;
`migration_load_intents` keeps which messages are to be sent. A delivery opens the
snapshot, marks the load running, claims the destination's lease
(`load-lease.ts`), loads the next chunk with its progress in one batch that fails
unless the lease is held (`load-engine.ts`, `fenceStatement`, and the job's
`authority`), checkpoints the next sequence with its intent, releases the lease,
sends the next message and acknowledges its own. A message of an earlier sequence
sends the current one again. The end deletes the input. The operator starts,
retries and cancels (`queued-commands.ts`).

*The model* (`QueuedLoads`) follows `deliverQueuedLoad` statement by statement:
`load` and `intents` are the ledger, `progress` and `written` the destination,
`lease` its lease, `source` the input, `mail` the messages; a worker knows the
progress it read (`at`), whether it has a lease (`has`), and the intent it is about
to send (`next`). `Throw` is an error, or a lost answer, of any call; `Die` the end
of an invocation; a delivery beside another is a fault, for the queue's
`max_concurrency` is 1.

- `PromiseKept`: it implements `LoadInOrder`. Whoever takes a load over, repeats a
  chunk, or comes back after a cancellation, the chunks reach the destination in
  order, once, and only while the load is open.
- `MessageKept`: a live load always has a message, or an operator about to send
  one, unless the queue gave one up or a command stopped before its send.
- `SourceNeeded`: the input is deleted only when all of it is loaded.
- `EventuallyOver`: a load that was started is completed, cancelled or failed.

*Left out*: the upload and the creation of a load, the barrier that keeps other
writers out, the mapping of rows, the batches of an estimate, invoice or expense
that precede their progress, and several loads of one destination.

## 12. Runs, bounds and fairness

Bounds that exist only to make the state space finite are constants whose comment
says *bound*: faults, stops, retries, commands, replays, hand-offs, write batches,
revisions, instants, walks, copies of messages, changes of the sender, amounts paid
by hand. `MaxAttempts`, `FailAfter`, `MaxDeliveries` and `MaxItems` are not among
them, they are the code's limits. The proofs hold for every value.

| Run | Question | Instance |
| --- | --- | --- |
| `outbox_takeover` | does everything hold when one drain takes over from another, under another budget? | 2 drains, deployments with budgets 1 and 2, 1 subscriber, 2 events of one aggregate, lease and delay of one tick, 1 crash, 1 operator retry |
| `activity_walk` | is the log complete, in order and readable across a roll? | 1 drain, 2 events and the event of a roll, 1 crash, 1 walk |
| `idempotency_retries` | one writer, true answers, authorized replays, and everybody answered? | a request and its retry, 2 batches each, 1 change of authority |
| `webhooks_overlap` | do overlapping sweeps keep the budget, the fence and the removal? | 2 sweeps with a handler each, 1 delivery, budget 2, 1 stop, 2 commands, 1 replay |
| `email_queue` | do redelivered jobs keep the log's promise? | 1 message, 2 consumers, 3 hand-offs, budget 2, deadline 1, lease 2, 2 faults |
| `email_feedback` | does one verdict land, for the right acceptance? | 1 message, a bounce and a complaint, 2 requests, budget 2, 1 stop or missed answer |
| `email_feedback_dropped` | is an event ever dropped that a retry would land? (yes) | 1 message, 1 bounce, 1 request, no stop |
| `scheduled_takeover` | one message, settled by its owner, resolved in the end? | 1 item, 2 executors, budget 2, 1 retry, 1 change of the sender, 2 faults |
| `scheduled_starved` | is every item attempted? (no) | 2 items, passes that look at one, 1 fault |
| `payments_takeover` | one debit, safe release, reconciled register? | 1 item, 2 passes, 2 faults, 1 payment by hand, 1 revision |
| `payments_requeued` | does a reservation stay covered? (no) | 2 runs of one item each for one account, 1 pass, no fault |
| `queued_loads` | in order and once, a message always on its way, over in the end? | 1 chunk and the end, 2 workers, 5 copies of messages, final error at delivery 2 of 2, 2 faults, 2 commands |

*Why small is enough.* Every hazard that the runs are for needs at most one stale
process, one that took over, and one event, key, message or item between them,
with a second event of the aggregate for order and a second item for starvation.
Two drains, sweeps, consumers, executors, passes or workers give all of these; one
fault gives the lost answer or the late handler, two a lost answer followed by a
stop; leases and delays of one tick allow them to be over at any moment, since
`Tick` may fall anywhere. Budget 2 lets an attempt be retried and be the last. In
`queued_loads` five copies are as many messages as two deliveries, their
republications and two commands leave about. One chunk is enough for the hazards,
for the end is a delivery of its own: a stale worker finds the first chunk loaded,
or the load over. What these instances cannot show (a third drain, a longer
registry, more chunks, a larger budget) is what the proofs are for: several
subscribers and different registries of the outbox, full batches of the webhook
sweep, and more than one aggregate are covered by theorems only, and for liveness
not at all.

*Fairness.* Every liveness property is checked under the `FairSpec` of its module,
on these grounds:

- A drain runs every minute (`entries/worker/src/index.ts`, cron `* * * * *`,
  the outbox drain at the end of `scheduled`), as do the webhook sweep (lines
  287-291), the payment passes (291-293) and the scheduled runs (368-392); the
  container's scheduler does the same
  (`entries/container/src/outbox-scheduler.ts`). So starting is weakly fair.
- What a minute's pass selects is *strongly* fair per run (`Start`) and per item
  (`Select`): an item that is due again and again, and leased in between, is
  selected in the end, for the selections order by due time and each pass takes a
  batch of what is due. For payments this leaves one limit out: a *paid* item is
  polled for 90 days only, unless it carries a failure, Wise reported it bounced or
  charged back, or a webhook came since (`payment-runs.ts:533`), so
  `EventuallyReconciled` does not speak of a transfer that turns after that time
  without a webhook. That a *run* is selected is not that each of its *items* is
  attempted, which `scheduled_starved` refutes.
- A queue delivers again what it holds: strong fairness for each job of the email
  queue (`Take`), and for each of Mailgun's posts (`Receive`), since consumers and
  requests are busy in between. Cloudflare's queue gives a job up after its
  configured number of deliveries, so `EventuallySettled` of `EmailQueue` speaks
  of jobs that are not given up (section 14). In `QueuedLoads` deliveries are
  counted and a run is finite, so weak fairness of all steps together says as
  much.
- A process that has started goes on: database calls return or throw,
  `callSubscriber` races the handler against a timeout, webhook and provider
  requests have a deadline. Stopping is possible but bounded, and no fairness is
  assumed of a handler's success (`Land` is not fair), of an endpoint's, or of what
  becomes of a transfer at Wise.
- Time passes (`Tick`). For idempotency keys the end of the lease is *not* assumed
  fair: `EventuallyAnswered` holds without it.
- Operators, administrators, confirmers and producers are never assumed to act,
  save that the operator who has begun to send a load's message sends it
  (`OperatorSends`) unless the command stops.

*Deadlock* is checked where the system runs for ever: `Outbox`, `ActivityLog`
and `Webhooks`. The other modules have a finite set of requests, messages, runs or
items, which come to an end: their runs say `CHECK_DEADLOCK FALSE`. *Symmetry* is
not used.

## 13. What is proved

All proofs are of safety, for any values of the constants that meet the named
assumption of the module, hence for any number of drains, attempts, consumers,
requests, executors, passes or workers, and any number of faults. Each follows one
argument: an inductive invariant `IInv`, one lemma per action or group of actions
that says how it preserves each conjunct, and PTL to put them together. The type
invariant of every module is proved, and is a conjunct of its `IInv`.

There are two kinds of theorems. Most say `Spec => []P` of a property that a run
checks. The others are *conditional*: `Spec /\ [][~Bad]_vars => []P`, where P does
not hold of the code as it is and Bad is one kind of step (in two cases the
condition is one on the deployments instead). They say exactly what goes wrong
where the code falls short of what is wanted (section 14): P fails through a step
of that kind and through nothing else. Each was checked by TLC on a small instance
before it was proved: without the condition P is violated, with Bad excluded from
Next it is not. Their invariants are named below with the theorem.

**`OutboxProofs`** (`OutboxAssumption`; in particular "is an earlier event of the
aggregate" is transitive and irreflexive, and delays are positive). `IInv` is

- `Shape`: types, what a drain has in hand at each place, and a claimed receipt
  has counted its attempt;
- `ClaimsInOrder`: a receipt exists, or a drain is about to claim, only if all
  earlier events are out of the way. `EffectsInOrder` alone is not inductive:
  effects land long after the check;
- `CallsClaimed`: whoever calls or may still land late has a receipt;
- `DeliveredLanded`: acknowledged means applied.

`PriorsDoneStable` is the lemma that carries it: once earlier events are done
they stay done, since delivered receipts and published events are never undone.
Theorems: `TypeCorrect`, `OrderKept`, `PublishedApplied`, `BudgetsKept`,
`LeasesRespected`, and `Implements`: every step of the outbox is a step of
`OrderedDelivery` or leaves its variables alone. Conditional ones:

- `NeverRefused`: under one budget for all deployments the table never refuses a
  claim and no receipt is spent before its time (`PendingFits`: a pending receipt
  has attempts left). A release that lowers `maxAttempts` is what it takes;
- `RetriesAreScanned`: under one registry of subscribers an operator's retry never
  revives a receipt of a published event, which no drain selects any more.

The second part is about `ActivityLog` (`ActivityAssumption`). `OutboxRefined`
shows that `LogSpec` implies `Spec`, so that all of the above holds with the log
beside it. `LogInv` adds that an event is logged exactly when its effect for the
activity subscriber has landed (`LoggedIsLanded`; a roll moves rows and keeps all
of them), and that what a walk has still to read of its snapshot lies behind its
cursor unless a roll tore it (`WalkFits`). Theorems: `LogTypeCorrect`,
`NothingLost`, `LogInOrder`, `WalksComplete`. Conditional ones:

- `QuietWalksSeeAll`: a walk reads all that is ever recorded up to its snapshot if,
  when the snapshot was taken, its instant was over and no delivery claimed by then
  was still in its handler (`WalkQuiet`: then nothing is added below it). This is
  what the second hazard without a property (`outbox.ts:129`) is about;
- `LoggedOnce`: one row per event in one of the tables, if no roll comes between a
  row and the end of what may still insert it (`OneRowEach`).

**`IdempotencyProofs`** (`IdempotencyAssumption`). `IInv` adds to the properties
where a row may have expired (never under a running request: `ExpiredIsSpent`,
`SpentIsOver`, `FreshRow`), which requests may have a batch at the database
(`QuietOutside`), that an answer is the last thing (`AnswerIsLast`), and what a
request about to disclose has found (`FoundDone`). Theorems: `TypeCorrect`,
`WritesOnce`, `WriterIsOwner`, `UnrecordedIsSafe`, `UnavailableIsTrue`,
`AnswersAreFinal`, `ReplaysAreAuthorized`. `WritesOnce` covers more than the run:
that a request which read an expired row deletes it a moment later takes three
attempts. `ReplaysAreWhole` adds that a replayed answer is that of an attempt whose
handler returned: a row is made done by an attempt that ends with its answer
(`DoneIsEnded`), never by one that was cut. "Already carried out" promises less;
`CarriedOutUnlessLapsed` says how much: with one secret it is as true as a replay
unless a lease lapses on an attempt that has not ended.

**`WebhooksProofs`** (`WebhooksAssumption`, with a finite set of handlers).
`BudgetKept` is the hard one. A row's count of attempts goes down when a pause
gives an attempt back, so it does not bound the requests sent; and handlers
without a lease still send. The invariant counts what was sent *together with
what may still be sent*: `Load(d, r)` is the number of requests of cycle r plus
the handlers between claim and request with that cycle in hand. A claim raises
both the load and the row's count, a request leaves the load as it is, a
give-back under the fence lowers both, and every other step can only lower the
load. `Covered` says that the load is at most the row's count while the cycle
lasts and at most the budget after it; `NothingEarly` that a cycle to come has no
load, so that a replay starts at zero. `HoldsAsClaimed` (the row is as the holder
of its lease claimed it) and `SuccessSeen` give `DeliveredMeansAccepted`.
Theorems: `TypeCorrect`, `BudgetIsKept`, `RemovedStaysQuiet`,
`DeliveredWasAccepted`, `LeaseIsRespected`. Conditional: `AcceptedUnlessLost`.
Delivery is at least once; an endpoint is sent again what it has accepted in the
same cycle only after a handler stopped between the answer and its settlement, or
a lease ran out under a handler at work. The invariant `SentOnce` says that a
handler that may still get an acceptance holds its delivery (`HotHeld`), alone
(`HotAlone`), and that what was accepted is settled or in the hands of the handler
that will settle it (`AcceptedIsOver`). A removal takes the row away from its
handler and breaks neither, since nothing claims a removed subscription's row.

**`EmailQueueProofs`** (`EmailQueueAssumption`: the lease is longer than the
provider's deadline). `CallIsHeld` is the heart: who calls the provider holds the
row, with more left of the lease than of its own deadline, so that no tick ends
the one before the other. `Covered` bounds the calls by the counted attempts,
`ToldIsFailed` keeps a message whose sender was told out of reach, and `NoneLost`
follows an acceptance until it is recorded or noted in `unsaid`. Theorems:
`TypeCorrect`, `CallsApart`, `Budget`, `ToldTheTruth`, `LogTellsTheTruth`, and
`LogImplemented`: `EmailQueue` implements `MailLog`. The last needs a second
invariant (`Numbered`) that ties calls to attempts: what a row counts is the
number of its newest call, only the consumer that holds the row can be waiting for
that one, and a call that was abandoned is not the one an owner is about to record.
So a late acceptance is a step of `MailLog` in whatever state it finds the log.

**`EmailFeedbackProofs`** (`EmailFeedbackAssumption`). What a request has found
stays found, because a message recorded as sent under an acceptance stays so
whatever a sender does; what it works on it has begun in the ledger
(`RequestFits`); outcomes and events have their reasons (`OutcomeFits`,
`EventsArose`). Theorems: `FeedbackTypeCorrect`, `OutcomeIsEarned`,
`VerdictIsEvident`, `VerdictIsFinal`. Conditional: `NoneDroppedUnlessOvertaken`,
the statement that `email_feedback_dropped` refutes, unless a send is recorded
between the two questions of a request (`NothingOvertaken`). For it the senders'
calls matter too (`CallsFit`): a call is waited for only while its message is held,
and an abandoned one is never recorded.

**`ScheduledRunsProofs`** (`ScheduledRunsAssumption`). An executor has only items
of a run whose confirmation was asked for in time (`AtWork`, `PastIsOver`,
`Untouched`); from the last look at the lease on, its item has a receipt
(`ReceiptFirst`), and a receipt stays as it is (`FirstReceiptStays`), which makes
the message one; done means handed over (`DoneIsHanded`). Theorems: `TypeCorrect`,
`LapsedIsInert`, `MessageIsOne`, `Budget`, `CompletedIsSent`,
`LeasesAreRespected`. Conditional ones:

- `PassTriesAll`: a pass that is not cut short by its time, over no more
  outstanding items than it looks at, has tried every item of its run when it
  settles it (`HasInSight`: what is pending is on its list or still to be listed).
  `scheduled_starved` needs more than `MaxItems`;
- `FinishedIsSettled`: a confirmed run whose items are all done has a pass on it,
  unless an executor stops on such a run (`Manned`).

**`PaymentRunsProofs`** (`PaymentRunsAssumption`). A pass that owns an item has in
its hands the item as it is (`OwnerKnows`), whatever it saw before it lost it is
harmless (`SeenFits`, `ReplyFits`), an item is in state *creating* only while
nobody has asked, or is about to ask, for its funding (`ItemFits`), and of the
passes about to ask there is one at most (`FundingIsAlone`). The last two are what
makes the set-back after a refusal safe though it asks for the state only.
Theorems: `TypeCorrect`, `DebitedOnce`, `ReleaseIsSafe`, `RecordsStand`.
Conditional: `CoveredUnlessRequeued`. `ReservationsCovered`, which
`payments_requeued` refutes, holds for any amounts unless an approval queues an
item that a cancel has already cancelled. It is the one statement here that needs
a sum over a set: the items are finite in number (in `PaymentRunsAssumption`; they
are rows of a table), and that `Total` grows with its set is proved by a first-order
induction over the subsets of a finite set, ordered by inclusion.

**`QueuedLoadsProofs`** (`QueuedLoadsAssumption`). Whoever holds the lease as it is
about to write has read the progress that is recorded (`WorkerFits`): a takeover
ends every other's claim, and the takeover's own write comes after its own read.
So the destination holds the first chunks, and the load is never at a sequence its
progress has not reached (`LoadFits`), hence completed only with all of them. And
of the messages of a live load there is one that no worker is about to acknowledge
(`Carried`), which `MessageKept` alone would not say of the next step. Theorems:
`TypeCorrect`, `MessagesKept`, `SourceStays`, `Implements`, and `ChunksInOrder`,
what `LoadInOrder` promises spelled out: the destination holds the first chunks in
order, all of them when the load is completed. Conditional: `InputStaysAlone`. If
the queue runs one delivery at a time the input goes only with a completed load
(`OneAtATime`); with two, only `SourceNeeded` is true.

*Only model-checked*: the liveness properties (`EventuallySettled` of three
modules, `EventuallyAnswered`, `PromptEventLands`, `EventuallyResolved`,
`EventuallyReconciled`, `EventuallyOver`), since liveness under fairness and
ENABLED are beyond the installed provers, and of course the three statements that
are refuted (each with a conditional theorem that says what the refutation needs).

## 14. Where the code and its own words differ

Three runs look for a statement that the repository makes of itself and find a
behaviour that breaks it. `PROJECT.json` quotes the lines under "findings".

- `email_feedback_dropped`. `receive` looks the message up first and asks
  afterwards whether anything is in flight. A send recorded between the two is
  neither, and the bounce is finished as ignored, for good; a comment says that
  such an event would be landed by a retry. Asking in the other order would do.
  `NoneDroppedUnlessOvertaken` proves that there is no other way.
- `scheduled_starved`. A pass looks at ten outstanding items, the spent ones among
  them. When ten have failed for good, those behind them are never attempted,
  though a comment promises everything outstanding. `PassTriesAll` proves that up
  to that number every one is tried.
- `payments_requeued`. Cancelling is two statements, and the approval of a draft
  does not ask whether its items are still drafts. An approval in between queues
  cancelled items without a look at the balance; the documentation promises that
  nothing can consume a reservation. `CoveredUnlessRequeued` proves that only such
  an approval does.

Met while modelling, and noted without a run; the theorem in brackets proves that
there is no other way to the same end:

- *Activity log.* A roll between the list of tables and the query of one page ends
  a walk early (`torn`); and an event whose first answer was lost and that is
  delivered again after a roll is in two tables, since the subscriber looks for it
  in the hot one only (`WalksComplete`, `LoggedOnce`). A delivery that is in its
  handler when a snapshot is taken inserts a row below it (`QuietWalksSeeAll`).
- *Outbox.* When a release lowers the budget below the attempts of a pending
  receipt, the third statement of `claim` means to fail it, leaves
  `next_attempt_at` in place, and the table's CHECK refuses the row: the tick ends
  as interrupted, every minute (`ClaimRefused`, `Spent`; `NeverRefused`). A failed
  receipt of a published event that is retried stays pending for ever; it takes two
  registries (`RetriesAreScanned`).
- *Idempotency.* "Already carried out" is answered once a claim is older than its
  lease, though its attempt may have been cut between two batches, or still runs
  (`CarriedOutUnlessLapsed`).
- *Email feedback.* An event about an abandoned call that was accepted late is
  ignored for good, or answered with 503 while some attempt is in flight. An event
  claimed without a message, whose request then stops,
  is answered with "token reused" when the next post finds the message.
- *Email queue.* A call that was abandoned at the deadline may be accepted, even
  when its message is released, sent again or called failed (`AcceptLate`,
  `unsaid`; `LogTellsTheTruth`), and whether the recipient gets a second copy is
  up to what the provider makes of the idempotency key. A message whose attempts
  are spent by stops stays "queued" until the queue gives its job up; a changed
  provider leaves queued rows unclaimable; the container's queue gives a job up
  after five errors.
- *Scheduled runs.* A pass that stops between the last item and `settleRun` leaves
  a run confirmed with nothing due, which no selection visits again
  (`FinishedIsSettled`).
- *Payment runs.* A transient error of a read before funding leaves an item to the
  operator, who can only ask for its status; a quote that failed needs the payment
  to be cancelled and made anew.
- *Migration loads.* A delivery that began sequence n and stalled before its claim
  finds, when it goes on after another has loaded the rest, nothing to do: its
  checkpoint updates no row, which is not noticed, and it deletes the input of a
  load that is still running. The next delivery fails on the missing input, and a
  retry cannot succeed, though every row is loaded. It takes two deliveries at
  once (`InputStaysAlone`); the comment at `queued-loader.ts:58-59` has the input
  deleted "after verified completion".

## 15. Inventory of the system

`PROJECT.json` names the sources of each part and what is left out of it.

| Part | State | Operations and interactions | What is hard, and what must hold |
| --- | --- | --- | --- |
| **Event outbox** (modelled) | events, receipts, drains | fed by every write; drains call subscribers | takeover, late handlers, order within an aggregate, publication by mixed registries |
| **Activity log** (modelled) | hot table, yearly partitions, readers | subscriber of the outbox; roll; paged export | duplicates and gaps across a roll |
| **Idempotency keys** (modelled) | key rows, authorization revision | around every write of the API | one writer, true answers, late batches, authorization after a wait |
| **Outbound webhooks** (partly: not the keys) | subscriptions, deliveries | fan-out trigger on events; minute sweep; commands | overlapping sweeps, budget under pauses, late settlement; key rotation under its overlap |
| **Email queue and delivery log** (partly) | queue messages, attempts of `email_log`, suppressions | producers hand over; a consumer leases an attempt and calls a provider | at-least-once delivery against one call at a time; a provider that accepted and a worker that died |
| **Email feedback** (partly) | ledger of events, verdicts of `email_log` | webhook posts repeated until a 200 | an event before its message; a request that stops half-way |
| **Scheduled runs** (partly) | proposals, runs, items with leases, receipts | cron or workflow proposes, a person confirms, items are executed and handed to the mail queue | three attempts under a 15-minute lease; takeover between check and hand-off; items that are never looked at |
| **Payment runs** (partly) | runs, items by stage, reservations | users, provider, minute sweep | a stage that succeeds at the provider only; a reservation against what is owed |
| **Migration loads driven by a queue** (partly) | loads, intents, progress, lease, input | queue messages by sequence; operator | an old message, a stale loader, a message never sent |
| Email transports and configuration | settings | called by the queue | protocols, data |
| Invoice state, payments, retainers | invoices, ledger, payments, allocations, retainer entries | commands of users, payment webhooks, sweeps | two commands on one version; sums over several tables; overdrawn retainers |
| Invoice generation and time claims | invoice lines, claims on entries | generation, release, reconciliation | an hour is billed once |
| Recurring invoices | definitions, occurrences | cron and user trigger | one invoice per period |
| Invoice documents, sending, links | documents, links | sending ends in the email queue | mostly rendering |
| Reminders, thank-you mail, alerts | sent marks | sweeps, subscribers of the outbox | one message though sweeps repeat |
| Time entries, timers, rounding | entries, running timer | users, calendar import | one running timer; rounding as a function |
| Timesheet approval and locks | submissions, approvals, locks | users and automatic approval | edits against a lock that is being set |
| Rates and money | rate cards, resolutions | read by generation and reports | which rate applies: a function |
| Planning | allocations, time off, holidays | users | single guarded batches |
| Team and workspace records | people, clients, projects, expenses, estimates | users | versions; no process |
| Sessions, sign-in, tokens | sessions, codes, links, tokens | every request | rotation raced by two requests; single use; ceiling on guesses |
| Attachments | object store and rows | upload, delete | two stores, two steps |
| CSV import | staged files, imports with a generation, batches | browser, queue | a browser that lost its lease goes on |
| Harvest extraction, mapping and reconciliation | snapshot files | command line | data |
| Staff payment register and payouts | payments, advances, actuals | users, payment runs | sums; the guards that payment runs meet are in `PaymentRuns` |
| Bank deposits and feeds | deposits, matches | five-minute cron | end in payments |
| QuickBooks mirror | links, cursors, exceptions | outbox subscriber, webhooks, reconciliation | two copies that change on both sides |
| Wise and Stripe payments | links, deliveries | provider webhooks | repeated webhooks |
| Bill and Deel | mirrors, staged hours | cron, users | as QuickBooks |
| Calendar connections | connections with revision, proposals | minute cron, OAuth | a sync under an old credential |
| GitHub publication and reader | journal, work queue | users, cron | a comment that cannot be taken back |
| Account deletion and retention | requests by stage | users, cron | must finish |
| Backups, restore, demo reset | copies | nightly cron, operator | whole-state copies |
| Reports | none | reads | none |
| D1 read and idempotent retry | none | around statements | bounded retry |
| Schema migrations | schema version | before serving | constraints and triggers belong to the parts |
| Container scheduler | one drain at a time | starts drains | close while a drain runs |
| HTTP API | none | parses, authorizes, serializes | its idempotency is a part of its own |
| Worker and container entries | configuration | crons, queues, wiring | the source of fairness |
| Web interface, CLI, client, MCP server, scripts | none the server relies on | call the API | out of scope |

*How the parts meet.* Writes of any part append to the outbox in their own
batch; `Enqueue` of `Outbox` and `Emit` of `Webhooks` stand for all of them. The
outbox calls subscribers (log, mail, QuickBooks, thank-you mail). Any write of
the API may be wrapped by an idempotency key: `Send` of `Idempotency` is any
batch of any of them. Scheduled runs, reminders, invoices and sign-in end in the
mail queue: `HandOff` of `EmailQueue` is theirs. Its feedback comes back through
the delivery log. Sweeps share the crons and nothing else.

*Hazards.* `PROJECT.json` lists them at their lines, with the properties that
cover them or the reason that none does. Three of smaller weight are only noted
here: a calendar sync that began before a reconnect
(`calendar-connections.ts:97`), concurrent guesses of a second factor against
one ceiling (`two-factor.ts:475`), and a GitHub comment whose journal entry is
fenced off (`github-publication-journal.ts:41`).

*Not modelled, and why.* Rendering, transports, the user interface, the generated
client, reports, backups, schema migrations: they keep no protocol state, or read
only. Planning, team and workspace records: each edit is one guarded batch on one
record, about which a model would repeat the guard. The mirrors of other systems
(QuickBooks, Bill, Deel, calendars, GitHub): what they do depends on what the
other side may do, which the code does not say. The business parts (invoices,
retainers, timesheets, rates, sessions) have rules worth a model; they come next
in the plan. By lines most of the repository is of the first kind; the modules
cover the parts where several processes share state.

## 16. Plan

Done: `OrderedDelivery`, `Outbox`, `ActivityLog`, `Idempotency`, `Webhooks`,
`MailLog`, `EmailQueue`, `EmailFeedback`, `ScheduledRuns`, `PaymentRuns`,
`LoadInOrder`, `QueuedLoads`, each with its run and its proofs.

Left, the most important behaviour first, in the same style: constants with a
named assumption, one action per batch or call, an invariant as a conjunction of
named parts, folds in place of RECURSIVE operators.

1. `InvoiceState` with payments and retainers: two commands on one version, the
   ledger against the invoice, a balance never below zero.
2. `RecurringInvoices` and claims on time: one invoice per period, an hour on one
   invoice. An abstract specification: the set of billed hours.
3. `Sessions`: rotation raced by two requests, single-use links, the guess
   ceiling.
4. `Timesheets`: approval, automatic approval and locks.
5. The leases of a CSV import, with a generation in place of the sequence of
   `QueuedLoads`.
6. Pure algorithms against a reference definition over bounded inputs: the
   resolution of rates, the rounding of time.
7. Extensions of what is there: rotation of webhook keys, suppression lists of
   the mail queue, the order in which sweeps visit runs, several loads of one
   destination.
8. Abstract specifications of what webhooks, scheduled runs and payment runs
   promise, and the refinements, in the manner of `OrderedDelivery` and `MailLog`.
