---------------------------- MODULE ScheduledRuns ----------------------------
(***************************************************************************)
(* Scheduled runs: a job proposes a run with its items, an administrator   *)
(* confirms it before its deadline or it lapses (packages/db/src/          *)
(* scheduled-actions.ts, scheduled-runs.ts), and executors, started by     *)
(* crons and workflows, hand the items' messages to the mail queue         *)
(* (run-executor.ts, scheduled-run-dispatch.ts) under a lease per item.    *)
(*                                                                         *)
(* Abstractions:                                                           *)
(*  - a message is the version of the sender settings it was written with: *)
(*    the only thing about it that may differ between two attempts;        *)
(*  - a lease token is the executor that made the claim, for it has one    *)
(*    item in hand;                                                        *)
(*  - the attachment of the report is left out (one command id per item),  *)
(*    and so are report warnings and review links;                         *)
(*  - what a confirmer's, an invoice's or a recipient's change does is to  *)
(*    withdraw an item.                                                    *)
(***************************************************************************)
EXTENDS Integers, FiniteSets

CONSTANTS
  Run,          \* ids of proposed_runs
  Item,         \* ids of run_items, in the order they were proposed
  RunOf,        \* [Item -> Run]
  Executor,     \* concurrent passes of executeRun
  MaxItems,     \* the items one pass looks at
  MaxAttempts,  \* what a proposal and a retry grant: attempt_limit
  Lease,        \* the lease of 15 minutes, in ticks
  MaxRetries,   \* bound: retries an administrator asks for
  MaxSender,    \* bound: changes of the sender settings
  MaxFaults,    \* bound: passes that stop, statements and hand-offs that fail
  None          \* SQL NULL

ASSUME ScheduledRunsAssumption ==
  /\ Item \subseteq Nat /\ RunOf \in [Item -> Run]
  /\ MaxItems \in Nat \ {0}
  /\ MaxAttempts \in Nat \ {0} /\ Lease \in Nat \ {0}
  /\ MaxRetries \in Nat /\ MaxSender \in Nat /\ MaxFaults \in Nat
  /\ None \notin Executor /\ None \notin Item /\ None \notin Run
  /\ None \notin 0..MaxSender

RunState == {"none", "proposed", "confirmed", "cancelled", "expired", "completed"}
ItemState == {"pending", "running", "done", "failed"}
Row == [state : ItemState, attempts : Nat, limit : Nat,
        token : Executor \cup {None}, lease : 0..Lease]
Sender == 0..MaxSender

VARIABLES
  run,      \* proposed_runs.state
  past,     \* is the deadline of the run over?
  asked,    \* runs somebody asked to confirm or cancel before their deadline
  item,     \* run_items
  receipt,  \* scheduled_run_deliveries, with the message_json it keeps
  handed,   \* messages the mail queue has taken, by item
  sender,   \* the current sender settings
  allowed,  \* items whose invoice, recipient and confirmer are as they were
  retries,
  pc,       \* where each executor is
  mine,     \* the run it executes
  todo,     \* the items it found outstanding and has not come to
  hold,     \* the item in its hands
  draft,    \* the sender settings it read for it
  faults

runs == <<run, past, asked, retries>>
executor == <<pc, mine, todo, hold, draft>>
settings == <<sender, allowed>>
vars == <<runs, item, receipt, handed, settings, executor, faults>>

Init ==
  /\ run = [r \in Run |-> "none"] /\ past = [r \in Run |-> FALSE] /\ asked = {}
  /\ item = [i \in Item |-> [state |-> "pending", attempts |-> 0,
                             limit |-> MaxAttempts, token |-> None, lease |-> 0]]
  /\ receipt = [i \in Item |-> None] /\ handed = {}
  /\ sender = 0 /\ allowed = Item /\ retries = 0
  /\ pc = [x \in Executor |-> "idle"] /\ mine = [x \in Executor |-> None]
  /\ todo = [x \in Executor |-> {}] /\ hold = [x \in Executor |-> None]
  /\ draft = [x \in Executor |-> 0]
  /\ faults = 0

ItemsOf(r) == {i \in Item : RunOf[i] = r}
Settle(r, state) == run' = [run EXCEPT ![r] = state]
Goto(x, place) == pc' = [pc EXCEPT ![x] = place]

----------------------------------------------------------------------------
(* Proposals *)

\* One statement: the run, its items and the event of the outbox.
Propose(r) ==
  /\ run[r] = "none" /\ ItemsOf(r) # {}
  /\ Settle(r, "proposed")
  /\ UNCHANGED <<past, asked, retries, item, receipt, handed, settings, executor, faults>>

\* A request to confirm or cancel takes the time; its update comes later.
Ask(r) ==
  /\ run[r] = "proposed" /\ ~past[r] /\ r \notin asked
  /\ asked' = asked \cup {r}
  /\ UNCHANGED <<run, past, retries, item, receipt, handed, settings, executor, faults>>

\* Mutant of Answerable: the deadline is left to the sweep.
AnswerableAnyTime(r) == run[r] = "proposed"

\* state = 'proposed' AND expires_at > now, the time at which it was asked for:
\* the update itself may come after the deadline, but not after the sweep.
Answerable(r) == run[r] = "proposed" /\ r \in asked

Confirm(r) ==
  /\ Answerable(r)
  /\ Settle(r, "confirmed")
  /\ UNCHANGED <<past, asked, retries, item, receipt, handed, settings, executor, faults>>

Cancel(r) ==
  /\ Answerable(r)
  /\ Settle(r, "cancelled")
  /\ UNCHANGED <<past, asked, retries, item, receipt, handed, settings, executor, faults>>

Deadline(r) ==
  /\ run[r] = "proposed" /\ ~past[r]
  /\ past' = [past EXCEPT ![r] = TRUE]
  /\ UNCHANGED <<run, asked, retries, item, receipt, handed, settings, executor, faults>>

\* The sweep, and whoever comes to confirm or cancel too late.
Expire ==
  /\ \E r \in Run : run[r] = "proposed" /\ past[r]
  /\ run' = [r \in Run |-> IF run[r] = "proposed" /\ past[r] THEN "expired" ELSE run[r]]
  /\ UNCHANGED <<past, asked, retries, item, receipt, handed, settings, executor, faults>>

Spent(i) == item[i].attempts >= item[i].limit

\* retry: another MaxAttempts for the items of a run that gave up.
Retry(r) ==
  /\ run[r] = "confirmed" /\ retries < MaxRetries
  /\ \E i \in ItemsOf(r) : item[i].state = "failed" /\ Spent(i)
  /\ retries' = retries + 1
  /\ item' = [i \in Item |->
       IF i \in ItemsOf(r) /\ item[i].state = "failed" /\ Spent(i)
       THEN [item[i] EXCEPT !.limit = item[i].attempts + MaxAttempts]
       ELSE item[i]]
  /\ UNCHANGED <<run, past, asked, receipt, handed, settings, executor, faults>>

\* What the program elsewhere changes under a run.
ChangeSender ==
  /\ sender < MaxSender
  /\ sender' = sender + 1
  /\ UNCHANGED <<runs, item, receipt, handed, allowed, executor, faults>>

Withdraw(i) ==
  /\ i \in allowed
  /\ allowed' = allowed \ {i}
  /\ UNCHANGED <<runs, item, receipt, handed, sender, executor, faults>>

----------------------------------------------------------------------------
(* A pass of executeRun *)

\* The item can be taken: it waits with attempts left, or its lease is over.
Due(i) ==
  \/ item[i].state \in {"pending", "failed"} /\ ~Spent(i)
  \/ item[i].state = "running" /\ item[i].lease = 0

Start(x, r) ==
  /\ pc[x] = "idle"
  /\ run[r] = "confirmed" /\ \E i \in ItemsOf(r) : Due(i)
  /\ mine' = [mine EXCEPT ![x] = r]
  /\ Goto(x, "list")
  /\ UNCHANGED <<runs, item, receipt, handed, settings, todo, hold, draft, faults>>

Outstanding(r) == {i \in ItemsOf(r) : item[i].state # "done"}

\* outstanding, and the first MaxItems of them.
List(x) ==
  /\ pc[x] = "list"
  /\ LET owed == Outstanding(mine[x]) IN
     todo' = [todo EXCEPT ![x] =
                {i \in owed : Cardinality({j \in owed : j < i}) < MaxItems}]
  /\ Goto(x, "pick")
  /\ UNCHANGED <<runs, item, receipt, handed, settings, mine, hold, draft, faults>>

\* The next item; at the end, or when its time is up, the pass settles the run.
Pick(x) ==
  /\ pc[x] = "pick"
  /\ \/ \E i \in todo[x] :
          /\ \A j \in todo[x] : i <= j
          /\ hold' = [hold EXCEPT ![x] = i]
          /\ todo' = [todo EXCEPT ![x] = @ \ {i}]
          /\ Goto(x, "exhaust")
     \/ /\ todo[x] = {} \/ faults < MaxFaults
        /\ hold' = [hold EXCEPT ![x] = None]
        /\ todo' = [todo EXCEPT ![x] = {}]
        /\ Goto(x, "settle")
  /\ faults' = IF hold'[x] = None /\ todo[x] # {} THEN faults + 1 ELSE faults
  /\ UNCHANGED <<runs, item, receipt, handed, settings, mine, draft>>

GivenUp(row) == [row EXCEPT !.state = "failed", !.token = None, !.lease = 0]

\* Mutant of Interrupted: an item's last attempt that was cut off stays as it is.
InterruptedNever(i) == FALSE

Interrupted(i) == item[i].state = "running" /\ Spent(i) /\ item[i].lease = 0

\* The first statement of claimItem.
Exhaust(x) ==
  /\ pc[x] = "exhaust"
  /\ item' = IF Interrupted(hold[x])
             THEN [item EXCEPT ![hold[x]] = GivenUp(@)] ELSE item
  /\ Goto(x, "take")
  /\ UNCHANGED <<runs, receipt, handed, settings, mine, todo, hold, draft, faults>>

Takeable(i) ==
  /\ item[i].state # "done" /\ ~Spent(i)
  /\ item[i].state = "running" => item[i].lease = 0

Taken(row, x) == [row EXCEPT !.state = "running", !.attempts = @ + 1,
                             !.token = x, !.lease = Lease]

\* The second statement of claimItem.
Take(x) ==
  /\ pc[x] = "take"
  /\ IF Takeable(hold[x])
     THEN /\ item' = [item EXCEPT ![hold[x]] = Taken(@, x)]
          /\ Goto(x, "prepare")
     ELSE Goto(x, "pick") /\ UNCHANGED item
  /\ UNCHANGED <<runs, receipt, handed, settings, mine, todo, hold, draft, faults>>

Mine(x) ==
  /\ item[hold[x]].state = "running" /\ item[hold[x]].token = x
  /\ run[mine[x]] = "confirmed"

\* prepare: an earlier attempt's receipt is used again, by the owner only;
\* without one the sender is looked up.
Prepare(x) ==
  /\ pc[x] = "prepare"
  /\ IF receipt[hold[x]] # None
     THEN Goto(x, IF Mine(x) THEN "check" ELSE "fail") /\ UNCHANGED draft
     ELSE Goto(x, "insert") /\ draft' = [draft EXCEPT ![x] = sender]
  /\ UNCHANGED <<runs, item, receipt, handed, settings, mine, todo, hold, faults>>

\* The batch of prepare: the email_log row, whose id is the item's, and the
\* receipt, both or none.
Recorded(x) ==
  IF receipt[hold[x]] = None /\ Mine(x) /\ hold[x] \in allowed
  THEN [receipt EXCEPT ![hold[x]] = draft[x]] ELSE receipt

\* Whether the batch was answered, refused or raced, its receipt is read back.
Insert(x) ==
  /\ pc[x] = "insert"
  /\ receipt' = Recorded(x)
  /\ Goto(x, IF receipt'[hold[x]] = None THEN "fail" ELSE "check")
  /\ UNCHANGED <<runs, item, handed, settings, mine, todo, hold, draft, faults>>

\* The lease is asked for once more, a statement before the hand-off.
Check(x) ==
  /\ pc[x] = "check"
  /\ Goto(x, IF Mine(x) THEN "enqueue" ELSE "fail")
  /\ UNCHANGED <<runs, item, receipt, handed, settings, mine, todo, hold, draft, faults>>

\* What follows a handler that throws.
AfterThrow == "fail"

\* Mutant of Message: a message is written for each attempt.
MessageNow(x) == sender

\* message_json of the receipt, not the message of this attempt.
Message(x) == receipt[hold[x]]

\* enqueuePersisted, which may throw whether or not the queue took the message.
Enqueue(x) ==
  /\ pc[x] = "enqueue"
  /\ LET more == handed \cup {<<hold[x], Message(x)>>} IN
     \/ /\ handed' = more
        /\ Goto(x, "complete")
        /\ UNCHANGED faults
     \/ /\ faults < MaxFaults /\ faults' = faults + 1
        /\ handed' \in {handed, more}
        /\ Goto(x, AfterThrow)
  /\ UNCHANGED <<runs, item, receipt, settings, mine, todo, hold, draft>>

\* Mutant of Owns: a result is settled for whoever runs the item now.
OwnsAny(x) == item[hold[x]].state = "running"

\* state = 'running' AND lease_token = ?
Owns(x) == item[hold[x]].state = "running" /\ item[hold[x]].token = x

Completed(row) == [row EXCEPT !.state = "done", !.token = None, !.lease = 0]

\* completeItem; an error of it counts as an error of the handler.
Complete(x) ==
  /\ pc[x] = "complete"
  /\ LET after == IF Owns(x) THEN [item EXCEPT ![hold[x]] = Completed(@)] ELSE item IN
     \/ item' = after /\ Goto(x, "pick") /\ UNCHANGED faults
     \/ /\ faults < MaxFaults /\ faults' = faults + 1
        /\ item' \in {item, after}
        /\ Goto(x, "fail")
  /\ UNCHANGED <<runs, receipt, handed, settings, mine, todo, hold, draft>>

\* failItem
Fail(x) ==
  /\ pc[x] = "fail"
  /\ item' = IF Owns(x) THEN [item EXCEPT ![hold[x]] = GivenUp(@)] ELSE item
  /\ Goto(x, "pick")
  /\ UNCHANGED <<runs, receipt, handed, settings, mine, todo, hold, draft, faults>>

Finished(r) == \A i \in ItemsOf(r) : item[i].state = "done"

Leave(x) ==
  /\ Goto(x, "idle")
  /\ mine' = [mine EXCEPT ![x] = None] /\ todo' = [todo EXCEPT ![x] = {}]
  /\ hold' = [hold EXCEPT ![x] = None] /\ draft' = [draft EXCEPT ![x] = 0]

\* settleRun
SettleRun(x) ==
  /\ pc[x] = "settle"
  /\ IF run[mine[x]] = "confirmed" /\ Finished(mine[x])
     THEN Settle(mine[x], "completed") ELSE UNCHANGED run
  /\ Leave(x)
  /\ UNCHANGED <<past, asked, retries, item, receipt, handed, settings, faults>>

\* The report is not there, the sender is not available, a read fails.
Throw(x) ==
  /\ pc[x] \in {"prepare", "insert", "check"} /\ faults < MaxFaults
  /\ faults' = faults + 1
  /\ Goto(x, "fail")
  /\ UNCHANGED <<runs, item, receipt, handed, settings, mine, todo, hold, draft>>

\* The pass is gone; a hand-off it was making may have gone through.
Stop(x) ==
  /\ pc[x] # "idle" /\ faults < MaxFaults
  /\ faults' = faults + 1
  /\ Leave(x)
  /\ \/ UNCHANGED handed
     \/ pc[x] = "enqueue" /\ handed' = handed \cup {<<hold[x], Message(x)>>}
  /\ UNCHANGED <<runs, item, receipt, settings>>

\* Leases run down, however long an executor takes.
Tick ==
  /\ \E i \in Item : item[i].lease > 0
  /\ item' = [i \in Item |->
       [item[i] EXCEPT !.lease = IF @ = 0 THEN 0 ELSE @ - 1]]
  /\ UNCHANGED <<runs, receipt, handed, settings, executor, faults>>

----------------------------------------------------------------------------
Proposal(r) ==
  \/ Propose(r) \/ Ask(r) \/ Confirm(r) \/ Cancel(r) \/ Deadline(r) \/ Retry(r)
Step(x) ==
  \/ List(x) \/ Pick(x) \/ Exhaust(x) \/ Take(x) \/ Prepare(x) \/ Insert(x)
  \/ Check(x) \/ Enqueue(x) \/ Complete(x) \/ Fail(x) \/ SettleRun(x)

Next ==
  \/ \E r \in Run : Proposal(r)
  \/ Expire \/ ChangeSender \/ Tick
  \/ \E i \in Item : Withdraw(i)
  \/ \E x \in Executor, r \in Run : Start(x, r)
  \/ \E x \in Executor : Step(x) \/ Throw(x) \/ Stop(x)

Spec == Init /\ [][Next]_vars

\* A cron starts a pass every minute for whatever is due, a pass goes on,
\* the sweep of lapsed proposals runs, and time passes.  Nobody has to confirm.
Fairness ==
  /\ \A r \in Run : SF_vars(\E x \in Executor : Start(x, r))
  /\ \A x \in Executor : WF_vars(Step(x))
  /\ WF_vars(Expire) /\ WF_vars(Tick)
FairSpec == Spec /\ Fairness

----------------------------------------------------------------------------
(* What must hold *)

TypeOK ==
  /\ run \in [Run -> RunState] /\ past \in [Run -> BOOLEAN] /\ asked \subseteq Run
  /\ item \in [Item -> Row]
  /\ receipt \in [Item -> Sender \cup {None}]
  /\ handed \subseteq Item \X Sender
  /\ sender \in Sender /\ allowed \subseteq Item /\ retries \in Nat /\ faults \in Nat
  /\ pc \in [Executor -> {"idle", "list", "pick", "exhaust", "take", "prepare",
                          "insert", "check", "enqueue", "complete", "fail", "settle"}]
  /\ mine \in [Executor -> Run \cup {None}]
  /\ todo \in [Executor -> SUBSET Item]
  /\ hold \in [Executor -> Item \cup {None}]
  /\ draft \in [Executor -> Sender]
  /\ \A i \in Item : item[i].state = "running" <=> item[i].token # None

\* Nothing expires into action: of a run whose deadline passed before anybody
\* asked to answer it, or that lapsed or was cancelled, no item is ever touched
\* and no message handed over, however late an answer asked for in time is
\* written and whenever the sweep comes by (scheduled-actions.ts: nothing
\* expires into action).
NothingExpiresIntoAction ==
  \A r \in Run :
    \/ past[r] /\ r \notin asked
    \/ run[r] \in {"none", "cancelled", "expired"}
    => \A i \in ItemsOf(r) : item[i].state = "pending" /\ receipt[i] = None

\* One message per item: however often an item is attempted, by executors that
\* race or have lost their lease, and whatever becomes of the sender settings
\* meanwhile, the queue is given the message of the first receipt.  It may be
\* given it more than once, under one delivery id: that it is sent no more often
\* than the budget of a delivery allows is EmailQueue's business.
OneMessage ==
  \A m \in handed : receipt[m[1]] = m[2]

\* An attempt belongs to its lease: while it runs, nobody but its owner ends
\* it, the executor whose lease is over and whose handler comes back late
\* included (run-executor.ts: only this lease's owner may settle the result).
LeaseRespected ==
  [][\A i \in Item :
       item[i].state = "running" /\ item[i].lease > 0
         /\ <<item'[i].state, item'[i].token>> # <<item[i].state, item[i].token>>
       => \E x \in Executor : item[i].token = x /\ hold[x] = i
                              /\ pc[x] \in {"complete", "fail"}]_vars

\* Interruptions, takeovers and retries included, an item is attempted at most
\* MaxAttempts times for the confirmation and for each retry asked for.
BudgetKept ==
  \A i \in Item : item[i].attempts <= MaxAttempts * (1 + retries)

\* A run is completed only when the queue has taken the message of every item:
\* no failure is passed over, no item done but not sent.
CompletedMeansHanded ==
  \A r \in Run, i \in Item :
    RunOf[i] = r /\ (run[r] = "completed" \/ item[i].state = "done") =>
      \E m \in handed : m[1] = i

\* Every item of a confirmed run is done in the end, or has failed with its
\* attempts spent, so that an administrator can see and retry it; none is left
\* running by a pass that died, none is left behind (run-executor.ts: runs
\* everything outstanding, once each).
Resolved(i) == item[i].state = "done" \/ (item[i].state = "failed" /\ Spent(i))
EventuallyResolved ==
  <>[](\A i \in Item : run[RunOf[i]] \in {"confirmed", "completed"} => Resolved(i))
=============================================================================
