------------------------- MODULE ScheduledRunsProofs -------------------------
(***************************************************************************)
(* The safety properties of ScheduledRuns, for any runs, items and         *)
(* executors, any lease and any number of stops, failures and retries.     *)
(*                                                                         *)
(* What they rest on: an executor only ever has items of a run that was    *)
(* confirmed in time; past its look at the receipt, the item in its hands  *)
(* has one; and a receipt, once written, stays as it is.                   *)
(***************************************************************************)
EXTENDS ScheduledRuns, FiniteSetTheorems, TLAPS

----------------------------------------------------------------------------
(* The inductive invariant *)

Answered == {"confirmed", "completed"}

\* An executor works on an answered run, and on items of it.
AtWork == \A x \in Executor :
  /\ pc[x] # "idle" => mine[x] \in Run /\ run[mine[x]] \in Answered
  /\ \A i \in todo[x] : RunOf[i] = mine[x]
  /\ pc[x] \in {"idle", "list"} => todo[x] = {}
  /\ pc[x] \notin {"idle", "list", "pick", "settle"} =>
       hold[x] \in Item /\ RunOf[hold[x]] = mine[x]

\* A deadline that passed before anybody asked leaves no way but to lapse.
PastIsOver == \A r \in Run :
  past[r] /\ r \notin asked => run[r] \in {"proposed", "expired"}

\* Only items of an answered run are touched.
Untouched == \A i \in Item :
  run[RunOf[i]] \notin Answered => item[i].state = "pending" /\ receipt[i] = None

\* From the check of the lease on, the message of the item is on record.
ReceiptFirst == \A x \in Executor :
  pc[x] \in {"check", "enqueue", "complete"} => receipt[hold[x]] # None

Attempts == \A i \in Item :
  item[i].attempts <= item[i].limit /\ item[i].limit <= MaxAttempts * (1 + retries)

HandedOver(i) == \E m \in handed : m[1] = i
DoneIsHanded ==
  /\ \A i \in Item : item[i].state = "done" => HandedOver(i)
  /\ \A x \in Executor : pc[x] = "complete" => HandedOver(hold[x])
CompletedIsDone ==
  \A i \in Item : run[RunOf[i]] = "completed" => item[i].state = "done"

IInv ==
  /\ TypeOK /\ AtWork /\ PastIsOver /\ Untouched /\ ReceiptFirst /\ OneMessage
  /\ Attempts /\ DoneIsHanded /\ CompletedIsDone

----------------------------------------------------------------------------
(* Rows *)

LEMMA Bounds ==
  /\ MaxAttempts \in Nat /\ MaxAttempts > 0 /\ Lease \in Nat /\ Lease > 0
  /\ MaxSender \in Nat /\ RunOf \in [Item -> Run]
  /\ None \notin Executor /\ None \notin Item /\ None \notin Run
BY ScheduledRunsAssumption

LEMMA GivenUpRow ==
  ASSUME NEW r \in Row
  PROVE  /\ GivenUp(r) \in Row /\ GivenUp(r).state = "failed" /\ GivenUp(r).token = None
         /\ GivenUp(r).attempts = r.attempts /\ GivenUp(r).limit = r.limit
<1>1. 0 \in 0..Lease
  BY Bounds
<1> QED
  BY <1>1 DEF GivenUp, Row, ItemState

LEMMA CompletedRow ==
  ASSUME NEW r \in Row
  PROVE  /\ Completed(r) \in Row /\ Completed(r).state = "done"
         /\ Completed(r).token = None
         /\ Completed(r).attempts = r.attempts /\ Completed(r).limit = r.limit
<1>1. 0 \in 0..Lease
  BY Bounds
<1> QED
  BY <1>1 DEF Completed, Row, ItemState

LEMMA TakenRow ==
  ASSUME NEW r \in Row, NEW x \in Executor
  PROVE  /\ Taken(r, x) \in Row /\ Taken(r, x).state = "running" /\ Taken(r, x).token = x
         /\ Taken(r, x).attempts = r.attempts + 1 /\ Taken(r, x).limit = r.limit
<1>1. Lease \in 0..Lease /\ r.attempts + 1 \in Nat
  BY Bounds DEF Row
<1> QED
  BY <1>1 DEF Taken, Row, ItemState

LEMMA GrantedRow ==
  ASSUME NEW r \in Row, NEW n \in Nat
  PROVE  LET q == [r EXCEPT !.limit = n] IN
         /\ q \in Row /\ q.state = r.state /\ q.token = r.token
         /\ q.attempts = r.attempts /\ q.limit = n
BY DEF Row

LEMMA AgedRow ==
  ASSUME NEW r \in Row
  PROVE  LET q == [r EXCEPT !.lease = IF @ = 0 THEN 0 ELSE @ - 1] IN
         /\ q \in Row /\ q.state = r.state /\ q.token = r.token
         /\ q.attempts = r.attempts /\ q.limit = r.limit
<1>1. (IF r.lease = 0 THEN 0 ELSE r.lease - 1) \in 0..Lease
  BY Bounds DEF Row
<1> QED
  BY <1>1 DEF Row

----------------------------------------------------------------------------
(* What most steps have in common *)

Place == {"idle", "list", "pick", "exhaust", "take", "prepare", "insert", "check",
          "enqueue", "complete", "fail", "settle"}
InItem == Place \ {"idle", "list", "pick", "settle"}

\* An item of an answered run moves on, and is done only with its message out.
Onward(i) ==
  /\ item[i].state = "done" => item'[i].state = "done"
  /\ item'[i].limit = item[i].limit /\ item'[i].attempts <= item[i].limit
  /\ item'[i].state = "done" => HandedOver(i)
  /\ run[RunOf[i]] \in Answered

LEMMA ItemStep ==
  ASSUME IInv, TypeOK', UNCHANGED <<run, past, asked, retries, receipt>>, handed \subseteq handed',
         \A i \in Item : item'[i] = item[i] \/ Onward(i)
  PROVE  /\ PastIsOver' /\ Untouched' /\ Attempts' /\ CompletedIsDone'
         /\ \A i \in Item : item'[i].state = "done" => HandedOver(i)'
<1>1. PastIsOver'
  BY DEF IInv, PastIsOver
<1>2. Untouched' /\ CompletedIsDone'
  BY DEF IInv, Untouched, CompletedIsDone, Onward
<1>3. Attempts'
  BY DEF IInv, Attempts, Onward
<1>4. \A i \in Item : item'[i].state = "done" => HandedOver(i)'
  BY DEF IInv, DoneIsHanded, HandedOver, Onward
<1> QED
  BY <1>1, <1>2, <1>3, <1>4

\* A step of an executor that has an item in hand, and keeps it.
LEMMA InItemKeeps ==
  ASSUME IInv, TypeOK', NEW x \in Executor, NEW p \in Place \ {"idle", "list"},
         pc[x] \in InItem, pc' = [pc EXCEPT ![x] = p],
         UNCHANGED <<run, past, asked, retries, receipt, mine, todo, hold>>,
         handed \subseteq handed', OneMessage',
         \A i \in Item : item'[i] = item[i] \/ Onward(i),
         p \in {"check", "enqueue", "complete"} => receipt[hold[x]] # None,
         p = "complete" => HandedOver(hold[x])'
  PROVE  IInv'
<1>1. /\ pc'[x] = p /\ \A y \in Executor \ {x} : pc'[y] = pc[y]
      /\ pc[x] \notin {"idle", "list", "pick", "settle"}
  BY DEF IInv, TypeOK, InItem
<1>2. AtWork'
  BY <1>1 DEF IInv, AtWork
<1>3. ReceiptFirst'
  BY <1>1 DEF IInv, ReceiptFirst
<1>4. \A y \in Executor : pc'[y] = "complete" => HandedOver(hold[y])'
  BY <1>1 DEF IInv, DoneIsHanded, HandedOver
<1>5. DoneIsHanded'
  BY <1>4, ItemStep DEF DoneIsHanded
<1> QED
  BY <1>2, <1>3, <1>5, ItemStep DEF IInv

\* A step that concerns neither items nor messages, and leaves the executors
\* of other runs alone.
LEMMA AsideKeeps ==
  ASSUME IInv, TypeOK', UNCHANGED <<run, past, asked, retries, item, receipt, handed, pc, mine, todo, hold>>
  PROVE  IInv'
<1>1. PastIsOver' /\ Untouched' /\ CompletedIsDone'
  BY DEF IInv, PastIsOver, Untouched, CompletedIsDone
<1>2. Attempts' /\ AtWork' /\ ReceiptFirst'
  BY DEF IInv, Attempts, AtWork, ReceiptFirst
<1>3. OneMessage' /\ DoneIsHanded'
  BY DEF IInv, OneMessage, DoneIsHanded, HandedOver
<1> QED
  BY <1>1, <1>2, <1>3 DEF IInv

----------------------------------------------------------------------------
(* Proposals *)

LEMMA InitInv == Init => IInv
<1> SUFFICES ASSUME Init PROVE IInv
  OBVIOUS
<1>1. \A i \in Item : item[i] \in Row /\ item[i].state = "pending" /\ item[i].token = None
                      /\ item[i].attempts = 0 /\ item[i].limit = MaxAttempts
  BY Bounds DEF Init, Row, ItemState
<1>2. item \in [Item -> Row]
  BY <1>1 DEF Init
<1>3. TypeOK
  BY <1>1, <1>2, Bounds DEF Init, TypeOK, RunState, Sender
<1>4. Attempts
  <2>1. MaxAttempts * (1 + 0) = MaxAttempts
    BY Bounds
  <2> QED
    BY <1>1, <2>1, Bounds DEF Init, Attempts
<1>5. AtWork /\ PastIsOver /\ Untouched /\ ReceiptFirst /\ OneMessage
  BY <1>1, Bounds DEF Init, AtWork, PastIsOver, Untouched, ReceiptFirst, OneMessage
<1>6. DoneIsHanded /\ CompletedIsDone
  BY <1>1, Bounds DEF Init, DoneIsHanded, CompletedIsDone
<1> QED
  BY <1>3, <1>4, <1>5, <1>6 DEF IInv

\* The runs move on; an answered one stays so, only a proposed one is answered,
\* and in time.
LEMMA RunsKeep ==
  ASSUME IInv, TypeOK', UNCHANGED <<retries, item, receipt, handed, executor>>,
         \A r \in Run : run[r] \in Answered => run'[r] = run[r],
         \A r \in Run : run'[r] = "completed" => run[r] = "completed",
         PastIsOver'
  PROVE  IInv'
<1>1. AtWork' /\ ReceiptFirst'
  BY DEF IInv, AtWork, ReceiptFirst, executor
<1>2. Untouched' /\ CompletedIsDone'
  BY Bounds DEF IInv, Untouched, CompletedIsDone
<1>3. Attempts'
  BY DEF IInv, Attempts
<1>4. OneMessage' /\ DoneIsHanded'
  BY DEF IInv, OneMessage, DoneIsHanded, HandedOver, executor
<1> QED
  BY <1>1, <1>2, <1>3, <1>4 DEF IInv

LEMMA AnswerKeeps ==
  ASSUME IInv, NEW r \in Run,
         Propose(r) \/ Ask(r) \/ Confirm(r) \/ Cancel(r) \/ Deadline(r) \/ Expire
  PROVE  IInv'
<1>1. run' \in [Run -> RunState]
  BY DEF Propose, Ask, Confirm, Cancel, Deadline, Expire, Settle, IInv, TypeOK, RunState
<1>2. past' \in [Run -> BOOLEAN] /\ asked' \subseteq Run
  BY DEF Propose, Ask, Confirm, Cancel, Deadline, Expire, IInv, TypeOK
<1>3. /\ UNCHANGED <<retries, item, receipt, handed, executor, settings, faults>>
  BY DEF Propose, Ask, Confirm, Cancel, Deadline, Expire
<1>4. TypeOK'
  BY <1>1, <1>2, <1>3 DEF IInv, TypeOK, settings, executor
<1>5. /\ \A s \in Run : run[s] \in Answered => run'[s] = run[s]
      /\ \A s \in Run : run'[s] = "completed" => run[s] = "completed"
  BY DEF Propose, Ask, Confirm, Cancel, Deadline, Expire, Answerable, Settle,
         IInv, TypeOK, RunState, Answered
<1>6. PastIsOver'
  BY DEF Propose, Ask, Confirm, Cancel, Deadline, Expire, Answerable, Settle,
         IInv, TypeOK, PastIsOver
<1> QED
  BY <1>3, <1>4, <1>5, <1>6, RunsKeep

LEMMA RetryKeeps == ASSUME IInv, NEW r \in Run, Retry(r) PROVE IInv'
<1> DEFINE more(i) == [item[i] EXCEPT !.limit = item[i].attempts + MaxAttempts]
<1>1. ASSUME NEW i \in Item
      PROVE  /\ item'[i] \in Row /\ item'[i].state = item[i].state
             /\ item'[i].token = item[i].token /\ item'[i].attempts = item[i].attempts
             /\ \/ item'[i].limit = item[i].limit
                \/ item'[i].limit = item[i].attempts + MaxAttempts
  <2>1. item[i] \in Row /\ item[i].attempts + MaxAttempts \in Nat
    BY Bounds DEF IInv, TypeOK, Row
  <2>2. item'[i] = item[i] \/ item'[i] = more(i)
    BY DEF Retry
  <2>3. /\ more(i) \in Row /\ more(i).state = item[i].state
        /\ more(i).token = item[i].token /\ more(i).attempts = item[i].attempts
        /\ more(i).limit = item[i].attempts + MaxAttempts
    BY <2>1, GrantedRow
  <2> QED
    BY <2>1, <2>2, <2>3
<1>2. item' \in [Item -> Row] /\ retries' \in Nat
  BY <1>1 DEF Retry, IInv, TypeOK
<1>3. TypeOK'
  BY <1>1, <1>2 DEF Retry, IInv, TypeOK, settings, executor
<1>4. UNCHANGED <<run, past, asked, receipt, handed, executor>> /\ retries' = retries + 1
  BY DEF Retry
<1>5. PastIsOver' /\ Untouched' /\ CompletedIsDone'
  BY <1>1, <1>4 DEF IInv, PastIsOver, Untouched, CompletedIsDone
<1>6. AtWork' /\ ReceiptFirst' /\ OneMessage'
  BY <1>4 DEF IInv, AtWork, ReceiptFirst, OneMessage, executor
<1>7. DoneIsHanded'
  BY <1>1, <1>4 DEF IInv, DoneIsHanded, HandedOver, executor
<1>8. Attempts'
  <2> SUFFICES ASSUME NEW i \in Item
               PROVE  /\ item'[i].attempts <= item'[i].limit
                      /\ item'[i].limit <= MaxAttempts * (1 + retries')
    BY DEF Attempts
  <2>1. /\ item[i].attempts \in Nat /\ item[i].limit \in Nat /\ retries \in Nat
        /\ item[i].attempts <= item[i].limit
        /\ item[i].limit <= MaxAttempts * (1 + retries)
    BY DEF IInv, TypeOK, Row, Attempts
  <2>2. /\ MaxAttempts * (1 + retries') = MaxAttempts * (1 + retries) + MaxAttempts
        /\ MaxAttempts * (1 + retries) \in Nat
    BY <1>4, <2>1, Bounds
  <2> QED
    BY <1>1, <2>1, <2>2, Bounds
<1> QED
  BY <1>3, <1>5, <1>6, <1>7, <1>8 DEF IInv

LEMMA SettingsKeep ==
  ASSUME IInv, ChangeSender \/ \E i \in Item : Withdraw(i) PROVE IInv'
<1>1. TypeOK'
  <2>1. CASE ChangeSender
    <3>1. sender' \in Sender
      BY <2>1, Bounds DEF ChangeSender, IInv, TypeOK, Sender
    <3> QED
      BY <2>1, <3>1 DEF ChangeSender, IInv, TypeOK, runs, executor
  <2>2. CASE \E i \in Item : Withdraw(i)
    BY <2>2 DEF Withdraw, IInv, TypeOK, runs, executor
  <2> QED
    BY <2>1, <2>2
<1> QED
  BY <1>1, AsideKeeps DEF ChangeSender, Withdraw, runs, executor

LEMMA TickKeeps == ASSUME IInv, Tick PROVE IInv'
<1>1. ASSUME NEW i \in Item
      PROVE  /\ item'[i] \in Row /\ item'[i].state = item[i].state
             /\ item'[i].token = item[i].token /\ item'[i].attempts = item[i].attempts
             /\ item'[i].limit = item[i].limit
  <2>1. item[i] \in Row
    BY DEF IInv, TypeOK
  <2>2. item'[i] = [item[i] EXCEPT !.lease = IF @ = 0 THEN 0 ELSE @ - 1]
    BY DEF Tick
  <2> QED
    BY <2>1, <2>2, AgedRow
<1>2. item' \in [Item -> Row]
  BY <1>1 DEF Tick
<1>3. TypeOK'
  BY <1>1, <1>2 DEF Tick, IInv, TypeOK, runs, settings, executor
<1>4. UNCHANGED <<run, past, asked, retries, receipt, handed, pc, mine, todo, hold>>
  BY DEF Tick, runs, executor
<1>5. PastIsOver' /\ Untouched' /\ CompletedIsDone'
  BY <1>1, <1>4 DEF IInv, PastIsOver, Untouched, CompletedIsDone
<1>6. AtWork' /\ ReceiptFirst' /\ OneMessage'
  BY <1>4 DEF IInv, AtWork, ReceiptFirst, OneMessage
<1>7. DoneIsHanded' /\ Attempts'
  BY <1>1, <1>4 DEF IInv, DoneIsHanded, HandedOver, Attempts
<1> QED
  BY <1>3, <1>5, <1>6, <1>7 DEF IInv

----------------------------------------------------------------------------
(* A pass *)

\* A step of an executor that only has to do with its own place.
LEMMA PassKeeps ==
  ASSUME IInv, TypeOK', NEW x \in Executor, UNCHANGED <<run, past, asked, retries, item, receipt, handed>>,
         \A y \in Executor \ {x} : pc'[y] = pc[y] /\ mine'[y] = mine[y]
                                   /\ todo'[y] = todo[y] /\ hold'[y] = hold[y],
         pc'[x] # "idle" => mine'[x] \in Run /\ run[mine'[x]] \in Answered,
         \A i \in todo'[x] : RunOf[i] = mine'[x],
         pc'[x] \in {"idle", "list"} => todo'[x] = {},
         pc'[x] \in {"idle", "list", "pick", "settle", "exhaust"},
         pc'[x] = "exhaust" => hold'[x] \in Item /\ RunOf[hold'[x]] = mine'[x]
  PROVE  IInv'
<1>1. AtWork'
  BY DEF IInv, AtWork
<1>2. ReceiptFirst' /\ OneMessage'
  BY DEF IInv, ReceiptFirst, OneMessage
<1>3. DoneIsHanded'
  BY DEF IInv, DoneIsHanded, HandedOver
<1>4. PastIsOver' /\ Untouched' /\ Attempts' /\ CompletedIsDone'
  BY DEF IInv, PastIsOver, Untouched, Attempts, CompletedIsDone
<1> QED
  BY <1>1, <1>2, <1>3, <1>4 DEF IInv

LEMMA StartKeeps ==
  ASSUME IInv, NEW x \in Executor, NEW r \in Run, Start(x, r) PROVE IInv'
<1>1. TypeOK'
  BY DEF Start, Goto, IInv, TypeOK, runs, settings
<1>2. /\ pc'[x] = "list" /\ mine'[x] = r /\ todo'[x] = todo[x] /\ run[r] = "confirmed"
      /\ \A y \in Executor \ {x} : pc'[y] = pc[y] /\ mine'[y] = mine[y]
                                   /\ todo'[y] = todo[y] /\ hold'[y] = hold[y]
      /\ UNCHANGED <<run, past, asked, retries, item, receipt, handed>>
  BY DEF Start, Goto, IInv, TypeOK, runs
<1>3. todo[x] = {}
  BY DEF IInv, AtWork, Start
<1> QED
  BY <1>1, <1>2, <1>3, PassKeeps DEF Answered


LEMMA ListKeeps == ASSUME IInv, NEW x \in Executor, List(x) PROVE IInv'
<1> DEFINE owed == Outstanding(mine[x])
           few == {i \in owed : Cardinality({j \in owed : j < i}) < MaxItems}
<1>1. few \subseteq Item /\ \A i \in few : RunOf[i] = mine[x]
  BY DEF Outstanding, ItemsOf
<1>2. todo' = [todo EXCEPT ![x] = few]
  BY DEF List
<1> HIDE DEF few
<1>3. TypeOK'
  BY <1>1, <1>2 DEF List, Goto, IInv, TypeOK, runs, settings
<1>4. /\ pc'[x] = "pick" /\ pc[x] = "list" /\ mine'[x] = mine[x] /\ todo'[x] = few
      /\ \A y \in Executor \ {x} : pc'[y] = pc[y] /\ mine'[y] = mine[y]
                                   /\ todo'[y] = todo[y] /\ hold'[y] = hold[y]
      /\ UNCHANGED <<run, past, asked, retries, item, receipt, handed>>
  BY <1>2 DEF List, Goto, IInv, TypeOK, runs
<1>5. mine[x] \in Run /\ run[mine[x]] \in Answered
  BY <1>4 DEF IInv, AtWork
<1> QED
  BY <1>1, <1>3, <1>4, <1>5, PassKeeps

LEMMA PickKeeps == ASSUME IInv, NEW x \in Executor, Pick(x) PROVE IInv'
<1>1. /\ pc[x] = "pick" /\ mine[x] \in Run /\ run[mine[x]] \in Answered
      /\ todo[x] \subseteq Item /\ \A i \in todo[x] : RunOf[i] = mine[x]
  BY DEF Pick, IInv, TypeOK, AtWork
<1>2. /\ \A y \in Executor \ {x} : pc'[y] = pc[y] /\ mine'[y] = mine[y]
                                   /\ todo'[y] = todo[y] /\ hold'[y] = hold[y]
      /\ mine'[x] = mine[x]
      /\ UNCHANGED <<run, past, asked, retries, item, receipt, handed>>
  BY DEF Pick, Goto, IInv, TypeOK, runs
<1>3. \/ /\ pc' = [pc EXCEPT ![x] = "exhaust"]
         /\ \E i \in todo[x] : /\ hold' = [hold EXCEPT ![x] = i]
                               /\ todo' = [todo EXCEPT ![x] = todo[x] \ {i}]
      \/ /\ pc' = [pc EXCEPT ![x] = "settle"]
         /\ hold' = [hold EXCEPT ![x] = None] /\ todo' = [todo EXCEPT ![x] = {}]
  BY DEF Pick, Goto
<1>4. faults' \in Nat
  BY DEF Pick, IInv, TypeOK
<1>5. TypeOK'
  <2>1. /\ pc' \in [Executor -> {"idle", "list", "pick", "exhaust", "take", "prepare",
                      "insert", "check", "enqueue", "complete", "fail", "settle"}]
        /\ hold' \in [Executor -> Item \cup {None}]
        /\ todo' \in [Executor -> SUBSET Item]
    BY <1>1, <1>3 DEF IInv, TypeOK
  <2> QED
    BY <1>4, <2>1 DEF Pick, IInv, TypeOK, runs, settings
<1>6. \/ /\ pc'[x] = "exhaust" /\ hold'[x] \in todo[x] /\ todo'[x] \subseteq todo[x]
      \/ /\ pc'[x] = "settle" /\ todo'[x] = {}
  BY <1>3 DEF IInv, TypeOK
<1> QED
  BY <1>1, <1>2, <1>5, <1>6, PassKeeps

LEMMA LeaveMeans ==
  ASSUME IInv, NEW x \in Executor, Leave(x)
  PROVE  /\ pc'[x] = "idle" /\ todo'[x] = {}
         /\ \A y \in Executor \ {x} : pc'[y] = pc[y] /\ mine'[y] = mine[y]
                                      /\ todo'[y] = todo[y] /\ hold'[y] = hold[y]
         /\ pc' \in [Executor -> {"idle", "list", "pick", "exhaust", "take", "prepare",
                      "insert", "check", "enqueue", "complete", "fail", "settle"}]
         /\ mine' \in [Executor -> Run \cup {None}]
         /\ todo' \in [Executor -> SUBSET Item]
         /\ hold' \in [Executor -> Item \cup {None}]
         /\ draft' \in [Executor -> Sender]
<1>1. 0 \in Sender
  BY Bounds DEF Sender
<1> QED
  BY <1>1 DEF Leave, Goto, IInv, TypeOK

LEMMA InHand ==
  ASSUME IInv, NEW x \in Executor, pc[x] \in InItem
  PROVE  /\ hold[x] \in Item /\ item[hold[x]] \in Row /\ RunOf[hold[x]] = mine[x]
         /\ mine[x] \in Run /\ run[mine[x]] \in Answered
BY DEF IInv, TypeOK, AtWork, InItem

LEMMA ExhaustKeeps == ASSUME IInv, NEW x \in Executor, Exhaust(x) PROVE IInv'
<1>1. pc[x] \in InItem /\ pc' = [pc EXCEPT ![x] = "take"]
      /\ UNCHANGED <<run, past, asked, retries, receipt, handed, settings, mine, todo, hold, draft, faults>>
  BY DEF Exhaust, Goto, InItem, Place, runs
<1>2. hold[x] \in Item /\ item[hold[x]] \in Row /\ run[RunOf[hold[x]]] \in Answered
  BY <1>1, InHand
<1>3. item' = item \/ (Interrupted(hold[x])
                        /\ item' = [item EXCEPT ![hold[x]] = GivenUp(item[hold[x]])])
  BY DEF Exhaust
<1>4. \A i \in Item : item'[i] = item[i] \/ Onward(i)
  <2>1. item[hold[x]].attempts <= item[hold[x]].limit
    BY <1>2 DEF IInv, Attempts
  <2> QED
    BY <1>2, <1>3, <2>1, GivenUpRow DEF Onward, Interrupted, IInv, TypeOK
<1>5. TypeOK'
  <2>1. item' \in [Item -> Row]
    BY <1>2, <1>3, GivenUpRow DEF IInv, TypeOK
  <2>2. \A i \in Item : item'[i].state = "running" <=> item'[i].token # None
    BY <1>2, <1>3, GivenUpRow DEF IInv, TypeOK
  <2> QED
    BY <1>1, <2>1, <2>2 DEF IInv, TypeOK, settings
<1>6. OneMessage'
  BY <1>1 DEF IInv, OneMessage
<1> QED
  BY <1>1, <1>4, <1>5, <1>6, InItemKeeps DEF Place

LEMMA TakeKeeps == ASSUME IInv, NEW x \in Executor, Take(x) PROVE IInv'
<1>1. pc[x] \in InItem
      /\ UNCHANGED <<run, past, asked, retries, receipt, handed, settings, mine, todo, hold, draft, faults>>
  BY DEF Take, InItem, Place, runs
<1>2. hold[x] \in Item /\ item[hold[x]] \in Row /\ run[RunOf[hold[x]]] \in Answered
  BY <1>1, InHand
<1>3. \/ /\ item' = item /\ pc' = [pc EXCEPT ![x] = "pick"]
      \/ /\ Takeable(hold[x]) /\ pc' = [pc EXCEPT ![x] = "prepare"]
         /\ item' = [item EXCEPT ![hold[x]] = Taken(item[hold[x]], x)]
  BY DEF Take, Goto
<1>4. \A i \in Item : item'[i] = item[i] \/ Onward(i)
  <2>1. ASSUME Takeable(hold[x]) PROVE item[hold[x]].attempts + 1 <= item[hold[x]].limit
    BY <1>2, <2>1 DEF Takeable, Spent, Row
  <2> QED
    BY <1>2, <1>3, <2>1, TakenRow DEF Onward, Takeable, IInv, TypeOK
<1>5. TypeOK'
  <2>0. /\ Taken(item[hold[x]], x) \in Row
        /\ Taken(item[hold[x]], x).state = "running"
        /\ Taken(item[hold[x]], x).token # None
    BY <1>2, TakenRow, Bounds
  <2>1. item' \in [Item -> Row]
    BY <1>2, <1>3, <2>0 DEF IInv, TypeOK
  <2>2. \A i \in Item : item'[i].state = "running" <=> item'[i].token # None
    BY <1>2, <1>3, <2>0 DEF IInv, TypeOK
  <2>3. pc' \in [Executor -> {"idle", "list", "pick", "exhaust", "take", "prepare",
                      "insert", "check", "enqueue", "complete", "fail", "settle"}]
    BY <1>3 DEF IInv, TypeOK
  <2> QED
    BY <1>1, <2>1, <2>2, <2>3 DEF IInv, TypeOK, settings
<1>6. OneMessage'
  BY <1>1 DEF IInv, OneMessage
<1> QED
  BY <1>1, <1>3, <1>4, <1>5, <1>6, InItemKeeps DEF Place

LEMMA LookKeeps ==
  ASSUME IInv, NEW x \in Executor, Prepare(x) \/ Check(x) \/ Throw(x) PROVE IInv'
<1>1. pc[x] \in InItem
      /\ UNCHANGED <<run, past, asked, retries, item, receipt, handed, settings, mine, todo, hold>>
  BY DEF Prepare, Check, Throw, InItem, Place, runs
<1>2. \E p \in {"check", "fail", "insert", "enqueue"} :
        /\ pc' = [pc EXCEPT ![x] = p]
        /\ p \in {"check", "enqueue"} => receipt[hold[x]] # None
  BY DEF Prepare, Check, Throw, Goto, IInv, ReceiptFirst
<1>3. TypeOK'
  <2>1. draft' \in [Executor -> Sender] /\ faults' \in Nat
    BY DEF Prepare, Check, Throw, IInv, TypeOK
  <2>2. pc' \in [Executor -> {"idle", "list", "pick", "exhaust", "take", "prepare",
                      "insert", "check", "enqueue", "complete", "fail", "settle"}]
    BY <1>2 DEF IInv, TypeOK
  <2> QED
    BY <1>1, <2>1, <2>2 DEF IInv, TypeOK, settings
<1>4. OneMessage'
  BY <1>1 DEF IInv, OneMessage
<1> QED
  BY <1>1, <1>2, <1>3, <1>4, InItemKeeps DEF Place

LEMMA EnqueueKeeps == ASSUME IInv, NEW x \in Executor, Enqueue(x) PROVE IInv'
<1>1. pc[x] \in InItem /\ pc[x] = "enqueue"
      /\ UNCHANGED <<run, past, asked, retries, item, receipt, settings, mine, todo, hold, draft>>
  BY DEF Enqueue, InItem, Place, runs
<1>2. hold[x] \in Item /\ receipt[hold[x]] # None /\ receipt[hold[x]] \in Sender
  BY <1>1, InHand DEF IInv, TypeOK, ReceiptFirst
<1>3. /\ handed' \in {handed, handed \cup {<<hold[x], receipt[hold[x]]>>}}
      /\ faults' \in Nat
      /\ \/ pc' = [pc EXCEPT ![x] = "fail"]
         \/ /\ pc' = [pc EXCEPT ![x] = "complete"]
            /\ handed' = handed \cup {<<hold[x], receipt[hold[x]]>>}
  BY DEF Enqueue, Message, AfterThrow, Goto, IInv, TypeOK
<1>4. TypeOK'
  <2>1. handed' \subseteq Item \X Sender
    BY <1>2, <1>3 DEF IInv, TypeOK
  <2>2. pc' \in [Executor -> {"idle", "list", "pick", "exhaust", "take", "prepare",
                      "insert", "check", "enqueue", "complete", "fail", "settle"}]
    BY <1>3 DEF IInv, TypeOK
  <2> QED
    BY <1>1, <1>3, <2>1, <2>2 DEF IInv, TypeOK, settings
<1>5. OneMessage'
  BY <1>1, <1>3 DEF IInv, OneMessage
<1>6. pc'[x] = "complete" => HandedOver(hold[x])'
  <2>1. CASE pc' = [pc EXCEPT ![x] = "fail"]
    BY <2>1 DEF IInv, TypeOK
  <2>2. CASE handed' = handed \cup {<<hold[x], receipt[hold[x]]>>}
    <3>1. <<hold'[x], receipt[hold[x]]>> \in handed'
      BY <1>1, <2>2
    <3> QED
      BY <3>1, Zenon DEF HandedOver
  <2> QED
    BY <1>3, <2>1, <2>2
<1>7. handed \subseteq handed'
  BY <1>3
<1>8. CASE pc' = [pc EXCEPT ![x] = "fail"]
  BY <1>1, <1>4, <1>5, <1>7, <1>8, InItemKeeps DEF Place
<1>9. CASE pc' = [pc EXCEPT ![x] = "complete"]
  <2>1. pc'[x] = "complete"
    BY <1>9 DEF IInv, TypeOK
  <2> QED
    BY <1>1, <1>2, <1>4, <1>5, <1>6, <1>7, <1>9, <2>1, InItemKeeps DEF Place
<1> QED
  BY <1>3, <1>8, <1>9

LEMMA CompleteKeeps ==
  ASSUME IInv, NEW x \in Executor, Complete(x) \/ Fail(x) PROVE IInv'
<1>1. pc[x] \in InItem
      /\ UNCHANGED <<run, past, asked, retries, receipt, handed, settings, mine, todo, hold, draft>>
  BY DEF Complete, Fail, InItem, Place, runs
<1>2. hold[x] \in Item /\ item[hold[x]] \in Row /\ run[RunOf[hold[x]]] \in Answered
  BY <1>1, InHand
<1>3. \/ item' = item
      \/ /\ Owns(x) /\ pc[x] = "complete"
         /\ item' = [item EXCEPT ![hold[x]] = Completed(item[hold[x]])]
      \/ /\ Owns(x)
         /\ item' = [item EXCEPT ![hold[x]] = GivenUp(item[hold[x]])]
  BY DEF Complete, Fail
<1>4. \E p \in {"pick", "fail"} : pc' = [pc EXCEPT ![x] = p]
  BY DEF Complete, Fail, Goto
<1>5. \A i \in Item : item'[i] = item[i] \/ Onward(i)
  <2>1. item[hold[x]].attempts <= item[hold[x]].limit
    BY <1>2 DEF IInv, Attempts
  <2>2. pc[x] = "complete" => HandedOver(hold[x])
    BY DEF IInv, DoneIsHanded
  <2> QED
    BY <1>2, <1>3, <2>1, <2>2, GivenUpRow, CompletedRow DEF Onward, Owns, IInv, TypeOK
<1>6. TypeOK'
  <2>1. item' \in [Item -> Row]
    BY <1>2, <1>3, GivenUpRow, CompletedRow DEF IInv, TypeOK
  <2>2. \A i \in Item : item'[i].state = "running" <=> item'[i].token # None
    BY <1>2, <1>3, GivenUpRow, CompletedRow DEF IInv, TypeOK
  <2>3. pc' \in [Executor -> {"idle", "list", "pick", "exhaust", "take", "prepare",
                      "insert", "check", "enqueue", "complete", "fail", "settle"}]
    BY <1>4 DEF IInv, TypeOK
  <2>4. faults' \in Nat
    BY DEF Complete, Fail, IInv, TypeOK
  <2> QED
    BY <1>1, <2>1, <2>2, <2>3, <2>4 DEF IInv, TypeOK, settings
<1>7. OneMessage'
  BY <1>1 DEF IInv, OneMessage
<1> QED
  BY <1>1, <1>4, <1>5, <1>6, <1>7, InItemKeeps DEF Place

\* A receipt is written once, for an item in hand.
LEMMA InsertKeeps == ASSUME IInv, NEW x \in Executor, Insert(x) PROVE IInv'
<1>1. pc[x] \in InItem
      /\ UNCHANGED <<run, past, asked, retries, item, handed, settings, mine, todo, hold, draft, faults>>
  BY DEF Insert, InItem, Place, runs
<1>2. /\ hold[x] \in Item /\ RunOf[hold[x]] = mine[x] /\ mine[x] \in Run
      /\ run[RunOf[hold[x]]] \in Answered /\ draft[x] \in Sender
  BY <1>1, InHand DEF IInv, TypeOK
<1>3. \/ receipt' = receipt
      \/ receipt[hold[x]] = None /\ receipt' = [receipt EXCEPT ![hold[x]] = draft[x]]
  BY DEF Insert, Recorded
<1>4. /\ pc' = [pc EXCEPT ![x] = IF receipt'[hold[x]] = None THEN "fail" ELSE "check"]
  BY DEF Insert, Goto
<1>5. \A i \in Item : receipt[i] # None => receipt'[i] = receipt[i]
  BY <1>3 DEF IInv, TypeOK
<1>6. TypeOK'
  <2>1. receipt' \in [Item -> Sender \cup {None}]
    BY <1>2, <1>3 DEF IInv, TypeOK
  <2>2. pc' \in [Executor -> {"idle", "list", "pick", "exhaust", "take", "prepare",
                      "insert", "check", "enqueue", "complete", "fail", "settle"}]
    BY <1>4 DEF IInv, TypeOK
  <2> QED
    BY <1>1, <2>1, <2>2 DEF IInv, TypeOK, settings
<1>7. /\ pc'[x] = IF receipt'[hold[x]] = None THEN "fail" ELSE "check"
      /\ \A y \in Executor \ {x} : pc'[y] = pc[y]
      /\ pc[x] \notin {"idle", "list", "pick", "settle"}
  BY <1>1, <1>4 DEF IInv, TypeOK, InItem
<1>8. AtWork' /\ PastIsOver'
  BY <1>1, <1>7 DEF IInv, AtWork, PastIsOver
<1>9. Untouched'
  BY <1>1, <1>2, <1>3 DEF IInv, TypeOK, Untouched
<1>10. ReceiptFirst'
  <2> SUFFICES ASSUME NEW y \in Executor, pc'[y] \in {"check", "enqueue", "complete"}
               PROVE  receipt'[hold[y]] # None
    BY <1>1 DEF ReceiptFirst
  <2>1. CASE y = x
    BY <1>7, <2>1
  <2>2. CASE y # x
    <3>1. receipt[hold[y]] # None /\ hold[y] \in Item
      BY <1>7, <2>2, InHand DEF IInv, ReceiptFirst, InItem, Place
    <3> QED
      BY <1>5, <3>1
  <2> QED
    BY <2>1, <2>2
<1>11. OneMessage'
  <2> SUFFICES ASSUME NEW m \in handed PROVE receipt'[m[1]] = m[2]
    BY <1>1 DEF OneMessage
  <2>1. m[1] \in Item /\ m[2] \in Sender /\ receipt[m[1]] = m[2]
    BY DEF IInv, TypeOK, OneMessage
  <2>2. m[2] # None
    BY <2>1, ScheduledRunsAssumption DEF Sender
  <2> QED
    BY <1>5, <2>1, <2>2
<1>12. Attempts' /\ CompletedIsDone' /\ DoneIsHanded'
  BY <1>1, <1>7 DEF IInv, Attempts, CompletedIsDone, DoneIsHanded, HandedOver
<1> QED
  BY <1>6, <1>8, <1>9, <1>10, <1>11, <1>12 DEF IInv

LEMMA SettleRunKeeps == ASSUME IInv, NEW x \in Executor, SettleRun(x) PROVE IInv'
<1> DEFINE r == mine[x]
<1>1. /\ pc[x] = "settle" /\ r \in Run /\ Leave(x)
      /\ UNCHANGED <<past, asked, retries, item, receipt, handed, settings, faults>>
  BY DEF SettleRun, IInv, AtWork
<1>2. \/ run' = run
      \/ /\ run[r] = "confirmed" /\ Finished(r)
         /\ run' = [run EXCEPT ![r] = "completed"]
  BY DEF SettleRun, Settle
<1> HIDE DEF r
<1>3. /\ \A s \in Run : run'[s] # run[s] =>
            s = r /\ run[s] = "confirmed" /\ run'[s] = "completed"
      /\ run' \in [Run -> RunState]
  BY <1>1, <1>2 DEF IInv, TypeOK, RunState
<1>4. TypeOK'
  BY <1>1, <1>3, LeaveMeans DEF IInv, TypeOK, settings
<1>5. AtWork'
  <2> SUFFICES ASSUME NEW y \in Executor
               PROVE  /\ pc'[y] # "idle" => mine'[y] \in Run /\ run'[mine'[y]] \in Answered
                      /\ \A i \in todo'[y] : RunOf[i] = mine'[y]
                      /\ pc'[y] \in {"idle", "list"} => todo'[y] = {}
                      /\ pc'[y] \notin {"idle", "list", "pick", "settle"} =>
                           hold'[y] \in Item /\ RunOf[hold'[y]] = mine'[y]
    BY DEF AtWork
  <2>1. CASE y = x
    BY <1>1, <2>1, LeaveMeans
  <2>2. CASE y # x
    <3>1. pc'[y] = pc[y] /\ mine'[y] = mine[y] /\ todo'[y] = todo[y] /\ hold'[y] = hold[y]
      BY <1>1, <2>2, LeaveMeans
    <3> QED
      BY <1>3, <3>1 DEF IInv, AtWork, Answered
  <2> QED
    BY <2>1, <2>2
<1>6. PastIsOver'
  BY <1>1, <1>3 DEF IInv, PastIsOver
<1>7. Untouched'
  BY <1>1, <1>3, Bounds DEF IInv, Untouched, Answered
<1>8. CompletedIsDone'
  <2> SUFFICES ASSUME NEW i \in Item, run'[RunOf[i]] = "completed"
               PROVE  item[i].state = "done"
    BY <1>1 DEF CompletedIsDone
  <2>1. RunOf[i] \in Run
    BY Bounds
  <2>2. CASE run[RunOf[i]] = "completed"
    BY <2>2 DEF IInv, CompletedIsDone
  <2>3. CASE run[RunOf[i]] # "completed"
    <3>1. RunOf[i] = r /\ run' # run
      BY <1>3, <2>1, <2>3
    <3>2. Finished(r)
      BY <1>2, <3>1
    <3> QED
      BY <3>1, <3>2 DEF Finished, ItemsOf
  <2> QED
    BY <2>2, <2>3
<1>9. ReceiptFirst' /\ OneMessage' /\ Attempts' /\ DoneIsHanded'
  BY <1>1, LeaveMeans
     DEF IInv, ReceiptFirst, OneMessage, Attempts, DoneIsHanded, HandedOver
<1> QED
  BY <1>4, <1>5, <1>6, <1>7, <1>8, <1>9 DEF IInv

LEMMA StopKeeps == ASSUME IInv, NEW x \in Executor, Stop(x) PROVE IInv'
<1>1. /\ Leave(x) /\ faults' = faults + 1
      /\ UNCHANGED <<run, past, asked, retries, item, receipt, settings>>
  BY DEF Stop, runs
<1>2. \/ handed' = handed
      \/ /\ hold[x] \in Item /\ receipt[hold[x]] # None
         /\ handed' = handed \cup {<<hold[x], receipt[hold[x]]>>}
  BY InHand DEF Stop, Message, IInv, ReceiptFirst, InItem, Place
<1>3. handed' \subseteq Item \X Sender /\ handed \subseteq handed'
  BY <1>2 DEF IInv, TypeOK
<1>4. TypeOK'
  BY <1>1, <1>3, LeaveMeans DEF IInv, TypeOK, settings
<1>5. AtWork' /\ ReceiptFirst'
  BY <1>1, LeaveMeans DEF IInv, AtWork, ReceiptFirst
<1>6. OneMessage'
  BY <1>1, <1>2 DEF IInv, OneMessage
<1>7. DoneIsHanded'
  BY <1>1, <1>3, LeaveMeans DEF IInv, DoneIsHanded, HandedOver
<1>8. PastIsOver' /\ Untouched' /\ Attempts' /\ CompletedIsDone'
  BY <1>1 DEF IInv, PastIsOver, Untouched, Attempts, CompletedIsDone
<1> QED
  BY <1>4, <1>5, <1>6, <1>7, <1>8 DEF IInv

LEMMA NextKeeps == ASSUME IInv, [Next]_vars PROVE IInv'
<1>1. ASSUME NEW r \in Run, Proposal(r) PROVE IInv'
  BY <1>1, AnswerKeeps, RetryKeeps DEF Proposal
<1>2. CASE Expire
  <2>1. PICK r \in Run : run[r] = "proposed"
    BY <1>2 DEF Expire
  <2> QED
    BY <1>2, <2>1, AnswerKeeps
<1>3. ASSUME NEW x \in Executor, Step(x) \/ Throw(x) \/ Stop(x) PROVE IInv'
  BY <1>3, ListKeeps, PickKeeps, ExhaustKeeps, TakeKeeps, LookKeeps, InsertKeeps,
     EnqueueKeeps, CompleteKeeps, SettleRunKeeps, StopKeeps DEF Step
<1>4. CASE UNCHANGED vars
  <2>1. TypeOK'
    BY <1>4 DEF vars, runs, settings, executor, IInv, TypeOK
  <2> QED
    BY <1>4, <2>1, AsideKeeps DEF vars, runs, executor
<1> QED
  BY <1>1, <1>2, <1>3, <1>4, StartKeeps, SettingsKeep, TickKeeps DEF Next

----------------------------------------------------------------------------
(* What follows *)

LEMMA Invariant == Spec => []IInv
<1>1. Init => IInv
  BY InitInv
<1>2. IInv /\ [Next]_vars => IInv'
  BY NextKeeps
<1> QED
  BY <1>1, <1>2, PTL DEF Spec

\* The types of the runs, the items and the executors.
THEOREM TypeCorrect == Spec => []TypeOK
<1>1. IInv => TypeOK
  BY DEF IInv
<1> QED
  BY <1>1, Invariant, PTL

\* A run whose confirmation was not asked for in time has no effect (confirm,
\* cancel and expire of scheduled-actions.ts against claimItem).
THEOREM LapsedIsInert == Spec => []NothingExpiresIntoAction
<1>1. IInv => NothingExpiresIntoAction
  BY DEF IInv, PastIsOver, Untouched, Answered, NothingExpiresIntoAction, ItemsOf
<1> QED
  BY <1>1, Invariant, PTL

\* What the first receipt of an item says is never rewritten, by the batch of a
\* later or a slower executor either.
FirstReceiptStays ==
  [][\A i \in Item : receipt[i] # None => receipt'[i] = receipt[i]]_vars

LEMMA ReceiptStays ==
  ASSUME TypeOK, [Next]_vars, NEW i \in Item, receipt[i] # None
  PROVE  receipt'[i] = receipt[i]
<1>1. ASSUME NEW x \in Executor, Insert(x) PROVE receipt'[i] = receipt[i]
  BY <1>1 DEF Insert, Recorded, TypeOK
<1>2. ASSUME NEW r \in Run, Proposal(r) PROVE receipt' = receipt
  BY <1>2 DEF Proposal, Propose, Ask, Confirm, Cancel, Deadline, Retry
<1>3. ASSUME NEW x \in Executor, Step(x) \/ Throw(x) \/ Stop(x)
      PROVE  Insert(x) \/ receipt' = receipt
  BY <1>3 DEF Step, List, Pick, Exhaust, Take, Prepare, Check, Enqueue, Complete,
     Fail, SettleRun, Throw, Stop
<1>4. ASSUME NEW x \in Executor, NEW r \in Run, Start(x, r) PROVE receipt' = receipt
  BY <1>4 DEF Start
<1>5. Expire \/ ChangeSender \/ Tick \/ (\E j \in Item : Withdraw(j)) \/ UNCHANGED vars
      => receipt' = receipt
  BY DEF Expire, ChangeSender, Tick, Withdraw, vars
<1> QED
  BY <1>1, <1>2, <1>3, <1>4, <1>5 DEF Next

\* However many executors attempt an item, and however often it is handed over,
\* the queue is given one message: that of its first receipt, which stays
\* (prepare and enqueuePersisted).
THEOREM MessageIsOne == Spec => []OneMessage /\ FirstReceiptStays
<1>1. IInv => OneMessage
  BY DEF IInv
<1>2. IInv /\ [Next]_vars
      => [\A i \in Item : receipt[i] # None => receipt'[i] = receipt[i]]_vars
  BY ReceiptStays DEF IInv
<1> QED
  BY <1>1, <1>2, Invariant, PTL DEF Spec, FirstReceiptStays

\* The attempts of an item stay within what the confirmation and the retries
\* have granted (claimItem: attempt_count < attempt_limit).
THEOREM Budget == Spec => []BudgetKept
<1>1. IInv => BudgetKept
  <2> SUFFICES ASSUME IInv, NEW i \in Item
               PROVE  item[i].attempts <= MaxAttempts * (1 + retries)
    BY DEF BudgetKept
  <2>1. /\ item[i].attempts \in Nat /\ item[i].limit \in Nat /\ retries \in Nat
        /\ item[i].attempts <= item[i].limit
        /\ item[i].limit <= MaxAttempts * (1 + retries)
    BY DEF IInv, TypeOK, Row, Attempts
  <2>2. MaxAttempts * (1 + retries) \in Nat
    BY <2>1, Bounds
  <2> QED
    BY <2>1, <2>2
<1> QED
  BY <1>1, Invariant, PTL

\* A run is completed only with the message of every item handed over
\* (completeItem after enqueuePersisted, settleRun).
THEOREM CompletedIsSent == Spec => []CompletedMeansHanded
<1>1. IInv => CompletedMeansHanded
  BY DEF IInv, DoneIsHanded, CompletedIsDone, HandedOver, CompletedMeansHanded
<1> QED
  BY <1>1, Invariant, PTL

\* Nobody but its owner ends an attempt whose lease is running.
THEOREM LeasesAreRespected == Spec => LeaseRespected
<1> DEFINE A == \A i \in Item :
       item[i].state = "running" /\ item[i].lease > 0
         /\ <<item'[i].state, item'[i].token>> # <<item[i].state, item[i].token>>
       => \E x \in Executor : item[i].token = x /\ hold[x] = i
                              /\ pc[x] \in {"complete", "fail"}
<1>1. IInv /\ [Next]_vars => [A]_vars
  <2> SUFFICES ASSUME IInv, [Next]_vars, NEW i \in Item,
                      item[i].state = "running", item[i].lease > 0,
                      <<item'[i].state, item'[i].token>> # <<item[i].state, item[i].token>>
               PROVE  \E x \in Executor : item[i].token = x /\ hold[x] = i
                                          /\ pc[x] \in {"complete", "fail"}
    OBVIOUS
  <2>1. item[i] \in Row /\ item[i].lease # 0 /\ item'[i] # item[i]
    BY Bounds DEF IInv, TypeOK, Row
  <2>2. ASSUME NEW x \in Executor, Exhaust(x) \/ Take(x) PROVE FALSE
    <3>1. hold[x] \in Item
      BY <2>2, InHand DEF Exhaust, Take, InItem, Place
    <3> QED
      BY <2>1, <2>2, <3>1 DEF Exhaust, Take, Interrupted, Takeable, IInv, TypeOK
  <2>3. ASSUME NEW x \in Executor, Complete(x) \/ Fail(x)
        PROVE  item[i].token = x /\ hold[x] = i /\ pc[x] \in {"complete", "fail"}
    <3>1. hold[x] \in Item
      BY <2>3, InHand DEF Complete, Fail, InItem, Place
    <3>2. hold[x] = i /\ Owns(x)
      BY <2>1, <2>3, <3>1 DEF Complete, Fail, IInv, TypeOK
    <3> QED
      BY <2>3, <3>2 DEF Complete, Fail, Owns
  <2>4. ASSUME NEW r \in Run, Retry(r) PROVE FALSE
    BY <2>1, <2>4 DEF Retry
  <2>5. CASE Tick
    <3>1. item'[i] = [item[i] EXCEPT !.lease = IF @ = 0 THEN 0 ELSE @ - 1]
      BY <2>5 DEF Tick
    <3> QED
      BY <2>1, <3>1, AgedRow
  <2>6. ASSUME NEW r \in Run, Proposal(r) PROVE FALSE
    BY <2>1, <2>4, <2>6 DEF Proposal, Propose, Ask, Confirm, Cancel, Deadline
  <2>7. ASSUME NEW x \in Executor, Step(x) \/ Throw(x) \/ Stop(x)
        PROVE  Complete(x) \/ Fail(x)
    BY <2>1, <2>2, <2>7 DEF Step, List, Pick, Prepare, Insert, Check, Enqueue,
                            SettleRun, Throw, Stop
  <2>8. ASSUME NEW x \in Executor, NEW r \in Run, Start(x, r) PROVE FALSE
    BY <2>1, <2>8 DEF Start
  <2>9. CASE Expire \/ ChangeSender \/ \E j \in Item : Withdraw(j)
    BY <2>1, <2>9 DEF Expire, ChangeSender, Withdraw
  <2>10. CASE UNCHANGED vars
    BY <2>1, <2>10 DEF vars
  <2> QED
    BY <2>3, <2>5, <2>6, <2>7, <2>8, <2>9, <2>10 DEF Next
<1> QED
  BY <1>1, Invariant, PTL DEF Spec, LeaseRespected

----------------------------------------------------------------------------
(* What a pass leaves behind *)

\* What waits, waits untouched; what is done was done before, or by the pass
\* that has it in hand.
ItemMoves(i) ==
  /\ item'[i].state = "pending" =>
       /\ item[i].state = "pending"
       /\ item'[i].attempts = item[i].attempts /\ item'[i].limit = item[i].limit
  /\ item'[i].state = "done" =>
       item[i].state = "done" \/ \E x \in Executor : Complete(x) /\ hold[x] = i

LEMMA ItemsMove ==
  ASSUME IInv, [Next]_vars, NEW i \in Item PROVE ItemMoves(i)
<1>0. item \in [Item -> Row] /\ item[i] \in Row
  BY DEF IInv, TypeOK
<1>1. CASE item' = item
  BY <1>1 DEF ItemMoves
<1>2. ASSUME NEW r \in Run, Retry(r) PROVE ItemMoves(i)
  <2>1. CASE i \in ItemsOf(r) /\ item[i].state = "failed" /\ Spent(i)
    <3> DEFINE n == item[i].attempts + MaxAttempts
    <3>1. item'[i] = [item[i] EXCEPT !.limit = n]
      BY <1>2, <2>1 DEF Retry
    <3>2. item'[i].state = "failed"
      BY <1>0, <2>1, <3>1 DEF Row
    <3> QED
      BY <3>2 DEF ItemMoves
  <2>2. CASE ~(i \in ItemsOf(r) /\ item[i].state = "failed" /\ Spent(i))
    BY <1>2, <2>2 DEF Retry, ItemMoves
  <2> QED
    BY <2>1, <2>2
<1>3. CASE Tick
  <2>1. item'[i] = [item[i] EXCEPT !.lease = IF @ = 0 THEN 0 ELSE @ - 1]
    BY <1>3 DEF Tick
  <2> QED
    BY <1>0, <2>1, AgedRow DEF ItemMoves
<1>4. ASSUME NEW x \in Executor, pc[x] \in InItem,
             \/ item' = [item EXCEPT ![hold[x]] = GivenUp(@)]
             \/ item' = [item EXCEPT ![hold[x]] = Taken(@, x)]
      PROVE  ItemMoves(i)
  <2>1. hold[x] \in Item
    BY <1>4, InHand
  <2>2. CASE hold[x] # i
    BY <1>0, <1>4, <2>1, <2>2 DEF ItemMoves
  <2>3. CASE hold[x] = i
    <3>1. item'[i] = GivenUp(item[i]) \/ item'[i] = Taken(item[i], x)
      BY <1>0, <1>4, <2>3
    <3> QED
      BY <1>0, <3>1, GivenUpRow, TakenRow DEF ItemMoves
  <2> QED
    BY <2>2, <2>3
<1>5. ASSUME NEW x \in Executor, Complete(x) PROVE ItemMoves(i)
  <2>1. hold[x] \in Item
    BY <1>5, InHand DEF Complete, InItem, Place
  <2>2. item' = item \/ item' = [item EXCEPT ![hold[x]] = Completed(@)]
    BY <1>5 DEF Complete
  <2>3. CASE hold[x] # i
    BY <1>0, <2>1, <2>2, <2>3 DEF ItemMoves
  <2>4. CASE hold[x] = i
    <3>1. item'[i] = item[i] \/ item'[i] = Completed(item[i])
      BY <1>0, <2>2, <2>4
    <3> QED
      BY <1>0, <1>5, <2>4, <3>1, CompletedRow DEF ItemMoves
  <2> QED
    BY <2>3, <2>4
<1>6. ASSUME NEW x \in Executor, Step(x) \/ Throw(x) \/ Stop(x)
      PROVE  \/ item' = item \/ Complete(x)
             \/ /\ pc[x] \in InItem
                /\ \/ item' = [item EXCEPT ![hold[x]] = GivenUp(@)]
                   \/ item' = [item EXCEPT ![hold[x]] = Taken(@, x)]
  BY <1>6 DEF Step, List, Pick, Exhaust, Take, Prepare, Insert, Check, Enqueue, Fail,
     SettleRun, Throw, Stop, InItem, Place
<1>7. ASSUME NEW r \in Run, Proposal(r) PROVE item' = item \/ Retry(r)
  BY <1>7 DEF Proposal, Propose, Ask, Confirm, Cancel, Deadline
<1>8. ASSUME NEW x \in Executor, NEW r \in Run, Start(x, r) PROVE item' = item
  BY <1>8 DEF Start
<1>9. Expire \/ ChangeSender \/ (\E j \in Item : Withdraw(j)) \/ UNCHANGED vars => item' = item
  BY DEF Expire, ChangeSender, Withdraw, vars
<1> QED
  BY <1>1, <1>2, <1>3, <1>4, <1>5, <1>6, <1>7, <1>8, <1>9 DEF Next

\* An executor that does not act keeps its place and what it has in hand.
LEMMA OthersRest ==
  ASSUME IInv, [Next]_vars, NEW x \in Executor,
         ~(Step(x) \/ Throw(x) \/ Stop(x) \/ \E r \in Run : Start(x, r))
  PROVE  pc'[x] = pc[x] /\ mine'[x] = mine[x] /\ todo'[x] = todo[x] /\ hold'[x] = hold[x]
<1> DEFINE Same == pc'[x] = pc[x] /\ mine'[x] = mine[x] /\ todo'[x] = todo[x] /\ hold'[x] = hold[x]
<1>0. /\ pc \in [Executor -> Place] /\ mine \in [Executor -> Run \cup {None}]
      /\ todo \in [Executor -> SUBSET Item] /\ hold \in [Executor -> Item \cup {None}]
  BY DEF IInv, TypeOK, Place
<1>1. CASE UNCHANGED executor
  BY <1>1 DEF executor
<1>2. ASSUME NEW y \in Executor, y # x, List(y) \/ Pick(y) \/ Exhaust(y) \/ Take(y) PROVE Same
  BY <1>0, <1>2 DEF List, Pick, Exhaust, Take, Goto
<1>3. ASSUME NEW y \in Executor, y # x, Prepare(y) \/ Insert(y) \/ Check(y) \/ Enqueue(y)
      PROVE  Same
  BY <1>0, <1>3 DEF Prepare, Insert, Check, Enqueue, Goto, AfterThrow
<1>4. ASSUME NEW y \in Executor, y # x, Complete(y) \/ Fail(y) \/ Throw(y) PROVE Same
  BY <1>0, <1>4 DEF Complete, Fail, Throw, Goto
<1>5. ASSUME NEW y \in Executor, y # x, SettleRun(y) \/ Stop(y) PROVE Same
  BY <1>0, <1>5 DEF SettleRun, Stop, Leave, Goto
<1>6. ASSUME NEW y \in Executor, y # x, NEW r \in Run, Start(y, r) PROVE Same
  BY <1>0, <1>6 DEF Start, Goto
<1>7. ASSUME NEW r \in Run, Proposal(r) PROVE UNCHANGED executor
  BY <1>7 DEF Proposal, Propose, Ask, Confirm, Cancel, Deadline, Retry
<1>8. Expire \/ ChangeSender \/ Tick \/ (\E i \in Item : Withdraw(i)) \/ UNCHANGED vars
        => UNCHANGED executor
  BY DEF Expire, ChangeSender, Tick, Withdraw, vars
<1> HIDE DEF Same
<1>9. UNCHANGED executor => Same
  BY <1>1 DEF Same
<1>10. ASSUME NEW y \in Executor, Step(y) \/ Throw(y) \/ Stop(y) PROVE Same
  BY <1>2, <1>3, <1>4, <1>5, <1>10 DEF Step
<1>11. Same
  BY <1>6, <1>7, <1>8, <1>9, <1>10 DEF Next
<1> QED
  BY <1>11 DEF Same

\* Numbers that are few are all among the first few.
LEMMA FewAreFirst ==
  ASSUME NEW S \in SUBSET Nat, IsFiniteSet(S), NEW n \in Nat, Cardinality(S) <= n,
         NEW i \in S
  PROVE  Cardinality({j \in S : j < i}) < n
<1> DEFINE T == {j \in S : j < i}
<1>1. T \subseteq S \ {i}
  OBVIOUS
<1>2. /\ IsFiniteSet(S \ {i}) /\ Cardinality(S \ {i}) = Cardinality(S) - 1
      /\ Cardinality(S) \in Nat
  BY FS_RemoveElement, FS_CardinalityType
<1>3. Cardinality(T) <= Cardinality(S \ {i}) /\ IsFiniteSet(T)
  BY <1>1, <1>2, FS_Subset
<1>4. Cardinality(T) \in Nat
  BY <1>3, FS_CardinalityType
<1> HIDE DEF T
<1>5. Cardinality(T) < n
  BY <1>2, <1>3, <1>4
<1> QED
  BY <1>5 DEF T

\* A pass is cut short, or looks at a run of more items than it takes on.
CutShort(x) == Pick(x) /\ todo[x] # {} /\ pc'[x] = "settle"
Overlooks(x) ==
  /\ List(x)
  /\ ~ /\ IsFiniteSet(Outstanding(mine[x]))
       /\ Cardinality(Outstanding(mine[x])) <= MaxItems

PendingOpen == \A i \in Item : item[i].state = "pending" => ~Spent(i)

\* Of the items of its run that wait, a pass has each before it or in hand.
HasInSight(x) ==
  /\ pc[x] = "settle" => todo[x] = {}
  /\ pc[x] \notin {"idle", "list"} =>
       \A i \in ItemsOf(mine[x]) : item[i].state = "pending" =>
         i \in todo[x] \/ (pc[x] \in {"exhaust", "take"} /\ hold[x] = i)

LEMMA PendingOpenStays ==
  ASSUME IInv, PendingOpen, [Next]_vars PROVE PendingOpen'
BY ItemsMove DEF PendingOpen, ItemMoves, Spent

LEMMA SightStays ==
  ASSUME IInv, PendingOpen, [Next]_vars, NEW x \in Executor, HasInSight(x),
         ~CutShort(x), ~Overlooks(x)
  PROVE  HasInSight(x)'
<1>0. /\ pc \in [Executor -> Place] /\ mine \in [Executor -> Run \cup {None}]
      /\ todo \in [Executor -> SUBSET Item] /\ hold \in [Executor -> Item \cup {None}]
      /\ \A i \in Item : item'[i].state = "pending" => item[i].state = "pending"
      /\ \A r : ItemsOf(r) \subseteq Item
  BY ItemsMove DEF IInv, TypeOK, Place, ItemMoves, ItemsOf
<1>1. CASE pc'[x] = pc[x] /\ mine'[x] = mine[x] /\ todo'[x] = todo[x] /\ hold'[x] = hold[x]
  BY <1>0, <1>1 DEF HasInSight, ItemsOf
<1>2. ASSUME List(x) PROVE HasInSight(x)'
  <2> DEFINE owed == Outstanding(mine[x])
  <2>1. /\ IsFiniteSet(owed) /\ Cardinality(owed) <= MaxItems
        /\ owed \in SUBSET Nat /\ MaxItems \in Nat
    BY <1>0, <1>2, ScheduledRunsAssumption DEF Overlooks, Outstanding
  <2>2. /\ mine' = mine /\ item' = item /\ pc'[x] = "pick"
        /\ todo'[x] = {i \in owed : Cardinality({j \in owed : j < i}) < MaxItems}
    BY <1>0, <1>2 DEF List, Goto
  <2>3. owed \subseteq todo'[x]
    <3> HIDE DEF owed
    <3> QED
      BY <2>1, <2>2, FewAreFirst
  <2> QED
    BY <2>2, <2>3 DEF HasInSight, Outstanding, ItemsOf
<1>3. ASSUME Pick(x) PROVE HasInSight(x)'
  <2>1. pc[x] = "pick" /\ mine' = mine /\ item' = item
    BY <1>3 DEF Pick
  <2>2. CASE \E i \in todo[x] : /\ hold' = [hold EXCEPT ![x] = i]
                                /\ todo' = [todo EXCEPT ![x] = @ \ {i}]
                                /\ Goto(x, "exhaust")
    <3>1. PICK i \in todo[x] : /\ hold' = [hold EXCEPT ![x] = i]
                               /\ todo' = [todo EXCEPT ![x] = @ \ {i}]
                               /\ Goto(x, "exhaust")
      BY <2>2
    <3>2. hold'[x] = i /\ todo'[x] = todo[x] \ {i} /\ pc'[x] = "exhaust"
      BY <1>0, <3>1 DEF Goto
    <3> QED
      BY <2>1, <3>2 DEF HasInSight, ItemsOf
  <2>3. CASE pc'[x] = "settle"
    <3>1. todo[x] = {}
      BY <1>3, <2>3 DEF CutShort
    <3>2. todo'[x] = {}
      BY <1>0, <1>3, <3>1 DEF Pick
    <3> QED
      BY <2>1, <2>3, <3>1, <3>2 DEF HasInSight, ItemsOf
  <2> QED
    BY <1>0, <1>3, <2>2, <2>3 DEF Pick, Goto
<1>4. ASSUME Exhaust(x) PROVE HasInSight(x)'
  <2>1. /\ pc[x] = "exhaust" /\ pc'[x] = "take" /\ mine' = mine /\ todo' = todo /\ hold' = hold
    BY <1>0, <1>4 DEF Exhaust, Goto
  <2> QED
    BY <1>0, <2>1 DEF HasInSight, ItemsOf
<1>5. ASSUME Take(x) PROVE HasInSight(x)'
  <2>1. /\ pc[x] = "take" /\ pc'[x] \in {"prepare", "pick"}
        /\ mine' = mine /\ todo' = todo /\ hold' = hold
    BY <1>0, <1>5 DEF Take, Goto
  <2>2. hold[x] \in Item /\ item[hold[x]] \in Row
    BY <2>1, InHand DEF InItem, Place
  <2>3. item'[hold[x]].state # "pending"
    <3>1. CASE Takeable(hold[x])
      <4>1. item'[hold[x]] = Taken(item[hold[x]], x)
        BY <1>5, <2>2, <3>1 DEF Take, IInv, TypeOK
      <4> QED
        BY <2>2, <4>1, TakenRow
    <3>2. CASE ~Takeable(hold[x])
      <4>1. item[hold[x]].state # "pending"
        BY <2>2, <3>2 DEF Takeable, PendingOpen
      <4> QED
        BY <1>0, <2>2, <4>1
    <3> QED
      BY <3>1, <3>2
  <2> QED
    BY <1>0, <2>1, <2>3 DEF HasInSight, ItemsOf
<1>6. ASSUME Prepare(x) \/ Insert(x) \/ Check(x) \/ Enqueue(x) \/ Complete(x) \/ Fail(x) \/ Throw(x)
      PROVE  HasInSight(x)'
  <2>1. /\ pc[x] \in {"prepare", "insert", "check", "enqueue", "complete", "fail"}
        /\ mine' = mine /\ todo' = todo /\ hold' = hold
    BY <1>6 DEF Prepare, Insert, Check, Enqueue, Complete, Fail, Throw
  <2>2. pc'[x] \in {"check", "fail", "insert", "enqueue", "complete", "pick"}
    BY <1>0, <1>6
    DEF Prepare, Insert, Check, Enqueue, Complete, Fail, Throw, Goto, AfterThrow
  <2> QED
    BY <1>0, <2>1, <2>2 DEF HasInSight, ItemsOf
<1>7. ASSUME SettleRun(x) \/ Stop(x) PROVE HasInSight(x)'
  <2>1. pc'[x] = "idle"
    BY <1>0, <1>7 DEF SettleRun, Stop, Leave, Goto
  <2> QED
    BY <2>1 DEF HasInSight
<1>8. ASSUME NEW r \in Run, Start(x, r) PROVE HasInSight(x)'
  <2>1. pc'[x] = "list"
    BY <1>0, <1>8 DEF Start, Goto
  <2> QED
    BY <2>1 DEF HasInSight
<1> QED
  BY <1>1, <1>2, <1>3, <1>4, <1>5, <1>6, <1>7, <1>8, OthersRest DEF Step

\* A pass that comes to its end has had every item of its run in hand, so that
\* none is left untried, unless its time is up before the end or more items are
\* outstanding than it takes on.  That is how far the comment goes that a pass
\* runs everything outstanding (run-executor.ts, executeRun): an item is
\* passed over only behind MaxItems others.
THEOREM PassTriesAll ==
  Spec /\ [][\A x \in Executor : ~CutShort(x) /\ ~Overlooks(x)]_vars
    => [](\A x \in Executor : pc[x] = "settle" =>
            \A i \in ItemsOf(mine[x]) : item[i].state # "pending")
<1> DEFINE Sight == \A x \in Executor : HasInSight(x)
<1>1. Init => PendingOpen /\ Sight
  BY Bounds DEF Init, PendingOpen, HasInSight, Spent
<1>2. IInv /\ PendingOpen /\ Sight /\ [Next]_vars
        /\ [\A x \in Executor : ~CutShort(x) /\ ~Overlooks(x)]_vars
      => PendingOpen' /\ Sight'
  <2> SUFFICES ASSUME IInv, PendingOpen, Sight, [Next]_vars,
                      [\A x \in Executor : ~CutShort(x) /\ ~Overlooks(x)]_vars
               PROVE  PendingOpen' /\ Sight'
    OBVIOUS
  <2>1. CASE \A x \in Executor : ~CutShort(x) /\ ~Overlooks(x)
    BY <2>1, PendingOpenStays, SightStays
  <2>2. CASE UNCHANGED vars
    BY <2>2 DEF vars, runs, executor, PendingOpen, Spent, HasInSight, ItemsOf
  <2> QED
    BY <2>1, <2>2
<1>3. IInv /\ Sight => \A x \in Executor : pc[x] = "settle" =>
                         \A i \in ItemsOf(mine[x]) : item[i].state # "pending"
  <2> SUFFICES ASSUME IInv, Sight, NEW x \in Executor, pc[x] = "settle",
                      NEW i \in ItemsOf(mine[x]), item[i].state = "pending"
               PROVE  FALSE
    OBVIOUS
  <2>1. i \in todo[x] /\ todo[x] = {}
    BY DEF HasInSight
  <2> QED
    BY <2>1
<1> QED
  BY <1>1, <1>2, <1>3, Invariant, PTL DEF Spec

----------------------------------------------------------------------------
(* Who settles a run *)

\* A confirmed run whose items are all done has a pass on it; a proposed one
\* has items, and who is idle is on no run.
Manned ==
  /\ \A x \in Executor : pc[x] = "idle" => mine[x] = None
  /\ \A r \in Run : run[r] # "none" => ItemsOf(r) # {}
  /\ \A r \in Run : run[r] = "confirmed" /\ Finished(r) => \E x \in Executor : mine[x] = r

\* A run is confirmed by an answer in time, before any item of it is touched.
LEMMA RunMoves ==
  ASSUME IInv, [Next]_vars, NEW r \in Run
  PROVE  /\ run'[r] # "none" => run[r] # "none" \/ ItemsOf(r) # {}
         /\ run'[r] = "confirmed" =>
              \/ run[r] = "confirmed"
              \/ run[r] = "proposed" /\ item' = item
<1> DEFINE G == /\ run'[r] # "none" => run[r] # "none" \/ ItemsOf(r) # {}
                /\ run'[r] = "confirmed" =>
                     \/ run[r] = "confirmed"
                     \/ run[r] = "proposed" /\ item' = item
<1>0. run \in [Run -> RunState]
  BY DEF IInv, TypeOK
<1>1. CASE run' = run
  BY <1>1
<1>2. ASSUME NEW s \in Run, Propose(s) \/ Confirm(s) \/ Cancel(s) PROVE G
  BY <1>0, <1>2 DEF Propose, Confirm, Cancel, Answerable, Settle
<1>3. ASSUME Expire PROVE G
  BY <1>0, <1>3 DEF Expire
<1>4. ASSUME NEW x \in Executor, SettleRun(x) PROVE G
  <2>1. run' = run \/ (run[mine[x]] = "confirmed" /\ run' = [run EXCEPT ![mine[x]] = "completed"])
    BY <1>4 DEF SettleRun, Settle
  <2> QED
    BY <1>0, <2>1
<1>5. ASSUME NEW x \in Executor, Step(x) \/ Throw(x) \/ Stop(x)
      PROVE  SettleRun(x) \/ run' = run
  BY <1>5 DEF Step, List, Pick, Exhaust, Take, Prepare, Insert, Check, Enqueue, Complete,
     Fail, Throw, Stop, runs
<1>6. ASSUME NEW s \in Run, Proposal(s)
      PROVE  run' = run \/ Propose(s) \/ Confirm(s) \/ Cancel(s)
  BY <1>6 DEF Proposal, Ask, Deadline, Retry
<1>7. ASSUME NEW x \in Executor, NEW s \in Run, Start(x, s) PROVE run' = run
  BY <1>7 DEF Start, runs
<1>8. ChangeSender \/ Tick \/ (\E i \in Item : Withdraw(i)) \/ UNCHANGED vars => run' = run
  BY DEF ChangeSender, Tick, Withdraw, vars, runs
<1> HIDE DEF G
<1>9. run' = run => G
  BY <1>1 DEF G
<1>10. G
  BY <1>2, <1>3, <1>4, <1>5, <1>6, <1>7, <1>8, <1>9 DEF Next
<1> QED
  BY <1>10 DEF G

\* An executor leaves its run by settling it or by a stop.
LEMMA MineMoves ==
  ASSUME IInv, Manned, [Next]_vars, NEW x \in Executor
  PROVE  /\ mine[x] \in Run => mine'[x] = mine[x] \/ SettleRun(x) \/ Stop(x)
         /\ pc'[x] = "idle" => mine'[x] = None
<1>0. /\ pc \in [Executor -> Place] /\ mine \in [Executor -> Run \cup {None}]
  BY DEF IInv, TypeOK, Place
<1>1. SettleRun(x) \/ Stop(x) => mine'[x] = None
  BY <1>0 DEF SettleRun, Stop, Leave
<1>2. ASSUME Step(x) \/ Throw(x), ~SettleRun(x) PROVE pc'[x] # "idle"
  BY <1>0, <1>2 DEF Step, List, Pick, Exhaust, Take, Prepare, Insert, Check, Enqueue, Complete,
     Fail, Throw, Goto, AfterThrow
<1>3. ASSUME NEW r \in Run, Start(x, r) PROVE pc'[x] # "idle"
  BY <1>0, <1>3 DEF Start, Goto
<1>4. pc'[x] = "idle" => mine'[x] = None
  BY <1>1, <1>2, <1>3, OthersRest DEF Manned
<1>5. ASSUME Step(x) \/ Throw(x), ~SettleRun(x) PROVE mine'[x] = mine[x]
  BY <1>5 DEF Step, List, Pick, Exhaust, Take, Prepare, Insert, Check, Enqueue, Complete,
     Fail, Throw
<1>6. ASSUME NEW r \in Run, Start(x, r) PROVE mine[x] = None
  BY <1>6 DEF Start, Manned
<1> QED
  BY <1>4, <1>5, <1>6, OthersRest, Bounds

LEMMA MannedStays ==
  ASSUME IInv, Manned, [Next]_vars,
         \A x \in Executor : Stop(x) => ~Finished(mine[x])
  PROVE  Manned'
<1>1. ASSUME NEW r \in Run, run'[r] # "none" PROVE ItemsOf(r) # {}
  BY <1>1, RunMoves DEF Manned
<1>2. ASSUME NEW r \in Run, run'[r] = "confirmed", Finished(r)'
      PROVE  \E x \in Executor : mine'[x] = r
  <2>1. CASE Finished(r) /\ run[r] = "confirmed"
    <3>1. PICK x \in Executor : mine[x] = r
      BY <2>1 DEF Manned
    <3>2. ~SettleRun(x)
      <4>1. SettleRun(x) => run' = [run EXCEPT ![r] = "completed"]
        BY <2>1, <3>1 DEF SettleRun, Settle
      <4> QED
        BY <1>2, <4>1 DEF IInv, TypeOK
    <3>3. ~Stop(x)
      BY <2>1, <3>1
    <3> QED
      BY <3>1, <3>2, <3>3, MineMoves
  <2>2. CASE ~Finished(r)
    <3>1. PICK i \in ItemsOf(r) : item[i].state # "done"
      BY <2>2 DEF Finished
    <3>2. i \in Item /\ RunOf[i] = r /\ item'[i].state = "done"
      BY <1>2, <3>1 DEF Finished, ItemsOf
    <3>3. PICK x \in Executor : Complete(x) /\ hold[x] = i
      BY <3>1, <3>2, ItemsMove DEF ItemMoves
    <3>4. mine[x] = r /\ mine' = mine
      BY <3>2, <3>3, InHand DEF Complete, InItem, Place
    <3> QED
      BY <3>4
  <2>3. CASE Finished(r) /\ run[r] # "confirmed"
    <3>1. run[r] = "proposed"
      BY <1>2, <2>3, RunMoves
    <3>2. PICK i \in ItemsOf(r) : TRUE
      BY <3>1 DEF Manned
    <3>3. item[i].state = "pending"
      BY <3>1, <3>2 DEF ItemsOf, IInv, Untouched, Answered
    <3> QED
      BY <2>3, <3>2, <3>3 DEF Finished
  <2> QED
    BY <2>1, <2>2, <2>3
<1>3. \A x \in Executor : pc'[x] = "idle" => mine'[x] = None
  BY MineMoves
<1> QED
  BY <1>1, <1>2, <1>3 DEF Manned, ItemsOf

\* A run whose items are all done is completed, or a pass is on it that will
\* settle it, as long as no pass stops on a run with nothing left to do: that
\* stop, between the last item and settleRun, is the one way for a run to stay
\* confirmed for good with everything sent (run-executor.ts, executeRun;
\* scheduled-run-dispatch.ts selects runs by their due items).
THEOREM FinishedIsSettled ==
  Spec /\ [][\A x \in Executor : Stop(x) => ~Finished(mine[x])]_vars
    => [](\A r \in Run : run[r] = "confirmed" /\ Finished(r) =>
            \E x \in Executor : mine[x] = r)
<1>1. Init => Manned
  BY DEF Init, Manned
<1>2. IInv /\ Manned /\ [Next]_vars
        /\ [\A x \in Executor : Stop(x) => ~Finished(mine[x])]_vars
      => Manned'
  <2> SUFFICES ASSUME IInv, Manned, [Next]_vars,
                      [\A x \in Executor : Stop(x) => ~Finished(mine[x])]_vars
               PROVE  Manned'
    OBVIOUS
  <2>1. CASE \A x \in Executor : Stop(x) => ~Finished(mine[x])
    BY <2>1, MannedStays
  <2>2. CASE UNCHANGED vars
    BY <2>2 DEF vars, runs, executor, Manned, Finished, ItemsOf
  <2> QED
    BY <2>1, <2>2
<1>3. Manned => \A r \in Run : run[r] = "confirmed" /\ Finished(r) =>
                  \E x \in Executor : mine[x] = r
  BY DEF Manned
<1> QED
  BY <1>1, <1>2, <1>3, Invariant, PTL DEF Spec
=============================================================================
