---------------------------- MODULE QueuedLoads ----------------------------
(***************************************************************************)
(* A migration load that queue messages drive, one chunk for each          *)
(* (packages/migrate/src/queued-loader.ts): the ledger of the load with    *)
(* its sequence and the intents to send (packages/db/src/                  *)
(* queued-migrations.ts), the lease on the destination that every write    *)
(* carries as a guard (packages/migrate/src/load-lease.ts), and the        *)
(* operator who starts, retries and cancels it.                            *)
(*                                                                         *)
(* Abstractions:                                                           *)
(*  - one load: a destination takes one at a time;                         *)
(*  - a chunk is one batch of rows with their progress; what loads no row  *)
(*    (admission, indexing, a resource marked complete) is a chunk too;    *)
(*  - an estimate, an invoice or an expense is written in guarded batches  *)
(*    of its own, which a repetition writes again with the same result,    *)
(*    before the batch with its progress: "written" records the latter;    *)
(*  - holder and fence name one claim; a worker claims once in a delivery, *)
(*    so its name stands for both;                                         *)
(*  - the raw objects are there, all of them, or deleted;                  *)
(*  - error codes, rows_done and sent_at, which no guard reads, are left   *)
(*    out, and so is a message that cannot be parsed.                      *)
(***************************************************************************)
EXTENDS Naturals, Sequences

CONSTANTS
  Worker,        \* invocations of the queue's consumer
  Copy,          \* bound: copies of messages that exist at once
  Chunks,        \* chunks the snapshot is loaded in
  Lease,         \* lifetime of a lease, in ticks
  FailAfter,     \* deliveries of a message after which an error is final
  MaxDeliveries, \* deliveries after which the queue gives it up
  MaxFaults,     \* bound: errors, deaths, deliveries while another goes on
  MaxCommands,   \* bound: commands of the operator
  None           \* SQL NULL, and the absence of a message

LoadStatus == {"ready", "queued", "running", "completed", "failed", "cancelled"}
Live == {"queued", "running"}
Sequence == 0..Chunks + 1
Letter == [sequence : Sequence, delivered : 0..MaxDeliveries, delay : 0..Lease]
Delivery == [copy : Copy, sequence : Sequence, delivered : 1..MaxDeliveries]

ASSUME QueuedLoadsAssumption ==
  /\ Chunks \in Nat /\ Lease \in Nat \ {0}
  /\ FailAfter \in Nat \ {0} /\ MaxDeliveries \in Nat \ {0}
  /\ MaxFaults \in Nat /\ MaxCommands \in Nat
  /\ None \notin Worker \cup Sequence \cup Letter \cup Delivery

VARIABLES
  load,     \* the row of migration_loads
  intents,  \* migration_load_intents: sequences that are to be sent
  progress, \* _ezacto_load_progress: chunks that are loaded
  written,  \* the chunks as they reached the destination
  lease,    \* _ezacto_load_lease: its holder, None if released, and what is left
  source,   \* whether the raw objects are still stored
  mail,     \* the messages in the queue
  pc,       \* where each worker is
  msg,      \* the message it was delivered
  at,       \* the progress it read
  has,      \* whether it knows of a lease of its own
  next,     \* the intent it is about to send
  op,       \* the message the operator is about to send
  faults, commands,
  adrift    \* history: a message of a live load was given up, or was never sent

ledger == <<load, intents>>
destination == <<progress, written>>
worker == <<pc, msg, at, has, next>>
counters == <<faults, commands, adrift>>
vars == <<ledger, destination, lease, source, mail, worker, op, counters>>

Init ==
  /\ load = [status |-> "ready", sequence |-> 0, cleaned |-> FALSE]
  /\ intents = {} /\ progress = 0 /\ written = <<>>
  /\ lease = [holder |-> None, left |-> 0]
  /\ source = TRUE
  /\ mail = [c \in Copy |-> None]
  /\ pc = [w \in Worker |-> "idle"] /\ msg = [w \in Worker |-> None]
  /\ at = [w \in Worker |-> 0] /\ has = [w \in Worker |-> FALSE]
  /\ next = [w \in Worker |-> None]
  /\ op = None
  /\ faults = 0 /\ commands = 0 /\ adrift = FALSE

Goto(w, place) == pc' = [pc EXCEPT ![w] = place]
Fault == faults < MaxFaults /\ faults' = faults + 1

\* Mutant of Pending: a load that waits for its next chunk has nothing to send.
PendingRunning == load.sequence \in intents /\ load.status = "running"

\* pending: the intent of the sequence the load is at.
Pending == load.sequence \in intents /\ load.status \in Live

\* A copy that is not in the queue and that no worker refers to.
Unused == {c \in Copy : mail[c] = None /\ \A w \in Worker : msg[w] # None => msg[w].copy # c}
Post(sequence) ==
  /\ Unused # {}
  /\ mail' = [mail EXCEPT ![CHOOSE c \in Unused : TRUE] =
                [sequence |-> sequence, delivered |-> 0, delay |-> 0]]

\* Mutant of Holds: a lease is somebody's until another claims it and ends it.
HoldsAnyone(w) == lease.holder # None

\* fenceStatement: the lease is this claim's, and has not run out.
Holds(w) == lease.holder = w /\ lease.left > 0

\* What every write of a loader asks first, in its own batch.
Authorized(w) == load.status = "running" /\ Holds(w)

----------------------------------------------------------------------------
(* The end of a delivery *)

Idle(w) ==
  /\ Goto(w, "idle")
  /\ msg' = [msg EXCEPT ![w] = None] /\ at' = [at EXCEPT ![w] = 0]
  /\ has' = [has EXCEPT ![w] = FALSE] /\ next' = [next EXCEPT ![w] = None]

\* The message comes again after a delay, or is given up.
Returned(w, delay) ==
  LET c == msg[w].copy IN
  /\ Idle(w)
  /\ IF mail[c] # None /\ msg[w].delivered >= MaxDeliveries
     THEN /\ mail' = [mail EXCEPT ![c] = None]
          /\ adrift' = (adrift \/ load.status \in Live)
     ELSE /\ mail' = [mail EXCEPT ![c] = IF @ = None THEN None ELSE [@ EXCEPT !.delay = delay]]
          /\ UNCHANGED adrift

Ack(w) ==
  /\ pc[w] = "ack"
  /\ Idle(w)
  /\ mail' = [mail EXCEPT ![msg[w].copy] = None]
  /\ UNCHANGED <<ledger, destination, lease, source, op, counters>>

\* releaseLoadLease, in the try or after it.
Released == lease' = [holder |-> None, left |-> 0]

\* finally, and the retry that was answered.
Finally(w) ==
  /\ pc[w] = "finally"
  /\ IF has[w] /\ Holds(w) THEN Released ELSE UNCHANGED lease
  /\ Returned(w, 0)
  /\ UNCHANGED <<ledger, destination, source, op, faults, commands>>

\* catch: the error is final after so many deliveries.
Caught(w) == IF msg[w].delivered >= FailAfter THEN "fail" ELSE "finally"

\* A call failed, or did its work and its answer was lost.  What is not in the
\* try asks for the same: the load is then past the message, so that fail
\* would find no row.
Throw(w) ==
  /\ pc[w] \notin {"idle", "finally"} /\ Fault
  /\ Goto(w, IF pc[w] = "fail" THEN "finally" ELSE Caught(w))
  /\ UNCHANGED <<ledger, destination, lease, source, mail, msg, at, has, next, op, commands, adrift>>

\* The invocation ends, and nothing of it runs any more.
Die(w) ==
  /\ pc[w] # "idle" /\ Fault
  /\ Returned(w, 0)
  /\ UNCHANGED <<ledger, destination, lease, source, op, commands>>

\* fail
Fail(w) ==
  /\ pc[w] = "fail"
  /\ load' = IF /\ load.sequence = msg[w].sequence /\ load.status \in Live
                /\ has[w] => Holds(w)
             THEN [load EXCEPT !.status = "failed"] ELSE load
  /\ Goto(w, "finally")
  /\ UNCHANGED <<intents, destination, lease, source, mail, msg, at, has, next, op, counters>>

----------------------------------------------------------------------------
(* A delivery *)

\* Mutant of Arrived: the input of a load that is over is deleted.
ArrivedOver(sequence) ==
  CASE load.status = "cancelled" -> "ack"
    [] load.status \in {"completed", "failed"} -> IF load.cleaned THEN "ack" ELSE "delete"
    [] load.status \in Live /\ sequence < load.sequence -> "publish"
    [] load.status \in Live /\ sequence = load.sequence -> "open"
    [] OTHER -> "finally"

\* Mutant of Arrived: an old message is acknowledged.
ArrivedOnce(sequence) ==
  CASE load.status = "cancelled" -> "ack"
    [] load.status = "completed" -> IF load.cleaned THEN "ack" ELSE "delete"
    [] load.status = "failed" -> "finally"
    [] load.status \in Live /\ sequence < load.sequence -> "ack"
    [] load.status \in Live /\ sequence = load.sequence -> "open"
    [] OTHER -> "finally"

\* What the row says as the message arrives.
Arrived(sequence) ==
  CASE load.status = "cancelled" -> "ack"
    [] load.status = "completed" -> IF load.cleaned THEN "ack" ELSE "delete"
    [] load.status = "failed" -> "finally"
    [] load.status \in Live /\ sequence < load.sequence -> "publish"
    [] load.status \in Live /\ sequence = load.sequence -> "open"
    [] OTHER -> "finally"

\* The queue runs one delivery at a time: it is a fault if a worker still goes
\* on, with another message or with this one, when the next begins.
Take(w, c) ==
  /\ pc[w] = "idle" /\ mail[c] # None /\ mail[c].delay = 0
  /\ mail[c].delivered < MaxDeliveries
  /\ IF \E v \in Worker : pc[v] # "idle" THEN Fault ELSE UNCHANGED faults
  /\ mail' = [mail EXCEPT ![c].delivered = @ + 1]
  /\ msg' = [msg EXCEPT ![w] = [copy |-> c, sequence |-> mail[c].sequence,
                                delivered |-> mail[c].delivered + 1]]
  /\ Goto(w, Arrived(mail[c].sequence))
  /\ UNCHANGED <<ledger, destination, lease, source, at, has, next, op, commands, adrift>>

\* openQueuedSnapshot, which fails for good once the objects are gone.
OpenSnapshot(w) ==
  /\ pc[w] = "open"
  /\ Goto(w, IF source THEN "begin" ELSE "fail")
  /\ UNCHANGED <<ledger, destination, lease, source, mail, msg, at, has, next, op, counters>>

Begin(w) ==
  /\ pc[w] = "begin"
  /\ IF load.sequence = msg[w].sequence /\ load.status \in Live
     THEN load' = [load EXCEPT !.status = "running"] /\ Goto(w, "claim")
     ELSE UNCHANGED load /\ Goto(w, "publish")
  /\ UNCHANGED <<intents, destination, lease, source, mail, msg, at, has, next, op, counters>>

Claimable == lease.holder = None \/ lease.left = 0

\* claimLoadLease looks at the objects first.  A claim whose answer is lost
\* leaves a lease that nobody knows of.
Claim(w) ==
  /\ pc[w] = "claim"
  /\ \/ /\ ~source
        /\ Goto(w, "fail") /\ UNCHANGED <<lease, has, faults>>
     \/ /\ source /\ Claimable
        /\ lease' = [holder |-> w, left |-> Lease]
        /\ \/ Goto(w, "renew") /\ has' = [has EXCEPT ![w] = TRUE] /\ UNCHANGED faults
           \/ Goto(w, Caught(w)) /\ Fault /\ UNCHANGED has
  /\ UNCHANGED <<ledger, destination, source, mail, msg, at, next, op, commands, adrift>>

\* LoadLeaseHeldError: the message comes back when the lease has run out.
Refused(w) ==
  /\ pc[w] = "claim" /\ source /\ ~Claimable
  /\ Returned(w, lease.left)
  /\ UNCHANGED <<ledger, destination, lease, source, op, faults, commands>>

\* renewLease and assertPins
Renew(w) ==
  /\ pc[w] = "renew"
  /\ IF Authorized(w)
     THEN /\ lease' = [lease EXCEPT !.left = Lease]
          /\ Goto(w, IF source THEN "read" ELSE "fail")
     ELSE Goto(w, "finally") /\ UNCHANGED lease
  /\ UNCHANGED <<ledger, destination, source, mail, msg, at, has, next, op, counters>>

\* The progress is read; when all of it is complete there is nothing to write.
Read(w) ==
  /\ pc[w] = "read"
  /\ at' = [at EXCEPT ![w] = progress]
  /\ Goto(w, IF progress = Chunks THEN "checkpoint" ELSE "write")
  /\ UNCHANGED <<ledger, destination, lease, source, mail, msg, has, next, op, counters>>

\* The rows of a chunk and the progress they make, in one guarded batch.
Write(w) ==
  /\ pc[w] = "write"
  /\ IF source /\ Authorized(w)
     THEN /\ written' = Append(written, at[w] + 1) /\ progress' = at[w] + 1
          /\ Goto(w, "checkpoint")
     ELSE Goto(w, IF source THEN "finally" ELSE "fail") /\ UNCHANGED destination
  /\ UNCHANGED <<ledger, lease, source, mail, msg, at, has, next, op, counters>>

Done(w) == at[w] = Chunks

\* checkpoint: the next sequence with its intent, or the end.  An update that
\* finds no row, because the load has moved on, is not noticed.
Checkpoint(w) ==
  /\ pc[w] = "checkpoint"
  /\ IF ~Authorized(w) THEN Goto(w, "finally") /\ UNCHANGED ledger
     ELSE /\ Goto(w, "release")
          /\ IF load.sequence # msg[w].sequence THEN UNCHANGED ledger
             ELSE /\ load' = [load EXCEPT !.sequence = @ + 1,
                                          !.status = IF Done(w) THEN "completed" ELSE "queued"]
                  /\ intents' = IF Done(w) THEN intents ELSE intents \cup {load.sequence + 1}
  /\ UNCHANGED <<destination, lease, source, mail, msg, at, has, next, op, counters>>

Release(w) ==
  /\ pc[w] = "release"
  /\ IF Holds(w)
     THEN /\ Released /\ has' = [has EXCEPT ![w] = FALSE]
          /\ Goto(w, IF Done(w) THEN "delete" ELSE "publish")
     ELSE Goto(w, "finally") /\ UNCHANGED <<lease, has>>
  /\ at' = [at EXCEPT ![w] = 0]
  /\ UNCHANGED <<ledger, destination, source, mail, msg, next, op, counters>>

\* cleanCompletedInput
Delete(w) ==
  /\ pc[w] = "delete"
  /\ source' = FALSE
  /\ Goto(w, "clean")
  /\ UNCHANGED <<ledger, destination, lease, mail, msg, at, has, next, op, counters>>

SourceCleaned(w) ==
  /\ pc[w] = "clean"
  /\ load' = [load EXCEPT !.cleaned = @ \/ load.status = "completed"]
  /\ Goto(w, "publish")
  /\ UNCHANGED <<intents, destination, lease, source, mail, msg, at, has, next, op, counters>>

Publish(w) ==
  /\ pc[w] = "publish"
  /\ IF Pending THEN next' = [next EXCEPT ![w] = load.sequence] /\ Goto(w, "send")
     ELSE UNCHANGED next /\ Goto(w, "ack")
  /\ UNCHANGED <<ledger, destination, lease, source, mail, msg, at, has, op, counters>>

Send(w) ==
  /\ pc[w] = "send"
  /\ Post(next[w])
  /\ Goto(w, "ack")
  /\ next' = [next EXCEPT ![w] = None]
  /\ UNCHANGED <<ledger, destination, lease, source, msg, at, has, op, counters>>

----------------------------------------------------------------------------
(* The operator, and time *)

\* start from "ready", retry from "failed", and either again to send anew.
Command(from) ==
  /\ commands < MaxCommands /\ op = None
  /\ load.status \in Live \cup {from}
  /\ load' = IF load.status = from THEN [load EXCEPT !.status = "queued"] ELSE load
  /\ intents' = IF load'.status = "queued" THEN intents \cup {load.sequence} ELSE intents
  /\ op' = load.sequence
  /\ commands' = commands + 1
  /\ UNCHANGED <<destination, lease, source, mail, worker, faults, adrift>>

\* queue-retry of a load whose input was not deleted.
RetryCleaning ==
  /\ commands < MaxCommands /\ op = None
  /\ load.status = "completed" /\ ~load.cleaned
  /\ op' = load.sequence
  /\ commands' = commands + 1
  /\ UNCHANGED <<ledger, destination, lease, source, mail, worker, faults, adrift>>

Cancel ==
  /\ commands < MaxCommands /\ op = None
  /\ load.status \in {"ready", "queued", "running", "failed"}
  /\ load' = [load EXCEPT !.status = "cancelled"]
  /\ commands' = commands + 1
  /\ UNCHANGED <<intents, destination, lease, source, mail, worker, op, faults, adrift>>

OperatorSends ==
  /\ op # None
  /\ Post(op)
  /\ op' = None
  /\ UNCHANGED <<ledger, destination, lease, source, worker, counters>>

OperatorStops ==
  /\ op # None /\ Fault
  /\ op' = None /\ adrift' = TRUE
  /\ UNCHANGED <<ledger, destination, lease, source, mail, worker, commands>>

Tick ==
  /\ lease.left > 0 \/ \E c \in Copy : mail[c] # None /\ mail[c].delay > 0
  /\ lease' = [lease EXCEPT !.left = IF @ > 0 THEN @ - 1 ELSE 0]
  /\ mail' = [c \in Copy |-> IF mail[c] = None \/ mail[c].delay = 0 THEN mail[c]
                             ELSE [mail[c] EXCEPT !.delay = @ - 1]]
  /\ UNCHANGED <<ledger, destination, source, worker, op, counters>>

----------------------------------------------------------------------------
Step(w) ==
  \/ OpenSnapshot(w) \/ Begin(w) \/ Claim(w) \/ Refused(w) \/ Renew(w) \/ Read(w)
  \/ Write(w) \/ Checkpoint(w) \/ Release(w) \/ Delete(w) \/ SourceCleaned(w)
  \/ Publish(w) \/ Send(w) \/ Ack(w) \/ Fail(w) \/ Finally(w)

Operator ==
  \/ Command("ready") \/ Command("failed") \/ RetryCleaning \/ Cancel
  \/ OperatorSends \/ OperatorStops

Next ==
  \/ \E w \in Worker, c \in Copy : Take(w, c)
  \/ \E w \in Worker : Step(w) \/ Throw(w) \/ Die(w)
  \/ Operator \/ Tick

Spec == Init /\ [][Next]_vars

\* Workers go on, the queue delivers, what the operator began to send is sent,
\* and time passes.  A run is finite, for deliveries are counted: that something
\* of it happens while it can is all that has to be assumed.
Fairness ==
  WF_vars(\/ \E w \in Worker, c \in Copy : Take(w, c)
          \/ \E w \in Worker : Step(w)
          \/ OperatorSends \/ Tick)
FairSpec == Spec /\ Fairness

----------------------------------------------------------------------------
(* What must hold *)

TypeOK ==
  /\ load \in [status : LoadStatus, sequence : Sequence, cleaned : BOOLEAN]
  /\ intents \subseteq Sequence
  /\ progress \in 0..Chunks /\ written \in Seq(1..Chunks)
  /\ lease \in [holder : Worker \cup {None}, left : 0..Lease]
  /\ source \in BOOLEAN
  /\ mail \in [Copy -> Letter \cup {None}]
  /\ pc \in [Worker -> {"idle", "open", "begin", "claim", "renew", "read", "write",
                        "checkpoint", "release", "delete", "clean", "publish",
                        "send", "ack", "fail", "finally"}]
  /\ msg \in [Worker -> Delivery \cup {None}]
  /\ at \in [Worker -> 0..Chunks] /\ has \in [Worker -> BOOLEAN]
  /\ next \in [Worker -> Sequence \cup {None}]
  /\ op \in Sequence \cup {None}
  /\ faults \in 0..MaxFaults /\ commands \in 0..MaxCommands /\ adrift \in BOOLEAN

Promise == INSTANCE LoadInOrder WITH
  state <- IF load.status \in Live THEN "open" ELSE load.status, loaded <- written

\* Whatever takes a delivery over, repeats it or stops it half-way, the chunks
\* reach the destination in order, each once, never when the load has failed
\* or is over; and it is completed with all of them (load-lease.ts: a stale
\* holder stops before its next write, not after it).
PromiseKept == Promise!Spec

\* A live load has a message, in the queue or about to be sent by the operator,
\* that will get it on: whoever takes one acknowledges it only after the next
\* was sent (queued-loader.ts: redelivery of the previous sequence republishes
\* it).
MessageKept ==
  load.status \in Live /\ ~adrift =>
    op # None \/ \E c \in Copy : mail[c] # None

\* The input stays as long as a chunk of it is to be loaded, whatever becomes
\* of the load: a cancelled one leaves it, and so does one that failed, which a
\* retry starts again from it (queued-loader.ts: cleanCompletedInput).
SourceNeeded == ~source => progress = Chunks

\* A load that was started is completed, cancelled or fails and says so, unless
\* a message of it was given up or never sent.
EventuallyOver ==
  load.status \in Live ~> adrift \/ load.status \in {"completed", "failed", "cancelled"}
=============================================================================
