-------------------------- MODULE QueuedLoadsProofs --------------------------
(***************************************************************************)
(* The safety properties of QueuedLoads, for any workers, messages, chunks *)
(* and deliveries, and any number of faults and commands.                  *)
(*                                                                         *)
(* What they rest on: whoever holds the lease as it is about to write has  *)
(* read the progress that is recorded; so the chunks in the destination    *)
(* are the first ones, and the load is never at a sequence that its        *)
(* progress has not reached.  And of the messages of a live load there is  *)
(* always one that no worker is about to acknowledge.                      *)
(***************************************************************************)
EXTENDS QueuedLoads, TLAPS

----------------------------------------------------------------------------
(* The inductive invariant *)

\* The destination holds the first chunks, and the load is not beyond them.
LoadFits ==
  /\ written = [n \in 1..progress |-> n]
  /\ load.status = "completed" => progress = Chunks
  /\ load.status # "completed" => load.sequence <= progress
  /\ load.status \in Live => load.sequence \in intents

\* No message is of a sequence to come.
MailFits ==
  /\ \A c \in Copy : mail[c] # None => mail[c].sequence <= load.sequence
  /\ op # None => op <= load.sequence

\* What a worker knows of the load, while it is where it is.
WorkerFits(w) ==
  /\ pc[w] # "idle" => msg[w] # None /\ msg[w].sequence <= load.sequence
  /\ next[w] # None => next[w] <= load.sequence
  /\ pc[w] = "send" => next[w] # None
  /\ at[w] <= progress
  /\ pc[w] = "write" =>
       /\ at[w] < Chunks /\ msg[w].sequence <= at[w]
       /\ lease.holder = w => at[w] = progress
  /\ pc[w] = "checkpoint" => at[w] = Chunks \/ msg[w].sequence < progress
  /\ pc[w] = "delete" => progress = Chunks

\* A live load has a message that nobody is about to acknowledge.
Carried ==
  load.status \in Live /\ ~adrift =>
    \/ op # None
    \/ \E c \in Copy : mail[c] # None /\ \A w \in Worker : pc[w] = "ack" => msg[w].copy # c

IInv ==
  /\ TypeOK /\ LoadFits /\ MailFits /\ Carried /\ SourceNeeded
  /\ \A w \in Worker : WorkerFits(w)

----------------------------------------------------------------------------
(* Types *)

Place == {"idle", "open", "begin", "claim", "renew", "read", "write", "checkpoint",
          "release", "delete", "clean", "publish", "send", "ack", "fail", "finally"}
Row == [status : LoadStatus, sequence : Sequence, cleaned : BOOLEAN]
Claims == [holder : Worker \cup {None}, left : 0..Lease]

LEMMA Bounds ==
  /\ Chunks \in Nat /\ Lease \in Nat /\ Lease > 0
  /\ FailAfter \in Nat /\ MaxDeliveries \in Nat /\ MaxDeliveries > 0
  /\ MaxFaults \in Nat /\ MaxCommands \in Nat
  /\ None \notin Worker /\ None \notin Sequence /\ None \notin Letter /\ None \notin Delivery
BY QueuedLoadsAssumption

LEMMA Types ==
  ASSUME IInv
  PROVE  /\ load \in Row /\ intents \subseteq Sequence
         /\ progress \in 0..Chunks /\ written \in Seq(1..Chunks)
         /\ lease \in Claims /\ source \in BOOLEAN
         /\ mail \in [Copy -> Letter \cup {None}] /\ pc \in [Worker -> Place]
         /\ msg \in [Worker -> Delivery \cup {None}]
         /\ at \in [Worker -> 0..Chunks] /\ has \in [Worker -> BOOLEAN]
         /\ next \in [Worker -> Sequence \cup {None}] /\ op \in Sequence \cup {None}
         /\ faults \in 0..MaxFaults /\ commands \in 0..MaxCommands /\ adrift \in BOOLEAN
BY DEF IInv, TypeOK, Row, Claims, Place

LEMMA RowMeans ==
  ASSUME IInv
  PROVE  /\ load.status \in LoadStatus /\ load.sequence \in 0..Chunks + 1
         /\ load.cleaned \in BOOLEAN
BY Types DEF Row, Sequence

\* The message of a worker.
LEMMA MessageMeans ==
  ASSUME IInv, NEW w \in Worker, pc[w] # "idle"
  PROVE  /\ msg[w] \in Delivery /\ msg[w].copy \in Copy
         /\ msg[w].sequence \in 0..Chunks + 1 /\ msg[w].sequence <= load.sequence
         /\ msg[w].delivered \in 1..MaxDeliveries
BY Types, Bounds DEF IInv, WorkerFits, Delivery, Sequence

LEMMA FaultCounts ==
  ASSUME IInv, Fault
  PROVE  faults' \in 0..MaxFaults
BY Types, Bounds DEF Fault

----------------------------------------------------------------------------
(* What a step of one worker leaves of the others *)

\* The other workers are where they were, the load goes forward only, and who
\* makes progress holds the lease.
Alone(w) ==
  /\ \A v \in Worker \ {w} :
       pc'[v] = pc[v] /\ msg'[v] = msg[v] /\ at'[v] = at[v] /\ next'[v] = next[v]
  /\ load.sequence <= load'.sequence
  /\ progress' = progress \/ (progress <= progress' /\ lease.holder = w)
  /\ lease'.holder \in {lease.holder, None, w}

LEMMA OthersFit ==
  ASSUME IInv, NEW w \in Worker, Alone(w), load' \in Row, progress' \in 0..Chunks,
         NEW v \in Worker \ {w}
  PROVE  WorkerFits(v)'
<1>1. WorkerFits(v) /\ None # v
  BY Bounds DEF IInv
<1>2. pc'[v] = pc[v] /\ msg'[v] = msg[v] /\ at'[v] = at[v] /\ next'[v] = next[v]
  BY DEF Alone
<1>3. load.sequence <= load'.sequence /\ load.sequence \in Nat /\ load'.sequence \in Nat
  BY RowMeans DEF Alone, Row, Sequence
<1>4. progress <= progress' /\ progress \in 0..Chunks
  BY Types, Bounds DEF Alone
<1>5. lease'.holder = v => lease.holder = v /\ progress' = progress
  BY <1>1 DEF Alone
<1>6. msg[v] # None => msg[v].sequence \in Nat
  BY Types DEF Delivery, Sequence
<1>7. next[v] # None => next[v] \in Nat
  BY Types DEF Sequence
<1>8. at[v] \in Nat /\ Chunks \in Nat
  BY Types, Bounds
<1> QED
  BY <1>1, <1>2, <1>3, <1>4, <1>5, <1>6, <1>7, <1>8 DEF WorkerFits

\* A step of a worker that leaves the messages, the sequence, the destination
\* and the input alone, and starts or ends no load.
LEMMA LocalStep ==
  ASSUME IInv, NEW w \in Worker, pc[w] # "idle",
         NEW place \in Place \ {"idle"}, Goto(w, place),
         place = "ack" => load.status \notin Live,
         load' \in Row, load'.sequence = load.sequence,
         load'.status = "completed" <=> load.status = "completed",
         load'.status \in Live => load.status \in Live,
         lease' \in Claims, lease'.holder \in {lease.holder, None, w},
         NEW n \in 0..Chunks, at' = [at EXCEPT ![w] = n],
         NEW b \in BOOLEAN, has' = [has EXCEPT ![w] = b],
         NEW s \in Sequence \cup {None}, next' = [next EXCEPT ![w] = s],
         faults' \in 0..MaxFaults,
         UNCHANGED <<intents, destination, source, mail, msg, op, commands, adrift>>,
         WorkerFits(w)'
  PROVE  IInv'
<1>1. /\ intents' = intents /\ progress' = progress /\ written' = written
      /\ source' = source /\ mail' = mail /\ msg' = msg /\ op' = op
      /\ commands' = commands /\ adrift' = adrift
  BY DEF destination
<1>2. pc' = [pc EXCEPT ![w] = place] /\ pc' \in [Worker -> Place]
  BY Types DEF Goto
<1>3. TypeOK'
  BY <1>1, <1>2, Types DEF TypeOK, Row, Claims, Place
<1>4. \A v \in Worker \ {w} :
        pc'[v] = pc[v] /\ msg'[v] = msg[v] /\ at'[v] = at[v] /\ next'[v] = next[v]
  BY <1>1, <1>2, Types
<1>5. Alone(w)
  <2>1. load.sequence \in Nat
    BY RowMeans, Bounds
  <2>2. load.sequence <= load'.sequence
    BY <2>1
  <2> QED
    BY <1>1, <1>4, <2>2 DEF Alone
<1>6. \A v \in Worker : WorkerFits(v)'
  BY <1>1, <1>5, Types, OthersFit
<1>7. LoadFits' /\ MailFits' /\ SourceNeeded'
  BY <1>1 DEF IInv, LoadFits, MailFits, SourceNeeded
<1>8. Carried'
  <2> SUFFICES ASSUME load'.status \in Live, ~adrift', op' = None
               PROVE  \E c \in Copy : mail'[c] # None /\ \A v \in Worker : pc'[v] = "ack" => msg'[v].copy # c
    BY DEF Carried
  <2>1. PICK c \in Copy : mail[c] # None /\ \A v \in Worker : pc[v] = "ack" => msg[v].copy # c
    BY <1>1 DEF IInv, Carried
  <2>2. \A v \in Worker : pc'[v] = "ack" => pc[v] = "ack"
    BY <1>2, <1>4, Types
  <2> QED
    BY <1>1, <2>1, <2>2
<1> QED
  BY <1>3, <1>6, <1>7, <1>8 DEF IInv


----------------------------------------------------------------------------
(* The steps of a worker that touch no message *)

\* Nothing is known of a worker in most places, but of its message.
LEMMA Plain ==
  ASSUME IInv, NEW w \in Worker, pc[w] # "idle", NEW place \in Place \ {"idle"},
         pc'[w] = place, place \notin {"send", "write", "checkpoint", "delete"},
         msg' = msg, load'.sequence = load.sequence, progress' = progress,
         next'[w] \in {next[w], None}, at'[w] \in {at[w], 0, progress}
  PROVE  WorkerFits(w)'
<1>1. progress \in 0..Chunks /\ Chunks \in Nat
  BY Types, Bounds
<1> QED
  BY <1>1 DEF IInv, WorkerFits

LEMMA QuietSteps ==
  ASSUME IInv, NEW w \in Worker,
         OpenSnapshot(w) \/ Renew(w) \/ Read(w) \/ Fail(w) \/ Throw(w)
  PROVE  IInv'
<1> USE Types, RowMeans
<1>1. /\ has = [has EXCEPT ![w] = has[w]] /\ at = [at EXCEPT ![w] = at[w]]
      /\ next = [next EXCEPT ![w] = next[w]] /\ has[w] \in BOOLEAN /\ at[w] \in 0..Chunks
      /\ next[w] \in Sequence \cup {None} /\ faults \in 0..MaxFaults
  OBVIOUS
<1>2. ASSUME NEW place \in Place \ {"idle"}, pc[w] # "idle", Goto(w, place),
             place \notin {"send", "write", "checkpoint", "delete", "ack"},
             load' \in Row, load'.sequence = load.sequence,
             load'.status = "completed" <=> load.status = "completed",
             load'.status \in Live => load.status \in Live,
             lease' \in Claims, lease'.holder = lease.holder, faults' \in 0..MaxFaults,
             UNCHANGED <<intents, destination, source, mail, msg, at, has, next, op,
                         commands, adrift>>
      PROVE  IInv'
  <2>1. pc'[w] = place /\ progress' = progress
    BY <1>2 DEF Goto, destination
  <2>2. WorkerFits(w)'
    BY <1>2, <2>1, Plain
  <2> QED
    BY <1>1, <1>2, <2>2, LocalStep
<1>3. CASE OpenSnapshot(w)
  BY <1>1, <1>2, <1>3 DEF OpenSnapshot, Place, ledger, counters
<1>4. CASE Renew(w)
  <2>1. lease' \in Claims /\ lease'.holder = lease.holder
    BY <1>4, Bounds DEF Renew, Claims
  <2>2. \E place \in {"read", "fail", "finally"} : Goto(w, place)
    BY <1>4 DEF Renew
  <2> QED
    BY <1>1, <1>2, <1>4, <2>1, <2>2 DEF Renew, Place, ledger, counters
<1>5. CASE Fail(w)
  <2>1. load' \in Row /\ load'.sequence = load.sequence
        /\ (load'.status = "completed" <=> load.status = "completed")
        /\ (load'.status \in Live => load.status \in Live)
    BY <1>5 DEF Fail, Row, Live, LoadStatus
  <2> QED
    BY <1>1, <1>2, <1>5, <2>1 DEF Fail, Place, counters
<1>6. CASE Throw(w)
  <2>1. pc[w] # "idle" /\ faults' \in 0..MaxFaults
    BY <1>6, FaultCounts DEF Throw
  <2>2. \E place \in {"fail", "finally"} : Goto(w, place)
    BY <1>6 DEF Throw, Caught
  <2> QED
    BY <1>2, <1>6, <2>1, <2>2 DEF Throw, Place, ledger
<1>7. CASE Read(w)
  <2> DEFINE place == IF progress = Chunks THEN "checkpoint" ELSE "write"
  <2>1. pc'[w] = place /\ at'[w] = progress /\ pc[w] = "read"
    BY <1>7 DEF Read, Goto
  <2>2. WorkerFits(w)'
    <3>1. progress \in 0..Chunks /\ Chunks \in Nat
      BY Bounds
    <3>2. msg[w] # None /\ msg[w].sequence <= load.sequence
          /\ load.sequence \in Nat /\ msg[w].sequence \in Nat
      BY <2>1, MessageMeans, Bounds
    <3>3. progress # Chunks => load.sequence <= progress
      BY DEF IInv, LoadFits
    <3>4. WorkerFits(w) /\ msg' = msg /\ load' = load /\ progress' = progress /\ next' = next
      BY <1>7 DEF IInv, Read, ledger, destination
    <3> QED
      BY <2>1, <3>1, <3>2, <3>3, <3>4 DEF WorkerFits
  <2>3. place \in Place \ {"idle"} /\ place # "ack" /\ Goto(w, place)
    BY <1>7 DEF Read, Place
  <2> HIDE DEF place
  <2>4. /\ load' = load /\ intents' = intents /\ lease' = lease /\ source' = source
        /\ mail' = mail /\ msg' = msg /\ has' = has /\ next' = next /\ op' = op
        /\ faults' = faults /\ commands' = commands /\ adrift' = adrift
        /\ UNCHANGED destination /\ at' = [at EXCEPT ![w] = progress]
    BY <1>7 DEF Read, ledger, counters
  <2> QED
    BY <1>1, <2>1, <2>2, <2>3, <2>4, LocalStep
<1> QED
  BY <1>3, <1>4, <1>5, <1>6, <1>7


LEMMA LedgerSteps ==
  ASSUME IInv, NEW w \in Worker, Begin(w) \/ SourceCleaned(w) \/ Publish(w)
  PROVE  IInv'
<1> USE Types, RowMeans
<1>1. /\ has = [has EXCEPT ![w] = has[w]] /\ at = [at EXCEPT ![w] = at[w]]
      /\ next = [next EXCEPT ![w] = next[w]] /\ has[w] \in BOOLEAN /\ at[w] \in 0..Chunks
      /\ next[w] \in Sequence \cup {None} /\ faults \in 0..MaxFaults
  OBVIOUS
<1>2. CASE Begin(w)
  <2>1. /\ load' \in Row /\ load'.sequence = load.sequence
        /\ (load'.status = "completed" <=> load.status = "completed")
        /\ (load'.status \in Live => load.status \in Live)
    BY <1>2 DEF Begin, Row, Live, LoadStatus
  <2>2. PICK place \in {"claim", "publish"} : Goto(w, place)
    BY <1>2 DEF Begin
  <2>3. pc'[w] = place /\ pc[w] # "idle"
    BY <1>2, <2>2 DEF Goto, Begin
  <2>4. UNCHANGED <<intents, destination, lease, source, mail, msg, at, has, next, op,
                    faults, commands, adrift>>
    BY <1>2 DEF Begin, counters
  <2>5. WorkerFits(w)'
    BY <2>1, <2>3, <2>4, Plain DEF Place, destination
  <2> QED
    BY <1>1, <2>1, <2>2, <2>3, <2>4, <2>5, LocalStep DEF Place
<1>3. CASE SourceCleaned(w)
  <2>1. /\ load' \in Row /\ load'.sequence = load.sequence /\ load'.status = load.status
    BY <1>3 DEF SourceCleaned, Row
  <2>2. Goto(w, "publish") /\ pc'[w] = "publish" /\ pc[w] # "idle"
    BY <1>3 DEF Goto, SourceCleaned
  <2>3. UNCHANGED <<intents, destination, lease, source, mail, msg, at, has, next, op,
                    faults, commands, adrift>>
    BY <1>3 DEF SourceCleaned, counters
  <2>4. WorkerFits(w)'
    BY <2>1, <2>2, <2>3, Plain DEF Place, destination
  <2> QED
    BY <1>1, <2>1, <2>2, <2>3, <2>4, LocalStep DEF Place
<1>4. CASE Publish(w)
  <2>1. UNCHANGED <<load, intents, destination, lease, source, mail, msg, at, has, op,
                    faults, commands, adrift>> /\ pc[w] # "idle"
    BY <1>4 DEF Publish, ledger, counters
  <2>2. CASE Pending
    <3>1. Goto(w, "send") /\ next' = [next EXCEPT ![w] = load.sequence]
          /\ pc'[w] = "send" /\ next'[w] = load.sequence
      BY <1>4, <2>2 DEF Publish, Goto
    <3>2. load.sequence \in Sequence /\ load.sequence # None /\ load.sequence <= load.sequence
      BY Bounds DEF Row, Sequence
    <3>3. WorkerFits(w)'
      BY <2>1, <3>1, <3>2 DEF IInv, WorkerFits, destination
    <3> QED
      BY <1>1, <2>1, <3>1, <3>2, <3>3, LocalStep DEF Place
  <2>3. CASE ~Pending
    <3>1. Goto(w, "ack") /\ next' = next /\ pc'[w] = "ack"
      BY <1>4, <2>3 DEF Publish, Goto
    <3>2. load.status \notin Live
      BY <2>3 DEF IInv, LoadFits, Pending
    <3>3. WorkerFits(w)'
      BY <2>1, <3>1, Plain DEF Place, destination
    <3> QED
      BY <1>1, <2>1, <3>1, <3>2, <3>3, LocalStep DEF Place
  <2> QED
    BY <2>2, <2>3
<1> QED
  BY <1>2, <1>3, <1>4

LEMMA LeaseSteps ==
  ASSUME IInv, NEW w \in Worker, Claim(w) \/ Release(w)
  PROVE  IInv'
<1> USE Types, RowMeans
<1>1. /\ at = [at EXCEPT ![w] = at[w]] /\ next = [next EXCEPT ![w] = next[w]]
      /\ has = [has EXCEPT ![w] = has[w]] /\ has[w] \in BOOLEAN /\ at[w] \in 0..Chunks
      /\ next[w] \in Sequence \cup {None} /\ 0 \in 0..Chunks
  BY Bounds
<1>2. CASE Claim(w)
  <2>1. lease' \in Claims /\ lease'.holder \in {lease.holder, w} /\ faults' \in 0..MaxFaults
    BY <1>2, Bounds, FaultCounts DEF Claim, Claims
  <2>2. PICK place \in {"renew", "fail", "finally"} : Goto(w, place)
    BY <1>2 DEF Claim, Caught
  <2>3. PICK b \in BOOLEAN : has' = [has EXCEPT ![w] = b]
    BY <1>1, <1>2 DEF Claim
  <2>4. UNCHANGED <<load, intents, destination, source, mail, msg, at, next, op,
                    commands, adrift>> /\ pc[w] # "idle" /\ pc'[w] = place
    BY <1>2, <2>2 DEF Claim, ledger, Goto
  <2>5. WorkerFits(w)'
    BY <2>4, Plain DEF Place, destination
  <2> QED
    BY <1>1, <2>1, <2>2, <2>3, <2>4, <2>5, LocalStep DEF Place
<1>3. CASE Release(w)
  <2>1. lease' \in Claims /\ lease'.holder \in {lease.holder, None}
    BY <1>3, Bounds DEF Release, Released, Claims
  <2>2. PICK place \in {"delete", "publish", "finally"} :
          Goto(w, place) /\ (place = "delete" => Done(w))
    BY <1>3 DEF Release
  <2>3. PICK b \in BOOLEAN : has' = [has EXCEPT ![w] = b]
    BY <1>1, <1>3 DEF Release
  <2>4. UNCHANGED <<load, intents, destination, source, mail, msg, next, op,
                    faults, commands, adrift>> /\ pc[w] # "idle" /\ pc'[w] = place
        /\ at' = [at EXCEPT ![w] = 0] /\ at'[w] = 0
    BY <1>3, <2>2 DEF Release, ledger, counters, Goto
  <2>5. WorkerFits(w)'
    <3>1. CASE place # "delete"
      BY <2>4, <3>1, Plain DEF Place, destination
    <3>2. CASE place = "delete"
      <4>1. progress = Chunks /\ 0 <= progress
        BY <2>2, <3>2, Bounds DEF IInv, WorkerFits, Done
      <4> QED
        BY <2>4, <3>2, <4>1 DEF IInv, WorkerFits, destination
    <3> QED
      BY <3>1, <3>2
  <2> QED
    BY <1>1, <2>1, <2>2, <2>3, <2>4, <2>5, LocalStep DEF Place
<1> QED
  BY <1>2, <1>3


----------------------------------------------------------------------------
(* The steps that load, complete and delete *)

\* What is carried stays so while no message goes and no worker comes to
\* acknowledge one.
LEMMA CarriedOn ==
  ASSUME IInv, UNCHANGED <<mail, msg, op, adrift>>,
         load'.status \in Live => load.status \in Live,
         \A v \in Worker : pc'[v] = "ack" => pc[v] = "ack"
  PROVE  Carried'
BY DEF IInv, Carried

LEMMA CheckpointStep ==
  ASSUME IInv, NEW w \in Worker, Checkpoint(w)
  PROVE  IInv'
<1> USE Types, RowMeans
<1>1. /\ pc[w] = "checkpoint" /\ WorkerFits(w)
      /\ UNCHANGED <<destination, lease, source, mail, msg, at, has, next, op,
                     faults, commands, adrift>>
      /\ \E place \in {"finally", "release"} : Goto(w, place)
  BY DEF IInv, Checkpoint, counters
<1>2. PICK place \in {"finally", "release"} : Goto(w, place)
  BY <1>1
<1>3. /\ pc' \in [Worker -> Place] /\ pc'[w] = place
      /\ \A v \in Worker \ {w} : pc'[v] = pc[v]
  BY <1>2 DEF Goto, Place
<1>4. /\ progress' = progress /\ written' = written /\ source' = source /\ at' = at
      /\ lease' = lease /\ mail' = mail /\ msg' = msg /\ has' = has /\ next' = next
      /\ op' = op /\ faults' = faults /\ commands' = commands /\ adrift' = adrift
  BY <1>1 DEF destination
<1>5. /\ Chunks \in Nat /\ progress \in 0..Chunks /\ load.sequence \in Nat
      /\ msg[w].sequence \in Nat /\ at[w] <= progress
      /\ at[w] = Chunks \/ msg[w].sequence < progress
  BY <1>1, Bounds, MessageMeans DEF WorkerFits
<1>6. /\ load' \in Row /\ intents' \subseteq Sequence
      /\ load.sequence <= load'.sequence
      /\ load'.status = "completed" => progress = Chunks
      /\ load'.status # "completed" => load'.sequence <= progress
      /\ load'.status \in Live => load.status \in Live /\ load'.sequence \in intents'
  <2>1. CASE ledger' = ledger
    BY <1>5, <2>1 DEF IInv, LoadFits, ledger
  <2>2. CASE Done(w) /\ ledger' # ledger
    <3>1. /\ load' = [load EXCEPT !.sequence = @ + 1, !.status = "completed"]
          /\ intents' = intents /\ load.status = "running"
      BY <2>2 DEF Checkpoint, Authorized, ledger
    <3>2. progress = Chunks /\ load.sequence <= progress
      BY <1>5, <2>2, <3>1 DEF Done, IInv, LoadFits
    <3>3. load.sequence + 1 \in Sequence /\ "completed" \in LoadStatus
      BY <1>5, <3>2 DEF Sequence, LoadStatus
    <3>4. load' \in Row /\ load'.sequence = load.sequence + 1 /\ load'.status = "completed"
      BY <3>1, <3>3 DEF Row
    <3> QED
      BY <1>5, <3>1, <3>2, <3>4 DEF Live
  <2>3. CASE ~Done(w) /\ ledger' # ledger
    <3>1. /\ load' = [load EXCEPT !.sequence = @ + 1, !.status = "queued"]
          /\ intents' = intents \cup {load.sequence + 1} /\ load.status = "running"
          /\ load.sequence = msg[w].sequence
      BY <2>3 DEF Checkpoint, Authorized, ledger
    <3>2. load.sequence + 1 <= progress
      BY <1>5, <2>3, <3>1 DEF Done
    <3>3. load.sequence + 1 \in Sequence /\ "queued" \in LoadStatus
      BY <1>5, <3>2 DEF Sequence, LoadStatus
    <3>4. load' \in Row /\ load'.sequence = load.sequence + 1 /\ load'.status = "queued"
      BY <3>1, <3>3 DEF Row
    <3> QED
      BY <1>5, <3>1, <3>2, <3>3, <3>4 DEF Live
  <2> QED
    BY <2>1, <2>2, <2>3
<1>7. TypeOK'
  BY <1>3, <1>4, <1>6 DEF TypeOK, Row, Claims, Place
<1>8. load'.sequence \in Nat
  BY <1>6, Bounds DEF Row, Sequence
<1>9. LoadFits' /\ SourceNeeded'
  BY <1>4, <1>6 DEF IInv, LoadFits, SourceNeeded
<1>10. MailFits'
  <2>1. \A c \in Copy : mail[c] # None => mail[c].sequence \in Nat
    BY DEF Letter, Sequence
  <2>2. op # None => op \in Nat
    BY DEF Sequence
  <2> QED
    BY <1>4, <1>5, <1>6, <1>8, <2>1, <2>2 DEF IInv, MailFits
<1>11. Carried'
  BY <1>3, <1>4, <1>6, CarriedOn
<1>12. WorkerFits(w)'
  <2>1. next[w] # None => next[w] \in Nat
    BY DEF Sequence
  <2> QED
    BY <1>1, <1>3, <1>4, <1>5, <1>6, <1>8, <2>1 DEF WorkerFits
<1>13. Alone(w)
  BY <1>3, <1>4, <1>6 DEF Alone
<1>14. \A v \in Worker : WorkerFits(v)'
  BY <1>4, <1>6, <1>12, <1>13, OthersFit
<1> QED
  BY <1>7, <1>9, <1>10, <1>11, <1>14 DEF IInv

LEMMA WriteStep ==
  ASSUME IInv, NEW w \in Worker, Write(w)
  PROVE  IInv'
<1> USE Types, RowMeans
<1>1. /\ has = [has EXCEPT ![w] = has[w]] /\ at = [at EXCEPT ![w] = at[w]]
      /\ next = [next EXCEPT ![w] = next[w]] /\ has[w] \in BOOLEAN /\ at[w] \in 0..Chunks
      /\ next[w] \in Sequence \cup {None}
  OBVIOUS
<1>2. /\ pc[w] = "write" /\ WorkerFits(w)
      /\ UNCHANGED <<load, intents, lease, source, mail, msg, at, has, next, op,
                     faults, commands, adrift>>
  BY DEF IInv, Write, ledger, counters
<1>3. CASE ~(source /\ Authorized(w))
  <2>1. PICK place \in {"fail", "finally"} : Goto(w, place)
    BY <1>3 DEF Write
  <2>2. pc'[w] = place /\ destination' = destination
    BY <1>3, <2>1 DEF Write, Goto
  <2>3. WorkerFits(w)'
    BY <1>2, <2>2, Plain DEF Place, destination
  <2> QED
    BY <1>1, <1>2, <2>1, <2>2, <2>3, LocalStep DEF Place
<1>4. CASE source /\ Authorized(w)
  <2>1. lease.holder = w /\ load.status = "running" /\ at[w] = progress /\ at[w] < Chunks
    BY <1>2, <1>4 DEF Authorized, Holds, WorkerFits
  <2>2. /\ Goto(w, "checkpoint") /\ progress' = progress + 1
        /\ written' = Append(written, progress + 1)
    BY <1>4, <2>1 DEF Write
  <2>3. /\ pc' \in [Worker -> Place] /\ pc'[w] = "checkpoint"
        /\ \A v \in Worker \ {w} : pc'[v] = pc[v]
    BY <2>2 DEF Goto, Place
  <2>4. /\ Chunks \in Nat /\ progress \in Nat /\ progress' \in 0..Chunks
        /\ load.sequence \in Nat /\ load.sequence <= progress
        /\ msg[w].sequence \in Nat /\ msg[w].sequence <= progress
    BY <1>2, <2>1, <2>2, Bounds, MessageMeans DEF IInv, LoadFits, WorkerFits
  <2>5. written' = [n \in 1..progress' |-> n] /\ written' \in Seq(1..Chunks)
    <3>1. written = [n \in 1..progress |-> n] /\ written \in Seq(1..Chunks)
      BY DEF IInv, LoadFits
    <3>2. progress + 1 \in 1..Chunks
      BY <2>2, <2>4
    <3>3. Len(written) = progress
      BY <2>4, <3>1
    <3> QED
      BY <2>2, <2>4, <3>1, <3>2, <3>3
  <2>6. TypeOK'
    BY <1>2, <2>3, <2>4, <2>5 DEF TypeOK, Row, Claims, Place
  <2>7. source' = TRUE /\ load' = load /\ intents' = intents /\ mail' = mail /\ op' = op
    BY <1>2, <1>4
  <2>8. LoadFits' /\ MailFits' /\ SourceNeeded'
    BY <2>1, <2>2, <2>4, <2>5, <2>7 DEF IInv, LoadFits, MailFits, SourceNeeded
  <2>9. Carried'
    BY <1>2, <2>3, CarriedOn
  <2>10. WorkerFits(w)'
    BY <1>2, <2>1, <2>2, <2>3, <2>4 DEF WorkerFits
  <2>11. Alone(w)
    BY <1>2, <2>1, <2>2, <2>3, <2>4 DEF Alone
  <2>12. \A v \in Worker : WorkerFits(v)'
    BY <2>4, <2>7, <2>10, <2>11, OthersFit
  <2> QED
    BY <2>6, <2>8, <2>9, <2>12 DEF IInv
<1> QED
  BY <1>3, <1>4

LEMMA DeleteStep ==
  ASSUME IInv, NEW w \in Worker, Delete(w)
  PROVE  IInv'
<1> USE Types
<1>1. /\ pc[w] = "delete" /\ Goto(w, "clean") /\ source' = FALSE
      /\ UNCHANGED <<load, intents, progress, written, lease, mail, msg, at, has, next, op,
                     faults, commands, adrift>>
  BY DEF Delete, ledger, destination, counters
<1>2. /\ pc' \in [Worker -> Place] /\ pc'[w] = "clean"
      /\ \A v \in Worker \ {w} : pc'[v] = pc[v]
  BY <1>1 DEF Goto, Place
<1>3. progress = Chunks
  BY <1>1 DEF IInv, WorkerFits
<1>4. TypeOK'
  BY <1>1, <1>2 DEF TypeOK, Row, Claims, Place
<1>5. LoadFits' /\ MailFits' /\ SourceNeeded'
  BY <1>1, <1>3 DEF IInv, LoadFits, MailFits, SourceNeeded
<1>6. Carried'
  BY <1>1, <1>2, CarriedOn
<1>7. WorkerFits(w)'
  BY <1>1, <1>2, Plain DEF Place
<1>8. load.sequence <= load'.sequence
  BY <1>1, RowMeans, Bounds
<1>9. Alone(w)
  BY <1>1, <1>2, <1>8 DEF Alone
<1>10. \A v \in Worker : WorkerFits(v)'
  BY <1>1, <1>7, <1>9, OthersFit
<1> QED
  BY <1>4, <1>5, <1>6, <1>10 DEF IInv


----------------------------------------------------------------------------
(* The steps that touch messages *)

LEMMA PostMeans ==
  ASSUME IInv, NEW n \in Sequence, n <= load.sequence, Post(n)
  PROVE  /\ mail' \in [Copy -> Letter \cup {None}]
         /\ \A c \in Copy : mail'[c] # None => mail'[c].sequence <= load.sequence
         /\ \E c \in Copy : mail'[c] # None /\ c \in Unused
<1> USE Types
<1> DEFINE letter == [sequence |-> n, delivered |-> 0, delay |-> 0]
<1>1. letter \in Letter /\ letter.sequence = n /\ letter # None
  BY Bounds DEF Letter
<1>2. PICK c \in Unused : mail' = [mail EXCEPT ![c] = letter]
  BY DEF Post
<1> HIDE DEF letter
<1>3. c \in Copy
  BY DEF Unused
<1>4. mail' \in [Copy -> Letter \cup {None}] /\ mail'[c] = letter
      /\ \A b \in Copy \ {c} : mail'[b] = mail[b]
  BY <1>1, <1>2, <1>3
<1> QED
  BY <1>1, <1>3, <1>4 DEF IInv, MailFits

\* A posted message is one that nobody acknowledges.
LEMMA PostCarries ==
  ASSUME IInv, \E c \in Copy : mail'[c] # None /\ c \in Unused,
         msg' = msg, NEW w \in Worker, \A v \in Worker \ {w} : pc'[v] = pc[v],
         pc[w] # "idle" \/ pc'[w] = pc[w]
  PROVE  Carried'
<1>1. PICK c \in Copy : mail'[c] # None /\ c \in Unused
  OBVIOUS
<1>2. \A v \in Worker : pc'[v] = "ack" => msg[v] # None
  BY DEF IInv, WorkerFits
<1> QED
  BY <1>1, <1>2 DEF Unused, Carried

LEMMA SendStep ==
  ASSUME IInv, NEW w \in Worker, Send(w)
  PROVE  IInv'
<1> USE Types
<1>1. /\ pc[w] = "send" /\ Post(next[w]) /\ Goto(w, "ack")
      /\ next' = [next EXCEPT ![w] = None]
      /\ UNCHANGED <<load, intents, progress, written, lease, source, msg, at, has, op,
                     faults, commands, adrift>>
  BY DEF Send, ledger, destination, counters
<1>2. /\ pc' \in [Worker -> Place] /\ pc'[w] = "ack"
      /\ \A v \in Worker \ {w} : pc'[v] = pc[v]
  BY <1>1 DEF Goto, Place
<1>3. next[w] \in Sequence /\ next[w] <= load.sequence
  BY <1>1 DEF IInv, WorkerFits
<1>4. /\ mail' \in [Copy -> Letter \cup {None}]
      /\ \A c \in Copy : mail'[c] # None => mail'[c].sequence <= load.sequence
      /\ \E c \in Copy : mail'[c] # None /\ c \in Unused
  BY <1>1, <1>3, PostMeans
<1>5. TypeOK'
  BY <1>1, <1>2, <1>4 DEF TypeOK, Row, Claims, Place
<1>6. LoadFits' /\ MailFits' /\ SourceNeeded'
  BY <1>1, <1>4 DEF IInv, LoadFits, MailFits, SourceNeeded
<1>7. Carried'
  BY <1>1, <1>2, <1>4, PostCarries
<1>8. WorkerFits(w)'
  BY <1>1, <1>2, Plain DEF Place
<1>9. load.sequence <= load'.sequence
  BY <1>1, RowMeans, Bounds
<1>10. Alone(w)
  BY <1>1, <1>2, <1>9 DEF Alone
<1>11. \A v \in Worker : WorkerFits(v)'
  BY <1>1, <1>8, <1>10, OthersFit
<1> QED
  BY <1>5, <1>6, <1>7, <1>11 DEF IInv

LEMMA TakeStep ==
  ASSUME IInv, NEW w \in Worker, NEW c \in Copy, Take(w, c)
  PROVE  IInv'
<1> USE Types
<1> DEFINE letter == [mail[c] EXCEPT !.delivered = @ + 1]
           hand == [copy |-> c, sequence |-> mail[c].sequence,
                    delivered |-> mail[c].delivered + 1]
           place == Arrived(mail[c].sequence)
<1>1. /\ pc[w] = "idle" /\ mail[c] \in Letter /\ mail[c].delivered < MaxDeliveries
      /\ mail[c].sequence \in Sequence /\ mail[c].sequence <= load.sequence
      /\ faults' \in 0..MaxFaults
  BY FaultCounts DEF Take, IInv, MailFits, Letter
<1>2. /\ mail' = [mail EXCEPT ![c] = letter] /\ msg' = [msg EXCEPT ![w] = hand]
      /\ pc' = [pc EXCEPT ![w] = place]
      /\ UNCHANGED <<load, intents, progress, written, lease, source, at, has, next, op,
                     commands, adrift>>
  BY <1>1 DEF Take, Goto, ledger, destination, Letter
<1>3. mail[c].delivered + 1 \in 1..MaxDeliveries
  <2> DEFINE n == mail[c].delivered
  <2>1. n \in 0..MaxDeliveries /\ n < MaxDeliveries
    BY <1>1 DEF Letter
  <2>2. MaxDeliveries \in Nat
    BY Bounds
  <2> HIDE DEF n
  <2>3. n + 1 \in 1..MaxDeliveries
    BY ONLY <2>1, <2>2
  <2> QED
    BY ONLY <2>3 DEF n
<1>4. letter \in Letter /\ letter.sequence = mail[c].sequence /\ letter # None
  <2>1. mail[c].delivered + 1 \in 0..MaxDeliveries
    BY <1>3
  <2>2. letter \in Letter /\ letter.sequence = mail[c].sequence
    BY <1>1, <2>1 DEF Letter
  <2> QED
    BY <2>2, Bounds
<1>5. hand \in Delivery /\ hand.sequence = mail[c].sequence /\ hand # None
  <2>1. hand \in Delivery /\ hand.sequence = mail[c].sequence
    BY <1>1, <1>3 DEF Delivery
  <2> QED
    BY <2>1, Bounds
<1>6. /\ place \in {"ack", "delete", "finally", "publish", "open"}
      /\ place = "ack" => load.status \notin Live
      /\ place = "delete" => progress = Chunks
  <2>1. CASE load.status = "completed"
    BY <2>1 DEF Arrived, Live, IInv, LoadFits
  <2>2. CASE load.status # "completed"
    BY <2>2 DEF Arrived, Live
  <2> QED
    BY <2>1, <2>2
<1> HIDE DEF letter, hand, place
<1>7. /\ mail' \in [Copy -> Letter \cup {None}] /\ mail'[c] = letter
      /\ \A b \in Copy \ {c} : mail'[b] = mail[b]
  BY <1>2, <1>4
<1>8. /\ msg' \in [Worker -> Delivery \cup {None}] /\ msg'[w] = hand
      /\ \A v \in Worker \ {w} : msg'[v] = msg[v]
  BY <1>2, <1>5
<1>9. /\ pc' \in [Worker -> Place] /\ pc'[w] = place
      /\ \A v \in Worker \ {w} : pc'[v] = pc[v]
  BY <1>2, <1>6 DEF Place
<1>10. TypeOK'
  BY <1>1, <1>2, <1>7, <1>8, <1>9 DEF TypeOK, Row, Claims, Place
<1>11. LoadFits' /\ MailFits' /\ SourceNeeded'
  BY <1>1, <1>2, <1>4, <1>7 DEF IInv, LoadFits, MailFits, SourceNeeded
<1>12. Carried'
  <2> SUFFICES ASSUME load.status \in Live, ~adrift, op = None
               PROVE  \E b \in Copy : mail'[b] # None /\ \A v \in Worker : pc'[v] = "ack" => msg'[v].copy # b
    BY <1>2 DEF Carried
  <2>1. PICK b \in Copy : mail[b] # None /\ \A v \in Worker : pc[v] = "ack" => msg[v].copy # b
    BY DEF IInv, Carried
  <2>2. mail'[b] # None
    BY <1>4, <1>7, <2>1
  <2>3. \A v \in Worker : pc'[v] = "ack" => msg'[v].copy # b
    <3> SUFFICES ASSUME NEW v \in Worker, pc'[v] = "ack"
                 PROVE  msg'[v].copy # b
      OBVIOUS
    <3>1. CASE v = w
      BY <1>6, <1>9, <3>1
    <3>2. CASE v # w
      BY <1>8, <1>9, <2>1, <3>2
    <3> QED
      BY <3>1, <3>2
  <2> QED
    BY <2>2, <2>3
<1>13. WorkerFits(w)'
  <2>1. WorkerFits(w)
    BY DEF IInv
  <2> QED
    BY <1>1, <1>2, <1>5, <1>6, <1>8, <1>9, <2>1 DEF WorkerFits
<1>14. load.sequence <= load'.sequence
  BY <1>2, RowMeans, Bounds
<1>15. Alone(w)
  BY <1>2, <1>8, <1>9, <1>14 DEF Alone
<1>16. \A v \in Worker : WorkerFits(v)'
  BY <1>2, <1>13, <1>15, OthersFit
<1> QED
  BY <1>10, <1>11, <1>12, <1>16 DEF IInv

\* What the end of a delivery leaves of its worker.
LEMMA IdleMeans ==
  ASSUME IInv, NEW w \in Worker, Idle(w)
  PROVE  /\ pc' \in [Worker -> Place] /\ msg' \in [Worker -> Delivery \cup {None}]
         /\ at' \in [Worker -> 0..Chunks] /\ has' \in [Worker -> BOOLEAN]
         /\ next' \in [Worker -> Sequence \cup {None}]
         /\ pc'[w] = "idle" /\ at'[w] = 0 /\ next'[w] = None
         /\ \A v \in Worker \ {w} :
              pc'[v] = pc[v] /\ msg'[v] = msg[v] /\ at'[v] = at[v] /\ next'[v] = next[v]
BY Types, Bounds DEF Idle, Goto, Place

LEMMA EndStep ==
  ASSUME IInv, NEW w \in Worker, Idle(w), pc[w] # "idle",
         lease' \in Claims, lease'.holder \in {lease.holder, None},
         mail' \in [Copy -> Letter \cup {None}],
         \A c \in Copy : mail'[c] # None =>
           mail[c] # None /\ mail'[c].sequence = mail[c].sequence,
         adrift' \in BOOLEAN, adrift => adrift', faults' \in 0..MaxFaults,
         UNCHANGED <<ledger, destination, source, op, commands>>,
         load.status \in Live /\ ~adrift' =>
           \A c \in Copy : mail[c] # None => mail'[c] # None \/ (pc[w] = "ack" /\ msg[w].copy = c)
  PROVE  IInv'
<1> USE Types
<1>1. /\ load' = load /\ intents' = intents /\ progress' = progress /\ written' = written
      /\ source' = source /\ op' = op /\ commands' = commands
  BY DEF ledger, destination
<1>2. /\ pc' \in [Worker -> Place] /\ msg' \in [Worker -> Delivery \cup {None}]
      /\ at' \in [Worker -> 0..Chunks] /\ has' \in [Worker -> BOOLEAN]
      /\ next' \in [Worker -> Sequence \cup {None}]
      /\ pc'[w] = "idle" /\ at'[w] = 0 /\ next'[w] = None
      /\ \A v \in Worker \ {w} :
           pc'[v] = pc[v] /\ msg'[v] = msg[v] /\ at'[v] = at[v] /\ next'[v] = next[v]
  BY IdleMeans
<1>3. TypeOK'
  BY <1>1, <1>2 DEF TypeOK, Row, Claims, Place
<1>4. LoadFits' /\ MailFits' /\ SourceNeeded'
  BY <1>1 DEF IInv, LoadFits, MailFits, SourceNeeded
<1>5. Carried'
  <2> SUFFICES ASSUME load.status \in Live, ~adrift', op = None
               PROVE  \E b \in Copy : mail'[b] # None /\ \A v \in Worker : pc'[v] = "ack" => msg'[v].copy # b
    BY <1>1 DEF Carried
  <2>1. PICK b \in Copy : mail[b] # None /\ \A v \in Worker : pc[v] = "ack" => msg[v].copy # b
    BY DEF IInv, Carried
  <2>2. pc[w] = "ack" => msg[w].copy # b
    BY <2>1
  <2>3. mail'[b] # None
    BY <2>1, <2>2
  <2>4. \A v \in Worker : pc'[v] = "ack" => v # w /\ pc[v] = "ack" /\ msg'[v] = msg[v]
    BY <1>2
  <2>5. \A v \in Worker : pc'[v] = "ack" => msg'[v].copy # b
    BY <2>1, <2>4
  <2> QED
    BY <2>3, <2>5
<1>6. WorkerFits(w)'
  BY <1>1, <1>2, Bounds DEF WorkerFits
<1>7. load.sequence <= load'.sequence
  BY <1>1, RowMeans, Bounds
<1>8. Alone(w)
  BY <1>1, <1>2, <1>7 DEF Alone
<1>9. \A v \in Worker : WorkerFits(v)'
  BY <1>1, <1>6, <1>8, OthersFit
<1> QED
  BY <1>3, <1>4, <1>5, <1>9 DEF IInv

LEMMA ReturnedMeans ==
  ASSUME IInv, NEW w \in Worker, NEW delay \in 0..Lease, pc[w] # "idle", Returned(w, delay)
  PROVE  /\ Idle(w) /\ mail' \in [Copy -> Letter \cup {None}]
         /\ \A c \in Copy : mail'[c] # None =>
              mail[c] # None /\ mail'[c].sequence = mail[c].sequence
         /\ adrift' \in BOOLEAN /\ (adrift => adrift')
         /\ load.status \in Live /\ ~adrift' => \A c \in Copy : mail[c] # None => mail'[c] # None
<1> USE Types
<1> DEFINE c == msg[w].copy
           letter == IF mail[c] = None THEN None ELSE [mail[c] EXCEPT !.delay = delay]
<1>1. c \in Copy
  BY MessageMeans
<1>2. letter \in Letter \cup {None} /\ (letter = None <=> mail[c] = None)
      /\ (mail[c] # None => letter.sequence = mail[c].sequence)
  <2>1. CASE mail[c] = None
    BY <2>1
  <2>2. CASE mail[c] # None
    <3>1. mail[c] \in Letter
      BY <1>1, <2>2
    <3>2. [mail[c] EXCEPT !.delay = delay] \in Letter
          /\ [mail[c] EXCEPT !.delay = delay].sequence = mail[c].sequence
      BY <3>1 DEF Letter
    <3> QED
      BY <2>2, <3>2, Bounds
  <2> QED
    BY <2>1, <2>2
<1>3. \/ /\ mail' = [mail EXCEPT ![c] = None] /\ adrift' = (adrift \/ load.status \in Live)
      \/ /\ mail' = [mail EXCEPT ![c] = letter] /\ adrift' = adrift
  BY <1>1 DEF Returned
<1>4. Idle(w)
  BY DEF Returned
<1> HIDE DEF letter, c
<1>5. CASE mail' = [mail EXCEPT ![c] = None] /\ adrift' = (adrift \/ load.status \in Live)
  <2>1. mail' \in [Copy -> Letter \cup {None}] /\ mail'[c] = None
        /\ \A b \in Copy \ {c} : mail'[b] = mail[b]
    BY <1>1, <1>5
  <2>2. adrift' \in BOOLEAN /\ (adrift => adrift') /\ (load.status \in Live => adrift')
    BY <1>5
  <2> QED
    BY <1>4, <2>1, <2>2
<1>6. CASE mail' = [mail EXCEPT ![c] = letter] /\ adrift' = adrift
  <2>1. mail' \in [Copy -> Letter \cup {None}] /\ mail'[c] = letter
        /\ \A b \in Copy \ {c} : mail'[b] = mail[b]
    BY <1>1, <1>2, <1>6
  <2> QED
    BY <1>2, <1>4, <1>6, <2>1
<1> QED
  BY <1>3, <1>5, <1>6

LEMMA EndSteps ==
  ASSUME IInv, NEW w \in Worker, Ack(w) \/ Finally(w) \/ Refused(w) \/ Die(w)
  PROVE  IInv'
<1> USE Types
<1>1. ASSUME NEW delay \in 0..Lease, Returned(w, delay), pc[w] # "idle",
             lease' \in Claims, lease'.holder \in {lease.holder, None}, faults' \in 0..MaxFaults,
             UNCHANGED <<ledger, destination, source, op, commands>>
      PROVE  IInv'
  BY <1>1, ReturnedMeans, EndStep
<1>2. 0 \in 0..Lease /\ lease.left \in 0..Lease
  BY Bounds DEF Claims
<1>3. CASE Finally(w)
  <2>1. lease' \in Claims /\ lease'.holder \in {lease.holder, None}
    BY <1>2, <1>3 DEF Finally, Released, Claims
  <2> QED
    BY <1>1, <1>2, <1>3, <2>1 DEF Finally
<1>4. CASE Refused(w)
  BY <1>1, <1>2, <1>4 DEF Refused
<1>5. CASE Die(w)
  BY <1>1, <1>2, <1>5, FaultCounts DEF Die
<1>6. CASE Ack(w)
  <2>1. /\ pc[w] = "ack" /\ Idle(w) /\ mail' = [mail EXCEPT ![msg[w].copy] = None]
        /\ UNCHANGED <<ledger, destination, lease, source, op, faults, commands, adrift>>
    BY <1>6 DEF Ack, counters
  <2>2. msg[w].copy \in Copy
    BY <2>1, MessageMeans
  <2>3. /\ mail' \in [Copy -> Letter \cup {None}] /\ mail'[msg[w].copy] = None
        /\ \A b \in Copy \ {msg[w].copy} : mail'[b] = mail[b]
    BY <2>1, <2>2
  <2> QED
    BY <2>1, <2>3, EndStep
<1> QED
  BY <1>3, <1>4, <1>5, <1>6


----------------------------------------------------------------------------
(* The operator, and time *)

\* Workers that stay where they are still fit, if the load goes nowhere.
LEMMA WorkersStay ==
  ASSUME IInv, UNCHANGED worker, UNCHANGED destination,
         load'.sequence = load.sequence, lease'.holder = lease.holder
  PROVE  \A w \in Worker : WorkerFits(w)'
BY DEF IInv, WorkerFits, worker, destination

LEMMA CommandSteps ==
  ASSUME IInv, Command("ready") \/ Command("failed") \/ RetryCleaning \/ Cancel
  PROVE  IInv'
<1> USE Types, RowMeans
<1>1. /\ progress' = progress /\ written' = written /\ lease' = lease /\ source' = source
      /\ mail' = mail /\ UNCHANGED worker /\ faults' = faults /\ adrift' = adrift
      /\ pc' = pc /\ msg' = msg /\ at' = at /\ has' = has /\ next' = next
  BY DEF Command, RetryCleaning, Cancel, destination, worker, ledger
<1>2. commands' \in 0..MaxCommands /\ load.sequence \in Sequence /\ load.sequence <= load.sequence
      /\ load.sequence # None
  BY Bounds, SMTT(30) DEF Command, RetryCleaning, Cancel, Row, Sequence
<1>3. ASSUME NEW from \in {"ready", "failed"}, Command(from)
      PROVE  /\ load' \in Row /\ load'.sequence = load.sequence
             /\ load'.status # "completed" /\ load.status # "completed"
             /\ intents' \subseteq Sequence
             /\ load'.status \in Live => load'.sequence \in intents'
             /\ op' = load.sequence
  <2>1. /\ load' \in Row /\ load'.sequence = load.sequence /\ op' = load.sequence
        /\ load'.status # "completed" /\ load.status # "completed"
        /\ (load'.status = "queued" \/ (load' = load /\ load.status = "running"))
    BY <1>3 DEF Command, Row, Live, LoadStatus
  <2>2. intents' = IF load'.status = "queued" THEN intents \cup {load.sequence} ELSE intents
    BY <1>3 DEF Command
  <2> QED
    BY <1>2, <2>1, <2>2 DEF IInv, LoadFits, Live
<1>4. ASSUME RetryCleaning \/ Cancel
      PROVE  /\ load' \in Row /\ load'.sequence = load.sequence /\ intents' = intents
             /\ (load'.status = "completed" <=> load.status = "completed")
             /\ (load'.status \notin Live) /\ op' \in {op, load.sequence}
  BY <1>4 DEF RetryCleaning, Cancel, ledger, Row, Live, LoadStatus
<1>5. /\ load' \in Row /\ load'.sequence = load.sequence /\ intents' \subseteq Sequence
      /\ op' \in {op, load.sequence}
      /\ load'.status \in Live => load'.sequence \in intents' /\ op' = load.sequence
      /\ load'.status = "completed" <=> load.status = "completed"
  BY <1>3, <1>4
<1>6. TypeOK'
  BY <1>1, <1>2, <1>5 DEF TypeOK, Row, Claims, Place
<1>7. LoadFits' /\ MailFits' /\ SourceNeeded'
  BY <1>1, <1>2, <1>5 DEF IInv, LoadFits, MailFits, SourceNeeded
<1>8. Carried'
  BY <1>2, <1>5 DEF Carried
<1>9. \A w \in Worker : WorkerFits(w)'
  BY <1>1, <1>5, WorkersStay DEF destination
<1> QED
  BY <1>6, <1>7, <1>8, <1>9 DEF IInv

LEMMA OperatorSteps ==
  ASSUME IInv, OperatorSends \/ OperatorStops
  PROVE  IInv'
<1> USE Types
<1>1. /\ load' = load /\ intents' = intents /\ progress' = progress /\ written' = written
      /\ lease' = lease /\ source' = source /\ op' = None /\ commands' = commands
      /\ pc' = pc /\ msg' = msg /\ at' = at /\ has' = has /\ next' = next
      /\ UNCHANGED worker /\ UNCHANGED destination /\ op # None
  BY DEF OperatorSends, OperatorStops, ledger, destination, worker, counters
<1>2. CASE OperatorSends
  <2>1. Post(op) /\ op \in Sequence /\ op <= load.sequence /\ faults' = faults /\ adrift' = adrift
    BY <1>1, <1>2 DEF OperatorSends, counters, IInv, MailFits
  <2>2. /\ mail' \in [Copy -> Letter \cup {None}]
        /\ \A c \in Copy : mail'[c] # None => mail'[c].sequence <= load.sequence
        /\ \E c \in Copy : mail'[c] # None /\ c \in Unused
    BY <2>1, PostMeans
  <2>3. TypeOK'
    BY <1>1, <2>1, <2>2 DEF TypeOK, Row, Claims, Place
  <2>4. LoadFits' /\ MailFits' /\ SourceNeeded'
    BY <1>1, <2>2 DEF IInv, LoadFits, MailFits, SourceNeeded
  <2>5. Carried'
    <3>1. PICK c \in Copy : mail'[c] # None /\ c \in Unused
      BY <2>2
    <3>2. \A v \in Worker : pc'[v] = "ack" => msg'[v] # None /\ msg'[v].copy # c
      BY <1>1, <3>1 DEF IInv, WorkerFits, Unused
    <3> QED
      BY <3>1, <3>2 DEF Carried
  <2>6. \A w \in Worker : WorkerFits(w)'
    BY <1>1, WorkersStay
  <2> QED
    BY <2>3, <2>4, <2>5, <2>6 DEF IInv
<1>3. CASE OperatorStops
  <2>1. mail' = mail /\ adrift' = TRUE /\ faults' \in 0..MaxFaults
    BY <1>3, FaultCounts DEF OperatorStops
  <2>2. TypeOK'
    BY <1>1, <2>1 DEF TypeOK, Row, Claims, Place
  <2>3. LoadFits' /\ MailFits' /\ SourceNeeded' /\ Carried'
    BY <1>1, <2>1 DEF IInv, LoadFits, MailFits, SourceNeeded, Carried
  <2>4. \A w \in Worker : WorkerFits(w)'
    BY <1>1, WorkersStay
  <2> QED
    BY <2>2, <2>3, <2>4 DEF IInv
<1> QED
  BY <1>2, <1>3

LEMMA TickStep ==
  ASSUME IInv, Tick
  PROVE  IInv'
<1> USE Types
<1>1. /\ load' = load /\ intents' = intents /\ progress' = progress /\ written' = written
      /\ source' = source /\ op' = op /\ faults' = faults /\ commands' = commands
      /\ adrift' = adrift /\ pc' = pc /\ msg' = msg /\ at' = at /\ has' = has /\ next' = next
      /\ UNCHANGED worker /\ UNCHANGED destination
  BY DEF Tick, ledger, destination, worker, counters
<1>2. lease' \in Claims /\ lease'.holder = lease.holder
  <2> DEFINE left == IF lease.left > 0 THEN lease.left - 1 ELSE 0
  <2>1. lease' = [lease EXCEPT !.left = left]
    BY DEF Tick
  <2>2. left \in 0..Lease
    BY Bounds DEF Claims
  <2> HIDE DEF left
  <2> QED
    BY <2>1, <2>2 DEF Claims
<1>3. /\ mail' \in [Copy -> Letter \cup {None}]
      /\ \A c \in Copy : (mail'[c] # None <=> mail[c] # None)
           /\ (mail[c] # None => mail'[c].sequence = mail[c].sequence)
  <2> SUFFICES ASSUME NEW c \in Copy
               PROVE  /\ mail'[c] \in Letter \cup {None}
                      /\ (mail'[c] # None <=> mail[c] # None)
                      /\ (mail[c] # None => mail'[c].sequence = mail[c].sequence)
    BY DEF Tick
  <2>1. CASE mail[c] = None \/ mail[c].delay = 0
    BY <2>1 DEF Tick
  <2>2. CASE mail[c] # None /\ mail[c].delay # 0
    <3>1. mail'[c] = [mail[c] EXCEPT !.delay = @ - 1] /\ mail[c] \in Letter
      BY <2>2 DEF Tick
    <3>2. mail[c].delay - 1 \in 0..Lease
      <4> DEFINE n == mail[c].delay
      <4>1. n \in 0..Lease /\ n # 0
        BY <2>2, <3>1 DEF Letter
      <4>2. Lease \in Nat
        BY Bounds
      <4> HIDE DEF n
      <4>3. n - 1 \in 0..Lease
        BY ONLY <4>1, <4>2
      <4> QED
        BY ONLY <4>3 DEF n
    <3>3. mail'[c] \in Letter /\ mail'[c].sequence = mail[c].sequence
      BY <3>1, <3>2 DEF Letter
    <3> QED
      BY <2>2, <3>3, Bounds
  <2> QED
    BY <2>1, <2>2
<1>4. TypeOK'
  BY <1>1, <1>2, <1>3 DEF TypeOK, Row, Claims, Place
<1>5. LoadFits' /\ MailFits' /\ SourceNeeded'
  BY <1>1, <1>3 DEF IInv, LoadFits, MailFits, SourceNeeded
<1>6. Carried'
  BY <1>1, <1>3 DEF IInv, Carried
<1>7. \A w \in Worker : WorkerFits(w)'
  BY <1>1, <1>2, WorkersStay
<1> QED
  BY <1>4, <1>5, <1>6, <1>7 DEF IInv

----------------------------------------------------------------------------
(* The theorems *)

LEMMA InitIInv == Init => IInv
<1> SUFFICES ASSUME Init PROVE IInv
  OBVIOUS
<1>1. TypeOK
  <2>1. /\ 0 \in Sequence /\ 0 \in 0..Chunks /\ 0 \in 0..Lease /\ 0 \in 0..MaxFaults
        /\ 0 \in 0..MaxCommands /\ "ready" \in LoadStatus
    BY Bounds DEF Sequence, LoadStatus
  <2>2. /\ load \in Row /\ lease \in Claims /\ written \in Seq(1..Chunks)
    BY <2>1 DEF Init, Row, Claims
  <2> QED
    BY <2>1, <2>2 DEF Init, TypeOK, Row, Claims
<1>2. LoadFits
  BY Bounds DEF Init, LoadFits, Live
<1>3. MailFits /\ Carried /\ SourceNeeded
  BY DEF Init, MailFits, Carried, SourceNeeded, Live
<1>4. \A w \in Worker : WorkerFits(w)
  <2> SUFFICES ASSUME NEW w \in Worker PROVE WorkerFits(w)
    OBVIOUS
  <2>1. pc[w] = "idle" /\ next[w] = None /\ at[w] = 0 /\ progress = 0
    BY DEF Init
  <2> QED
    BY <2>1 DEF WorkerFits
<1> QED
  BY <1>1, <1>2, <1>3, <1>4 DEF IInv

LEMMA NextIInv == IInv /\ [Next]_vars => IInv'
<1> SUFFICES ASSUME IInv, [Next]_vars PROVE IInv'
  OBVIOUS
<1>1. CASE \E w \in Worker, c \in Copy : Take(w, c)
  BY <1>1, TakeStep
<1>2. ASSUME NEW w \in Worker, Step(w) \/ Throw(w) \/ Die(w)
      PROVE  IInv'
  BY <1>2, QuietSteps, LedgerSteps, LeaseSteps, CheckpointStep, WriteStep, DeleteStep,
     SendStep, EndSteps DEF Step
<1>3. CASE Operator
  BY <1>3, CommandSteps, OperatorSteps DEF Operator
<1>4. CASE Tick
  BY <1>4, TickStep
<1>5. CASE UNCHANGED vars
  BY <1>5 DEF vars, ledger, destination, worker, counters, IInv, TypeOK, LoadFits,
     MailFits, Carried, SourceNeeded, WorkerFits
<1> QED
  BY <1>1, <1>2, <1>3, <1>4, <1>5 DEF Next

LEMMA Invariant == Spec => []IInv
BY InitIInv, NextIInv, PTL DEF Spec

\* The ledger, the lease, the messages and the workers keep their types: the
\* sequence never passes the last, and no message counts more deliveries than
\* the queue makes.
THEOREM TypeCorrect == Spec => []TypeOK
<1>1. IInv => TypeOK
  BY DEF IInv
<1> QED
  BY <1>1, Invariant, PTL

\* A live load has a message, whoever repeats, stops or takes over a delivery.
THEOREM MessagesKept == Spec => []MessageKept
<1>1. IInv => MessageKept
  BY DEF IInv, Carried, MessageKept
<1> QED
  BY <1>1, Invariant, PTL

\* The input stays as long as a chunk of it is to be loaded.
THEOREM SourceStays == Spec => []SourceNeeded
<1>1. IInv => SourceNeeded
  BY DEF IInv
<1> QED
  BY <1>1, Invariant, PTL


----------------------------------------------------------------------------
(* The refinement *)

LEMMA InitPromise == Init => Promise!Init
BY DEF Init, Promise!Init, Live

\* A step that writes nothing and leaves the load open, over or to be started.
LEMMA Stutters ==
  ASSUME written' = written,
         load'.status = load.status \/ (load'.status \in Live /\ load.status \in Live)
  PROVE  [Promise!Next]_<<IF load.status \in Live THEN "open" ELSE load.status, written>>
BY DEF Live

LEMMA NextPromise ==
  ASSUME IInv, [Next]_vars
  PROVE  [Promise!Next]_<<IF load.status \in Live THEN "open" ELSE load.status, written>>
<1> USE Types, RowMeans
<1>1. /\ Chunks \in Nat /\ progress \in 0..Chunks /\ Len(written) = progress
      /\ load.status = "running" => load.sequence <= progress
  BY Bounds DEF IInv, LoadFits
<1>2. ASSUME NEW w \in Worker, Write(w)
      PROVE  [Promise!Next]_<<IF load.status \in Live THEN "open" ELSE load.status, written>>
  <2>1. CASE source /\ Authorized(w)
    <3>1. /\ load.status = "running" /\ load' = load /\ pc[w] = "write" /\ lease.holder = w
          /\ written' = Append(written, at[w] + 1)
      BY <1>2, <2>1 DEF Write, Authorized, Holds, ledger
    <3>2. at[w] = progress /\ at[w] < Chunks
      BY <3>1 DEF IInv, WorkerFits
    <3> QED
      BY <1>1, <3>1, <3>2 DEF Promise!Next, Promise!Load, Live
  <2>2. CASE ~(source /\ Authorized(w))
    BY <1>2, <2>2, Stutters DEF Write, destination, ledger
  <2> QED
    BY <2>1, <2>2
<1>3. ASSUME NEW w \in Worker, Checkpoint(w)
      PROVE  [Promise!Next]_<<IF load.status \in Live THEN "open" ELSE load.status, written>>
  <2>1. /\ written' = written /\ pc[w] = "checkpoint"
        /\ load' = load \/ (load.status = "running"
                            /\ load' = [load EXCEPT !.sequence = @ + 1,
                                                    !.status = IF Done(w) THEN "completed" ELSE "queued"])
    BY <1>3 DEF Checkpoint, destination, Authorized, ledger
  <2>2. CASE load' = load \/ (load'.status = "queued" /\ load.status = "running")
    BY <2>1, <2>2, Stutters DEF Live
  <2>3. CASE load'.status = "completed" /\ load.status = "running" /\ Done(w)
    <3>1. Len(written) = Chunks
      BY <1>1, <2>3 DEF Done, IInv, WorkerFits
    <3> QED
      BY <2>1, <2>3, <3>1 DEF Promise!Next, Promise!Complete, Live
  <2> QED
    BY <2>1, <2>2, <2>3 DEF Row
<1>4. ASSUME NEW w \in Worker, Fail(w)
      PROVE  [Promise!Next]_<<IF load.status \in Live THEN "open" ELSE load.status, written>>
  <2>1. /\ written' = written
        /\ load' = load \/ (load.status \in Live /\ load' = [load EXCEPT !.status = "failed"])
    BY <1>4 DEF Fail, destination
  <2>2. CASE load' = load
    BY <2>1, <2>2, Stutters
  <2>3. CASE load.status \in Live /\ load'.status = "failed"
    BY <2>1, <2>3 DEF Promise!Next, Promise!Fail, Live
  <2> QED
    BY <2>1, <2>2, <2>3 DEF Row
<1>5. ASSUME NEW w \in Worker, Begin(w) \/ SourceCleaned(w)
      PROVE  [Promise!Next]_<<IF load.status \in Live THEN "open" ELSE load.status, written>>
  <2>1. /\ written' = written
        /\ load'.status = load.status \/ (load'.status \in Live /\ load.status \in Live)
    BY <1>5 DEF Begin, SourceCleaned, destination, Row, Live
  <2> QED
    BY <2>1, Stutters
<1>6. ASSUME NEW from \in {"ready", "failed"}, Command(from)
      PROVE  [Promise!Next]_<<IF load.status \in Live THEN "open" ELSE load.status, written>>
  <2>1. /\ written' = written /\ load.status \in Live \cup {from}
        /\ load' = IF load.status = from THEN [load EXCEPT !.status = "queued"] ELSE load
    BY <1>6 DEF Command, destination
  <2>2. CASE load.status = from
    <3>1. load'.status = "queued"
      BY <2>1, <2>2 DEF Row
    <3> QED
      BY <2>1, <2>2, <3>1 DEF Promise!Next, Promise!Open, Live
  <2>3. CASE load.status # from
    BY <2>1, <2>3, Stutters
  <2> QED
    BY <2>2, <2>3
<1>7. ASSUME Cancel
      PROVE  [Promise!Next]_<<IF load.status \in Live THEN "open" ELSE load.status, written>>
  <2>1. /\ written' = written /\ load.status \in {"ready", "queued", "running", "failed"}
        /\ load'.status = "cancelled"
    BY <1>7 DEF Cancel, destination, Row
  <2> QED
    BY <2>1 DEF Promise!Next, Promise!Cancel, Live
<1>8. ASSUME written' = written, load' = load
      PROVE  [Promise!Next]_<<IF load.status \in Live THEN "open" ELSE load.status, written>>
  BY <1>8, Stutters
<1>9. CASE \E w \in Worker, c \in Copy : Take(w, c)
  BY <1>8, <1>9 DEF Take, ledger, destination
<1>10. ASSUME NEW w \in Worker, Step(w) \/ Throw(w) \/ Die(w)
       PROVE  [Promise!Next]_<<IF load.status \in Live THEN "open" ELSE load.status, written>>
  <2>1. CASE Write(w) \/ Checkpoint(w) \/ Fail(w) \/ Begin(w) \/ SourceCleaned(w)
    BY <1>2, <1>3, <1>4, <1>5, <2>1
  <2>2. CASE OpenSnapshot(w) \/ Claim(w) \/ Refused(w) \/ Renew(w) \/ Read(w) \/ Release(w)
             \/ Delete(w) \/ Publish(w) \/ Send(w) \/ Ack(w) \/ Finally(w) \/ Throw(w) \/ Die(w)
    BY <1>8, <2>2 DEF OpenSnapshot, Claim, Refused, Renew, Read, Release, Delete, Publish,
       Send, Ack, Finally, Throw, Die, ledger, destination
  <2> QED
    BY <1>10, <2>1, <2>2 DEF Step
<1>11. CASE Operator
  <2>1. CASE RetryCleaning \/ OperatorSends \/ OperatorStops
    BY <1>8, <2>1 DEF RetryCleaning, OperatorSends, OperatorStops, ledger, destination
  <2> QED
    BY <1>6, <1>7, <1>11, <2>1 DEF Operator
<1>12. CASE Tick
  BY <1>8, <1>12 DEF Tick, ledger, destination
<1>13. CASE UNCHANGED vars
  BY <1>8, <1>13 DEF vars, ledger, destination
<1> QED
  BY <1>9, <1>10, <1>11, <1>12, <1>13 DEF Next

\* The chunks reach the destination in order, each once, while the load is
\* open, and it is completed with all of them: the load implements LoadInOrder.
THEOREM Implements == Spec => PromiseKept
<1>1. Init => Promise!Init
  BY InitPromise
<1>2. IInv /\ [Next]_vars => [Promise!Next]_<<IF load.status \in Live THEN "open" ELSE load.status, written>>
  BY NextPromise
<1> QED
  BY <1>1, <1>2, Invariant, PTL DEF Spec, PromiseKept, Promise!Spec

\* What that promises: the chunks in the destination are the first ones, in
\* order, none twice and none left out; there are never more of them than the
\* snapshot has, and all of them once the load is completed.
InOrder ==
  /\ written = [n \in 1..Len(written) |-> n] /\ Len(written) <= Chunks
  /\ load.status = "completed" => Len(written) = Chunks

THEOREM ChunksInOrder == Spec => []InOrder
<1>1. ASSUME IInv PROVE InOrder
  <2>1. /\ written = [n \in 1..progress |-> n] /\ progress \in 0..Chunks /\ Chunks \in Nat
        /\ load.status = "completed" => progress = Chunks
    BY <1>1, Types, Bounds DEF IInv, LoadFits
  <2>2. Len(written) = progress
    BY <2>1
  <2> QED
    BY <2>1, <2>2 DEF InOrder
<1> QED
  BY <1>1, Invariant, PTL

----------------------------------------------------------------------------
(* Deliveries one at a time *)

\* A delivery begins while another one still goes on.
Overlaps == \E w \in Worker, c \in Copy : Take(w, c) /\ \E v \in Worker : pc[v] # "idle"

Working == {"open", "begin", "claim", "renew", "read", "write", "checkpoint"}

\* Without such a step the load a delivery works on is not over, and is still
\* at the sequence it began; who goes on to delete the input has completed it.
WorksAlone(w) ==
  /\ pc[w] \in Working => load.status # "completed"
  /\ pc[w] \in Working \ {"open", "begin"} => load.sequence = msg[w].sequence
  /\ pc[w] = "release" /\ Done(w) => load.status = "completed"
  /\ pc[w] = "delete" => load.status = "completed"

InputKept == ~source => load.status = "completed"

OneAtATime ==
  /\ \A v, w \in Worker : pc[v] # "idle" /\ pc[w] # "idle" => v = w
  /\ InputKept
  /\ \A w \in Worker : WorksAlone(w)

LEMMA CompletedStays ==
  ASSUME IInv, [Next]_vars, load.status = "completed"
  PROVE  load'.status = "completed"
<1>1. CASE UNCHANGED load
  BY <1>1
<1>2. CASE Operator
  BY <1>2 DEF Operator, Command, RetryCleaning, Cancel, OperatorSends, OperatorStops, ledger, Live
<1>3. ASSUME NEW w \in Worker, Fail(w) \/ Begin(w) \/ SourceCleaned(w) \/ Checkpoint(w)
      PROVE  load'.status = "completed"
  BY <1>3, Types DEF Fail, Begin, SourceCleaned, Checkpoint, Authorized, ledger, Live, Row
<1>4. UNCHANGED load \/ Operator
      \/ \E w \in Worker : Fail(w) \/ Begin(w) \/ SourceCleaned(w) \/ Checkpoint(w)
  BY DEF Next, Step, Take, Throw, Die, OpenSnapshot, Claim, Refused, Renew, Read, Write, Release,
         Delete, Publish, Send, Ack, Finally, Tick, ledger, vars
<1> QED
  BY <1>1, <1>2, <1>3, <1>4

\* A step by which a worker leaves what it works on.
LEMMA TurnsAway ==
  ASSUME IInv, OneAtATime, [Next]_vars, NEW w \in Worker, pc[w] # "idle",
         \A v \in Worker \ {w} : pc'[v] = pc[v],
         source' = source \/ load.status = "completed"
  PROVE  /\ \A v, u \in Worker : pc'[v] # "idle" /\ pc'[u] # "idle" => v = u
         /\ InputKept'
         /\ \A v \in Worker \ {w} : WorksAlone(v)'
<1>1. \A v \in Worker \ {w} : pc'[v] = "idle"
  BY DEF OneAtATime
<1>2. InputKept'
  BY CompletedStays DEF OneAtATime, InputKept
<1> QED
  BY <1>1, <1>2 DEF WorksAlone, Working

LEMMA WorkerAlone ==
  ASSUME IInv, OneAtATime, NEW w \in Worker, Step(w) \/ Throw(w) \/ Die(w)
  PROVE  OneAtATime'
<1>1. /\ pc[w] # "idle" /\ \A v \in Worker \ {w} : pc'[v] = pc[v]
  BY Types DEF Step, Throw, Die, OpenSnapshot, Begin, Claim, Refused, Renew, Read, Write,
     Checkpoint, Release, Delete, SourceCleaned, Publish, Send, Ack, Fail, Finally, Goto,
     Returned, Idle
<1>2. [Next]_vars
  BY DEF Next
<1>3. WorksAlone(w) /\ load \in Row /\ pc \in [Worker -> Place]
  BY Types DEF OneAtATime
<1>4. source' = source \/ load.status = "completed"
  BY <1>3 DEF Step, Throw, Die, OpenSnapshot, Begin, Claim, Refused, Renew, Read, Write,
     Checkpoint, Release, Delete, SourceCleaned, Publish, Send, Ack, Fail, Finally, WorksAlone
<1>5. WorksAlone(w)'
  <2>1. CASE pc'[w] \notin Working \cup {"release", "delete"}
    BY <2>1 DEF WorksAlone
  <2>2. CASE OpenSnapshot(w) \/ Claim(w) \/ Renew(w) \/ Read(w) \/ Write(w)
    <3>1. /\ UNCHANGED <<load, msg>>
          /\ pc'[w] \in Working => pc[w] \in Working
          /\ pc'[w] \in Working \ {"open", "begin"} => pc[w] \in Working \ {"open", "begin"}
          /\ pc'[w] \notin {"release", "delete"}
      <4>1. UNCHANGED <<load, msg>>
        BY <2>2 DEF OpenSnapshot, Claim, Renew, Read, Write, ledger
      <4>2. \/ pc[w] = "open" /\ pc'[w] = "begin"
            \/ pc[w] \in {"claim", "renew", "read", "write"}
               /\ pc'[w] \in {"renew", "read", "write", "checkpoint"}
            \/ pc'[w] \in {"fail", "finally"}
        BY <1>3, <2>2 DEF OpenSnapshot, Claim, Renew, Read, Write, Goto, Caught
      <4>3. CASE pc[w] = "open" /\ pc'[w] = "begin"
        BY <4>1, <4>3 DEF Working
      <4>4. CASE pc[w] \in {"claim", "renew", "read", "write"}
                 /\ pc'[w] \in {"renew", "read", "write", "checkpoint"}
        BY <4>1, <4>4 DEF Working
      <4>5. CASE pc'[w] \in {"fail", "finally"}
        BY <4>1, <4>5 DEF Working
      <4> QED
        BY <4>2, <4>3, <4>4, <4>5
    <3> QED
      BY <1>3, <3>1 DEF WorksAlone
  <2>3. CASE Begin(w)
    <3>1. \/ /\ load' = [load EXCEPT !.status = "running"] /\ pc'[w] = "claim"
             /\ load.sequence = msg[w].sequence
          \/ pc'[w] = "publish"
      BY <1>3, <2>3 DEF Begin, Goto
    <3>2. UNCHANGED msg
      BY <2>3 DEF Begin
    <3> QED
      BY <1>3, <3>1, <3>2 DEF WorksAlone, Working, Row
  <2>4. CASE Checkpoint(w)
    <3>1. pc[w] = "checkpoint" /\ load.sequence = msg[w].sequence /\ UNCHANGED <<at, msg>>
      BY <1>3, <2>4 DEF Checkpoint, WorksAlone, Working
    <3>2. \/ pc'[w] = "finally"
          \/ /\ pc'[w] = "release"
             /\ load' = [load EXCEPT !.sequence = @ + 1,
                                     !.status = IF Done(w) THEN "completed" ELSE "queued"]
      BY <1>3, <2>4, <3>1 DEF Checkpoint, Goto
    <3>3. Done(w)' <=> Done(w)
      BY <3>1 DEF Done
    <3> QED
      BY <1>3, <3>2, <3>3 DEF WorksAlone, Working, Row
  <2>5. CASE Release(w)
    <3>1. /\ UNCHANGED load /\ pc[w] = "release"
          /\ (pc'[w] = "delete" /\ Done(w)) \/ pc'[w] \in {"publish", "finally"}
      BY <1>3, <2>5 DEF Release, Goto, ledger
    <3> QED
      BY <1>3, <3>1 DEF WorksAlone, Working
  <2>6. CASE Refused(w) \/ Delete(w) \/ SourceCleaned(w) \/ Publish(w) \/ Send(w) \/ Ack(w)
             \/ Fail(w) \/ Finally(w) \/ Throw(w) \/ Die(w)
    <3>1. pc'[w] \notin Working \cup {"release", "delete"}
      BY <1>3, <2>6 DEF Refused, Delete, SourceCleaned, Publish, Send, Ack, Fail, Finally, Throw,
         Die, Returned, Idle, Goto, Caught, Working
    <3> QED
      BY <2>1, <3>1
  <2> QED
    BY <2>2, <2>3, <2>4, <2>5, <2>6 DEF Step
<1>6. /\ \A v, u \in Worker : pc'[v] # "idle" /\ pc'[u] # "idle" => v = u
      /\ InputKept' /\ \A v \in Worker \ {w} : WorksAlone(v)'
  BY <1>1, <1>2, <1>4, TurnsAway
<1> QED
  BY <1>5, <1>6 DEF OneAtATime

LEMMA TakeAlone ==
  ASSUME IInv, OneAtATime, NEW w \in Worker, NEW c \in Copy, Take(w, c), ~Overlaps
  PROVE  OneAtATime'
<1>1. \A v \in Worker : pc[v] = "idle"
  BY DEF Overlaps
<1>2. /\ pc' = [pc EXCEPT ![w] = Arrived(mail[c].sequence)] /\ pc \in [Worker -> Place]
      /\ msg'[w].sequence = mail[c].sequence /\ UNCHANGED <<load, source>>
  <2>1. msg' = [msg EXCEPT ![w] = [copy |-> c, sequence |-> mail[c].sequence,
                                   delivered |-> mail[c].delivered + 1]]
    BY DEF Take
  <2> QED
    BY <2>1, Types DEF Take, Goto, ledger
<1>3. /\ Arrived(mail[c].sequence) \in {"ack", "delete", "finally", "publish", "open"}
      /\ Arrived(mail[c].sequence) = "delete" => load.status = "completed"
      /\ Arrived(mail[c].sequence) = "open" => load.status # "completed"
  BY DEF Arrived, Live
<1>4. \A v \in Worker \ {w} : pc'[v] = "idle"
  BY <1>1, <1>2
<1>5. pc'[w] = Arrived(mail[c].sequence)
  BY <1>2
<1>6. WorksAlone(w)'
  BY <1>2, <1>3, <1>5 DEF WorksAlone, Working
<1>7. InputKept'
  BY <1>2 DEF OneAtATime, InputKept
<1> QED
  BY <1>4, <1>6, <1>7 DEF OneAtATime, WorksAlone, Working

LEMMA OneAtATimeStays ==
  ASSUME IInv, OneAtATime, [Next]_vars, ~Overlaps
  PROVE  OneAtATime'
<1>1. CASE Operator \/ Tick \/ UNCHANGED vars
  <2>1. /\ UNCHANGED <<pc, at, msg, source>>
        /\ load'.sequence = load.sequence
        /\ load'.status = "completed" <=> load.status = "completed"
    BY <1>1, Types DEF Operator, Command, RetryCleaning, Cancel, OperatorSends, OperatorStops, Tick,
       ledger, worker, vars, Row, Live
  <2> QED
    BY <2>1 DEF OneAtATime, WorksAlone, InputKept, Done
<1>2. CASE \E w \in Worker, c \in Copy : Take(w, c)
  BY <1>2, TakeAlone
<1>3. CASE \E w \in Worker : Step(w) \/ Throw(w) \/ Die(w)
  BY <1>3, WorkerAlone
<1> QED
  BY <1>1, <1>2, <1>3 DEF Next

\* As long as the queue runs one delivery at a time, the input of a load is
\* deleted only when the load is completed, whatever fails, is repeated, is
\* cancelled or stops half-way, and no delivery at work ever finds it gone
\* (queued-loader.ts: cleanCompletedInput).  With overlapping deliveries only
\* SourceNeeded is true: nothing is left to be loaded.
THEOREM InputStaysAlone ==
  Spec /\ [][~Overlaps]_vars =>
    [](InputKept /\ \A w \in Worker : pc[w] \in Working => source)
<1>1. Init => IInv /\ OneAtATime
  BY InitIInv DEF Init, OneAtATime, InputKept, WorksAlone, Working
<1>2. ASSUME IInv, OneAtATime, [Next]_vars, [~Overlaps]_vars
      PROVE  IInv' /\ OneAtATime'
  <2>1. CASE UNCHANGED vars
    <3>1. UNCHANGED <<load, source, pc, msg, at>>
      BY <2>1 DEF vars, ledger, worker
    <3> QED
      BY <1>2, <3>1, NextIInv DEF OneAtATime, WorksAlone, InputKept, Done
  <2> QED
    BY <1>2, <2>1, NextIInv, OneAtATimeStays
<1>3. OneAtATime => InputKept /\ \A w \in Worker : pc[w] \in Working => source
  BY DEF OneAtATime, InputKept, WorksAlone
<1> QED
  BY <1>1, <1>2, <1>3, PTL DEF Spec

=============================================================================
