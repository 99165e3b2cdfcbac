----------------------------- MODULE Idempotency -----------------------------
(***************************************************************************)
(* One idempotency key and the requests that carry it: withIdempotency of  *)
(* packages/api/src/idempotency.ts over the claim that every write batch   *)
(* carries (packages/db/src/idempotency.ts, migration 0107).               *)
(*                                                                         *)
(* Abstractions, all of data:                                              *)
(*  - the fingerprint, the credentials and the secret of a request are     *)
(*    values of Body, Credential and Secret, and the row keeps them by     *)
(*    naming its owner;                                                    *)
(*  - what authorize answers is the authorization revision, or None on the *)
(*    surfaces whose responses are never kept; a request that it refuses   *)
(*    at once never begins;                                                *)
(*  - a response is the attempt it belongs to, and whether the row keeps   *)
(*    it is one choice (too large, a server error);                        *)
(*  - the age of the row replaces the clock: within the lease, past it,    *)
(*    past the lifetime;                                                   *)
(*  - a request sends its write batches one after the other, and reads,    *)
(*    which carry no claim, are left out.                                  *)
(***************************************************************************)
EXTENDS Integers, FiniteSets

CONSTANTS
  Attempt,      \* executions of requests that carry the key
  Body,         \* [Attempt -> fingerprint]
  Credential,   \* [Attempt -> holder's credentials]
  Secret,       \* [Attempt -> secret version it was derived under]
  Api,          \* the attempts on surfaces whose responses may be replayed
  MaxWrites,    \* bound: write batches per attempt
  MaxRevision,  \* bound: changes of the authorization revision
  None          \* SQL NULL

\* The key's row; age stands for created_at and expires_at against the clock.
Age == {"lease", "lapsed", "expired"}
Row == [owner : Attempt, auth : Nat \cup {None}, done : BOOLEAN,
        kept : BOOLEAN, age : Age]

\* What a client is told.
Kind == {"own", "unrecorded", "error", "replay", "unavailable", "reused",
         "in progress", "refused"}

ASSUME IdempotencyAssumption ==
  /\ Api \subseteq Attempt
  /\ MaxWrites \in Nat /\ MaxRevision \in Nat
  /\ None \notin Attempt /\ None \notin Nat /\ None \notin Kind
  /\ None \notin Row

VARIABLES
  row,        \* the key's row in idempotency_keys, or None
  revision,   \* idempotency_authorization.revision
  pc,         \* where each request is
  auth,       \* what authorize answered when it began
  inflight,   \* its batch at the database: none, sent, or rejected
  wrote,      \* ClaimState.wrote
  lost,       \* ClaimState.lost
  failed,     \* the execution's outcome is not ok
  writes,     \* write batches of the attempt that are committed
  answer,     \* what the client was told
  spent       \* history: the attempts whose row outlived its lifetime

local == <<pc, auth, inflight, wrote, lost, failed>>
vars == <<row, revision, local, writes, answer, spent>>

----------------------------------------------------------------------------
(* State *)

Place == {"new", "read", "forget", "run", "closing", "reread", "complete",
          "stored", "disclose", "answered", "cut", "dead"}

Init ==
  /\ row = None
  /\ revision = 0
  /\ pc = [a \in Attempt |-> "new"]
  /\ auth = [a \in Attempt |-> None]
  /\ inflight = [a \in Attempt |-> "none"]
  /\ wrote = [a \in Attempt |-> FALSE]
  /\ lost = [a \in Attempt |-> FALSE]
  /\ failed = [a \in Attempt |-> FALSE]
  /\ writes = [a \in Attempt |-> 0]
  /\ answer = [a \in Attempt |-> None]
  /\ spent = {}

Goto(a, place) == pc' = [pc EXCEPT ![a] = place]
Answer(a, kind) ==
  /\ answer' = [answer EXCEPT ![a] = kind]
  /\ Goto(a, "answered")
Active(a) == pc[a] \notin {"new", "answered", "cut", "dead"}

----------------------------------------------------------------------------
(* The claim *)

ClaimOf(a) == [owner |-> a, auth |-> auth[a], done |-> FALSE, kept |-> FALSE,
               age |-> "lease"]

\* Mutant of MayCommit: a claim that is there already is ignored.
ClaimIgnored(a) == TRUE

\* INSERT ... WHERE NOT EXISTS (the attempt's own row), the primary key
\* against every other one.
MayCommit(a) == row # None => row.owner = a

\* Mutant of RolledBack: the claim is a statement of its own.
ClaimKept(a) == IF row = None THEN ClaimOf(a) ELSE row

\* What a batch that fails leaves of its claim.
RolledBack(a) == row

\* Mutant of Open: work that outlives its request keeps its claim scope.
NeverClosed(a) == pc[a] \in {"run", "closing", "answered"}

\* requireOpenClaim
Open(a) == pc[a] = "run"

Send(a) ==
  /\ Open(a)
  /\ inflight[a] = "none"
  /\ writes[a] < MaxWrites
  /\ inflight' = [inflight EXCEPT ![a] = "sent"]
  /\ UNCHANGED <<row, revision, pc, auth, wrote, lost, failed, writes, answer,
                 spent>>

\* The batch commits with its claim; its answer arrives or is lost.
Commit(a) ==
  /\ inflight[a] = "sent"
  /\ MayCommit(a)
  /\ row' = IF row = None THEN ClaimOf(a) ELSE row
  /\ writes' = [writes EXCEPT ![a] = @ + 1]
  /\ \/ /\ wrote' = [wrote EXCEPT ![a] = TRUE]
        /\ inflight' = [inflight EXCEPT ![a] = "none"]
     \/ /\ inflight' = [inflight EXCEPT ![a] = "rejected"]
        /\ UNCHANGED wrote
  /\ UNCHANGED <<revision, pc, auth, lost, failed, answer, spent>>

\* The claim collides, or the batch fails for a reason of its own.
Reject(a) ==
  /\ inflight[a] = "sent"
  /\ inflight' = [inflight EXCEPT ![a] = "rejected"]
  /\ row' = RolledBack(a)
  /\ UNCHANGED <<revision, pc, auth, wrote, lost, failed, writes, answer,
                 spent>>

\* settle: the owner's row tells what the failure meant, unless reading it
\* fails too.  The failure reaches the handler, or the claim scope if the
\* handler is over.
Settle(a) ==
  /\ inflight[a] = "rejected"
  /\ inflight' = [inflight EXCEPT ![a] = "none"]
  /\ \/ UNCHANGED <<wrote, lost>>
     \/ /\ row # None
        /\ wrote' = [wrote EXCEPT ![a] = @ \/ row.owner = a]
        /\ lost' = [lost EXCEPT ![a] = @ \/ row.owner # a]
  /\ failed' = [failed EXCEPT ![a] = @ \/ pc[a] = "closing"]
  /\ UNCHANGED <<row, revision, pc, auth, writes, answer, spent>>

----------------------------------------------------------------------------
(* A request *)

Begin(a) ==
  /\ pc[a] = "new"
  /\ auth' = [auth EXCEPT ![a] = IF a \in Api THEN revision ELSE None]
  /\ Goto(a, "read")
  /\ UNCHANGED <<row, revision, inflight, wrote, lost, failed, writes, answer,
                 spent>>

\* The first read: a fresh row is answered from, an expired one forgotten.
Read(a) ==
  /\ pc[a] = "read"
  /\ Goto(a, IF row = None THEN "run"
             ELSE IF row.age = "expired" THEN "forget" ELSE "stored")
  /\ UNCHANGED <<row, revision, auth, inflight, wrote, lost, failed, writes,
                 answer, spent>>

\* DELETE ... WHERE id = ? AND expires_at <= ?
Forgettable == row # None /\ row.age = "expired"

Forget(a) ==
  /\ pc[a] = "forget"
  /\ row' = IF Forgettable THEN None ELSE row
  /\ Goto(a, "run")
  /\ UNCHANGED <<revision, auth, inflight, wrote, lost, failed, writes, answer,
                 spent>>

\* The handler is over, with a value or by throwing; a batch it did not
\* await may still be at the database.
Return(a) ==
  /\ pc[a] = "run"
  /\ \E thrown \in BOOLEAN : failed' = [failed EXCEPT ![a] = thrown]
  /\ Goto(a, "closing")
  /\ UNCHANGED <<row, revision, auth, inflight, wrote, lost, writes, answer,
                 spent>>

\* Mutant of Drained: the outcome is frozen while a batch is at the database.
Undrained(a) == TRUE

\* Promise.allSettled(state.pending)
Drained(a) == inflight[a] = "none"

\* The execution's result: an attempt that lost, or wrote nothing, looks at
\* the row again; one that wrote records its response.
Close(a) ==
  /\ pc[a] = "closing"
  /\ Drained(a)
  /\ \/ /\ lost[a]
        /\ Goto(a, "stored")
        /\ UNCHANGED answer
     \/ /\ ~lost[a] /\ failed[a]
        /\ Answer(a, "error")
     \/ /\ ~lost[a] /\ ~failed[a]
        /\ Goto(a, IF wrote[a] THEN "complete" ELSE "reread")
        /\ UNCHANGED answer
  /\ UNCHANGED <<row, revision, auth, inflight, wrote, lost, failed, writes,
                 spent>>

Reread(a) ==
  /\ pc[a] = "reread"
  /\ \/ /\ row = None
        /\ Answer(a, "unrecorded")
     \/ /\ row # None
        /\ Goto(a, "stored")
        /\ UNCHANGED answer
  /\ UNCHANGED <<row, revision, auth, inflight, wrote, lost, failed, writes,
                 spent>>

\* complete, or its failure, which is only reported.
Complete(a) ==
  /\ pc[a] = "complete"
  /\ \/ UNCHANGED row
     \/ /\ row # None /\ row.owner = a /\ ~row.done
        /\ \E kept \in BOOLEAN :
             /\ kept => a \in Api
             /\ row' = [row EXCEPT !.done = TRUE, !.kept = kept]
  /\ Answer(a, "own")
  /\ UNCHANGED <<revision, auth, inflight, wrote, lost, failed, writes,
                 spent>>

----------------------------------------------------------------------------
(* answerStored *)

SameKey(a) == Secret[row.owner] = Secret[a]
SameRequest(a) == Body[row.owner] = Body[a]
SameHolder(a) == Credential[row.owner] = Credential[a] /\ row.auth = auth[a]

\* Mutant of InProgress: the deadline is forgotten, only the lease ends a wait.
WaitsForLease(a) == row = None

\* A row that is gone, or claimed within its lease when the wait is over.
\* Until then the duplicate keeps reading.
InProgress(a) ==
  \/ row = None
  \/ /\ row # None /\ SameKey(a) /\ SameRequest(a)
     /\ ~row.done /\ row.age = "lease"

\* The checks before the row is known to be done.
Refuse(a) ==
  /\ pc[a] = "stored"
  /\ \/ InProgress(a) /\ Answer(a, "in progress")
     \/ /\ row # None
        /\ \/ ~SameKey(a) /\ Answer(a, "unavailable")
           \/ SameKey(a) /\ ~SameRequest(a) /\ Answer(a, "reused")
           \/ /\ SameKey(a) /\ SameRequest(a)
              /\ ~row.done /\ row.age # "lease"
              /\ Answer(a, "unavailable")
  /\ UNCHANGED <<row, revision, auth, inflight, wrote, lost, failed, writes,
                 spent>>

\* The work is done; its answer goes to the same holder only.
FindDone(a) ==
  /\ pc[a] = "stored"
  /\ row # None /\ SameKey(a) /\ SameRequest(a) /\ row.done
  /\ IF SameHolder(a) /\ row.kept
     THEN Goto(a, "disclose") /\ UNCHANGED answer
     ELSE Answer(a, "unavailable")
  /\ UNCHANGED <<row, revision, auth, inflight, wrote, lost, failed, writes,
                 spent>>

\* Mutant of Reauthorized: the authorization of the beginning is enough.
AuthorizedOnce(a) == auth[a] # None

Reauthorized(a) == auth[a] # None /\ auth[a] = revision

\* authorize is called once more, after any waiting, and may refuse now.
Disclose(a) ==
  /\ pc[a] = "disclose"
  /\ \/ Answer(a, IF Reauthorized(a) THEN "replay" ELSE "unavailable")
     \/ Answer(a, "refused")
  /\ UNCHANGED <<row, revision, auth, inflight, wrote, lost, failed, writes,
                 spent>>

----------------------------------------------------------------------------
(* The surroundings *)

\* The instance stops, perhaps in the middle of the handler; a batch it sent
\* may still commit.
Die(a) ==
  /\ Active(a)
  /\ Goto(a, IF pc[a] = "run" THEN "cut" ELSE "dead")
  /\ UNCHANGED <<row, revision, auth, inflight, wrote, lost, failed, writes,
                 answer, spent>>

\* An assignment, an owner or a policy changes (migration 0108).
Authority ==
  /\ revision < MaxRevision
  /\ revision' = revision + 1
  /\ UNCHANGED <<row, local, writes, answer, spent>>

\* A minute after the request that owns the row began, whether or not it is
\* still running.
LeaseLapses ==
  /\ row # None /\ row.age = "lease"
  /\ row' = [row EXCEPT !.age = "lapsed"]
  /\ UNCHANGED <<revision, local, writes, answer, spent>>

\* A day after that.  No request lasts as long.
LifetimeEnds ==
  /\ row # None /\ row.age # "expired"
  /\ \A a \in Attempt : ~Active(a) /\ inflight[a] = "none"
  /\ row' = [row EXCEPT !.age = "expired"]
  /\ spent' = spent \cup {row.owner}
  /\ UNCHANGED <<revision, local, writes, answer>>

\* complete of any other key purges what has expired.
Purge ==
  /\ row # None /\ row.age = "expired"
  /\ row' = None
  /\ UNCHANGED <<revision, local, writes, answer, spent>>

----------------------------------------------------------------------------
Batch(a) == Send(a) \/ Commit(a) \/ Reject(a) \/ Settle(a)
Stored(a) == Refuse(a) \/ FindDone(a) \/ Disclose(a)

\* What a request does by itself once it has begun.
Step(a) ==
  \/ Read(a) \/ Forget(a) \/ Return(a) \/ Close(a) \/ Reread(a) \/ Complete(a)
  \/ Stored(a)

Next ==
  \/ \E a \in Attempt : Begin(a) \/ Step(a) \/ Batch(a) \/ Die(a)
  \/ Authority \/ LeaseLapses \/ LifetimeEnds \/ Purge

Spec == Init /\ [][Next]_vars

\* Handlers return, batches are answered, and a wait has a deadline.  Nothing
\* is assumed of the lease.
Fairness == \A a \in Attempt :
  WF_vars(Step(a)) /\ WF_vars(Commit(a) \/ Reject(a) \/ Settle(a))
FairSpec == Spec /\ Fairness

----------------------------------------------------------------------------
(* What must hold *)

\* Types, and a row is there only because an attempt wrote.
TypeOK ==
  /\ row \in Row \cup {None}
  /\ revision \in Nat
  /\ pc \in [Attempt -> Place]
  /\ auth \in [Attempt -> Nat \cup {None}]
  /\ inflight \in [Attempt -> {"none", "sent", "rejected"}]
  /\ wrote \in [Attempt -> BOOLEAN]
  /\ lost \in [Attempt -> BOOLEAN]
  /\ failed \in [Attempt -> BOOLEAN]
  /\ writes \in [Attempt -> Nat]
  /\ answer \in [Attempt -> Kind \cup {None}]
  /\ spent \subseteq Attempt
  /\ row # None => writes[row.owner] > 0

\* Within the lifetime of a row at most one attempt has committed anything
\* (docs/api-contract.md: once one attempt has written, no other attempt with
\* that key can commit anything), through retries, lost answers, crashes and
\* requests that find the row expired at the same time.
OnceOnly ==
  \A a, b \in Attempt \ spent : writes[a] > 0 /\ writes[b] > 0 => a = b

\* Who wrote holds the key.
WriterHoldsKey ==
  \A a \in Attempt \ spent : writes[a] > 0 => row # None /\ row.owner = a

\* A response that is not recorded because nothing was written comes from an
\* attempt that wrote nothing, and that never writes again: its retry runs
\* (idempotency.ts, runWithClaim: a detached in-flight write must not land
\* after wrote = false was returned).
UnrecordedWroteNothing ==
  \A a \in Attempt : answer[a] = "unrecorded" =>
    writes[a] = 0 /\ inflight[a] = "none"

\* A client is told that the work was carried out only if some attempt has
\* committed a write (api/src/idempotency.ts, refusals.unavailable).
UnavailableMeansWritten ==
  \A a \in Attempt : answer[a] \in {"unavailable", "replay"} =>
    \E b \in Attempt : writes[b] > 0

\* The answer of an attempt is its last word: what it started and left behind
\* commits nothing afterwards.
AnsweredWritesNothing ==
  [][\A a \in Attempt : pc[a] = "answered" => writes'[a] = writes[a]]_vars

\* A stored answer is disclosed only under the very authority its writer
\* began with, to the same credentials and for the same request, whatever
\* changed while the duplicate waited (docs/api-contract.md: authorization is
\* checked again after waiting for another attempt).
ReplayIsAuthorized ==
  [][\A a \in Attempt : answer[a] # "replay" /\ answer'[a] = "replay" =>
       /\ row.done /\ row.kept /\ row.auth = revision
       /\ Body[row.owner] = Body[a]
       /\ Credential[row.owner] = Credential[a]]_vars

\* A request that does not die is answered, even when the attempt that holds
\* its key never finishes.
EventuallyAnswered ==
  \A a \in Attempt : pc[a] # "new" ~> pc[a] \in {"answered", "cut", "dead"}
=============================================================================
