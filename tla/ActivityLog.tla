----------------------------- MODULE ActivityLog -----------------------------
(***************************************************************************)
(* The activity log: the built-in subscriber of the outbox that inserts    *)
(* one row per event (packages/db/src/outbox.ts), the roll that renames    *)
(* the log's table when a year is over (activity-partitions.ts), and the   *)
(* walk that reads the log page by page across all its tables (outbox.ts   *)
(* listActivity, api/src/outbox.ts export).                                *)
(*                                                                         *)
(* It composes with Outbox: every step of the outbox is a step here that   *)
(* says in addition what it does to the log.  A row keeps the instant of   *)
(* the claim it was inserted under; instants only need an order, so `now`  *)
(* is a counter that MaxInstant bounds.                                    *)
(***************************************************************************)
EXTENDS Outbox

CONSTANTS
  Activity,     \* ACTIVITY_LOG_SUBSCRIBER_ID
  MaxInstant,   \* bound: the last instant
  YearOf,       \* [0..MaxInstant -> Nat]: the UTC year of an instant
  RollEvent,    \* [years that can be rolled -> Event]: activity_log.rolled
  Rank,         \* [Event -> Nat]: the order of the event ids
  MaxWalks      \* bound: walks through the log

Instant == 0..MaxInstant
Year == DOMAIN RollEvent
Row == [event : Event, at : Instant]

ASSUME ActivityAssumption ==
  /\ Activity \in Subscriber
  /\ \A dep \in Deployment : Activity \in Registered(dep)
  /\ MaxInstant \in Nat /\ MaxWalks \in Nat
  /\ YearOf \in [Instant -> Nat]
  /\ \A i, j \in Instant : i <= j => YearOf[i] <= YearOf[j]
  /\ Year \subseteq Nat /\ RollEvent \in [Year -> Event]
  /\ \A y, z \in Year : RollEvent[y] = RollEvent[z] => y = z
  /\ \A y \in Year : Prior[RollEvent[y]] = {}
  /\ Rank \in [Event -> Nat]
  /\ \A e, f \in Event : Rank[e] = Rank[f] => e = f
  /\ None \notin Row /\ \A table \in SUBSET Row : table # None

VARIABLES
  now,        \* the current instant
  claimedAt,  \* when each drain made its latest claim (recordedAt)
  lateAt,     \* claim times of the activity calls that were given up
  hot,        \* the rows of activity_log
  archive,    \* archive[y]: the rows of activity_log_<y>, or None
  walk,       \* the reader
  standing,   \* history: the rows its snapshot covered when it was taken
  torn        \* history: it queried a list of tables that a roll had outdated

log == <<hot, archive>>
reader == <<walk, standing, torn>>
logVars == <<vars, now, claimedAt, lateAt, log, reader>>

----------------------------------------------------------------------------
(* State *)

Tables(years) == hot \cup UNION {archive[y] : y \in years}
Partitions == {y \in Year : archive[y] # None}
Log == Tables(Partitions)
Logged == {r.event : r \in Log}

\* The order of a page: (recorded_at, event_id).
Before(r, q) ==
  \/ r.at < q.at
  \/ r.at = q.at /\ Rank[r.event] < Rank[q.event]

Walk == [pc : {"idle", "snapshot", "page", "select", "done"},
         tables : SUBSET Year, through : Instant \cup {None},
         after : Row \cup {None}, read : SUBSET Row, count : Nat]
NoWalk == [pc |-> "idle", tables |-> {}, through |-> None, after |-> None,
           read |-> {}, count |-> 0]

LogInit ==
  /\ Init
  /\ now = 0
  /\ claimedAt = [d \in Drain |-> 0]
  /\ lateAt = [e \in Event |-> {}]
  /\ hot = {} /\ archive = [y \in Year |-> None]
  /\ walk = NoWalk /\ standing = {} /\ torn = FALSE

----------------------------------------------------------------------------
(* The subscriber *)

\* INSERT ... WHERE NOT EXISTS (SELECT 1 FROM activity_log ...): the table
\* that has the name now, not the partitions.
Insert(e, at) ==
  hot' = IF \E r \in hot : r.event = e THEN hot
         ELSE hot \cup {[event |-> e, at |-> at]}

ClaimAt(d) ==
  /\ ClaimAttempt(d)
  /\ claimedAt' = [claimedAt EXCEPT ![d] = now]
  /\ UNCHANGED <<now, lateAt, log, reader>>

Record(d) ==
  /\ Land(d)
  /\ IF job[d].sub = Activity THEN Insert(job[d].event, claimedAt[d])
     ELSE UNCHANGED hot
  /\ UNCHANGED <<now, claimedAt, lateAt, archive, reader>>

RecordLate(s, e) ==
  /\ LateLand(s, e)
  /\ IF s = Activity THEN \E at \in lateAt[e] : Insert(e, at)
     ELSE UNCHANGED hot
  /\ UNCHANGED <<now, claimedAt, lateAt, archive, reader>>

GiveUp(d) ==
  /\ SettleFailure(d) \/ Crash(d)
  /\ lateAt' = IF pc[d] = "call" /\ job[d].sub = Activity
               THEN [lateAt EXCEPT ![job[d].event] = @ \cup {claimedAt[d]}]
               ELSE lateAt
  /\ UNCHANGED <<now, claimedAt, log, reader>>

\* The rest of the outbox does not touch the log.
Elsewhere ==
  /\ \/ \E d \in Drain :
          \/ StartDrain(d) \/ ScanHit(d) \/ ScanMiss(d) \/ EndDrain(d)
          \/ ClaimExhausted(d) \/ ClaimRefused(d) \/ ClaimContended(d)
          \/ SettleDelivered(d)
     \/ \E e \in Event \ {RollEvent[y] : y \in Year} : Enqueue(e)
     \/ \E s \in Subscriber, e \in Event : RetryFailed(s, e)
  /\ UNCHANGED <<now, claimedAt, lateAt, log, reader>>

\* Instants pass, with and without a lease or a delay running down.
Instants ==
  /\ now < MaxInstant
  /\ now' = now + 1
  /\ Tick \/ UNCHANGED vars
  /\ UNCHANGED <<claimedAt, lateAt, log, reader>>

----------------------------------------------------------------------------
(* The roll *)

\* Mutant of Moved: only the rows that belong to the year travel.
MovedByYear(y) == {r \in hot : YearOf[r.at] <= y}

\* ALTER TABLE activity_log RENAME TO activity_log_<y>: every row.
Moved(y) == hot

\* One batch: the rename, the new hot table and the event of the roll.
Roll(y) ==
  /\ y < YearOf[now]
  /\ y \notin Partitions
  /\ archive' = [archive EXCEPT ![y] = Moved(y)]
  /\ hot' = {}
  /\ Enqueue(RollEvent[y])
  /\ UNCHANGED <<now, claimedAt, lateAt, reader>>

----------------------------------------------------------------------------
(* The walk: a snapshot, then pages of one row, newest first.  Each of them *)
(* lists the tables and then queries the ones it found.                    *)

\* Mutant of Listed: the hot table alone.
ListedHot == {}
Listed == Partitions

ListForSnapshot ==
  /\ walk.pc = "idle"
  /\ walk.count < MaxWalks
  /\ walk' = [walk EXCEPT !.pc = "snapshot", !.tables = Listed,
                          !.count = @ + 1]
  /\ UNCHANGED <<vars, now, claimedAt, lateAt, log, standing, torn>>

\* activitySnapshot; an empty log has nothing to walk.
TakeSnapshot ==
  /\ walk.pc = "snapshot"
  /\ LET seen == Tables(walk.tables) IN
     \/ /\ seen = {}
        /\ walk' = [walk EXCEPT !.pc = "done"]
        /\ standing' = Log
     \/ \E last \in seen :
          /\ \A r \in seen : r.at <= last.at
          /\ walk' = [walk EXCEPT !.pc = "page", !.through = last.at]
          /\ standing' = {r \in Log : r.at <= last.at}
  /\ torn' = (walk.tables # Listed)
  /\ UNCHANGED <<vars, now, claimedAt, lateAt, log>>

ListForPage ==
  /\ walk.pc = "page"
  /\ walk' = [walk EXCEPT !.pc = "select", !.tables = Listed]
  /\ UNCHANGED <<vars, now, claimedAt, lateAt, log, standing, torn>>

\* listActivity with recordedThrough and after; a short page ends the walk.
SelectPage ==
  /\ walk.pc = "select"
  /\ LET page == {r \in Tables(walk.tables) :
                    /\ r.at <= walk.through
                    /\ walk.after # None => Before(r, walk.after)}
     IN  \/ /\ page = {}
            /\ walk' = [walk EXCEPT !.pc = "done"]
         \/ \E r \in page :
              /\ \A q \in page : q = r \/ Before(q, r)
              /\ walk' = [walk EXCEPT !.pc = "page", !.after = r,
                                      !.read = @ \cup {r}]
  /\ torn' = (torn \/ walk.tables # Listed)
  /\ UNCHANGED <<vars, now, claimedAt, lateAt, log, standing>>

EndWalk ==
  /\ walk.pc = "done"
  /\ walk' = [NoWalk EXCEPT !.count = walk.count]
  /\ standing' = {} /\ torn' = FALSE
  /\ UNCHANGED <<vars, now, claimedAt, lateAt, log>>

----------------------------------------------------------------------------
LogNext ==
  \/ \E d \in Drain : ClaimAt(d) \/ Record(d) \/ GiveUp(d)
  \/ \E s \in Subscriber, e \in Event : RecordLate(s, e)
  \/ Elsewhere \/ Instants
  \/ \E y \in Year : Roll(y)
  \/ ListForSnapshot \/ TakeSnapshot \/ ListForPage \/ SelectPage \/ EndWalk

LogSpec == LogInit /\ [][LogNext]_logVars

----------------------------------------------------------------------------
(* What must hold *)

LogTypeOK ==
  /\ TypeOK
  /\ now \in Instant
  /\ claimedAt \in [Drain -> Instant]
  /\ lateAt \in [Event -> SUBSET Instant]
  /\ hot \subseteq Row
  /\ archive \in [Year -> (SUBSET Row) \cup {None}]
  /\ walk \in Walk
  /\ standing \subseteq Row
  /\ torn \in BOOLEAN

\* What was acknowledged for the log, or retired altogether, is in the log,
\* in the hot table or in the partition a roll took it to
\* (activity-partitions.ts: nothing is deleted).
AcknowledgedIsLogged ==
  \A e \in Event :
    receipt[Activity][e].status = "delivered" \/ e \in published => e \in Logged

\* The log never shows an event of an aggregate without the earlier ones:
\* the order of the outbox, the late handlers and the rolls together.
LogFollowsAggregate ==
  \A e \in Logged : Prior[e] \subseteq Logged

\* A walk reads every row its snapshot covered, however many rolls move rows
\* between its pages, as long as no roll falls between the list of tables and
\* the query of one page (activity-partitions-read.test.ts: a cursor resumes
\* across the boundary without repeating or skipping).
WalkComplete ==
  walk.pc = "done" /\ ~torn => standing \subseteq walk.read

=============================================================================
