-------------------------- MODULE IdempotencyProofs --------------------------
(***************************************************************************)
(* The safety properties of Idempotency, for any number of attempts.       *)
(*                                                                         *)
(* The inductive invariant says in addition where a row may have expired   *)
(* (never under the feet of a running request), which requests may have a  *)
(* batch at the database (only those in their handler, or dead), and what  *)
(* a request knows that is about to disclose a stored answer.              *)
(***************************************************************************)
EXTENDS Idempotency, TLAPS

\* A row past its lifetime belongs to a life that is over.
ExpiredIsSpent ==
  row # None => (row.age = "expired" => row.owner \in spent)

\* Whoever wrote has begun, and the owner of a spent row is gone.
SpentIsOver ==
  /\ \A a \in Attempt : writes[a] > 0 \/ inflight[a] # "none" => pc[a] # "new"
  /\ \A a \in spent : pc[a] \in {"answered", "cut", "dead"}

\* Past its first read a request finds no expired row.
Past == {"run", "closing", "reread", "complete", "stored", "disclose"}
FreshRow ==
  \A a \in Attempt : pc[a] \in Past =>
    (row # None => row.age # "expired")

\* Nothing is at the database for a request outside its handler.
QuietOutside ==
  \A a \in Attempt : inflight[a] # "none" =>
    pc[a] \in {"run", "closing", "cut", "dead"}

\* An answer is given once, at the end.
AnswerIsLast ==
  \A a \in Attempt : answer[a] # None => pc[a] = "answered"

\* A request about to disclose has found the row done, kept and its holder's.
FoundDone ==
  \A a \in Attempt : pc[a] = "disclose" =>
    /\ row # None /\ row.done /\ row.kept
    /\ SameRequest(a) /\ SameHolder(a)

IInv ==
  /\ TypeOK /\ WriterHoldsKey /\ ExpiredIsSpent /\ SpentIsOver /\ FreshRow
  /\ QuietOutside /\ AnswerIsLast /\ FoundDone /\ UnrecordedWroteNothing
  /\ UnavailableMeansWritten

LEMMA InitInv == Init => IInv
<1> SUFFICES ASSUME Init PROVE IInv
    OBVIOUS
<1> USE DEF Init
<1>1. TypeOK
  BY IdempotencyAssumption DEF TypeOK, Place, Kind
<1>2. WriterHoldsKey /\ ExpiredIsSpent /\ FreshRow
  BY DEF WriterHoldsKey, ExpiredIsSpent, FreshRow
<1>3. SpentIsOver /\ QuietOutside
  BY DEF SpentIsOver, QuietOutside
<1>4. FoundDone /\ AnswerIsLast /\ UnrecordedWroteNothing /\ UnavailableMeansWritten
  <2>1. \A a \in Attempt : answer[a] = None /\ None \notin Kind
    BY IdempotencyAssumption
  <2> QED  BY <2>1 DEF FoundDone, AnswerIsLast, UnrecordedWroteNothing, UnavailableMeansWritten, Kind
<1> QED  BY <1>1, <1>2, <1>3, <1>4 DEF IInv

-----------------------------------------------------------------------------
(* Types *)

LEMMA AnswerType ==
  ASSUME TypeOK, NEW a \in Attempt, NEW kind \in Kind, Answer(a, kind)
  PROVE  /\ answer' \in [Attempt -> Kind \cup {None}]
         /\ pc' \in [Attempt -> Place]
BY DEF TypeOK, Answer, Goto, Place

LEMMA GotoType ==
  ASSUME TypeOK, NEW a \in Attempt, NEW place \in Place, Goto(a, place)
  PROVE  pc' \in [Attempt -> Place]
BY DEF TypeOK, Goto

\* A step that only moves a request, or answers it.
LEMMA MoveType ==
  ASSUME TypeOK, NEW a \in Attempt,
         \/ UNCHANGED answer /\ \E place \in Place : Goto(a, place)
         \/ \E kind \in Kind : Answer(a, kind),
         UNCHANGED <<row, revision, auth, inflight, wrote, lost, failed, writes, spent>>
  PROVE  TypeOK'
<1>1. pc' \in [Attempt -> Place] /\ answer' \in [Attempt -> Kind \cup {None}]
  <2>1. CASE UNCHANGED answer /\ \E place \in Place : Goto(a, place)
    BY <2>1, GotoType DEF TypeOK
  <2>2. CASE \E kind \in Kind : Answer(a, kind)
    BY <2>2, AnswerType
  <2> QED  BY <2>1, <2>2
<1> QED  BY <1>1 DEF TypeOK

LEMMA TypeStep == TypeOK /\ [Next]_vars => TypeOK'
<1> SUFFICES ASSUME TypeOK, [Next]_vars PROVE TypeOK'
    OBVIOUS
<1> USE IdempotencyAssumption DEF TypeOK, local
<1>1. ASSUME NEW a \in Attempt, Begin(a) PROVE TypeOK'
  BY <1>1 DEF Begin, Goto, Place
<1>2. ASSUME NEW a \in Attempt, Read(a) PROVE TypeOK'
  BY <1>2 DEF Read, Goto, Place
<1>3. ASSUME NEW a \in Attempt, Forget(a) PROVE TypeOK'
  BY <1>3 DEF Forget, Forgettable, Goto, Place
<1>4. ASSUME NEW a \in Attempt, Return(a) PROVE TypeOK'
  BY <1>4 DEF Return, Goto, Place
<1>5. ASSUME NEW a \in Attempt, Close(a) PROVE TypeOK'
  <2>1. {"stored", "complete", "reread"} \subseteq Place /\ "error" \in Kind
    BY DEF Place, Kind
  <2>2. \/ UNCHANGED answer /\ \E place \in Place : Goto(a, place)
        \/ \E kind \in Kind : Answer(a, kind)
    BY <1>5, <2>1 DEF Close
  <2> QED  BY <1>5, <2>2, MoveType DEF Close
<1>6. ASSUME NEW a \in Attempt, Reread(a) PROVE TypeOK'
  <2>1. "stored" \in Place /\ "unrecorded" \in Kind
    BY DEF Place, Kind
  <2>2. \/ UNCHANGED answer /\ \E place \in Place : Goto(a, place)
        \/ \E kind \in Kind : Answer(a, kind)
    BY <1>6, <2>1 DEF Reread
  <2> QED  BY <1>6, <2>2, MoveType DEF Reread
<1>7. ASSUME NEW a \in Attempt, Complete(a) PROVE TypeOK'
  <2>1. "own" \in Kind /\ Answer(a, "own")
    BY <1>7 DEF Complete, Kind
  <2>2. row' \in Row \cup {None} /\ (row' # None => row'.owner = row.owner)
    <3>1. CASE row' = row
      BY <3>1
    <3>2. ASSUME NEW kept \in BOOLEAN, row # None,
                 row' = [row EXCEPT !.done = TRUE, !.kept = kept]
          PROVE  row' \in Row /\ row'.owner = row.owner
      BY <3>2 DEF Row
    <3> QED  BY <1>7, <3>1, <3>2 DEF Complete
  <2> QED  BY <1>7, <2>1, <2>2, AnswerType DEF Complete
<1>8. ASSUME NEW a \in Attempt, Stored(a) PROVE TypeOK'
  <2>1. CASE Refuse(a)
    <3>1. \E kind \in Kind : Answer(a, kind)
      BY <2>1 DEF Refuse, Kind
    <3> QED  BY <2>1, <3>1, AnswerType DEF Refuse
  <2>2. CASE FindDone(a)
    <3>1. "disclose" \in Place /\ "unavailable" \in Kind
      BY DEF Place, Kind
    <3>2. \/ UNCHANGED answer /\ \E place \in Place : Goto(a, place)
          \/ \E kind \in Kind : Answer(a, kind)
      BY <2>2, <3>1 DEF FindDone
    <3> QED  BY <2>2, <3>2, MoveType DEF FindDone
  <2>3. CASE Disclose(a)
    <3>1. \E kind \in Kind : Answer(a, kind)
      BY <2>3 DEF Disclose, Kind
    <3> QED  BY <2>3, <3>1, MoveType DEF Disclose
  <2> QED  BY <1>8, <2>1, <2>2, <2>3 DEF Stored
<1>9. ASSUME NEW a \in Attempt, Send(a) PROVE TypeOK'
  BY <1>9 DEF Send
<1>10. ASSUME NEW a \in Attempt, Commit(a) PROVE TypeOK'
  <2>1. ClaimOf(a) \in Row /\ ClaimOf(a).owner = a
    BY DEF ClaimOf, Row, Age
  <2>2. row' \in Row /\ row'.owner = a
    BY <1>10, <2>1 DEF Commit, MayCommit
  <2>3. writes' \in [Attempt -> Nat] /\ writes'[a] > 0
    BY <1>10 DEF Commit
  <2>4. wrote' \in [Attempt -> BOOLEAN]
    BY <1>10 DEF Commit
  <2>5. inflight' \in [Attempt -> {"none", "sent", "rejected"}]
    BY <1>10 DEF Commit
  <2> QED  BY <1>10, <2>2, <2>3, <2>4, <2>5 DEF Commit
<1>11. ASSUME NEW a \in Attempt, Reject(a) PROVE TypeOK'
  BY <1>11 DEF Reject, RolledBack
<1>12. ASSUME NEW a \in Attempt, Settle(a) PROVE TypeOK'
  BY <1>12 DEF Settle
<1>13. ASSUME NEW a \in Attempt, Die(a) PROVE TypeOK'
  BY <1>13 DEF Die, Goto, Place
<1>14. CASE Authority
  BY <1>14 DEF Authority
<1>15. CASE LeaseLapses
  BY <1>15 DEF LeaseLapses, Row, Age
<1>16. CASE LifetimeEnds
  BY <1>16 DEF LifetimeEnds, Row, Age
<1>17. CASE Purge
  BY <1>17 DEF Purge
<1>18. CASE UNCHANGED vars
  BY <1>18 DEF vars
<1> QED
  BY <1>1, <1>2, <1>3, <1>4, <1>5, <1>6, <1>7, <1>8, <1>9, <1>10, <1>11, <1>12,
     <1>13, <1>14, <1>15, <1>16, <1>17, <1>18
  DEF Next, Step, Batch

-----------------------------------------------------------------------------
(* What a step may do to the row, to the writes and to a request *)

\* The row changes hands only from None, or back to None when it has expired.
Kept ==
  /\ row # None /\ row' # None
  /\ row'.owner = row.owner /\ row'.auth = row.auth
  /\ row.done => row'.done /\ row'.kept = row.kept
  /\ row'.age = "expired" => row.age = "expired"

RowChange ==
  \/ UNCHANGED <<row, writes, spent>>
  \/ \E a \in Attempt : Commit(a)
  \/ /\ row # None /\ row.age = "expired" /\ row' = None
     /\ UNCHANGED <<writes, spent>>
  \/ LifetimeEnds
  \/ Kept /\ UNCHANGED <<writes, spent>>

LEMMA RowChanges == TypeOK /\ [Next]_vars => RowChange
<1> SUFFICES ASSUME TypeOK, [Next]_vars PROVE RowChange
    OBVIOUS
<1> USE DEF RowChange
<1>1. ASSUME NEW a \in Attempt, Step(a) PROVE RowChange
  <2>1. CASE Read(a) \/ Return(a) \/ Close(a) \/ Reread(a) \/ Stored(a)
    BY <2>1 DEF Read, Return, Close, Reread, Stored, Refuse, FindDone, Disclose
  <2>2. CASE Forget(a)
    BY <2>2 DEF Forget, Forgettable
  <2>3. CASE Complete(a)
    <3>1. CASE row' = row
      BY <2>3, <3>1 DEF Complete
    <3>2. ASSUME NEW kept \in BOOLEAN, row # None, ~row.done,
                 row' = [row EXCEPT !.done = TRUE, !.kept = kept]
          PROVE  Kept
      <4>1. row \in Row /\ row' \in Row
        BY <3>2 DEF TypeOK, Row
      <4>2. row' # None
        BY <4>1, IdempotencyAssumption
      <4> QED  BY <3>2, <4>1, <4>2 DEF Kept, Row
    <3> QED  BY <2>3, <3>1, <3>2 DEF Complete
  <2> QED  BY <1>1, <2>1, <2>2, <2>3 DEF Step
<1>2. ASSUME NEW a \in Attempt, Begin(a) \/ Die(a) PROVE RowChange
  BY <1>2 DEF Begin, Die
<1>3. ASSUME NEW a \in Attempt, Batch(a) PROVE RowChange
  BY <1>3 DEF Batch, Send, Reject, RolledBack, Settle
<1>4. CASE Authority
  BY <1>4 DEF Authority
<1>5. CASE LeaseLapses
  <2>1. row \in Row /\ row' \in Row /\ row' # None
    BY <1>5, IdempotencyAssumption DEF LeaseLapses, TypeOK, Row, Age
  <2> QED  BY <1>5, <2>1 DEF LeaseLapses, Kept, Row
<1>6. CASE Purge
  BY <1>6 DEF Purge
<1>7. CASE UNCHANGED vars
  BY <1>7 DEF vars
<1> QED  BY <1>1, <1>2, <1>3, <1>4, <1>5, <1>6, <1>7 DEF Next

\* Nobody becomes new, and who is over stays where it is.
Over == {"answered", "cut", "dead"}
Forward ==
  \A a \in Attempt :
    /\ pc'[a] = "new" => pc[a] = "new"
    /\ pc[a] \in Over => pc'[a] = pc[a] /\ answer'[a] = answer[a]
    /\ inflight'[a] # "none" => inflight[a] # "none" \/ pc[a] = "run"
    /\ pc[a] # "new" => auth'[a] = auth[a]
    /\ writes'[a] # writes[a] => inflight[a] = "sent" /\ writes'[a] > writes[a]

LEMMA StepsForward == TypeOK /\ [Next]_vars => Forward
<1> SUFFICES ASSUME TypeOK, [Next]_vars PROVE Forward
    OBVIOUS
<1> USE DEF Forward, Over, TypeOK, Goto, Answer, local
<1>1. ASSUME NEW a \in Attempt, Step(a) PROVE Forward
  <2>1. CASE Read(a)
    BY <2>1 DEF Read
  <2>2. CASE Forget(a)
    BY <2>2 DEF Forget
  <2>3. CASE Return(a)
    BY <2>3 DEF Return
  <2>4. CASE Close(a)
    BY <2>4 DEF Close
  <2>5. CASE Reread(a)
    BY <2>5 DEF Reread
  <2>6. CASE Complete(a)
    BY <2>6 DEF Complete
  <2>7. CASE Refuse(a)
    <3>1. \E kind \in Kind : Answer(a, kind)
      BY <2>7 DEF Refuse, Kind
    <3> QED  BY <2>7, <3>1 DEF Refuse
  <2>8. CASE FindDone(a)
    BY <2>8 DEF FindDone
  <2>9. CASE Disclose(a)
    BY <2>9 DEF Disclose
  <2> QED
    BY <1>1, <2>1, <2>2, <2>3, <2>4, <2>5, <2>6, <2>7, <2>8, <2>9
    DEF Step, Stored
<1>2. ASSUME NEW a \in Attempt, Begin(a) \/ Die(a) PROVE Forward
  BY <1>2 DEF Begin, Die, Active
<1>3. ASSUME NEW a \in Attempt, Batch(a) PROVE Forward
  <2>1. CASE Commit(a)
    BY <2>1 DEF Commit
  <2>2. CASE Send(a) \/ Reject(a) \/ Settle(a)
    BY <2>2 DEF Send, Open, Reject, Settle
  <2> QED  BY <1>3, <2>1, <2>2 DEF Batch
<1>4. CASE Authority \/ LeaseLapses \/ LifetimeEnds \/ Purge
  BY <1>4 DEF Authority, LeaseLapses, LifetimeEnds, Purge
<1>5. CASE UNCHANGED vars
  BY <1>5 DEF vars
<1> QED  BY <1>1, <1>2, <1>3, <1>4, <1>5 DEF Next

-----------------------------------------------------------------------------
(* The invariant, conjunct by conjunct *)

LEMMA WriterStep == IInv /\ [Next]_vars => WriterHoldsKey' /\ ExpiredIsSpent'
<1> SUFFICES ASSUME IInv, [Next]_vars PROVE WriterHoldsKey' /\ ExpiredIsSpent'
    OBVIOUS
<1> USE DEF WriterHoldsKey, ExpiredIsSpent
<1>1. TypeOK /\ WriterHoldsKey /\ ExpiredIsSpent /\ TypeOK' /\ RowChange
  BY TypeStep, RowChanges DEF IInv
<1>2. CASE UNCHANGED <<row, writes, spent>>
  BY <1>1, <1>2
<1>3. ASSUME NEW a \in Attempt, Commit(a)
      PROVE  WriterHoldsKey' /\ ExpiredIsSpent'
  <2>1. row' # None /\ row'.owner = a /\ spent' = spent
    <3>1. CASE row = None
      <4>1. row' = ClaimOf(a) /\ ClaimOf(a) \in Row /\ ClaimOf(a).owner = a
        BY <1>1, <1>3, <3>1 DEF Commit, ClaimOf, Row, Age, TypeOK
      <4> QED  BY <1>3, <4>1, IdempotencyAssumption DEF Commit
    <3> QED  BY <1>3, <3>1 DEF Commit, MayCommit
  <2>2. \A b \in Attempt \ {a} : writes'[b] = writes[b]
    BY <1>1, <1>3 DEF Commit, TypeOK
  <2>3. \A b \in Attempt \ spent : writes[b] > 0 => b = a
    BY <1>1, <1>3 DEF Commit, MayCommit
  <2>4. row'.age = "expired" => row'.owner \in spent'
    <3>1. CASE row = None
      BY <1>3, <3>1 DEF Commit, ClaimOf
    <3> QED  BY <1>1, <1>3, <2>1, <3>1 DEF Commit
  <2> QED  BY <2>1, <2>2, <2>3, <2>4
<1>4. CASE /\ row # None /\ row.age = "expired" /\ row' = None
           /\ UNCHANGED <<writes, spent>>
  BY <1>1, <1>4
<1>5. CASE LifetimeEnds
  <2>1. row' # None /\ row'.owner = row.owner /\ row.owner \in Attempt
    BY <1>1, <1>5, IdempotencyAssumption DEF LifetimeEnds, TypeOK, Row, Age
  <2> QED  BY <1>1, <1>5, <2>1 DEF LifetimeEnds
<1>6. CASE Kept /\ UNCHANGED <<writes, spent>>
  BY <1>1, <1>6 DEF Kept
<1> QED  BY <1>1, <1>2, <1>3, <1>4, <1>5, <1>6 DEF RowChange

LEMMA OverStep == IInv /\ [Next]_vars => SpentIsOver'
<1> SUFFICES ASSUME IInv, [Next]_vars PROVE SpentIsOver'
    OBVIOUS
<1>1. TypeOK /\ SpentIsOver /\ TypeOK' /\ RowChange /\ Forward
  BY TypeStep, RowChanges, StepsForward DEF IInv
<1>2. ASSUME NEW a \in Attempt, writes'[a] > 0 \/ inflight'[a] # "none"
      PROVE  pc'[a] # "new"
  <2>1. writes[a] > 0 \/ inflight[a] # "none" \/ pc[a] = "run"
    BY <1>1, <1>2 DEF Forward, TypeOK
  <2> QED  BY <1>1, <2>1 DEF SpentIsOver, Forward
<1>3. ASSUME NEW a \in spent' PROVE pc'[a] \in {"answered", "cut", "dead"}
  <2>1. CASE a \in spent
    BY <1>1, <2>1 DEF SpentIsOver, Forward, Over, TypeOK
  <2>2. CASE a \notin spent
    <3>1. LifetimeEnds /\ row # None /\ a = row.owner
      BY <1>1, <1>3, <2>2 DEF RowChange, LifetimeEnds, Commit, Kept
    <3>2. a \in Attempt /\ writes[a] > 0
      BY <1>1, <3>1, IdempotencyAssumption DEF TypeOK, Row
    <3> QED
      BY <1>1, <3>1, <3>2
      DEF SpentIsOver, LifetimeEnds, Active, local, TypeOK, Place
  <2> QED  BY <2>1, <2>2
<1> QED  BY <1>2, <1>3 DEF SpentIsOver

\* Where a request comes from.
PlaceChange(a) ==
  /\ pc'[a] \in Past =>
       \/ pc[a] \in Past
       \/ Read(a) /\ pc[a] = "read"
       \/ Forget(a) /\ pc[a] = "forget"
  /\ pc'[a] = "disclose" => pc[a] = "disclose" \/ FindDone(a)
  /\ inflight[a] # "none" /\ pc[a] \in {"run", "closing", "cut", "dead"} =>
       pc'[a] \in {"run", "closing", "cut", "dead"} \/ inflight'[a] = "none"
  /\ answer'[a] # answer[a] =>
       pc'[a] = "answered" /\ (Close(a) \/ Reread(a) \/ Complete(a) \/ Stored(a))

LEMMA Places == TypeOK /\ [Next]_vars => \A a \in Attempt : PlaceChange(a)
<1> SUFFICES ASSUME TypeOK, [Next]_vars, NEW a \in Attempt PROVE PlaceChange(a)
    OBVIOUS
<1> USE DEF PlaceChange
<1> USE DEF Past, TypeOK, Goto, Answer, local
<1>1. ASSUME NEW b \in Attempt, Step(b) PROVE PlaceChange(a)
  <2>1. CASE Read(b)
    BY <2>1 DEF Read
  <2>2. CASE Forget(b)
    BY <2>2 DEF Forget
  <2>3. CASE Return(b)
    BY <2>3 DEF Return
  <2>4. CASE Close(b)
    BY <2>4 DEF Close, Drained
  <2>5. CASE Reread(b)
    BY <2>5 DEF Reread
  <2>6. CASE Complete(b)
    BY <2>6 DEF Complete
  <2>7. CASE Refuse(b)
    <3>1. Stored(b) /\ \E kind \in Kind : Answer(b, kind)
      BY <2>7 DEF Stored, Refuse, Kind
    <3> QED  BY <2>7, <3>1 DEF Refuse
  <2>8. CASE FindDone(b)
    <3>1. Stored(b)
      BY <2>8 DEF Stored
    <3> QED  BY <2>8, <3>1 DEF FindDone
  <2>9. CASE Disclose(b)
    <3>1. Stored(b)
      BY <2>9 DEF Stored
    <3> QED  BY <2>9, <3>1 DEF Disclose
  <2> QED
    BY <1>1, <2>1, <2>2, <2>3, <2>4, <2>5, <2>6, <2>7, <2>8, <2>9
    DEF Step, Stored
<1>2. ASSUME NEW b \in Attempt, Begin(b) \/ Die(b) PROVE PlaceChange(a)
  BY <1>2 DEF Begin, Die, Active
<1>3. ASSUME NEW b \in Attempt, Batch(b) PROVE PlaceChange(a)
  BY <1>3 DEF Batch, Send, Open, Commit, Reject, Settle
<1>4. CASE Authority \/ LeaseLapses \/ LifetimeEnds \/ Purge
  BY <1>4 DEF Authority, LeaseLapses, LifetimeEnds, Purge
<1>5. CASE UNCHANGED vars
  BY <1>5 DEF vars
<1> QED  BY <1>1, <1>2, <1>3, <1>4, <1>5 DEF Next

LEMMA FreshStep == IInv /\ [Next]_vars => FreshRow'
<1> SUFFICES ASSUME IInv, [Next]_vars, NEW a \in Attempt, pc'[a] \in Past,
                    row' # None, row'.age = "expired"
             PROVE  FALSE
    BY DEF FreshRow
<1>1. TypeOK /\ TypeOK' /\ FreshRow /\ RowChange
  BY TypeStep, RowChanges DEF IInv
<1>2. \/ pc[a] \in Past
      \/ Read(a) /\ pc[a] = "read"
      \/ Forget(a) /\ pc[a] = "forget"
  BY <1>1, Places DEF PlaceChange
<1>3. ~LifetimeEnds
  <2> SUFFICES ASSUME LifetimeEnds PROVE FALSE
      OBVIOUS
  <2>1. pc'[a] = pc[a] /\ ~Active(a)
    BY DEF LifetimeEnds, local
  <2> QED  BY <2>1 DEF Active, Past
<1>4. row # None /\ row.age = "expired"
  <2>1. ASSUME NEW b \in Attempt, Commit(b)
        PROVE  row # None /\ row.age = "expired"
    BY <2>1 DEF Commit, ClaimOf
  <2> QED  BY <1>1, <1>3, <2>1 DEF RowChange, Kept
<1>5. pc[a] \notin Past
  BY <1>1, <1>4 DEF FreshRow
<1>6. CASE Read(a)
  BY <1>1, <1>4, <1>6 DEF Read, Goto, TypeOK, Past
<1>7. CASE Forget(a)
  BY <1>4, <1>7 DEF Forget, Forgettable
<1> QED  BY <1>2, <1>5, <1>6, <1>7

LEMMA QuietStep == IInv /\ [Next]_vars => QuietOutside' /\ AnswerIsLast'
<1> SUFFICES ASSUME IInv, [Next]_vars, NEW a \in Attempt
             PROVE  /\ inflight'[a] # "none" =>
                         pc'[a] \in {"run", "closing", "cut", "dead"}
                    /\ answer'[a] # None => pc'[a] = "answered"
    BY DEF QuietOutside, AnswerIsLast
<1>1. TypeOK /\ Forward /\ QuietOutside /\ AnswerIsLast
  BY StepsForward DEF IInv
<1>2. inflight'[a] # "none" => pc'[a] \in {"run", "closing", "cut", "dead"}
  <2>1. CASE inflight[a] # "none"
    BY <1>1, <2>1, Places DEF QuietOutside, PlaceChange
  <2>2. CASE inflight[a] = "none" /\ inflight'[a] # "none"
    <3>1. Send(a)
      BY <1>1, <2>2
      DEF Next, Step, Stored, Batch, Read, Forget, Return, Close, Reread,
          Complete, Refuse, FindDone, Disclose, Begin, Die, Send, Commit,
          Reject, Settle, Authority, LeaseLapses, LifetimeEnds, Purge, vars,
          local, TypeOK
    <3> QED  BY <3>1 DEF Send, Open
  <2> QED  BY <2>1, <2>2
<1>3. answer'[a] # None => pc'[a] = "answered"
  <2>1. CASE answer'[a] # answer[a]
    BY <1>1, <2>1, Places DEF PlaceChange
  <2>2. CASE answer'[a] = answer[a] /\ answer[a] # None
    BY <1>1, <2>2 DEF AnswerIsLast, Forward, Over
  <2> QED  BY <2>1, <2>2
<1> QED  BY <1>2, <1>3

LEMMA FoundStep == IInv /\ [Next]_vars => FoundDone'
<1> SUFFICES ASSUME IInv, [Next]_vars, NEW a \in Attempt, pc'[a] = "disclose"
             PROVE  /\ row' # None /\ row'.done /\ row'.kept
                    /\ SameRequest(a)' /\ SameHolder(a)'
    BY DEF FoundDone
<1>1. /\ TypeOK /\ TypeOK' /\ FreshRow /\ FoundDone /\ RowChange /\ Forward
      /\ PlaceChange(a)
  BY TypeStep, RowChanges, StepsForward, Places DEF IInv
<1>2. CASE FindDone(a)
  <2>1. row' = row /\ auth' = auth
    BY <1>2 DEF FindDone
  <2>2. row # None /\ row.done /\ row.kept /\ SameRequest(a) /\ SameHolder(a)
    BY <1>1, <1>2 DEF FindDone, Answer, Goto, TypeOK
  <2> QED  BY <2>1, <2>2 DEF SameRequest, SameHolder
<1>3. CASE pc[a] = "disclose"
  <2>1. /\ row # None /\ row.done /\ row.kept /\ SameRequest(a) /\ SameHolder(a)
        /\ row.age # "expired" /\ auth'[a] = auth[a]
    BY <1>1, <1>3 DEF FoundDone, FreshRow, Past, Forward
  <2>2. ~LifetimeEnds
    BY <1>3 DEF LifetimeEnds, Active
  <2>3. /\ row' # None /\ row'.owner = row.owner /\ row'.auth = row.auth
        /\ row'.done /\ row'.kept
    BY <1>1, <2>1, <2>2 DEF RowChange, Commit, Kept, TypeOK, Row
  <2> QED  BY <2>1, <2>3 DEF SameRequest, SameHolder
<1> QED  BY <1>1, <1>2, <1>3 DEF PlaceChange

LEMMA UnrecordedStep == IInv /\ [Next]_vars => UnrecordedWroteNothing'
<1> SUFFICES ASSUME IInv, [Next]_vars, NEW a \in Attempt,
                    answer'[a] = "unrecorded"
             PROVE  writes'[a] = 0 /\ inflight'[a] = "none"
    BY DEF UnrecordedWroteNothing
<1>1. /\ TypeOK /\ TypeOK' /\ WriterHoldsKey /\ SpentIsOver /\ QuietOutside
      /\ AnswerIsLast /\ UnrecordedWroteNothing /\ Forward /\ PlaceChange(a)
  BY TypeStep, StepsForward, Places DEF IInv
<1>2. CASE answer[a] = "unrecorded"
  <2>1. pc[a] = "answered" /\ writes[a] = 0 /\ inflight[a] = "none"
    BY <1>1, <1>2, IdempotencyAssumption
    DEF AnswerIsLast, UnrecordedWroteNothing, Kind
  <2> QED  BY <1>1, <2>1 DEF Forward
<1>3. CASE answer[a] # "unrecorded"
  <2>1. Reread(a) /\ row = None
    <3>1. Close(a) \/ Reread(a) \/ Complete(a) \/ Stored(a)
      BY <1>1, <1>3 DEF PlaceChange
    <3> QED
      BY <1>1, <1>3, <3>1
      DEF Close, Reread, Complete, Stored, Refuse, FindDone, Disclose, Answer,
          Goto, TypeOK
  <2>2. writes[a] = 0
    <3>1. pc[a] = "reread"
      BY <2>1 DEF Reread
    <3> QED  BY <1>1, <2>1, <3>1 DEF WriterHoldsKey, SpentIsOver, TypeOK
  <2>3. inflight[a] = "none"
    BY <1>1, <2>1 DEF Reread, QuietOutside
  <2> QED  BY <1>1, <2>1, <2>2, <2>3 DEF Reread
<1> QED  BY <1>2, <1>3

LEMMA UnavailableStep == IInv /\ [Next]_vars => UnavailableMeansWritten'
<1> SUFFICES ASSUME IInv, [Next]_vars, NEW a \in Attempt,
                    answer'[a] \in {"unavailable", "replay"}
             PROVE  \E b \in Attempt : writes'[b] > 0
    BY DEF UnavailableMeansWritten
<1>1. /\ TypeOK /\ TypeOK' /\ FoundDone /\ UnavailableMeansWritten
      /\ Forward /\ PlaceChange(a)
  BY TypeStep, StepsForward, Places DEF IInv
<1>2. \E b \in Attempt : writes[b] > 0
  <2>1. CASE answer'[a] = answer[a]
    BY <1>1, <2>1 DEF UnavailableMeansWritten
  <2>2. CASE answer'[a] # answer[a]
    <3>1. Stored(a)
      BY <1>1, <2>2
      DEF PlaceChange, Close, Reread, Complete, Answer, Goto, TypeOK
    <3>2. row # None
      BY <1>1, <2>2, <3>1
      DEF Stored, Refuse, FindDone, Disclose, FoundDone, InProgress, Answer,
          Goto, TypeOK
    <3> QED  BY <1>1, <3>2 DEF TypeOK, Row
  <2> QED  BY <2>1, <2>2
<1>3. \A b \in Attempt : writes'[b] >= writes[b]
  BY <1>1 DEF Forward, TypeOK
<1>4. PICK b \in Attempt : writes[b] > 0
  BY <1>2
<1>5. writes[b] \in Nat /\ writes'[b] \in Nat /\ writes'[b] >= writes[b]
  BY <1>1, <1>3 DEF TypeOK
<1> QED  BY <1>4, <1>5

LEMMA StepInv == IInv /\ [Next]_vars => IInv'
<1> SUFFICES ASSUME IInv, [Next]_vars PROVE IInv'
    OBVIOUS
<1>1. TypeOK'
  BY TypeStep DEF IInv
<1> QED
  BY <1>1, WriterStep, OverStep, FreshStep, QuietStep, FoundStep,
     UnrecordedStep, UnavailableStep
  DEF IInv

-----------------------------------------------------------------------------
(* Theorems *)

LEMMA Invariance == Spec => []IInv
BY InitInv, StepInv, PTL DEF Spec

\* The types, and that a row of the key is there only because of a write.
THEOREM TypeCorrect == Spec => []TypeOK
<1>1. IInv => TypeOK
  BY DEF IInv
<1> QED  BY <1>1, Invariance, PTL

\* At most one attempt commits anything in the lifetime of a row
\* (idempotency.ts, the claim that every write batch carries).
THEOREM WritesOnce == Spec => []OnceOnly
<1>1. IInv => OnceOnly
  BY DEF IInv, OnceOnly, WriterHoldsKey
<1> QED  BY <1>1, Invariance, PTL

\* The attempt that wrote holds the key for the rest of the lifetime.
THEOREM WriterIsOwner == Spec => []WriterHoldsKey
<1>1. IInv => WriterHoldsKey
  BY DEF IInv
<1> QED  BY <1>1, Invariance, PTL

\* An answer that was not recorded stands for no write, now or later
\* (idempotency.ts, runWithClaim).
THEOREM UnrecordedIsSafe == Spec => []UnrecordedWroteNothing
<1>1. IInv => UnrecordedWroteNothing
  BY DEF IInv
<1> QED  BY <1>1, Invariance, PTL

\* "Already carried out" is never said of a key nobody wrote under
\* (api/src/idempotency.ts, answerStored).
THEOREM UnavailableIsTrue == Spec => []UnavailableMeansWritten
<1>1. IInv => UnavailableMeansWritten
  BY DEF IInv
<1> QED  BY <1>1, Invariance, PTL

\* What an answered request left behind commits nothing (idempotency.ts,
\* requireOpenClaim and the drained pending set).
THEOREM AnswersAreFinal == Spec => AnsweredWritesNothing
<1>1. IInv /\ [Next]_vars =>
        \A a \in Attempt : pc[a] = "answered" => writes'[a] = writes[a]
  BY StepsForward DEF IInv, Forward, QuietOutside
<1>2. IInv /\ [Next]_vars =>
        [\A a \in Attempt : pc[a] = "answered" => writes'[a] = writes[a]]_vars
  BY <1>1
<1> QED  BY <1>2, Invariance, PTL DEF Spec, AnsweredWritesNothing

\* A stored answer goes to the same request, the same credentials and the
\* very authority it was given under (api/src/idempotency.ts, answerStored).
THEOREM ReplaysAreAuthorized == Spec => ReplayIsAuthorized
<1> DEFINE Replayed ==
      \A a \in Attempt : answer[a] # "replay" /\ answer'[a] = "replay" =>
        /\ row.done /\ row.kept /\ row.auth = revision
        /\ Body[row.owner] = Body[a]
        /\ Credential[row.owner] = Credential[a]
<1>1. IInv /\ [Next]_vars => Replayed
  <2> SUFFICES ASSUME IInv, [Next]_vars, NEW a \in Attempt,
                      answer[a] # "replay", answer'[a] = "replay"
               PROVE  /\ row.done /\ row.kept /\ row.auth = revision
                      /\ Body[row.owner] = Body[a]
                      /\ Credential[row.owner] = Credential[a]
      OBVIOUS
  <2>1. TypeOK /\ FoundDone /\ PlaceChange(a)
    BY Places DEF IInv
  <2>2. Disclose(a) /\ Reauthorized(a)
    BY <2>1
    DEF PlaceChange, Close, Reread, Complete, Stored, Refuse, FindDone,
        Disclose, Answer, Goto, TypeOK
  <2> QED
    BY <2>1, <2>2
    DEF FoundDone, Disclose, Reauthorized, SameRequest, SameHolder
<1>2. IInv /\ [Next]_vars => [Replayed]_vars
  BY <1>1
<1> QED  BY <1>2, Invariance, PTL DEF Spec, ReplayIsAuthorized

-----------------------------------------------------------------------------
(* What was carried out, as a whole *)

\* The attempt has ended with an answer of its own: its handler returned, and
\* it commits nothing any more (AnswersAreFinal).
Ended(b) == answer[b] = "own"

\* A row is called done by the attempt that ends with its answer.
DoneIsEnded == row # None /\ row.done => Ended(row.owner)

\* A replay repeats the answer of an attempt that ended.
Repeats(a, b) ==
  Ended(b) /\ Body[b] = Body[a] /\ Credential[b] = Credential[a] /\ writes[b] > 0
ReplayIsWhole ==
  \A a \in Attempt : answer[a] = "replay" => \E b \in Attempt : Repeats(a, b)

LEMMA EndedStays ==
  ASSUME IInv, [Next]_vars, NEW b \in Attempt, Ended(b)
  PROVE  Ended(b)' /\ (writes[b] > 0 => writes'[b] > 0)
<1>1. TypeOK /\ TypeOK' /\ AnswerIsLast /\ Forward
  BY TypeStep, StepsForward DEF IInv
<1>2. pc[b] = "answered"
  BY <1>1, IdempotencyAssumption DEF Ended, AnswerIsLast, Kind
<1>3. answer'[b] = answer[b]
  BY <1>1, <1>2 DEF Forward, Over
<1>4. writes'[b] # writes[b] => writes'[b] > writes[b]
  BY <1>1 DEF Forward
<1>5. writes[b] \in Nat /\ writes'[b] \in Nat
  BY <1>1 DEF TypeOK
<1> QED  BY <1>3, <1>4, <1>5 DEF Ended

\* Who makes a row done, and what a row past its lease was before.
LEMMA RowMade ==
  ASSUME IInv, [Next]_vars, row' # None
  PROVE  /\ row'.done =>
              \/ row # None /\ row.done /\ row'.owner = row.owner
              \/ row'.owner \in Attempt /\ Complete(row'.owner)
         /\ row'.age = "lapsed" =>
              \/ row # None /\ row.age = "lapsed" /\ row'.owner = row.owner
              \/ LeaseLapses /\ row # None /\ row'.owner = row.owner
<1>1. TypeOK /\ TypeOK'
  BY TypeStep DEF IInv
<1> DEFINE Made ==
      /\ row'.done =>
           \/ row # None /\ row.done /\ row'.owner = row.owner
           \/ row'.owner \in Attempt /\ Complete(row'.owner)
      /\ row'.age = "lapsed" =>
           \/ row # None /\ row.age = "lapsed" /\ row'.owner = row.owner
           \/ LeaseLapses /\ row # None /\ row'.owner = row.owner
<1>2. ASSUME row' = row PROVE Made
  BY <1>2
<1>3. ASSUME NEW a \in Attempt, Step(a) PROVE Made
  <2>1. CASE Read(a) \/ Return(a) \/ Close(a) \/ Reread(a) \/ Stored(a)
    BY <1>2, <2>1 DEF Read, Return, Close, Reread, Stored, Refuse, FindDone, Disclose
  <2>2. CASE Forget(a)
    BY <1>2, <2>2 DEF Forget
  <2>3. CASE Complete(a)
    <3>1. ASSUME row # None, row.owner = a, NEW kept \in BOOLEAN,
                 row' = [row EXCEPT !.done = TRUE, !.kept = kept]
          PROVE  Made
      <4>1. row'.owner = a /\ row'.age = row.age
        BY <1>1, <3>1 DEF TypeOK, Row
      <4> QED  BY <2>3, <3>1, <4>1
    <3> QED  BY <1>2, <2>3, <3>1 DEF Complete
  <2> QED  BY <1>3, <2>1, <2>2, <2>3 DEF Step
<1>4. ASSUME NEW a \in Attempt, Begin(a) \/ Die(a) \/ Send(a) \/ Reject(a) \/ Settle(a)
      PROVE  Made
  BY <1>2, <1>4 DEF Begin, Die, Send, Reject, RolledBack, Settle
<1>5. ASSUME NEW a \in Attempt, Commit(a) PROVE Made
  <2>1. CASE row = None
    <3>1. row' = ClaimOf(a)
      BY <1>5, <2>1 DEF Commit
    <3>2. row'.done = FALSE /\ row'.age = "lease"
      BY <3>1 DEF ClaimOf
    <3> QED  BY <3>2
  <2>2. CASE row # None
    BY <1>2, <1>5, <2>2 DEF Commit
  <2> QED  BY <2>1, <2>2
<1>6. CASE Authority
  BY <1>2, <1>6 DEF Authority
<1>7. CASE LeaseLapses
  <2>1. row # None /\ row' = [row EXCEPT !.age = "lapsed"]
    BY <1>7 DEF LeaseLapses
  <2>2. row'.done = row.done /\ row'.owner = row.owner
    BY <1>1, <2>1 DEF TypeOK, Row
  <2> QED  BY <1>7, <2>1, <2>2
<1>8. CASE LifetimeEnds
  <2>1. row # None /\ row' = [row EXCEPT !.age = "expired"]
    BY <1>8 DEF LifetimeEnds
  <2>2. row'.done = row.done /\ row'.owner = row.owner /\ row'.age = "expired"
    BY <1>1, <2>1 DEF TypeOK, Row
  <2> QED  BY <2>1, <2>2
<1>9. CASE Purge
  BY <1>9 DEF Purge
<1>10. CASE UNCHANGED vars
  BY <1>2, <1>10 DEF vars
<1>11. Made
  BY <1>3, <1>4, <1>5, <1>6, <1>7, <1>8, <1>9, <1>10 DEF Next, Batch
<1> QED  BY <1>11

LEMMA DoneStep ==
  ASSUME IInv, DoneIsEnded, [Next]_vars PROVE DoneIsEnded'
<1> SUFFICES ASSUME row' # None, row'.done PROVE answer'[row'.owner] = "own"
    BY DEF DoneIsEnded, Ended
<1>1. TypeOK /\ TypeOK'
  BY TypeStep DEF IInv
<1>2. CASE row # None /\ row.done /\ row'.owner = row.owner
  <2>1. Ended(row.owner) /\ row.owner \in Attempt
    BY <1>1, <1>2 DEF DoneIsEnded, TypeOK, Row
  <2> QED  BY <1>2, <2>1, EndedStays DEF Ended
<1>3. CASE row'.owner \in Attempt /\ Complete(row'.owner)
  BY <1>1, <1>3 DEF Complete, Answer, TypeOK
<1> QED  BY <1>2, <1>3, RowMade

LEMMA ReplayStep ==
  ASSUME IInv, DoneIsEnded, ReplayIsWhole, [Next]_vars PROVE ReplayIsWhole'
<1> SUFFICES ASSUME NEW a \in Attempt, answer'[a] = "replay"
             PROVE  \E b \in Attempt : Repeats(a, b)'
    BY DEF ReplayIsWhole
<1>1. TypeOK /\ FoundDone /\ PlaceChange(a)
  BY Places DEF IInv
<1>2. \E b \in Attempt : Repeats(a, b)
  <2>1. CASE answer[a] = "replay"
    BY <2>1 DEF ReplayIsWhole
  <2>2. CASE answer[a] # "replay"
    <3>1. pc[a] = "disclose"
      BY <1>1, <2>2
      DEF PlaceChange, Close, Reread, Complete, Stored, Refuse, FindDone,
          Disclose, Answer, Goto, TypeOK
    <3>2. row # None /\ row.done /\ SameRequest(a) /\ SameHolder(a)
      BY <1>1, <3>1 DEF FoundDone
    <3>3. row.owner \in Attempt /\ writes[row.owner] > 0 /\ Ended(row.owner)
      BY <1>1, <3>2 DEF TypeOK, Row, DoneIsEnded
    <3> QED  BY <3>2, <3>3 DEF Repeats, SameRequest, SameHolder
  <2> QED  BY <2>1, <2>2
<1>3. PICK b \in Attempt : Repeats(a, b)
  BY <1>2
<1> QED  BY <1>3, EndedStays DEF Repeats

LEMMA WholeInvariance == Spec => [](DoneIsEnded /\ ReplayIsWhole)
<1>1. Init => DoneIsEnded /\ ReplayIsWhole
  BY IdempotencyAssumption DEF Init, DoneIsEnded, ReplayIsWhole, Kind
<1>2. IInv /\ DoneIsEnded /\ ReplayIsWhole /\ [Next]_vars => (DoneIsEnded /\ ReplayIsWhole)'
  BY DoneStep, ReplayStep
<1> QED  BY <1>1, <1>2, Invariance, PTL DEF Spec

\* A replay is never the answer to half of the work: it repeats the answer of
\* an attempt with the same request and credentials whose handler returned,
\* which wrote, and which will write no more (api/src/idempotency.ts, complete
\* and answerStored).
THEOREM ReplaysAreWhole == Spec => []ReplayIsWhole
BY WholeInvariance, PTL

\* Whoever is told that the work was carried out asked for what b carried out.
CarriesOut(a, b) == Ended(b) /\ Body[b] = Body[a]
ToldIsWhole ==
  \A a \in Attempt : answer[a] = "unavailable" => \E b \in Attempt : CarriesOut(a, b)

\* A claim past its lease is that of an attempt that has ended.
LapsedIsEnded == row # None /\ row.age = "lapsed" => Ended(row.owner)
OneSecret == \A a, b \in Attempt : Secret[a] = Secret[b]

\* The lease is long enough.
LapsesLate == LeaseLapses => Ended(row.owner)

LEMMA LapsedStep ==
  ASSUME IInv, LapsedIsEnded, [Next]_vars, LapsesLate PROVE LapsedIsEnded'
<1> SUFFICES ASSUME row' # None, row'.age = "lapsed"
             PROVE  answer'[row'.owner] = "own"
    BY DEF LapsedIsEnded, Ended
<1>1. row # None /\ row'.owner = row.owner /\ Ended(row.owner)
  BY RowMade DEF LapsedIsEnded, LapsesLate
<1>2. row.owner \in Attempt
  BY <1>1 DEF IInv, TypeOK, Row
<1> QED  BY <1>1, <1>2, EndedStays DEF Ended

LEMMA ToldStep ==
  ASSUME IInv, DoneIsEnded, LapsedIsEnded, ToldIsWhole, OneSecret, [Next]_vars
  PROVE  ToldIsWhole'
<1> SUFFICES ASSUME NEW a \in Attempt, answer'[a] = "unavailable"
             PROVE  \E b \in Attempt : CarriesOut(a, b)'
    BY DEF ToldIsWhole
<1>1. TypeOK /\ FoundDone /\ FreshRow /\ PlaceChange(a)
  BY Places DEF IInv
<1>2. \E b \in Attempt : CarriesOut(a, b)
  <2>1. CASE answer[a] = "unavailable"
    BY <2>1 DEF ToldIsWhole
  <2>2. CASE answer[a] # "unavailable"
    <3>1. Stored(a)
      BY <1>1, <2>2
      DEF PlaceChange, Close, Reread, Complete, Answer, Goto, TypeOK
    <3>2. /\ row # None /\ SameRequest(a)
          /\ row.done \/ row.age # "lease"
      <4>1. row # None => SameKey(a)
        BY <1>1 DEF OneSecret, SameKey, TypeOK, Row
      <4> QED
        BY <1>1, <2>2, <3>1, <4>1
        DEF Stored, Refuse, FindDone, Disclose, FoundDone, InProgress, Answer,
            Goto, TypeOK
    <3>3. row.age # "expired"
      BY <1>1, <3>1, <3>2 DEF FreshRow, Past, Stored, Refuse, FindDone, Disclose
    <3>4. row.owner \in Attempt /\ row.age \in {"lease", "lapsed", "expired"}
      BY <1>1, <3>2 DEF TypeOK, Row, Age
    <3>5. Ended(row.owner)
      BY <3>2, <3>3, <3>4 DEF DoneIsEnded, LapsedIsEnded
    <3> QED  BY <3>2, <3>4, <3>5 DEF CarriesOut, SameRequest
  <2> QED  BY <2>1, <2>2
<1>3. PICK b \in Attempt : CarriesOut(a, b)
  BY <1>2
<1> QED  BY <1>3, EndedStays DEF CarriesOut

\* "Already carried out" does not promise as much: a claim past its lease is
\* taken for the work, though its attempt may still be running or was cut
\* between two batches.  That is the only way to be told too much: as long as
\* no lease lapses on an attempt that has not ended with its answer, and the
\* secret is one, whoever is told so asked for just what an attempt carried
\* out to its end (api/src/idempotency.ts, IDEMPOTENCY_LEASE_MS).
THEOREM CarriedOutUnlessLapsed ==
  OneSecret /\ Spec /\ [][LapsesLate]_vars => []ToldIsWhole
<1> SUFFICES ASSUME OneSecret PROVE Spec /\ [][LapsesLate]_vars => []ToldIsWhole
  OBVIOUS
<1>1. Init => LapsedIsEnded /\ ToldIsWhole
  BY IdempotencyAssumption DEF Init, LapsedIsEnded, ToldIsWhole, Kind
<1>2. /\ IInv /\ DoneIsEnded /\ LapsedIsEnded /\ ToldIsWhole
      /\ [Next]_vars /\ [LapsesLate]_vars
      => (LapsedIsEnded /\ ToldIsWhole)'
  <2> SUFFICES ASSUME IInv, DoneIsEnded, LapsedIsEnded, ToldIsWhole,
                      [Next]_vars, [LapsesLate]_vars
               PROVE  LapsedIsEnded' /\ ToldIsWhole'
      OBVIOUS
  <2>1. CASE LapsesLate
    BY <2>1, LapsedStep, ToldStep
  <2>2. CASE UNCHANGED vars
    BY <2>2
    DEF vars, local, LapsedIsEnded, ToldIsWhole, CarriesOut, Ended
  <2> QED  BY <2>1, <2>2
<1> QED  BY <1>1, <1>2, Invariance, WholeInvariance, PTL DEF Spec
=============================================================================
