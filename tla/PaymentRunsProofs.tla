-------------------------- MODULE PaymentRunsProofs --------------------------
(***************************************************************************)
(* The safety properties of PaymentRuns, for any runs, items, accounts and *)
(* passes, and any number of faults.                                       *)
(*                                                                         *)
(* What they rest on: a pass that owns an item has the item as it is in    *)
(* its hands; the quote and the transfer id, once kept, stay; and an item  *)
(* is in state creating only while nobody has, or is about to, ask Wise to *)
(* fund it.                                                                *)
(***************************************************************************)
EXTENDS PaymentRuns, FiniteSetTheorems, WellFoundedInduction, TLAPS

----------------------------------------------------------------------------
(* The inductive invariant *)

Place == {"idle", "claim", "quote", "create", "store", "read", "settle", "fund", "record"}
Before == {"quote", "create", "store", "read", "settle"}
Funding == {"fund", "record"}
Begun == {"approved", "cancelled"}
Over == {"refunded", "cancelled"}

\* An item has its quote before its transfer, and its transfer id before it is
\* funded; without them it can be cancelled, with them it cannot.
ItemFits == \A i \in Item :
  /\ run[RunOf[i]] \notin Begun => item[i].state \in {"draft", "cancelled"}
  /\ item[i].state \in {"draft", "queued", "cancelled"} => ~item[i].quoted
  /\ ~item[i].quoted => ~item[i].known /\ wise[i] = "none"
  /\ ~item[i].known => asked[i] = 0
  /\ item[i].state = "failed" => wise[i] \in Over
  /\ asked[i] = 0 \/ asked[i] = 1
  /\ asked[i] = 1 => item[i].state # "creating"

\* A pass that is not idle has an item of an approved run.
Holds == \A w \in Worker :
  pc[w] # "idle" => hold[w] \in Item /\ run[RunOf[hold[w]]] \in Begun

\* What a pass was given with its claim.
SeenFits == \A w \in Worker :
  /\ pc[w] \in Before => seen[w].state \notin {"cancelled", "failed"}
  /\ pc[w] = "quote" => seen[w].state = "queued" /\ ~seen[w].known
  /\ pc[w] \in {"create", "store"} =>
       seen[w].state = "creating" /\ seen[w].quoted /\ ~seen[w].known
                                  /\ item[hold[w]].quoted
  /\ pc[w] \in {"read", "settle"} \cup Funding => seen[w].known /\ item[hold[w]].known

\* An owner's row is the row.
OwnerKnows == \A w \in Worker :
  pc[w] \in Before /\ Owns(w) =>
    /\ item[hold[w]].state = seen[w].state
    /\ item[hold[w]].quoted = seen[w].quoted
    /\ item[hold[w]].known = seen[w].known

\* A transfer that is over stays over.
ReplyFits == \A w \in Worker :
  /\ pc[w] = "settle" /\ reply[w] \in Over => wise[hold[w]] = reply[w]
  /\ pc[w] = "record" => reply[w] \in Answer

\* While a pass is about to fund, or has just asked, nobody else can be.
FundingIsAlone == \A w \in Worker :
  pc[w] \in Funding =>
    /\ item[hold[w]].state # "creating"
    /\ pc[w] = "fund" \/ reply[w] # "accepted" => asked[hold[w]] = 0
    /\ \A v \in Worker : pc[v] \in Funding /\ hold[v] = hold[w] => v = w

IInv ==
  /\ TypeOK /\ ItemFits /\ Holds /\ SeenFits /\ OwnerKnows /\ ReplyFits
  /\ FundingIsAlone

----------------------------------------------------------------------------
(* Rows *)

LEMMA Bounds ==
  /\ RunOf \in [Item -> Run] /\ AccountOf \in [Item -> Account]
  /\ MaxAttempts \in Nat /\ MaxAttempts > 0 /\ Owed \in [Account -> Nat]
  /\ Revised \subseteq Nat /\ None \notin Worker /\ None \notin Item
BY PaymentRunsAssumption

LEMMA NewRowFits ==
  /\ NewRow \in Row /\ NewRow.state = "draft" /\ NewRow.quoted = FALSE
  /\ NewRow.known = FALSE /\ NewRow.own = None
<1>1. 0 \in 0..MaxAttempts
  BY Bounds
<1> QED
  BY <1>1 DEF NewRow, Row, State

Stored(row) == [row EXCEPT !.own = None, !.leased = FALSE]

LEMMA StoredRow ==
  ASSUME NEW r \in Row
  PROVE  /\ Stored(r) \in Row /\ Stored(r).state = r.state /\ Stored(r).quoted = r.quoted
         /\ Stored(r).known = r.known /\ Stored(r).own = None
BY DEF Stored, Row

LEMMA InStateRow ==
  ASSUME NEW r \in Row, NEW s \in State
  PROVE  LET q == [r EXCEPT !.state = s] IN
         /\ q \in Row /\ q.state = s /\ q.quoted = r.quoted /\ q.known = r.known
         /\ q.own = r.own
BY DEF Row

LEMMA MovedRow ==
  ASSUME NEW r \in Row, NEW s \in State
  PROVE  LET q == [r EXCEPT !.state = s, !.own = None] IN
         /\ q \in Row /\ q.state = s /\ q.quoted = r.quoted /\ q.known = r.known
         /\ q.own = None
BY DEF Row

LEMMA ClaimedRow ==
  ASSUME NEW r \in Row, NEW w \in Worker
  PROVE  /\ Claimed(r, w) \in Row /\ Claimed(r, w).state = r.state
         /\ Claimed(r, w).quoted = r.quoted /\ Claimed(r, w).known = r.known
         /\ Claimed(r, w).own = w
<1>1. (IF r.attempts = MaxAttempts THEN r.attempts ELSE r.attempts + 1) \in 0..MaxAttempts
  BY Bounds DEF Row
<1> QED
  BY <1>1 DEF Claimed, Row

----------------------------------------------------------------------------
(* What most steps have in common *)

\* Wise: nothing that is over begins again, and nothing begins unquoted.
WiseGoesOn ==
  \A i \in Item : /\ wise[i] \in Over => wise'[i] = wise[i]
                  /\ ~item[i].quoted => wise'[i] = wise[i]

\* A row but for its lease and its attempts.
Alike(row, other) ==
  /\ row.state = other.state /\ row.quoted = other.quoted
  /\ row.known = other.known /\ row.own = other.own

\* A step of nobody's pass: it may begin runs, and move items that no pass
\* has under its own claim.
LEMMA OutsideKeeps ==
  ASSUME IInv, TypeOK', UNCHANGED <<asked, pass>>, WiseGoesOn,
         \A r \in Run : run[r] \in Begun => run'[r] \in Begun,
         \A i \in Item : Alike(item'[i], item[i]) \/
           /\ item'[i].quoted = item[i].quoted /\ item'[i].known = item[i].known
           /\ item'[i].state \in {"draft", "queued", "cancelled"} => ~item[i].quoted
           /\ item'[i].state # "failed"
           /\ item'[i].state = "creating" => ~item[i].known
           /\ \/ item'[i].own = None
              \/ ~item[i].known /\ item[i].own = item'[i].own /\ item[i].state = "attention",
         \A i \in Item : run'[RunOf[i]] \notin Begun => item'[i].state \in {"draft", "cancelled"}
  PROVE  IInv'
<1>1. ItemFits'
  BY DEF IInv, ItemFits, WiseGoesOn, Alike
<1>2. Holds' /\ ReplyFits'
  BY Bounds DEF IInv, Holds, ReplyFits, pass, WiseGoesOn
<1>3. \A w \in Worker : pc[w] # "idle" =>
        /\ hold[w] \in Item
        /\ item'[hold[w]].quoted = item[hold[w]].quoted
        /\ item'[hold[w]].known = item[hold[w]].known
  BY DEF IInv, Holds, Alike
<1>4. SeenFits'
  BY <1>3 DEF IInv, SeenFits, pass, Before, Funding
<1>5. OwnerKnows'
  <2> SUFFICES ASSUME NEW w \in Worker, pc[w] \in Before, item'[hold[w]].own = w
               PROVE  /\ item'[hold[w]].state = seen[w].state
                      /\ item'[hold[w]].quoted = seen[w].quoted
                      /\ item'[hold[w]].known = seen[w].known
    BY DEF OwnerKnows, Owns, pass
  <2>1. hold[w] \in Item /\ pc[w] # "idle"
    BY DEF IInv, Holds, Before
  <2>2. CASE Alike(item'[hold[w]], item[hold[w]])
    BY <2>1, <2>2 DEF IInv, OwnerKnows, Owns, Alike
  <2>3. CASE ~Alike(item'[hold[w]], item[hold[w]])
    <3>1. /\ ~item[hold[w]].known /\ item[hold[w]].own = w
          /\ item[hold[w]].state = "attention"
      BY <2>1, <2>3, Bounds
    <3>2. seen[w].state = "attention" /\ ~item[hold[w]].known
      BY <3>1 DEF IInv, OwnerKnows, Owns
    <3> QED
      BY <3>2 DEF IInv, SeenFits, Before
  <2> QED
    BY <2>2, <2>3
<1>6. FundingIsAlone'
  <2> SUFFICES ASSUME NEW w \in Worker, pc[w] \in Funding
               PROVE  /\ item'[hold[w]].state # "creating"
                      /\ pc[w] = "fund" \/ reply[w] # "accepted" => asked[hold[w]] = 0
                      /\ \A v \in Worker : pc[v] \in Funding /\ hold[v] = hold[w] => v = w
    BY DEF FundingIsAlone, pass
  <2>1. hold[w] \in Item /\ item[hold[w]].known /\ item[hold[w]].state # "creating"
    BY DEF IInv, Holds, SeenFits, FundingIsAlone, Funding
  <2> QED
    BY <2>1 DEF IInv, FundingIsAlone, Alike
<1> QED
  BY <1>1, <1>2, <1>4, <1>5, <1>6 DEF IInv

Others(w) == \A v \in Worker \ {w} :
  pc'[v] = pc[v] /\ hold'[v] = hold[v] /\ seen'[v] = seen[v] /\ reply'[v] = reply[v]

\* Only a transfer with a quote is created.
LEMMA CreateFits ==
  ASSUME IInv, NEW w \in Worker, pc[w] = "create"
  PROVE  /\ hold[w] \in Item /\ item[hold[w]].quoted
         /\ Created(hold[w]) \in [Item -> Transfer]
         /\ \A i \in Item : Created(hold[w])[i] = wise[i]
                            \/ (i = hold[w] /\ wise[i] = "none")
<1>1. hold[w] \in Item /\ item[hold[w]].quoted
  BY DEF IInv, Holds, SeenFits
<1>2. CASE wise[hold[w]] = "none"
  <2>1. Created(hold[w]) = [wise EXCEPT ![hold[w]] = "waiting"]
    BY <1>2 DEF Created
  <2>2. wise \in [Item -> Transfer] /\ "waiting" \in Transfer
    BY DEF IInv, TypeOK, Transfer
  <2>3. Created(hold[w]) \in [Item -> Transfer]
    BY <2>1, <2>2
  <2>4. \A i \in Item : i # hold[w] => Created(hold[w])[i] = wise[i]
    BY <2>1, <2>2
  <2> QED
    BY <1>1, <1>2, <2>3, <2>4
<1>3. CASE wise[hold[w]] # "none"
  <2>1. Created(hold[w]) = wise
    BY <1>3 DEF Created
  <2> QED
    BY <1>1, <2>1 DEF IInv, TypeOK
<1> QED
  BY <1>2, <1>3

LEMMA CreateGoesOn ==
  ASSUME IInv, NEW w \in Worker,
         wise' = wise \/ (pc[w] = "create" /\ wise' = Created(hold[w]))
  PROVE  wise' \in [Item -> Transfer] /\ WiseGoesOn
<1>1. CASE wise' = wise
  BY <1>1 DEF IInv, TypeOK, WiseGoesOn
<1>2. CASE pc[w] = "create" /\ wise' = Created(hold[w])
  <2>1. \A i \in Item : wise'[i] = wise[i]
                        \/ (i = hold[w] /\ wise[i] = "none" /\ item[i].quoted)
    BY <1>2, CreateFits
  <2>2. wise' \in [Item -> Transfer]
    BY <1>2, CreateFits
  <2> QED
    BY <2>1, <2>2 DEF WiseGoesOn, Over
<1> QED
  BY <1>1, <1>2

\* The update of a pass that has done its work with the row.
LEMMA UpdateKeeps ==
  ASSUME IInv, TypeOK', NEW w \in Worker, NEW row \in Row,
         pc[w] \in Before, Update(w, row), Others(w), UNCHANGED <<run, asked>>, WiseGoesOn,
         pc'[w] \in {"idle", "claim"}, pc'[w] = "claim" => hold'[w] = hold[w],
         seen[w].quoted => row.quoted, seen[w].known => row.known,
         Owns(w) /\ row.known => row.quoted,
         Owns(w) /\ row.state \in {"draft", "queued", "cancelled"} => ~row.quoted,
         row.state = "failed" => wise[hold[w]] \in Over,
         row.state = "creating" => seen[w].state \in {"queued", "creating"}
  PROVE  IInv'
<1>1. hold[w] \in Item /\ run[RunOf[hold[w]]] \in Begun
  BY DEF IInv, Holds, Before
<1>2. \/ item' = item
      \/ /\ Owns(w) /\ item'[hold[w]] = Stored(row)
         /\ \A j \in Item \ {hold[w]} : item'[j] = item[j]
  BY <1>1 DEF Update, Stored, IInv, TypeOK
<1>3. /\ Stored(row).state = row.state /\ Stored(row).quoted = row.quoted
      /\ Stored(row).known = row.known /\ Stored(row).own = None
  BY StoredRow
<1>4. Owns(w) => /\ item[hold[w]].state = seen[w].state
                 /\ item[hold[w]].quoted = seen[w].quoted
                 /\ item[hold[w]].known = seen[w].known
  BY DEF IInv, OwnerKnows
<1>5. \A i \in Item : /\ item[i].quoted => item'[i].quoted
                      /\ item[i].known => item'[i].known
  BY <1>1, <1>2, <1>3, <1>4
<1>6. ItemFits'
  <2> SUFFICES ASSUME NEW i \in Item
               PROVE  /\ run[RunOf[i]] \notin Begun => item'[i].state \in {"draft", "cancelled"}
                      /\ item'[i].state \in {"draft", "queued", "cancelled"} => ~item'[i].quoted
                      /\ ~item'[i].quoted => ~item'[i].known /\ wise'[i] = "none"
                      /\ ~item'[i].known => asked[i] = 0
                      /\ item'[i].state = "failed" => wise'[i] \in Over
                      /\ asked[i] = 0 \/ asked[i] = 1
                      /\ asked[i] = 1 => item'[i].state # "creating"
    BY DEF ItemFits
  <2>1. CASE item'[i] = item[i]
    BY <2>1 DEF IInv, ItemFits, WiseGoesOn
  <2>2. CASE item'[i] # item[i]
    <3>1. i = hold[w] /\ Owns(w) /\ item'[i] = Stored(row)
      BY <1>2, <2>2
    <3>2. ~row.quoted => ~item[i].quoted
      BY <1>4, <3>1
    <3>3. ~row.known => ~item[i].known
      BY <1>4, <3>1
    <3>4. row.state = "creating" /\ asked[i] = 1 => FALSE
      BY <1>4, <3>1 DEF IInv, ItemFits
    <3> QED
      BY <1>1, <1>3, <3>1, <3>2, <3>3, <3>4 DEF IInv, ItemFits, WiseGoesOn
  <2> QED
    BY <2>1, <2>2
<1>7. Holds'
  BY <1>1 DEF IInv, Holds, Others
<1>8. SeenFits'
  <2> SUFFICES ASSUME NEW v \in Worker, pc'[v] \in Before \cup Funding
               PROVE  /\ pc'[v] \in Before => seen'[v].state \notin {"cancelled", "failed"}
                      /\ pc'[v] = "quote" => seen'[v].state = "queued" /\ ~seen'[v].known
                      /\ pc'[v] \in {"create", "store"} =>
                           seen'[v].state = "creating" /\ seen'[v].quoted /\ ~seen'[v].known
                                                       /\ item'[hold'[v]].quoted
                      /\ pc'[v] \in {"read", "settle"} \cup Funding =>
                           seen'[v].known /\ item'[hold'[v]].known
    BY DEF SeenFits, Before, Funding
  <2>1. v # w
    BY DEF Before, Funding
  <2>2. /\ pc'[v] = pc[v] /\ hold'[v] = hold[v] /\ seen'[v] = seen[v] /\ pc[v] # "idle"
    BY <2>1 DEF Others, Before, Funding
  <2>3. hold[v] \in Item
    BY <2>2 DEF IInv, Holds
  <2> QED
    BY <1>5, <2>2, <2>3 DEF IInv, SeenFits
<1>9. OwnerKnows' /\ ReplyFits'
  <2> SUFFICES ASSUME NEW v \in Worker, pc'[v] \in Before \cup Funding
               PROVE  /\ pc'[v] \in Before /\ item'[hold'[v]].own = v =>
                           /\ item'[hold'[v]].state = seen'[v].state
                           /\ item'[hold'[v]].quoted = seen'[v].quoted
                           /\ item'[hold'[v]].known = seen'[v].known
                      /\ pc'[v] = "settle" /\ reply'[v] \in Over => wise'[hold'[v]] = reply'[v]
                      /\ pc'[v] = "record" => reply'[v] \in Answer
    BY DEF OwnerKnows, Owns, ReplyFits, Before, Funding
  <2>1. v # w
    BY DEF Before, Funding
  <2>2. /\ pc'[v] = pc[v] /\ hold'[v] = hold[v] /\ seen'[v] = seen[v]
        /\ reply'[v] = reply[v] /\ pc[v] # "idle"
    BY <2>1 DEF Others, Before, Funding
  <2>3. hold[v] \in Item
    BY <2>2 DEF IInv, Holds
  <2>4. item'[hold[v]] = item[hold[v]] \/ item'[hold[v]].own = None
    BY <1>2, <1>3, <2>3
  <2> QED
    BY <2>2, <2>3, <2>4, Bounds DEF IInv, OwnerKnows, Owns, ReplyFits, WiseGoesOn, Before
<1>10. FundingIsAlone'
  <2> SUFFICES ASSUME NEW v \in Worker, pc'[v] \in Funding
               PROVE  /\ item'[hold'[v]].state # "creating"
                      /\ pc'[v] = "fund" \/ reply'[v] # "accepted" => asked[hold'[v]] = 0
                      /\ \A u \in Worker : pc'[u] \in Funding /\ hold'[u] = hold'[v] => u = v
    BY DEF FundingIsAlone
  <2>1. v # w
    BY DEF Funding
  <2>2. /\ pc'[v] = pc[v] /\ hold'[v] = hold[v] /\ reply'[v] = reply[v] /\ pc[v] # "idle"
    BY <2>1 DEF Others, Funding
  <2>3. hold[v] \in Item /\ item[hold[v]].known /\ item[hold[v]].state # "creating"
    BY <2>2 DEF IInv, Holds, SeenFits, FundingIsAlone
  <2>4. item'[hold[v]].state # "creating"
    <3>1. CASE item'[hold[v]] = item[hold[v]]
      BY <2>3, <3>1
    <3>2. CASE item'[hold[v]] # item[hold[v]]
      <4>1. hold[v] = hold[w] /\ Owns(w) /\ item'[hold[v]] = Stored(row)
        BY <1>2, <2>3, <3>2
      <4>2. seen[w].state \notin {"queued", "creating"}
        BY <1>4, <2>3, <4>1 DEF IInv, ItemFits
      <4> QED
        BY <1>3, <4>1, <4>2
    <3> QED
      BY <3>1, <3>2
  <2>5. \A u \in Worker : pc'[u] \in Funding =>
          u # w /\ pc[u] = pc'[u] /\ hold[u] = hold'[u]
    BY DEF Others, Funding
  <2> QED
    BY <2>2, <2>4, <2>5 DEF IInv, FundingIsAlone
<1> QED
  BY <1>6, <1>7, <1>8, <1>9, <1>10 DEF IInv

LEMMA UpdateType ==
  ASSUME IInv, NEW w \in Worker, pc[w] # "idle", NEW row \in Row, Update(w, row)
  PROVE  item' \in [Item -> Row]
<1>1. hold[w] \in Item
  BY DEF IInv, Holds
<1>2. item' = item \/ item' = [item EXCEPT ![hold[w]] = Stored(row)]
  BY DEF Update, Stored
<1> QED
  BY <1>1, <1>2, StoredRow DEF IInv, TypeOK

LEMMA ForgetMeans ==
  ASSUME IInv, NEW w \in Worker, Again(w) \/ Release(w)
  PROVE  /\ Others(w)
         /\ pc'[w] \in {"idle", "claim"} /\ (pc'[w] = "claim" => hold'[w] = hold[w])
         /\ pc' \in [Worker -> Place] /\ hold' \in [Worker -> Item \cup {None}]
         /\ seen' \in [Worker -> Row] /\ reply' \in [Worker -> Transfer \cup Answer \cup {None}]
<1>1. \E p \in {"idle", "claim"} : Forget(w, p) /\ (p = "claim" => hold' = hold)
                                   /\ hold' \in [Worker -> Item \cup {None}]
                                   /\ \A v \in Worker \ {w} : hold'[v] = hold[v]
  BY DEF Again, Release, IInv, TypeOK
<1>2. PICK p \in {"idle", "claim"} :
        /\ Forget(w, p) /\ (p = "claim" => hold' = hold)
        /\ hold' \in [Worker -> Item \cup {None}]
        /\ \A v \in Worker \ {w} : hold'[v] = hold[v]
  BY <1>1
<1>3. /\ pc' = [pc EXCEPT ![w] = p] /\ seen' = [seen EXCEPT ![w] = NewRow]
      /\ reply' = [reply EXCEPT ![w] = None]
  BY <1>2 DEF Forget, Goto
<1> QED
  BY <1>2, <1>3, NewRowFits DEF Others, Place, IInv, TypeOK

\* The types after a step of a pass.
LEMMA PassType ==
  ASSUME IInv, UNCHANGED <<run, cancelling, register>>, stale' \subseteq Item,
         item' \in [Item -> Row], wise' \in [Item -> Transfer],
         asked' \in [Item -> Nat], faults' \in Nat,
         pc' \in [Worker -> Place], hold' \in [Worker -> Item \cup {None}],
         seen' \in [Worker -> Row], reply' \in [Worker -> Transfer \cup Answer \cup {None}]
  PROVE  TypeOK'
BY DEF IInv, TypeOK, Place, register

LEMMA Types ==
  ASSUME IInv
  PROVE  /\ stale \subseteq Item /\ item \in [Item -> Row] /\ wise \in [Item -> Transfer]
         /\ asked \in [Item -> Nat] /\ faults \in Nat
         /\ pc \in [Worker -> Place] /\ hold \in [Worker -> Item \cup {None}]
         /\ seen \in [Worker -> Row]
         /\ reply \in [Worker -> Transfer \cup Answer \cup {None}]
BY DEF IInv, TypeOK, Place

----------------------------------------------------------------------------
(* A pass *)

LEMMA QuoteKeeps == ASSUME IInv, NEW w \in Worker, Quote(w) PROVE IInv'
<1> DEFINE taken == [seen[w] EXCEPT !.state = "creating", !.quoted = TRUE]
           refused == [seen[w] EXCEPT !.state = "attention"]
<1>1. /\ pc[w] = "quote" /\ pc[w] \in Before /\ pc[w] # "idle" /\ seen[w] \in Row
      /\ seen[w].state = "queued" /\ ~seen[w].known
      /\ UNCHANGED <<runs, register, bank, faults>>
      /\ Again(w) \/ Release(w)
  BY Types DEF Quote, IInv, SeenFits, Before
<1>2. /\ taken \in Row /\ taken.state = "creating" /\ taken.quoted /\ taken.known = seen[w].known
      /\ refused \in Row /\ refused.state = "attention" /\ refused.quoted = seen[w].quoted
      /\ refused.known = seen[w].known
  BY <1>1 DEF Row, State
<1>3. Update(w, taken) \/ Update(w, refused)
  BY DEF Quote, Becomes
<1> HIDE DEF taken, refused
<1>4. TypeOK'
  BY <1>1, <1>2, <1>3, UpdateType, ForgetMeans, PassType, Types DEF runs, bank
<1>5. WiseGoesOn
  BY <1>1 DEF WiseGoesOn, bank
<1>6. UNCHANGED <<run, asked>>
  BY <1>1 DEF runs, bank
<1>7. CASE Update(w, taken)
  BY <1>1, <1>2, <1>4, <1>5, <1>6, <1>7, ForgetMeans, UpdateKeeps
<1>8. CASE Update(w, refused)
  BY <1>1, <1>2, <1>4, <1>5, <1>6, <1>8, ForgetMeans, UpdateKeeps
<1> QED
  BY <1>3, <1>7, <1>8

LEMMA StoreKeeps == ASSUME IInv, NEW w \in Worker, Store(w) PROVE IInv'
<1> DEFINE row == [seen[w] EXCEPT !.known = TRUE]
<1>1. /\ pc[w] = "store" /\ pc[w] \in Before /\ pc[w] # "idle" /\ seen[w] \in Row
      /\ seen[w].state = "creating" /\ seen[w].quoted
      /\ UNCHANGED <<runs, register, bank, faults>>
      /\ Again(w) /\ Update(w, row)
  BY Types DEF Store, IInv, SeenFits, Before
<1>2. /\ row \in Row /\ row.state = "creating" /\ row.quoted /\ row.known
  BY <1>1 DEF Row
<1> HIDE DEF row
<1>3. TypeOK'
  BY <1>1, <1>2, UpdateType, ForgetMeans, PassType, Types DEF runs, bank
<1>4. WiseGoesOn
  BY <1>1 DEF WiseGoesOn, bank
<1>5. UNCHANGED <<run, asked>>
  BY <1>1 DEF runs, bank
<1> QED
  BY <1>1, <1>2, <1>3, <1>4, <1>5, ForgetMeans, UpdateKeeps

\* A look at Wise, or the creation of a transfer there.
LEMMA LookKeeps == ASSUME IInv, NEW w \in Worker, Create(w) \/ Read(w) PROVE IInv'
<1>1. /\ \/ pc[w] = "create" /\ pc' = [pc EXCEPT ![w] = "store"] /\ reply' = reply
         \/ /\ pc[w] = "read" /\ pc' = [pc EXCEPT ![w] = "settle"]
            /\ wise' = wise /\ reply' = [reply EXCEPT ![w] = wise[hold[w]]]
      /\ UNCHANGED <<run, runs, item, register, asked, hold, seen, faults>>
  BY DEF Create, Read, Goto, runs, bank
<1>2. hold[w] \in Item
  BY <1>1 DEF IInv, Holds
<1>3. wise' \in [Item -> Transfer] /\ WiseGoesOn
  <2>1. CASE pc[w] = "create"
    <3>1. wise' = Created(hold[w])
      BY <1>1, <2>1 DEF Create, Read
    <3> QED
      BY <2>1, <3>1, CreateGoesOn
  <2>2. CASE pc[w] = "read"
    BY <1>1, <2>2, Types DEF WiseGoesOn
  <2> QED
    BY <1>1, <2>1, <2>2
<1>4. reply' \in [Worker -> Transfer \cup Answer \cup {None}] /\ pc' \in [Worker -> Place]
  BY <1>1, <1>2, Types DEF Place
<1>5. TypeOK'
  BY <1>1, <1>3, <1>4, PassType, Types DEF runs
<1>6. ItemFits'
  BY <1>1, <1>3 DEF IInv, ItemFits, WiseGoesOn
<1>7. /\ pc'[w] \in {"store", "settle"} /\ pc[w] \in Before /\ pc[w] # "idle"
      /\ pc[w] = "create" <=> pc'[w] = "store"
      /\ pc[w] = "read" <=> pc'[w] = "settle"
      /\ pc'[w] = "settle" => reply'[w] = wise'[hold[w]]
      /\ \A v \in Worker \ {w} : pc'[v] = pc[v] /\ reply'[v] = reply[v]
  BY <1>1, Types DEF Before
<1>8. Holds' /\ SeenFits'
  BY <1>1, <1>7 DEF IInv, Holds, SeenFits, Before, Funding
<1>9. OwnerKnows'
  BY <1>1, <1>7 DEF IInv, OwnerKnows, Owns, Before
<1>10. ReplyFits'
  <2> SUFFICES ASSUME NEW v \in Worker, pc'[v] # "idle"
               PROVE  /\ pc'[v] = "settle" /\ reply'[v] \in Over => wise'[hold[v]] = reply'[v]
                      /\ pc'[v] = "record" => reply'[v] \in Answer
    BY <1>1 DEF ReplyFits
  <2>1. hold[v] \in Item
    BY <1>2, <1>7 DEF IInv, Holds
  <2> QED
    BY <1>3, <1>7, <2>1 DEF IInv, ReplyFits, WiseGoesOn
<1>11. FundingIsAlone'
  BY <1>1, <1>7 DEF IInv, FundingIsAlone, Funding
<1> QED
  BY <1>5, <1>6, <1>8, <1>9, <1>10, <1>11 DEF IInv

LEMMA VerdictFits ==
  ASSUME IInv, NEW w \in Worker, pc[w] = "settle"
  PROVE  /\ Verdict(w) \in State
         /\ Verdict(w) \notin {"draft", "queued", "cancelled", "creating"}
         /\ Verdict(w) = "failed" => wise[hold[w]] \in Over
         /\ seen[w].state = "paid" /\ Verdict(w) # "paid" =>
              Verdict(w) = "failed" /\ wise[hold[w]] = "refunded"
<1>1. /\ reply[w] \in Over => wise[hold[w]] = reply[w]
  BY DEF IInv, ReplyFits
<1>2. CASE reply[w] = "sent"
  BY <1>2 DEF Verdict, Recordable, State
<1>3. CASE reply[w] \in Over
  BY <1>1, <1>3 DEF Verdict, State, Over
<1>4. CASE reply[w] \in {"returned", "moving"}
  BY <1>4 DEF Verdict, Kept, State, Over
<1>5. CASE reply[w] \notin {"sent", "returned", "moving"} \cup Over
  BY <1>5 DEF Verdict, Kept, State, Over
<1> QED
  BY <1>2, <1>3, <1>4, <1>5

LEMMA SettleKeeps == ASSUME IInv, NEW w \in Worker, Settle(w) PROVE IInv'
<1> DEFINE row == [seen[w] EXCEPT !.state = Verdict(w)]
<1>1. /\ pc[w] = "settle" /\ pc[w] \in Before /\ pc[w] # "idle" /\ seen[w] \in Row
      /\ seen[w].known /\ item[hold[w]].known /\ hold[w] \in Item
      /\ UNCHANGED <<run, cancelling, register, bank, faults>>
      /\ Release(w) /\ Update(w, row)
  BY Types DEF Settle, Becomes, IInv, SeenFits, Holds, Before
<1>2. /\ row \in Row /\ row.state = Verdict(w) /\ row.quoted = seen[w].quoted
      /\ row.known = seen[w].known
  BY <1>1, VerdictFits, InStateRow
<1> HIDE DEF row
<1>3. stale' \subseteq Item
  BY Types DEF Settle, Entered, InState
<1>4. TypeOK'
  BY <1>1, <1>2, <1>3, UpdateType, ForgetMeans, PassType, Types DEF bank
<1>5. WiseGoesOn /\ UNCHANGED asked
  BY <1>1 DEF WiseGoesOn, bank
<1>6. Owns(w) => row.quoted
  BY <1>1, <1>2 DEF IInv, OwnerKnows, ItemFits
<1> QED
  BY <1>1, <1>2, <1>4, <1>5, <1>6, VerdictFits, ForgetMeans, UpdateKeeps, ZenonT(60)

LEMMA ThrowKeeps == ASSUME IInv, NEW w \in Worker, Throw(w) PROVE IInv'
<1>1. PICK state \in {seen[w].state, Interrupted(seen[w])} :
        Update(w, [seen[w] EXCEPT !.state = state])
  BY DEF Throw, Becomes
<1> DEFINE row == [seen[w] EXCEPT !.state = state]
<1>2. /\ pc[w] \in Before /\ pc[w] # "idle" /\ seen[w] \in Row /\ hold[w] \in Item
      /\ seen[w].state \notin {"cancelled", "failed"}
      /\ UNCHANGED <<run, runs, register, asked>>
      /\ Release(w) /\ Update(w, row) /\ faults' = faults + 1
  BY <1>1, Types DEF Throw, IInv, SeenFits, Holds, Before, runs
<1>3. /\ state \in State
      /\ state = seen[w].state \/ state \in {"paid", "attention"}
  <2>1. seen[w].state \in State
    BY <1>2 DEF Row
  <2>2. Interrupted(seen[w]) \in {seen[w].state, "attention"}
    BY DEF Interrupted
  <2> QED
    BY <1>1, <2>1, <2>2 DEF State
<1>4. /\ row \in Row /\ row.state = state /\ row.quoted = seen[w].quoted
      /\ row.known = seen[w].known
  BY <1>2, <1>3, InStateRow
<1> HIDE DEF row
<1>5. wise' \in [Item -> Transfer] /\ WiseGoesOn
  BY CreateGoesOn DEF Throw
<1>6. TypeOK'
  BY <1>2, <1>4, <1>5, UpdateType, ForgetMeans, PassType, Types DEF runs
<1>7. Owns(w) => /\ item[hold[w]].state = seen[w].state
                 /\ item[hold[w]].quoted = seen[w].quoted
                 /\ item[hold[w]].known = seen[w].known
  BY <1>2 DEF IInv, OwnerKnows
<1>8. Owns(w) /\ row.known => row.quoted
  BY <1>2, <1>4, <1>7 DEF IInv, ItemFits
<1>9. Owns(w) /\ row.state \in {"draft", "queued", "cancelled"} => ~row.quoted
  BY <1>2, <1>3, <1>4, <1>7 DEF IInv, ItemFits
<1>10. /\ row.state = "failed" => wise[hold[w]] \in Over
       /\ row.state = "creating" => seen[w].state \in {"queued", "creating"}
  BY <1>2, <1>3, <1>4
<1> QED
  BY <1>2, <1>4, <1>5, <1>6, <1>8, <1>9, <1>10, ForgetMeans, UpdateKeeps

LEMMA MarkKeeps == ASSUME IInv, NEW w \in Worker, Mark(w) PROVE IInv'
<1> DEFINE i == hold[w]
           row == [seen[w] EXCEPT !.state = "funding"]
<1>1. /\ pc[w] = "settle" /\ pc[w] \in Before /\ pc[w] # "idle" /\ seen[w] \in Row
      /\ seen[w].known /\ i \in Item /\ item[i].known /\ seen[w].state = "creating"
      /\ UNCHANGED <<run, runs, register, bank, faults>> /\ Update(w, row)
  BY Types DEF Mark, Fundable, Becomes, IInv, SeenFits, Holds, Before, runs
<1>2. /\ row \in Row /\ row.state = "funding" /\ row.quoted = seen[w].quoted /\ row.known
  <2>1. "funding" \in State
    BY DEF State
  <2>2. row \in Row /\ row.state = "funding" /\ row.quoted = seen[w].quoted
        /\ row.known = seen[w].known
    BY <1>1, <2>1, InStateRow
  <2> QED
    BY <1>1, <2>2
<1> HIDE DEF row
<1>3. WiseGoesOn /\ UNCHANGED asked
  BY <1>1 DEF WiseGoesOn, bank
<1>4. CASE ~Owns(w)
  <2>1. Release(w)
    BY <1>4 DEF Mark
  <2>2. TypeOK'
    BY <1>1, <1>2, <2>1, UpdateType, ForgetMeans, PassType, Types DEF bank, runs
  <2> QED
    BY <1>1, <1>2, <1>3, <1>4, <2>1, <2>2, ForgetMeans, UpdateKeeps
<1>5. CASE Owns(w)
  <2>1. /\ pc' = [pc EXCEPT ![w] = "fund"] /\ UNCHANGED <<hold, seen, reply>>
    BY <1>5 DEF Mark, Goto
  <2>2. /\ pc'[w] = "fund" /\ \A v \in Worker \ {w} : pc'[v] = pc[v]
        /\ pc' \in [Worker -> Place]
    BY <2>1, Types DEF Place
  <2>3. TypeOK'
    BY <1>1, <1>2, <2>1, <2>2, UpdateType, PassType, Types DEF bank, runs
  <2>4. /\ item'[i] = Stored(row) /\ \A j \in Item \ {i} : item'[j] = item[j]
    BY <1>1, <1>5, Types DEF Update, Stored
  <2>5. /\ Stored(row).state = "funding" /\ Stored(row).quoted = row.quoted
        /\ Stored(row).known /\ Stored(row).own = None
    BY <1>2, StoredRow
  <2>6. /\ item[i].state = "creating" /\ item[i].quoted /\ row.quoted
    BY <1>1, <1>2, <1>5 DEF IInv, OwnerKnows, ItemFits
  <2>7. /\ asked[i] = 0
        /\ \A v \in Worker : pc[v] \in Funding => hold[v] # i
    BY <1>1, <2>6 DEF IInv, ItemFits, FundingIsAlone
  <2>8. ItemFits'
    <3> SUFFICES ASSUME NEW j \in Item
                 PROVE  /\ run[RunOf[j]] \notin Begun => item'[j].state \in {"draft", "cancelled"}
                        /\ item'[j].state \in {"draft", "queued", "cancelled"} => ~item'[j].quoted
                        /\ ~item'[j].quoted => ~item'[j].known /\ wise'[j] = "none"
                        /\ ~item'[j].known => asked[j] = 0
                        /\ item'[j].state = "failed" => wise'[j] \in Over
                        /\ asked[j] = 0 \/ asked[j] = 1
                        /\ asked[j] = 1 => item'[j].state # "creating"
      BY <1>1, <1>3 DEF ItemFits
    <3>1. CASE j # i
      BY <1>3, <2>4, <3>1 DEF IInv, ItemFits, WiseGoesOn
    <3>2. CASE j = i
      <4>1. run[RunOf[i]] \in Begun
        BY <1>1 DEF IInv, Holds
      <4> QED
        BY <2>4, <2>5, <2>6, <2>7, <3>2, <4>1
    <3> QED
      BY <3>1, <3>2
  <2>9. Holds'
    BY <1>1, <2>1, <2>2 DEF IInv, Holds
  <2>10. \A j \in Item : (item[j].quoted => item'[j].quoted) /\ (item[j].known => item'[j].known)
    BY <2>4, <2>5, <2>6
  <2>11. SeenFits'
    <3> SUFFICES ASSUME NEW v \in Worker, pc'[v] # "idle"
                 PROVE  /\ pc'[v] \in Before => seen[v].state \notin {"cancelled", "failed"}
                        /\ pc'[v] = "quote" => seen[v].state = "queued" /\ ~seen[v].known
                        /\ pc'[v] \in {"create", "store"} =>
                             seen[v].state = "creating" /\ seen[v].quoted /\ ~seen[v].known
                                                        /\ item'[hold[v]].quoted
                        /\ pc'[v] \in {"read", "settle"} \cup Funding =>
                             seen[v].known /\ item'[hold[v]].known
      BY <2>1 DEF SeenFits, Before, Funding
    <3>1. CASE v = w
      BY <1>1, <2>2, <2>10, <3>1 DEF Before, Funding
    <3>2. CASE v # w
      <4>1. pc'[v] = pc[v] /\ hold[v] \in Item
        BY <2>2, <3>2 DEF IInv, Holds
      <4> QED
        BY <2>10, <4>1 DEF IInv, SeenFits
    <3> QED
      BY <3>1, <3>2
  <2>12. OwnerKnows' /\ ReplyFits'
    <3> SUFFICES ASSUME NEW v \in Worker, pc'[v] \in Before \cup {"record"}
                 PROVE  /\ pc'[v] \in Before /\ item'[hold[v]].own = v =>
                             /\ item'[hold[v]].state = seen[v].state
                             /\ item'[hold[v]].quoted = seen[v].quoted
                             /\ item'[hold[v]].known = seen[v].known
                        /\ pc'[v] = "settle" /\ reply[v] \in Over => wise'[hold[v]] = reply[v]
                        /\ pc'[v] = "record" => reply[v] \in Answer
      BY <2>1 DEF OwnerKnows, Owns, ReplyFits, Before
    <3>1. v # w /\ pc'[v] = pc[v] /\ pc[v] # "idle"
      BY <2>2 DEF Before
    <3>2. hold[v] \in Item
      BY <3>1 DEF IInv, Holds
    <3>3. item'[hold[v]] = item[hold[v]] \/ item'[hold[v]].own = None
      BY <2>4, <2>5, <3>2
    <3> QED
      BY <1>3, <3>1, <3>2, <3>3, Bounds DEF IInv, OwnerKnows, Owns, ReplyFits, WiseGoesOn
  <2>13. FundingIsAlone'
    <3> SUFFICES ASSUME NEW v \in Worker, pc'[v] \in Funding
                 PROVE  /\ item'[hold[v]].state # "creating"
                        /\ pc'[v] = "fund" \/ reply[v] # "accepted" => asked[hold[v]] = 0
                        /\ \A u \in Worker : pc'[u] \in Funding /\ hold[u] = hold[v] => u = v
      BY <1>3, <2>1 DEF FundingIsAlone
    <3>1. CASE v = w
      BY <2>2, <2>4, <2>5, <2>7, <3>1
    <3>2. CASE v # w
      <4>1. pc'[v] = pc[v] /\ hold[v] \in Item /\ hold[v] # i
        BY <2>2, <2>7, <3>2 DEF IInv, Holds, Funding
      <4> QED
        BY <2>2, <2>4, <4>1 DEF IInv, FundingIsAlone
    <3> QED
      BY <3>1, <3>2
  <2> QED
    BY <2>3, <2>8, <2>9, <2>11, <2>12, <2>13 DEF IInv
<1> QED
  BY <1>4, <1>5


\* A pass that goes, or asks Wise for the money and waits for its answer.
LEMMA LeaveKeeps ==
  ASSUME IInv, TypeOK', NEW w \in Worker, Others(w), UNCHANGED <<run, item>>, WiseGoesOn,
         pc'[w] \in {"idle", "record"}, pc[w] # "idle",
         asked' = asked \/ (pc[w] = "fund" /\ asked' = [asked EXCEPT ![hold[w]] = @ + 1]),
         pc'[w] = "record" => /\ pc[w] = "fund" /\ hold'[w] = hold[w] /\ seen'[w] = seen[w]
                              /\ reply'[w] \in Answer
                              /\ reply'[w] # "accepted" => asked' = asked
  PROVE  IInv'
<1>1. hold[w] \in Item
  BY DEF IInv, Holds
<1>2. pc[w] = "fund" => /\ asked[hold[w]] = 0 /\ item[hold[w]].known
                        /\ item[hold[w]].state # "creating"
  BY DEF IInv, FundingIsAlone, SeenFits, Funding
<1>3. \A j \in Item : asked'[j] = asked[j]
                      \/ (pc[w] = "fund" /\ j = hold[w] /\ asked'[j] = 1)
  BY <1>1, <1>2, Types
<1>4. ItemFits'
  BY <1>2, <1>3 DEF IInv, ItemFits, WiseGoesOn
<1>5. \A v \in Worker \ {w} :
        /\ pc'[v] = pc[v] /\ hold'[v] = hold[v] /\ seen'[v] = seen[v] /\ reply'[v] = reply[v]
        /\ pc[v] # "idle" => hold[v] \in Item
  BY DEF Others, IInv, Holds
<1>6. Holds' /\ SeenFits'
  BY <1>1, <1>5 DEF IInv, Holds, SeenFits, Before, Funding
<1>7. OwnerKnows' /\ ReplyFits'
  BY <1>1, <1>5 DEF IInv, OwnerKnows, Owns, ReplyFits, WiseGoesOn, Before
<1>8. FundingIsAlone'
  <2> SUFFICES ASSUME NEW v \in Worker, pc'[v] \in Funding
               PROVE  /\ item[hold'[v]].state # "creating"
                      /\ pc'[v] = "fund" \/ reply'[v] # "accepted" => asked'[hold'[v]] = 0
                      /\ \A u \in Worker : pc'[u] \in Funding /\ hold'[u] = hold'[v] => u = v
    BY DEF FundingIsAlone
  <2>1. \A u \in Worker : pc'[u] \in Funding =>
          /\ pc[u] \in Funding /\ hold'[u] = hold[u] /\ pc[u] # "idle"
    BY <1>5 DEF Funding
  <2>2. /\ item[hold[v]].state # "creating"
        /\ \A u \in Worker : pc'[u] \in Funding /\ hold'[u] = hold'[v] => u = v
    BY <2>1 DEF IInv, FundingIsAlone
  <2>3. CASE v = w
    BY <1>2, <2>1, <2>2, <2>3 DEF Funding
  <2>4. CASE v # w
    <3>1. /\ hold[v] \in Item /\ pc'[v] = pc[v] /\ reply'[v] = reply[v] /\ pc[v] \in Funding
      BY <1>5, <2>1, <2>4
    <3>2. pc[w] = "fund" => hold[v] # hold[w]
      BY <2>4, <3>1 DEF IInv, FundingIsAlone, Funding
    <3>3. asked'[hold[v]] = asked[hold[v]]
      BY <1>3, <3>1, <3>2
    <3> QED
      BY <2>1, <2>2, <3>1, <3>3 DEF IInv, FundingIsAlone
  <2> QED
    BY <2>3, <2>4
<1> QED
  BY <1>4, <1>6, <1>7, <1>8 DEF IInv

LEMMA AskTypes ==
  ASSUME IInv, NEW w \in Worker, pc[w] # "idle"
  PROVE  [asked EXCEPT ![hold[w]] = @ + 1] \in [Item -> Nat]
<1>1. hold[w] \in Item
  BY DEF IInv, Holds
<1> QED
  BY <1>1, Types

LEMMA FundKeeps == ASSUME IInv, NEW w \in Worker, Fund(w) PROVE IInv'
<1>1. /\ pc[w] = "fund" /\ pc' = [pc EXCEPT ![w] = "record"]
      /\ UNCHANGED <<runs, item, register, wise, hold, seen>>
      /\ asked' = asked \/ asked' = [asked EXCEPT ![hold[w]] = @ + 1]
      /\ faults' = faults \/ faults' = faults + 1
  BY DEF Fund, Goto, Ask
<1>2. PICK a \in Answer : /\ reply' = [reply EXCEPT ![w] = a]
                          /\ a # "accepted" => asked' = asked
  BY DEF Fund, Answer
<1>3. /\ pc'[w] = "record" /\ reply'[w] = a /\ Others(w)
      /\ pc' \in [Worker -> Place] /\ reply' \in [Worker -> Transfer \cup Answer \cup {None}]
  BY <1>1, <1>2, Types DEF Others, Place
<1>4. TypeOK'
  BY <1>1, <1>3, AskTypes, PassType, Types DEF runs
<1>5. WiseGoesOn /\ UNCHANGED <<run, item>>
  BY <1>1 DEF WiseGoesOn, runs
<1> QED
  BY <1>1, <1>2, <1>3, <1>4, <1>5, LeaveKeeps

LEMMA GoneKeeps == ASSUME IInv, NEW w \in Worker, FundLost(w) \/ Stop(w) PROVE IInv'
<1>1. /\ pc[w] # "idle" /\ Release(w) /\ UNCHANGED <<runs, item, register>>
      /\ asked' = asked \/ (pc[w] = "fund" /\ asked' = [asked EXCEPT ![hold[w]] = @ + 1])
      /\ faults' = faults + 1
      /\ wise' = wise \/ (pc[w] = "create" /\ wise' = Created(hold[w]))
  BY DEF FundLost, Stop, Ask
<1>2. wise' \in [Item -> Transfer] /\ WiseGoesOn
  BY <1>1, CreateGoesOn
<1>3. TypeOK'
  BY <1>1, <1>2, AskTypes, ForgetMeans, PassType, Types DEF runs
<1>4. pc'[w] = "idle"
  BY <1>1, Types DEF Release, Forget, Goto
<1>5. UNCHANGED <<run, item>>
  BY <1>1 DEF runs
<1> QED
  BY <1>1, <1>2, <1>3, <1>4, <1>5, ForgetMeans, LeaveKeeps

LEMMA SelectKeeps == ASSUME IInv, NEW w \in Worker, NEW i \in Item, Select(w, i) PROVE IInv'
<1>1. /\ pc' = [pc EXCEPT ![w] = "claim"] /\ hold' = [hold EXCEPT ![w] = i]
      /\ run[RunOf[i]] = "approved" /\ UNCHANGED <<runs, item, register, bank, seen, reply, faults>>
  BY DEF Select, Due, Goto
<1>2. /\ pc'[w] = "claim" /\ hold'[w] = i
      /\ \A v \in Worker \ {w} : pc'[v] = pc[v] /\ hold'[v] = hold[v]
      /\ pc' \in [Worker -> Place] /\ hold' \in [Worker -> Item \cup {None}]
  BY <1>1, Types DEF Place
<1>3. TypeOK'
  BY <1>1, <1>2, PassType, Types DEF runs, bank
<1>4. ItemFits' /\ Holds' /\ SeenFits'
  BY <1>1, <1>2 DEF IInv, ItemFits, Holds, SeenFits, Before, Funding, Begun, runs, bank
<1>5. OwnerKnows' /\ ReplyFits' /\ FundingIsAlone'
  BY <1>1, <1>2 DEF IInv, OwnerKnows, Owns, ReplyFits, FundingIsAlone, Before, Funding, bank
<1> QED
  BY <1>3, <1>4, <1>5 DEF IInv


LEMMA ClaimKeeps == ASSUME IInv, NEW w \in Worker, Claim(w) PROVE IInv'
<1> DEFINE i == hold[w]
           row == Claimed(item[i], w)
<1>1. /\ pc[w] = "claim" /\ pc[w] # "idle" /\ i \in Item /\ run[RunOf[i]] \in Begun
      /\ UNCHANGED <<runs, register, bank, faults>> /\ UNCHANGED <<run, wise, asked>>
  BY DEF Claim, IInv, Holds, runs, bank
<1>2. CASE item' = item /\ Release(w)
  <2>1. TypeOK'
    BY <1>1, <1>2, ForgetMeans, PassType, Types DEF runs, bank
  <2>2. pc'[w] = "idle"
    BY <1>2, Types DEF Release, Forget, Goto
  <2>3. WiseGoesOn
    BY <1>1 DEF WiseGoesOn
  <2> QED
    BY <1>1, <1>2, <2>1, <2>2, <2>3, ForgetMeans, LeaveKeeps
<1>3. CASE /\ item[i].state \notin {"cancelled", "failed"}
           /\ item' = [item EXCEPT ![i] = row]
  <2>1. /\ row \in Row /\ row.state = item[i].state /\ row.quoted = item[i].quoted
        /\ row.known = item[i].known /\ row.own = w
    BY <1>1, Types, ClaimedRow
  <2>2. item'[i] = row /\ \A j \in Item \ {i} : item'[j] = item[j]
    BY <1>1, <1>3, Types
  <2>3. item' \in [Item -> Row]
    BY <1>1, <1>3, <2>1, Types
  <2> HIDE DEF row
  <2>4. \/ Release(w) /\ Others(w) /\ pc'[w] = "idle"
        \/ /\ Others(w) /\ pc'[w] = Work(row) /\ hold' = hold /\ seen'[w] = row
           /\ pc' \in [Worker -> Place] /\ seen' \in [Worker -> Row] /\ reply' = reply
           /\ Work(row) # "idle"
    <3>1. CASE Release(w)
      <4>1. pc'[w] = "idle"
        BY <3>1, Types DEF Release, Forget, Goto
      <4> QED
        BY <3>1, <4>1, ForgetMeans
    <3>2. CASE ~Release(w)
      <4>1. Work(row) \in Place
        BY DEF Work, Place
      <4>2. /\ seen' = [seen EXCEPT ![w] = row] /\ pc' = [pc EXCEPT ![w] = Work(row)]
            /\ hold' = hold /\ reply' = reply /\ Work(row) # "idle"
        BY <2>2, <3>2 DEF Claim, Goto
      <4> QED
        BY <2>1, <4>1, <4>2, Types DEF Others
    <3> QED
      BY <3>1, <3>2
  <2>5. TypeOK'
    BY <1>1, <2>3, <2>4, ForgetMeans, PassType, Types DEF runs, bank
  <2>6. \A j \in Item : /\ item'[j].state = item[j].state /\ item'[j].quoted = item[j].quoted
                        /\ item'[j].known = item[j].known
                        /\ item'[j].own = item[j].own \/ (j = i /\ item'[j].own = w)
    BY <2>1, <2>2
  <2>7. ItemFits'
    BY <1>1, <2>6 DEF IInv, ItemFits
  <2>8. \A v \in Worker \ {w} :
          /\ pc'[v] = pc[v] /\ hold'[v] = hold[v] /\ seen'[v] = seen[v] /\ reply'[v] = reply[v]
          /\ pc[v] # "idle" => hold[v] \in Item
    BY <2>4 DEF Others, IInv, Holds
  <2>9. pc'[w] # "idle" => /\ pc'[w] = Work(row) /\ hold'[w] = i /\ seen'[w] = row
                           /\ pc'[w] \in {"read", "quote", "create"}
    BY <2>4 DEF Work
  <2>10. Holds'
    BY <1>1, <2>8, <2>9 DEF IInv, Holds
  <2>11. /\ pc'[w] = "read" => row.known
         /\ pc'[w] = "quote" => row.state = "queued" /\ ~row.known
         /\ pc'[w] = "create" => row.state = "creating" /\ row.quoted /\ ~row.known
    BY <2>9 DEF Work
  <2>12. SeenFits'
    <3> SUFFICES ASSUME NEW v \in Worker, pc'[v] # "idle"
                 PROVE  /\ pc'[v] \in Before => seen'[v].state \notin {"cancelled", "failed"}
                        /\ pc'[v] = "quote" => seen'[v].state = "queued" /\ ~seen'[v].known
                        /\ pc'[v] \in {"create", "store"} =>
                             seen'[v].state = "creating" /\ seen'[v].quoted /\ ~seen'[v].known
                                                         /\ item'[hold'[v]].quoted
                        /\ pc'[v] \in {"read", "settle"} \cup Funding =>
                             seen'[v].known /\ item'[hold'[v]].known
      BY DEF SeenFits, Before, Funding
    <3>1. CASE v = w
      BY <1>3, <2>1, <2>2, <2>9, <2>11, <3>1 DEF Before, Funding
    <3>2. CASE v # w
      BY <2>6, <2>8, <3>2 DEF IInv, SeenFits
    <3> QED
      BY <3>1, <3>2
  <2>13. OwnerKnows' /\ ReplyFits'
    <3> SUFFICES ASSUME NEW v \in Worker, pc'[v] # "idle"
                 PROVE  /\ pc'[v] \in Before /\ item'[hold'[v]].own = v =>
                             /\ item'[hold'[v]].state = seen'[v].state
                             /\ item'[hold'[v]].quoted = seen'[v].quoted
                             /\ item'[hold'[v]].known = seen'[v].known
                        /\ pc'[v] = "settle" /\ reply'[v] \in Over => wise'[hold'[v]] = reply'[v]
                        /\ pc'[v] = "record" => reply'[v] \in Answer
      BY DEF OwnerKnows, Owns, ReplyFits, Before
    <3>1. CASE v = w
      BY <2>2, <2>9, <3>1
    <3>2. CASE v # w
      BY <1>1, <2>6, <2>8, <3>2 DEF IInv, OwnerKnows, Owns, ReplyFits
    <3> QED
      BY <3>1, <3>2
  <2>14. FundingIsAlone'
    <3>1. \A v \in Worker : pc'[v] \in Funding =>
            /\ pc[v] \in Funding /\ pc'[v] = pc[v] /\ hold'[v] = hold[v] /\ reply'[v] = reply[v]
            /\ hold[v] \in Item
      BY <2>8, <2>9 DEF Funding
    <3> QED
      BY <1>1, <2>6, <3>1 DEF IInv, FundingIsAlone
  <2> QED
    BY <2>5, <2>7, <2>10, <2>12, <2>13, <2>14 DEF IInv
<1> QED
  BY <1>2, <1>3 DEF Claim

LEMMA RecordKeeps == ASSUME IInv, NEW w \in Worker, Record(w) PROVE IInv'
<1> DEFINE i == hold[w]
           row == [item[i] EXCEPT !.state = Outcome(reply[w]), !.own = None]
<1>1. /\ pc[w] = "record" /\ pc[w] # "idle" /\ pc[w] \in Funding /\ i \in Item
      /\ run[RunOf[i]] \in Begun /\ Release(w) /\ item[i].known /\ reply[w] \in Answer
      /\ UNCHANGED <<runs, register, bank, faults>> /\ UNCHANGED <<run, wise, asked>>
  BY DEF Record, IInv, Holds, SeenFits, ReplyFits, Funding, runs, bank
<1>2. pc'[w] = "idle"
  BY <1>1, Types DEF Release, Forget, Goto
<1>3. WiseGoesOn
  BY <1>1 DEF WiseGoesOn
<1>4. CASE item' = item
  <2>1. TypeOK'
    BY <1>1, <1>4, ForgetMeans, PassType, Types DEF runs, bank
  <2> QED
    BY <1>1, <1>2, <1>3, <1>4, <2>1, ForgetMeans, LeaveKeeps
<1>5. CASE item[i].state = "funding" /\ item' = [item EXCEPT ![i] = row]
  <2>1. /\ Outcome(reply[w]) \in {"processing", "attention", "creating"}
        /\ Outcome(reply[w]) = "creating" => reply[w] # "accepted"
    BY <1>1 DEF Outcome, Answer
  <2>2. /\ row \in Row /\ row.state \in {"processing", "attention", "creating"}
        /\ row.state = "creating" => asked[i] = 0
        /\ row.quoted = item[i].quoted /\ row.known = item[i].known /\ row.own = None
    <3>1. Outcome(reply[w]) \in State
      BY <2>1 DEF State
    <3>2. /\ row \in Row /\ row.state = Outcome(reply[w])
          /\ row.quoted = item[i].quoted /\ row.known = item[i].known /\ row.own = None
      <4>1. item[i] \in Row
        BY <1>1, Types
      <4> QED
        BY <3>1, <4>1, MovedRow
    <3> HIDE DEF row
    <3> QED
      BY <1>1, <2>1, <3>2 DEF IInv, FundingIsAlone
  <2>3. item'[i] = row /\ \A j \in Item \ {i} : item'[j] = item[j]
    BY <1>1, <1>5, Types
  <2>4. item' \in [Item -> Row]
    BY <1>1, <1>5, <2>2, Types
  <2> HIDE DEF row
  <2>5. TypeOK'
    BY <1>1, <2>4, ForgetMeans, PassType, Types DEF runs, bank
  <2>6. item[i].quoted
    BY <1>1 DEF IInv, ItemFits
  <2>7. ItemFits'
    <3> SUFFICES ASSUME NEW j \in Item
                 PROVE  /\ run[RunOf[j]] \notin Begun => item'[j].state \in {"draft", "cancelled"}
                        /\ item'[j].state \in {"draft", "queued", "cancelled"} => ~item'[j].quoted
                        /\ ~item'[j].quoted => ~item'[j].known /\ wise[j] = "none"
                        /\ ~item'[j].known => asked[j] = 0
                        /\ item'[j].state = "failed" => wise[j] \in Over
                        /\ asked[j] = 0 \/ asked[j] = 1
                        /\ asked[j] = 1 => item'[j].state # "creating"
      BY <1>1 DEF ItemFits
    <3>1. CASE j # i
      BY <2>3, <3>1 DEF IInv, ItemFits
    <3>2. CASE j = i
      <4>1. asked[i] = 0 \/ asked[i] = 1
        BY <1>1 DEF IInv, ItemFits
      <4>2. item'[i].quoted /\ item'[i].known
        BY <1>1, <2>2, <2>3, <2>6
      <4>3. /\ item'[i].state \in {"processing", "attention", "creating"}
            /\ item'[i].state = "creating" => asked[i] = 0
        BY <2>2, <2>3
      <4> QED
        BY <1>1, <3>2, <4>1, <4>2, <4>3
    <3> QED
      BY <3>1, <3>2
  <2>8. \A v \in Worker : pc'[v] # "idle" =>
          /\ v # w /\ pc'[v] = pc[v] /\ hold'[v] = hold[v] /\ seen'[v] = seen[v]
          /\ reply'[v] = reply[v] /\ pc[v] # "idle" /\ hold[v] \in Item
    BY <1>1, <1>2, ForgetMeans DEF Others, IInv, Holds
  <2>9. Holds'
    BY <1>1, <2>8 DEF IInv, Holds
  <2>10. \A j \in Item : /\ item'[j].quoted = item[j].quoted /\ item'[j].known = item[j].known
                         /\ item'[j] = item[j] \/ (j = i /\ item'[j].own = None)
    BY <2>2, <2>3
  <2>11. SeenFits'
    BY <2>8, <2>10 DEF IInv, SeenFits, Before, Funding
  <2>12. OwnerKnows' /\ ReplyFits'
    <3> SUFFICES ASSUME NEW v \in Worker, pc'[v] # "idle"
                 PROVE  /\ pc'[v] \in Before /\ item'[hold'[v]].own = v =>
                             /\ item'[hold'[v]].state = seen'[v].state
                             /\ item'[hold'[v]].quoted = seen'[v].quoted
                             /\ item'[hold'[v]].known = seen'[v].known
                        /\ pc'[v] = "settle" /\ reply'[v] \in Over => wise[hold'[v]] = reply'[v]
                        /\ pc'[v] = "record" => reply'[v] \in Answer
      BY <1>1 DEF OwnerKnows, Owns, ReplyFits, Before
    <3> QED
      BY <2>8, <2>10, Bounds DEF IInv, OwnerKnows, Owns, ReplyFits
  <2>13. FundingIsAlone'
    <3> SUFFICES ASSUME NEW v \in Worker, pc'[v] \in Funding
                 PROVE  /\ item'[hold'[v]].state # "creating"
                        /\ pc'[v] = "fund" \/ reply'[v] # "accepted" => asked[hold'[v]] = 0
                        /\ \A u \in Worker : pc'[u] \in Funding /\ hold'[u] = hold'[v] => u = v
      BY <1>1 DEF FundingIsAlone
    <3>1. \A u \in Worker : pc'[u] \in Funding =>
            /\ u # w /\ pc'[u] = pc[u] /\ hold'[u] = hold[u] /\ reply'[u] = reply[u]
            /\ hold[u] \in Item /\ pc[u] \in Funding
      BY <2>8 DEF Funding
    <3>2. hold[v] # i
      BY <1>1, <3>1 DEF IInv, FundingIsAlone
    <3>3. item'[hold[v]] = item[hold[v]]
      BY <2>3, <3>1, <3>2
    <3> QED
      BY <3>1, <3>3 DEF IInv, FundingIsAlone
  <2> QED
    BY <2>5, <2>7, <2>9, <2>11, <2>12, <2>13 DEF IInv
<1>6. item' = item \/ (item[i].state = "funding" /\ item' = [item EXCEPT ![i] = row])
  BY DEF Record
<1> QED
  BY <1>4, <1>5, <1>6


----------------------------------------------------------------------------
(* Administrators, the register, Wise and the clock *)

LEMMA CancelRow ==
  ASSUME NEW r \in Row
  PROVE  LET q == [r EXCEPT !.state = "cancelled", !.own = None, !.leased = FALSE] IN
         /\ q \in Row /\ q.state = "cancelled" /\ q.quoted = r.quoted /\ q.known = r.known
         /\ q.own = None
BY DEF Row, State

LEMMA LeaseRow ==
  ASSUME NEW r \in Row
  PROVE  LET q == [r EXCEPT !.leased = FALSE] IN q \in Row /\ Alike(q, r)
BY DEF Row, Alike

\* The types after a step of nobody's pass.
LEMMA OutsideType ==
  ASSUME IInv, UNCHANGED <<asked, pass>>,
         run' \in [Run -> {"none", "draft", "approved", "cancelled"}],
         cancelling' \subseteq Run, stale' \subseteq Item, item' \in [Item -> Row],
         owed' \in [Account -> Nat], manual' \in [Account -> Nat],
         wise' \in [Item -> Transfer], faults' \in Nat
  PROVE  TypeOK'
BY DEF IInv, TypeOK, pass

LEMMA TypesOutside ==
  ASSUME IInv
  PROVE  /\ run \in [Run -> {"none", "draft", "approved", "cancelled"}]
         /\ cancelling \subseteq Run /\ owed \in [Account -> Nat] /\ manual \in [Account -> Nat]
BY DEF IInv, TypeOK

LEMMA AdministratorKeeps ==
  ASSUME IInv, NEW r \in Run, Administrator(r) PROVE IInv'
<1>1. /\ UNCHANGED <<register, bank, pass, faults>> /\ UNCHANGED <<owed, manual, wise, asked, faults>>
      /\ WiseGoesOn
  BY DEF Administrator, Preview, Approve, Cancel, CancelRun, register, bank, WiseGoesOn
<1>2. CASE Preview(r)
  <2>1. /\ run[r] = "none" /\ run' = [run EXCEPT ![r] = "draft"] /\ stale' \subseteq Item
        /\ cancelling' = cancelling /\ item' = item
    BY <1>2, Types DEF Preview
  <2>2. run' \in [Run -> {"none", "draft", "approved", "cancelled"}]
    BY <2>1, TypesOutside
  <2>3. TypeOK'
    BY <1>1, <2>1, <2>2, OutsideType, Types, TypesOutside
  <2>4. \A q \in Run : run[q] \in Begun <=> run'[q] \in Begun
    BY <2>1, TypesOutside DEF Begun
  <2>5. \A i \in Item : Alike(item'[i], item[i])
    BY <2>1 DEF Alike
  <2>6. \A i \in Item : run'[RunOf[i]] \notin Begun => item'[i].state \in {"draft", "cancelled"}
    BY <2>1, <2>4, Bounds DEF IInv, ItemFits
  <2> QED
    BY <1>1, <2>3, <2>4, <2>5, <2>6, OutsideKeeps
<1>3. CASE Approve(r)
  <2> DEFINE queued(i) == [item[i] EXCEPT !.state = "queued", !.own = None]
  <2>1. /\ run[r] = "draft" /\ run' = [run EXCEPT ![r] = "approved"] /\ stale' \subseteq Item
        /\ cancelling' = cancelling
        /\ item' = [i \in Item |-> IF i \in ItemsOf(r) THEN queued(i) ELSE item[i]]
    BY <1>3, Types DEF Approve
  <2>2. run' \in [Run -> {"none", "draft", "approved", "cancelled"}]
    BY <2>1, TypesOutside
  <2>3. \A i \in Item : /\ item[i] \in Row /\ queued(i) \in Row /\ queued(i).state = "queued"
                        /\ queued(i).quoted = item[i].quoted /\ queued(i).known = item[i].known
                        /\ queued(i).own = None
    <3>1. "queued" \in State
      BY DEF State
    <3> TAKE i \in Item
    <3>2. item[i] \in Row
      BY Types
    <3> QED
      BY <3>1, <3>2, MovedRow
  <2>4. /\ item' \in [Item -> Row]
        /\ \A i \in ItemsOf(r) : item'[i] = queued(i)
        /\ \A i \in Item \ ItemsOf(r) : item'[i] = item[i]
    BY <2>1, <2>3 DEF ItemsOf
  <2> HIDE DEF queued
  <2>5. TypeOK'
    BY <1>1, <2>1, <2>2, <2>4, OutsideType, Types, TypesOutside
  <2>6. /\ \A q \in Run : q # r => run'[q] = run[q]
        /\ run[r] \notin Begun /\ run'[r] \in Begun
    BY <2>1, TypesOutside DEF Begun
  <2>7. \A i \in ItemsOf(r) : ~item[i].quoted
    BY <2>6 DEF IInv, ItemFits, ItemsOf
  <2>8. ASSUME NEW i \in Item
        PROVE  Alike(item'[i], item[i]) \/
                 /\ item'[i].quoted = item[i].quoted /\ item'[i].known = item[i].known
                 /\ item'[i].state \in {"draft", "queued", "cancelled"} => ~item[i].quoted
                 /\ item'[i].state # "failed"
                 /\ item'[i].state = "creating" => ~item[i].known
                 /\ \/ item'[i].own = None
                    \/ ~item[i].known /\ item[i].own = item'[i].own /\ item[i].state = "attention"
    <3>1. CASE i \in ItemsOf(r)
      BY <2>3, <2>4, <2>7, <3>1
    <3>2. CASE i \notin ItemsOf(r)
      BY <2>4, <3>2 DEF Alike
    <3> QED
      BY <3>1, <3>2
  <2>9. ASSUME NEW i \in Item, run'[RunOf[i]] \notin Begun
        PROVE  item'[i].state \in {"draft", "cancelled"}
    <3>1. i \notin ItemsOf(r) /\ run[RunOf[i]] \notin Begun
      BY <2>6, <2>9, Bounds DEF ItemsOf
    <3> QED
      BY <2>4, <3>1 DEF IInv, ItemFits
  <2>10. \A q \in Run : run[q] \in Begun => run'[q] \in Begun
    BY <2>6
  <2> QED
    BY <1>1, <2>5, <2>8, <2>9, <2>10, OutsideKeeps
<1>4. CASE Cancel(r)
  <2> DEFINE gone(i) == [item[i] EXCEPT !.state = "cancelled", !.own = None, !.leased = FALSE]
  <2>1. /\ run' = run /\ stale' = stale /\ cancelling' \subseteq Run
        /\ item' = [i \in Item |-> IF i \in ItemsOf(r) /\ Cancellable(i) THEN gone(i) ELSE item[i]]
    BY <1>4, TypesOutside DEF Cancel
  <2>2. \A i \in Item : /\ item[i] \in Row /\ gone(i) \in Row /\ gone(i).state = "cancelled"
                        /\ gone(i).quoted = item[i].quoted /\ gone(i).known = item[i].known
                        /\ gone(i).own = None
    BY Types, CancelRow
  <2>3. /\ item' \in [Item -> Row]
        /\ \A i \in Item : item'[i] = item[i] \/ (Cancellable(i) /\ item'[i] = gone(i))
    BY <2>1, <2>2
  <2> HIDE DEF gone
  <2>4. TypeOK'
    BY <1>1, <2>1, <2>3, OutsideType, Types, TypesOutside
  <2>5. \A i \in Item : Cancellable(i) => ~item[i].quoted
    BY DEF Cancellable, IInv, ItemFits
  <2>6. ASSUME NEW i \in Item
        PROVE  Alike(item'[i], item[i]) \/
                 /\ item'[i].quoted = item[i].quoted /\ item'[i].known = item[i].known
                 /\ item'[i].state \in {"draft", "queued", "cancelled"} => ~item[i].quoted
                 /\ item'[i].state # "failed"
                 /\ item'[i].state = "creating" => ~item[i].known
                 /\ \/ item'[i].own = None
                    \/ ~item[i].known /\ item[i].own = item'[i].own /\ item[i].state = "attention"
    <3>1. CASE item'[i] = item[i]
      BY <3>1 DEF Alike
    <3>2. CASE Cancellable(i) /\ item'[i] = gone(i)
      BY <2>2, <2>5, <3>2
    <3> QED
      BY <2>3, <3>1, <3>2
  <2>7. \A i \in Item : run'[RunOf[i]] \notin Begun => item'[i].state \in {"draft", "cancelled"}
    BY <2>1, <2>2, <2>3 DEF IInv, ItemFits
  <2> QED
    BY <1>1, <2>1, <2>4, <2>6, <2>7, OutsideKeeps
<1>5. CASE CancelRun(r)
  <2>1. /\ run' = run \/ run' = [run EXCEPT ![r] = "cancelled"]
        /\ stale' = stale /\ cancelling' \subseteq Run /\ item' = item
    BY <1>5, TypesOutside DEF CancelRun
  <2>2. run' \in [Run -> {"none", "draft", "approved", "cancelled"}]
    BY <2>1, TypesOutside
  <2>3. TypeOK'
    BY <1>1, <2>1, <2>2, OutsideType, Types, TypesOutside
  <2>4. \A q \in Run : run[q] \in Begun => run'[q] \in Begun
    BY <2>1, TypesOutside DEF Begun
  <2>5. \A i \in Item : Alike(item'[i], item[i])
    BY <2>1 DEF Alike
  <2>6. \A i \in Item : run'[RunOf[i]] \notin Begun => item'[i].state \in {"draft", "cancelled"}
    BY <2>1, <2>4, Bounds DEF IInv, ItemFits
  <2> QED
    BY <1>1, <2>3, <2>4, <2>5, <2>6, OutsideKeeps
<1> QED
  BY <1>2, <1>3, <1>4, <1>5 DEF Administrator

LEMMA RegisterKeeps ==
  ASSUME IInv, NEW a \in Account, PayByHand(a) \/ Revise(a) PROVE IInv'
<1>1. /\ UNCHANGED <<run, cancelling, item, bank, pass, faults>> /\ UNCHANGED <<wise, asked>>
      /\ WiseGoesOn /\ stale' \subseteq Item
  BY Types DEF PayByHand, Revise, bank, WiseGoesOn, Entered, InState
<1>2. manual' \in [Account -> Nat] /\ owed' \in [Account -> Nat]
  BY TypesOutside, Bounds DEF PayByHand, Revise
<1>3. TypeOK'
  BY <1>1, <1>2, OutsideType, Types, TypesOutside
<1>4. \A i \in Item : Alike(item'[i], item[i])
  BY <1>1 DEF Alike
<1>5. \A i \in Item : run'[RunOf[i]] \notin Begun => item'[i].state \in {"draft", "cancelled"}
  BY <1>1 DEF IInv, ItemFits
<1> QED
  BY <1>1, <1>3, <1>4, <1>5, OutsideKeeps

LEMMA RetryKeeps == ASSUME IInv, NEW i \in Item, Retry(i) PROVE IInv'
<1> DEFINE row == [item[i] EXCEPT !.state = "creating"]
<1>1. /\ UNCHANGED <<runs, register, bank, pass, faults>>
      /\ UNCHANGED <<run, cancelling, stale, owed, manual, wise, asked>>
      /\ item[i].state = "attention" /\ item[i].quoted /\ ~item[i].known
      /\ item' = [item EXCEPT ![i] = row] /\ item[i] \in Row
  BY Types DEF Retry, runs, register, bank
<1>2. /\ row \in Row /\ row.state = "creating" /\ row.quoted = item[i].quoted
      /\ row.known = item[i].known /\ row.own = item[i].own
  <2>1. "creating" \in State
    BY DEF State
  <2> QED
    BY <1>1, <2>1, InStateRow
<1> HIDE DEF row
<1>3. /\ item' \in [Item -> Row] /\ item'[i] = row
      /\ \A j \in Item \ {i} : item'[j] = item[j]
  BY <1>1, <1>2, Types
<1>4. TypeOK'
  BY <1>1, <1>3, OutsideType, Types, TypesOutside
<1>5. ASSUME NEW j \in Item
      PROVE  Alike(item'[j], item[j]) \/
               /\ item'[j].quoted = item[j].quoted /\ item'[j].known = item[j].known
               /\ item'[j].state \in {"draft", "queued", "cancelled"} => ~item[j].quoted
               /\ item'[j].state # "failed"
               /\ item'[j].state = "creating" => ~item[j].known
               /\ \/ item'[j].own = None
                  \/ ~item[j].known /\ item[j].own = item'[j].own /\ item[j].state = "attention"
  <2>1. CASE j = i
    BY <1>1, <1>2, <1>3, <2>1
  <2>2. CASE j # i
    BY <1>3, <2>2 DEF Alike
  <2> QED
    BY <2>1, <2>2
<1>6. \A j \in Item : run'[RunOf[j]] \notin Begun => item'[j].state \in {"draft", "cancelled"}
  BY <1>1, <1>3 DEF IInv, ItemFits
<1>7. WiseGoesOn
  BY <1>1 DEF WiseGoesOn
<1> QED
  BY <1>1, <1>4, <1>5, <1>6, <1>7, OutsideKeeps

LEMMA ProceedKeeps == ASSUME IInv, NEW i \in Item, Proceed(i) PROVE IInv'
<1>1. PICK status \in After(wise[i]) : wise' = [wise EXCEPT ![i] = status]
  BY DEF Proceed
<1>2. /\ UNCHANGED <<runs, item, register, asked, pass, faults>>
      /\ UNCHANGED <<run, cancelling, stale, owed, manual>>
  BY DEF Proceed, runs, register
<1>3. status \in Transfer /\ wise[i] \notin Over \cup {"none"}
  BY DEF After, Over, Transfer
<1>4. wise' \in [Item -> Transfer] /\ WiseGoesOn
  BY <1>1, <1>3, Types DEF WiseGoesOn, IInv, ItemFits
<1>5. TypeOK'
  BY <1>2, <1>4, OutsideType, Types, TypesOutside
<1>6. \A j \in Item : Alike(item'[j], item[j])
  BY <1>2 DEF Alike
<1>7. \A j \in Item : run'[RunOf[j]] \notin Begun => item'[j].state \in {"draft", "cancelled"}
  BY <1>2 DEF IInv, ItemFits
<1> QED
  BY <1>2, <1>4, <1>5, <1>6, <1>7, OutsideKeeps

LEMMA LeaseOverKeeps == ASSUME IInv, NEW i \in Item, LeaseOver(i) PROVE IInv'
<1> DEFINE row == [item[i] EXCEPT !.leased = FALSE]
<1>1. /\ UNCHANGED <<runs, register, bank, pass>>
      /\ UNCHANGED <<run, cancelling, stale, owed, manual, wise, asked>>
      /\ item' = [item EXCEPT ![i] = row] /\ faults' \in Nat
  BY Types DEF LeaseOver, runs, register, bank
<1>2. row \in Row /\ Alike(row, item[i])
  BY Types, LeaseRow
<1> HIDE DEF row
<1>3. /\ item' \in [Item -> Row] /\ \A j \in Item : Alike(item'[j], item[j])
  BY <1>1, <1>2, Types DEF Alike
<1>4. TypeOK'
  BY <1>1, <1>3, OutsideType, Types, TypesOutside
<1>5. \A j \in Item : run'[RunOf[j]] \notin Begun => item'[j].state \in {"draft", "cancelled"}
  BY <1>1, <1>3 DEF IInv, ItemFits, Alike
<1>6. WiseGoesOn
  BY <1>1 DEF WiseGoesOn
<1> QED
  BY <1>1, <1>3, <1>4, <1>5, <1>6, OutsideKeeps


----------------------------------------------------------------------------
(* The theorems *)

LEMMA InitHolds == Init => IInv
<1> SUFFICES ASSUME Init PROVE IInv
  OBVIOUS
<1>1. TypeOK
  BY NewRowFits, Bounds DEF Init, TypeOK, Transfer
<1>2. \A i \in Item : /\ item[i].state = "draft" /\ item[i].quoted = FALSE
                      /\ item[i].known = FALSE /\ wise[i] = "none" /\ asked[i] = 0
  BY NewRowFits DEF Init
<1>3. ItemFits
  BY <1>2 DEF ItemFits
<1>4. \A w \in Worker : pc[w] = "idle"
  BY DEF Init
<1> QED
  BY <1>1, <1>3, <1>4
  DEF IInv, Holds, SeenFits, OwnerKnows, ReplyFits, FundingIsAlone, Before, Funding

LEMMA StepKeeps == ASSUME IInv, NEW w \in Worker, Step(w) PROVE IInv'
BY ClaimKeeps, QuoteKeeps, LookKeeps, StoreKeeps, SettleKeeps, MarkKeeps, FundKeeps,
   RecordKeeps DEF Step

LEMMA NextKeeps == IInv /\ [Next]_vars => IInv'
<1> SUFFICES ASSUME IInv, [Next]_vars PROVE IInv'
  OBVIOUS
<1>1. CASE UNCHANGED vars
  <2>1. /\ TypeOK' /\ ItemFits' /\ Holds'
    BY <1>1 DEF IInv, vars, runs, register, bank, pass, TypeOK, ItemFits, Holds
  <2>2. SeenFits' /\ OwnerKnows' /\ ReplyFits' /\ FundingIsAlone'
    BY <1>1 DEF IInv, vars, runs, register, bank, pass, SeenFits, OwnerKnows, Owns,
                ReplyFits, FundingIsAlone
  <2> QED
    BY <2>1, <2>2 DEF IInv
<1>2. CASE \E r \in Run : Administrator(r)
  BY <1>2, AdministratorKeeps
<1>3. CASE \E a \in Account : PayByHand(a) \/ Revise(a)
  BY <1>3, RegisterKeeps
<1>4. CASE \E i \in Item : Retry(i) \/ Proceed(i) \/ LeaseOver(i)
  BY <1>4, RetryKeeps, ProceedKeeps, LeaseOverKeeps
<1>5. CASE \E w \in Worker, i \in Item : Select(w, i)
  BY <1>5, SelectKeeps
<1>6. CASE \E w \in Worker : Step(w) \/ FundLost(w) \/ Throw(w) \/ Stop(w)
  BY <1>6, StepKeeps, GoneKeeps, ThrowKeeps
<1> QED
  BY <1>1, <1>2, <1>3, <1>4, <1>5, <1>6 DEF Next

LEMMA Invariant == Spec => []IInv
BY InitHolds, NextKeeps, PTL DEF Spec

\* Every variable keeps its type, the rows of payment_run_items among them.
THEOREM TypeCorrect == Spec => []TypeOK
<1>1. IInv => TypeOK
  BY DEF IInv
<1> QED
  BY <1>1, Invariant, PTL

\* However many passes work on an item, are interrupted, lose their answers or
\* outlive their leases: Wise takes at most one request to fund it.
THEOREM DebitedOnce == Spec => []FundedOnce
<1>1. IInv => FundedOnce
  BY DEF IInv, ItemFits, FundedOnce
<1> QED
  BY <1>1, Invariant, PTL

\* What an item has reserved is released only when no money can leave for it.
THEOREM ReleaseIsSafe == Spec => []ReleasedIsOver
<1>1. ASSUME IInv PROVE ReleasedIsOver
  BY <1>1 DEF IInv, ItemFits, ReleasedIsOver, Over
<1> QED
  BY <1>1, Invariant, PTL

\* Whom an update serves, and what it writes.
LEMMA UpdateMoves ==
  ASSUME IInv, NEW w \in Worker, pc[w] \in Before, NEW state \in State, Becomes(w, state),
         NEW i \in Item, item'[i].state # item[i].state
  PROVE  /\ i = hold[w] /\ item[i].state = seen[w].state /\ item'[i].state = state
<1> DEFINE row == [seen[w] EXCEPT !.state = state]
<1>1. hold[w] \in Item /\ seen[w] \in Row
  BY Types DEF IInv, Holds, Before
<1>2. row \in Row /\ row.state = state
  BY <1>1, InStateRow
<1>3. item' = IF Owns(w) THEN [item EXCEPT ![hold[w]] = Stored(row)] ELSE item
  BY DEF Becomes, Update, Stored
<1> HIDE DEF row
<1>4. Stored(row).state = state
  BY <1>2, StoredRow
<1>5. Owns(w) /\ i = hold[w]
  BY <1>1, <1>3, Types
<1> QED
  BY <1>1, <1>3, <1>4, <1>5, Types DEF IInv, OwnerKnows

Stands(i) ==
  /\ item[i].state = "paid" /\ item'[i].state # "paid" =>
       item'[i].state = "failed" /\ wise[i] = "refunded"
  /\ item[i].state = "failed" => item'[i].state = "failed"

LEMMA StepStands ==
  ASSUME IInv, [Next]_vars, NEW i \in Item PROVE Stands(i)
<1> SUFFICES ASSUME item'[i].state # item[i].state
             PROVE  /\ item[i].state # "failed"
                    /\ item[i].state = "paid" =>
                         item'[i].state = "failed" /\ wise[i] = "refunded"
  BY DEF Stands
<1>1. CASE \E r \in Run : Administrator(r)
  <2>1. PICK r \in Run : Administrator(r)
    BY <1>1
  <2>2. CASE Preview(r) \/ CancelRun(r)
    BY <2>2 DEF Preview, CancelRun
  <2>3. CASE Approve(r)
    <3>1. i \in ItemsOf(r)
      BY <2>3 DEF Approve
    <3>2. run[RunOf[i]] = "draft"
      BY <2>3, <3>1 DEF Approve, ItemsOf
    <3> QED
      BY <3>2 DEF IInv, ItemFits, Begun
  <2>4. CASE Cancel(r)
    <3>1. Cancellable(i)
      BY <2>4 DEF Cancel
    <3> QED
      BY <3>1 DEF Cancellable
  <2> QED
    BY <2>1, <2>2, <2>3, <2>4 DEF Administrator
<1>2. CASE \E a \in Account : PayByHand(a) \/ Revise(a)
  BY <1>2 DEF PayByHand, Revise
<1>3. CASE \E j \in Item : Retry(j) \/ Proceed(j) \/ LeaseOver(j)
  <2>1. PICK j \in Item : Retry(j) \/ Proceed(j) \/ LeaseOver(j)
    BY <1>3
  <2>2. CASE Proceed(j)
    BY <2>2 DEF Proceed
  <2>3. CASE Retry(j)
    <3>1. i = j /\ item[j].state = "attention"
      BY <2>3, Types DEF Retry
    <3> QED
      BY <3>1
  <2>4. CASE LeaseOver(j)
    <3>1. i = j /\ item'[j] = [item[j] EXCEPT !.leased = FALSE] /\ item[j] \in Row
      BY <2>4, Types DEF LeaseOver
    <3> QED
      BY <3>1, LeaseRow DEF Alike
  <2> QED
    BY <2>1, <2>2, <2>3, <2>4
<1>4. CASE \E w \in Worker, j \in Item : Select(w, j)
  BY <1>4 DEF Select
<1>5. CASE \E w \in Worker : Step(w) \/ FundLost(w) \/ Throw(w) \/ Stop(w)
  <2>1. PICK w \in Worker : Step(w) \/ FundLost(w) \/ Throw(w) \/ Stop(w)
    BY <1>5
  <2>2. CASE Create(w) \/ Read(w) \/ Fund(w) \/ FundLost(w) \/ Stop(w)
    BY <2>2 DEF Create, Read, Fund, FundLost, Stop
  <2>3. CASE Claim(w)
    <3>1. i = hold[w] /\ item'[i] = Claimed(item[i], w) /\ item[i] \in Row
      BY <2>3, Types DEF Claim
    <3> QED
      BY <3>1, ClaimedRow
  <2>4. CASE Record(w)
    <3>1. item[i].state = "funding"
      BY <2>4, Types DEF Record
    <3> QED
      BY <3>1
  <2>5. CASE Quote(w) \/ Store(w)
    <3>1. pc[w] \in Before /\ i = hold[w] /\ Owns(w)
      BY <2>5, Types DEF Quote, Store, Becomes, Update, Before
    <3>2. item[i].state \in {"queued", "creating"}
      BY <2>5, <3>1 DEF Quote, Store, IInv, SeenFits, OwnerKnows
    <3> QED
      BY <3>2
  <2>6. CASE Mark(w)
    <3>1. /\ pc[w] \in Before /\ "funding" \in State /\ Becomes(w, "funding")
          /\ seen[w].state = "creating"
      BY <2>6 DEF Mark, Fundable, Before, State
    <3>2. item[i].state = "creating"
      BY <3>1, UpdateMoves
    <3> QED
      BY <3>2
  <2>7. CASE Settle(w)
    <3>1. pc[w] \in Before /\ pc[w] = "settle" /\ Becomes(w, Verdict(w))
      BY <2>7 DEF Settle, Before
    <3>2. i = hold[w] /\ item[i].state = seen[w].state /\ item'[i].state = Verdict(w)
      BY <3>1, VerdictFits, UpdateMoves
    <3> QED
      BY <3>1, <3>2, VerdictFits DEF IInv, SeenFits
  <2>8. CASE Throw(w)
    <3>1. PICK state \in {seen[w].state, Interrupted(seen[w])} : Becomes(w, state)
      BY <2>8 DEF Throw
    <3>2. pc[w] \in Before /\ seen[w] \in Row
      BY <2>8, Types DEF Throw, Before
    <3>3. /\ state \in State
          /\ seen[w].state = "paid" => state = "paid"
      BY <3>1, <3>2 DEF Interrupted, Row, State
    <3>4. item[i].state = seen[w].state /\ item'[i].state = state
      BY <3>1, <3>2, <3>3, UpdateMoves
    <3> QED
      BY <3>2, <3>3, <3>4 DEF IInv, SeenFits
  <2> QED
    BY <2>1, <2>2, <2>3, <2>4, <2>5, <2>6, <2>7, <2>8 DEF Step
<1>6. CASE UNCHANGED vars
  BY <1>6 DEF vars
<1> QED
  BY <1>1, <1>2, <1>3, <1>4, <1>5, <1>6 DEF Next

\* A payment in the register leaves it with a refund of Wise and no other way.
THEOREM RecordsStand == Spec => RecordedStands
<1>1. ASSUME IInv, [Next]_vars
      PROVE  [\A i \in Item :
       /\ item[i].state = "paid" /\ item'[i].state # "paid" =>
            item'[i].state = "failed" /\ wise[i] = "refunded"
       /\ item[i].state = "failed" => item'[i].state = "failed"]_vars
  BY <1>1, StepStands DEF Stands
<1> QED
  BY <1>1, Invariant, PTL DEF Spec, RecordedStands

----------------------------------------------------------------------------
(* Amounts.  The totals of the items of an account are sums over a set, so *)
(* what is known of them is proved by induction over the finite sets of    *)
(* items.                                                                  *)

LEMMA AmountType == \A i \in Item : Amount[i] \in Nat /\ Amount[i] > 0
BY PaymentRunsAssumption

\* Induction over the sets of items, on a set P of them instead of a predicate.
LEMMA SubsetsOfItems ==
  ASSUME NEW P \in SUBSET SUBSET Item,
         \A s \in SUBSET Item :
           (\A t \in SUBSET Item : t \subseteq s /\ t # s => t \in P) => s \in P
  PROVE  P = SUBSET Item
<1> DEFINE B == (SUBSET Item) \ P
<1> SUFFICES ASSUME B # {} PROVE FALSE
  OBVIOUS
<1>1. IsWellFoundedOn(StrictSubsetOrdering(Item), FiniteSubsetsOf(Item))
  BY FS_StrictSubsetOrderingWellFounded
<1>2. FiniteSubsetsOf(Item) = SUBSET Item
  BY FS_FiniteSubsetsOfFinite, PaymentRunsAssumption
<1>3. B \in SUBSET SUBSET Item
  OBVIOUS
<1>4. \A s : s \in B <=> s \in SUBSET Item /\ s \notin P
  OBVIOUS
<1> HIDE DEF B
<1>5. PICK s \in B : \A t \in B : ~(<<t, s>> \in StrictSubsetOrdering(Item))
  BY <1>1, <1>2, <1>3, WFMin
<1>6. \A t \in SUBSET Item : t \subseteq s /\ t # s => t \in P
  BY <1>4, <1>5 DEF StrictSubsetOrdering
<1> QED
  BY <1>4, <1>5, <1>6

\* A total of a set adds its elements in the order in which they are chosen.
Chosen(s) == CHOOSE x \in s : TRUE
IsTotal(f, S) ==
  f = [s \in SUBSET S |-> IF s = {} THEN 0 ELSE Amount[Chosen(s)] + f[s \ {Chosen(s)}]]

LEMMA TotalIs == ASSUME NEW S PROVE Total(S) = (CHOOSE f : IsTotal(f, S))[S]
BY DEF Total, MapThenSumSet, MapThenFoldSet, IsTotal, Chosen

LEMMA TotalStep ==
  ASSUME NEW S, NEW f, IsTotal(f, S), NEW s \in SUBSET S
  PROVE  f[s] = IF s = {} THEN 0 ELSE Amount[Chosen(s)] + f[s \ {Chosen(s)}]
BY DEF IsTotal

\* Two functions that sum, agree where both do.
LEMMA TotalsAgree ==
  ASSUME NEW S \in SUBSET Item, NEW T \in SUBSET Item, NEW f, IsTotal(f, S),
         NEW g, IsTotal(g, T), NEW u \in SUBSET (S \cap T)
  PROVE  f[u] = g[u]
<1> DEFINE P == {s \in SUBSET Item : s \subseteq S \cap T => f[s] = g[s]}
<1>1. ASSUME NEW s \in SUBSET Item,
             \A t \in SUBSET Item : t \subseteq s /\ t # s => t \in P
      PROVE  s \in P
  <2> SUFFICES ASSUME s \subseteq S \cap T PROVE f[s] = g[s]
    OBVIOUS
  <2>1. f[s] = IF s = {} THEN 0 ELSE Amount[Chosen(s)] + f[s \ {Chosen(s)}]
    BY TotalStep
  <2>2. g[s] = IF s = {} THEN 0 ELSE Amount[Chosen(s)] + g[s \ {Chosen(s)}]
    BY TotalStep
  <2>3. s # {} => Chosen(s) \in s
    BY DEF Chosen
  <2>4. s # {} => f[s \ {Chosen(s)}] = g[s \ {Chosen(s)}]
    BY <1>1, <2>3
  <2> QED
    BY <2>1, <2>2, <2>4
<1>2. P \in SUBSET SUBSET Item
  OBVIOUS
<1>3. u \in P => f[u] = g[u]
  OBVIOUS
<1> HIDE DEF P
<1>4. P = SUBSET Item
  BY <1>1, <1>2, SubsetsOfItems
<1> QED
  BY <1>3, <1>4

\* There is one for every set of items, so Total is what MapThenSumSet says.
LEMMA TotalExists == ASSUME NEW S \in SUBSET Item PROVE \E f : IsTotal(f, S)
<1> DEFINE P == {s \in SUBSET Item : \E f : IsTotal(f, s)}
<1>1. ASSUME NEW s \in SUBSET Item,
             \A t \in SUBSET Item : t \subseteq s /\ t # s => t \in P
      PROVE  s \in P
  <2> DEFINE F(t) == CHOOSE f : IsTotal(f, t)
             h == [t \in SUBSET s |-> IF t = {} THEN 0
                   ELSE Amount[Chosen(t)] + F(t \ {Chosen(t)})[t \ {Chosen(t)}]]
  <2>1. \A t \in SUBSET s : t # s => IsTotal(F(t), t)
    BY <1>1
  <2> HIDE DEF F
  <2>2. ASSUME NEW t \in SUBSET s, t # {}
        PROVE  h[t \ {Chosen(t)}] = F(t \ {Chosen(t)})[t \ {Chosen(t)}]
    <3>0. PICK u : u = t \ {Chosen(t)}
      OBVIOUS
    <3>1. u # s /\ u \in SUBSET s /\ u \in SUBSET Item
      BY <2>2, <3>0 DEF Chosen
    <3>2. IsTotal(F(u), u)
      BY <2>1, <3>1
    <3>3. F(u)[u] = IF u = {} THEN 0 ELSE Amount[Chosen(u)] + F(u)[u \ {Chosen(u)}]
      BY <3>2, TotalStep
    <3>4. h[u] = IF u = {} THEN 0 ELSE Amount[Chosen(u)] + F(u \ {Chosen(u)})[u \ {Chosen(u)}]
      BY <3>1
    <3> HIDE DEF h
    <3>5. ASSUME u # {}
          PROVE  F(u)[u \ {Chosen(u)}] = F(u \ {Chosen(u)})[u \ {Chosen(u)}]
      <4>0. PICK v : v = u \ {Chosen(u)}
        OBVIOUS
      <4>1. v # s /\ v \in SUBSET s /\ v \in SUBSET Item /\ v \in SUBSET (u \cap v)
        BY <3>1, <3>5, <4>0 DEF Chosen
      <4>2. IsTotal(F(v), v)
        BY <2>1, <4>1
      <4>3. F(u)[v] = F(v)[v]
        BY <3>1, <3>2, <4>1, <4>2, TotalsAgree
      <4> QED
        BY <4>0, <4>3
    <3>6. h[u] = F(u)[u]
      BY <3>3, <3>4, <3>5
    <3> QED
      BY <3>0, <3>6
  <2>3. IsTotal(h, s)
    BY <2>2 DEF IsTotal
  <2> QED
    BY <2>3
<1>2. P \in SUBSET SUBSET Item
  OBVIOUS
<1>3. S \in P => \E f : IsTotal(f, S)
  OBVIOUS
<1> HIDE DEF P
<1>4. P = SUBSET Item
  BY <1>1, <1>2, SubsetsOfItems
<1> QED
  BY <1>3, <1>4

\* What the proofs use: the total of nothing, of a set without one element,
\* of two sets, and of a part.
LEMMA TotalEmpty == Total({}) = 0
<1> DEFINE F == CHOOSE f : IsTotal(f, {})
<1>1. IsTotal(F, {})
  BY TotalExists
<1>2. Total({}) = F[{}]
  BY TotalIs
<1> HIDE DEF F
<1> QED
  BY <1>1, <1>2, TotalStep

LEMMA TotalPick ==
  ASSUME NEW S \in SUBSET Item, S # {}
  PROVE  Chosen(S) \in S /\ Total(S) = Amount[Chosen(S)] + Total(S \ {Chosen(S)})
<1> DEFINE F(t) == CHOOSE f : IsTotal(f, t)
           u == S \ {Chosen(S)}
<1>1. IsTotal(F(S), S) /\ IsTotal(F(u), u)
  BY TotalExists
<1>2. Total(S) = F(S)[S] /\ Total(u) = F(u)[u]
  BY TotalIs
<1> HIDE DEF F
<1>3. F(S)[u] = F(u)[u]
  BY <1>1, TotalsAgree
<1>4. F(S)[S] = Amount[Chosen(S)] + F(S)[u]
  BY <1>1, TotalStep
<1>5. Chosen(S) \in S
  BY DEF Chosen
<1> QED
  BY <1>2, <1>3, <1>4, <1>5

LEMMA TotalNat == ASSUME NEW S \in SUBSET Item PROVE Total(S) \in Nat
<1> DEFINE P == {s \in SUBSET Item : Total(s) \in Nat}
<1>1. ASSUME NEW s \in SUBSET Item,
             \A t \in SUBSET Item : t \subseteq s /\ t # s => t \in P
      PROVE  s \in P
  <2>1. CASE s = {}
    BY <2>1, TotalEmpty
  <2>2. CASE s # {}
    <3>1. Chosen(s) \in s /\ Total(s) = Amount[Chosen(s)] + Total(s \ {Chosen(s)})
      BY <2>2, TotalPick
    <3>2. Total(s \ {Chosen(s)}) \in Nat
      BY <1>1, <3>1
    <3>3. Amount[Chosen(s)] \in Nat
      BY <3>1, AmountType
    <3> QED
      BY <3>1, <3>2, <3>3
  <2> QED
    BY <2>1, <2>2
<1>2. P \in SUBSET SUBSET Item /\ (S \in P => Total(S) \in Nat)
  OBVIOUS
<1> HIDE DEF P
<1>3. P = SUBSET Item
  BY <1>1, <1>2, SubsetsOfItems
<1> QED
  BY <1>2, <1>3

LEMMA TotalRemove ==
  ASSUME NEW S \in SUBSET Item, NEW x \in S
  PROVE  Total(S) = Amount[x] + Total(S \ {x})
<1> DEFINE P == {s \in SUBSET Item : \A y \in s : Total(s) = Amount[y] + Total(s \ {y})}
<1>1. ASSUME NEW s \in SUBSET Item,
             \A t \in SUBSET Item : t \subseteq s /\ t # s => t \in P
      PROVE  s \in P
  <2> SUFFICES ASSUME NEW y \in s PROVE Total(s) = Amount[y] + Total(s \ {y})
    OBVIOUS
  <2>1. PICK p \in s : Total(s) = Amount[p] + Total(s \ {p})
    BY TotalPick
  <2>2. CASE p = y
    BY <2>1, <2>2
  <2>3. CASE p # y
    <3>1. /\ s \ {p} \in P /\ y \in s \ {p}
          /\ s \ {y} \in P /\ p \in s \ {y}
      BY <1>1, <2>3
    <3>2. Total(s \ {p}) = Amount[y] + Total((s \ {p}) \ {y})
      BY <3>1
    <3>3. Total(s \ {y}) = Amount[p] + Total((s \ {y}) \ {p})
      BY <3>1
    <3>4. (s \ {p}) \ {y} = (s \ {y}) \ {p}
      OBVIOUS
    <3>5. Amount[p] \in Nat /\ Amount[y] \in Nat /\ Total((s \ {p}) \ {y}) \in Nat
      BY AmountType, TotalNat
    <3> QED
      BY <2>1, <3>2, <3>3, <3>4, <3>5
  <2> QED
    BY <2>2, <2>3
<1>2. P \in SUBSET SUBSET Item
  OBVIOUS
<1>3. S \in P => Total(S) = Amount[x] + Total(S \ {x})
  OBVIOUS
<1> HIDE DEF P
<1>4. P = SUBSET Item
  BY <1>1, <1>2, SubsetsOfItems
<1> QED
  BY <1>3, <1>4

LEMMA TotalOfBoth ==
  ASSUME NEW S \in SUBSET Item, NEW T \in SUBSET Item, S \cap T = {}
  PROVE  Total(S \cup T) = Total(S) + Total(T)
<1> DEFINE P == {t \in SUBSET Item : S \cap t = {} => Total(S \cup t) = Total(S) + Total(t)}
<1>1. ASSUME NEW s \in SUBSET Item,
             \A t \in SUBSET Item : t \subseteq s /\ t # s => t \in P
      PROVE  s \in P
  <2> SUFFICES ASSUME S \cap s = {} PROVE Total(S \cup s) = Total(S) + Total(s)
    OBVIOUS
  <2>0. Total(S) \in Nat /\ Total(s) \in Nat
    BY TotalNat
  <2>1. CASE s = {}
    <3>1. S \cup s = S
      BY <2>1
    <3> QED
      BY <2>0, <2>1, <3>1, TotalEmpty
  <2>2. CASE s # {}
    <3>1. PICK p \in s : Total(s) = Amount[p] + Total(s \ {p})
      BY <2>2, TotalPick
    <3>2. s \ {p} \in P /\ S \cap (s \ {p}) = {}
      BY <1>1
    <3>3. Total(S \cup (s \ {p})) = Total(S) + Total(s \ {p})
      BY <3>2
    <3>4. Total(S \cup s) = Amount[p] + Total((S \cup s) \ {p})
      BY TotalRemove
    <3>5. (S \cup s) \ {p} = S \cup (s \ {p})
      OBVIOUS
    <3>6. Amount[p] \in Nat /\ Total(s \ {p}) \in Nat
      BY AmountType, TotalNat
    <3> QED
      BY <2>0, <3>1, <3>3, <3>4, <3>5, <3>6
  <2> QED
    BY <2>1, <2>2
<1>2. P \in SUBSET SUBSET Item
  OBVIOUS
<1>3. T \in P => Total(S \cup T) = Total(S) + Total(T)
  OBVIOUS
<1> HIDE DEF P
<1>4. P = SUBSET Item
  BY <1>1, <1>2, SubsetsOfItems
<1> QED
  BY <1>3, <1>4

LEMMA TotalGrows ==
  ASSUME NEW S \in SUBSET Item, NEW T \in SUBSET Item, S \subseteq T
  PROVE  Total(S) <= Total(T)
<1>1. PICK r \in SUBSET Item : r \cap S = {} /\ T = S \cup r
  <2>1. /\ T \ S \in SUBSET Item /\ (T \ S) \cap S = {}
        /\ T = S \cup (T \ S)
    OBVIOUS
  <2> QED
    BY <2>1
<1>2. Total(T) = Total(S) + Total(r)
  BY <1>1, TotalOfBoth
<1>3. Total(S) \in Nat /\ Total(r) \in Nat
  BY TotalNat
<1> QED
  BY <1>2, <1>3

----------------------------------------------------------------------------
(* What is reserved is there, unless an approval takes what a cancel left  *)


\* An approval that queues an item which is not a draft: the first statement
\* of a cancel has cancelled it, and the run is still a draft.
Requeues(r) == Approve(r) /\ ~\A i \in ItemsOf(r) : item[i].state = "draft"

LEMMA SumsPrimed ==
  ASSUME NEW a \in Account
  PROVE  /\ Reserved(a)' = Total(InState(a, Holding)')
         /\ Paid(a)' = manual'[a] + Total(InState(a, {"paid"})')
BY DEF Reserved, Paid, Total, MapThenSumSet, MapThenFoldSet

LEMMA InStatePrimed ==
  ASSUME NEW a \in Account, NEW states
  PROVE  InState(a, states)' = {i \in Item : AccountOf[i] = a /\ item'[i].state \in states}
BY DEF InState

\* What is paid and reserved is what is entered by hand and the total of the
\* items that are either.
LEMMA SumsNow ==
  ASSUME TypeOK, NEW a \in Account
  PROVE  /\ Reserved(a) \in Nat /\ Paid(a) \in Nat
         /\ Paid(a) + Reserved(a) = manual[a] + Total(InState(a, Holding \cup {"paid"}))
<1>1. PICK h \in SUBSET Item : h = InState(a, Holding)
  BY DEF InState
<1>2. PICK p \in SUBSET Item : p = InState(a, {"paid"})
  BY DEF InState
<1>3. h \cap p = {} /\ h \cup p = InState(a, Holding \cup {"paid"})
  BY <1>1, <1>2 DEF InState, Holding
<1>4. Total(h \cup p) = Total(h) + Total(p)
  BY <1>3, TotalOfBoth
<1>7. Total(h \cup p) = Total(InState(a, Holding \cup {"paid"}))
  BY <1>3, Zenon
<1>5. Total(h) \in Nat /\ Total(p) \in Nat /\ manual[a] \in Nat
  BY TotalNat DEF TypeOK
<1>6. Reserved(a) = Total(h) /\ Paid(a) = manual[a] + Total(p)
  BY <1>1, <1>2 DEF Reserved, Paid
<1> QED
  BY <1>4, <1>5, <1>6, <1>7

LEMMA SumsNext ==
  ASSUME TypeOK', NEW a \in Account
  PROVE  /\ Reserved(a)' \in Nat /\ Paid(a)' \in Nat
         /\ Paid(a)' + Reserved(a)' = manual'[a] + Total(InState(a, Holding \cup {"paid"})')
<1>1. PICK h \in SUBSET Item : h = InState(a, Holding)'
  BY InStatePrimed
<1>2. PICK p \in SUBSET Item : p = InState(a, {"paid"})'
  BY InStatePrimed
<1>3. h \cap p = {} /\ h \cup p = InState(a, Holding \cup {"paid"})'
  BY <1>1, <1>2, InStatePrimed DEF Holding
<1>4. Total(h \cup p) = Total(h) + Total(p)
  BY <1>3, TotalOfBoth
<1>7. Total(h \cup p) = Total(InState(a, Holding \cup {"paid"})')
  BY <1>3, Zenon
<1>5. Total(h) \in Nat /\ Total(p) \in Nat /\ manual'[a] \in Nat
  BY TotalNat DEF TypeOK
<1>6. Reserved(a)' = Total(h) /\ Paid(a)' = manual'[a] + Total(p)
  BY <1>1, <1>2, SumsPrimed
<1> QED
  BY <1>4, <1>5, <1>6, <1>7

\* An item that comes to hold or to be paid, held before.
Shrinks(i) ==
  /\ item'[i].state \in Holding => item[i].state \in Holding
  /\ item'[i].state = "paid" => item[i].state \in Holding \cup {"paid"}

LEMMA ShrinkingCovers ==
  ASSUME TypeOK, TypeOK', UNCHANGED register, \A i \in Item : Shrinks(i),
         NEW a \in Account, Reserved(a) > 0 => Paid(a) + Reserved(a) <= owed[a]
  PROVE  Reserved(a)' > 0 => Paid(a)' + Reserved(a)' <= owed'[a]
<1>1. PICK h \in SUBSET Item : h = InState(a, Holding)
  BY DEF InState
<1>2. PICK g \in SUBSET Item : g = InState(a, Holding)'
  BY InStatePrimed
<1>3. PICK k \in SUBSET Item : k = InState(a, Holding \cup {"paid"})
  BY DEF InState
<1>4. PICK l \in SUBSET Item : l = InState(a, Holding \cup {"paid"})'
  BY InStatePrimed
<1>5. g \subseteq h
  BY <1>1, <1>2, InStatePrimed DEF InState, Shrinks
<1>6. l \subseteq k
  BY <1>3, <1>4, InStatePrimed DEF InState, Shrinks
<1>7. /\ Total(g) <= Total(h) /\ Total(l) <= Total(k)
      /\ Total(k) \in Nat /\ Total(l) \in Nat /\ Total(g) \in Nat /\ Total(h) \in Nat
  BY <1>5, <1>6, TotalGrows, TotalNat
<1>8. Reserved(a) = Total(h) /\ Reserved(a)' = Total(g)
  BY <1>1, <1>2, SumsPrimed DEF Reserved
<1>9. /\ Paid(a) + Reserved(a) = manual[a] + Total(k)
      /\ Paid(a)' + Reserved(a)' = manual[a] + Total(l)
  BY <1>3, <1>4, SumsNow, SumsNext DEF register
<1>10. manual[a] \in Nat /\ owed'[a] = owed[a] /\ owed[a] \in Nat
  BY DEF TypeOK, register
<1> QED
  BY <1>7, <1>8, <1>9, <1>10

\* Nothing but an approval takes an item into payment.
LEMMA UnsentStays ==
  ASSUME IInv, [Next]_vars, ~\E r \in Run : Approve(r),
         NEW i \in Item, item[i].state \in {"draft", "cancelled"}
  PROVE  item'[i].state \in {"draft", "cancelled"}
<1> SUFFICES ASSUME item'[i].state # item[i].state PROVE item'[i].state = "cancelled"
  OBVIOUS
<1>0. ~item[i].quoted /\ ~item[i].known
  BY DEF IInv, ItemFits
<1>1. CASE \E r \in Run : Administrator(r)
  <2>1. PICK r \in Run : Preview(r) \/ CancelRun(r) \/ Cancel(r)
    BY <1>1 DEF Administrator
  <2>2. CASE Preview(r) \/ CancelRun(r)
    BY <2>2 DEF Preview, CancelRun
  <2>3. CASE Cancel(r)
    <3>1. item'[i] = [item[i] EXCEPT !.state = "cancelled", !.own = None, !.leased = FALSE]
      BY <2>3 DEF Cancel
    <3> QED
      BY <3>1, CancelRow, Types
  <2> QED
    BY <2>1, <2>2, <2>3
<1>2. CASE \E a \in Account : PayByHand(a) \/ Revise(a)
  BY <1>2 DEF PayByHand, Revise
<1>3. CASE \E j \in Item : Retry(j) \/ Proceed(j) \/ LeaseOver(j)
  <2>1. PICK j \in Item : Retry(j) \/ Proceed(j) \/ LeaseOver(j)
    BY <1>3
  <2>2. CASE Proceed(j)
    BY <2>2 DEF Proceed
  <2>3. CASE Retry(j)
    <3>1. i = j /\ item[j].state = "attention"
      BY <2>3, Types DEF Retry
    <3> QED
      BY <3>1
  <2>4. CASE LeaseOver(j)
    <3>1. i = j /\ item'[j] = [item[j] EXCEPT !.leased = FALSE] /\ item[j] \in Row
      BY <2>4, Types DEF LeaseOver
    <3> QED
      BY <3>1, LeaseRow DEF Alike
  <2> QED
    BY <2>1, <2>2, <2>3, <2>4
<1>4. CASE \E w \in Worker, j \in Item : Select(w, j)
  BY <1>4 DEF Select
<1>5. CASE \E w \in Worker : Step(w) \/ FundLost(w) \/ Throw(w) \/ Stop(w)
  <2>1. PICK w \in Worker : Step(w) \/ FundLost(w) \/ Throw(w) \/ Stop(w)
    BY <1>5
  <2>2. CASE Create(w) \/ Read(w) \/ Fund(w) \/ FundLost(w) \/ Stop(w)
    BY <2>2 DEF Create, Read, Fund, FundLost, Stop
  <2>3. CASE Claim(w)
    <3>1. i = hold[w] /\ item'[i] = Claimed(item[i], w) /\ item[i] \in Row
      BY <2>3, Types DEF Claim
    <3> QED
      BY <3>1, ClaimedRow
  <2>4. CASE Record(w)
    <3>1. item[i].state = "funding"
      BY <2>4, Types DEF Record
    <3> QED
      BY <3>1
  <2>5. CASE Quote(w) \/ Store(w) \/ Mark(w) \/ Settle(w) \/ Throw(w)
    <3>1. pc[w] \in Before /\ i = hold[w] /\ Owns(w)
      BY <2>5, Types DEF Quote, Store, Mark, Settle, Throw, Becomes, Update, Before
    <3>2. item[i].state = seen[w].state /\ item[i].known = seen[w].known
      BY <3>1 DEF IInv, OwnerKnows
    <3>3. seen[w].state \in {"queued", "creating"} \/ seen[w].known
      BY <3>1 DEF IInv, SeenFits, Before
    <3> QED
      BY <1>0, <3>2, <3>3, Types DEF Row
  <2> QED
    BY <2>1, <2>2, <2>3, <2>4, <2>5 DEF Step
<1>6. CASE UNCHANGED vars
  BY <1>6 DEF vars
<1> QED
  BY <1>1, <1>2, <1>3, <1>4, <1>5, <1>6 DEF Next

Covered(a) == Reserved(a) > 0 => Paid(a) + Reserved(a) <= owed[a]

LEMMA SameItems ==
  ASSUME TypeOK, TypeOK', UNCHANGED item, NEW a \in Account
  PROVE  /\ Reserved(a)' = Reserved(a) /\ Reserved(a) \in Nat
         /\ Paid(a) \in Nat /\ Paid(a) - manual[a] = Paid(a)' - manual'[a]
         /\ manual[a] \in Nat /\ manual'[a] \in Nat /\ owed'[a] \in Nat /\ Paid(a)' \in Nat
<1>1. PICK h \in SUBSET Item : h = InState(a, Holding) /\ h = InState(a, Holding)'
  BY DEF InState
<1>2. PICK p \in SUBSET Item : p = InState(a, {"paid"}) /\ p = InState(a, {"paid"})'
  BY DEF InState
<1>3. Reserved(a) = Total(h) /\ Reserved(a)' = Total(h)
  BY <1>1, SumsPrimed DEF Reserved
<1>4. Paid(a) = manual[a] + Total(p) /\ Paid(a)' = manual'[a] + Total(p)
  BY <1>2, SumsPrimed DEF Paid
<1>5. Total(h) \in Nat /\ Total(p) \in Nat
  BY TotalNat
<1>6. manual[a] \in Nat /\ manual'[a] \in Nat /\ owed'[a] \in Nat
  BY DEF TypeOK
<1> QED
  BY <1>3, <1>4, <1>5, <1>6

\* An entry by hand and a new amount are guarded by what is reserved.
LEMMA RegisterCovers ==
  ASSUME TypeOK, TypeOK', NEW b \in Account, PayByHand(b) \/ Revise(b),
         NEW a \in Account, Covered(a)
  PROVE  Covered(a)'
<1>1. UNCHANGED item
  BY DEF PayByHand, Revise
<1>2. owed \in [Account -> Nat] /\ manual \in [Account -> Nat]
  BY DEF TypeOK
<1>3. CASE a # b
  <2>1. owed'[a] = owed[a] /\ manual'[a] = manual[a]
    BY <1>2, <1>3 DEF PayByHand, Revise
  <2> QED
    BY <1>1, <2>1, SameItems DEF Covered
<1>4. CASE a = b /\ PayByHand(b)
  <2>1. owed'[a] = owed[a] /\ manual'[a] = manual[a] + 1 /\ owed[a] \in Nat
    BY <1>2, <1>4 DEF PayByHand
  <2>2. 1 + Reserved(a) <= owed[a] - Paid(a)
    BY <1>4 DEF PayByHand, Payable
  <2> QED
    BY <1>1, <2>1, <2>2, SameItems DEF Covered
<1>5. CASE a = b /\ Revise(b)
  <2>1. manual'[a] = manual[a] /\ (Reserved(a) > 0 => owed'[a] >= Paid(a) + Reserved(a))
    BY <1>2, <1>5 DEF Revise
  <2> QED
    BY <1>1, <2>1, SameItems DEF Covered
<1> QED
  BY <1>3, <1>4, <1>5

\* An approval reserves no more than the account has left: a run has one item
\* of an account.
LEMMA ApprovalCovers ==
  ASSUME TypeOK, TypeOK', NEW r \in Run, Approve(r), ~Requeues(r),
         NEW a \in Account, Covered(a)
  PROVE  Covered(a)'
<1>a. item \in [Item -> Row] /\ UNCHANGED register
  BY DEF TypeOK, Approve, register
<1>b. \A i \in ItemsOf(r) : item[i].state = "draft" /\ Reservable(i)
  BY DEF Approve, Requeues
<1> DEFINE Queued(row) == [row EXCEPT !.state = "queued", !.own = None]
<1>c. /\ ItemsOf(r) \subseteq Item
      /\ item' = [i \in Item |-> IF i \in ItemsOf(r) THEN Queued(item[i]) ELSE item[i]]
  BY DEF Approve, ItemsOf
<1>d. \A i \in ItemsOf(r) : item[i] \in Row => Queued(item[i]).state = "queued"
  BY MovedRow DEF State
<1> HIDE DEF Queued
<1>e. \A i \in Item \ ItemsOf(r) : item'[i] = item[i]
  BY <1>c
<1>2. \A i \in ItemsOf(r) : i \in Item /\ item'[i].state = "queued"
  BY <1>a, <1>c, <1>d
<1>3. CASE \A i \in ItemsOf(r) : AccountOf[i] # a
  <2>1. PICK h \in SUBSET Item : h = InState(a, Holding) /\ h = InState(a, Holding)'
    BY <1>3, <1>e DEF InState
  <2>2. PICK p \in SUBSET Item : p = InState(a, {"paid"}) /\ p = InState(a, {"paid"})'
    BY <1>3, <1>e DEF InState
  <2>3. Reserved(a) = Total(h) /\ Reserved(a)' = Total(h)
    BY <2>1, SumsPrimed DEF Reserved
  <2>4. Paid(a) = manual[a] + Total(p) /\ Paid(a)' = manual[a] + Total(p)
    BY <1>a, <2>2, SumsPrimed DEF Paid, register
  <2> QED
    BY <1>a, <2>3, <2>4 DEF Covered, register
<1>4. ASSUME NEW i \in ItemsOf(r), AccountOf[i] = a
      PROVE  Covered(a)'
  <2>1. \A j \in ItemsOf(r) : j # i => AccountOf[j] # a
    BY <1>2, <1>4, PaymentRunsAssumption DEF ItemsOf
  <2>2. PICK h \in SUBSET Item : h = InState(a, Holding)
    BY DEF InState
  <2>a. \A j \in Item : item'[j].state = "paid" <=> item[j].state = "paid"
    BY <1>2, <1>b, <1>e
  <2>b. /\ \A j \in Item : AccountOf[j] = a =>
            (item'[j].state \in Holding <=> j = i \/ item[j].state \in Holding)
        /\ item[i].state \notin Holding
    BY <1>2, <1>4, <1>b, <1>e, <2>1 DEF Holding
  <2>3. PICK p \in SUBSET Item : p = InState(a, {"paid"}) /\ p = InState(a, {"paid"})'
    BY <2>a DEF InState
  <2>4. PICK g \in SUBSET Item : g = InState(a, Holding)' /\ h = g \ {i} /\ i \in g
    BY <1>2, <1>4, <2>2, <2>b DEF InState
  <2>5. Total(g) = Amount[i] + Total(h)
    BY <2>4, TotalRemove
  <2>6. Reserved(a) = Total(h) /\ Reserved(a)' = Total(g)
    BY <2>2, <2>4, SumsPrimed DEF Reserved
  <2>7. Paid(a) = manual[a] + Total(p) /\ Paid(a)' = manual[a] + Total(p)
    BY <1>a, <2>3, SumsPrimed DEF Paid, register
  <2>8. owed[a] - Paid(a) - Reserved(a) >= Amount[i]
    BY <1>4, <1>b DEF Reservable
  <2>9. /\ Total(h) \in Nat /\ Total(p) \in Nat /\ Amount[i] \in Nat
        /\ manual[a] \in Nat /\ owed[a] \in Nat /\ owed'[a] = owed[a]
    BY <1>2, <1>a, AmountType, TotalNat DEF TypeOK, register
  <2> QED
    BY <2>5, <2>6, <2>7, <2>8, <2>9 DEF Covered
<1> QED
  BY <1>3, <1>4

LEMMA StepCovers ==
  ASSUME IInv, IInv', [Next]_vars, ~\E r \in Run : Requeues(r),
         NEW a \in Account, Covered(a)
  PROVE  Covered(a)'
<1>0. TypeOK /\ TypeOK'
  BY DEF IInv
<1>1. CASE \E r \in Run : Approve(r)
  BY <1>0, <1>1, ApprovalCovers
<1>2. CASE \E b \in Account : PayByHand(b) \/ Revise(b)
  BY <1>0, <1>2, RegisterCovers
<1>3. CASE /\ ~\E r \in Run : Approve(r)
           /\ ~\E b \in Account : PayByHand(b) \/ Revise(b)
  <2>1. UNCHANGED register
    BY <1>3 DEF Next, vars, register, Administrator, Preview, CancelRun, Cancel, Retry, Proceed,
      LeaseOver, Select, Step, Claim, Quote, Create, Store, Read, Settle, Mark, Fund,
      Record, FundLost, Throw, Stop
  <2>2. ASSUME NEW i \in Item PROVE Shrinks(i)
    <3>1. item[i].state \in State /\ item'[i].state \in State
      BY <1>0 DEF TypeOK, Row
    <3>2. item[i].state \in {"draft", "cancelled"} => item'[i].state \in {"draft", "cancelled"}
      BY <1>3, UnsentStays
    <3>3. Stands(i)
      BY StepStands
    <3> QED
      BY <3>1, <3>2, <3>3 DEF Stands, Shrinks, State, Holding
  <2> QED
    BY <1>0, <2>1, <2>2, ShrinkingCovers DEF Covered
<1> QED
  BY <1>1, <1>2, <1>3

\* Every reservation is covered by what is owed, for any amounts, as long as
\* no approval queues an item that a cancel has cancelled while its run was
\* left a draft: what MCPaymentRuns_requeued does is the only way to reserve
\* more than there is.
THEOREM CoveredUnlessRequeued ==
  Spec /\ [][~\E r \in Run : Requeues(r)]_vars => []ReservationsCovered
<1>1. ReservationsCovered <=> \A a \in Account : Covered(a)
  BY DEF ReservationsCovered, Covered
<1>2. ASSUME IInv, Init PROVE ReservationsCovered
  <2> SUFFICES ASSUME NEW a \in Account PROVE Covered(a)
    BY <1>1
  <2>1. InState(a, Holding) = {}
    BY <1>2, NewRowFits DEF InState, Init, Holding
  <2>2. Reserved(a) = Total({})
    BY <2>1, Zenon DEF Reserved
  <2> QED
    BY <2>2, TotalEmpty DEF Covered
<1>3. ASSUME IInv, IInv', [Next]_vars, [~\E r \in Run : Requeues(r)]_vars, ReservationsCovered
      PROVE  ReservationsCovered'
  <2>1. CASE UNCHANGED vars
    <3>1. UNCHANGED item /\ UNCHANGED register /\ TypeOK /\ TypeOK'
      BY <2>1, <1>3 DEF vars, register, IInv
    <3>2. \A i \in Item : Shrinks(i)
      BY <3>1 DEF Shrinks
    <3>3. \A a \in Account : Covered(a)'
      BY <1>1, <1>3, <3>1, <3>2, ShrinkingCovers DEF Covered
    <3> QED
      BY <3>3 DEF ReservationsCovered, Covered
  <2>2. CASE ~\E r \in Run : Requeues(r)
    <3>1. \A a \in Account : Covered(a)'
      BY <1>1, <1>3, <2>2, StepCovers
    <3> QED
      BY <3>1 DEF ReservationsCovered, Covered
  <2> QED
    BY <1>3, <2>1, <2>2
<1> QED
  BY <1>2, <1>3, Invariant, PTL DEF Spec

=============================================================================
