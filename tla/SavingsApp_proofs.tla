--------------------------- MODULE SavingsApp_proofs ---------------------------
(***************************************************************************)
(* Theorems about the savings app, for any number of tabs, assets, plan    *)
(* indexes and cadences and with no bound on what goes wrong: its types,   *)
(* that an operation which resolved true took effect, that a change is one *)
(* plan for one, and what one tab alone can rely on.                       *)
(***************************************************************************)
EXTENDS SavingsApp, FiniteSetTheorems, WellFoundedInduction, TLAPS

-----------------------------------------------------------------------------
(* The smallest of a set of numbers *)

LessThan == {p \in Nat \X Nat : p[1] < p[2]}

LEMMA NatWellFounded == IsWellFoundedOn(LessThan, Nat)
<1>1. OpToRel(<, Nat) = LessThan BY DEF OpToRel, LessThan
<1>2. QED BY <1>1, NatLessThanWellFounded

\* A set of naturals that is not empty has a least element.
LEMMA LeastOf ==
  ASSUME NEW S, S \subseteq Nat, S # {}
  PROVE  \E x \in S : \A y \in S : x <= y
<1>1. PICK x \in S : \A y \in S : ~ (<<y, x>> \in LessThan) BY NatWellFounded, WFMin
<1>2. ASSUME NEW y \in S, ~(x <= y) PROVE FALSE
  <2>1. y < x /\ y \in Nat /\ x \in Nat BY <1>2
  <2>2. <<y, x>> \in LessThan BY <2>1 DEF LessThan
  <2>3. QED BY <1>1, <2>2
<1>3. QED BY <1>2

\* A plan index that is free is there to be taken.
LEMMA FreeIndexTaken ==
  ASSUME NEW a, FreeIndexes(a) # {}
  PROVE  Min(FreeIndexes(a)) \in FreeIndexes(a)
<1>1. FreeIndexes(a) \subseteq Nat BY SavingsAppAssumption DEF FreeIndexes
<1>2. \E i \in FreeIndexes(a) : \A j \in FreeIndexes(a) : i <= j BY <1>1, LeastOf
<1>3. QED BY <1>2 DEF Min

\* Of several active plans one comes first.
LEMMA FirstIsActive ==
  ASSUME Active # {}
  PROVE  First(Active) \in Active
<1> DEFINE Of == {p[1] : p \in Active}
<1>1. Active \subseteq Assets \X Indexes /\ Assets \subseteq Nat /\ Indexes \subseteq Nat
  BY SavingsAppAssumption DEF Active, Plans
<1>2. Of \subseteq Nat /\ Of # {} BY <1>1
<1>3. PICK a \in Of : \A x \in Of : a <= x BY <1>2, LeastOf
<1> DEFINE At1 == {p[2] : p \in {q \in Active : q[1] = a}}
<1>4. At1 \subseteq Nat /\ At1 # {} BY <1>1, <1>3
<1>5. PICK i \in At1 : \A x \in At1 : i <= x BY <1>4, LeastOf
<1>6. PICK p \in Active : p[1] = a /\ p[2] = i BY <1>5
<1>7. \A q \in Active : p[1] < q[1] \/ (p[1] = q[1] /\ p[2] <= q[2])
  <2> SUFFICES ASSUME NEW q \in Active PROVE p[1] < q[1] \/ (p[1] = q[1] /\ p[2] <= q[2])
    OBVIOUS
  <2>1. a <= q[1] /\ a \in Nat /\ q[1] \in Nat BY <1>1, <1>2, <1>3
  <2>2. CASE q[1] = a
    <3>1. q[2] \in At1 BY <2>2
    <3>2. QED BY <1>5, <1>6, <2>2, <3>1
  <2>3. QED BY <1>6, <2>1, <2>2
<1>8. QED BY <1>7 DEF First

-----------------------------------------------------------------------------
(* Types, and what an operation knows of its transaction *)

TabRecord ==
  [screen : {"loading", "home", "form"}, view : Views,
   form : [plan : Plans \cup {None}, due : Nat], op : Ops,
   done : Transactions \cup {None}]

\* A transaction that creates or approves knows the cadence; a change names the
\* plan it ends, the one it makes and the delegate it sets.
TxGood(x) ==
  /\ x \in Transactions
  /\ x.create # None \/ x.approve # None => x.cadence \in Cadences
  /\ x.kind = "change" =>
       x.cancel \in Plans /\ x.create \in Plans /\ x.approve = x.create /\ ~x.revoke

\* An operation knows its plan, asset and cadence, numbers its transaction when
\* the wallet signs, and hears of it only then.
OpGood(o, ap) ==
  /\ o.pc # "idle" =>
       /\ o.kind # "none"
       /\ o.kind # "create" => o.plan \in Plans
       /\ o.kind \in {"create", "change"} => o.asset \in Assets
       /\ o.kind # "cancel" => o.cadence \in Cadences
  /\ o.pc \in {"idle", "build"} => o.tx = None
  /\ o.pc \in {"sign", "confirm", "refresh"} => TxGood(o.tx)
  /\ o.pc \in {"build", "sign"} => o.verdict = "none"
  /\ o.pc = "sign" => o.tx.id = 0
  /\ o.pc = "refresh" \/ o.verdict = "ok" => o.tx.id \in ap

TabGood(r, ap) ==
  /\ r \in TabRecord
  /\ r.view.active # None => r.view.cadence \in Cadences
  /\ OpGood(r.op, ap)
  /\ r.done # None => r.done.id \in ap

AppInv ==
  /\ TypeOK
  /\ \A p \in Plans : schedule[p].status = "active" => schedule[p].cadence \in Cadences
  /\ \A x \in flight : TxGood(x) /\ x.id \in 1..signed
  /\ \A x, y \in flight : x.id = y.id => x = y
  /\ \A t \in Tabs : TabGood(tab[t], applied)

\* What a refresh shows is a view.
LEMMA ViewType ==
  ASSUME AppInv, NEW d
  PROVE  View(d) \in Views /\ (View(d).active # None => View(d).cadence \in Cadences)
<1>1. cash \in Nat BY DEF AppInv, TypeOK
<1>2. CASE Active = {}
  <2>1. View(d) = [active |-> None, due |-> 0, cadence |-> 0, unfunded |-> FALSE,
                   low |-> FALSE, foreign |-> (d = Foreign), cash |-> cash]
    BY <1>2 DEF View, Unread
  <2>2. (d = Foreign) \in BOOLEAN OBVIOUS
  <2>3. QED BY <1>1, <2>1, <2>2 DEF Views
<1>3. CASE Active # {}
  <2>1. PICK p \in Active : p = First(Active) BY <1>3, FirstIsActive
  <2>2. p \in Plans /\ schedule[p].status = "active" BY DEF Active
  <2>3. schedule[p].due \in Nat /\ schedule[p].cadence \in Nat
        /\ schedule[p].cadence \in Cadences
    BY <2>2 DEF AppInv, TypeOK
  <2>4. View(d) = [active |-> p, due |-> schedule[p].due, cadence |-> schedule[p].cadence,
                   unfunded |-> d # p, low |-> d = p /\ allowance <= COVERAGE_WARN_AT,
                   foreign |-> FALSE, cash |-> cash]
    BY <1>3, <2>1 DEF View
  <2>5. (d # p) \in BOOLEAN /\ (d = p /\ allowance <= COVERAGE_WARN_AT) \in BOOLEAN
    OBVIOUS
  <2>6. QED BY <1>1, <2>2, <2>3, <2>4, <2>5 DEF Views
<1>4. QED BY <1>2, <1>3

\* An empty screen is a view too.
LEMMA UnreadType == Unread \in Views /\ Unread.active = None
BY DEF Unread, Views

\* The idle operation and a tab that was just opened are what they should be.
LEMMA IdleGood == \A ap : Idle \in Ops /\ OpGood(Idle, ap)
BY DEF Idle, Ops, OpGood

LEMMA OpenedGood == \A ap : TabGood(Opened, ap)
<1>1. Opened \in TabRecord BY UnreadType, IdleGood DEF Opened, TabRecord
<1>2. QED BY <1>1, UnreadType, IdleGood DEF Opened, TabGood

\* A step of one tab that touches nothing but the tab.
LEMMA TabStep ==
  ASSUME AppInv, NEW t \in Tabs, NEW r, TabGood(r, applied),
         tab' = [tab EXCEPT ![t] = r], UNCHANGED <<now, chain, flight, signed>>,
         acted' \subseteq Tabs, mishaps' \in Nat
  PROVE  AppInv'
<1>1. tab \in [Tabs -> TabRecord] BY DEF AppInv, TypeOK, TabRecord
<1>2. r \in TabRecord BY DEF TabGood
<1>3. tab' \in [Tabs -> TabRecord] BY <1>1, <1>2
<1>4. TypeOK' BY <1>3 DEF AppInv, TypeOK, TabRecord, chain
<1>5. \A s \in Tabs : TabGood(tab'[s], applied) BY <1>1 DEF AppInv
<1>6. QED BY <1>4, <1>5 DEF AppInv, chain

-----------------------------------------------------------------------------
(* The steps of one tab *)

\* What a tab is, taken apart.
LEMMA TabParts ==
  ASSUME AppInv, NEW t \in Tabs
  PROVE  /\ tab[t] \in TabRecord /\ tab[t].op \in Ops /\ tab[t].view \in Views
         /\ TabGood(tab[t], applied) /\ OpGood(tab[t].op, applied)
         /\ DOMAIN tab = Tabs
<1>1. TabGood(tab[t], applied) /\ DOMAIN tab = Tabs BY DEF AppInv, TypeOK
<1>2. QED BY <1>1 DEF TabGood, TabRecord

\* A screen that shows what was read.
LEMMA Displays ==
  ASSUME AppInv, NEW t \in Tabs, NEW view \in Views,
         view.active # None => view.cadence \in Cadences, Display(t, view),
         UNCHANGED <<now, chain, flight, signed, acted>>, mishaps' \in Nat
  PROVE  AppInv'
<1> DEFINE r == [tab[t] EXCEPT !.screen = "home", !.view = view]
<1>1. tab[t] \in TabRecord /\ TabGood(tab[t], applied) /\ DOMAIN tab = Tabs BY TabParts
<1>2. tab' = [tab EXCEPT ![t] = r] BY <1>1 DEF Display
<1>3. r \in TabRecord /\ r.op = tab[t].op /\ r.view = view /\ r.done = tab[t].done
  BY <1>1 DEF TabRecord
<1>4. TabGood(r, applied) BY <1>1, <1>3 DEF TabGood
<1>5. acted' \subseteq Tabs BY DEF AppInv, TypeOK
<1> HIDE DEF r
<1>6. QED BY <1>2, <1>4, <1>5, TabStep

\* Opening and leaving a form.
LEMMA Forms ==
  ASSUME AppInv, NEW t \in Tabs, OpenCreate(t) \/ OpenChange(t) \/ Back(t)
  PROVE  AppInv'
<1>1. tab[t] \in TabRecord /\ TabGood(tab[t], applied) /\ DOMAIN tab = Tabs
      /\ tab[t].view \in Views
  BY TabParts
<1>2. \E r \in TabRecord : /\ tab' = [tab EXCEPT ![t] = r]
                           /\ r.op = tab[t].op /\ r.view = tab[t].view /\ r.done = tab[t].done
  <2>1. CASE OpenCreate(t)
    <3> DEFINE r == [tab[t] EXCEPT !.screen = "form", !.form = [plan |-> None, due |-> 0]]
    <3>1. tab' = [tab EXCEPT ![t] = r] BY <1>1, <2>1 DEF OpenCreate, Opened
    <3>2. r \in TabRecord /\ r.op = tab[t].op /\ r.view = tab[t].view /\ r.done = tab[t].done
      BY <1>1 DEF TabRecord
    <3>3. QED BY <3>1, <3>2
  <2>2. CASE OpenChange(t)
    <3> DEFINE r == [tab[t] EXCEPT !.screen = "form",
                       !.form = [plan |-> tab[t].view.active, due |-> tab[t].view.due]]
    <3>1. tab' = [tab EXCEPT ![t] = r] BY <1>1, <2>2 DEF OpenChange
    <3>2. tab[t].view.active \in Plans \cup {None} /\ tab[t].view.due \in Nat
      BY <1>1 DEF Views
    <3>3. r \in TabRecord /\ r.op = tab[t].op /\ r.view = tab[t].view /\ r.done = tab[t].done
      BY <1>1, <3>2 DEF TabRecord
    <3>4. QED BY <3>1, <3>3
  <2>3. CASE Back(t)
    <3> DEFINE r == [tab[t] EXCEPT !.screen = "home"]
    <3>1. tab' = [tab EXCEPT ![t] = r] BY <1>1, <2>3 DEF Back
    <3>2. r \in TabRecord /\ r.op = tab[t].op /\ r.view = tab[t].view /\ r.done = tab[t].done
      BY <1>1 DEF TabRecord
    <3>3. QED BY <3>1, <3>2
  <2>4. QED BY <2>1, <2>2, <2>3
<1>3. PICK r \in TabRecord : /\ tab' = [tab EXCEPT ![t] = r]
                             /\ r.op = tab[t].op /\ r.view = tab[t].view
                             /\ r.done = tab[t].done
  BY <1>2
<1>4. TabGood(r, applied) BY <1>1, <1>3 DEF TabGood
<1>5. /\ UNCHANGED <<now, chain, flight, signed>> /\ acted' \subseteq Tabs
      /\ mishaps' \in Nat
  BY DEF OpenCreate, OpenChange, Back, AppInv, TypeOK
<1>6. QED BY <1>3, <1>4, <1>5, TabStep

\* An operation that starts knows what it is about.
LEMMA Begins ==
  ASSUME AppInv, NEW t \in Tabs, NEW kind \in {"create", "change", "cancel", "resume"},
         NEW plan \in Plans \cup {None}, NEW due \in Nat, NEW asset \in Nat,
         NEW cadence \in Nat, Begin(t, kind, plan, due, asset, cadence),
         kind # "create" => plan \in Plans,
         kind \in {"create", "change"} => asset \in Assets,
         kind # "cancel" => cadence \in Cadences
  PROVE  AppInv'
<1> DEFINE o == [Idle EXCEPT !.kind = kind, !.pc = "build", !.plan = plan, !.due = due,
                             !.asset = asset, !.cadence = cadence]
           r == [tab[t] EXCEPT !.op = o, !.done = None]
<1>1. tab[t] \in TabRecord /\ TabGood(tab[t], applied) /\ DOMAIN tab = Tabs BY TabParts
<1>2. tab' = [tab EXCEPT ![t] = r] BY <1>1 DEF Begin
<1>3. /\ o.kind = kind /\ o.pc = "build" /\ o.plan = plan /\ o.asset = asset
      /\ o.cadence = cadence /\ o.tx = None /\ o.verdict = "none"
  BY DEF Idle
<1>4. o \in Ops BY IdleGood DEF Ops
<1> HIDE DEF o
<1>5. OpGood(o, applied) BY <1>3 DEF OpGood
<1>6. r \in TabRecord /\ r.op = o /\ r.view = tab[t].view /\ r.done = None
  BY <1>1, <1>4 DEF TabRecord
<1>7. TabGood(r, applied) BY <1>1, <1>5, <1>6 DEF TabGood
<1>8. UNCHANGED <<now, chain, flight, signed>> /\ acted' \subseteq Tabs /\ mishaps' \in Nat
  BY DEF Begin, AppInv, TypeOK
<1> HIDE DEF r
<1>9. QED BY <1>2, <1>7, <1>8, TabStep

LEMMA OperationsBegin ==
  ASSUME AppInv, NEW t \in Tabs, Submit(t) \/ Stop(t) \/ Renew(t)
  PROVE  AppInv'
<1>1. tab[t] \in TabRecord /\ TabGood(tab[t], applied) /\ tab[t].view \in Views BY TabParts
<1>2. /\ tab[t].form.plan \in Plans \cup {None} /\ tab[t].form.due \in Nat
      /\ tab[t].view.active \in Plans \cup {None} /\ tab[t].view.cadence \in Nat
      /\ tab[t].view.active # None => tab[t].view.cadence \in Cadences
  BY <1>1 DEF TabRecord, Views, TabGood
<1>3. CASE Submit(t)
  <2>1. PICK a \in Assets, c \in Cadences :
          Begin(t, IF tab[t].form.plan = None THEN "create" ELSE "change",
                tab[t].form.plan, tab[t].form.due, a, c)
    BY <1>3 DEF Submit
  <2>2. a \in Nat /\ c \in Nat BY SavingsAppAssumption
  <2>3. CASE tab[t].form.plan = None
    <3>1. Begin(t, "create", tab[t].form.plan, tab[t].form.due, a, c) BY <2>1, <2>3
    <3>2. QED BY <1>2, <2>2, <3>1, Begins
  <2>4. CASE tab[t].form.plan # None
    <3>1. Begin(t, "change", tab[t].form.plan, tab[t].form.due, a, c) BY <2>1, <2>4
    <3>2. QED BY <1>2, <2>2, <2>4, <3>1, Begins
  <2>5. QED BY <2>3, <2>4
<1>4. CASE Stop(t)
  <2>1. Begin(t, "cancel", tab[t].view.active, 0, 0, 0) /\ tab[t].view.active # None
    BY <1>4 DEF Stop
  <2>2. QED BY <1>2, <2>1, Begins
<1>5. CASE Renew(t)
  <2>1. Begin(t, "resume", tab[t].view.active, 0, 0, tab[t].view.cadence)
        /\ tab[t].view.active # None
    BY <1>5 DEF Renew
  <2>2. QED BY <1>2, <2>1, Begins
<1>6. QED BY <1>3, <1>4, <1>5

\* What a tab is after an operation that failed.
LEMMA FailedGood ==
  ASSUME AppInv, NEW t \in Tabs
  PROVE  TabGood(Failed(t), applied)
<1>1. tab[t] \in TabRecord /\ TabGood(tab[t], applied) BY TabParts
<1>2. Failed(t) \in TabRecord /\ Failed(t).op = Idle /\ Failed(t).view = tab[t].view
      /\ Failed(t).done = tab[t].done
  BY <1>1, IdleGood DEF Failed, TabRecord
<1>3. QED BY <1>1, <1>2, IdleGood DEF TabGood

LEMMA Fails ==
  ASSUME AppInv, NEW t \in Tabs, tab' = [tab EXCEPT ![t] = Failed(t)],
         UNCHANGED <<now, chain, flight, signed, acted>>, mishaps' \in Nat
  PROVE  AppInv'
<1>1. acted' \subseteq Tabs BY DEF AppInv, TypeOK
<1>2. QED BY <1>1, FailedGood, TabStep

-----------------------------------------------------------------------------
(* What an operation builds *)

\* The transaction an operation asks for, whatever was read as the delegate.
BuiltFor(x, o, d) ==
  /\ TxGood(x) /\ x.id = 0 /\ x.kind = o.kind
  /\ o.kind \in {"create", "change"} =>
       /\ x.create \in Plans /\ schedule[x.create].status = "none"
       /\ x.approve = x.create /\ ~x.revoke
  /\ o.kind = "create" => x.cancel = None
  /\ o.kind \in {"change", "cancel"} => x.cancel = o.plan
  /\ o.kind \in {"cancel", "resume"} => x.create = None
  /\ o.kind = "cancel" => x.approve = None /\ (x.revoke <=> d = o.plan)
  /\ o.kind = "resume" => x.cancel = None /\ x.approve = o.plan /\ ~x.revoke

LEMMA NewPlanBuilt ==
  ASSUME NEW o \in Ops, NEW first \in Nat, o.asset \in Assets, o.cadence \in Cadences,
         o.kind \in {"create", "change"}, FreeIndexes(o.asset) # {}
  PROVE  LET x == NewPlan(o, first) IN
         /\ x \in Transactions
         /\ x.create \in Plans /\ schedule[x.create].status = "none"
         /\ x.approve = x.create /\ ~x.revoke /\ x.cancel = None
         /\ x.cadence = o.cadence /\ x.kind = o.kind /\ x.id = 0
<1> DEFINE i == Min(FreeIndexes(o.asset))
           p == <<o.asset, i>>
           x == NewPlan(o, first)
<1>1. i \in Indexes /\ schedule[p].status = "none" BY FreeIndexTaken DEF FreeIndexes
<1>2. p \in Plans BY <1>1 DEF Plans
<1>3. x = [NoInstructions EXCEPT !.create = p, !.approve = p, !.due = first,
                                 !.cadence = o.cadence, !.kind = o.kind]
  BY DEF NewPlan
<1> HIDE DEF p, x
<1>4. /\ x.create = p /\ x.approve = p /\ x.due = first /\ x.cadence = o.cadence
      /\ x.kind = o.kind /\ x.cancel = None /\ x.revoke = FALSE /\ x.id = 0
  BY <1>3 DEF NoInstructions
<1>5. o.cadence \in Nat BY DEF Ops
<1>6. x \in Transactions BY <1>2, <1>3, <1>5 DEF NoInstructions, Transactions
<1>7. QED BY <1>1, <1>2, <1>4, <1>6 DEF x, p

LEMMA Builds ==
  ASSUME AppInv, NEW t \in Tabs, At(t, "build"), NEW d, ~Refused(tab[t].op, d)
  PROVE  BuiltFor(Transaction(tab[t].op, d), tab[t].op, d)
<1> DEFINE o == tab[t].op
<1>1. o \in Ops /\ OpGood(o, applied) BY TabParts
<1>2. /\ o.kind \in {"create", "change", "cancel", "resume"}
      /\ o.kind # "create" => o.plan \in Plans
      /\ o.kind \in {"create", "change"} => o.asset \in Assets
      /\ o.kind # "cancel" => o.cadence \in Cadences
      /\ o.cadence \in Nat /\ o.due \in Nat
  BY <1>1 DEF At, OpGood, Ops
<1>3. now \in Nat BY DEF AppInv, TypeOK
<1>4. ~Refused(o, d) OBVIOUS
<1> HIDE DEF o
<1>5. o.kind \in {"create", "change"} => FreeIndexes(o.asset) # {} BY <1>4 DEF Refused
<1>6. CASE o.kind = "create"
  <2>1. Transaction(o, d) = NewPlan(o, now) BY <1>6 DEF Transaction, CreateTransaction
  <2> DEFINE x == NewPlan(o, now)
  <2>2. /\ x \in Transactions
        /\ x.create \in Plans /\ schedule[x.create].status = "none"
        /\ x.approve = x.create /\ ~x.revoke /\ x.cancel = None
        /\ x.cadence = o.cadence /\ x.kind = o.kind /\ x.id = 0
    BY <1>1, <1>2, <1>3, <1>5, <1>6, NewPlanBuilt
  <2> HIDE DEF x
  <2>3. BuiltFor(x, o, d) BY <1>2, <1>6, <2>2 DEF BuiltFor, TxGood
  <2>4. QED BY <2>1, <2>3 DEF x, o
<1>7. CASE o.kind = "change"
  <2> DEFINE first == Smaller(Larger(o.due, now), now + o.cadence)
             x == NewPlan(o, first)
             y == [x EXCEPT !.cancel = o.plan]
  <2>1. Transaction(o, d) = y BY <1>7 DEF Transaction, ChangeTransaction
  <2>2. first \in Nat BY <1>2, <1>3 DEF Smaller, Larger
  <2> HIDE DEF first
  <2>3. /\ x \in Transactions
        /\ x.create \in Plans /\ schedule[x.create].status = "none"
        /\ x.approve = x.create /\ ~x.revoke /\ x.cancel = None
        /\ x.cadence = o.cadence /\ x.kind = o.kind /\ x.id = 0
    BY <1>1, <1>2, <1>5, <1>7, <2>2, NewPlanBuilt
  <2> HIDE DEF x
  <2>4. /\ y \in Transactions /\ y.cancel = o.plan /\ y.create = x.create
        /\ y.approve = x.approve /\ y.revoke = x.revoke /\ y.cadence = x.cadence
        /\ y.kind = x.kind /\ y.id = x.id
    BY <1>2, <1>7, <2>3 DEF Transactions
  <2> HIDE DEF y
  <2>5. BuiltFor(y, o, d) BY <1>2, <1>7, <2>3, <2>4 DEF BuiltFor, TxGood
  <2>6. QED BY <2>1, <2>5 DEF o
<1>8. CASE o.kind = "cancel"
  <2> DEFINE y == CancelTransaction(o, d)
  <2>1. Transaction(o, d) = y BY <1>8 DEF Transaction
  <2>2. (d = o.plan) \in BOOLEAN OBVIOUS
  <2>3. /\ y.cancel = o.plan /\ y.create = None /\ y.approve = None
        /\ y.revoke = (d = o.plan) /\ y.kind = "cancel" /\ y.id = 0
    BY <1>8 DEF CancelTransaction, NoInstructions
  <2>4. y \in Transactions
    BY <1>2, <1>8, <2>2 DEF CancelTransaction, NoInstructions, Transactions
  <2> HIDE DEF y
  <2>5. BuiltFor(y, o, d) BY <1>8, <2>3, <2>4 DEF BuiltFor, TxGood
  <2>6. QED BY <2>1, <2>5 DEF o
<1>9. CASE o.kind = "resume"
  <2> DEFINE y == ResumeTransaction(o)
  <2>1. Transaction(o, d) = y BY <1>9 DEF Transaction
  <2>2. /\ y.cancel = None /\ y.create = None /\ y.approve = o.plan
        /\ y.revoke = FALSE /\ y.kind = "resume" /\ y.id = 0 /\ y.cadence = o.cadence
    BY <1>9 DEF ResumeTransaction, NoInstructions
  <2>3. y \in Transactions
    BY <1>2, <1>9 DEF ResumeTransaction, NoInstructions, Transactions
  <2> HIDE DEF y
  <2>4. BuiltFor(y, o, d) BY <1>2, <1>9, <2>2, <2>3 DEF BuiltFor, TxGood
  <2>5. QED BY <2>1, <2>4 DEF o
<1>10. QED BY <1>2, <1>6, <1>7, <1>8, <1>9

\* A tab whose operation moves on.
LEMMA OpMoves ==
  ASSUME AppInv, NEW t \in Tabs, NEW o \in Ops, NEW ap, OpGood(o, ap), applied \subseteq ap
  PROVE  TabGood([tab[t] EXCEPT !.op = o], ap)
<1> DEFINE r == [tab[t] EXCEPT !.op = o]
<1>1. tab[t] \in TabRecord /\ TabGood(tab[t], applied) BY TabParts
<1>2. r \in TabRecord /\ r.op = o /\ r.view = tab[t].view /\ r.done = tab[t].done
  BY <1>1 DEF TabRecord
<1>3. QED BY <1>1, <1>2 DEF TabGood

LEMMA BuildStep ==
  ASSUME AppInv, NEW t \in Tabs, NEW d, BuildReading(t, d), mishaps' \in Nat
  PROVE  AppInv'
<1>1. At(t, "build") /\ UNCHANGED <<now, chain, flight, signed, acted>>
  BY DEF BuildReading
<1>2. CASE Refused(tab[t].op, d)
  <2>1. tab' = [tab EXCEPT ![t] = Failed(t)] BY <1>2 DEF BuildReading
  <2>2. QED BY <1>1, <2>1, Fails
<1>3. CASE ~Refused(tab[t].op, d)
  <2> DEFINE x == Transaction(tab[t].op, d)
             o == [tab[t].op EXCEPT !.pc = "sign", !.tx = x]
             r == [tab[t] EXCEPT !.op = o]
  <2>1. tab' = [tab EXCEPT ![t] = [tab[t] EXCEPT !.op.pc = "sign", !.op.tx = x]]
    BY <1>3 DEF BuildReading
  <2>2. tab[t] \in TabRecord /\ tab[t].op \in Ops /\ OpGood(tab[t].op, applied)
    BY TabParts
  <2>3. TxGood(x) /\ x.id = 0 BY <1>1, <1>3, Builds DEF BuiltFor
  <2>4. x \in Transactions BY <2>3 DEF TxGood
  <2> HIDE DEF x
  <2>5. tab' = [tab EXCEPT ![t] = r] BY <2>1, <2>2
  <2>6. /\ o \in Ops /\ o.pc = "sign" /\ o.tx = x /\ o.kind = tab[t].op.kind
        /\ o.plan = tab[t].op.plan /\ o.asset = tab[t].op.asset
        /\ o.cadence = tab[t].op.cadence /\ o.verdict = tab[t].op.verdict
    BY <2>2, <2>4 DEF Ops
  <2> HIDE DEF o
  <2>7. OpGood(o, applied) BY <1>1, <2>2, <2>3, <2>6 DEF OpGood, At
  <2>8. TabGood(r, applied) BY <2>6, <2>7, OpMoves
  <2>9. acted' \subseteq Tabs BY <1>1 DEF AppInv, TypeOK
  <2> HIDE DEF r
  <2>10. QED BY <1>1, <2>5, <2>8, <2>9, TabStep
<1>4. QED BY <1>2, <1>3

-----------------------------------------------------------------------------
(* Signing, confirming and refreshing *)

\* The transaction that a wallet signs has a number of its own.
LEMMA SignedGood ==
  ASSUME AppInv, NEW t \in Tabs, At(t, "sign")
  PROVE  /\ TxGood(Signed(t)) /\ Signed(t).id = signed + 1
         /\ Signed(t) = [tab[t].op.tx EXCEPT !.id = signed + 1]
<1>1. TxGood(tab[t].op.tx) BY TabParts DEF At, OpGood
<1>2. signed + 1 \in Nat BY DEF AppInv, TypeOK
<1> DEFINE x == tab[t].op.tx
           y == [x EXCEPT !.id = signed + 1]
<1>3. Signed(t) = y BY DEF Signed
<1>4. x \in Transactions BY <1>1 DEF TxGood
<1>5. /\ y \in Transactions /\ y.id = signed + 1 /\ y.cancel = x.cancel
      /\ y.create = x.create /\ y.approve = x.approve /\ y.revoke = x.revoke
      /\ y.cadence = x.cadence /\ y.kind = x.kind
  BY <1>2, <1>4 DEF Transactions
<1>6. TxGood(x) BY <1>1
<1> HIDE DEF x, y
<1>7. TxGood(y) BY <1>5, <1>6 DEF TxGood
<1>8. QED BY <1>3, <1>5, <1>7 DEF x, y

\* A signed transaction joins those that may land.
LEMMA FlightStep ==
  ASSUME AppInv, NEW t \in Tabs, At(t, "sign"), NEW r, TabGood(r, applied),
         tab' = [tab EXCEPT ![t] = r], flight' = flight \cup {Signed(t)},
         signed' = signed + 1, UNCHANGED <<now, chain, acted>>, mishaps' \in Nat
  PROVE  AppInv'
<1>1. TxGood(Signed(t)) /\ Signed(t).id = signed + 1 BY SignedGood
<1> DEFINE y == Signed(t)
<1>2. y \in Transactions BY <1>1 DEF TxGood
<1>3. tab \in [Tabs -> TabRecord] /\ r \in TabRecord
  BY DEF AppInv, TypeOK, TabRecord, TabGood
<1>4. tab' \in [Tabs -> TabRecord] BY <1>3
<1>5. signed \in Nat /\ flight \subseteq Transactions BY DEF AppInv, TypeOK
<1>6. TypeOK' BY <1>2, <1>4, <1>5 DEF AppInv, TypeOK, TabRecord, chain
<1>7. \A s \in Tabs : TabGood(tab'[s], applied) BY <1>3 DEF AppInv
<1> HIDE DEF y
<1>8. \A x \in flight : TxGood(x) /\ x.id \in 1..signed BY DEF AppInv
<1>9. \A x \in flight' : TxGood(x) /\ x.id \in 1..signed'
  BY <1>1, <1>5, <1>8 DEF y
<1>10. \A x \in flight : x.id # y.id BY <1>1, <1>5, <1>8 DEF y
<1>11. \A x, z \in flight' : x.id = z.id => x = z
  BY <1>10 DEF AppInv, y
<1>12. QED BY <1>6, <1>7, <1>9, <1>11 DEF AppInv, chain

LEMMA SignStep ==
  ASSUME AppInv, NEW t \in Tabs, Sign(t) \/ SignErrs(t) \/ Decline(t)
  PROVE  AppInv'
<1>1. At(t, "sign") BY DEF Sign, SignErrs, Decline
<1>2. mishaps' \in Nat BY DEF Sign, SignErrs, Decline, Mishap, AppInv, TypeOK
<1>3. CASE Decline(t) BY <1>2, <1>3, Fails DEF Decline
<1>4. CASE SignErrs(t) BY <1>1, <1>2, <1>4, FailedGood, FlightStep DEF SignErrs
<1>5. CASE Sign(t)
  <2> DEFINE x == Signed(t)
             o == [tab[t].op EXCEPT !.pc = "confirm", !.tx = x]
             r == [tab[t] EXCEPT !.op = o]
  <2>1. tab[t] \in TabRecord /\ tab[t].op \in Ops /\ OpGood(tab[t].op, applied)
        /\ DOMAIN tab = Tabs
    BY TabParts
  <2>2. TxGood(x) BY <1>1, SignedGood
  <2>3. tab' = [tab EXCEPT ![t].op.pc = "confirm", ![t].op.tx = x] BY <1>5 DEF Sign
  <2> HIDE DEF x
  <2>4. tab' = [tab EXCEPT ![t] = r] BY <2>1, <2>3
  <2>5. x \in Transactions BY <2>2 DEF TxGood
  <2>6. /\ o \in Ops /\ o.pc = "confirm" /\ o.tx = x /\ o.kind = tab[t].op.kind
        /\ o.plan = tab[t].op.plan /\ o.asset = tab[t].op.asset
        /\ o.cadence = tab[t].op.cadence /\ o.verdict = tab[t].op.verdict
    BY <2>1, <2>5 DEF Ops
  <2> HIDE DEF o
  <2>7. OpGood(o, applied) BY <1>1, <2>1, <2>2, <2>6 DEF OpGood, At
  <2>8. TabGood(r, applied) BY <2>6, <2>7, OpMoves
  <2> HIDE DEF r
  <2>9. /\ flight' = flight \cup {Signed(t)} /\ signed' = signed + 1
        /\ UNCHANGED <<now, chain, acted>>
    BY <1>5 DEF Sign
  <2>10. QED BY <1>1, <1>2, <2>4, <2>8, <2>9, FlightStep
<1>6. QED BY <1>3, <1>4, <1>5

\* An operation resolves true only after its transaction took effect.
LEMMA Resolves ==
  ASSUME AppInv, NEW t \in Tabs, At(t, "refresh"), NEW view \in Views,
         view.active # None => view.cadence \in Cadences, Resolve(t, view),
         UNCHANGED <<now, chain, flight, signed, acted>>, mishaps' \in Nat
  PROVE  AppInv'
<1> DEFINE scr == IF Kind(t) \in {"create", "change"} THEN "home" ELSE tab[t].screen
           r == [tab[t] EXCEPT !.screen = scr, !.view = view, !.op = Idle,
                               !.done = tab[t].op.tx]
<1>1. tab[t] \in TabRecord /\ TabGood(tab[t], applied) /\ OpGood(tab[t].op, applied)
  BY TabParts
<1>2. tab' = [tab EXCEPT ![t] = r] BY <1>1 DEF Resolve, TabRecord
<1>3. TxGood(tab[t].op.tx) /\ tab[t].op.tx.id \in applied BY <1>1 DEF At, OpGood
<1>4. tab[t].op.tx \in Transactions BY <1>3 DEF TxGood
<1>5. scr \in {"loading", "home", "form"} BY <1>1 DEF TabRecord
<1> HIDE DEF scr
<1>6. r \in TabRecord /\ r.op = Idle /\ r.view = view /\ r.done = tab[t].op.tx
  BY <1>1, <1>4, <1>5, IdleGood DEF TabRecord
<1>7. TabGood(r, applied) BY <1>3, <1>6, IdleGood DEF TabGood
<1>8. acted' \subseteq Tabs BY DEF AppInv, TypeOK
<1> HIDE DEF r
<1>9. QED BY <1>2, <1>7, <1>8, TabStep

LEMMA ConfirmStep ==
  ASSUME AppInv, NEW t \in Tabs, Confirm(t)
  PROVE  AppInv'
<1>1. At(t, "confirm") /\ UNCHANGED <<now, chain, flight, signed, acted, mishaps>>
      /\ mishaps' \in Nat /\ acted' \subseteq Tabs
  BY DEF Confirm, AppInv, TypeOK
<1>2. CASE ~Confirmed(t) BY <1>1, <1>2, Fails DEF Confirm
<1>3. CASE Confirmed(t)
  <2> DEFINE o == [tab[t].op EXCEPT !.pc = "refresh"]
             r == [tab[t] EXCEPT !.op = o]
  <2>1. tab[t] \in TabRecord /\ tab[t].op \in Ops /\ OpGood(tab[t].op, applied)
        /\ DOMAIN tab = Tabs
    BY TabParts
  <2>2. tab' = [tab EXCEPT ![t] = [tab[t] EXCEPT !.op.pc = "refresh"]]
    BY <1>3 DEF Confirm
  <2>3. tab' = [tab EXCEPT ![t] = r] BY <2>1, <2>2
  <2>4. /\ o \in Ops /\ o.pc = "refresh" /\ o.tx = tab[t].op.tx
        /\ o.kind = tab[t].op.kind
        /\ o.plan = tab[t].op.plan /\ o.asset = tab[t].op.asset
        /\ o.cadence = tab[t].op.cadence /\ o.verdict = tab[t].op.verdict
    BY <2>1 DEF Ops
  <2> HIDE DEF o
  <2>5. OpGood(o, applied) BY <1>1, <1>3, <2>1, <2>4 DEF OpGood, At, Confirmed
  <2>6. TabGood(r, applied) BY <2>4, <2>5, OpMoves
  <2> HIDE DEF r
  <2>7. QED BY <1>1, <2>3, <2>6, TabStep
<1>4. QED BY <1>2, <1>3

\* Every step that a tab makes keeps the invariant.
LEMMA TabsKeep ==
  ASSUME AppInv, NEW t \in Tabs,
         \/ Show(t) \/ Taps(t) \/ Build(t) \/ Sign(t) \/ Decline(t) \/ Answers(t) \/ Errs(t)
  PROVE  AppInv'
<1>1. mishaps \in Nat /\ (Mishap => mishaps' \in Nat) /\ acted \subseteq Tabs
  BY DEF Mishap, AppInv, TypeOK
<1>2. /\ View(delegate) \in Views
      /\ View(delegate).active # None => View(delegate).cadence \in Cadences
      /\ View(None) \in Views
      /\ View(None).active # None => View(None).cadence \in Cadences
  BY ViewType
<1>3. CASE Show(t) BY <1>1, <1>2, <1>3, Displays DEF Show
<1>4. CASE Taps(t) BY <1>4, Forms, OperationsBegin DEF Taps
<1>5. CASE Build(t) BY <1>1, <1>5, BuildStep DEF Build
<1>6. CASE Sign(t) \/ Decline(t) BY <1>6, SignStep
<1>7. CASE Answers(t)
  <2>1. CASE Confirm(t) BY <2>1, ConfirmStep
  <2>2. CASE Timeout(t) BY <1>1, <2>2, Fails DEF Timeout
  <2>3. CASE Refresh(t) BY <1>1, <1>2, <2>3, Resolves DEF Refresh
  <2>4. QED BY <1>7, <2>1, <2>2, <2>3 DEF Answers
<1>8. CASE Errs(t)
  <2>1. CASE ShowErrs(t) BY <1>1, <1>2, <2>1, UnreadType, Displays DEF ShowErrs
  <2>2. CASE BuildMisread(t) BY <1>1, <2>2, BuildStep DEF BuildMisread
  <2>3. CASE SignErrs(t) BY <2>3, SignStep
  <2>4. CASE ConfirmErrs(t) BY <1>1, <2>4, Fails DEF ConfirmErrs
  <2>5. CASE RefreshErrs(t)
    <3>1. tab[t].view \in Views
          /\ (tab[t].view.active # None => tab[t].view.cadence \in Cadences)
      BY TabParts DEF TabGood
    <3>2. At(t, "refresh") /\ mishaps' \in Nat
          /\ UNCHANGED <<now, chain, flight, signed, acted>>
          /\ (Resolve(t, tab[t].view) \/ Resolve(t, View(None)))
      BY <1>1, <2>5 DEF RefreshErrs
    <3>3. QED BY <1>2, <3>1, <3>2, Resolves
  <2>6. CASE Reload(t) BY <1>1, <2>6, OpenedGood, TabStep DEF Reload
  <2>7. QED BY <1>8, <2>1, <2>2, <2>3, <2>4, <2>5, <2>6 DEF Errs
<1>9. QED BY <1>3, <1>4, <1>5, <1>6, <1>7, <1>8

-----------------------------------------------------------------------------
(* The steps of the chain and of the network *)

\* The verdict on a transaction reaches the operation that waits for it only.
LEMMA JudgedGood ==
  ASSUME AppInv, NEW x \in flight, NEW verdict \in {"ok", "err"}, Judged(x, verdict),
         NEW ap, applied \subseteq ap, verdict = "ok" => x.id \in ap
  PROVE  tab' \in [Tabs -> TabRecord] /\ \A t \in Tabs : TabGood(tab'[t], ap)
<1>1. TxGood(x) /\ x.id \in 1..signed /\ signed \in Nat BY DEF AppInv, TypeOK
<1>2. x # None BY <1>1, SavingsAppAssumption DEF TxGood
<1>3. ASSUME NEW t \in Tabs PROVE TabGood(tab'[t], ap)
  <2>1. tab[t] \in TabRecord /\ tab[t].op \in Ops /\ TabGood(tab[t], applied)
        /\ OpGood(tab[t].op, applied)
    BY TabParts
  <2>2. CASE tab[t].op.tx # x
    <3>1. tab'[t] = tab[t] BY <2>2 DEF Judged
    <3>2. OpGood(tab[t].op, ap) BY <2>1 DEF OpGood
    <3>3. QED BY <2>1, <3>1, <3>2 DEF TabGood
  <2>3. CASE tab[t].op.tx = x
    <3> DEFINE o == [tab[t].op EXCEPT !.verdict = verdict]
    <3>1. tab'[t] = [tab[t] EXCEPT !.op.verdict = verdict] BY <2>3 DEF Judged
    <3>2. tab'[t] = [tab[t] EXCEPT !.op = o] BY <2>1, <3>1
    <3>3. /\ o \in Ops /\ o.pc = tab[t].op.pc /\ o.tx = x /\ o.kind = tab[t].op.kind
          /\ o.plan = tab[t].op.plan /\ o.asset = tab[t].op.asset
          /\ o.cadence = tab[t].op.cadence /\ o.verdict = verdict
      BY <2>1, <2>3 DEF Ops
    <3>4. tab[t].op.pc \notin {"idle", "build", "sign"}
      BY <1>1, <1>2, <2>1, <2>3 DEF OpGood
    <3>5. x.id \in applied \/ tab[t].op.pc # "refresh" BY <2>1, <2>3 DEF OpGood
    <3> HIDE DEF o
    <3>6. OpGood(o, ap) BY <2>1, <2>3, <3>3, <3>4, <3>5 DEF OpGood
    <3>7. TabGood([tab[t] EXCEPT !.op = o], ap) BY <3>3, <3>6, OpMoves
    <3>8. QED BY <3>2, <3>7
  <2>4. QED BY <2>2, <2>3
<1>4. DOMAIN tab' = Tabs /\ tab' = [t \in Tabs |-> tab'[t]] BY DEF Judged
<1>5. QED BY <1>3, <1>4 DEF TabGood

\* What a transaction does to the plans.
LEMMA Applies ==
  ASSUME AppInv, NEW x \in flight, Acceptable(x), Apply(x)
  PROVE  /\ schedule' \in [Plans -> [status : {"none", "active", "cancelled"}, due : Nat,
                                    cadence : Nat]]
         /\ \A p \in Plans : schedule'[p].status = "active" =>
              schedule'[p].cadence \in Cadences
         /\ delegate' \in Delegates /\ allowance' \in Nat
         /\ Active' = (Active \ {x.cancel}) \cup ({x.create} \ {None})
         /\ x.create # None => x.create \in Plans \ Active
<1>1. TxGood(x) BY DEF AppInv
<1>2. /\ x.cancel \in Plans \cup {None} /\ x.create \in Plans \cup {None} /\ x.due \in Nat
      /\ x.approve \in Plans \cup {None} /\ x.cadence \in Nat /\ x.revoke \in BOOLEAN
      /\ x.create # None \/ x.approve # None => x.cadence \in Cadences
  BY <1>1 DEF TxGood, Transactions
<1>3. /\ schedule \in [Plans -> [status : {"none", "active", "cancelled"}, due : Nat,
                                 cadence : Nat]]
      /\ delegate \in Delegates /\ allowance \in Nat
      /\ \A p \in Plans : schedule[p].status = "active" => schedule[p].cadence \in Cadences
  BY DEF AppInv, TypeOK
<1>4. /\ x.cancel # None => x.cancel \in Active
      /\ x.create # None => schedule[x.create].status = "none"
  BY DEF Acceptable
<1>5. None \notin Plans /\ Runs \in [Cadences -> Nat \ {0}] BY SavingsAppAssumption
<1>6. \A p \in Plans :
        schedule'[p] = IF p = x.cancel THEN [schedule[p] EXCEPT !.status = "cancelled"]
                       ELSE IF p = x.create
                         THEN [status |-> "active", due |-> x.due, cadence |-> x.cadence]
                       ELSE schedule[p]
  BY DEF Apply
<1>7. ASSUME NEW p \in Plans
      PROVE  /\ schedule'[p] \in [status : {"none", "active", "cancelled"}, due : Nat,
                                  cadence : Nat]
             /\ schedule'[p].status = "active" => schedule'[p].cadence \in Cadences
             /\ schedule'[p].status = "active" <=>
                  p # x.cancel /\ (p = x.create \/ schedule[p].status = "active")
  <2>1. CASE p = x.cancel
    <3>1. schedule'[p] = [schedule[p] EXCEPT !.status = "cancelled"] BY <1>6, <2>1
    <3>2. QED BY <1>3, <2>1, <3>1
  <2>2. CASE p # x.cancel /\ p = x.create
    <3>1. schedule'[p] = [status |-> "active", due |-> x.due, cadence |-> x.cadence]
      BY <1>6, <2>2
    <3>2. x.cadence \in Cadences BY <1>2, <1>5, <2>2
    <3>3. QED BY <1>2, <2>2, <3>1, <3>2
  <2>3. CASE p # x.cancel /\ p # x.create
    <3>1. schedule'[p] = schedule[p] BY <1>6, <2>3
    <3>2. QED BY <1>3, <2>3, <3>1
  <2>4. QED BY <2>1, <2>2, <2>3
<1>8. schedule' \in [Plans -> [status : {"none", "active", "cancelled"}, due : Nat,
                               cadence : Nat]]
  <2>1. schedule' = [p \in Plans |-> schedule'[p]] BY DEF Apply
  <2>2. QED BY <1>7, <2>1
<1>9. x.create # None => x.create \in Plans \ Active BY <1>2, <1>4 DEF Active
<1>10. Active' = (Active \ {x.cancel}) \cup ({x.create} \ {None})
  <2>1. \A p \in Plans : p \in Active' <=>
          p # x.cancel /\ (p = x.create \/ p \in Active)
    BY <1>7 DEF Active
  <2>2. x.create # None => x.create # x.cancel BY <1>4, <1>9
  <2>3. Active' \subseteq Plans /\ Active \subseteq Plans BY DEF Active
  <2>4. QED BY <1>2, <1>5, <2>1, <2>2, <2>3
<1>11. delegate' \in Delegates /\ allowance' \in Nat
  <2>1. /\ delegate' = IF x.revoke THEN None ELSE IF x.approve # None THEN x.approve
                       ELSE delegate
        /\ allowance' = IF x.revoke THEN 0 ELSE IF x.approve # None THEN Runs[x.cadence]
                        ELSE allowance
    BY DEF Apply
  <2>2. QED BY <1>2, <1>3, <1>5, <2>1 DEF Delegates
<1>12. QED BY <1>7, <1>8, <1>9, <1>10, <1>11

LEMMA LandStep ==
  ASSUME AppInv, NEW x \in flight, Land(x)
  PROVE  AppInv'
<1>1. x.id \in Nat /\ flight' \subseteq flight /\ UNCHANGED <<now, signed, acted, mishaps>>
  BY DEF Land, AppInv, TxGood, Transactions
<1>2. CASE Acceptable(x)
  <2>1. Apply(x) /\ Judged(x, "ok") BY <1>2 DEF Land
  <2>2. applied' = applied \cup {x.id} /\ cash' = cash BY <2>1 DEF Apply
  <2>3. tab' \in [Tabs -> TabRecord] /\ \A t \in Tabs : TabGood(tab'[t], applied')
    BY <2>1, <2>2, JudgedGood
  <2>4. /\ schedule' \in [Plans -> [status : {"none", "active", "cancelled"}, due : Nat,
                                    cadence : Nat]]
        /\ \A p \in Plans : schedule'[p].status = "active" =>
             schedule'[p].cadence \in Cadences
        /\ delegate' \in Delegates /\ allowance' \in Nat
    BY <1>2, <2>1, Applies
  <2>5. TypeOK' BY <1>1, <2>2, <2>3, <2>4 DEF AppInv, TypeOK, TabRecord
  <2>6. QED BY <1>1, <2>3, <2>4, <2>5 DEF AppInv
<1>3. CASE ~Acceptable(x)
  <2>1. UNCHANGED chain /\ Judged(x, "err") BY <1>3 DEF Land
  <2>2. tab' \in [Tabs -> TabRecord] /\ \A t \in Tabs : TabGood(tab'[t], applied)
    BY <2>1, JudgedGood
  <2>3. TypeOK' BY <1>1, <2>1, <2>2 DEF AppInv, TypeOK, TabRecord, chain
  <2>4. QED BY <1>1, <2>1, <2>2, <2>3 DEF AppInv, chain
<1>4. QED BY <1>2, <1>3

\* A keeper's buy moves the due date on and draws from cash and allowance.
LEMMA BuyStep ==
  ASSUME AppInv, NEW p \in Plans, KeeperBuys(p)
  PROVE  AppInv' /\ Active' = Active /\ delegate' \in {delegate, None}
<1> DEFINE due == IF schedule[p].due + schedule[p].cadence > now
                    THEN schedule[p].due + schedule[p].cadence
                    ELSE now + schedule[p].cadence
           next == [schedule[p] EXCEPT !.due = due]
<1>1. /\ schedule \in [Plans -> [status : {"none", "active", "cancelled"}, due : Nat,
                                 cadence : Nat]]
      /\ now \in Nat /\ allowance \in Nat /\ cash \in Nat /\ delegate \in Delegates
      /\ \A q \in Plans : schedule[q].status = "active" => schedule[q].cadence \in Cadences
  BY DEF AppInv, TypeOK
<1>2. due \in Nat BY <1>1
<1>3. schedule' = [schedule EXCEPT ![p] = next] BY <1>1 DEF KeeperBuys
<1> HIDE DEF due
<1>4. /\ next \in [status : {"none", "active", "cancelled"}, due : Nat, cadence : Nat]
      /\ next.status = schedule[p].status /\ next.cadence = schedule[p].cadence
  BY <1>1, <1>2
<1> HIDE DEF next
<1>5. /\ schedule' \in [Plans -> [status : {"none", "active", "cancelled"}, due : Nat,
                                  cadence : Nat]]
      /\ \A q \in Plans : /\ schedule'[q].status = schedule[q].status
                          /\ schedule'[q].cadence = schedule[q].cadence
  BY <1>1, <1>3, <1>4
<1>6. cash' \in Nat /\ allowance' \in Nat /\ delegate' \in {delegate, None}
      /\ delegate' \in Delegates
  BY <1>1 DEF KeeperBuys, Buyable, Delegates
<1>7. UNCHANGED <<now, applied, flight, tab, signed, acted, mishaps>> BY DEF KeeperBuys
<1>8. TypeOK' BY <1>5, <1>6, <1>7 DEF AppInv, TypeOK
<1>9. Active' = Active BY <1>5 DEF Active
<1>10. QED BY <1>1, <1>5, <1>6, <1>7, <1>8, <1>9 DEF AppInv

LEMMA InitAppInv == Init => AppInv
<1> SUFFICES ASSUME Init PROVE AppInv OBVIOUS
<1>1. \A t \in Tabs : TabGood(tab[t], applied) BY OpenedGood DEF Init
<1>2. tab \in [Tabs -> TabRecord] BY OpenedGood DEF Init, TabGood
<1>3. cash \in Nat BY SavingsAppAssumption DEF Init
<1>4. schedule \in [Plans -> [status : {"none", "active", "cancelled"}, due : Nat,
                              cadence : Nat]]
      /\ \A p \in Plans : schedule[p].status # "active"
  BY DEF Init
<1>5. TypeOK BY <1>2, <1>3, <1>4 DEF Init, TypeOK, TabRecord, Delegates
<1>6. QED BY <1>1, <1>4, <1>5 DEF Init, AppInv

LEMMA AppInvStep == AppInv /\ [Next]_vars => AppInv'
<1> SUFFICES ASSUME AppInv, [Next]_vars PROVE AppInv' OBVIOUS
<1>1. ASSUME NEW t \in Tabs,
             \/ Show(t) \/ Taps(t) \/ Build(t) \/ Sign(t) \/ Decline(t) \/ Answers(t)
             \/ Errs(t)
      PROVE  AppInv'
  BY <1>1, TabsKeep
<1>2. ASSUME NEW x \in flight, Land(x) \/ Drop(x) PROVE AppInv'
  <2>1. CASE Land(x) BY <2>1, LandStep
  <2>2. CASE Drop(x)
    <3>1. flight' \subseteq flight /\ mishaps' \in Nat
          /\ UNCHANGED <<now, chain, tab, signed, acted>>
      BY <2>2 DEF Drop, Mishap, AppInv, TypeOK
    <3>2. TypeOK' BY <3>1 DEF AppInv, TypeOK, chain
    <3>3. QED BY <3>1, <3>2 DEF AppInv, chain
  <2>3. QED BY <1>2, <2>1, <2>2
<1>3. ASSUME NEW p \in Plans, KeeperBuys(p) PROVE AppInv' BY <1>3, BuyStep
<1>4. CASE Elsewhere
  <2>1. delegate' \in Delegates /\ allowance' \in Nat /\ mishaps' \in Nat
        /\ UNCHANGED <<now, schedule, cash, applied, flight, tab, signed, acted>>
    BY <1>4 DEF Elsewhere, Mishap, Delegates, AppInv, TypeOK
  <2>2. TypeOK' BY <2>1 DEF AppInv, TypeOK
  <2>3. QED BY <2>1, <2>2 DEF AppInv
<1>5. CASE Tick
  <2>1. now' \in Nat /\ UNCHANGED <<chain, flight, tab, signed, acted, mishaps>>
    BY <1>5 DEF Tick, AppInv, TypeOK
  <2>2. TypeOK' BY <2>1 DEF AppInv, TypeOK, chain
  <2>3. QED BY <2>1, <2>2 DEF AppInv, chain
<1>6. CASE UNCHANGED vars BY <1>6 DEF vars, chain, AppInv, TypeOK
<1>7. QED BY <1>1, <1>2, <1>3, <1>4, <1>5, <1>6 DEF Next

LEMMA AppInvHolds == Spec => []AppInv
BY InitAppInv, AppInvStep, PTL DEF Spec

\* Whatever is lost, misread or interrupted, the app's state and the chain's stay
\* well typed, and no buy draws cash or an allowance below zero.
THEOREM AppTypes == Spec => []TypeOK
<1>1. AppInv => TypeOK BY DEF AppInv
<1>2. QED BY <1>1, AppInvHolds, PTL

\* An operation that told the saver it succeeded did take effect on the chain.
THEOREM TrueIsLanded == Spec => []TrueMeansLanded
<1>1. AppInv => TrueMeansLanded BY DEF AppInv, TabGood, TrueMeansLanded
<1>2. QED BY <1>1, AppInvHolds, PTL

-----------------------------------------------------------------------------
(* A change is one plan for one *)

\* Only a transaction that lands is applied, and it was acceptable.
LEMMA OnlyLandingApplies ==
  ASSUME AppInv, [Next]_vars, applied' # applied
  PROVE  \E x \in flight : Acceptable(x) /\ Apply(x)
<1>1. ASSUME NEW t \in Tabs,
             \/ Show(t) \/ Taps(t) \/ Build(t) \/ Sign(t) \/ Decline(t) \/ Answers(t)
             \/ Errs(t)
      PROVE  UNCHANGED chain
  BY <1>1 DEF Show, Taps, OpenCreate, OpenChange, Back, Submit, Stop, Renew, Begin, Build,
              BuildReading, Sign, Decline, Answers, Confirm, Timeout, Refresh, Errs,
              ShowErrs, BuildMisread, SignErrs, ConfirmErrs, RefreshErrs, Reload
<1>2. ASSUME NEW x \in flight, Land(x) \/ Drop(x)
      PROVE  UNCHANGED chain \/ (Acceptable(x) /\ Apply(x))
  BY <1>2 DEF Land, Drop
<1>3. ASSUME NEW p \in Plans, KeeperBuys(p) PROVE applied' = applied
  BY <1>3 DEF KeeperBuys
<1>4. QED BY <1>1, <1>2, <1>3 DEF Next, Elsewhere, Tick, vars, chain

LEMMA ChangeStep ==
  ASSUME AppInv, [Next]_vars, NEW x \in flight, x.kind = "change",
         x.id \in applied' \ applied
  PROVE  Cardinality(Active') = Cardinality(Active) /\ delegate' \in Active' \ Active
<1>1. PICK y \in flight : Acceptable(y) /\ Apply(y) BY OnlyLandingApplies
<1>2. applied' = applied \cup {y.id} BY <1>1 DEF Apply
<1>3. y = x BY <1>2 DEF AppInv
<1>4. x.cancel \in Plans /\ x.create \in Plans /\ x.approve = x.create /\ ~x.revoke
  BY DEF AppInv, TxGood
<1>5. None \notin Plans /\ x.cancel # None /\ x.create # None
  BY <1>4, SavingsAppAssumption
<1>6. /\ Active' = (Active \ {x.cancel}) \cup ({x.create} \ {None})
      /\ x.create \in Plans \ Active
  BY <1>1, <1>3, <1>5, Applies
<1>7. x.cancel \in Active BY <1>1, <1>3, <1>5 DEF Acceptable
<1>8. IsFiniteSet(Active)
  <2>1. IsFiniteSet(Plans) BY SavingsAppAssumption, FS_Product DEF Plans
  <2>2. Active \subseteq Plans BY DEF Active
  <2>3. QED BY <2>1, <2>2, FS_Subset
<1> DEFINE rest == Active \ {x.cancel}
<1>9. IsFiniteSet(rest) /\ Cardinality(rest) = Cardinality(Active) - 1
  BY <1>7, <1>8, FS_RemoveElement
<1>10. Active' = rest \cup {x.create} /\ x.create \notin rest BY <1>5, <1>6
<1>11. Cardinality(Active) \in Nat BY <1>8, FS_CardinalityType
<1> HIDE DEF rest
<1>12. Cardinality(Active') = Cardinality(rest) + 1 BY <1>9, <1>10, FS_AddElement
<1>13. Cardinality(Active') = Cardinality(Active) BY <1>9, <1>11, <1>12
<1>14. delegate' = x.create
  <2>1. delegate' = IF x.revoke THEN None ELSE IF x.approve # None THEN x.approve
                    ELSE delegate
    BY <1>1, <1>3 DEF Apply
  <2>2. QED BY <1>4, <1>5, <2>1
<1>15. delegate' \in Active' \ Active BY <1>6, <1>10, <1>14
<1>16. QED BY <1>13, <1>15

\* When a change lands there are as many plans as before, and the one that may
\* spend is the one it made, whatever the app had read when it built the change.
THEOREM ChangeSwaps == Spec => ChangeIsOneForOne
<1>1. AppInv /\ [Next]_vars =>
        [ \A x \in flight :
            x.kind = "change" /\ x.id \in applied' \ applied =>
              /\ Cardinality(Active') = Cardinality(Active)
              /\ delegate' \in Active' \ Active ]_vars
  BY ChangeStep
<1>2. QED BY <1>1, AppInvHolds, PTL DEF Spec, ChangeIsOneForOne

-----------------------------------------------------------------------------
(* One tab, and nothing going wrong *)

Sole(v) == IF v = None THEN {} ELSE {v}

\* What the lone tab's transaction will do.
TxFits(x, kind, plan, d) ==
  /\ kind \in {"create", "change"} =>
       x.create \in Plans /\ x.approve = x.create /\ ~x.revoke
  /\ kind \in {"create", "resume"} => x.cancel = None
  /\ kind \in {"change", "cancel"} => x.cancel = plan
  /\ kind \in {"cancel", "resume"} => x.create = None
  /\ kind = "cancel" => x.approve = None /\ (x.revoke \/ d = None)
  /\ kind = "resume" => x.approve = plan /\ ~x.revoke

NotLanded(o) == o.pc \in {"idle", "build", "sign"} \/ (o.pc = "confirm" /\ o.verdict # "ok")

\* The screen of the one tab that acts is true of the chain until what it sent has
\* landed, and nothing else is in flight.
LoneFits(scr, v, f, o) ==
  /\ scr # "loading"
  /\ scr = "form" => f = v
  /\ o.pc # "idle" =>
       /\ o.kind = "create" => v = None
       /\ o.kind # "create" => v # None /\ o.plan = v
       /\ o.kind \in {"cancel", "resume"} => scr = "home"
  /\ NotLanded(o) => Active = Sole(v)
  /\ o.pc = "confirm" /\ o.verdict = "none" => flight = {o.tx}
  /\ o.pc # "confirm" \/ o.verdict # "none" => flight = {}
  /\ o.pc = "sign" \/ (o.pc = "confirm" /\ o.verdict = "none") =>
       TxFits(o.tx, o.kind, o.plan, delegate)

ChainTidy == (\E u : Active = Sole(u)) /\ delegate \in Active \cup {None}

Lone(t) ==
  /\ ChainTidy
  /\ LoneFits(tab[t].screen, tab[t].view.active, tab[t].form.plan, tab[t].op)
  /\ \A s \in Tabs \ {t} : tab[s].op.pc = "idle"

\* Nobody has done anything yet.
Fresh ==
  /\ Active = {} /\ delegate = None /\ flight = {}
  /\ \A t \in Tabs : /\ tab[t].op.pc = "idle"
                     /\ tab[t].view.active = None
                     /\ tab[t].screen = "form" => tab[t].form.plan = None

TidyInv ==
  /\ AppInv
  /\ IsFiniteSet(acted)
  /\ mishaps = 0 => /\ acted = {} => Fresh
                    /\ \A t \in Tabs : acted = {t} => Lone(t)

\* The steps of a tab in which nothing goes wrong.
Smooth(t) ==
  Show(t) \/ Taps(t) \/ Build(t) \/ Sign(t) \/ Decline(t) \/ Answers(t)

\* A step of a tab leaves the chain and the other tabs alone.
LEMMA SmoothFrame ==
  ASSUME AppInv, NEW t \in Tabs, Smooth(t)
  PROVE  /\ UNCHANGED chain /\ Active' = Active
         /\ \A s \in Tabs \ {t} : tab'[s] = tab[s]
<1>1. DOMAIN tab = Tabs BY TabParts
<1>2. UNCHANGED chain
  BY DEF Smooth, Show, Taps, OpenCreate, OpenChange, Back, Submit, Stop, Renew, Begin,
         Build, BuildReading, Sign, Decline, Answers, Confirm, Timeout, Refresh
<1>3. \A s \in Tabs \ {t} : tab'[s] = tab[s]
  BY <1>1 DEF Smooth, Show, Display, Taps, OpenCreate, OpenChange, Back, Submit, Stop,
              Renew, Begin, Build, BuildReading, Sign, Decline, Answers, Confirm, Timeout,
              Refresh, Resolve
<1>4. Active' = Active BY <1>2 DEF Active, chain
<1>5. QED BY <1>2, <1>3, <1>4

\* What a refresh shows of a tidy chain.
LEMMA ViewOfSole ==
  ASSUME AppInv, NEW u, Active = Sole(u), NEW d
  PROVE  Active = Sole(View(d).active)
<1>1. None \notin Active BY SavingsAppAssumption DEF Active
<1>2. CASE Active = {} BY <1>2 DEF View, Unread, Sole
<1>3. CASE Active # {}
  <2>1. First(Active) \in Active BY <1>3, FirstIsActive
  <2>2. View(d).active = First(Active) BY <1>3 DEF View
  <2>3. Active = {u} BY <1>3 DEF Sole
  <2>4. QED BY <1>1, <2>1, <2>2, <2>3 DEF Sole
<1>4. QED BY <1>2, <1>3

\* A step that leaves the operation alone.
LEMMA LoneScreens ==
  ASSUME AppInv, NEW t \in Tabs, Lone(t), Show(t) \/ OpenCreate(t) \/ OpenChange(t) \/ Back(t)
  PROVE  LoneFits(tab[t].screen, tab[t].view.active, tab[t].form.plan, tab[t].op)'
<1>1. tab[t] \in TabRecord /\ tab[t].op \in Ops /\ OpGood(tab[t].op, applied)
      /\ DOMAIN tab = Tabs
  BY TabParts
<1>2. UNCHANGED <<chain, flight>> /\ Active' = Active /\ delegate' = delegate
  <2>1. UNCHANGED flight BY DEF Show, OpenCreate, OpenChange, Back
  <2>2. QED BY <2>1, SmoothFrame DEF Smooth, Taps, chain
<1>3. LoneFits(tab[t].screen, tab[t].view.active, tab[t].form.plan, tab[t].op)
  BY DEF Lone
<1>4. CASE Show(t) BY <1>3, <1>4 DEF Show, LoneFits
<1>5. CASE OpenCreate(t)
  <2>1. /\ tab'[t].screen = "form" /\ tab'[t].view = tab[t].view
        /\ tab'[t].form.plan = None /\ tab'[t].op = tab[t].op
    BY <1>1, <1>5 DEF OpenCreate, Opened, TabRecord
  <2>2. tab[t].view.active = None BY <1>5 DEF OpenCreate
  <2>3. tab[t].op.kind \in {"cancel", "resume"} => tab[t].op.pc = "idle"
    BY <1>3, <2>2 DEF LoneFits
  <2>4. QED BY <1>2, <1>3, <2>1, <2>2, <2>3 DEF LoneFits, NotLanded, TxFits
<1>6. CASE OpenChange(t)
  <2>1. /\ tab'[t].screen = "form" /\ tab'[t].view = tab[t].view
        /\ tab'[t].form.plan = tab[t].view.active /\ tab'[t].op = tab[t].op
    BY <1>1, <1>6 DEF OpenChange, TabRecord
  <2>2. tab[t].op.pc = "idle" BY <1>6 DEF OpenChange, Busy, At
  <2>3. QED BY <1>2, <1>3, <2>1, <2>2 DEF LoneFits, NotLanded, TxFits
<1>7. CASE Back(t)
  <2>1. /\ tab'[t].screen = "home" /\ tab'[t].view = tab[t].view
        /\ tab'[t].op = tab[t].op
    BY <1>1, <1>7 DEF Back, TabRecord
  <2>2. QED BY <1>2, <1>3, <2>1 DEF LoneFits, NotLanded, TxFits
<1>8. QED BY <1>4, <1>5, <1>6, <1>7

\* An operation begins on a screen that is true of the chain: of the lone tab, or
\* of the first that acts.
LEMMA LoneBegins ==
  ASSUME AppInv, NEW t \in Tabs, Submit(t) \/ Stop(t) \/ Renew(t), flight = {},
         Active = Sole(tab[t].view.active),
         tab[t].screen = "form" => tab[t].form.plan = tab[t].view.active
  PROVE  LoneFits(tab[t].screen, tab[t].view.active, tab[t].form.plan, tab[t].op)'
<1>1. tab[t] \in TabRecord /\ DOMAIN tab = Tabs BY TabParts
<1>2. UNCHANGED flight /\ Active' = Active
  <2>1. UNCHANGED flight BY DEF Submit, Stop, Renew, Begin
  <2>2. QED BY <2>1, SmoothFrame DEF Smooth, Taps
<1> DEFINE v == tab[t].view.active
<1>3. PICK kind, plan, due, asset, cadence :
        /\ Begin(t, kind, plan, due, asset, cadence)
        /\ plan = v /\ tab[t].screen # "loading"
        /\ kind = "create" => v = None
        /\ kind # "create" => v # None
        /\ kind \in {"cancel", "resume"} => tab[t].screen = "home"
  <2>1. CASE Submit(t)
    <3>1. PICK a \in Assets, c \in Cadences :
            Begin(t, IF tab[t].form.plan = None THEN "create" ELSE "change",
                  tab[t].form.plan, tab[t].form.due, a, c)
      BY <2>1 DEF Submit
    <3>2. tab[t].screen = "form" /\ tab[t].form.plan = v BY <2>1 DEF Submit
    <3>3. QED BY <3>1, <3>2
  <2>2. CASE Stop(t) BY <2>2 DEF Stop
  <2>3. CASE Renew(t) BY <2>3 DEF Renew
  <2>4. QED BY <2>1, <2>2, <2>3
<1> DEFINE o == [Idle EXCEPT !.kind = kind, !.pc = "build", !.plan = plan, !.due = due,
                             !.asset = asset, !.cadence = cadence]
<1>4. o.kind = kind /\ o.pc = "build" /\ o.plan = plan /\ o.verdict = "none"
  BY DEF Idle
<1>5. /\ tab'[t].screen = tab[t].screen /\ tab'[t].view = tab[t].view
      /\ tab'[t].form = tab[t].form /\ tab'[t].op = o
  BY <1>1, <1>3 DEF Begin, TabRecord
<1> HIDE DEF o
<1>6. QED BY <1>2, <1>3, <1>4, <1>5 DEF LoneFits, NotLanded

\* What a failed operation leaves of the tab.
LEMMA LoneFails ==
  ASSUME AppInv, NEW t \in Tabs, Lone(t), tab' = [tab EXCEPT ![t] = Failed(t)],
         NotLanded(tab[t].op), flight = {}, UNCHANGED <<chain, flight>>
  PROVE  LoneFits(tab[t].screen, tab[t].view.active, tab[t].form.plan, tab[t].op)'
<1>1. tab[t] \in TabRecord /\ DOMAIN tab = Tabs BY TabParts
<1>2. /\ tab'[t].screen = tab[t].screen /\ tab'[t].view = tab[t].view
      /\ tab'[t].form = tab[t].form /\ tab'[t].op = Idle
  BY <1>1 DEF Failed, TabRecord
<1>3. Idle.pc = "idle" BY DEF Idle
<1>4. Active' = Active BY DEF Active, chain
<1>5. QED BY <1>2, <1>3, <1>4 DEF Lone, LoneFits, NotLanded

LEMMA LoneBuilds ==
  ASSUME AppInv, NEW t \in Tabs, Lone(t), Build(t)
  PROVE  LoneFits(tab[t].screen, tab[t].view.active, tab[t].form.plan, tab[t].op)'
<1>1. tab[t] \in TabRecord /\ tab[t].op \in Ops /\ OpGood(tab[t].op, applied)
      /\ DOMAIN tab = Tabs
  BY TabParts
<1>2. UNCHANGED <<chain, flight>> /\ Active' = Active /\ delegate' = delegate
  BY DEF Build, BuildReading, chain, Active
<1>3. At(t, "build") /\ tab[t].op.pc = "build" BY DEF Build, BuildReading, At
<1>4. LoneFits(tab[t].screen, tab[t].view.active, tab[t].form.plan, tab[t].op) /\ ChainTidy
  BY DEF Lone
<1>5. flight = {} /\ Active = Sole(tab[t].view.active) BY <1>3, <1>4 DEF LoneFits, NotLanded
<1>6. CASE Refused(tab[t].op, delegate)
  <2>1. tab' = [tab EXCEPT ![t] = Failed(t)] BY <1>6 DEF Build, BuildReading
  <2>2. QED BY <1>2, <1>3, <1>5, <2>1, LoneFails DEF NotLanded
<1>7. CASE ~Refused(tab[t].op, delegate)
  <2> DEFINE x == Transaction(tab[t].op, delegate)
             p == tab[t].op
             o == [p EXCEPT !.pc = "sign", !.tx = x]
  <2>1. tab' = [tab EXCEPT ![t] = [tab[t] EXCEPT !.op.pc = "sign", !.op.tx = x]]
    BY <1>7 DEF Build, BuildReading
  <2>2. BuiltFor(x, p, delegate) BY <1>3, <1>7, Builds
  <2> HIDE DEF x
  <2>3. /\ tab'[t].screen = tab[t].screen /\ tab'[t].view = tab[t].view
        /\ tab'[t].form = tab[t].form /\ tab'[t].op = o
    BY <1>1, <2>1 DEF TabRecord
  <2>4. /\ o.pc = "sign" /\ o.tx = x /\ o.kind = p.kind /\ o.plan = p.plan
        /\ o.verdict = p.verdict
    BY <1>1 DEF Ops
  <2>5. p.kind = "cancel" => x.revoke \/ delegate = None
    <3>1. p.kind = "cancel" => p.plan = tab[t].view.active BY <1>3, <1>4 DEF LoneFits
    <3>2. delegate \in Active \cup {None} BY <1>4 DEF ChainTidy
    <3>3. QED BY <1>5, <2>2, <3>1, <3>2 DEF BuiltFor, Sole
  <2>6. TxFits(x, p.kind, p.plan, delegate) BY <2>2, <2>5 DEF TxFits, BuiltFor
  <2> HIDE DEF o
  <2>7. QED BY <1>2, <1>3, <1>4, <1>5, <2>3, <2>4, <2>6 DEF LoneFits, NotLanded
<1>8. QED BY <1>6, <1>7

\* What the lone tab signs is all that is in flight.
LEMMA LoneSigns ==
  ASSUME AppInv, NEW t \in Tabs, Lone(t), Sign(t) \/ Decline(t)
  PROVE  LoneFits(tab[t].screen, tab[t].view.active, tab[t].form.plan, tab[t].op)'
<1>1. tab[t] \in TabRecord /\ tab[t].op \in Ops /\ OpGood(tab[t].op, applied)
      /\ DOMAIN tab = Tabs
  BY TabParts
<1>2. At(t, "sign") /\ tab[t].op.pc = "sign" BY DEF Sign, Decline, At
<1>3. LoneFits(tab[t].screen, tab[t].view.active, tab[t].form.plan, tab[t].op)
  BY DEF Lone
<1>4. flight = {} /\ tab[t].op.verdict = "none" BY <1>1, <1>2, <1>3 DEF LoneFits, OpGood
<1>5. UNCHANGED chain /\ Active' = Active /\ delegate' = delegate
  BY DEF Sign, Decline, chain, Active
<1>6. CASE Decline(t)
  <2>1. tab' = [tab EXCEPT ![t] = Failed(t)] /\ UNCHANGED <<chain, flight>>
    BY <1>6 DEF Decline
  <2>2. QED BY <1>2, <1>4, <2>1, LoneFails DEF NotLanded
<1>7. CASE Sign(t)
  <2> DEFINE x == Signed(t)
             p == tab[t].op
             o == [p EXCEPT !.pc = "confirm", !.tx = x]
  <2>1. tab' = [tab EXCEPT ![t].op.pc = "confirm", ![t].op.tx = x]
        /\ flight' = flight \cup {x}
    BY <1>7 DEF Sign
  <2>2. x = [p.tx EXCEPT !.id = signed + 1] /\ p.tx \in Transactions
    BY <1>1, <1>2, SignedGood DEF OpGood, TxGood
  <2> HIDE DEF x
  <2>3. /\ x.cancel = p.tx.cancel /\ x.create = p.tx.create /\ x.approve = p.tx.approve
        /\ x.revoke = p.tx.revoke
    BY <2>2 DEF Transactions
  <2>4. TxFits(p.tx, p.kind, p.plan, delegate) BY <1>2, <1>3 DEF LoneFits
  <2>5. TxFits(x, p.kind, p.plan, delegate) BY <2>3, <2>4 DEF TxFits
  <2>6. /\ tab'[t].screen = tab[t].screen /\ tab'[t].view = tab[t].view
        /\ tab'[t].form = tab[t].form /\ tab'[t].op = o
    BY <1>1, <2>1 DEF TabRecord
  <2>7. /\ o.pc = "confirm" /\ o.tx = x /\ o.kind = p.kind /\ o.plan = p.plan
        /\ o.verdict = "none"
    BY <1>1, <1>4 DEF Ops
  <2> HIDE DEF o
  <2>8. QED BY <1>2, <1>3, <1>4, <1>5, <2>1, <2>5, <2>6, <2>7 DEF LoneFits, NotLanded
<1>8. QED BY <1>6, <1>7

\* The lone tab hears of its transaction, and reads the chain again.
LEMMA LoneAnswers ==
  ASSUME AppInv, NEW t \in Tabs, Lone(t), Answers(t)
  PROVE  LoneFits(tab[t].screen, tab[t].view.active, tab[t].form.plan, tab[t].op)'
<1>1. tab[t] \in TabRecord /\ tab[t].op \in Ops /\ OpGood(tab[t].op, applied)
      /\ DOMAIN tab = Tabs
  BY TabParts
<1>2. LoneFits(tab[t].screen, tab[t].view.active, tab[t].form.plan, tab[t].op) /\ ChainTidy
  BY DEF Lone
<1>3. UNCHANGED <<chain, flight>> /\ Active' = Active /\ delegate' = delegate
  BY DEF Answers, Confirm, Timeout, Refresh, chain, Active
<1>4. CASE Confirm(t)
  <2>1. tab[t].op.pc = "confirm" /\ tab[t].op.verdict # "none"
    BY <1>4 DEF Confirm, At, Confirmed
  <2>2. flight = {} BY <1>2, <2>1 DEF LoneFits
  <2>3. CASE ~Confirmed(t)
    <3>1. tab' = [tab EXCEPT ![t] = Failed(t)] BY <1>4, <2>3 DEF Confirm
    <3>2. NotLanded(tab[t].op) BY <2>1, <2>3 DEF NotLanded, Confirmed
    <3>3. QED BY <1>3, <2>2, <3>1, <3>2, LoneFails
  <2>4. CASE Confirmed(t)
    <3> DEFINE p == tab[t].op
               o == [p EXCEPT !.pc = "refresh"]
    <3>1. tab' = [tab EXCEPT ![t] = [tab[t] EXCEPT !.op.pc = "refresh"]]
      BY <1>4, <2>4 DEF Confirm
    <3>2. /\ tab'[t].screen = tab[t].screen /\ tab'[t].view = tab[t].view
          /\ tab'[t].form = tab[t].form /\ tab'[t].op = o
      BY <1>1, <3>1 DEF TabRecord
    <3>3. o.pc = "refresh" /\ o.kind = p.kind /\ o.plan = p.plan BY <1>1 DEF Ops
    <3> HIDE DEF o
    <3>4. QED BY <1>2, <1>3, <2>1, <2>2, <3>2, <3>3 DEF LoneFits, NotLanded
  <2>5. QED BY <2>3, <2>4
<1>5. ~Timeout(t) BY <1>2 DEF Timeout, GivesUp, At, LoneFits
<1>6. CASE Refresh(t)
  <2> DEFINE w == View(delegate)
             scr == IF Kind(t) \in {"create", "change"} THEN "home" ELSE tab[t].screen
  <2>1. tab[t].op.pc = "refresh" BY <1>6 DEF Refresh, At
  <2>2. Active = Sole(w.active) BY <1>2, ViewOfSole DEF ChainTidy
  <2>3. /\ tab'[t].screen = scr /\ tab'[t].view = w /\ tab'[t].form = tab[t].form
        /\ tab'[t].op = Idle
    BY <1>1, <1>6 DEF Refresh, Resolve, TabRecord
  <2>4. scr = "home"
    <3>1. tab[t].op.kind \in {"create", "change", "cancel", "resume"}
      BY <1>1, <2>1 DEF Ops, OpGood
    <3>2. QED BY <1>2, <2>1, <3>1 DEF LoneFits, Kind
  <2>5. Idle.pc = "idle" /\ flight = {} BY <1>2, <2>1 DEF Idle, LoneFits
  <2> HIDE DEF w, scr
  <2>6. QED BY <1>3, <2>2, <2>3, <2>4, <2>5 DEF LoneFits, NotLanded
<1>7. QED BY <1>4, <1>5, <1>6 DEF Answers

\* Every smooth step of the lone tab leaves it as it should be.
LEMMA LoneMoves ==
  ASSUME AppInv, NEW t \in Tabs, Lone(t), Smooth(t)
  PROVE  Lone(t)'
<1>1. LoneFits(tab[t].screen, tab[t].view.active, tab[t].form.plan, tab[t].op)'
  <2>1. CASE Show(t) \/ OpenCreate(t) \/ OpenChange(t) \/ Back(t) BY <2>1, LoneScreens
  <2>2. CASE Submit(t) \/ Stop(t) \/ Renew(t)
    <3>1. tab[t].op.pc = "idle" BY <2>2 DEF Submit, Stop, Renew, Begin, Busy, At
    <3>2. flight = {} /\ Active = Sole(tab[t].view.active)
          /\ (tab[t].screen = "form" => tab[t].form.plan = tab[t].view.active)
      BY <3>1 DEF Lone, LoneFits, NotLanded
    <3>3. QED BY <2>2, <3>2, LoneBegins
  <2>3. CASE Build(t) BY <2>3, LoneBuilds
  <2>4. CASE Sign(t) \/ Decline(t) BY <2>4, LoneSigns
  <2>5. CASE Answers(t) BY <2>5, LoneAnswers
  <2>6. QED BY <2>1, <2>2, <2>3, <2>4, <2>5 DEF Smooth, Taps
<1>2. /\ Active' = Active /\ delegate' = delegate
      /\ \A s \in Tabs \ {t} : tab'[s] = tab[s]
  BY SmoothFrame DEF chain
<1>3. ChainTidy' BY <1>2 DEF Lone, ChainTidy
<1>4. \A s \in Tabs \ {t} : tab'[s].op.pc = "idle" BY <1>2 DEF Lone
<1>5. QED BY <1>1, <1>3, <1>4 DEF Lone

\* What a fitting transaction makes of the one plan.
LEMMA FittingLands ==
  ASSUME AppInv, NEW x \in flight, Acceptable(x), Apply(x), NEW v, Active = Sole(v),
         NEW kind \in {"create", "change", "cancel", "resume"}, TxFits(x, kind, v, delegate),
         kind = "create" <=> v = None, delegate \in Active \cup {None}
  PROVE  ChainTidy'
<1>1. Active' = (Active \ {x.cancel}) \cup ({x.create} \ {None}) BY Applies
<1>2. delegate' = IF x.revoke THEN None ELSE IF x.approve # None THEN x.approve ELSE delegate
  BY DEF Apply
<1>3. None \notin Plans /\ Active \subseteq Plans BY SavingsAppAssumption DEF Active
<1>4. CASE kind = "create"
  <2>1. x.create \in Plans /\ x.create # None /\ Active = {}
    BY <1>3, <1>4 DEF TxFits, Sole
  <2>2. Active' = {x.create} BY <1>1, <2>1
  <2>3. delegate' = x.create BY <1>2, <1>4, <2>1 DEF TxFits
  <2>4. QED BY <2>1, <2>2, <2>3 DEF ChainTidy, Sole
<1>5. CASE kind = "change"
  <2>1. x.create \in Plans /\ x.create # None /\ x.cancel = v /\ Active = {v}
    BY <1>3, <1>5 DEF TxFits, Sole
  <2>2. Active' = {x.create} BY <1>1, <2>1
  <2>3. delegate' = x.create BY <1>2, <1>5, <2>1 DEF TxFits
  <2>4. QED BY <2>1, <2>2, <2>3 DEF ChainTidy, Sole
<1>6. CASE kind = "cancel"
  <2>1. x.create = None /\ x.cancel = v /\ Active = {v}
    BY <1>6 DEF TxFits, Sole
  <2>2. Active' = {} BY <1>1, <2>1
  <2>3. delegate' = None BY <1>2, <1>6 DEF TxFits
  <2>4. QED BY <2>2, <2>3 DEF ChainTidy, Sole
<1>7. CASE kind = "resume"
  <2>1. x.create = None /\ x.cancel = None /\ x.approve = v /\ v # None /\ Active = {v}
    BY <1>7 DEF TxFits, Sole
  <2>2. Active' = {v} BY <1>1, <1>3, <2>1
  <2>3. delegate' = v BY <1>2, <1>7, <2>1 DEF TxFits
  <2>4. QED BY <2>1, <2>2, <2>3 DEF ChainTidy, Sole
<1>8. QED BY <1>4, <1>5, <1>6, <1>7

\* The lone tab's transaction lands.
LEMMA LoneLands ==
  ASSUME AppInv, NEW t \in Tabs, Lone(t), NEW x \in flight, Land(x)
  PROVE  Lone(t)'
<1> DEFINE v == tab[t].view.active
           p == tab[t].op
<1>1. /\ tab[t] \in TabRecord /\ tab[t].op \in Ops /\ OpGood(tab[t].op, applied)
      /\ DOMAIN tab = Tabs
  BY TabParts
<1>2. LoneFits(tab[t].screen, v, tab[t].form.plan, p) /\ ChainTidy
      /\ \A s \in Tabs \ {t} : tab[s].op.pc = "idle"
  BY DEF Lone
<1>3. /\ p.pc = "confirm" /\ p.verdict = "none" /\ flight = {p.tx} /\ x = p.tx
      /\ TxFits(x, p.kind, p.plan, delegate) /\ Active = Sole(v)
  BY <1>2 DEF LoneFits, NotLanded
<1>4. flight' = {} BY <1>3 DEF Land
<1>5. x # None BY SavingsAppAssumption DEF AppInv, TxGood
<1>6. ASSUME NEW verdict \in {"ok", "err"}, Judged(x, verdict)
      PROVE  /\ tab'[t].screen = tab[t].screen /\ tab'[t].view = tab[t].view
             /\ tab'[t].form = tab[t].form /\ tab'[t].op.kind = p.kind
             /\ tab'[t].op.plan = p.plan /\ tab'[t].op.pc = "confirm"
             /\ tab'[t].op.verdict = verdict
             /\ \A s \in Tabs \ {t} : tab'[s].op.pc = "idle"
  <2>1. tab'[t] = [tab[t] EXCEPT !.op.verdict = verdict] BY <1>3, <1>6 DEF Judged
  <2> DEFINE o == [p EXCEPT !.verdict = verdict]
  <2>2. tab'[t] = [tab[t] EXCEPT !.op = o] BY <1>1, <2>1
  <2>3. o.kind = p.kind /\ o.plan = p.plan /\ o.pc = p.pc /\ o.verdict = verdict
    BY <1>1 DEF Ops
  <2> HIDE DEF o
  <2>4. /\ tab'[t].screen = tab[t].screen /\ tab'[t].view = tab[t].view
        /\ tab'[t].form = tab[t].form /\ tab'[t].op = o
    BY <1>1, <2>2 DEF TabRecord
  <2>5. ASSUME NEW s \in Tabs \ {t} PROVE tab'[s].op.pc = "idle"
    <3>1. tab[s].op.tx = None BY <1>2, TabParts DEF OpGood
    <3>2. tab'[s] = tab[s] BY <1>5, <1>6, <3>1 DEF Judged
    <3>3. QED BY <1>2, <3>2
  <2>6. QED BY <1>3, <2>3, <2>4, <2>5
<1>7. CASE Acceptable(x)
  <2>1. Apply(x) /\ Judged(x, "ok") BY <1>7 DEF Land
  <2>2. p.kind \in {"create", "change", "cancel", "resume"}
    BY <1>1, <1>3 DEF Ops, OpGood
  <2>3. /\ p.kind = "create" <=> v = None
        /\ p.kind # "create" => p.plan = v
    BY <1>2, <1>3 DEF LoneFits
  <2>4. TxFits(x, p.kind, v, delegate) BY <1>3, <2>3 DEF TxFits
  <2>5. ChainTidy'
    <3>1. delegate \in Active \cup {None} BY <1>2 DEF ChainTidy
    <3> HIDE DEF v, p
    <3>2. QED BY <1>3, <1>7, <2>1, <2>2, <2>3, <2>4, <3>1, FittingLands
  <2>6. /\ tab'[t].screen = tab[t].screen /\ tab'[t].view = tab[t].view
        /\ tab'[t].form = tab[t].form /\ tab'[t].op.kind = p.kind
        /\ tab'[t].op.plan = p.plan /\ tab'[t].op.pc = "confirm"
        /\ tab'[t].op.verdict = "ok"
        /\ \A s \in Tabs \ {t} : tab'[s].op.pc = "idle"
    BY <1>6, <2>1
  <2>7. QED BY <1>2, <1>3, <1>4, <2>5, <2>6 DEF Lone, LoneFits, NotLanded
<1>8. CASE ~Acceptable(x)
  <2>1. UNCHANGED chain /\ Judged(x, "err") BY <1>8 DEF Land
  <2>2. Active' = Active /\ delegate' = delegate BY <2>1 DEF chain, Active
  <2>3. ChainTidy' BY <1>2, <2>2 DEF ChainTidy
  <2>4. /\ tab'[t].screen = tab[t].screen /\ tab'[t].view = tab[t].view
        /\ tab'[t].form = tab[t].form /\ tab'[t].op.kind = p.kind
        /\ tab'[t].op.plan = p.plan /\ tab'[t].op.pc = "confirm"
        /\ tab'[t].op.verdict = "err"
        /\ \A s \in Tabs \ {t} : tab'[s].op.pc = "idle"
    BY <1>6, <2>1
  <2>5. QED BY <1>2, <1>3, <1>4, <2>2, <2>3, <2>4 DEF Lone, LoneFits, NotLanded
<1>9. QED BY <1>7, <1>8

\* A keeper's buy may end the approval, and changes nothing else that the lone tab
\* relies on.
LEMMA LoneIsBoughtFor ==
  ASSUME AppInv, NEW t \in Tabs, Lone(t), NEW p \in Plans, KeeperBuys(p)
  PROVE  Lone(t)'
<1>1. Active' = Active /\ delegate' \in {delegate, None} BY BuyStep
<1>2. tab' = tab /\ flight' = flight BY DEF KeeperBuys
<1>3. ChainTidy' BY <1>1 DEF Lone, ChainTidy
<1>4. LoneFits(tab[t].screen, tab[t].view.active, tab[t].form.plan, tab[t].op)
  BY DEF Lone
<1>5. TxFits(tab[t].op.tx, tab[t].op.kind, tab[t].op.plan, delegate) =>
        TxFits(tab[t].op.tx, tab[t].op.kind, tab[t].op.plan, delegate')
  BY <1>1 DEF TxFits
<1>6. QED BY <1>1, <1>2, <1>3, <1>4, <1>5 DEF Lone, LoneFits, NotLanded

\* Time passes, or nothing happens.
LEMMA LoneWaits ==
  ASSUME NEW t \in Tabs, Lone(t), UNCHANGED <<chain, flight, tab>>
  PROVE  Lone(t)'
<1>1. Active' = Active /\ delegate' = delegate BY DEF chain, Active
<1>2. QED BY <1>1 DEF Lone, LoneFits, NotLanded, TxFits, ChainTidy

\* Another tab may look, and open and leave its form.
LEMMA LoneIsWatched ==
  ASSUME AppInv, NEW t \in Tabs, Lone(t), NEW s \in Tabs \ {t}, Smooth(s), s \notin acted'
  PROVE  Lone(t)'
<1>1. tab[s].op.pc = "idle" BY DEF Lone
<1>2. Show(s) \/ OpenCreate(s) \/ OpenChange(s) \/ Back(s)
  BY <1>1 DEF Smooth, Taps, Submit, Stop, Renew, Begin, Build, BuildReading, Sign, Decline,
              Answers, Confirm, Timeout, Refresh, GivesUp, At
<1>3. /\ Active' = Active /\ delegate' = delegate
      /\ \A r \in Tabs \ {s} : tab'[r] = tab[r]
  BY SmoothFrame DEF chain
<1>4. flight' = flight BY <1>2 DEF Show, OpenCreate, OpenChange, Back
<1>5. tab'[s].op = tab[s].op
  BY <1>2, TabParts DEF Show, Display, OpenCreate, OpenChange, Back, TabRecord
<1>6. QED BY <1>1, <1>3, <1>4, <1>5 DEF Lone, LoneFits, NotLanded, TxFits, ChainTidy

\* Before anybody acts, a tab can only look, or begin.
LEMMA FreshMoves ==
  ASSUME AppInv, Fresh, acted = {}, NEW t \in Tabs, Smooth(t)
  PROVE  (acted' = {} /\ Fresh') \/ (acted' = acted \cup {t} /\ Lone(t)')
<1>1. /\ Active' = Active /\ delegate' = delegate
      /\ \A s \in Tabs \ {t} : tab'[s] = tab[s]
  BY SmoothFrame DEF chain
<1>2. tab[t] \in TabRecord /\ DOMAIN tab = Tabs BY TabParts
<1>3. tab[t].op.pc = "idle" /\ tab[t].view.active = None /\ flight = {} /\ Active = {}
      /\ delegate = None /\ (tab[t].screen = "form" => tab[t].form.plan = None)
  BY DEF Fresh
<1>4. CASE Submit(t) \/ Stop(t) \/ Renew(t)
  <2>1. acted' = acted \cup {t} BY <1>4 DEF Submit, Stop, Renew, Begin
  <2>2. Active = Sole(tab[t].view.active) BY <1>3 DEF Sole
  <2>3. LoneFits(tab[t].screen, tab[t].view.active, tab[t].form.plan, tab[t].op)'
    BY <1>3, <1>4, <2>2, LoneBegins
  <2>4. ChainTidy' BY <1>1, <1>3 DEF ChainTidy, Sole
  <2>5. \A s \in Tabs \ {t} : tab'[s].op.pc = "idle" BY <1>1 DEF Fresh
  <2>6. QED BY <2>1, <2>3, <2>4, <2>5 DEF Lone
<1>5. CASE Show(t) \/ OpenCreate(t) \/ OpenChange(t) \/ Back(t)
  <2>1. acted' = acted /\ flight' = flight
    BY <1>5 DEF Show, OpenCreate, OpenChange, Back
  <2>2. View(delegate).active = None BY <1>3 DEF View, Unread
  <2>3. /\ tab'[t].op = tab[t].op /\ tab'[t].view.active = None
        /\ tab'[t].screen = "form" => tab'[t].form.plan = None
    <3>1. CASE Show(t) BY <1>2, <2>2, <3>1 DEF Show, Display, TabRecord
    <3>2. CASE OpenCreate(t) BY <1>2, <1>3, <3>2 DEF OpenCreate, Opened, TabRecord
    <3>3. ~OpenChange(t) BY <1>3 DEF OpenChange
    <3>4. CASE Back(t) BY <1>2, <1>3, <3>4 DEF Back, TabRecord
    <3>5. QED BY <1>5, <3>1, <3>2, <3>3, <3>4
  <2>4. Fresh' BY <1>1, <1>3, <2>1, <2>3 DEF Fresh
  <2>5. QED BY <2>1, <2>4
<1>6. ~Build(t) /\ ~Sign(t) /\ ~Decline(t) /\ ~Answers(t)
  BY <1>3 DEF Build, BuildReading, Sign, Decline, Answers, Confirm, Timeout, GivesUp,
              Refresh, At
<1>7. QED BY <1>4, <1>5, <1>6 DEF Smooth, Taps

LEMMA InitTidy == Init => TidyInv
<1> SUFFICES ASSUME Init PROVE TidyInv OBVIOUS
<1>1. AppInv BY InitAppInv
<1>2. acted = {} /\ IsFiniteSet(acted) BY FS_EmptySet DEF Init
<1>3. Active = {} BY DEF Init, Active
<1>4. \A t \in Tabs : tab[t] = Opened BY DEF Init
<1>5. Opened.op.pc = "idle" /\ Opened.view.active = None /\ Opened.screen = "loading"
  BY DEF Opened, Idle, Unread
<1>6. Fresh BY <1>3, <1>4, <1>5 DEF Init, Fresh
<1>7. QED BY <1>1, <1>2, <1>6 DEF TidyInv

\* Once something went wrong it has.
LEMMA MishapsRemain ==
  ASSUME AppInv, [Next]_vars, mishaps' = 0
  PROVE  mishaps = 0 /\ ~Elsewhere /\ (\A t \in Tabs : ~Errs(t)) /\ \A x \in flight : ~Drop(x)
<1>1. mishaps \in Nat BY DEF AppInv, TypeOK
<1>2. ~Mishap BY <1>1 DEF Mishap
<1>3. ~Elsewhere /\ (\A t \in Tabs : ~Errs(t)) /\ \A x \in flight : ~Drop(x)
  BY <1>2 DEF Elsewhere, Errs, ShowErrs, BuildMisread, SignErrs, ConfirmErrs, RefreshErrs,
              Reload, Drop
<1>4. ASSUME NEW t \in Tabs, Smooth(t) PROVE mishaps' = mishaps
  BY <1>4 DEF Smooth, Show, Taps, OpenCreate, OpenChange, Back, Submit, Stop, Renew, Begin,
              Build, Sign, Decline, Answers, Confirm, Timeout, Refresh
<1>5. ASSUME NEW x \in flight, Land(x) PROVE mishaps' = mishaps BY <1>5 DEF Land
<1>6. ASSUME NEW p \in Plans, KeeperBuys(p) PROVE mishaps' = mishaps
  BY <1>6 DEF KeeperBuys
<1>7. ASSUME Tick \/ UNCHANGED vars PROVE mishaps' = mishaps BY <1>7 DEF Tick, vars
<1>8. mishaps' = mishaps BY <1>3, <1>4, <1>5, <1>6, <1>7 DEF Next, Smooth
<1>9. QED BY <1>3, <1>8

\* One tab at a time is counted among those that acted.
LEMMA OneActs ==
  ASSUME [Next]_vars
  PROVE  acted' = acted \/ \E t \in Tabs : acted' = acted \cup {t}
<1>1. ASSUME NEW t \in Tabs, Smooth(t) PROVE acted' \in {acted, acted \cup {t}}
  BY <1>1 DEF Smooth, Show, Taps, OpenCreate, OpenChange, Back, Submit, Stop, Renew, Begin,
              Build, BuildReading, Sign, Decline, Answers, Confirm, Timeout, Refresh
<1>2. ASSUME NEW t \in Tabs, Errs(t) PROVE acted' = acted
  BY <1>2 DEF Errs, ShowErrs, BuildMisread, BuildReading, SignErrs, ConfirmErrs,
              RefreshErrs, Reload
<1>3. ASSUME NEW x \in flight, Land(x) \/ Drop(x) PROVE acted' = acted
  BY <1>3 DEF Land, Drop
<1>4. ASSUME NEW p \in Plans, KeeperBuys(p) PROVE acted' = acted BY <1>4 DEF KeeperBuys
<1>5. ASSUME Elsewhere \/ Tick \/ UNCHANGED vars PROVE acted' = acted
  BY <1>5 DEF Elsewhere, Tick, vars
<1>6. QED BY <1>1, <1>2, <1>3, <1>4, <1>5 DEF Next, Smooth

LEMMA TidyInvStep == TidyInv /\ [Next]_vars => TidyInv'
<1> SUFFICES ASSUME TidyInv, [Next]_vars PROVE TidyInv' OBVIOUS
<1>1. AppInv /\ AppInv' BY AppInvStep DEF TidyInv
<1>2. acted' = acted \/ \E t \in Tabs : acted' = acted \cup {t} BY OneActs
<1>3. IsFiniteSet(acted') BY <1>2, FS_AddElement DEF TidyInv
<1>4. ASSUME mishaps' = 0
      PROVE  /\ acted' = {} => Fresh'
             /\ \A t \in Tabs : acted' = {t} => Lone(t)'
  <2>1. mishaps = 0 /\ ~Elsewhere /\ (\A t \in Tabs : ~Errs(t)) /\ \A x \in flight : ~Drop(x)
    BY <1>1, <1>4, MishapsRemain
  <2>2. CASE \E t \in Tabs : Smooth(t)
    <3>1. PICK t \in Tabs : Smooth(t) BY <2>2
    <3>2. acted' \in {acted, acted \cup {t}}
      BY <3>1 DEF Smooth, Show, Taps, OpenCreate, OpenChange, Back, Submit, Stop, Renew,
                  Begin, Build, BuildReading, Sign, Decline, Answers, Confirm, Timeout, Refresh
    <3>3. CASE acted = {}
      <4>1. Fresh BY <2>1, <3>3 DEF TidyInv
      <4>2. (acted' = {} /\ Fresh') \/ (acted' = acted \cup {t} /\ Lone(t)')
        BY <1>1, <3>1, <3>3, <4>1, FreshMoves
      <4>3. CASE acted' = {} /\ Fresh' BY <4>3
      <4>4. CASE acted' = {t} /\ Lone(t)'
        <5>1. ASSUME NEW s \in Tabs, acted' = {s} PROVE Lone(s)'
          <6>1. s = t BY <4>4, <5>1
          <6>2. QED BY <4>4, <6>1
        <5>2. QED BY <4>4, <5>1
      <4>5. QED BY <3>3, <4>2, <4>3, <4>4
    <3>4. CASE acted # {}
      <4>1. acted' # {} BY <3>2, <3>4
      <4>2. ASSUME NEW s \in Tabs, acted' = {s} PROVE Lone(s)'
        <5>1. acted = {s} BY <3>2, <3>4, <4>2
        <5>2. Lone(s) BY <2>1, <5>1 DEF TidyInv
        <5>3. CASE s = t BY <1>1, <3>1, <5>2, <5>3, LoneMoves
        <5>4. CASE s # t BY <1>1, <3>1, <4>2, <5>2, <5>4, LoneIsWatched
        <5>5. QED BY <5>3, <5>4
      <4>3. QED BY <4>1, <4>2
    <3>5. QED BY <3>3, <3>4
  <2>3. CASE \E x \in flight : Land(x)
    <3>1. PICK x \in flight : Land(x) BY <2>3
    <3>2. acted' = acted BY <3>1 DEF Land
    <3>3. acted # {} BY <2>1, <3>1 DEF TidyInv, Fresh
    <3>4. QED BY <1>1, <2>1, <3>1, <3>2, <3>3, LoneLands DEF TidyInv
  <2>4. CASE \E p \in Plans : KeeperBuys(p)
    <3>1. PICK p \in Plans : KeeperBuys(p) BY <2>4
    <3>2. acted' = acted /\ p \in Active BY <3>1 DEF KeeperBuys, Buyable
    <3>3. acted # {} BY <2>1, <3>2 DEF TidyInv, Fresh
    <3>4. QED BY <1>1, <2>1, <3>1, <3>2, <3>3, LoneIsBoughtFor DEF TidyInv
  <2>5. CASE Tick \/ UNCHANGED vars
    <3>1. UNCHANGED <<chain, flight, tab, acted>> BY <2>5 DEF Tick, vars, chain
    <3>2. acted = {} => Fresh' BY <2>1, <3>1 DEF TidyInv, Fresh, Active, chain
    <3>3. \A t \in Tabs : acted = {t} => Lone(t)' BY <2>1, <3>1, LoneWaits DEF TidyInv
    <3>4. QED BY <3>1, <3>2, <3>3
  <2>6. QED BY <2>1, <2>2, <2>3, <2>4, <2>5 DEF Next, Smooth
<1>5. QED BY <1>1, <1>3, <1>4 DEF TidyInv

\* Whoever works in one tab, and meets no failure, has one plan at most, and nobody but
\* that plan may spend: no invariant of the chain says so, only the app's own order of
\* reading, signing and reading again.
THEOREM OneTabTidy == Spec => []OneTabIsTidy
<1>1. TidyInv => OneTabIsTidy
  <2> SUFFICES ASSUME TidyInv, mishaps = 0, Cardinality(acted) <= 1
      PROVE  Cardinality(Active) <= 1 /\ delegate \in Active \cup {None}
    BY DEF OneTabIsTidy
  <2>1. IsFiniteSet(acted) /\ Cardinality(acted) \in Nat /\ acted \subseteq Tabs
    BY FS_CardinalityType DEF TidyInv, AppInv, TypeOK
  <2>2. Cardinality(acted) = 0 \/ Cardinality(acted) = 1 BY <2>1
  <2>3. ChainTidy
    <3>1. CASE Cardinality(acted) = 0
      <4>1. acted = {} BY <2>1, <3>1, FS_EmptySet
      <4>2. QED BY <4>1 DEF TidyInv, Fresh, ChainTidy, Sole
    <3>2. CASE Cardinality(acted) = 1
      <4>1. PICK t : acted = {t} BY <2>1, <3>2, FS_Singleton
      <4>2. t \in Tabs BY <2>1, <4>1
      <4>3. QED BY <4>1, <4>2 DEF TidyInv, Lone
    <3>3. QED BY <2>2, <3>1, <3>2
  <2>4. PICK u : Active = Sole(u) BY <2>3 DEF ChainTidy
  <2>5. CASE u = None BY <2>3, <2>4, <2>5, FS_EmptySet DEF Sole, ChainTidy
  <2>6. CASE u # None BY <2>3, <2>4, <2>6, FS_Singleton DEF Sole, ChainTidy
  <2>7. QED BY <2>5, <2>6
<1>2. QED BY <1>1, InitTidy, TidyInvStep, PTL DEF Spec
=============================================================================
