----------------------------- MODULE SavingsApp -----------------------------
(***************************************************************************)
(* The savings app (lib/useSavings.ts, lib/paritas.ts, Screens.tsx): tabs  *)
(* in which one saver creates, changes, stops and renews plans, against a  *)
(* chain that keepers, other tabs and other apps change too.               *)
(*                                                                         *)
(* A token account has one delegate, so one plan at most is funded: the    *)
(* rule "one plan at a time" lives in the app alone, and the app decides   *)
(* on what it read before.  An operation reads, builds a transaction, asks *)
(* the wallet, waits for the confirmation and reads the chain again; any   *)
(* of these can fail, and a transaction can land after the app gave up.    *)
(* Every plan is of one dollar; the clock's unit is arbitrary.             *)
(***************************************************************************)
EXTENDS Integers, FiniteSets, FiniteSetsExt

CONSTANTS
  Tabs,
  Assets,            \* numbered in the order of their symbols
  Indexes,           \* plan indexes of an asset, 0..255 in the code
  Cadences,
  Runs,              \* runsFunded: the buys an approval covers, by cadence
  COVERAGE_WARN_AT,
  Foreign,           \* a delegate that is none of the saver's plans
  None,
  InitialCash,
  MaxTime,           \* last value of the clock
  MAX_SIGNED,        \* bound of the transactions that wallets sign
  MAX_MISHAPS        \* bound of failures, reloads and other apps' approvals

Plans == Assets \X Indexes

VARIABLES
  now,
  schedule,              \* the saver's schedule accounts
  delegate, allowance,   \* who may spend from the dollar account, and how many buys
  cash,
  flight,                \* signed transactions that may still land
  tab,
  signed,                \* transactions signed so far, which numbers them
  applied,               \* history: numbers of the transactions that took effect
  acted,                 \* history: tabs that started an operation
  mishaps

chain == <<schedule, delegate, allowance, cash, applied>>
vars == <<now, chain, flight, tab, signed, acted, mishaps>>

-----------------------------------------------------------------------------
(* The chain. *)

Active == {p \in Plans : schedule[p].status = "active"}

\* create_schedule initialises an account that must not exist, and
\* cancel_schedule refuses an inactive plan.
Acceptable(x) ==
  /\ x.cancel # None => x.cancel \in Active
  /\ x.create # None => schedule[x.create].status = "none"

Judged(x, verdict) ==
  tab' = [t \in Tabs |->
            IF tab[t].op.tx = x THEN [tab[t] EXCEPT !.op.verdict = verdict] ELSE tab[t]]

\* All of a transaction's instructions take effect, or none.
Apply(x) ==
  /\ schedule' = [p \in Plans |->
       IF p = x.cancel THEN [schedule[p] EXCEPT !.status = "cancelled"]
       ELSE IF p = x.create
         THEN [status |-> "active", due |-> x.due, cadence |-> x.cadence]
       ELSE schedule[p]]
  /\ delegate' = IF x.revoke THEN None ELSE IF x.approve # None THEN x.approve ELSE delegate
  /\ allowance' = IF x.revoke THEN 0 ELSE IF x.approve # None THEN Runs[x.cadence]
                  ELSE allowance
  /\ applied' = applied \cup {x.id}
  /\ UNCHANGED cash

Land(x) ==
  /\ IF Acceptable(x) THEN Apply(x) /\ Judged(x, "ok") ELSE UNCHANGED chain /\ Judged(x, "err")
  /\ flight' = flight \ {x}
  /\ UNCHANGED <<now, signed, acted, mishaps>>

\* Mutant: a buy that looks at the delegate and not at what it may still take.
BuyableUnfunded(p) == p \in Active /\ schedule[p].due <= now /\ delegate = p

Buyable(p) ==
  /\ p \in Active /\ schedule[p].due <= now
  /\ delegate = p /\ allowance > 0 /\ cash > 0

\* A keeper's buy.  The token program drops a delegate whose allowance is spent.
KeeperBuys(p) ==
  /\ Buyable(p)
  /\ schedule' = [schedule EXCEPT ![p].due =
       IF @ + schedule[p].cadence > now THEN @ + schedule[p].cadence
       ELSE now + schedule[p].cadence]
  /\ cash' = cash - 1 /\ allowance' = allowance - 1
  /\ delegate' = IF allowance = 1 THEN None ELSE p
  /\ UNCHANGED <<now, applied, flight, tab, signed, acted, mishaps>>

-----------------------------------------------------------------------------
(* What a tab shows. *)

Unread == [active |-> None, due |-> 0, cadence |-> 0, unfunded |-> FALSE, low |-> FALSE,
           foreign |-> FALSE, cash |-> 0]

\* loadPlans sorts by asset and index, and the first active plan is the plan.
First(ps) ==
  CHOOSE p \in ps : \A q \in ps : p[1] < q[1] \/ (p[1] = q[1] /\ p[2] <= q[2])

\* The screen after a refresh that read d as the delegate: what loadPlans,
\* checkFundingBlock, loadFunding and loadHoldings return.
View(d) ==
  IF Active = {}
    THEN [Unread EXCEPT !.foreign = (d = Foreign), !.cash = cash]
    ELSE LET p == First(Active) IN
         [active |-> p, due |-> schedule[p].due, cadence |-> schedule[p].cadence,
          unfunded |-> d # p,
          low |-> d = p /\ allowance <= COVERAGE_WARN_AT,
          foreign |-> FALSE, cash |-> cash]

Idle == [kind |-> "none", pc |-> "idle", plan |-> None, due |-> 0, asset |-> 0,
         cadence |-> 0, tx |-> None, verdict |-> "none"]

Opened == [screen |-> "loading", view |-> Unread, form |-> [plan |-> None, due |-> 0],
           op |-> Idle, done |-> None]

At(t, pc) == tab[t].op.pc = pc
Busy(t) == ~At(t, "idle")
Kind(t) == tab[t].op.kind

Mishap == mishaps < MAX_MISHAPS /\ mishaps' = mishaps + 1

Display(t, view) == tab' = [tab EXCEPT ![t].screen = "home", ![t].view = view]

Show(t) ==
  /\ tab[t].screen = "loading" /\ Display(t, View(delegate))
  /\ UNCHANGED <<now, chain, flight, signed, acted, mishaps>>

\* A first read that fails leaves an empty screen; one that fails only for the
\* dollar account reads as an account without a delegate.
ShowErrs(t) ==
  /\ tab[t].screen = "loading" /\ Mishap
  /\ Display(t, Unread) \/ Display(t, View(None))
  /\ UNCHANGED <<now, chain, flight, signed, acted>>

-----------------------------------------------------------------------------
(* What the saver does. *)

\* The start button is not disabled while an operation runs.
OpenCreate(t) ==
  /\ tab[t].screen = "home" /\ tab[t].view.active = None
  /\ ~tab[t].view.foreign /\ tab[t].view.cash > 0
  /\ tab' = [tab EXCEPT ![t].screen = "form", ![t].form = Opened.form]
  /\ UNCHANGED <<now, chain, flight, signed, acted, mishaps>>

\* The form keeps the plan as it was shown when it opened.
OpenChange(t) ==
  /\ tab[t].screen = "home" /\ tab[t].view.active # None /\ ~Busy(t)
  /\ tab' = [tab EXCEPT ![t].screen = "form",
                        ![t].form = [plan |-> tab[t].view.active, due |-> tab[t].view.due]]
  /\ UNCHANGED <<now, chain, flight, signed, acted, mishaps>>

Back(t) ==
  /\ tab[t].screen = "form" /\ tab' = [tab EXCEPT ![t].screen = "home"]
  /\ UNCHANGED <<now, chain, flight, signed, acted, mishaps>>

Begin(t, kind, plan, due, asset, cadence) ==
  /\ ~Busy(t) /\ signed < MAX_SIGNED
  /\ tab' = [tab EXCEPT
       ![t].op = [Idle EXCEPT !.kind = kind, !.pc = "build", !.plan = plan, !.due = due,
                              !.asset = asset, !.cadence = cadence],
       ![t].done = None]
  /\ acted' = acted \cup {t}
  /\ UNCHANGED <<now, chain, flight, signed, mishaps>>

Submit(t) ==
  /\ tab[t].screen = "form" /\ tab[t].view.cash > 0
  /\ \E a \in Assets, c \in Cadences :
       Begin(t, IF tab[t].form.plan = None THEN "create" ELSE "change",
             tab[t].form.plan, tab[t].form.due, a, c)

Stop(t) ==
  /\ tab[t].screen = "home" /\ tab[t].view.active # None
  /\ Begin(t, "cancel", tab[t].view.active, 0, 0, 0)

Renew(t) ==
  /\ tab[t].screen = "home" /\ tab[t].view.active # None
  /\ tab[t].view.unfunded \/ tab[t].view.low
  /\ Begin(t, "resume", tab[t].view.active, 0, 0, tab[t].view.cadence)

Reload(t) ==
  /\ Mishap /\ tab' = [tab EXCEPT ![t] = Opened]
  /\ UNCHANGED <<now, chain, flight, signed, acted>>

-----------------------------------------------------------------------------
(* run(): build, sign, confirm, refresh. *)

\* Indexes are never given back: a cancelled plan keeps its own.
FreeIndexes(a) == {i \in Indexes : schedule[<<a, i>>].status = "none"}

Smaller(a, b) == IF a <= b THEN a ELSE b
Larger(a, b) == IF a >= b THEN a ELSE b

NoInstructions == [cancel |-> None, create |-> None, approve |-> None, due |-> 0,
                   cadence |-> 0, revoke |-> FALSE, kind |-> "none", id |-> 0]

NewPlan(o, first) ==
  LET p == <<o.asset, Min(FreeIndexes(o.asset))>>
  IN  [NoInstructions EXCEPT !.create = p, !.approve = p, !.due = first,
                             !.cadence = o.cadence, !.kind = o.kind]

\* Mutants: the change leaves the old plan; the stop leaves the delegation.
ChangeAddsOne(o) == NewPlan(o, Smaller(Larger(o.due, now), now + o.cadence))
CancelOnly(o, d) == [NoInstructions EXCEPT !.cancel = o.plan, !.kind = o.kind]

CreateTransaction(o) == NewPlan(o, now)

\* The due date is the one on the form.
ChangeTransaction(o) ==
  [NewPlan(o, Smaller(Larger(o.due, now), now + o.cadence)) EXCEPT !.cancel = o.plan]

CancelTransaction(o, d) ==
  [NoInstructions EXCEPT !.cancel = o.plan, !.revoke = (d = o.plan), !.kind = o.kind]

ResumeTransaction(o) ==
  [NoInstructions EXCEPT !.approve = o.plan, !.cadence = o.cadence, !.kind = o.kind]

Transaction(o, d) ==
  CASE o.kind = "create" -> CreateTransaction(o)
    [] o.kind = "change" -> ChangeTransaction(o)
    [] o.kind = "cancel" -> CancelTransaction(o, d)
    [] o.kind = "resume" -> ResumeTransaction(o)

\* "no free plan slots", ForeignDelegateError.  A create does not look again for
\* what blocks it.
Refused(o, d) ==
  \/ o.kind \in {"create", "change"} /\ FreeIndexes(o.asset) = {}
  \/ o.kind = "change" /\ d = Foreign

\* An error: shown, resolved as false, nothing read again.
Failed(t) == [tab[t] EXCEPT !.op = Idle]

BuildReading(t, d) ==
  /\ At(t, "build")
  /\ tab' = [tab EXCEPT ![t] =
       IF Refused(tab[t].op, d) THEN Failed(t)
       ELSE [@ EXCEPT !.op.pc = "sign", !.op.tx = Transaction(tab[t].op, d)]]
  /\ UNCHANGED <<now, chain, flight, signed, acted>>

\* The reads and the building are one step: what changes between them changes
\* as well right after.
Build(t) == BuildReading(t, delegate) /\ UNCHANGED mishaps

\* loadFunding answers "nobody" when it cannot read.
BuildMisread(t) == Mishap /\ BuildReading(t, None)

Signed(t) == [tab[t].op.tx EXCEPT !.id = signed + 1]

Sign(t) ==
  /\ At(t, "sign")
  /\ flight' = flight \cup {Signed(t)} /\ signed' = signed + 1
  /\ tab' = [tab EXCEPT ![t].op.pc = "confirm", ![t].op.tx = Signed(t)]
  /\ UNCHANGED <<now, chain, acted, mishaps>>

Decline(t) ==
  /\ At(t, "sign") /\ tab' = [tab EXCEPT ![t] = Failed(t)]
  /\ UNCHANGED <<now, chain, flight, signed, acted, mishaps>>

\* The answer to sendTransaction is lost, not the transaction.
SignErrs(t) ==
  /\ At(t, "sign") /\ Mishap
  /\ flight' = flight \cup {Signed(t)} /\ signed' = signed + 1
  /\ tab' = [tab EXCEPT ![t] = Failed(t)]
  /\ UNCHANGED <<now, chain, acted>>

\* Mutant: no word of an error is taken as a success.
ConfirmedUnlessError(t) == tab[t].op.verdict # "err"

Confirmed(t) == tab[t].op.verdict = "ok"

Confirm(t) ==
  /\ At(t, "confirm")
  /\ tab' = [tab EXCEPT ![t] =
       IF Confirmed(t) THEN [@ EXCEPT !.op.pc = "refresh"] ELSE Failed(t)]
  /\ Confirmed(t) \/ tab[t].op.verdict = "err"
  /\ UNCHANGED <<now, chain, flight, signed, acted, mishaps>>

\* Mutant: polling without a deadline.
PollsOn(t) == FALSE

\* A transaction that is gone is never judged.
GivesUp(t) == At(t, "confirm") /\ tab[t].op.verdict = "none" /\ tab[t].op.tx \notin flight

Timeout(t) ==
  /\ GivesUp(t) /\ tab' = [tab EXCEPT ![t] = Failed(t)]
  /\ UNCHANGED <<now, chain, flight, signed, acted, mishaps>>

\* The deadline passes, or a poll fails, before a word of the transaction.
ConfirmErrs(t) ==
  /\ At(t, "confirm") /\ Mishap
  /\ tab' = [tab EXCEPT ![t] = Failed(t)]
  /\ UNCHANGED <<now, chain, flight, signed, acted>>

\* The operation resolves true, and a form closes.
Resolve(t, view) ==
  tab' = [tab EXCEPT ![t] =
    [@ EXCEPT !.screen = IF Kind(t) \in {"create", "change"} THEN "home" ELSE tab[t].screen,
              !.view = view, !.op = Idle, !.done = tab[t].op.tx]]

Refresh(t) ==
  /\ At(t, "refresh") /\ Resolve(t, View(delegate))
  /\ UNCHANGED <<now, chain, flight, signed, acted, mishaps>>

\* refresh() keeps its errors to itself: the screen stays as it was.
RefreshErrs(t) ==
  /\ At(t, "refresh") /\ Mishap
  /\ Resolve(t, tab[t].view) \/ Resolve(t, View(None))
  /\ UNCHANGED <<now, chain, flight, signed, acted>>

-----------------------------------------------------------------------------
(* The rest of the world. *)

Drop(x) ==
  /\ Mishap /\ flight' = flight \ {x}
  /\ UNCHANGED <<now, chain, tab, signed, acted>>

\* The saver approves another app, or revokes, elsewhere.
Elsewhere ==
  /\ Mishap
  /\ \/ delegate' = Foreign /\ allowance' = 1
     \/ delegate # None /\ delegate' = None /\ allowance' = 0
  /\ UNCHANGED <<now, schedule, cash, applied, flight, tab, signed, acted>>

Tick ==
  /\ now < MaxTime /\ now' = now + 1
  /\ UNCHANGED <<chain, flight, tab, signed, acted, mishaps>>

Init ==
  /\ now = 0
  /\ schedule = [p \in Plans |-> [status |-> "none", due |-> 0, cadence |-> 0]]
  /\ delegate = None /\ allowance = 0 /\ cash = InitialCash
  /\ flight = {} /\ tab = [t \in Tabs |-> Opened]
  /\ signed = 0 /\ applied = {} /\ acted = {} /\ mishaps = 0

Taps(t) == OpenCreate(t) \/ OpenChange(t) \/ Back(t) \/ Submit(t) \/ Stop(t) \/ Renew(t)

Answers(t) == Confirm(t) \/ Timeout(t) \/ Refresh(t)

Errs(t) ==
  \/ ShowErrs(t) \/ BuildMisread(t) \/ SignErrs(t) \/ ConfirmErrs(t) \/ RefreshErrs(t)
  \/ Reload(t)

Next ==
  \/ \E t \in Tabs :
       \/ Show(t) \/ Taps(t) \/ Build(t) \/ Sign(t) \/ Decline(t) \/ Answers(t)
       \/ Errs(t)
  \/ \E x \in flight : Land(x) \/ Drop(x)
  \/ \E p \in Plans : KeeperBuys(p)
  \/ Elsewhere \/ Tick

Spec == Init /\ [][Next]_vars

\* Timers and answers of the RPC node arrive, and the network delivers what it
\* does not drop.  Nothing is assumed of the saver or of the wallet.
Fairness ==
  /\ \A t \in Tabs : WF_vars(Answers(t))
  /\ WF_vars(\E x \in flight : Land(x))

FairSpec == Spec /\ Fairness

-----------------------------------------------------------------------------
(* Properties *)

Delegates == Plans \cup {Foreign, None}

Transactions ==
  [cancel : Plans \cup {None}, create : Plans \cup {None}, approve : Plans \cup {None},
   due : Nat, cadence : Nat, revoke : BOOLEAN,
   kind : {"create", "change", "cancel", "resume"}, id : Nat]

Views ==
  [active : Plans \cup {None}, due : Nat, cadence : Nat, unfunded : BOOLEAN, low : BOOLEAN,
   foreign : BOOLEAN, cash : Nat]

Ops ==
  [kind : {"none", "create", "change", "cancel", "resume"},
   pc : {"idle", "build", "sign", "confirm", "refresh"},
   plan : Plans \cup {None}, due : Nat, asset : Nat, cadence : Nat,
   tx : Transactions \cup {None}, verdict : {"none", "ok", "err"}]

\* None and Foreign are no plan and no transaction, and the values a configuration
\* gives are well formed.
ASSUME SavingsAppAssumption ==
  /\ Assets \subseteq Nat /\ Indexes \subseteq Nat
  /\ IsFiniteSet(Assets) /\ IsFiniteSet(Indexes)
  /\ Cadences \subseteq Nat \ {0}
  /\ Runs \in [Cadences -> Nat \ {0}]
  /\ COVERAGE_WARN_AT \in Nat /\ InitialCash \in Nat /\ MaxTime \in Nat
  /\ MAX_SIGNED \in Nat /\ MAX_MISHAPS \in Nat
  /\ None \notin Plans /\ Foreign \notin Plans /\ None # Foreign
  /\ None \notin Transactions

\* Every variable keeps its type, and the dollar account and its allowance are
\* never drawn below zero.
TypeOK ==
  /\ now \in Nat
  /\ schedule \in [Plans -> [status : {"none", "active", "cancelled"}, due : Nat,
                             cadence : Nat]]
  /\ delegate \in Delegates /\ allowance \in Nat /\ cash \in Nat
  /\ flight \subseteq Transactions
  /\ tab \in [Tabs -> [screen : {"loading", "home", "form"}, view : Views,
                       form : [plan : Plans \cup {None}, due : Nat],
                       op : Ops, done : Transactions \cup {None}]]
  /\ signed \in Nat /\ applied \subseteq Nat /\ acted \subseteq Tabs /\ mishaps \in Nat

\* Whatever is lost or late, an operation that resolved true took effect
\* (useSavings.ts, "Each resolves true when the change landed").
TrueMeansLanded ==
  \A t \in Tabs : tab[t].done # None => tab[t].done.id \in applied

\* A change puts one plan in the place of another, and funds it: however tabs,
\* keepers and retries interleave, no change leaves both plans live, or neither
\* (paritas.ts, buildChangePlanTransaction).
ChangeIsOneForOne ==
  [][\A x \in flight :
       x.kind = "change" /\ x.id \in applied' \ applied =>
         /\ Cardinality(Active') = Cardinality(Active)
         /\ delegate' \in Active' \ Active]_vars

\* A saver who works in one tab, and whom nothing goes wrong for, has one plan at
\* most, and nobody but that plan may spend: the app's stale reads do no harm.
OneTabIsTidy ==
  mishaps = 0 /\ Cardinality(acted) <= 1 =>
    Cardinality(Active) <= 1 /\ delegate \in Active \cup {None}

\* A signed operation comes to an end, whatever became of its transaction: the
\* buttons do not stay disabled (confirmSignature's deadline).
SignedOpsEnd == \A t \in Tabs : At(t, "confirm") ~> ~Busy(t)

\* What paritas.ts says of checkFundingBlock: one plan at a time.
OnePlanAtATime == Cardinality(Active) <= 1

\* What paritas.ts says of a change: it does not buy early.  The new plan starts on
\* the next due date that the old one has when the change is built, or a cadence
\* from then.
ChangeKeepsTheDate ==
  [][\A t \in Tabs :
       LET o == tab[t].op IN
         o.kind = "change" /\ o.pc = "build" /\ tab'[t].op.pc = "sign" =>
           tab'[t].op.tx.due >= Smaller(schedule[o.plan].due, now + o.cadence)]_vars
=============================================================================
