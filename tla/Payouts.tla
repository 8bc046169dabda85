------------------------------ MODULE Payouts ------------------------------
(***************************************************************************)
(* Taking money out: the withdraw screen (Screens.tsx), the payout planner *)
(* of lib/paritas.ts, the operations of lib/useSavings.ts and the cash out *)
(* service (api/cash-out/route.ts), against one vault.                     *)
(*                                                                         *)
(* The planner repeats the program's integer arithmetic on balances and    *)
(* multipliers that it read a while ago; between the screen, the build and *)
(* the landing, other savers move the vault's balances, issuers move the   *)
(* multipliers, prices move and markets close.                             *)
(***************************************************************************)
EXTENDS ParitasMath, FiniteSets, FiniteSetsExt, Functions

CONSTANTS
  Wrappers,           \* numbered in the order of the address book
  Decimals,
  Multipliers,
  InitialMultiplier,
  Balances,           \* raw tokens the vault may hold of a wrapper
  InitialBalances,
  InitialShares,      \* the saver's receipt tokens
  Amounts,            \* amounts of shares that the saver types
  Prices,             \* payment per whole share, when the market is open
  InitialPrice,
  Desk, InitialDesk,  \* payment the liquidity key may hold
  None,
  MAX_MOVES           \* bound of what others do and of what fails

VARIABLES
  mult, balance,      \* each wrapper's live multiplier, and the vault's tokens
  shares,             \* the saver's receipt tokens
  wallet,             \* the saver's own wrapper tokens
  cash,               \* the saver's dollar account
  desk,               \* the liquidity key's payment account
  price,              \* payment per share, None while prices are not live
  form,               \* the withdraw screen
  op,                 \* the operation under way
  flight,             \* signed transactions that may still land
  moves

saver == <<shares, wallet, cash>>
market == <<mult, balance, desk, price>>
vars == <<market, saver, form, op, flight, moves>>

\* What a leg takes out through one wrapper, and what is signed.
LegRecord == [wrapper : Wrappers, shares : Nat, raw : Nat]
Transactions ==
  [way : {"shares", "cash"}, legs : SUBSET LegRecord, payment : Nat, nonce : Nat]

ASSUME PayoutsAssumption ==
  /\ Wrappers \subseteq Nat /\ IsFiniteSet(Wrappers) /\ Wrappers # {}
  /\ Decimals \in [Wrappers -> 0..MAX_DECIMALS]
  /\ Multipliers \subseteq Nat \ {0} /\ InitialMultiplier \in [Wrappers -> Multipliers]
  /\ Balances \subseteq 0..U64_MAX /\ InitialBalances \subseteq [Wrappers -> 0..U64_MAX]
  /\ InitialShares \in Nat /\ Amounts \subseteq Nat /\ Desk \subseteq Nat /\ InitialDesk \in Desk
  /\ Prices \subseteq Nat \ {0} /\ InitialPrice \in Prices
  /\ MAX_MOVES \in Nat /\ None \notin Nat /\ None \notin Transactions

\* The program's 128 bits hold what compute_rate and convert_amount multiply: with the
\* real scales (10^18 and 10^9) they do for mints of up to 20 decimals.  The planner's
\* integers have no width.
ASSUME WidthsAssumption ==
  /\ FitsU128((U64_MAX + 1) * RATE_SCALE)
  /\ \A w \in Wrappers :
       /\ FitsU128(RateNumerator(MULTIPLIER_SCALE, EQUITY_UNIT_DECIMALS, Decimals[w]))
       /\ \A m \in Multipliers : FitsU128(RateDenominator(m, EQUITY_UNIT_DECIMALS, Decimals[w]))

-----------------------------------------------------------------------------
(* The planner, over sources: each wrapper's balance and multiplier as read. *)

Sources == [w \in Wrappers |-> [balance |-> balance[w], mult |-> mult[w]]]

\* A read that failed: no source covers anything.
NoSources == [w \in Wrappers |-> [balance |-> 0, mult |-> mult[w]]]

\* Mutant: a capacity rounded up.
CapacityUp(s, w) == ToEquityUnits(s[w].balance, Decimals[w], s[w].mult) + 1

Capacity(s, w) == ToEquityUnits(s[w].balance, Decimals[w], s[w].mult)
Raw(s, w, n) == FromEquityUnits(n, Decimals[w], s[w].mult)
Worth(s, w, raw) == ToEquityUnits(raw, Decimals[w], s[w].mult)

\* Largest capacity first, the address book's order among equals.
Ahead(s, w) ==
  {v \in Wrappers : \/ Capacity(s, v) > Capacity(s, w)
                    \/ Capacity(s, v) = Capacity(s, w) /\ v < w}

\* The fullest wrapper covers all of n, or the next ones cover the rest.
Take(s, w, n) ==
  AtMost(Capacity(s, w), AtLeast(0, n - SumFunction([v \in Ahead(s, w) |-> Capacity(s, v)])))

Leg(s, w, n) == [wrapper |-> w, shares |-> n, raw |-> Raw(s, w, n)]

\* Legs that would pay out nothing are dropped.
SplitLegs(s, n) ==
  {Leg(s, w, Take(s, w, n)) : w \in {v \in Wrappers : Raw(s, v, Take(s, v, n)) > 0}}

Available(s) == SumFunction([w \in Wrappers |-> Capacity(s, w)])

\* planSingleWrapper: the fullest of ws, or nothing.
SingleLeg(s, ws, n) ==
  {Leg(s, w, n) : w \in {v \in ws : /\ Ahead(s, v) \cap ws = {}
                                    /\ Capacity(s, v) >= n /\ Raw(s, v, n) > 0}}

\* Mutant: the wrapper that the saver chose is only a preference.
AnyLegs(s, n, chosen) == IF n <= Available(s) THEN SplitLegs(s, n) ELSE {}

\* planPayout; the answer "short" is no leg at all.
PlanPayout(s, n, chosen) ==
  IF chosen # None THEN SingleLeg(s, {chosen}, n)
  ELSE IF n <= Available(s) THEN SplitLegs(s, n) ELSE {}

\* payoutPerWrapper: what the advanced view offers.
Covered(s, w, n) == Raw(s, w, n) > 0 /\ Raw(s, w, n) <= s[w].balance

\* Payment for one leg, on what its raw amount is worth and not on what was asked.
Payment(s, leg, p) == (Worth(s, leg.wrapper, leg.raw) * p) \div PowerOfTen[EQUITY_UNIT_DECIMALS]

\* The route: planCashOut on the balances of this moment, if prices are live, the
\* saver holds n and the liquidity key can pay.
CashOutLegs(n) ==
  {leg \in SingleLeg(Sources, Wrappers, n) :
     price # None /\ n <= shares /\ desk >= Payment(Sources, leg, price)}

-----------------------------------------------------------------------------
(* The program, as Vault and the token programs have it. *)

\* Mutant: the vault's holding is not looked at.
PaysOutUnchecked(leg) ==
  /\ leg.shares > 0
  /\ Raw(Sources, leg.wrapper, leg.shares) > 0

PaysOut(leg) ==
  /\ leg.shares > 0
  /\ FromEquityUnitsDefined(leg.shares, Decimals[leg.wrapper], mult[leg.wrapper])
  /\ Raw(Sources, leg.wrapper, leg.shares) \in 1..balance[leg.wrapper]

Burned(x) == SumFunction([leg \in x.legs |-> leg.shares])

\* Raw tokens of w that transaction x pays the saver, at the live multiplier.
PaidOut(x, w) ==
  SumFunction([leg \in {l \in x.legs : l.wrapper = w} |-> Raw(Sources, w, leg.shares)])

\* Raw tokens of w that the sale of a cash out moves on, as it was planned.
SoldOff(x, w) ==
  IF x.way = "cash" THEN SumFunction([leg \in {l \in x.legs : l.wrapper = w} |-> leg.raw]) ELSE 0

\* settle_cash_out finds the payment that the liquidity key signed for, which is
\* the minimum of the begin; a minimum of zero is refused.
Acceptable(x) ==
  /\ \A leg \in x.legs : PaysOut(leg)
  /\ Burned(x) <= shares
  /\ x.way = "cash" =>
       /\ x.payment > 0 /\ desk >= x.payment
       /\ \A w \in Wrappers : wallet[w] + PaidOut(x, w) >= SoldOff(x, w)

Idle == [pc |-> "idle", way |-> "shares", amount |-> 0, chosen |-> None, expected |-> 0,
         tx |-> None, verdict |-> "none"]

\* owned: the shares as the last refresh read them, open or not.
Closed(seen) ==
  [open |-> FALSE, owned |-> seen, sources |-> None, amount |-> 0, way |-> "shares",
   advanced |-> FALSE, chosen |-> None, quote |-> None]

Land(x) ==
  /\ flight' = flight \ {x}
  /\ op' = IF op.tx = x THEN [op EXCEPT !.verdict = IF Acceptable(x) THEN "ok" ELSE "err"]
           ELSE op
  /\ IF Acceptable(x)
       THEN /\ shares' = shares - Burned(x)
            /\ balance' = [w \in Wrappers |-> balance[w] - PaidOut(x, w)]
            /\ wallet' = [w \in Wrappers |-> wallet[w] + PaidOut(x, w) - SoldOff(x, w)]
            /\ cash' = cash + x.payment /\ desk' = desk - x.payment
       ELSE UNCHANGED <<saver, balance, desk>>
  /\ UNCHANGED <<mult, price, form, moves>>

-----------------------------------------------------------------------------
(* The withdraw screen. *)

Same == UNCHANGED <<market, saver, flight>>

\* The button of the home screen looks at the last refresh only: an operation may be
\* under way, and the shares may be gone.
Open ==
  /\ ~form.open /\ form.owned > 0
  /\ form' = [Closed(form.owned) EXCEPT !.open = TRUE]
  /\ Same /\ UNCHANGED <<op, moves>>

\* Once for a form: nothing reads the sources again while it is open.
LoadSources ==
  /\ form.open /\ form.sources = None
  /\ form' = [form EXCEPT !.sources = Sources]
  /\ Same /\ UNCHANGED <<op, moves>>

Move == moves < MAX_MOVES /\ moves' = moves + 1

LoadErrs ==
  /\ form.open /\ form.sources = None /\ Move
  /\ form' = [form EXCEPT !.sources = NoSources]
  /\ Same /\ UNCHANGED op

\* Any change of the amount drops the quote, and a quote that is still on its way.
Type ==
  /\ form.open
  /\ \E n \in (Amounts \cap 1..form.owned) \ {form.amount} :
       form' = [form EXCEPT !.amount = n, !.quote = None]
  /\ Same /\ UNCHANGED <<op, moves>>

Choose ==
  /\ form.open
  /\ \/ form' = [form EXCEPT !.way = IF @ = "shares" THEN "cash" ELSE "shares"]
     \/ form' = [form EXCEPT !.advanced = ~@, !.chosen = None]
     \/ /\ form.advanced /\ form.way = "shares" /\ form.sources # None /\ form.amount > 0
        /\ \E w \in Wrappers :
             Covered(form.sources, w, form.amount) /\ form' = [form EXCEPT !.chosen = w]
  /\ Same /\ UNCHANGED <<op, moves>>

\* quoteCashOut: a payment, or 0 for an answer that is no quote.
Quote ==
  /\ form.open /\ form.amount > 0 /\ form.quote = None
  /\ IF CashOutLegs(form.amount) = {} THEN form' = [form EXCEPT !.quote = [ok |-> FALSE, payment |-> 0]]
     ELSE \E leg \in CashOutLegs(form.amount) :
            form' = [form EXCEPT !.quote = [ok |-> TRUE, payment |-> Payment(Sources, leg, price)]]
  /\ Same /\ UNCHANGED <<op, moves>>

Back ==
  /\ form.open /\ form' = Closed(form.owned)
  /\ Same /\ UNCHANGED <<op, moves>>

\* Without a choice of the saver's, the wrapper that the planner would take alone,
\* or else the first one covered.
Silent ==
  LET legs == PlanPayout(form.sources, form.amount, None)
      covered == {w \in Wrappers : Covered(form.sources, w, form.amount)}
  IN  IF Cardinality(legs) = 1 THEN (CHOOSE leg \in legs : TRUE).wrapper
      ELSE IF covered = {} THEN None ELSE Min(covered)

Chosen ==
  IF ~form.advanced THEN None ELSE IF form.chosen = None THEN Silent ELSE form.chosen

SharesReady ==
  /\ form.sources # None
  /\ IF form.advanced THEN Chosen # None /\ Covered(form.sources, Chosen, form.amount)
     ELSE PlanPayout(form.sources, form.amount, None) # {}

Submit ==
  /\ form.open /\ op.pc = "idle" /\ form.amount > 0
  /\ IF form.way = "shares"
       THEN /\ SharesReady
            /\ op' = [Idle EXCEPT !.pc = "build", !.amount = form.amount, !.chosen = Chosen]
       ELSE /\ form.quote # None /\ form.quote.ok
            /\ op' = [Idle EXCEPT !.pc = "build", !.way = "cash", !.amount = form.amount,
                                  !.expected = form.quote.payment]
  /\ Same /\ UNCHANGED <<form, moves>>

-----------------------------------------------------------------------------
(* The operation. *)

\* buildWithdrawTransaction reads the sources again.  The nonce stands for the
\* blockhash: a transaction that was given up and one built later are not the same.
WithdrawTransactions(o) ==
  LET legs == PlanPayout(Sources, o.amount, o.chosen)
  IN  IF legs = {} THEN {} ELSE {[way |-> "shares", legs |-> legs, payment |-> 0, nonce |-> moves]}

\* Mutant: the figure on the screen is not compared with the one that is built.
CashOutsUnchecked(o) ==
  {[way |-> "cash", legs |-> {leg}, payment |-> Payment(Sources, leg, price),
    nonce |-> moves] :
     leg \in CashOutLegs(o.amount)}

\* cashOut: the route builds anew, and CashOutMovedError if it would pay less.
CashOutTransactions(o) ==
  {[way |-> "cash", legs |-> {leg}, payment |-> Payment(Sources, leg, price),
    nonce |-> moves] :
     leg \in {l \in CashOutLegs(o.amount) : Payment(Sources, l, price) >= o.expected}}

Build ==
  /\ op.pc = "build"
  /\ LET built == IF op.way = "shares" THEN WithdrawTransactions(op) ELSE CashOutTransactions(op)
     IN  IF built = {} THEN op' = Idle
         ELSE \E x \in built : op' = [op EXCEPT !.pc = "sign", !.tx = x]
  /\ Same /\ UNCHANGED <<form, moves>>

Sign ==
  /\ op.pc = "sign" /\ flight' = flight \cup {op.tx} /\ op' = [op EXCEPT !.pc = "confirm"]
  /\ UNCHANGED <<market, saver, form, moves>>

Decline ==
  /\ op.pc = "sign" /\ op' = Idle
  /\ Same /\ UNCHANGED <<form, moves>>

\* Success refreshes, and closes whatever form is open; the refresh may fail.  A failure
\* leaves both as they are.
Confirm ==
  /\ op.pc = "confirm" /\ op.verdict # "none" /\ op' = Idle
  /\ \/ op.verdict = "err" /\ UNCHANGED <<form, moves>>
     \/ op.verdict = "ok" /\ form' = Closed(shares) /\ UNCHANGED moves
     \/ op.verdict = "ok" /\ form' = Closed(form.owned) /\ Move
  /\ Same

\* The deadline passes and the transaction may or may not land.
GiveUp ==
  /\ op.pc = "confirm" /\ op.verdict = "none" /\ Move
  /\ op' = Idle /\ flight' \in {flight, flight \ {op.tx}}
  /\ UNCHANGED <<market, saver, form>>

-----------------------------------------------------------------------------
(* What others do. *)

Others ==
  /\ Move
  /\ \/ \E w \in Wrappers, n \in Balances :
          balance' = [balance EXCEPT ![w] = n] /\ UNCHANGED <<mult, desk, price>>
     \/ \E w \in Wrappers, m \in Multipliers :
          mult' = [mult EXCEPT ![w] = m] /\ UNCHANGED <<balance, desk, price>>
     \/ price' \in Prices \cup {None} /\ UNCHANGED <<mult, balance, desk>>
     \/ desk' \in Desk /\ UNCHANGED <<mult, balance, price>>
  /\ UNCHANGED <<saver, form, op, flight>>

Init ==
  /\ mult = InitialMultiplier /\ balance \in InitialBalances
  /\ shares = InitialShares /\ wallet = [w \in Wrappers |-> 0] /\ cash = 0
  /\ desk = InitialDesk /\ price = InitialPrice
  /\ form = Closed(InitialShares) /\ op = Idle /\ flight = {} /\ moves = 0

Next ==
  \/ Open \/ LoadSources \/ LoadErrs \/ Type \/ Choose \/ Quote \/ Back \/ Submit
  \/ Build \/ Sign \/ Decline \/ Confirm \/ GiveUp \/ Others
  \/ \E x \in flight : Land(x)

Spec == Init /\ [][Next]_vars

-----------------------------------------------------------------------------
(* Properties *)

\* Whatever was planned on old balances, no account is drawn below zero.
TypeOK ==
  /\ mult \in [Wrappers -> Multipliers] /\ balance \in [Wrappers -> Nat]
  /\ shares \in Nat /\ wallet \in [Wrappers -> Nat] /\ cash \in Nat /\ desk \in Nat
  /\ price \in Prices \cup {None} /\ moves \in Nat
  /\ form.amount \in 0..form.owned /\ form.open \in BOOLEAN
  /\ op.pc \in {"idle", "build", "sign", "confirm"}
  /\ op.pc \in {"sign", "confirm"} => op.tx # None

\* A plan that the planner returns is one that the program accepts while nothing has
\* moved: split or whole, chosen or not, as shares or as cash (planPayout's comment).
FreshPlansAreAccepted ==
  \A n \in 1..shares :
    /\ \A chosen \in Wrappers \cup {None} :
         LET o == [Idle EXCEPT !.amount = n, !.chosen = chosen]
         IN  \A x \in WithdrawTransactions(o) : Acceptable(x)
    /\ \A x \in CashOutsUnchecked([Idle EXCEPT !.amount = n]) : x.payment > 0 => Acceptable(x)

\* A cash out that lands pays what the saver agreed to on the screen, or more, for
\* exactly the shares asked for, whatever moved in between.
CashOutPaysTheQuote ==
  [][\A x \in flight :
       x = op.tx /\ x \notin flight' /\ x.way = "cash" /\ op.pc = "confirm" /\ cash' # cash =>
         cash' - cash >= op.expected /\ shares - shares' = op.amount]_vars

\* A withdrawal that lands never burns more than was asked for, and one through a
\* wrapper that the saver chose pays nothing but this wrapper.
WithdrawsWhatWasAsked ==
  [][\A x \in flight :
       x = op.tx /\ x \notin flight' /\ x.way = "shares" /\ op.pc = "confirm" /\ shares' # shares =>
         /\ shares - shares' <= op.amount
         /\ op.chosen # None =>
              /\ shares - shares' = op.amount
              /\ \A w \in Wrappers \ {op.chosen} : wallet'[w] = wallet[w]]_vars
=============================================================================
