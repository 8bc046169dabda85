--------------------------- MODULE MCParitasMath ---------------------------
(***************************************************************************)
(* ParitasMath and Portfolio against reference definitions, over every     *)
(* input up to a bound: a state is an amount and two mints, or a first due *)
(* date (the amount) and the paces and delays of a saver's buys from then  *)
(* on; the invariants quantify over the remaining inputs.                  *)
(***************************************************************************)
EXTENDS Portfolio

CONSTANTS MaxAmount, MaxMultiplier, Paces,
          Few              \* bound of what an invariant quantifies over

ASSUME MCAssumption ==
  MaxAmount \in Nat /\ MaxMultiplier \in Nat /\ Few \in Nat /\ Paces \subseteq Nat \ {0}

VARIABLES amount, mint_a, mint_b, saver
vars == <<amount, mint_a, mint_b, saver>>

MCPowerOfTen == [d \in 0..2 |-> 10^d]
Mints == [mult : 1..MaxMultiplier, dec : 0..MAX_DECIMALS]
Amounts == 0..MaxAmount

Unit == [mult |-> MULTIPLIER_SCALE, dec |-> EQUITY_UNIT_DECIMALS]

\* A saver's three buys: the pace of the plan, the pace it was changed to
\* before the third, and how late each came: not, half or almost a period.
Savers == [pace : Paces, changed : Paces, late : [1..3 -> 0..2]]

Init ==
  /\ amount = 0
  /\ \/ mint_a \in Mints /\ mint_b \in Mints /\ saver = null
     \/ mint_a = Unit /\ mint_b = Unit /\ saver \in Savers

Next ==
  /\ amount' = (amount + 1) % (MaxAmount + 1)
  /\ UNCHANGED <<mint_a, mint_b, saver>>

Spec == Init /\ [][Next]_vars

-----------------------------------------------------------------------------
\* keeper_fee returns the least fee the ceiling allows that covers both the
\* basis-point share, rounded down, and the minimum; the largest allowed fee
\* when none does; and always less than the amount it is taken from.
FeeMatchesReference ==
  \A bps \in 0..BPS, min \in Amounts :
    LET allowed == {f \in Amounts : f * BPS <= amount * MAX_KEEPER_FEE_BPS}
        covering == {f \in allowed : (f + 1) * BPS > amount * bps /\ f >= min}
        fee == KeeperFee(amount, bps, min)
    IN /\ fee = IF covering = {} THEN Max(allowed) ELSE Min(covering)
       /\ amount > 0 => fee < amount

\* ratcheted_floor is the largest whole number of units within the owner's
\* tolerance of the delivery: it neither asks for more than the tolerance
\* allows, which would stop the plan, nor gives a unit away.
FloorMatchesReference ==
  \A tol \in 0..MAX_FLOOR_TOLERANCE :
    RatchetedFloor(amount, tol) =
      Max({f \in Amounts : f * BPS <= amount * (BPS - tol)})

\* The exact value of n raw tokens, on a scale where it is a whole number.
Worth(n, mint) == n * mint.mult * PowerOfTen[MAX_DECIMALS - mint.dec]

RateOf(x, y) == ComputeRate(x.mult, x.dec, y.mult, y.dec)
HasRate(x, y) == RateDefined(x.mult, x.dec, y.mult, y.dec)

\* No conversion creates value: not in a deposit, a withdrawal, a deposit of
\* one wrapper withdrawn as another, or a swap between two wrappers there and
\* back, whatever the decimals and multipliers.
ConversionsNeverProfit ==
  LET units == ToEquityUnits(amount, mint_a.dec, mint_a.mult)
  IN /\ HasRate(mint_a, Unit) => Worth(units, Unit) <= Worth(amount, mint_a)
     /\ HasRate(mint_a, Unit) /\ HasRate(Unit, mint_b) =>
          Worth(FromEquityUnits(units, mint_b.dec, mint_b.mult), mint_b)
            <= Worth(amount, mint_a)
     /\ HasRate(mint_a, mint_b) /\ HasRate(mint_b, mint_a) =>
          ConvertAmount(ConvertAmount(amount, RateOf(mint_a, mint_b)),
                        RateOf(mint_b, mint_a)) <= amount

\* Splitting a deposit or a withdrawal never yields more than making it whole.
SplittingNeverPays ==
  \A part \in 0..amount :
    LET Units(n) == ToEquityUnits(n, mint_a.dec, mint_a.mult)
        Raw(n) == FromEquityUnits(n, mint_a.dec, mint_a.mult)
    IN /\ Units(part) + Units(amount - part) <= Units(amount)
       /\ Raw(part) + Raw(amount - part) <= Raw(amount)

-----------------------------------------------------------------------------
(* Portfolio *)

\* Each mint doubles as a quote, as far as the table of powers reaches.
QuoteOf(mint) == [price |-> mint.mult, expo |-> -mint.dec]
Quoted(mint) == mint.dec + EQUITY_UNIT_DECIMALS <= MONEY_DECIMALS + MAX_DECIMALS

\* Taking shares out never reads as losing money, nor as making it: with the
\* amount still held, cost split at average between what stays and what left
\* adds up to within a unit, a gain or loss keeps its sign, and shares that no
\* plan bought raise the value of the position and never its gain. A total is
\* shown only when every asset held has a price.
TakingOutIsNoLoss ==
  Quoted(mint_a) /\ Quoted(mint_b) =>
  \A bought \in 1..Few, more \in 0..Few, spent \in 0..Few :
    LET plans == {[address |-> 1, sharesTotal |-> bought, investedTotal |-> spent],
                  [address |-> 2, sharesTotal |-> more, investedTotal |-> more]}
        Held(n) == Position("a", n, plans, QuoteOf(mint_a))
        all == Held(bought + more)
        now == Held(amount)
        other(quote) == Position("b", bought, {}, quote)
    IN /\ amount <= bought + more =>
            now.invested + Held((bought + more) - amount).invested
              \in {all.invested - 1, all.invested}
       /\ all.gain >= 0 => now.gain >= 0
       /\ all.gain < 0 => now.gain <= 0
       /\ amount >= bought + more => now.gain = all.gain
       /\ Total({now, other(null)}).value = null
       /\ Total({now, other(QuoteOf(mint_b))}).gain = now.gain
       /\ Total({now, Position("b", 0, {}, null)}).value = now.value

\* A streak is fair to a saver whose keepers are reliable. Every buy that came
\* less than a period after its date, in market time for a plan faster than
\* weekly, counts, whatever weekends lie between and also over a change to the
\* same or a slower pace; and a weekly plan whose prompt buy is followed by a
\* skipped date starts over.
StreakIsFair ==
  saver # null =>
    LET Late(n, c) == <<0, c \div 2, c - 1>>[saver.late[n] + 1]
        At(due, n, c) == NextMarketOpen(due + Late(n, c))
        first == At(amount, 1, saver.pace)
        due2 == NextDueAfter(amount, saver.pace, first)
        second == At(due2, 2, saver.pace)
        due3 == NextDueAfter(due2, saver.pace, second)
        third == At(due3, 3, saver.pace)
        Punctual(due, buy) ==
          \/ buy - due < saver.pace
          \/ /\ saver.pace < WEEK
             /\ Cardinality({d \in due..(buy - 1) : IsMarketOpen(d)}) < saver.pace
        Streak(last) ==
          ComputeStreak(
            Executions({[ts |-> first, cadence |-> saver.pace],
                        [ts |-> second, cadence |-> saver.pace],
                        [ts |-> last, cadence |-> saver.changed]}),
            saver.changed, last)
    IN /\ /\ saver.changed >= saver.pace
          /\ Punctual(due2, second) /\ Punctual(due3, third)
          => Streak(third).count = 3
       /\ saver.changed = saver.pace /\ saver.pace % WEEK = 0 /\ saver.late[2] = 0 =>
            Streak(At(due3 + saver.pace, 3, saver.pace)).count = 1

\* When k buys fall that are run as soon as they are due: the first now, or on its
\* date, and each of the others where the program moves the date to.
BuyDates(k, cadence, due, now) ==
  LET at[n \in 1..k] ==
        IF n = 1 THEN AtLeast(due, now)
        ELSE LET previous == at[n-1]
             IN  NextDueAfter(IF n = 2 THEN due ELSE previous, cadence, previous)
  IN at

\* What the app says of an allowance is what the program does with it. As many
\* buys run as it announces, the last one on the date it shows or less than a
\* period before; it says "empty" exactly when the next buy would be refused;
\* an approval lasts the horizon and not a whole buy longer; and it turns down
\* a plan as too small exactly when create_schedule would.
FundingMatchesTheProgram ==
  LET price == mint_a.mult
      cadence == mint_b.mult
      reach(due, now) == AllowanceReach(amount, price, cadence, due, now)
      buys == Max({n \in 0..amount : n * price <= amount})
      runs == RunsFunded(cadence)
  IN /\ Coverage(amount, price).buys = buys
     /\ (Coverage(amount, price).level = "empty") <=> amount < price
     /\ \A due, now \in 0..Few :
          /\ reach(due, now).buys = buys
          /\ buys > 0 =>
               reach(due, now).lastTs - BuyDates(buys, cadence, due, now)[buys] \in 0..(cadence - 1)
     /\ runs * cadence >= FUNDED_HORIZON
     /\ runs > MIN_RUNS_FUNDED => (runs - 1) * cadence < FUNDED_HORIZON
     /\ \A fee_min \in 0..Few :
          (PlanProblem(amount, cadence, fee_min, MaxAmount) = "too small") <=>
            cadence >= MIN_CADENCE /\
              (amount < PowerOfTen[MONEY_DECIMALS] \/ FeeCeiling(amount) < fee_min)
=============================================================================
