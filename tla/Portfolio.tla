----------------------------- MODULE Portfolio -----------------------------
(***************************************************************************)
(* What the savings app computes and shows: positions and gains            *)
(* (lib/portfolio.ts), streaks on market time (lib/market.ts), the reach   *)
(* of an allowance (lib/format.ts), and the limits and funding of a plan   *)
(* (lib/paritas.ts).  Amounts are raw units, as in the code.  The unit of  *)
(* time is a day, which is as fine as a weekend needs: the market is open  *)
(* on every day that is not one.                                           *)
(***************************************************************************)
EXTENDS ParitasMath, Sequences, SequencesExt

CONSTANTS
  MONEY_DECIMALS,          \* decimals of the payment mint
  WEEK,                    \* days in a week, the last two a weekend
  COVERAGE_WARN_AT,        \* buys left when the app starts to warn
  MIN_RUNS_FUNDED,         \* fewest buys an approval covers
  FUNDED_HORIZON,          \* and the days it covers at least
  MIN_CADENCE,             \* the program's shortest cadence
  null

ASSUME PortfolioAssumption ==
  /\ MONEY_DECIMALS \in 0..MAX_DECIMALS
  /\ WEEK \in Nat /\ WEEK > 2
  /\ COVERAGE_WARN_AT \in Nat /\ MIN_RUNS_FUNDED \in Nat
  /\ FUNDED_HORIZON \in Nat /\ MIN_CADENCE \in Nat \ {0}
  /\ MAX_KEEPER_FEE_BPS > 0

\* What is missing is no number, no quote and no answer.
ASSUME NullAssumption ==
  /\ null \notin Int /\ null \notin [price : Nat, expo : Int]
  /\ null # "unreadable" /\ null # "too often" /\ null # "too small" /\ null # "too large"
  /\ null # "not enough money"

-----------------------------------------------------------------------------
(* Positions. A quote is a price with an exponent, or null; plans and       *)
(* positions are records that carry the address or symbol they belong to. *)

ValueOf(shares, quote) ==
  LET shift == MONEY_DECIMALS + quote.expo - EQUITY_UNIT_DECIMALS
  IN IF shift >= 0 THEN shares * quote.price * PowerOfTen[shift]
                   ELSE (shares * quote.price) \div PowerOfTen[-shift]

\* Mutant: taking shares out leaves all they cost behind.
PositionAtFullCost(symbol, held, plans, quote) ==
  LET bought == SumFunction([p \in plans |-> p.sharesTotal])
      spent == SumFunction([p \in plans |-> p.investedTotal])
      withCost == AtMost(held, bought)
  IN [symbol |-> symbol, shares |-> held, invested |-> spent, unknown |-> held - withCost,
      value |-> IF quote = null THEN null ELSE ValueOf(held, quote),
      gain |-> IF quote = null THEN null ELSE ValueOf(withCost, quote) - spent]

\* The position in one asset: what its plans spent, scaled at average cost to
\* the shares still held, and the gain on the shares whose cost is known.
Position(symbol, held, plans, quote) ==
  LET bought == SumFunction([p \in plans |-> p.sharesTotal])
      spent == SumFunction([p \in plans |-> p.investedTotal])
      withCost == AtMost(held, bought)
      invested == IF bought = 0 THEN 0 ELSE (spent * withCost) \div bought
  IN [symbol |-> symbol, shares |-> held, invested |-> invested, unknown |-> held - withCost,
      value |-> IF quote = null THEN null ELSE ValueOf(held, quote),
      gain |-> IF quote = null THEN null ELSE ValueOf(withCost, quote) - invested]

\* The totals over a set of positions; null unless every one held has a price.
Total(positions) ==
  LET relevant == {p \in positions : p.shares > 0}
      priced == \A p \in relevant : p.value # null
  IN [invested |-> SumFunction([p \in relevant |-> p.invested]),
      value |-> IF priced THEN SumFunction([p \in relevant |-> p.value]) ELSE null,
      gain |-> IF priced THEN SumFunction([p \in relevant |-> p.gain]) ELSE null]

-----------------------------------------------------------------------------
(* Market days and streaks. *)

IsWeekend(day) == day % WEEK >= WEEK - 2

IsMarketOpen(day) == ~IsWeekend(day)

NextMarketOpen(day) == Min({d \in day .. day + WEEK : IsMarketOpen(d)})

WeekdaySeconds(a, b) ==
  Cardinality({day \in AtMost(a, b) .. AtLeast(a, b) - 1 : ~IsWeekend(day)})

\* Mutant: weekends count against a daily plan.
GapWithWeekends(from, to, cadence) == to - from

Gap(from, to, cadence) == IF cadence < WEEK THEN WeekdaySeconds(from, to) ELSE to - from

\* loadExecutions: the buys in chain history, newest first, each with the
\* cadence of its plan.
Executions(buys) ==
  CHOOSE s \in SetToSeqs(buys) : \A i, j \in DOMAIN s : i < j => s[i].ts >= s[j].ts

\* The buys in a row that end with the latest, and their pace if they share one.
ComputeStreak(executions, active, now) ==
  LET near(from, to, cadence) == Gap(from, to, cadence) < 2 * cadence
      inRow == {n \in 1..Len(executions) :
                 \A i \in 2..n : near(executions[i].ts, executions[i-1].ts,
                                      executions[i-1].cadence)}
      live == /\ active # null /\ executions # <<>>
              /\ near(executions[1].ts, now, active)
      count == IF live THEN Max(inRow) ELSE 0
  IN [count |-> count,
      cadence |-> IF count > 0 /\ \A i \in 1..count :
                       executions[i].cadence = executions[1].cadence
                    THEN executions[1].cadence ELSE null]

-----------------------------------------------------------------------------
(* Funding: what an allowance pays for, and what a plan asks for. *)

\* Mutant: the last date counts one buy too many.
AllowanceReachPast(allowance, amount, cadence, nextDueTs, now) ==
  LET buys == IF amount <= 0 THEN 0 ELSE allowance \div amount
  IN [buys |-> buys,
      lastTs |-> IF buys = 0 THEN null ELSE AtLeast(nextDueTs, now) + buys * cadence]

AllowanceReach(allowance, amount, cadence, nextDueTs, now) ==
  LET buys == IF amount <= 0 THEN 0 ELSE allowance \div amount
  IN [buys |-> buys,
      lastTs |-> IF buys = 0 THEN null
                 ELSE AtLeast(nextDueTs, now) + (buys - 1) * cadence]

Coverage(available, amount) ==
  LET buys == IF amount <= 0 THEN 0 ELSE available \div amount
  IN [buys |-> buys,
      level |-> IF buys = 0 THEN "empty"
                ELSE IF buys <= COVERAGE_WARN_AT THEN "low" ELSE "ok"]

RunsFunded(cadence) ==
  IF cadence <= 0 THEN MIN_RUNS_FUNDED
  ELSE AtLeast(MIN_RUNS_FUNDED, (FUNDED_HORIZON + cadence - 1) \div cadence)

FundedAmount(amount, cadence) == amount * RunsFunded(cadence)

\* loadPlanLimits: the dust floor, or the least amount whose capped fee still
\* covers the vault's minimum.
MinAmount(fee_min) ==
  AtLeast(PowerOfTen[MONEY_DECIMALS],
          (fee_min * BPS + MAX_KEEPER_FEE_BPS - 1) \div MAX_KEEPER_FEE_BPS)

\* Why a plan cannot be set up as described, or null when it can.
PlanProblem(amount, cadence, fee_min, cash) ==
  IF amount = null THEN "unreadable"
  ELSE IF cadence < MIN_CADENCE THEN "too often"
  ELSE IF amount < MinAmount(fee_min) THEN "too small"
  ELSE IF FundedAmount(amount, cadence) > U64_MAX THEN "too large"
  ELSE IF amount > cash THEN "not enough money"
  ELSE null
=============================================================================
