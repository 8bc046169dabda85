# A verification project for paritas

paritas is a savings app on Solana. People commit to buying a fixed amount of
a tokenised equity every week or month; anyone may run a buy that is due, with
the owner's delegated money, inside one atomic transaction that the program
polices. Behind it stands a vault per equity, which accepts several tokenised
"wrappers" of the same equity and issues one receipt token against them.

This directory holds TLA+ models of that code, TLC configurations that check
them on small instances, and theorems with proofs that TLAPS checks for every
value of the constants. Paths below are relative to the repository
(`programs/paritas/src/...`, `app/src/...`, `keeper/index.ts`).

Run from this directory: `tlc -config MCExecution_shapes.cfg MCExecution.tla`,
`tlapm Execution_proofs.tla`.

## 1. Inventory

### On chain (the program `paritas`)

**Recurring buys**: `create_schedule.rs`, `cancel_schedule.rs`,
`set_keeper_fee.rs`, `begin_execution.rs`, `settle_execution.rs`.
State: a `Schedule` per (owner, vault, index) with its terms, due date,
ratcheting floor, counters and active flag; an `ExecutionReceipt` and an escrow
token account that live for one transaction. The payment account is the
owner's, delegated to the schedule's address with a plain SPL approve.
A buy is `begin_execution ; any swap ; settle_execution`, sent by a caller
nobody trusts: begin moves the amount less the keeper's fee to the caller and
opens an escrow, the swap is whatever the caller likes, settle measures what
arrived, sweeps it into the vault, mints receipts to the owner, moves the due
date and the floor on and pays the fee.
Hard: the caller composes the transaction; instructions reached by CPI are
invisible to introspection; fee, custody, allowance and the active flag may
change between begin and settle or between two buys; keepers come late.
Correct when: a buy is atomic and happens at most once per due date; nothing is
left half done; a cancelled plan is dead; money leaves only an account its
holder delegated; the pace and the floor hold over any history; counters agree
with what happened.

**Transaction introspection**: `introspection.rs`. No state. The scan that both
halves of a buy, and of a cash out, rely on.

**Arithmetic**: `schedule_math.rs`, `multiplier.rs`. No state. Keeper fee,
floor, next due date; rate between two mints, conversion between raw wrapper
amounts and equity units. Hard: order of clamps, rounding at two places, checked
overflow, a pending multiplier that takes effect by the clock.

**Vault**: `init_vault.rs`, `add_wrapper.rs`, `deposit.rs`, `withdraw.rs`,
and the credit in `settle_execution.rs`. State: the registered wrappers, the
vault's balance of each, `total_equity_units`, the receipt mint's supply.
Hard: wrappers of different decimals and multipliers stand behind one receipt;
the issuer moves multipliers at any time; holders use the token program
directly. Correct when: everything owed is backed, nobody gains by moving in
and out, the books agree.

**Cash out**: `cash_out.rs`. `begin_cash_out` withdraws into the seller's hands
and opens an escrow, `settle_cash_out` pays the seller at least the minimum they
signed. Same transaction shape as a buy, over the vault's state.

**Wrapper swap pool**: `register_pair.rs`, `swap.rs`, `liquidity.rs`,
`get_rate.rs`. State: the pair, its two reserves, fee. Swaps between two
wrappers at the multiplier rate.

**Receipt metadata**: `init_receipt_metadata.rs`. Writes display data once.

### Off chain

**Keeper**: `keeper/index.ts`, with `withRetry` of `scripts/devnet-lib.ts`.
Polls the schedules, skips what it cannot run, sizes a delivery from a price and
an address book, sends, confirms, retries, reads back, reports. State: its
address book, the backlog of this pass, the transaction it waits for. Hard:
unknown outcomes, an answer that is lost although the transaction arrived,
transactions that land after their keeper gave up, stale books, several keepers,
a plan that fails on every pass, crashes. Correct when: the owner gets one buy
per due date whatever is resent; reports are true; a quote is honoured; a plan
that can be run is run.

**Savings app**: `app/src/lib/useSavings.ts` (loading, refreshing, running an
operation), `app/src/lib/paritas.ts` (reading and building),
`app/src/components/Screens.tsx` (what is offered when). State: per browser tab,
what was read last and the operation under way; on chain, the schedules and the
one delegate of the dollar account. Hard: every decision rests on an older read;
tabs, keepers and other apps act in between; an operation that was given up may
still take effect; a plan index is never reused. Correct when: at most one plan
is live and it is the funded one; a change is one for one; success means
success; buttons come back.

**Taking money out**: the withdraw screen, `planPayout` and its kin in
`paritas.ts`, `app/src/app/api/cash-out/route.ts`, `cash_out.rs`. State: the
screen's form and quote, the transaction built. Hard: the planner repeats the
program's arithmetic on balances and multipliers that move. Correct when: what
it plans is accepted, and what lands is what was agreed.

**Portfolio, streaks, market time, coverage**: `portfolio.ts`, `market.ts`,
parts of `format.ts` and `paritas.ts`. No state. Hard: rounding, weekends,
changes of pace, the program's rules restated in another language.

**Devnet set-up**: `scripts/setup-devnet.ts`. State: the chain, the key files,
the address book. Hard: it may die anywhere, it is misled by the network, and
reruns must reconcile. Correct when: the book every client reads names only
what exists and is worth what it should; reruns converge and inflate nothing.

**Proxies, demonstration scripts, tests**: price and RPC proxies, `demo.ts`,
`run-lifecycle.ts`, `verify-devnet.ts`, tests. No protocol state of their own.

### Interactions

The app and the keeper reach the program only through transactions, and learn of
it by polling accounts. The program calls the token programs. `Schedule` and
`Vault` meet in `settle_execution`, which is the one instruction that writes
both. The token program's allowance is the only thing that caps an owner's total
exposure. The issuer of a wrapper writes the multiplier that every conversion reads.

`PROJECT.json` lists the hazards of this code at their lines, with the property
that covers each, or the reason why none does or what the property leaves open.

## 2. What is modelled

| Module | Code | What it is |
| --- | --- | --- |
| `ParitasMath` | `schedule_math.rs`, `multiplier.rs` | operators, parameterised by every scale and integer limit |
| `Execution` | the five schedule instructions, `introspection.rs`, `state.rs` | transactions made of arbitrary instructions over the ledger |
| `Vault` | `init_vault.rs`, `add_wrapper.rs`, `deposit.rs`, `withdraw.rs` | one vault, its holders and the issuer |
| `SavingsPlan` | `settle_execution.rs`, `cancel_schedule.rs` | the abstract promise of a plan to its owner |
| `Keeper` | `keeper/index.ts`, `devnet-lib.ts` | keeper processes over a chain of plans; implements `SavingsPlan` |
| `SavingsApp` | `useSavings.ts`, `paritas.ts`, `Screens.tsx` | tabs in which one saver creates, changes, stops and renews plans |
| `Payouts` | `paritas.ts`, `Screens.tsx`, `route.ts`, `cash_out.rs` | withdrawals and cash outs from one vault |
| `DevnetSetup` | `setup-devnet.ts`, `devnet-lib.ts` | runs and reruns of the set-up script |
| `Portfolio` | `portfolio.ts`, `market.ts`, `format.ts`, `paritas.ts` | what the app computes and shows |
| `MC...` | | instances for TLC |
| `ParitasMath_proofs`, `MCParitasMath_proofs` | | lemmas on the arithmetic and on finite sums; theorems about the arithmetic and the app's own computations |
| `Execution_proofs`, `Vault_proofs`, `Keeper_proofs`, `SavingsApp_proofs`, `Payouts_proofs`, `DevnetSetup_proofs` | | theorems about the module they are named after |

`Payouts` and `Portfolio` extend `ParitasMath`, as `Execution` and `Vault` do, so
the program and the code that repeats its arithmetic are checked against the
same operators. `Keeper` instantiates `SavingsPlan`. A buy is one step in
`Keeper` and `SavingsApp`; `Execution` opens it and shows that it is atomic.

### Execution

`tx` is the open transaction: its instructions, the index of the next one and
the ledger it started from. `Submit` opens one, every instruction is one step on
the ledger, `Commit` closes it when all have run, `Abort` restores the saved
ledger at any point (a guard that fails, or any error of another program).
Transactions do not interleave with each other, which is what Solana's account
locks give transactions that write the same accounts. The clock stands still
inside a transaction.

An instruction is a record; `top` says whether the instruction sysvar shows it.
`PairScan` is `scan_pair_transaction` for the buy: among the visible paritas
instructions there are exactly one begin and, after it, one settle.
`BeginIsPaired` and `SettleIsPaired` add each handler's own check that it is the
instruction at the current index, and that the begin's account list names this
schedule (`metas` are accounts that a caller adds to it). A CPI is modelled as
an instruction of its own with `top = FALSE`; it follows that a `paritas` CPI
from inside one top-level begin or settle is not represented, which those two
could only make through the token programs they call. The instructions of
`Execution` are those of a schedule. A deposit, a withdrawal or a cash out at top
level inside a buy is refused by the scan as any other paritas instruction is; one
reached by CPI would run, and is not represented: a vault moves in `Execution`
by settled buys alone.

Each handler's guards stand in its action, with the account constraints that
anchor evaluates before the handler; addresses that are pure functions of
others (PDAs, associated accounts) are functions on the schedule or vault.
One payment mint is modelled, so the checks that pin it hold by typing. The
account rent is not modelled. `Deliver` is the swap: any amount into the open escrow.

`runs` is a history variable: for each schedule the buys that committed. Only
properties read it. `settle_execution` reads a wrapper's multiplier from a fixed
configuration with a switch time; an issuer who changes it is in `Vault`.

### Vault

Deposits, withdrawals and `CreditDelivery` (what `settle_execution` does to a
vault) by any user in any order, with the issuer's `UpdateMultiplier`, transfers
of receipts, donations to the vault's account and direct burns. `OnlyGrowing`
chooses between an issuer that only ever raises multipliers (dividends, the
normal course of a wrapper) and one that may lower them.

### ParitasMath

The values are mathematical; `FitsU64`, `FitsU128`, `FitsI64` and the `...Defined`
predicates say when the checked Rust operation returns `Ok`, and the handlers'
guards use them. Parsing the mint's extension and converting its `f64` are
abstracted to a fixed-point number.

### SavingsPlan and Keeper

`SavingsPlan` says what an owner is promised: while a plan is active and funded
there is one buy for each due date, none before the date, a late buy leaves one
buy owed and not a backlog, and nothing comes back after a cancel.

A keeper process is a record with a program counter: `asleep` between polls,
`prices` and `next` while it walks its backlog, `send`, `confirm`, `reread` for
one plan, `down` when it is not running. `Fetch` reads the due plans and sorts
them, oldest first; `ReadPrices` reads the price; `Check` is `preflight` and the
sizing of `execute`, on values read then; `Send`, `Confirm`, `GiveUp` are
`sendAndConfirm`; `SendErrs` is `withRetry` around it, with its division of
errors into those that are resent and those that are not; `Reread` reads the
schedule and reports. `flight` holds signed transactions. `Land` runs one if the
program accepts it at that moment (`Executable`), `Drop` lets it expire, and a
transaction whose keeper gave up may still land until its blockhash is too old.
`Crash`, `Signal`, `Exit` and `Start` stop and restart processes. Prices go
stale when the market closes, the multiplier moves and the address book follows
at its own time. `credit` is what the owner has received, in equity units.

### SavingsApp

The chain is the set of schedules, the delegate with its allowance counted in
buys (an approval covers `Runs[cadence]` of them), and the cash. A tab has a
screen, the view it last read, the form, and one operation: `build`, `sign`,
`confirm`, `refresh`, as `run` of `useSavings.ts` goes through them. `Begin`
needs the button to be shown and not disabled; `Build` reads the chain (all of
it, or through the form's plan, exactly where the code does) and makes the
transaction; `Sign` puts it in flight or the saver declines; `Timeout`,
`ConfirmErrs`, `RefreshErrs` and `Drop` are the ways it can fail. Other
apps may approve or revoke (`Elsewhere`). Keepers buy.

### Payouts

The planner reads `Sources` (balances and multipliers) once for a form and again
when a transaction is built. `PlanPayout` picks the fullest wrapper, or splits,
or serves the one that was chosen; `CashOutLegs` is the service's own plan at
the live price. What others do to balances, multipliers, prices and the desk's
account comes at any point, up to `MAX_MOVES`. `form.owned` is what the last refresh
read of the saver's shares, kept whether the form is open or not: only a success
refreshes, so a form may offer shares that a withdrawal given up earlier has taken
since. The home screen opens the form while an operation runs; the success of that
operation closes whatever form is open. The service's reads are one step. `Acceptable` is what the program
checks when the transaction lands; all legs are checked on the state before it,
which is the same since a plan has at most one leg per wrapper.

### DevnetSetup

A run is one pass over `Steps`, in the order of the script: read, send what is
missing, wait. The time is read once per run. An error ends the run, except
where `withRetry` resends; the operator reruns. `Misjudge` is a transport error
of a call that did reach the network, which `withRetry` takes for proof that it
did not. `Pass` is a multiplier of `CONTEXT.md` taking effect, after which a mock
is no longer worth what it stands for and the script asks for its key to be
deleted. `keeperPublicKey` is asked per vault in the model and once in the code,
which only adds behaviours.

### Portfolio

Operators only. The unit of time is a day, which is as fine as weekends need:
`IsMarketOpen` is a weekday, and hours are left out. A percentage is left out.

## 3. What is checked

| Run | Shows | Distinct states |
| --- | --- | --- |
| `shapes` | `TypeOK`, `NoStrandedExecution`, `CountersAgree`, `BuysAreAtomic`, `CancelIsFinal`, `DebitsAreConsented` over some forty transactions | 389 thousand |
| `pace` | `BuysArePaced`, `DeliveryIsFloored` over up to four buys of a plan | 826 thousand |
| `vault` | `TypeOK`, `Backed`, `SharesOnBooks`, `SurplusNeverShrinks` | 131 thousand |
| `math` | fee, floor, conversions, positions, streaks and coverage against reference definitions | 23 thousand |
| `keeper_pair` | `TypeOK`, `ReportsAreReal`, and `PlansKeepTheirPromise`, the refinement of `SavingsPlan` | 1.1 million |
| `keeper_live` | `SaverGetsTheQuote`, and `DuePlansAreRun` under fairness | 173 thousand |
| `app_tabs` | `TypeOK`, `OneTabIsTidy`, `ChangeIsOneForOne` with two tabs | 901 thousand |
| `app_alone` | `TrueMeansLanded`, and `SignedOpsEnd` under fairness, with two mishaps | 363 thousand |
| `payouts` | `TypeOK`, `FreshPlansAreAccepted`, `CashOutPaysTheQuote`, `WithdrawsWhatWasAsked` | 110 thousand |
| `setup` | `TypeOK`, `BookIsTrue`, `OneMintPerWorth`, `NeverInflated`, and `SetupConverges` under fairness | 984 thousand |
| `app_oneplan` | `OnePlanAtATime` fails, see Findings | |
| `app_change` | `ChangeKeepsTheDate` fails, see Findings | |

**shapes.** One owner with two plans on one payment account, a keeper, a vault
authority, two vaults, two wrappers, time 0 to 3. The submitted transactions are
the app's own (create, change, cancel) and every way to bend a buy that the code
guards against: begin without settle, settle first, two settles, two begins,
the settle of another plan with and without its accounts named in the begin, a
begin or a settle by CPI, a cancel inside an execution at top level and by CPI,
a fee change by CPI in both directions, custody handed over, the allowance
revoked or redirected in the middle, a second delivery, another wrapper,
another vault, another caller, a short delivery, the owner as own keeper, and
interference between buys. Two plans and two buys are enough: each guard relates
at most one schedule's state to one transaction's instructions and one other
schedule. Amounts of 10 with basis points in tenths make each fee and floor round.

**pace.** Cadence 2 and 3, time 0 to 8, first run now or four units in the past,
funds for four buys, deliveries above, at and below the floor, a caller's
minimum, a fee change. Consecutive buys come on time, one period and several periods late.

**vault.** Two holders, two wrappers of different decimals with rates that do
not divide, up to three raw tokens each, two multiplier values that may take
effect at once or later. The smallest amounts are where rounding weighs the most.
`OnlyGrowing` is TRUE: with FALSE, an issuer who lowers a multiplier breaks `Backed`.

**math.** All amounts up to 25, all multipliers up to 5, all decimals up to 2 on
both sides, all fee settings. For the streak: every start within four weeks,
daily, two-day, five-day, weekly and fortnightly plans, three buys each on time,
half a period or almost a period late, with a change of pace before the third.
What an invariant quantifies over besides (shares bought, what they cost, due
dates, fee minimums) goes up to 3.

**keeper_pair.** Two keepers, one of them started by cron for a single pass, one
plan of two buys, two attempts, two mishaps (a lost or misread answer, a crash,
a signal, a cancel, a drop). One plan is enough for the promise, which is about
each plan alone; two keepers with two attempts put up to four transactions for
the same date in flight. Time is 0 and 1: buys at both, a late transaction
for the first date that lands on the second, and a first date that is skipped
because its buy comes a period late.

**keeper_live.** One keeper, a plan that can be run behind an older one that
fails on each pass, two rates, inventory for several deliveries, two mishaps.
The clock stops at 3 and then stands for all later times; dates beyond it are
not reached. Two mishaps interrupt one attempt twice, or two attempts once.

**app_tabs, app_alone.** One asset with two plan indexes, so that a second
change finds none free; three signed transactions over all tabs; allowances of
two buys. Two tabs without failures, and one tab with two failures of any kind.
No cadence changes in `app_tabs`, both in `app_alone`.

**payouts.** Two wrappers of different decimals, five receipts, amounts two and
five, one move by another actor or one failure between any two steps, which is
enough to make any single read stale, the saver's own shares included: a withdrawal
that was given up lands, and the next one is asked for from the old holdings.

**setup.** One vault with two mints, one of whose multipliers changes, two keys
per label, two mishaps over any number of reruns. A second vault repeats the
steps on disjoint accounts.

Deadlock checking is on except in `app_*` and `payouts`, where the saver may be
done, and the counters that bound the run are used up.

### Fairness

`keeper_live`: a keeper that is up takes its steps, and is restarted by systemd or
cron when it is not (`Restart=always` in the keeper's unit); the network delivers
what it does not drop; the market reopens; time goes on. A drop is a
mishap, so the network loses two transactions at most: that RPC nodes work
in the long run is an assumption.
`app_alone`: JavaScript runs on, so a poll is answered, fails or reaches its
deadline; nothing is assumed of the saver or of what becomes of the transaction.
`setup`: the script runs on and is answered; the operator reruns it, and deletes
a key when the script keeps asking (strong fairness, as runs that fail otherwise
take the request away). This last is what the script tells the operator to do.

### Properties worth a word

- `BuysAreAtomic` compares the ledger before a transaction with the one after:
  at most one plan has bought, once, with the owner debited by exactly the
  amount (fee included), the payee credited with exactly that, the fee under its
  ceiling, the shares the owner's and the vault holding the wrapper they stand
  for; or nothing has moved at all. When the owner runs their own plan from the
  plan's account the two legs cancel out, as they do in the token program.
- `BuysArePaced`: due dates are at least a cadence apart and never more than a
  cadence past the last buy, and any three buys span more than a cadence.
  Two buys may be closer than a cadence: a late buy does not move the calendar.
- `DeliveryIsFloored` bounds one buy against the one before it. It does not
  bound the sum, as `state.rs` says.
- `Backed`: the holders can always leave whichever way they came, after every
  rounding, as long as no multiplier is lowered.
- `PlansKeepTheirPromise` is a refinement, `Promise!Spec` with the keeper's clock
  for `SavingsPlan`'s: everything that keepers resend and lose maps to a buy or to a stutter.
- `DuePlansAreRun` says for every plan and number of buys: if some keeper
  could run it now, it is bought, or ceases to be runnable. What it does not
  promise is a plan that no keeper is able to run.
- `SaverGetsTheQuote` compares what was credited with the quotes that a true or
  an outdated book can give: a book that is behind costs the keeper, or the buy.
- `OneTabIsTidy` and `OnePlanAtATime` are the two sides of the same rule: it holds
  for a saver in one tab whom nothing goes wrong for, and not beyond that.
- `FreshPlansAreAccepted` relates the planner's arithmetic to the program's for
  every balance and multiplier the run reaches. `WithdrawsWhatWasAsked` bounds a
  stale one: less perhaps, never more.
- `NeverInflated` counts top ups whose outcome the script did not learn. Each may
  cost one more target, since `withRetry` resends a mint after a transport error
  that it takes for proof that nothing was sent. With no such doubt a balance
  never exceeds the target.
- `StreakIsFair` covers changes to the same or a slower pace. A change to a
  faster one breaks the streak, because the gap before the first new buy is
  measured against the new cadence: a monthly plan changed to weekly. The
  comment of `computeStreak` ("Changing a plan does not break it") is wrong there.

### Findings

- `app_oneplan`: `createPlan` loads the plans again but only to choose an index.
  The rule "one plan at a time, blocked in the UI ... rather than a silent
  overwrite" (`paritas.ts:396`) rests on the view last loaded, and a failed run
  does not load it again. A creation that timed out and landed later, followed by
  a retry, leaves two active plans and takes the delegation from the first.
- `app_change`: "the new plan starts on the old one's next due date" so that a
  change "should not buy today as well" (`paritas.ts:696`). The date is the
  form's. When a keeper has bought since the form was opened, the new plan starts
  at the date that was already bought and buys again at once.

Met while modelling, with no run of their own: `begin_execution` asks for any
later settle while `state.rs:193` says one of the same schedule (harmless, settle
rejects the pair: `NoStrandedExecution`); holders who burn receipts take the
supply out of the lockstep of `state.rs:62` (`SharesOnBooks` is the half that
holds); the withdraw screen's "covered" (`payoutPerWrapper`) is laxer than the
planner that builds, so the build may refuse what the screen offered; a cash out
worth nothing is quoted, and its begin then refuses the minimum of zero;
`buildCancelPlanTransaction` leaves the delegation in place when the read of the
funding fails, since `loadFunding` answers "nobody" then; the keeper's comment
that a flat price is never stale does not hold for a backlog that takes longer
than the age limit; the repository's `README.md:170` and `keeper/README.md:93` say
that the due date moves a full period past a late buy, which the code does only
when a whole period was missed (a buy less than a period late keeps the calendar,
so the next one comes sooner than a period after it: `BuysArePaced` says what holds).

## 4. What is proved

TLAPS checks these for every value of the constants that satisfies the named
assumptions below.

| Theorem | Property |
| --- | --- |
| `TypeCorrect` | `Execution!TypeOK`: no balance, allowance or counter leaves the naturals |
| `NothingStranded` | `NoStrandedExecution` |
| `BuysAtomic` | `BuysAreAtomic`: one whole buy or nothing, whatever the transaction is made of |
| `CancelFinal` | `CancelIsFinal` |
| `DebitsConsented` | `DebitsAreConsented` |
| `PaceKept` | `BuysArePaced`, for every cadence and any number of buys |
| `FloorKept` | `DeliveryIsFloored`, for every tolerance and any number of buys |
| `CountersRight` | `CountersAgree`, for any number of plans and vaults |
| `FeeIsRight`, `FloorIsRight` | `FeeMatchesReference`, `FloorMatchesReference` |
| `NeverProfits`, `NeverPaysToSplit` | `ConversionsNeverProfit`, `SplittingNeverPays`, at every decimals, multiplier and scale |
| `FundingIsRight` | `FundingMatchesTheProgram`, for every allowance, amount, cadence and fee |
| `TakingOutReadsRight` | `TakingOutIsNoLoss`, for every price, decimals and holding |
| `StreakCounts` | `StreakIsFair`, for every pace, start and length of the week |
| `VaultTypes`, `ReceiptsOnBooks` | `Vault!TypeOK`, `SharesOnBooks` |
| `VaultBacked` | `Backed`, while no multiplier is lowered |
| `SurplusKept` | `SurplusNeverShrinks` |
| `KeeperTypeCorrect` | `Keeper!TypeOK`: no inventory or allowance is overdrawn |
| `PromiseKept` | `PlansKeepTheirPromise`: `Keeper` implements `SavingsPlan` |
| `ReportsReal` | `ReportsAreReal` |
| `QuoteHonoured` | `SaverGetsTheQuote`, for all rates, books and outages |
| `AppTypes` | `SavingsApp!TypeOK` |
| `TrueIsLanded` | `TrueMeansLanded`, for any tabs and mishaps |
| `ChangeSwaps` | `ChangeIsOneForOne` |
| `OneTabTidy` | `OneTabIsTidy` |
| `PayoutTypes` | `Payouts!TypeOK`: nothing planned on old balances draws an account below zero |
| `QuoteIsPaid` | `CashOutPaysTheQuote` |
| `AskedIsWithdrawn` | `WithdrawsWhatWasAsked`, over any number of wrappers |
| `PlansAreAccepted` | `FreshPlansAreAccepted`, the program's overflow checks included |
| `SetupTypes` | `DevnetSetup!TypeOK`, with the bounds on what is sent |
| `BookTrue`, `OneMint` | `BookIsTrue`, `OneMintPerWorth`, for any list of vaults and any reruns |
| `NeverInflates` | `NeverInflated`, for every target |

### Assumptions

They say that the constants are well formed; TLC evaluates each of them in the
runs. Nothing is assumed of how many users, keepers, tabs, plans, vaults,
attempts, mishaps or transactions there are, but that a few of these sets are finite.

- `MathAssumption`: scales are positive, the fee ceiling is below one whole, and
  `PowerOfTen` is positive with `PowerOfTen[d + e] = PowerOfTen[d] * PowerOfTen[e]`
  as far as it goes, which is all the proofs know of powers of ten.
- `ExecutionAssumption`: users and schedules are finite (the sums of
  `CountersAgree` range over them), transactions are sequences of instructions,
  cadences are positive, `None` is not a record.
- `VaultAssumption`: users and wrappers are finite, multipliers positive, and under
  `OnlyGrowing` no multiplier is pending at the start that would lower one.
  `Backed` itself is stated under `OnlyGrowing`: `Spec => [](OnlyGrowing => Backed)`.
- `KeeperAssumption`, `SavingsAppAssumption`: positive cadences, rates and
  attempts; `None` and `Foreign` are no plan, transaction or number.
- `DevnetSetupAssumption`: the vaults are a list that is not empty, each with one
  label at least, no label is called `USDC`, `SOL` or `book`, and a top up is due
  below a positive share of the target.
- `PayoutsAssumption`: there is a wrapper and they are finitely many; vault
  balances fit 64 bits, as token accounts do; multipliers and prices are positive;
  `None` is no number and no transaction.
- `WidthsAssumption`: the program's 128 bits hold what `compute_rate` and
  `convert_amount` multiply. They do at the real scales (10^18 and 10^9) for
  mints of up to 20 decimals. Only *PlansAreAccepted* uses it: the planner's
  integers have no width, so a mint beyond would be planned for and refused.
- `PortfolioAssumption`: the fee ceiling and the shortest cadence are positive.
  `NullAssumption`: `null` is no number, no quote and no answer.
- `MCAssumption`: the bounds of the arithmetic instance are naturals, its paces positive.

`TakingOutIsNoLoss` is stated for mints whose quotes lie within the table of powers
of ten (`Quoted`), which in the run is all of them.

### Arguments

**Execution.** *TypeOK* is inductive by itself, instruction by instruction: the
subtractions stay natural because the fee never exceeds the amount and `CanPull`
guards each pull.

*NoStrandedExecution* is not inductive: it says nothing while a transaction is
open. `ExecutionInv` adds `OpenIsPaired` (a receipt or escrow that is open
inside a transaction was opened by a begin that precedes `pc`, and the settle
that the scan demanded for it lies at or after `pc`) and `BeforeIsClosed` (the
ledger that `Abort` restores has nothing open). A transaction that passed its
begin has one visible settle ahead, that settle can only succeed for the open
schedule, and `Commit` needs `pc` beyond it.

*BuysAtomic* relates the ledger at `Commit` with the one at `Submit`, so
`AtomicInv` says how far apart they are in between. An open transaction is
`Untouched` (no money and no shares have moved since), `Opened` for one schedule
(only the swap amount has moved, between the two accounts the receipt names) or
`Done` for one schedule (`BuyEffect` holds, nothing is open). The last two
need a visible begin behind `pc`. `PairScan` finds the same begin in every
scan of a transaction, so no begin can follow when one is behind: from `Opened`
or `Done` there is no second buy, and from `Untouched` no settle without its
begin, because a settle needs a receipt. `NoStrandedExecution` excludes `Opened`
at the end. All other instructions may come anywhere and leave alone
what a buy is made of (`QuietKeeps`).

*CancelFinal* and *DebitsConsented* follow step by step: the former from
`Runnable` in both handlers, the latter from the guards of the two instructions that pull.

*PaceKept* and *FloorKept* rest on `HistoryInv`: the last recorded buy determines
the schedule's due date and floor (`due > at`, `due <= at + cadence`, floor =
the ratcheted last delivery) and every consecutive pair in the history is
apart, or floored; the same for the ledger kept for `Abort`, since rolling back
must return to a good history. *CountersRight* adds the tallies of that
ledger as well (`CountersInv`), and needs that a plan never moves between vaults.

**Arithmetic.** The fee, the floor and the conversions are quotients; the lemmas of
`ParitasMath_proofs` say when a quotient is at most or at least a number, and
that a conversion is monotone, subadditive and composes to no more than the exact
one. The multiplication law of `PowerOfTen` is what relates the two ways in which
`compute_rate` places the decimals. The state of `math` is the arguments, so the
theorems are about all arguments up to bounds that are themselves arbitrary.

*FundingIsRight* compares a division with a calendar. The dates on which buys fall,
each moved by `next_due_after`, are a recursive function; that the n-th is one
period after the one before, but for the first step from a late start, is shown
on a smallest counterexample. The least amount of a plan is where two
quotients agree: the app divides by the fee ceiling and rounds up, the program
multiplies by it and rounds down. *TakingOutReadsRight* rests on two
facts: a cost split in two at average loses a unit at most (`CostSplits`), and a
part of a position gains if the whole did (`SignKept`), although value and cost
are rounded down separately. *StreakCounts* needs no calendar for the buys that
count: the market opens within two days (`OpensSoon`), and the days between two
buys are those up to the due date, a period at most, and those after it
(`GapIsShort`). For the skipped week it does: a day and the same day whole weeks
later are open together (`SameDay`), so the buy after the skipped one comes two
periods after the last.

**Vault.** *VaultTypes* and *ReceiptsOnBooks* are inductive together (`Books`): the
supply is the sum of what the holders have, so no burn exceeds it, and it is at
most `total_equity_units`, so no subtraction of `withdraw` underflows. *VaultBacked*
adds that no pending multiplier is below the current one (`Growing`); then
the passing of time and an update only raise what each wrapper's balance is worth, a
deposit adds at least what it credits and a withdrawal takes at most what it
debits, by the lemmas on conversions. *SurplusKept* is a statement about a step
in which no multiplier in force changes. It compares exact values, as the program's
roundings all fall to the vault's side.

**Keeper.** *KeeperTypeCorrect* rests on `KeeperInv`, which adds to the types what is
true at each program counter: the backlog is not empty while a plan is worked on, a
signed copy is held only while its answer is awaited, a running keeper has a
book. *PromiseKept* needs that invariant and nothing more: `Land` of an
executable copy maps to `SavingsPlan!Buy` (the arithmetic of `next_due_after`
is a lemma of its own), an owner's step to `OwnerActs`, `Tick` to `Pass`, and
each of the keeper's own steps leaves `plan` and `bought` alone.
*ReportsReal* is not inductive: `ReportInv` counts, for each keeper, the answers
that are still to be read, so that a landing is matched by one report at most.
*QuoteHonoured* needs `QuoteInv`: the minimum of every signed copy in flight is a
quote of a book. Only `Send` and `SendErrs` add copies, from a keeper whose book
is one (`KeeperInv`), and `Land` credits no less than the copy's minimum,
however the rate and the book have moved since.

**Savings app.** `AppInv` says what an operation knows at each program counter. An
`ok` verdict, a refresh after it and a `done` banner carry the number of a
transaction that was applied (hence *TrueIsLanded*: numbers are given by the
wallet, once, and `flight` holds one transaction per number); a change that is
signed or in flight names the plan it ends and the plan it makes and approves
(hence *ChangeSwaps*, together with the program's refusal to end what is not active
or to make what exists). *OneTabTidy* needs `TidyInv`: as long as nothing went
wrong and one tab has acted, its view is the chain's state, but for keepers'
buys, whenever it is between operations, and what it has in flight was built
from such a view. That is the order of `run`: build, sign, confirm, refresh.

**Payouts.** `PayoutInv` ties an operation to its transaction: what is built or
signed has one leg per wrapper at most (`TxGood`) and agrees with what the saver
asked for and was shown (`Agreed`), also when the balances and
multipliers it was computed from have changed since. *QuoteIsPaid* and
*AskedIsWithdrawn* follow when it lands, since the program compares with what is in the
transaction and not with a new plan. *PlansAreAccepted* is about one state: the plan on
current balances passes every check of `Acceptable`. `Ahead`, the order in which a
split visits the wrappers, is a strict total order, so each takes at most what those
ahead of it left, and all of them together no more than the amount (`SplitTakesLess`);
and a wrapper's capacity, which the planner computes
by one conversion, is covered by its balance by the program's conversion the other
way (`CapacityCovers`), although the two rates are rounded apart.

**Set-up.** `SetupInv` adds to the types: a run has achieved every step before
the one it is at, and what was achieved stays so (`RunGood`); a transaction in
flight is for a step of the script (`FlightGood`); a label has a second key only
after its multiplier has changed, when its first mint stays old, and never a third
(`KeyGood`). The book is written by the last step, so it is true by `RunGood`.
`BookIsTrue` alone would not do: a label with the key number zero would pass
for a mint nobody made. *OneMint* is `KeyGood` on two keys. *NeverInflates* is not
inductive: top ups that the script gave up on may still land. `BalanceInv` counts
them: each was given up in doubt, and even if all of them and the
one the run waits for landed, the account would hold its target and one more for each doubt.

Sums over finite sets and flattened sequences are defined by recursion inside the
community modules. What the proofs need of them (a sum changes by what one of
its terms changes by, it is monotone, each step of the script is a step of some
vault) is proved from the recursive equation by taking a smallest counterexample in
a well-founded order, since the library's induction rules cannot be instantiated here.

### Model-checked only

- Liveness: `DuePlansAreRun`, `SignedOpsEnd`, `SetupConverges`. The prover does not
  handle fairness (`ENABLED`).
- Nothing else: each invariant and action property of the runs has its theorem.
  `StreakCounts` is about three buys, as its property is; a streak of any length
  would be an induction over the history, which the prover cannot do.
  The two runs that expect a violation are about claims that do not hold.

## 5. Plan

Done: the program's buys and vault, the arithmetic, the keeper with its refinement,
the app, payouts, the app's displays and the set-up, with their proofs.

Theorems: every invariant and action property of the runs is proved. What
would say more are theorems about modules that do not exist yet.

Modules that remain: `CashOut`, the begin and settle of a cash out in arbitrary
transactions, as `Execution` does for a buy; `Pool`, the wrapper swap pool.

## 6. Not modelled

- The swap pool and receipt metadata: nothing on the savings path calls them.
- The price and RPC proxies, `pyth.ts`: stateless forwarding and parsing. Their
  failures and stale answers are inputs of `Keeper` and `Payouts`.
- `demo.ts`, `run-lifecycle.ts`, `verify-devnet.ts`: each walks once through
  operations modelled elsewhere and asserts on the outcome. (`demo.ts` starts a
  keeper as a child process, which a second interrupt can orphan; a keeper more
  is what `keeper_pair` checks.)
- Layout, wording, animation, theme, configuration; percentages and hours of the
  day in the displays; overlapping refreshes within a tab (a refresh is one step).
- Account rent, compute budget, transaction size, the generated IDL, tests.
