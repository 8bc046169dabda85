----------------------------- MODULE Execution -----------------------------
(***************************************************************************)
(* A recurring buy on chain: the savings plans (schedules) of the paritas  *)
(* program, and the transaction that executes one of them,                 *)
(*                                                                         *)
(*     begin_execution ; <any swap> ; settle_execution                     *)
(*                                                                         *)
(* assembled by a caller nobody trusts.  A Solana transaction is a         *)
(* sequence of top level instructions that run one after the other and     *)
(* take effect together or not at all.  Submit opens one, each instruction *)
(* is a step on the working copy of the ledger, Commit keeps it and Abort  *)
(* restores the ledger the transaction started from.  Instructions reached *)
(* by CPI from a foreign program run too, but the instructions sysvar, and *)
(* so the program's own scan, does not see them: top = FALSE.              *)
(***************************************************************************)
EXTENDS ParitasMath, Sequences, FiniteSets, Functions

CONSTANTS
  Users,          \* wallets: owners, keepers, the vault authority
  Accounts,       \* token accounts of the payment mint
  Schedules,      \* schedule PDAs, one per (owner, vault, index)
  Vaults,
  Wrappers,       \* wrapper mints
  None,

  Registered,     \* vault -> wrappers that add_wrapper allowed on it
  Decimals,       \* wrapper -> decimals of its mint
  MintConfig,     \* wrapper -> its ScaledUiAmountConfig
  VaultAuthority, \* vault -> user
  InitialVault,   \* vault -> its keeper fee settings
  InitialAccount, \* account -> its holder and balance

  DUST_FLOOR,     \* one whole unit of the payment mint
  MIN_CADENCE_SECONDS,
  MAX_SCANNED_INSTRUCTIONS,

  Transactions,   \* instruction sequences that somebody submits
  MaxTime         \* bound of the clock

VARIABLES
  now,       \* Clock sysvar
  schedule,  \* Schedule accounts
  vault,     \* Vault accounts
  accounts,  \* payment token accounts
  holdings,  \* the vaults' own wrapper balances
  shares,    \* receipt tokens of each user
  receipt,   \* ExecutionReceipt PDAs
  escrow,    \* escrow token accounts
  runs,      \* history: the buys each schedule has made
  tx         \* the open transaction

ledger == <<schedule, vault, accounts, holdings, shares, receipt, escrow, runs>>
vars == <<now, ledger, tx>>

-----------------------------------------------------------------------------
(* Instructions, as the sysvar and the handlers see them. *)

ParitasOps == {"begin_execution", "settle_execution", "create_schedule",
               "cancel_schedule", "set_keeper_fee"}

Terms == [owner : Users, vault : Vaults, account : Accounts, amount_usdc : Nat,
          cadence_seconds : Int, first_run_ts : Int, min_equity_units : Nat,
          tolerance : Nat]

\* metas: the schedules whose address, and whose receipt's, the caller adds
\* to the instruction's account list beyond the ones the instruction uses.
Instructions ==
  [op : {"begin_execution"}, top : BOOLEAN, schedule : Schedules, vault : Vaults,
   wrapper : Wrappers, caller : Users, account : Accounts, metas : SUBSET Schedules]
  \cup
  [op : {"settle_execution"}, top : BOOLEAN, schedule : Schedules, vault : Vaults,
   wrapper : Wrappers, caller : Users, account : Accounts, min : Nat]
  \cup
  [op : {"create_schedule"}, top : BOOLEAN, schedule : Schedules, terms : Terms]
  \cup
  [op : {"cancel_schedule"}, top : BOOLEAN, schedule : Schedules, signer : Users]
  \cup
  [op : {"set_keeper_fee"}, top : BOOLEAN, vault : Vaults, signer : Users,
   bps : Nat, min : Nat]
  \cup
  [op : {"deliver"}, schedule : Schedules, wrapper : Wrappers, amount : Nat \ {0}]
  \cup
  [op : {"approve"}, account : Accounts, signer : Users, delegate : Schedules,
   amount : Nat]
  \cup
  [op : {"revoke"}, account : Accounts, signer : Users]
  \cup
  [op : {"set_authority"}, account : Accounts, signer : Users, to : Users]

Visible(ix) == ix.op \in ParitasOps /\ ix.top

\* introspection.rs: the only paritas instructions at top level are the begin
\* at index b and, after it, the settle at index e.  (Instructions under a CPI
\* count towards the bound here, which only makes it stricter.)
PairScan(ixs, b, e) ==
  /\ Len(ixs) <= MAX_SCANNED_INSTRUCTIONS
  /\ b \in 1..Len(ixs) /\ e \in 1..Len(ixs)
  /\ Visible(ixs[b]) /\ ixs[b].op = "begin_execution"
  /\ Visible(ixs[e]) /\ ixs[e].op = "settle_execution"
  /\ b < e
  /\ \A i \in 1..Len(ixs) : Visible(ixs[i]) => i \in {b, e}

-----------------------------------------------------------------------------
(* The payment token program, external to the repository. *)

\* Mutant: an allowance that is not compared with the amount.
CanPullOnBalance(from, delegate, amount) ==
  /\ accounts[from].delegate = delegate
  /\ accounts[from].balance >= amount

CanPull(from, delegate, amount) ==
  /\ accounts[from].delegate = delegate
  /\ accounts[from].delegated >= amount
  /\ accounts[from].balance >= amount

\* A transfer signed by the delegate uses its allowance up and an exhausted
\* delegate is removed.  A transfer of an account to itself changes nothing.
Debited(account, amount) ==
  [account EXCEPT
     !.balance = @ - amount,
     !.delegated = @ - amount,
     !.delegate = IF account.delegated = amount THEN None ELSE @]

Credited(account, amount) == [account EXCEPT !.balance = @ + amount]

Pulled(from, to, amount) ==
  IF from = to THEN accounts
  ELSE [accounts EXCEPT ![from] = Debited(accounts[from], amount),
                        ![to] = Credited(accounts[to], amount)]

-----------------------------------------------------------------------------
(* The runtime. *)

Ledger == [schedule |-> schedule, vault |-> vault, accounts |-> accounts,
           holdings |-> holdings, shares |-> shares, receipt |-> receipt,
           escrow |-> escrow, runs |-> runs]

Init ==
  /\ now = 0
  /\ schedule = [s \in Schedules |-> None]
  /\ vault = [v \in Vaults |->
       [keeper_fee_bps |-> InitialVault[v].bps, keeper_fee_min |-> InitialVault[v].min,
        total_equity_units |-> 0]]
  /\ accounts = [a \in Accounts |->
       [authority |-> InitialAccount[a].holder, balance |-> InitialAccount[a].balance,
        delegate |-> None, delegated |-> 0]]
  /\ holdings = [v \in Vaults |-> [w \in Wrappers |-> 0]]
  /\ shares = [v \in Vaults |-> [u \in Users |-> 0]]
  /\ receipt = [s \in Schedules |-> None]
  /\ escrow = [s \in Schedules |-> None]
  /\ runs = [s \in Schedules |-> <<>>]
  /\ tx = None

Tick ==
  /\ tx = None
  /\ now < MaxTime
  /\ now' = now + 1
  /\ UNCHANGED <<ledger, tx>>

Submit(ixs) ==
  /\ tx = None
  /\ tx' = [ixs |-> ixs, pc |-> 1, before |-> Ledger]
  /\ UNCHANGED <<now, ledger>>

Commit ==
  /\ tx # None
  /\ tx.pc > Len(tx.ixs)
  /\ tx' = None
  /\ UNCHANGED <<now, ledger>>

\* Any instruction may fail: a guard below does not hold, a foreign program
\* returns an error, the compute budget runs out.
Abort ==
  /\ tx # None
  /\ tx.pc <= Len(tx.ixs)
  /\ schedule' = tx.before.schedule
  /\ vault' = tx.before.vault
  /\ accounts' = tx.before.accounts
  /\ holdings' = tx.before.holdings
  /\ shares' = tx.before.shares
  /\ receipt' = tx.before.receipt
  /\ escrow' = tx.before.escrow
  /\ runs' = tx.before.runs
  /\ tx' = None
  /\ UNCHANGED now

\* ix is the instruction the transaction is at, and running it moves on.
Runs(ix, op) ==
  /\ tx # None
  /\ tx.pc <= Len(tx.ixs)
  /\ ix = tx.ixs[tx.pc]
  /\ ix.op = op
  /\ tx' = [tx EXCEPT !.pc = @ + 1]
  /\ UNCHANGED now

-----------------------------------------------------------------------------
(* create_schedule, cancel_schedule, set_keeper_fee *)

\* The limits create_schedule puts on what an owner may ask for.
TermsAccepted(t) ==
  /\ t.cadence_seconds >= MIN_CADENCE_SECONDS
  /\ t.tolerance <= MAX_FLOOR_TOLERANCE
  /\ t.amount_usdc >= DUST_FLOOR
  /\ FeeCeiling(t.amount_usdc) >= vault[t.vault].keeper_fee_min

CreateSchedule(ix) ==
  /\ Runs(ix, "create_schedule")
  /\ schedule[ix.schedule] = None
  /\ accounts[ix.terms.account].authority = ix.terms.owner
  /\ TermsAccepted(ix.terms)
  /\ schedule' = [schedule EXCEPT ![ix.schedule] =
       [owner |-> ix.terms.owner, vault |-> ix.terms.vault,
        account |-> ix.terms.account, amount_usdc |-> ix.terms.amount_usdc,
        cadence_seconds |-> ix.terms.cadence_seconds,
        next_due_ts |-> ix.terms.first_run_ts,
        min_equity_units |-> ix.terms.min_equity_units,
        initial_min_equity_units |-> ix.terms.min_equity_units,
        tolerance |-> ix.terms.tolerance,
        executions |-> 0, total_usdc_spent |-> 0, total_equity_units |-> 0,
        active |-> TRUE]]
  /\ UNCHANGED <<vault, accounts, holdings, shares, receipt, escrow, runs>>

CancelSchedule(ix) ==
  /\ Runs(ix, "cancel_schedule")
  /\ schedule[ix.schedule] # None
  /\ schedule[ix.schedule].owner = ix.signer
  /\ schedule[ix.schedule].active
  /\ schedule' = [schedule EXCEPT ![ix.schedule].active = FALSE]
  /\ UNCHANGED <<vault, accounts, holdings, shares, receipt, escrow, runs>>

SetKeeperFee(ix) ==
  /\ Runs(ix, "set_keeper_fee")
  /\ VaultAuthority[ix.vault] = ix.signer
  /\ ix.bps <= MAX_KEEPER_FEE_BPS
  /\ vault' = [vault EXCEPT ![ix.vault].keeper_fee_bps = ix.bps,
                            ![ix.vault].keeper_fee_min = ix.min]
  /\ UNCHANGED <<schedule, accounts, holdings, shares, receipt, escrow, runs>>

-----------------------------------------------------------------------------
(* begin_execution and settle_execution *)

\* Mutant: a handler that forgets the active flag.
RunnableWhenCancelled(s, v) ==
  /\ schedule[s] # None
  /\ schedule[s].vault = v
  /\ now >= schedule[s].next_due_ts

\* The checks both handlers make on the schedule itself.
Runnable(s, v) ==
  /\ schedule[s] # None
  /\ schedule[s].active
  /\ schedule[s].vault = v
  /\ now >= schedule[s].next_due_ts

\* Mutant: the owner's account is not required to still be the owner's.
PaymentAccountsUnowned(s, ix) == accounts[ix.account].authority = ix.caller

\* The owner's account is still in the owner's hands and the caller is paid
\* into an account of its own.
PaymentAccounts(s, ix) ==
  /\ accounts[schedule[s].account].authority = schedule[s].owner
  /\ accounts[ix.account].authority = ix.caller

ExecutionFee(s, v) ==
  KeeperFee(schedule[s].amount_usdc, vault[v].keeper_fee_bps, vault[v].keeper_fee_min)

\* Mutant: some begin is paired, not necessarily the one that runs.
SomeBeginIsPaired == \E b, e \in 1..Len(tx.ixs) : PairScan(tx.ixs, b, e)

\* begin_execution runs only as the transaction's one visible begin.
BeginIsPaired == \E e \in 1..Len(tx.ixs) : PairScan(tx.ixs, tx.pc, e)

BeginExecution(ix) ==
  LET s == ix.schedule
      fee == ExecutionFee(s, ix.vault)
      swap_amount == schedule[s].amount_usdc - fee
  IN
  /\ Runs(ix, "begin_execution")
  /\ Runnable(s, ix.vault)
  /\ BeginIsPaired
  /\ PaymentAccounts(s, ix)
  /\ ix.wrapper \in Registered[ix.vault]
  /\ receipt[s] = None /\ escrow[s] = None
  /\ swap_amount > 0
  /\ CanPull(schedule[s].account, s, swap_amount)
  /\ accounts' = Pulled(schedule[s].account, ix.account, swap_amount)
  /\ escrow' = [escrow EXCEPT ![s] =
                  [wrapper |-> ix.wrapper, vault |-> ix.vault, amount |-> 0]]
  /\ receipt' = [receipt EXCEPT ![s] =
       [caller |-> ix.caller, wrapper_mint |-> ix.wrapper, account |-> ix.account,
        debited_usdc |-> swap_amount, keeper_fee |-> fee,
        due_ts |-> schedule[s].next_due_ts]]
  /\ UNCHANGED <<schedule, vault, holdings, shares, runs>>

\* settle_execution runs only as the one visible settle, after a begin that
\* named the same schedule.
SettleIsPaired(s) ==
  \E b \in 1..Len(tx.ixs) :
    /\ PairScan(tx.ixs, b, tx.pc)
    /\ s \in {tx.ixs[b].schedule} \cup tx.ixs[b].metas

\* Mutant: the receipt's amounts are not compared with a recomputation.
ReceiptMatchesAnyAmount(s, ix) ==
  /\ receipt[s] # None
  /\ receipt[s].caller = ix.caller
  /\ receipt[s].account = ix.account
  /\ receipt[s].due_ts = schedule[s].next_due_ts
  /\ receipt[s].wrapper_mint = ix.wrapper

\* The receipt was opened by this caller, for this due date and wrapper, and
\* debited exactly what a recomputation says.
ReceiptMatches(s, ix) ==
  LET fee == ExecutionFee(s, ix.vault) IN
  /\ receipt[s] # None
  /\ receipt[s].caller = ix.caller
  /\ receipt[s].account = ix.account
  /\ receipt[s].due_ts = schedule[s].next_due_ts
  /\ receipt[s].debited_usdc = schedule[s].amount_usdc - fee
  /\ receipt[s].keeper_fee = fee
  /\ receipt[s].wrapper_mint = ix.wrapper

EscrowMatches(s, ix) ==
  /\ escrow[s] # None
  /\ escrow[s].wrapper = ix.wrapper
  /\ escrow[s].vault = ix.vault

LiveMultiplier(w) == CurrentMultiplier(MintConfig[w], now)

DeliveryDefined(s, ix) ==
  ToEquityUnitsDefined(escrow[s].amount, Decimals[ix.wrapper], LiveMultiplier(ix.wrapper))

DeliveredUnits(s, ix) ==
  ToEquityUnits(escrow[s].amount, Decimals[ix.wrapper], LiveMultiplier(ix.wrapper))

\* Mutant: only the caller's own minimum counts.
ClearsCallersMinimum(s, units, min) == units >= min

\* The stored floor binds and the caller can only raise it.
ClearsFloor(s, units, min) == units >= AtLeast(schedule[s].min_equity_units, min)

\* Mutant: the running total of shares is overwritten.
AdvancedOverwriting(sch, units) ==
  [sch EXCEPT
     !.next_due_ts = NextDueAfter(@, sch.cadence_seconds, now),
     !.min_equity_units = RatchetedFloor(units, sch.tolerance),
     !.executions = @ + 1,
     !.total_usdc_spent = @ + sch.amount_usdc,
     !.total_equity_units = units]

\* The schedule after a buy of that many units.
Advanced(sch, units) ==
  [sch EXCEPT
     !.next_due_ts = NextDueAfter(@, sch.cadence_seconds, now),
     !.min_equity_units = RatchetedFloor(units, sch.tolerance),
     !.executions = @ + 1,
     !.total_usdc_spent = @ + sch.amount_usdc,
     !.total_equity_units = @ + units]

CountersFit(sch) ==
  /\ FitsI64(sch.next_due_ts)
  /\ FitsU64(sch.executions)
  /\ FitsU64(sch.total_usdc_spent)
  /\ FitsU128(sch.total_equity_units)

\* The fee is paid last, and not at all when it is zero.
CanPayFee(s, fee) == fee > 0 => CanPull(schedule[s].account, s, fee)
FeePaid(s, to, fee) ==
  IF fee > 0 THEN Pulled(schedule[s].account, to, fee) ELSE accounts

SettleExecution(ix) ==
  LET s == ix.schedule
      fee == ExecutionFee(s, ix.vault)
      units == DeliveredUnits(s, ix)
      owner == schedule[s].owner
  IN
  /\ Runs(ix, "settle_execution")
  /\ Runnable(s, ix.vault)
  /\ SettleIsPaired(s)
  /\ PaymentAccounts(s, ix)
  /\ ix.wrapper \in Registered[ix.vault]
  /\ ReceiptMatches(s, ix)
  /\ EscrowMatches(s, ix)
  /\ schedule[s].amount_usdc - fee > 0
  /\ escrow[s].amount > 0
  /\ DeliveryDefined(s, ix)
  /\ units > 0
  /\ ClearsFloor(s, units, ix.min)
  /\ CountersFit(Advanced(schedule[s], units))
  /\ FitsU64(vault[ix.vault].total_equity_units + units)
  /\ CanPayFee(s, fee)
  /\ holdings' = [holdings EXCEPT ![ix.vault][ix.wrapper] = @ + escrow[s].amount]
  /\ escrow' = [escrow EXCEPT ![s] = None]
  /\ shares' = [shares EXCEPT ![ix.vault][owner] = @ + units]
  /\ vault' = [vault EXCEPT ![ix.vault].total_equity_units = @ + units]
  /\ schedule' = [schedule EXCEPT ![s] = Advanced(@, units)]
  /\ accounts' = FeePaid(s, ix.account, fee)
  /\ receipt' = [receipt EXCEPT ![s] = None]
  /\ runs' = [runs EXCEPT ![s] =
       Append(@, [at |-> now, due |-> schedule[s].next_due_ts, units |-> units,
                  fee |-> fee, paid_to |-> ix.account])]

-----------------------------------------------------------------------------
(* Instructions of other programs. *)

\* Whatever the caller swaps through: some amount lands in the escrow.
Deliver(ix) ==
  /\ Runs(ix, "deliver")
  /\ escrow[ix.schedule] # None
  /\ escrow[ix.schedule].wrapper = ix.wrapper
  /\ escrow' = [escrow EXCEPT ![ix.schedule].amount = @ + ix.amount]
  /\ UNCHANGED <<schedule, vault, accounts, holdings, shares, receipt, runs>>

Approve(ix) ==
  /\ Runs(ix, "approve")
  /\ accounts[ix.account].authority = ix.signer
  /\ accounts' = [accounts EXCEPT ![ix.account].delegate = ix.delegate,
                                  ![ix.account].delegated = ix.amount]
  /\ UNCHANGED <<schedule, vault, holdings, shares, receipt, escrow, runs>>

Revoke(ix) ==
  /\ Runs(ix, "revoke")
  /\ accounts[ix.account].authority = ix.signer
  /\ accounts' = [accounts EXCEPT ![ix.account].delegate = None,
                                  ![ix.account].delegated = 0]
  /\ UNCHANGED <<schedule, vault, holdings, shares, receipt, escrow, runs>>

\* Handing an account to someone else also clears its delegate.
SetAuthority(ix) ==
  /\ Runs(ix, "set_authority")
  /\ accounts[ix.account].authority = ix.signer
  /\ accounts' = [accounts EXCEPT ![ix.account].authority = ix.to,
                                  ![ix.account].delegate = None,
                                  ![ix.account].delegated = 0]
  /\ UNCHANGED <<schedule, vault, holdings, shares, receipt, escrow, runs>>

Instruction(ix) ==
  \/ CreateSchedule(ix)
  \/ CancelSchedule(ix)
  \/ SetKeeperFee(ix)
  \/ BeginExecution(ix)
  \/ SettleExecution(ix)
  \/ Deliver(ix)
  \/ Approve(ix)
  \/ Revoke(ix)
  \/ SetAuthority(ix)

Next ==
  \/ Tick
  \/ \E ixs \in Transactions : Submit(ixs)
  \/ tx # None /\ tx.pc <= Len(tx.ixs) /\ Instruction(tx.ixs[tx.pc])
  \/ Commit
  \/ Abort

Spec == Init /\ [][Next]_vars

-----------------------------------------------------------------------------
(* Types *)

ScheduleRecord ==
  [owner : Users, vault : Vaults, account : Accounts, amount_usdc : Nat,
   cadence_seconds : Int, next_due_ts : Int, min_equity_units : Nat,
   initial_min_equity_units : Nat, tolerance : 0..MAX_FLOOR_TOLERANCE, executions : Nat,
   total_usdc_spent : Nat, total_equity_units : Nat, active : BOOLEAN]
VaultRecord ==
  [keeper_fee_bps : Nat, keeper_fee_min : Nat, total_equity_units : Nat]
AccountRecord ==
  [authority : Users, balance : Nat, delegate : Schedules \cup {None}, delegated : Nat]
ReceiptRecord ==
  [caller : Users, wrapper_mint : Wrappers, account : Accounts, debited_usdc : Nat,
   keeper_fee : Nat, due_ts : Int]
EscrowRecord == [wrapper : Wrappers, vault : Vaults, amount : Nat]
RunRecord == [at : Int, due : Int, units : Nat, fee : Nat, paid_to : Accounts]

LedgerRecord ==
  [schedule : [Schedules -> ScheduleRecord \cup {None}],
   vault : [Vaults -> VaultRecord],
   accounts : [Accounts -> AccountRecord],
   holdings : [Vaults -> [Wrappers -> Nat]],
   shares : [Vaults -> [Users -> Nat]],
   receipt : [Schedules -> ReceiptRecord \cup {None}],
   escrow : [Schedules -> EscrowRecord \cup {None}],
   runs : [Schedules -> Seq(RunRecord)]]

TxRecord == [ixs : Seq(Instructions), pc : Nat \ {0}, before : LedgerRecord]

\* None is no record, and the values a configuration gives are well formed.
ASSUME ExecutionAssumption ==
  /\ IsFiniteSet(Users) /\ IsFiniteSet(Schedules)
  /\ None \notin TxRecord
  /\ None \notin ScheduleRecord /\ None \notin ReceiptRecord
  /\ MIN_CADENCE_SECONDS \in Nat \ {0}
  /\ Transactions \subseteq Seq(Instructions)
  /\ Decimals \in [Wrappers -> 0..MAX_DECIMALS]
  /\ MintConfig \in [Wrappers -> [multiplier : Nat, new_multiplier : Nat, effective_ts : Int]]
  /\ InitialVault \in [Vaults -> [bps : Nat, min : Nat]]
  /\ InitialAccount \in [Accounts -> [holder : Users, balance : Nat]]

\* Type correctness; in particular no balance, allowance or counter goes
\* below zero, which checked arithmetic turns into a failed instruction.
TypeOK ==
  /\ now \in Nat
  /\ Ledger \in LedgerRecord
  /\ tx \in TxRecord \cup {None}

-----------------------------------------------------------------------------
(* Safety *)

\* Between transactions no execution is half done: no receipt and no escrow
\* is left behind for a later transaction to settle against.
\* (begin_execution refuses to open what its transaction does not close.)
NoStrandedExecution ==
  tx = None => \A s \in Schedules : receipt[s] = None /\ escrow[s] = None

\* However late or often keepers run a plan, its due dates move on by at
\* least the cadence, never more than one cadence past the buy, and any three
\* consecutive buys span more than a cadence: a backlog is worth one buy.
BuysArePaced ==
  \A s \in Schedules : schedule[s] # None =>
    LET cad == schedule[s].cadence_seconds
        r == runs[s]
        n == Len(r)
    IN /\ \A i \in 1..n : r[i].due <= r[i].at
       /\ \A i \in 1..n-1 :
            /\ r[i].at < r[i+1].due
            /\ r[i].due + cad <= r[i+1].due
            /\ r[i+1].due <= r[i].at + cad
       /\ \A i \in 1..n-2 : r[i].at + cad < r[i+2].at
       /\ n > 0 => /\ schedule[s].next_due_ts > r[n].at
                   /\ schedule[s].next_due_ts <= r[n].at + cad

\* No buy delivers less than the previous one less the owner's tolerance, and
\* the first one not less than the minimum the owner signed, whatever the
\* caller passes and whatever vault settings change in between.
DeliveryIsFloored ==
  \A s \in Schedules : schedule[s] # None =>
    LET r == runs[s]
    IN /\ \A i \in 1..Len(r)-1 :
            (r[i+1].units + 1) * BPS > r[i].units * (BPS - schedule[s].tolerance)
       /\ Len(r) > 0 => r[1].units >= schedule[s].initial_min_equity_units

PlansOf(v) == {s \in Schedules : schedule[s] # None /\ schedule[s].vault = v}

\* The counters the savings app reads agree with the buys that happened and
\* with the receipt tokens that exist.
CountersAgree ==
  /\ \A s \in Schedules : schedule[s] # None =>
       /\ schedule[s].executions = Len(runs[s])
       /\ schedule[s].total_usdc_spent = Len(runs[s]) * schedule[s].amount_usdc
       /\ schedule[s].total_equity_units =
            SumFunction([i \in 1..Len(runs[s]) |-> runs[s][i].units])
  /\ \A v \in Vaults :
       /\ vault[v].total_equity_units = SumFunction(shares[v])
       /\ vault[v].total_equity_units =
            SumFunction([s \in PlansOf(v) |-> schedule[s].total_equity_units])

Bought(b, a) == {s \in Schedules : a.runs[s] # b.runs[s]}

\* What one buy of s does to the ledger, from b before to a after its
\* transaction: the owner pays the amount, once, fee included; the payer's
\* cut is capped; the shares are the owner's; the vault holds the wrapper
\* they stand for.
BuyEffect(b, a, s) ==
  LET sch == a.schedule[s]
      run == a.runs[s][Len(a.runs[s])]
      Moved(x) == a.accounts[x].balance - b.accounts[x].balance
      Gained(w) == a.holdings[sch.vault][w] - b.holdings[sch.vault][w]
  IN
  /\ Len(a.runs[s]) = Len(b.runs[s]) + 1
  /\ \A x \in Accounts :
       Moved(x) = (IF x = run.paid_to THEN sch.amount_usdc ELSE 0)
                - (IF x = sch.account THEN sch.amount_usdc ELSE 0)
  /\ run.fee * BPS <= sch.amount_usdc * MAX_KEEPER_FEE_BPS
  /\ a.shares = [b.shares EXCEPT ![sch.vault][sch.owner] = @ + run.units]
  /\ \A v \in Vaults :
       a.vault[v].total_equity_units - b.vault[v].total_equity_units =
         IF v = sch.vault THEN run.units ELSE 0
  /\ \E w \in Registered[sch.vault] :
       /\ a.holdings = [b.holdings EXCEPT ![sch.vault][w] = a.holdings[sch.vault][w]]
       /\ ToEquityUnits(Gained(w), Decimals[w], LiveMultiplier(w)) = run.units

NothingBought(b, a) ==
  /\ \A x \in Accounts : a.accounts[x].balance = b.accounts[x].balance
  /\ a.shares = b.shares
  /\ a.holdings = b.holdings
  /\ \A v \in Vaults : a.vault[v].total_equity_units = b.vault[v].total_equity_units

\* A transaction executes at most one schedule, once and completely, or moves
\* no money and no shares at all, whatever instructions it is made of.
BuysAreAtomic ==
  [][ tx # None /\ tx' = None =>
        LET b == tx.before
            a == Ledger'
        IN /\ Cardinality(Bought(b, a)) <= 1
           /\ \A s \in Bought(b, a) : BuyEffect(b, a, s)
           /\ Bought(b, a) = {} => NothingBought(b, a) ]_vars

\* From the instruction that cancels it on, a schedule never buys again and
\* never changes, not even when the cancel runs inside an execution.
CancelIsFinal ==
  [][ \A s \in Schedules :
        schedule[s] # None /\ ~schedule[s].active =>
          Abort \/ (schedule'[s] = schedule[s] /\ runs'[s] = runs[s]) ]_vars

\* Money leaves an account only while its holder is the owner of an active,
\* due schedule that pins that account and that the holder has approved.
DebitsAreConsented ==
  [][ \A x \in Accounts :
        accounts'[x].balance < accounts[x].balance =>
          Abort \/ \E s \in Schedules :
            /\ schedule[s] # None
            /\ schedule[s].account = x
            /\ accounts[x].authority = schedule[s].owner
            /\ accounts[x].delegate = s
            /\ schedule[s].active
            /\ now >= schedule[s].next_due_ts ]_vars
=============================================================================
