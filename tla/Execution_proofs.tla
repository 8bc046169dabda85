-------------------------- MODULE Execution_proofs --------------------------
(***************************************************************************)
(* Theorems about Execution, for every set of users, accounts, schedules   *)
(* and submitted transactions, and for every scale of the arithmetic.      *)
(***************************************************************************)
EXTENDS Execution, ParitasMath_proofs

-----------------------------------------------------------------------------
(* Type correctness *)

LedgerOK ==
  /\ schedule \in [Schedules -> ScheduleRecord \cup {None}]
  /\ vault \in [Vaults -> VaultRecord]
  /\ accounts \in [Accounts -> AccountRecord]
  /\ holdings \in [Vaults -> [Wrappers -> Nat]]
  /\ shares \in [Vaults -> [Users -> Nat]]
  /\ receipt \in [Schedules -> ReceiptRecord \cup {None}]
  /\ escrow \in [Schedules -> EscrowRecord \cup {None}]
  /\ runs \in [Schedules -> Seq(RunRecord)]

\* TypeOK, with the ledger's record taken apart.
LEMMA TypeOKParts ==
  TypeOK <=> now \in Nat /\ LedgerOK /\ tx \in TxRecord \cup {None}
BY DEF TypeOK, LedgerOK, Ledger, LedgerRecord

LEMMA TypeOKPartsNext ==
  TypeOK' <=> now' \in Nat /\ LedgerOK' /\ tx' \in TxRecord \cup {None}
BY DEF TypeOK, LedgerOK, Ledger, LedgerRecord

\* An open transaction is a record, and what it runs is an instruction.
LEMMA OpenTransaction ==
  ASSUME TypeOK, tx # None
  PROVE  /\ tx \in TxRecord
         /\ tx.pc \in Nat \ {0}
         /\ \A i \in 1..Len(tx.ixs) : tx.ixs[i] \in Instructions
BY DEF TypeOK, TxRecord

\* Running an instruction leaves the clock and moves the transaction on.
LEMMA RunsTx ==
  ASSUME TypeOK, NEW ix, NEW op, Runs(ix, op)
  PROVE  /\ now' = now
         /\ tx' \in TxRecord
         /\ tx' # None
         /\ tx'.ixs = tx.ixs /\ tx'.before = tx.before /\ tx'.pc = tx.pc + 1
         /\ ix \in Instructions
         /\ ix = tx.ixs[tx.pc]
         /\ tx.pc \in 1..Len(tx.ixs)
<1>1. tx \in TxRecord /\ tx.pc \in 1..Len(tx.ixs)
  BY OpenTransaction DEF Runs, TxRecord
<1>2. tx' = [tx EXCEPT !.pc = @ + 1] BY DEF Runs
<1>3. tx' \in TxRecord BY <1>1, <1>2 DEF TxRecord
<1>4. QED BY <1>1, <1>2, <1>3, OpenTransaction, ExecutionAssumption DEF Runs, TxRecord

\* A pull the token program allows leaves every balance and allowance natural.
LEMMA PulledType ==
  ASSUME accounts \in [Accounts -> AccountRecord], NEW from \in Accounts,
         NEW to \in Accounts, NEW delegate, NEW amount \in Nat,
         CanPull(from, delegate, amount)
  PROVE  Pulled(from, to, amount) \in [Accounts -> AccountRecord]
<1>1. accounts[from] \in AccountRecord /\ accounts[to] \in AccountRecord OBVIOUS
<1>2. Debited(accounts[from], amount) \in AccountRecord
  <2>1. /\ accounts[from].balance - amount \in Nat
        /\ accounts[from].delegated - amount \in Nat
    BY <1>1 DEF AccountRecord, CanPull
  <2>2. (IF accounts[from].delegated = amount THEN None ELSE accounts[from].delegate)
          \in Schedules \cup {None}
    BY <1>1 DEF AccountRecord
  <2>3. QED BY <1>1, <2>1, <2>2 DEF AccountRecord, Debited
<1>3. Credited(accounts[to], amount) \in AccountRecord
  BY <1>1 DEF AccountRecord, Credited
<1>4. QED BY <1>2, <1>3 DEF Pulled

\* A fee of a schedule in a vault is a natural number.
LEMMA ExecutionFeeType ==
  ASSUME LedgerOK, NEW s \in Schedules, NEW v \in Vaults, schedule[s] # None
  PROVE  ExecutionFee(s, v) \in Nat
BY KeeperFeeType DEF LedgerOK, ExecutionFee, ScheduleRecord, VaultRecord

LEMMA CreateScheduleTypes ==
  ASSUME TypeOK, NEW ix, CreateSchedule(ix) PROVE LedgerOK'
<1>1. ix \in Instructions /\ ix.op = "create_schedule"
  BY RunsTx DEF CreateSchedule, Runs
<1>2. ix.schedule \in Schedules /\ ix.terms \in Terms BY <1>1 DEF Instructions
<1>3. LedgerOK BY TypeOKParts
<1>4. ix.terms.tolerance \in 0..MAX_FLOOR_TOLERANCE
  <2>1. MAX_FLOOR_TOLERANCE \in Nat BY MathAssumption
  <2>2. QED BY <1>2, <2>1 DEF CreateSchedule, TermsAccepted, Terms
<1>5. schedule' \in [Schedules -> ScheduleRecord \cup {None}]
  BY <1>2, <1>3, <1>4 DEF CreateSchedule, Terms, LedgerOK, ScheduleRecord
<1>6. QED BY <1>3, <1>5 DEF LedgerOK, CreateSchedule

LEMMA CancelScheduleTypes ==
  ASSUME TypeOK, NEW ix, CancelSchedule(ix) PROVE LedgerOK'
<1>1. ix \in Instructions /\ ix.op = "cancel_schedule"
  BY RunsTx DEF CancelSchedule, Runs
<1>2. ix.schedule \in Schedules BY <1>1 DEF Instructions
<1>3. LedgerOK BY TypeOKParts
<1>4. schedule[ix.schedule] \in ScheduleRecord
  BY <1>2, <1>3 DEF CancelSchedule, LedgerOK
<1>5. [schedule[ix.schedule] EXCEPT !.active = FALSE] \in ScheduleRecord
  BY <1>4 DEF ScheduleRecord
<1>6. schedule' = [schedule EXCEPT ![ix.schedule] = [schedule[ix.schedule] EXCEPT !.active = FALSE]]
  BY DEF CancelSchedule
<1>7. schedule' \in [Schedules -> ScheduleRecord \cup {None}]
  BY <1>3, <1>5, <1>6 DEF LedgerOK
<1>8. QED BY <1>3, <1>7 DEF LedgerOK, CancelSchedule

LEMMA SetKeeperFeeTypes ==
  ASSUME TypeOK, NEW ix, SetKeeperFee(ix) PROVE LedgerOK'
<1>1. ix \in Instructions /\ ix.op = "set_keeper_fee"
  BY RunsTx DEF SetKeeperFee, Runs
<1>2. ix.vault \in Vaults /\ ix.bps \in Nat /\ ix.min \in Nat BY <1>1 DEF Instructions
<1>3. LedgerOK BY TypeOKParts
<1>4. vault' \in [Vaults -> VaultRecord]
  BY <1>2, <1>3 DEF SetKeeperFee, LedgerOK, VaultRecord
<1>5. QED BY <1>3, <1>4 DEF LedgerOK, SetKeeperFee

LEMMA BeginExecutionTypes ==
  ASSUME TypeOK, NEW ix, BeginExecution(ix) PROVE LedgerOK'
<1>1. ix \in Instructions /\ ix.op = "begin_execution"
  BY RunsTx DEF BeginExecution, Runs
<1>2. /\ ix.schedule \in Schedules /\ ix.vault \in Vaults /\ ix.wrapper \in Wrappers
      /\ ix.caller \in Users /\ ix.account \in Accounts
  BY <1>1 DEF Instructions
<1>3. LedgerOK BY TypeOKParts
<1> DEFINE s == ix.schedule
           fee == ExecutionFee(s, ix.vault)
           swap_amount == schedule[s].amount_usdc - fee
<1>4. schedule[s] \in ScheduleRecord
  BY <1>2, <1>3 DEF BeginExecution, Runnable, LedgerOK
<1>5. fee \in Nat BY <1>2, <1>3, ExecutionFeeType DEF BeginExecution, Runnable
<1>6. swap_amount \in Nat
  BY <1>4, <1>5 DEF BeginExecution, ScheduleRecord
<1>7. accounts' \in [Accounts -> AccountRecord]
  BY <1>2, <1>3, <1>4, <1>6, PulledType DEF BeginExecution, LedgerOK, ScheduleRecord
<1>8. escrow' \in [Schedules -> EscrowRecord \cup {None}]
  BY <1>2, <1>3 DEF BeginExecution, LedgerOK, EscrowRecord
<1>9. receipt' \in [Schedules -> ReceiptRecord \cup {None}]
  BY <1>2, <1>3, <1>4, <1>5, <1>6 DEF BeginExecution, LedgerOK, ReceiptRecord, ScheduleRecord
<1>10. QED BY <1>3, <1>7, <1>8, <1>9 DEF LedgerOK, BeginExecution

\* The units a delivery counts for are a natural number.
LEMMA DeliveredUnitsType ==
  ASSUME TypeOK, NEW ix, NEW s \in Schedules, ix.wrapper \in Wrappers, escrow[s] # None
  PROVE  DeliveredUnits(s, ix) \in Nat
<1>1. escrow[s].amount \in Nat BY TypeOKParts DEF LedgerOK, EscrowRecord
<1>2. LiveMultiplier(ix.wrapper) \in Nat
  BY ExecutionAssumption DEF LiveMultiplier, CurrentMultiplier
<1>3. QED BY <1>1, <1>2, ToEquityUnitsType, ExecutionAssumption DEF DeliveredUnits

\* A schedule that has advanced is still a schedule.
LEMMA AdvancedType ==
  ASSUME NEW sch \in ScheduleRecord, NEW units \in Nat, now \in Nat
  PROVE  Advanced(sch, units) \in ScheduleRecord
<1>1. RatchetedFloor(units, sch.tolerance) \in Nat
  BY RatchetedFloorType DEF ScheduleRecord
<1>2. NextDueAfter(sch.next_due_ts, sch.cadence_seconds, now) \in Int
  BY DEF ScheduleRecord, NextDueAfter
<1>3. /\ sch.executions + 1 \in Nat
      /\ sch.total_usdc_spent + sch.amount_usdc \in Nat
      /\ sch.total_equity_units + units \in Nat
  BY DEF ScheduleRecord
<1>4. QED BY <1>1, <1>2, <1>3 DEF Advanced, ScheduleRecord

LEMMA SettleExecutionTypes ==
  ASSUME TypeOK, NEW ix, SettleExecution(ix) PROVE LedgerOK'
<1>1. ix \in Instructions /\ ix.op = "settle_execution"
  BY RunsTx DEF SettleExecution, Runs
<1>2. /\ ix.schedule \in Schedules /\ ix.vault \in Vaults /\ ix.wrapper \in Wrappers
      /\ ix.account \in Accounts
  BY <1>1 DEF Instructions
<1>3. LedgerOK /\ now \in Nat BY TypeOKParts
<1> DEFINE s == ix.schedule
           fee == ExecutionFee(s, ix.vault)
           units == DeliveredUnits(s, ix)
           run == [at |-> now, due |-> schedule[s].next_due_ts, units |-> units,
                   fee |-> fee, paid_to |-> ix.account]
<1>4. schedule[s] \in ScheduleRecord
  BY <1>2, <1>3 DEF SettleExecution, Runnable, LedgerOK
<1>5. fee \in Nat BY <1>2, <1>3, ExecutionFeeType DEF SettleExecution, Runnable
<1>6. units \in Nat BY <1>2, DeliveredUnitsType DEF SettleExecution, EscrowMatches
<1>7. escrow[s] \in EscrowRecord
  BY <1>2, <1>3 DEF SettleExecution, EscrowMatches, LedgerOK
<1>8. Advanced(schedule[s], units) \in ScheduleRecord BY <1>3, <1>4, <1>6, AdvancedType
<1>9. run \in RunRecord
  BY <1>2, <1>3, <1>4, <1>5, <1>6 DEF RunRecord, ScheduleRecord
<1>10. accounts' \in [Accounts -> AccountRecord]
  BY <1>2, <1>3, <1>4, <1>5, PulledType
  DEF SettleExecution, FeePaid, CanPayFee, LedgerOK, ScheduleRecord
<1> HIDE DEF fee, units, run
<1>11. schedule' \in [Schedules -> ScheduleRecord \cup {None}]
  <2>1. schedule' = [schedule EXCEPT ![s] = Advanced(schedule[s], units)]
    BY DEF SettleExecution, units
  <2>2. QED BY <1>3, <1>8, <2>1 DEF LedgerOK
<1>12. vault' \in [Vaults -> VaultRecord]
  <2>1. vault[ix.vault] \in VaultRecord BY <1>2, <1>3 DEF LedgerOK
  <2>2. vault' = [vault EXCEPT ![ix.vault] =
                    [vault[ix.vault] EXCEPT !.total_equity_units = @ + units]]
    BY DEF SettleExecution, units
  <2>3. [vault[ix.vault] EXCEPT !.total_equity_units = @ + units] \in VaultRecord
    BY <1>6, <2>1 DEF VaultRecord
  <2>4. QED BY <1>3, <2>2, <2>3 DEF LedgerOK
<1>13. holdings' \in [Vaults -> [Wrappers -> Nat]]
  <2>1. holdings' = [holdings EXCEPT ![ix.vault] =
                       [holdings[ix.vault] EXCEPT ![ix.wrapper] = @ + escrow[s].amount]]
    BY DEF SettleExecution
  <2>2. escrow[s].amount \in Nat BY <1>7 DEF EscrowRecord
  <2>3. QED BY <1>2, <1>3, <2>1, <2>2 DEF LedgerOK
<1>14. shares' \in [Vaults -> [Users -> Nat]]
  <2>1. shares' = [shares EXCEPT ![ix.vault] =
                     [shares[ix.vault] EXCEPT ![schedule[s].owner] = @ + units]]
    BY DEF SettleExecution, units
  <2>2. schedule[s].owner \in Users BY <1>4 DEF ScheduleRecord
  <2>3. QED BY <1>2, <1>3, <1>6, <2>1, <2>2 DEF LedgerOK
<1>15. receipt' \in [Schedules -> ReceiptRecord \cup {None}]
  BY <1>3 DEF SettleExecution, LedgerOK
<1>16. escrow' \in [Schedules -> EscrowRecord \cup {None}]
  BY <1>3 DEF SettleExecution, LedgerOK
<1>17. runs' \in [Schedules -> Seq(RunRecord)]
  <2>1. runs' = [runs EXCEPT ![s] = Append(runs[s], run)]
    BY DEF SettleExecution, run, units, fee
  <2>2. runs[s] \in Seq(RunRecord) BY <1>2, <1>3 DEF LedgerOK
  <2>3. Append(runs[s], run) \in Seq(RunRecord) BY <1>9, <2>2
  <2>4. QED BY <1>3, <2>1, <2>3 DEF LedgerOK
<1>18. QED
  BY <1>10, <1>11, <1>12, <1>13, <1>14, <1>15, <1>16, <1>17 DEF LedgerOK

\* A delivery, and what an account's holder does with the token program.
LEMMA ForeignTypes ==
  ASSUME TypeOK, NEW ix,
         Deliver(ix) \/ Approve(ix) \/ Revoke(ix) \/ SetAuthority(ix)
  PROVE  LedgerOK'
<1>1. LedgerOK BY TypeOKParts
<1>2. CASE Deliver(ix)
  <2>1. ix \in Instructions /\ ix.op = "deliver" BY <1>2, RunsTx DEF Deliver, Runs
  <2>2. ix.schedule \in Schedules /\ ix.amount \in Nat BY <2>1 DEF Instructions
  <2>3. escrow[ix.schedule] \in EscrowRecord BY <1>1, <1>2, <2>2 DEF Deliver, LedgerOK
  <2>4. [escrow[ix.schedule] EXCEPT !.amount = @ + ix.amount] \in EscrowRecord
    BY <2>2, <2>3 DEF EscrowRecord
  <2>5. escrow' = [escrow EXCEPT ![ix.schedule] =
                     [escrow[ix.schedule] EXCEPT !.amount = @ + ix.amount]]
    BY <1>2 DEF Deliver
  <2>6. escrow' \in [Schedules -> EscrowRecord \cup {None}]
    BY <1>1, <2>4, <2>5 DEF LedgerOK
  <2>7. QED BY <1>1, <1>2, <2>6 DEF LedgerOK, Deliver
<1>3. CASE Approve(ix)
  <2>1. ix \in Instructions /\ ix.op = "approve" BY <1>3, RunsTx DEF Approve, Runs
  <2>2. ix.account \in Accounts /\ ix.delegate \in Schedules /\ ix.amount \in Nat
    BY <2>1 DEF Instructions
  <2>3. accounts[ix.account] \in AccountRecord BY <1>1, <2>2 DEF LedgerOK
  <2>4. [accounts[ix.account] EXCEPT !.delegate = ix.delegate, !.delegated = ix.amount]
          \in AccountRecord
    BY <2>2, <2>3 DEF AccountRecord
  <2>5. accounts' = [accounts EXCEPT ![ix.account] =
          [accounts[ix.account] EXCEPT !.delegate = ix.delegate, !.delegated = ix.amount]]
    BY <1>1, <1>3, <2>2 DEF Approve, LedgerOK
  <2>6. accounts' \in [Accounts -> AccountRecord] BY <1>1, <2>4, <2>5 DEF LedgerOK
  <2>7. QED BY <1>1, <1>3, <2>6 DEF LedgerOK, Approve
<1>4. CASE Revoke(ix)
  <2>1. ix \in Instructions /\ ix.op = "revoke" BY <1>4, RunsTx DEF Revoke, Runs
  <2>2. ix.account \in Accounts BY <2>1 DEF Instructions
  <2>3. accounts[ix.account] \in AccountRecord BY <1>1, <2>2 DEF LedgerOK
  <2>4. [accounts[ix.account] EXCEPT !.delegate = None, !.delegated = 0] \in AccountRecord
    BY <2>3 DEF AccountRecord
  <2>5. accounts' = [accounts EXCEPT ![ix.account] =
          [accounts[ix.account] EXCEPT !.delegate = None, !.delegated = 0]]
    BY <1>1, <1>4, <2>2 DEF Revoke, LedgerOK
  <2>6. accounts' \in [Accounts -> AccountRecord] BY <1>1, <2>4, <2>5 DEF LedgerOK
  <2>7. QED BY <1>1, <1>4, <2>6 DEF LedgerOK, Revoke
<1>5. CASE SetAuthority(ix)
  <2>1. ix \in Instructions /\ ix.op = "set_authority"
    BY <1>5, RunsTx DEF SetAuthority, Runs
  <2>2. ix.account \in Accounts /\ ix.to \in Users BY <2>1 DEF Instructions
  <2>3. accounts[ix.account] \in AccountRecord BY <1>1, <2>2 DEF LedgerOK
  <2>4. [accounts[ix.account] EXCEPT !.authority = ix.to, !.delegate = None, !.delegated = 0]
          \in AccountRecord
    BY <2>2, <2>3 DEF AccountRecord
  <2>5. accounts' = [accounts EXCEPT ![ix.account] = [accounts[ix.account] EXCEPT
          !.authority = ix.to, !.delegate = None, !.delegated = 0]]
    BY <1>1, <1>5, <2>2 DEF SetAuthority, LedgerOK
  <2>6. accounts' \in [Accounts -> AccountRecord] BY <1>1, <2>4, <2>5 DEF LedgerOK
  <2>7. QED BY <1>1, <1>5, <2>6 DEF LedgerOK, SetAuthority
<1>6. QED BY <1>2, <1>3, <1>4, <1>5

\* What an instruction does, in one place: it runs at the transaction's
\* counter, and the counter moves on.
LEMMA InstructionRuns ==
  ASSUME NEW ix, Instruction(ix)
  PROVE  Runs(ix, ix.op)
BY DEF Instruction, CreateSchedule, CancelSchedule, SetKeeperFee, BeginExecution,
       SettleExecution, Deliver, Approve, Revoke, SetAuthority, Runs

LEMMA TypeInit == Init => TypeOK
<1> SUFFICES ASSUME Init PROVE TypeOK OBVIOUS
<1>1. vault \in [Vaults -> VaultRecord]
  BY ExecutionAssumption DEF Init, VaultRecord
<1>2. accounts \in [Accounts -> AccountRecord]
  BY ExecutionAssumption DEF Init, AccountRecord
<1>3. runs \in [Schedules -> Seq(RunRecord)]
  BY DEF Init
<1>4. QED BY <1>1, <1>2, <1>3, TypeOKParts DEF Init, LedgerOK

LEMMA TypeStep == TypeOK /\ [Next]_vars => TypeOK'
<1> SUFFICES ASSUME TypeOK, [Next]_vars PROVE TypeOK' OBVIOUS
<1>1. CASE Tick BY <1>1 DEF Tick, ledger, TypeOK, Ledger
<1>2. ASSUME NEW ixs \in Transactions, Submit(ixs) PROVE TypeOK'
  <2>1. [ixs |-> ixs, pc |-> 1, before |-> Ledger] \in TxRecord
    BY ExecutionAssumption DEF TxRecord, TypeOK
  <2>2. Ledger' = Ledger BY <1>2 DEF Submit, ledger, Ledger
  <2>3. QED BY <1>2, <2>1, <2>2 DEF Submit, TypeOK
<1>3. ASSUME tx # None, NEW ix, Instruction(ix) PROVE TypeOK'
  <2>1. now' = now /\ tx' \in TxRecord BY <1>3, InstructionRuns, RunsTx
  <2>2. LedgerOK'
    BY <1>3, CreateScheduleTypes, CancelScheduleTypes, SetKeeperFeeTypes,
       BeginExecutionTypes, SettleExecutionTypes, ForeignTypes DEF Instruction
  <2>3. QED BY <2>1, <2>2, TypeOKParts, TypeOKPartsNext
<1>4. CASE Commit BY <1>4 DEF Commit, ledger, TypeOK, Ledger
<1>5. CASE Abort
  <2>1. tx.before \in LedgerRecord BY <1>5 DEF Abort, TypeOK, TxRecord
  <2>2. LedgerOK' BY <1>5, <2>1 DEF Abort, LedgerOK, LedgerRecord
  <2>3. now' = now /\ tx' = None BY <1>5 DEF Abort
  <2>4. QED BY <2>2, <2>3, TypeOKParts, TypeOKPartsNext
<1>6. CASE UNCHANGED vars BY <1>6 DEF vars, ledger, TypeOK, Ledger
<1>7. QED BY <1>1, <1>2, <1>3, <1>4, <1>5, <1>6 DEF Next

\* Every reachable state is well typed; in particular no balance, allowance or
\* counter of the program goes below zero, whatever transactions are submitted.
THEOREM TypeCorrect == Spec => []TypeOK
BY TypeInit, TypeStep, PTL DEF Spec

-----------------------------------------------------------------------------
(* No execution is left half done *)

IsOpen(s) == receipt[s] # None \/ escrow[s] # None

\* Whatever is open was opened by the transaction's one visible begin, and the
\* settle that closes it is still to come.
OpenIsPaired ==
  tx # None =>
    \A s \in Schedules : IsOpen(s) =>
      \E b, e \in 1..Len(tx.ixs) :
        /\ PairScan(tx.ixs, b, e)
        /\ tx.ixs[b].schedule = s
        /\ b < tx.pc /\ tx.pc <= e

\* An abort leads back to a state with nothing open.
BeforeIsClosed ==
  tx # None =>
    \A s \in Schedules : tx.before.receipt[s] = None /\ tx.before.escrow[s] = None

ExecutionInv == TypeOK /\ NoStrandedExecution /\ OpenIsPaired /\ BeforeIsClosed

\* Two scans of one transaction find the same begin and the same settle.
LEMMA PairScanUnique ==
  ASSUME NEW ixs, NEW b1, NEW e1, NEW b2, NEW e2,
         PairScan(ixs, b1, e1), PairScan(ixs, b2, e2)
  PROVE  b1 = b2 /\ e1 = e2
<1>1. b1 \in {b2, e2} /\ e1 \in {b2, e2} BY DEF PairScan
<1>2. ixs[b1].op # ixs[e2].op /\ ixs[e1].op # ixs[b2].op BY DEF PairScan
<1>3. QED BY <1>1, <1>2

LEMMA InitExecutionInv == Init => ExecutionInv
BY TypeInit DEF Init, ExecutionInv, NoStrandedExecution, OpenIsPaired, BeforeIsClosed

\* An instruction that opens nothing, and is not the settle that is awaited,
\* leaves the pairing as it was.
LEMMA QuietInstruction ==
  ASSUME ExecutionInv, NEW ix, Runs(ix, ix.op), ix.op # "settle_execution",
         \A s \in Schedules : IsOpen(s)' => IsOpen(s)
  PROVE  OpenIsPaired'
<1> SUFFICES ASSUME NEW s \in Schedules, IsOpen(s)'
             PROVE  \E b, e \in 1..Len(tx'.ixs) :
                      /\ PairScan(tx'.ixs, b, e)
                      /\ tx'.ixs[b].schedule = s
                      /\ b < tx'.pc /\ tx'.pc <= e
  BY DEF OpenIsPaired
<1>1. /\ tx'.ixs = tx.ixs /\ tx'.pc = tx.pc + 1 /\ ix = tx.ixs[tx.pc]
      /\ tx.pc \in 1..Len(tx.ixs)
  BY RunsTx DEF ExecutionInv
<1>2. tx # None BY DEF Runs
<1>3. PICK b, e \in 1..Len(tx.ixs) : /\ PairScan(tx.ixs, b, e)
                                     /\ tx.ixs[b].schedule = s
                                     /\ b < tx.pc /\ tx.pc <= e
  BY <1>2 DEF ExecutionInv, OpenIsPaired
<1>4. tx.pc # e BY <1>1, <1>3 DEF PairScan
<1>5. b < tx'.pc /\ tx'.pc <= e BY <1>1, <1>3, <1>4
<1>6. QED BY <1>1, <1>3, <1>5

\* begin_execution finds nothing open and opens what its own pair closes.
LEMMA BeginPairs ==
  ASSUME ExecutionInv, NEW ix, BeginExecution(ix)
  PROVE  OpenIsPaired'
<1>1. /\ tx'.ixs = tx.ixs /\ tx'.pc = tx.pc + 1 /\ ix = tx.ixs[tx.pc]
      /\ tx.pc \in 1..Len(tx.ixs) /\ tx # None
  BY RunsTx DEF ExecutionInv, BeginExecution, Runs
<1>2. PICK e \in 1..Len(tx.ixs) : PairScan(tx.ixs, tx.pc, e)
  BY DEF BeginExecution, BeginIsPaired
<1>3. \A s \in Schedules : ~IsOpen(s)
  <2> SUFFICES ASSUME NEW s \in Schedules, IsOpen(s) PROVE FALSE OBVIOUS
  <2>1. PICK b1, e1 \in 1..Len(tx.ixs) : PairScan(tx.ixs, b1, e1) /\ b1 < tx.pc
    BY <1>1 DEF ExecutionInv, OpenIsPaired
  <2>2. b1 = tx.pc BY <1>2, <2>1, PairScanUnique
  <2>3. QED BY <1>1, <2>1, <2>2
<1>4. \A s \in Schedules : IsOpen(s)' => s = ix.schedule
  BY <1>3 DEF BeginExecution, IsOpen, ExecutionInv, TypeOK, Ledger, LedgerRecord
<1>5. tx.pc < tx'.pc /\ tx'.pc <= e BY <1>1, <1>2 DEF PairScan
<1>6. QED BY <1>1, <1>2, <1>4, <1>5 DEF OpenIsPaired

\* settle_execution closes the only thing that can be open.
LEMMA SettleCloses ==
  ASSUME ExecutionInv, NEW ix, SettleExecution(ix)
  PROVE  \A s \in Schedules : ~IsOpen(s)'
<1>1. /\ tx.pc \in 1..Len(tx.ixs) /\ tx # None /\ ix \in Instructions
      /\ ix.op = "settle_execution"
  BY RunsTx DEF ExecutionInv, SettleExecution, Runs
<1>2. ix.schedule \in Schedules BY <1>1 DEF Instructions
<1>3. receipt[ix.schedule] # None BY DEF SettleExecution, ReceiptMatches
<1>4. ASSUME NEW s \in Schedules, IsOpen(s) PROVE s = ix.schedule
  <2>1. PICK b1, e1 \in 1..Len(tx.ixs) :
          PairScan(tx.ixs, b1, e1) /\ tx.ixs[b1].schedule = s
    BY <1>1, <1>4 DEF ExecutionInv, OpenIsPaired
  <2>2. PICK b2, e2 \in 1..Len(tx.ixs) :
          PairScan(tx.ixs, b2, e2) /\ tx.ixs[b2].schedule = ix.schedule
    BY <1>1, <1>2, <1>3 DEF ExecutionInv, OpenIsPaired, IsOpen
  <2>3. b1 = b2 BY <2>1, <2>2, PairScanUnique
  <2>4. QED BY <2>1, <2>2, <2>3
<1>5. receipt' = [receipt EXCEPT ![ix.schedule] = None]
      /\ escrow' = [escrow EXCEPT ![ix.schedule] = None]
  BY DEF SettleExecution
<1>6. QED BY <1>4, <1>5 DEF IsOpen, ExecutionInv, TypeOK, Ledger, LedgerRecord

LEMMA ExecutionInvStep == ExecutionInv /\ [Next]_vars => ExecutionInv'
<1> SUFFICES ASSUME ExecutionInv, [Next]_vars PROVE ExecutionInv' OBVIOUS
<1>1. TypeOK' BY TypeStep DEF ExecutionInv
<1>2. CASE Tick
  BY <1>1, <1>2 DEF Tick, ledger, ExecutionInv, NoStrandedExecution, OpenIsPaired,
                    BeforeIsClosed, IsOpen
<1>3. ASSUME NEW ixs \in Transactions, Submit(ixs) PROVE ExecutionInv'
  <2>1. UNCHANGED ledger /\ tx = None /\ tx'.before = Ledger BY <1>3 DEF Submit
  <2>2. \A s \in Schedules : receipt[s] = None /\ escrow[s] = None
    BY <2>1 DEF ExecutionInv, NoStrandedExecution
  <2>3. NoStrandedExecution' /\ OpenIsPaired'
    BY <2>1, <2>2 DEF NoStrandedExecution, OpenIsPaired, IsOpen, ledger
  <2>4. BeforeIsClosed' BY <2>1, <2>2 DEF BeforeIsClosed, Ledger
  <2>5. QED BY <1>1, <2>3, <2>4 DEF ExecutionInv
<1>4. ASSUME tx # None, NEW ix, Instruction(ix) PROVE ExecutionInv'
  <2>1. Runs(ix, ix.op) BY <1>4, InstructionRuns
  <2>2. tx' # None /\ tx'.before = tx.before BY <2>1, RunsTx DEF ExecutionInv
  <2>3. NoStrandedExecution' BY <2>2 DEF NoStrandedExecution
  <2>4. BeforeIsClosed' BY <1>4, <2>2 DEF BeforeIsClosed, ExecutionInv
  <2>5. OpenIsPaired'
    <3>1. CASE BeginExecution(ix) BY <3>1, BeginPairs
    <3>2. CASE SettleExecution(ix) BY <3>2, SettleCloses DEF OpenIsPaired
    <3>3. CASE Deliver(ix)
      <4>1. \A s \in Schedules : IsOpen(s)' => IsOpen(s)
        BY <3>3 DEF Deliver, IsOpen, ExecutionInv, TypeOK, Ledger, LedgerRecord
      <4>2. QED BY <2>1, <3>3, <4>1, QuietInstruction DEF Deliver, Runs
    <3>4. CASE CreateSchedule(ix) \/ CancelSchedule(ix) \/ SetKeeperFee(ix) \/
               Approve(ix) \/ Revoke(ix) \/ SetAuthority(ix)
      <4>1. \A s \in Schedules : IsOpen(s)' => IsOpen(s)
        BY <3>4 DEF CreateSchedule, CancelSchedule, SetKeeperFee, Approve, Revoke,
                    SetAuthority, IsOpen
      <4>2. ix.op # "settle_execution"
        BY <3>4 DEF CreateSchedule, CancelSchedule, SetKeeperFee, Approve, Revoke,
                    SetAuthority, Runs
      <4>3. QED BY <2>1, <4>1, <4>2, QuietInstruction
    <3>5. QED BY <1>4, <3>1, <3>2, <3>3, <3>4 DEF Instruction
  <2>6. QED BY <1>1, <2>3, <2>4, <2>5 DEF ExecutionInv
<1>5. CASE Commit
  <2>1. tx # None /\ tx.pc > Len(tx.ixs) /\ tx' = None /\ UNCHANGED ledger
    BY <1>5 DEF Commit
  <2>2. Len(tx.ixs) \in Nat /\ tx.pc \in Nat
    BY <2>1, OpenTransaction DEF ExecutionInv, TxRecord
  <2>3. \A s \in Schedules : ~IsOpen(s)
    BY <2>1, <2>2 DEF ExecutionInv, OpenIsPaired
  <2>4. NoStrandedExecution'
    BY <2>1, <2>3 DEF NoStrandedExecution, IsOpen, ledger
  <2>5. QED BY <1>1, <2>1, <2>4 DEF ExecutionInv, OpenIsPaired, BeforeIsClosed
<1>6. CASE Abort
  <2>1. tx # None /\ tx' = None /\ receipt' = tx.before.receipt
        /\ escrow' = tx.before.escrow
    BY <1>6 DEF Abort
  <2>2. NoStrandedExecution'
    BY <2>1 DEF NoStrandedExecution, ExecutionInv, BeforeIsClosed
  <2>3. QED BY <1>1, <2>1, <2>2 DEF ExecutionInv, OpenIsPaired, BeforeIsClosed
<1>7. CASE UNCHANGED vars
  BY <1>1, <1>7 DEF vars, ledger, ExecutionInv, NoStrandedExecution, OpenIsPaired,
                    BeforeIsClosed, IsOpen
<1>8. QED BY <1>2, <1>3, <1>4, <1>5, <1>6, <1>7 DEF Next

\* Whatever instructions anyone puts into a transaction, when it is over no
\* receipt and no escrow is left behind: the two introspection scans of begin
\* and settle are enough to make an execution all or nothing.
THEOREM NothingStranded == Spec => []NoStrandedExecution
<1>1. Spec => []ExecutionInv BY InitExecutionInv, ExecutionInvStep, PTL DEF Spec
<1>2. ExecutionInv => NoStrandedExecution BY DEF ExecutionInv
<1>3. QED BY <1>1, <1>2, PTL

-----------------------------------------------------------------------------
(* A cancelled schedule is final *)

LEMMA CancelStep ==
  ASSUME TypeOK, [Next]_vars, NEW s \in Schedules, schedule[s] # None,
         ~schedule[s].active
  PROVE  Abort \/ (schedule'[s] = schedule[s] /\ runs'[s] = runs[s])
<1>1. LedgerOK BY TypeOKParts
<1>2. CASE UNCHANGED <<schedule, runs>> BY <1>2
<1>3. ASSUME NEW ix, Instruction(ix), ~UNCHANGED <<schedule, runs>>
      PROVE  schedule'[s] = schedule[s] /\ runs'[s] = runs[s]
  <2>1. CASE CreateSchedule(ix) BY <1>1, <2>1 DEF CreateSchedule, LedgerOK
  <2>2. CASE CancelSchedule(ix) BY <1>1, <2>2 DEF CancelSchedule, LedgerOK
  <2>3. CASE SettleExecution(ix)
    BY <1>1, <2>3 DEF SettleExecution, Runnable, LedgerOK
  <2>4. QED
    BY <1>3, <2>1, <2>2, <2>3 DEF Instruction, SetKeeperFee, BeginExecution, Deliver,
                                  Approve, Revoke, SetAuthority
<1>4. QED BY <1>2, <1>3 DEF Next, Tick, Submit, Commit, vars, ledger

\* A cancelled schedule never buys again and never changes, not in a later
\* transaction and not in the rest of the one that cancels it.
THEOREM CancelFinal == Spec => CancelIsFinal
<1>1. TypeOK /\ [Next]_vars =>
        [ \A s \in Schedules : schedule[s] # None /\ ~schedule[s].active =>
            Abort \/ (schedule'[s] = schedule[s] /\ runs'[s] = runs[s]) ]_vars
  BY CancelStep
<1>2. QED BY <1>1, TypeCorrect, PTL DEF Spec, CancelIsFinal

-----------------------------------------------------------------------------
(* Nobody's money moves without them *)

\* A pull lowers only the balance it is made from.
LEMMA PulledFrom ==
  ASSUME accounts \in [Accounts -> AccountRecord], NEW from \in Accounts,
         NEW to \in Accounts, NEW amount \in Nat, NEW x \in Accounts,
         Pulled(from, to, amount)[x].balance < accounts[x].balance
  PROVE  x = from
<1> SUFFICES ASSUME x # from PROVE FALSE OBVIOUS
<1>1. accounts[x] \in AccountRecord OBVIOUS
<1>2. CASE x = to /\ from # to
  <2>1. Pulled(from, to, amount)[x] = Credited(accounts[x], amount)
    BY <1>2 DEF Pulled
  <2>2. Credited(accounts[x], amount).balance = accounts[x].balance + amount
    BY <1>1 DEF Credited, AccountRecord
  <2>3. QED BY <1>1, <2>1, <2>2 DEF AccountRecord
<1>3. CASE x # to \/ from = to
  <2>1. Pulled(from, to, amount)[x] = accounts[x] BY <1>3 DEF Pulled
  <2>2. QED BY <1>1, <2>1 DEF AccountRecord
<1>4. QED BY <1>2, <1>3

\* What a holder does with the delegate or the custody of an account leaves
\* every balance alone.
LEMMA HolderKeepsBalances ==
  ASSUME TypeOK, NEW ix, Approve(ix) \/ Revoke(ix) \/ SetAuthority(ix), NEW x \in Accounts
  PROVE  accounts'[x].balance = accounts[x].balance
<1>1. accounts \in [Accounts -> AccountRecord] BY TypeOKParts DEF LedgerOK
<1>2. accounts[x] \in AccountRecord BY <1>1
<1>3. CASE x # ix.account BY <1>1, <1>3 DEF Approve, Revoke, SetAuthority
<1>4. CASE x = ix.account
  <2>1. CASE Approve(ix)
    <3>1. accounts'[x] = [accounts[x] EXCEPT !.delegate = ix.delegate, !.delegated = ix.amount]
      BY <1>1, <1>4, <2>1 DEF Approve
    <3>2. QED BY <1>2, <3>1 DEF AccountRecord
  <2>2. CASE Revoke(ix)
    <3>1. accounts'[x] = [accounts[x] EXCEPT !.delegate = None, !.delegated = 0]
      BY <1>1, <1>4, <2>2 DEF Revoke
    <3>2. QED BY <1>2, <3>1 DEF AccountRecord
  <2>3. CASE SetAuthority(ix)
    <3>1. accounts'[x] = [accounts[x] EXCEPT !.authority = ix.to, !.delegate = None,
                                             !.delegated = 0]
      BY <1>1, <1>4, <2>3 DEF SetAuthority
    <3>2. QED BY <1>2, <3>1 DEF AccountRecord
  <2>4. QED BY <2>1, <2>2, <2>3
<1>5. QED BY <1>3, <1>4

LEMMA DebitStep ==
  ASSUME TypeOK, [Next]_vars, NEW x \in Accounts,
         accounts'[x].balance < accounts[x].balance
  PROVE  Abort \/ \E s \in Schedules :
           /\ schedule[s] # None
           /\ schedule[s].account = x
           /\ accounts[x].authority = schedule[s].owner
           /\ accounts[x].delegate = s
           /\ schedule[s].active
           /\ now >= schedule[s].next_due_ts
<1>1. LedgerOK BY TypeOKParts
<1>2. accounts[x] \in AccountRecord BY <1>1 DEF LedgerOK
<1>3. accounts' # accounts BY <1>2 DEF AccountRecord
<1>4. ASSUME NEW ix, Instruction(ix)
      PROVE  \E s \in Schedules :
               /\ schedule[s] # None
               /\ schedule[s].account = x
               /\ accounts[x].authority = schedule[s].owner
               /\ accounts[x].delegate = s
               /\ schedule[s].active
               /\ now >= schedule[s].next_due_ts
  <2>1. ix \in Instructions BY <1>4, InstructionRuns, RunsTx
  <2>2. CASE BeginExecution(ix)
    <3>1. ix.schedule \in Schedules /\ ix.vault \in Vaults /\ ix.account \in Accounts
      BY <2>1, <2>2 DEF Instructions, BeginExecution, Runs
    <3>2. schedule[ix.schedule] \in ScheduleRecord
      BY <1>1, <2>2, <3>1 DEF BeginExecution, Runnable, LedgerOK
    <3>3. ExecutionFee(ix.schedule, ix.vault) \in Nat
      BY <1>1, <2>2, <3>1, ExecutionFeeType DEF BeginExecution, Runnable
    <3> DEFINE swap_amount == schedule[ix.schedule].amount_usdc
                                - ExecutionFee(ix.schedule, ix.vault)
    <3>4. swap_amount \in Nat /\ schedule[ix.schedule].account \in Accounts
      BY <2>2, <3>2, <3>3 DEF BeginExecution, ScheduleRecord
    <3>5. accounts' = Pulled(schedule[ix.schedule].account, ix.account, swap_amount)
      BY <2>2 DEF BeginExecution
    <3> HIDE DEF swap_amount
    <3>6. x = schedule[ix.schedule].account
      BY <1>1, <3>1, <3>4, <3>5, PulledFrom DEF LedgerOK
    <3>7. QED BY <2>2, <3>1, <3>6 DEF BeginExecution, Runnable, PaymentAccounts, CanPull
  <2>3. CASE SettleExecution(ix)
    <3>1. ix.schedule \in Schedules /\ ix.vault \in Vaults /\ ix.account \in Accounts
      BY <2>1, <2>3 DEF Instructions, SettleExecution, Runs
    <3>2. schedule[ix.schedule] \in ScheduleRecord
      BY <1>1, <2>3, <3>1 DEF SettleExecution, Runnable, LedgerOK
    <3>3. ExecutionFee(ix.schedule, ix.vault) \in Nat
      BY <1>1, <2>3, <3>1, ExecutionFeeType DEF SettleExecution, Runnable
    <3>4. ExecutionFee(ix.schedule, ix.vault) > 0
      BY <1>3, <2>3 DEF SettleExecution, FeePaid
    <3>5. x = schedule[ix.schedule].account
      BY <1>1, <2>3, <3>1, <3>2, <3>3, <3>4, PulledFrom
      DEF SettleExecution, FeePaid, LedgerOK, ScheduleRecord
    <3>6. QED
      BY <2>3, <3>1, <3>4, <3>5 DEF SettleExecution, Runnable, PaymentAccounts,
                                   CanPayFee, CanPull
  <2>4. CASE Approve(ix) \/ Revoke(ix) \/ SetAuthority(ix)
    <3>1. accounts'[x].balance = accounts[x].balance BY <2>4, HolderKeepsBalances
    <3>2. QED BY <1>2, <3>1 DEF AccountRecord
  <2>5. QED
    BY <1>3, <1>4, <2>2, <2>3, <2>4 DEF Instruction, CreateSchedule, CancelSchedule,
                                        SetKeeperFee, Deliver
<1>5. QED BY <1>3, <1>4 DEF Next, Tick, Submit, Commit, vars, ledger

\* Money leaves an account only for an active, due schedule that its present
\* holder made, pinned to that account and approved.
THEOREM DebitsConsented == Spec => DebitsAreConsented
<1>1. TypeOK /\ [Next]_vars =>
        [ \A x \in Accounts :
            accounts'[x].balance < accounts[x].balance =>
              Abort \/ \E s \in Schedules :
                /\ schedule[s] # None
                /\ schedule[s].account = x
                /\ accounts[x].authority = schedule[s].owner
                /\ accounts[x].delegate = s
                /\ schedule[s].active
                /\ now >= schedule[s].next_due_ts ]_vars
  BY DebitStep
<1>2. QED BY <1>1, TypeCorrect, PTL DEF Spec, DebitsAreConsented

-----------------------------------------------------------------------------
(* A transaction buys once and completely, or not at all *)

\* What of a plan a buy goes by: nothing changes it once the plan exists.
SamePlan(p, q) ==
  /\ p.owner = q.owner
  /\ p.vault = q.vault
  /\ p.account = q.account
  /\ p.amount_usdc = q.amount_usdc

\* n was taken from one account and put into another since b.
MovedSince(b, from, to, n) ==
  \A x \in Accounts :
    accounts[x].balance - b.accounts[x].balance =
      (IF x = to THEN n ELSE 0) - (IF x = from THEN n ELSE 0)

TotalsSince(b) ==
  /\ shares = b.shares
  /\ holdings = b.holdings
  /\ \A v \in Vaults : vault[v].total_equity_units = b.vault[v].total_equity_units

\* The three stages of an open transaction that started from ledger b.
Untouched(b) ==
  /\ \A s \in Schedules : receipt[s] = None
  /\ runs = b.runs
  /\ \A x \in Accounts : accounts[x].balance = b.accounts[x].balance
  /\ TotalsSince(b)

\* begin_execution moved the swap amount, and settle_execution is still to come.
Opened(b, s) ==
  /\ schedule[s] # None /\ receipt[s] # None
  /\ \A t \in Schedules \ {s} : receipt[t] = None
  /\ runs = b.runs
  /\ MovedSince(b, schedule[s].account, receipt[s].account, receipt[s].debited_usdc)
  /\ TotalsSince(b)

\* settle_execution has run, and nothing is left to settle.
Done(b, s) ==
  /\ schedule[s] # None
  /\ \A t \in Schedules : receipt[t] = None
  /\ \A t \in Schedules \ {s} : runs[t] = b.runs[t]
  /\ BuyEffect(b, Ledger, s)

\* The transaction's one visible begin is behind it.
PairBegun == \E b, e \in 1..Len(tx.ixs) : PairScan(tx.ixs, b, e) /\ b < tx.pc

AtomicInv ==
  /\ ExecutionInv
  /\ tx # None =>
       \/ Untouched(tx.before)
       \/ PairBegun /\ \E s \in Schedules : Opened(tx.before, s) \/ Done(tx.before, s)

QuietOps(ix) ==
  \/ CreateSchedule(ix) \/ CancelSchedule(ix) \/ SetKeeperFee(ix) \/ Deliver(ix)
  \/ Approve(ix) \/ Revoke(ix) \/ SetAuthority(ix)

\* Every instruction but begin and settle leaves alone what a buy is made of.
LEMMA QuietKeeps ==
  ASSUME TypeOK, NEW ix, QuietOps(ix)
  PROVE  /\ now' = now
         /\ UNCHANGED <<receipt, runs, shares, holdings>>
         /\ \A x \in Accounts : accounts'[x].balance = accounts[x].balance
         /\ \A v \in Vaults : vault'[v].total_equity_units = vault[v].total_equity_units
         /\ \A s \in Schedules : schedule[s] # None =>
              schedule'[s] # None /\ SamePlan(schedule'[s], schedule[s])
<1>1. LedgerOK BY TypeOKParts
<1>2. now' = now /\ ix \in Instructions
  <2>1. Instruction(ix) BY DEF QuietOps, Instruction
  <2>2. QED BY <2>1, InstructionRuns, RunsTx
<1>3. UNCHANGED <<receipt, runs, shares, holdings>>
  BY DEF QuietOps, CreateSchedule, CancelSchedule, SetKeeperFee, Deliver, Approve,
         Revoke, SetAuthority
<1>4. ASSUME NEW x \in Accounts PROVE accounts'[x].balance = accounts[x].balance
  <2>1. CASE Approve(ix) \/ Revoke(ix) \/ SetAuthority(ix) BY <2>1, HolderKeepsBalances
  <2>2. QED
    BY <2>1 DEF QuietOps, CreateSchedule, CancelSchedule, SetKeeperFee, Deliver
<1>5. ASSUME NEW v \in Vaults
      PROVE  vault'[v].total_equity_units = vault[v].total_equity_units
  <2>1. CASE SetKeeperFee(ix)
    BY <1>1, <2>1 DEF SetKeeperFee, LedgerOK, VaultRecord
  <2>2. QED
    BY <2>1 DEF QuietOps, CreateSchedule, CancelSchedule, Deliver, Approve, Revoke,
                SetAuthority
<1>6. ASSUME NEW s \in Schedules, schedule[s] # None
      PROVE  schedule'[s] # None /\ SamePlan(schedule'[s], schedule[s])
  <2>1. schedule[s] \in ScheduleRecord BY <1>1, <1>6 DEF LedgerOK
  <2>2. CASE schedule'[s] = schedule[s] BY <1>6, <2>2 DEF SamePlan
  <2>3. CASE CreateSchedule(ix)
    <3>1. schedule'[s] = schedule[s] BY <1>1, <1>6, <2>3 DEF CreateSchedule, LedgerOK
    <3>2. QED BY <2>2, <3>1
  <2>4. CASE CancelSchedule(ix) /\ ix.schedule = s
    <3>1. schedule'[s] = [schedule[s] EXCEPT !.active = FALSE]
      BY <1>1, <2>4 DEF CancelSchedule, LedgerOK
    <3>2. schedule'[s] \in ScheduleRecord BY <2>1, <3>1 DEF ScheduleRecord
    <3>3. SamePlan(schedule'[s], schedule[s])
      BY <2>1, <3>1 DEF ScheduleRecord, SamePlan
    <3>4. QED BY <3>2, <3>3, ExecutionAssumption
  <2>5. CASE CancelSchedule(ix) /\ ix.schedule # s
    <3>1. schedule'[s] = schedule[s] BY <1>1, <2>5 DEF CancelSchedule, LedgerOK
    <3>2. QED BY <2>2, <3>1
  <2>6. QED
    BY <2>2, <2>3, <2>4, <2>5 DEF QuietOps, SetKeeperFee, Deliver, Approve, Revoke,
                                  SetAuthority
<1>7. QED BY <1>2, <1>3, <1>4, <1>5, <1>6

\* Each stage survives whatever leaves alone what a buy is made of.
LEMMA StagesKept ==
  ASSUME now' = now, tx'.before = tx.before,
         UNCHANGED <<receipt, runs, shares, holdings>>,
         \A x \in Accounts : accounts'[x].balance = accounts[x].balance,
         \A v \in Vaults : vault'[v].total_equity_units = vault[v].total_equity_units,
         \A s \in Schedules : schedule[s] # None =>
           schedule'[s] # None /\ SamePlan(schedule'[s], schedule[s])
  PROVE  /\ Untouched(tx.before) => Untouched(tx.before)'
         /\ \A s \in Schedules : Opened(tx.before, s) => Opened(tx.before, s)'
         /\ \A s \in Schedules : Done(tx.before, s) => Done(tx.before, s)'
<1>1. TotalsSince(tx.before) => TotalsSince(tx.before)' BY DEF TotalsSince
<1>2. Untouched(tx.before) => Untouched(tx.before)' BY <1>1 DEF Untouched
<1>3. ASSUME NEW s \in Schedules, Opened(tx.before, s) PROVE Opened(tx.before, s)'
  <2>1. schedule'[s] # None /\ schedule'[s].account = schedule[s].account
    BY <1>3 DEF Opened, SamePlan
  <2>2. MovedSince(tx.before, schedule[s].account, receipt[s].account,
                   receipt[s].debited_usdc)'
    BY <1>3, <2>1 DEF Opened, MovedSince
  <2>3. QED BY <1>1, <1>3, <2>1, <2>2 DEF Opened
<1>4. ASSUME NEW s \in Schedules, Done(tx.before, s) PROVE Done(tx.before, s)'
  <2>1. schedule'[s] # None /\ SamePlan(schedule'[s], schedule[s]) BY <1>4 DEF Done
  <2>2. BuyEffect(tx.before, Ledger, s)'
    <3>1. \A w : LiveMultiplier(w)' = LiveMultiplier(w) BY DEF LiveMultiplier
    <3>2. BuyEffect(tx.before, Ledger, s) BY <1>4 DEF Done
    <3>3. /\ Ledger'.runs = Ledger.runs /\ Ledger'.shares = Ledger.shares
          /\ Ledger'.holdings = Ledger.holdings
          /\ \A x \in Accounts :
               Ledger'.accounts[x].balance = Ledger.accounts[x].balance
          /\ \A v \in Vaults :
               Ledger'.vault[v].total_equity_units = Ledger.vault[v].total_equity_units
          /\ Ledger'.schedule[s].owner = Ledger.schedule[s].owner
          /\ Ledger'.schedule[s].vault = Ledger.schedule[s].vault
          /\ Ledger'.schedule[s].account = Ledger.schedule[s].account
          /\ Ledger'.schedule[s].amount_usdc = Ledger.schedule[s].amount_usdc
      BY <2>1 DEF Ledger, SamePlan
    <3> DEFINE b == tx.before
               sch == Ledger.schedule[s]
               sch2 == Ledger'.schedule[s]
               run == Ledger.runs[s][Len(Ledger.runs[s])]
               run2 == Ledger'.runs[s][Len(Ledger'.runs[s])]
    <3>4. run2 = run /\ SamePlan(sch2, sch) BY <3>3 DEF SamePlan
    <3> HIDE DEF Ledger
    <3>5. Len(Ledger'.runs[s]) = Len(b.runs[s]) + 1 BY <3>2, <3>3 DEF BuyEffect
    <3>6. \A x \in Accounts :
            Ledger'.accounts[x].balance - b.accounts[x].balance =
              (IF x = run2.paid_to THEN sch2.amount_usdc ELSE 0)
              - (IF x = sch2.account THEN sch2.amount_usdc ELSE 0)
      <4> SUFFICES ASSUME NEW x \in Accounts
                   PROVE  Ledger'.accounts[x].balance - b.accounts[x].balance =
                            (IF x = run2.paid_to THEN sch2.amount_usdc ELSE 0)
                            - (IF x = sch2.account THEN sch2.amount_usdc ELSE 0)
        OBVIOUS
      <4>1. Ledger.accounts[x].balance - b.accounts[x].balance =
              (IF x = run.paid_to THEN sch.amount_usdc ELSE 0)
              - (IF x = sch.account THEN sch.amount_usdc ELSE 0)
        BY <3>2 DEF BuyEffect
      <4>2. /\ Ledger'.accounts[x].balance = Ledger.accounts[x].balance
            /\ sch2.amount_usdc = sch.amount_usdc /\ sch2.account = sch.account
        BY <3>3
      <4> HIDE DEF run, run2, sch, sch2
      <4>3. QED BY <3>4, <4>1, <4>2
    <3>7. run2.fee * BPS <= sch2.amount_usdc * MAX_KEEPER_FEE_BPS
      BY <3>2, <3>3 DEF BuyEffect
    <3>8. Ledger'.shares = [b.shares EXCEPT ![sch2.vault][sch2.owner] = @ + run2.units]
      BY <3>2, <3>3 DEF BuyEffect
    <3>9. \A v \in Vaults :
            Ledger'.vault[v].total_equity_units - b.vault[v].total_equity_units =
              IF v = sch2.vault THEN run2.units ELSE 0
      BY <3>2, <3>3 DEF BuyEffect
    <3>10. \E w \in Registered[sch2.vault] :
             /\ Ledger'.holdings = [b.holdings EXCEPT ![sch2.vault][w] =
                                      Ledger'.holdings[sch2.vault][w]]
             /\ ToEquityUnits(Ledger'.holdings[sch2.vault][w] - b.holdings[sch2.vault][w],
                              Decimals[w], LiveMultiplier(w)') = run2.units
      BY <3>1, <3>2, <3>3 DEF BuyEffect
    <3> QED BY <3>5, <3>6, <3>7, <3>8, <3>9, <3>10 DEF BuyEffect
  <2>3. QED BY <1>4, <2>1, <2>2 DEF Done
<1>5. QED BY <1>2, <1>3, <1>4

\* A buy that has begun stays begun, and a begin begins it.
LEMMA PairStaysBegun ==
  ASSUME TypeOK, NEW ix, Instruction(ix), PairBegun
  PROVE  PairBegun'
<1>1. tx'.ixs = tx.ixs /\ tx'.pc = tx.pc + 1 /\ tx.pc \in Nat
  BY InstructionRuns, RunsTx
<1>2. PICK b, e \in 1..Len(tx.ixs) : PairScan(tx.ixs, b, e) /\ b < tx.pc
  BY DEF PairBegun
<1>3. b < tx'.pc BY <1>1, <1>2
<1>4. QED BY <1>1, <1>2, <1>3 DEF PairBegun

LEMMA BeginBegins ==
  ASSUME TypeOK, NEW ix, BeginExecution(ix)
  PROVE  ~PairBegun /\ PairBegun'
<1>1. /\ tx'.ixs = tx.ixs /\ tx'.pc = tx.pc + 1 /\ tx.pc \in 1..Len(tx.ixs)
  BY RunsTx DEF BeginExecution, Runs
<1>2. PICK e \in 1..Len(tx.ixs) : PairScan(tx.ixs, tx.pc, e)
  BY DEF BeginExecution, BeginIsPaired
<1>3. ~PairBegun
  <2>1. ASSUME NEW b1, NEW e1, PairScan(tx.ixs, b1, e1) PROVE b1 = tx.pc
    BY <1>2, <2>1, PairScanUnique
  <2>2. QED BY <1>1, <2>1 DEF PairBegun
<1>4. tx.pc < tx'.pc BY <1>1
<1>5. QED BY <1>1, <1>2, <1>3, <1>4 DEF PairBegun

\* What a pull does to the balances, the two accounts the same or not.
LEMMA PulledMoves ==
  ASSUME accounts \in [Accounts -> AccountRecord], NEW from \in Accounts,
         NEW to \in Accounts, NEW amount \in Nat, NEW x \in Accounts
  PROVE  Pulled(from, to, amount)[x].balance - accounts[x].balance =
           (IF x = to THEN amount ELSE 0) - (IF x = from THEN amount ELSE 0)
<1>1. accounts[x] \in AccountRecord /\ accounts[x].balance \in Nat
  BY DEF AccountRecord
<1>2. CASE from = to BY <1>1, <1>2 DEF Pulled
<1>3. CASE from # to /\ x = from
  <2>1. Pulled(from, to, amount)[x] = Debited(accounts[x], amount) BY <1>3 DEF Pulled
  <2>2. Debited(accounts[x], amount).balance = accounts[x].balance - amount
    BY <1>1 DEF Debited, AccountRecord
  <2>3. QED BY <1>1, <1>3, <2>1, <2>2
<1>4. CASE from # to /\ x = to
  <2>1. Pulled(from, to, amount)[x] = Credited(accounts[x], amount) BY <1>4 DEF Pulled
  <2>2. Credited(accounts[x], amount).balance = accounts[x].balance + amount
    BY <1>1 DEF Credited, AccountRecord
  <2>3. QED BY <1>1, <1>4, <2>1, <2>2
<1>5. CASE from # to /\ x # to /\ x # from
  <2>1. Pulled(from, to, amount)[x] = accounts[x] BY <1>5 DEF Pulled
  <2>2. QED BY <1>1, <1>5, <2>1
<1>6. QED BY <1>2, <1>3, <1>4, <1>5

\* begin_execution opens its schedule.
LEMMA BeginOpens ==
  ASSUME AtomicInv, NEW ix, BeginExecution(ix)
  PROVE  PairBegun' /\ \E s \in Schedules : Opened(tx.before, s)'
<1> DEFINE s == ix.schedule
           fee == ExecutionFee(s, ix.vault)
           swap_amount == schedule[s].amount_usdc - fee
           from == schedule[s].account
           opened == [caller |-> ix.caller, wrapper_mint |-> ix.wrapper,
                      account |-> ix.account, debited_usdc |-> swap_amount,
                      keeper_fee |-> fee, due_ts |-> schedule[s].next_due_ts]
<1>1. TypeOK /\ LedgerOK BY TypeOKParts DEF AtomicInv, ExecutionInv
<1>2. /\ ix \in Instructions /\ ix.op = "begin_execution" /\ tx # None
      /\ tx'.before = tx.before
  BY <1>1, RunsTx DEF BeginExecution, Runs
<1>3. /\ s \in Schedules /\ ix.vault \in Vaults /\ ix.wrapper \in Wrappers
      /\ ix.caller \in Users /\ ix.account \in Accounts
  BY <1>2 DEF Instructions
<1>4. PairBegun' /\ Untouched(tx.before)
  BY <1>1, <1>2, BeginBegins DEF AtomicInv
<1>5. schedule[s] \in ScheduleRecord /\ schedule[s] # None
  BY <1>1, <1>3 DEF BeginExecution, Runnable, LedgerOK
<1>6. fee \in Nat BY <1>1, <1>3, <1>5, ExecutionFeeType
<1>7. swap_amount \in Nat BY <1>5, <1>6 DEF BeginExecution, ScheduleRecord
<1>8. from \in Accounts /\ schedule[s].next_due_ts \in Int BY <1>5 DEF ScheduleRecord
<1>9. /\ accounts' = Pulled(from, ix.account, swap_amount)
      /\ receipt' = [receipt EXCEPT ![s] = opened]
      /\ UNCHANGED <<schedule, vault, holdings, shares, runs>>
  BY DEF BeginExecution
<1>10. opened # None /\ opened.account = ix.account /\ opened.debited_usdc = swap_amount
  <2>1. opened \in ReceiptRecord BY <1>3, <1>6, <1>7, <1>8 DEF ReceiptRecord
  <2>2. None \notin ReceiptRecord BY ExecutionAssumption
  <2>3. QED BY <2>1, <2>2
<1> HIDE DEF opened, swap_amount, fee
<1>11. receipt'[s] = opened /\ \A t \in Schedules \ {s} : receipt'[t] = None
  BY <1>1, <1>3, <1>4, <1>9 DEF LedgerOK, Untouched
<1>12. ASSUME NEW x \in Accounts
       PROVE  accounts'[x].balance - tx.before.accounts[x].balance =
                (IF x = ix.account THEN swap_amount ELSE 0)
                - (IF x = from THEN swap_amount ELSE 0)
  <2>1. accounts[x].balance = tx.before.accounts[x].balance BY <1>4 DEF Untouched
  <2>2. Pulled(from, ix.account, swap_amount)[x].balance - accounts[x].balance =
          (IF x = ix.account THEN swap_amount ELSE 0)
          - (IF x = from THEN swap_amount ELSE 0)
    <3>1. accounts \in [Accounts -> AccountRecord] BY <1>1 DEF LedgerOK
    <3> DEFINE to == ix.account
    <3>2. to \in Accounts /\ from \in Accounts BY <1>3, <1>8
    <3> HIDE DEF from, to
    <3>3. Pulled(from, to, swap_amount)[x].balance - accounts[x].balance =
            (IF x = to THEN swap_amount ELSE 0) - (IF x = from THEN swap_amount ELSE 0)
      BY <1>7, <3>1, <3>2, PulledMoves
    <3>4. QED BY <3>3 DEF to
  <2>3. QED BY <1>9, <2>1, <2>2
<1>13. /\ schedule'[s] # None /\ schedule'[s].account = from
       /\ receipt'[s] # None /\ receipt'[s].account = ix.account
       /\ receipt'[s].debited_usdc = swap_amount
  BY <1>5, <1>9, <1>10, <1>11
<1>14. MovedSince(tx.before, schedule[s].account, receipt[s].account,
                  receipt[s].debited_usdc)'
  BY <1>2, <1>12, <1>13 DEF MovedSince
<1>15. TotalsSince(tx.before)' BY <1>2, <1>4, <1>9 DEF Untouched, TotalsSince
<1>16. runs' = tx'.before.runs BY <1>2, <1>4, <1>9 DEF Untouched
<1>17. Opened(tx.before, s)' BY <1>11, <1>13, <1>14, <1>15, <1>16 DEF Opened
<1>18. QED BY <1>3, <1>4, <1>17

\* What settling moves between the accounts.
LEMMA FeeMoves ==
  ASSUME TypeOK, NEW s \in Schedules, schedule[s] # None, NEW to \in Accounts,
         NEW fee \in Nat, NEW x \in Accounts
  PROVE  FeePaid(s, to, fee)[x].balance - accounts[x].balance =
           (IF x = to THEN fee ELSE 0) - (IF x = schedule[s].account THEN fee ELSE 0)
<1>1. accounts \in [Accounts -> AccountRecord] /\ schedule[s].account \in Accounts
  BY TypeOKParts DEF LedgerOK, ScheduleRecord
<1>2. accounts[x].balance \in Nat BY <1>1 DEF AccountRecord
<1> DEFINE from == schedule[s].account
<1>3. CASE fee > 0
  <2>1. FeePaid(s, to, fee) = Pulled(from, to, fee) BY <1>3 DEF FeePaid
  <2>2. from \in Accounts BY <1>1
  <2> HIDE DEF from
  <2>3. Pulled(from, to, fee)[x].balance - accounts[x].balance =
          (IF x = to THEN fee ELSE 0) - (IF x = from THEN fee ELSE 0)
    BY <1>1, <2>2, PulledMoves
  <2>4. QED BY <2>1, <2>3 DEF from
<1>4. CASE ~(fee > 0)
  <2>1. fee = 0 /\ FeePaid(s, to, fee)[x] = accounts[x] BY <1>4 DEF FeePaid
  <2>2. QED BY <1>2, <2>1
<1>5. QED BY <1>3, <1>4

\* settle_execution leaves behind one complete buy of its schedule.
LEMMA SettleDoes ==
  ASSUME AtomicInv, NEW ix, SettleExecution(ix)
  PROVE  PairBegun' /\ \E s \in Schedules : Done(tx.before, s)'
<1> DEFINE s == ix.schedule
           v == ix.vault
           w == ix.wrapper
           b == tx.before
           plan == schedule[s]
           fee == ExecutionFee(s, v)
           units == DeliveredUnits(s, ix)
           run == [at |-> now, due |-> plan.next_due_ts, units |-> units,
                   fee |-> fee, paid_to |-> ix.account]
           next == Advanced(plan, units)
<1>1. TypeOK /\ LedgerOK /\ now \in Nat BY TypeOKParts DEF AtomicInv, ExecutionInv
<1>2. /\ ix \in Instructions /\ ix.op = "settle_execution" /\ tx # None
      /\ tx'.before = b /\ now' = now /\ tx \in TxRecord
  BY <1>1, RunsTx, OpenTransaction DEF SettleExecution, Runs
<1>3. s \in Schedules /\ v \in Vaults /\ w \in Wrappers /\ ix.account \in Accounts
  BY <1>2 DEF Instructions
<1>4. /\ plan # None /\ plan.vault = v /\ receipt[s] # None /\ escrow[s] # None
      /\ w \in Registered[v]
      /\ receipt[s].account = ix.account
      /\ receipt[s].debited_usdc = plan.amount_usdc - fee
      /\ schedule' = [schedule EXCEPT ![s] = next]
      /\ runs' = [runs EXCEPT ![s] = Append(runs[s], run)]
      /\ vault' = [vault EXCEPT ![v].total_equity_units = vault[v].total_equity_units + units]
      /\ shares' = [shares EXCEPT ![v][plan.owner] = shares[v][plan.owner] + units]
      /\ holdings' = [holdings EXCEPT ![v][w] = holdings[v][w] + escrow[s].amount]
      /\ accounts' = FeePaid(s, ix.account, fee)
      /\ receipt' = [receipt EXCEPT ![s] = None]
  BY DEF SettleExecution, Runnable, ReceiptMatches, EscrowMatches
<1>5. PairBegun /\ Opened(b, s)
  BY <1>2, <1>3, <1>4 DEF AtomicInv, Untouched, Done, Opened
<1>6. PairBegun' BY <1>1, <1>5, PairStaysBegun DEF Instruction
<1>7. plan \in ScheduleRecord /\ runs[s] \in Seq(RunRecord) /\ escrow[s] \in EscrowRecord
  BY <1>1, <1>3, <1>4 DEF LedgerOK
<1>8. fee \in Nat BY <1>1, <1>3, <1>4, ExecutionFeeType
<1>9. units \in Nat BY <1>1, <1>3, <1>4, DeliveredUnitsType
<1>10. run \in RunRecord BY <1>1, <1>3, <1>7, <1>8, <1>9 DEF RunRecord, ScheduleRecord
<1>11. next \in ScheduleRecord BY <1>1, <1>7, <1>9, AdvancedType
<1>12. SamePlan(next, plan) BY <1>7 DEF SamePlan, Advanced, ScheduleRecord
<1>13. run.units = units /\ run.fee = fee /\ run.paid_to = ix.account OBVIOUS
<1> HIDE DEF units, run, next, fee
<1>14. schedule'[s] = next /\ next # None
  BY <1>1, <1>3, <1>4, <1>11, ExecutionAssumption DEF LedgerOK
<1>15. /\ runs'[s] = Append(runs[s], run)
       /\ \A t \in Schedules \ {s} : runs'[t] = b.runs[t]
  BY <1>1, <1>3, <1>4, <1>5 DEF LedgerOK, Opened
<1>16. /\ Len(runs'[s]) = Len(b.runs[s]) + 1 /\ runs'[s][Len(runs'[s])] = run
  <2>1. runs[s] = b.runs[s] BY <1>5 DEF Opened
  <2>2. /\ Len(Append(runs[s], run)) = Len(runs[s]) + 1
        /\ Append(runs[s], run)[Len(runs[s]) + 1] = run
    BY <1>7, <1>10
  <2>3. QED BY <1>15, <2>1, <2>2
<1>17. \A t \in Schedules : receipt'[t] = None
  BY <1>1, <1>3, <1>4, <1>5 DEF LedgerOK, Opened
<1>18. ASSUME NEW x \in Accounts
       PROVE  accounts'[x].balance - b.accounts[x].balance =
                (IF x = ix.account THEN plan.amount_usdc ELSE 0)
                - (IF x = plan.account THEN plan.amount_usdc ELSE 0)
  <2> DEFINE to == ix.account
             from == plan.account
             a0 == b.accounts[x].balance
             a1 == accounts[x].balance
             a2 == accounts'[x].balance
             n == plan.amount_usdc
  <2>1. a1 - a0 = (IF x = to THEN n - fee ELSE 0) - (IF x = from THEN n - fee ELSE 0)
    BY <1>4, <1>5 DEF Opened, MovedSince
  <2>2. a2 - a1 = (IF x = to THEN fee ELSE 0) - (IF x = from THEN fee ELSE 0)
    <3>1. to \in Accounts BY <1>3
    <3> HIDE DEF to
    <3>2. FeePaid(s, to, fee)[x].balance - accounts[x].balance =
            (IF x = to THEN fee ELSE 0) - (IF x = schedule[s].account THEN fee ELSE 0)
      BY <1>1, <1>3, <1>4, <1>8, <3>1, FeeMoves
    <3>3. QED BY <1>4, <3>2 DEF to
  <2>3. a0 \in Nat /\ a1 \in Nat /\ a2 \in Nat
    <3>1. b \in LedgerRecord BY <1>2 DEF TxRecord
    <3>2. b.accounts[x] \in AccountRecord BY <3>1 DEF LedgerRecord
    <3>3. accounts[x] \in AccountRecord BY <1>1 DEF LedgerOK
    <3>4. accounts'[x] \in AccountRecord BY <1>1, SettleExecutionTypes DEF LedgerOK
    <3>5. QED BY <3>2, <3>3, <3>4 DEF AccountRecord
  <2>4. n \in Nat BY <1>7 DEF ScheduleRecord
  <2> HIDE DEF to, from, a0, a1, a2, n
  <2>5. a2 - a0 = (IF x = to THEN n ELSE 0) - (IF x = from THEN n ELSE 0)
    BY <1>8, <2>1, <2>2, <2>3, <2>4
  <2>6. QED BY <2>5 DEF to, from, a0, a2, n
<1>19. fee * BPS <= plan.amount_usdc * MAX_KEEPER_FEE_BPS
  <2>1. plan.amount_usdc \in Nat /\ vault[v].keeper_fee_bps \in Nat
        /\ vault[v].keeper_fee_min \in Nat
    BY <1>1, <1>3, <1>7 DEF LedgerOK, ScheduleRecord, VaultRecord
  <2>2. QED BY <2>1, KeeperFeeCapped DEF fee, ExecutionFee
<1>20. shares' = [b.shares EXCEPT ![v][plan.owner] = @ + units]
  BY <1>4, <1>5 DEF Opened, TotalsSince
<1>21. ASSUME NEW x \in Vaults
       PROVE  vault'[x].total_equity_units - b.vault[x].total_equity_units =
                IF x = v THEN units ELSE 0
  <2>1. vault[x].total_equity_units = b.vault[x].total_equity_units
    BY <1>5 DEF Opened, TotalsSince
  <2>2. vault[x] \in VaultRecord /\ vault[x].total_equity_units \in Nat
    BY <1>1 DEF LedgerOK, VaultRecord
  <2>3. CASE x = v
    <3>1. vault'[x].total_equity_units = vault[x].total_equity_units + units
      BY <1>1, <1>4, <2>2, <2>3 DEF LedgerOK, VaultRecord
    <3>2. QED BY <1>9, <2>1, <2>2, <2>3, <3>1
  <2>4. CASE x # v
    <3>1. vault'[x] = vault[x] BY <1>1, <1>4, <2>4 DEF LedgerOK
    <3>2. QED BY <2>1, <2>2, <2>4, <3>1
  <2>5. QED BY <2>3, <2>4
<1>22. /\ holdings' = [b.holdings EXCEPT ![v][w] = holdings'[v][w]]
       /\ ToEquityUnits(holdings'[v][w] - b.holdings[v][w], Decimals[w],
                        LiveMultiplier(w)') = units
  <2>1. holdings = b.holdings BY <1>5 DEF Opened, TotalsSince
  <2>2. holdings[v][w] \in Nat /\ escrow[s].amount \in Nat
    BY <1>1, <1>3, <1>7 DEF LedgerOK, EscrowRecord
  <2>3. holdings'[v][w] = holdings[v][w] + escrow[s].amount
    BY <1>1, <1>3, <1>4 DEF LedgerOK
  <2>4. holdings' = [b.holdings EXCEPT ![v][w] = holdings'[v][w]]
    BY <1>4, <2>1, <2>3
  <2>5. holdings'[v][w] - b.holdings[v][w] = escrow[s].amount
    BY <2>1, <2>2, <2>3
  <2>6. LiveMultiplier(w)' = LiveMultiplier(w) BY <1>2 DEF LiveMultiplier
  <2>7. ToEquityUnits(escrow[s].amount, Decimals[w], LiveMultiplier(w)) = units
    BY DEF units, DeliveredUnits
  <2>8. QED BY <2>4, <2>5, <2>6, <2>7
<1>23. /\ next.vault = v /\ next.owner = plan.owner /\ next.account = plan.account
       /\ next.amount_usdc = plan.amount_usdc
  BY <1>4, <1>12 DEF SamePlan
<1>24. BuyEffect(tx.before, Ledger, s)'
  <2>1. /\ Ledger'.schedule = schedule' /\ Ledger'.runs = runs'
        /\ Ledger'.accounts = accounts' /\ Ledger'.shares = shares'
        /\ Ledger'.vault = vault' /\ Ledger'.holdings = holdings'
    BY DEF Ledger
  <2>2. Ledger'.schedule[s] = next BY <1>14, <2>1
  <2>3. Ledger'.runs[s][Len(Ledger'.runs[s])] = run BY <1>16, <2>1
  <2> HIDE DEF Ledger, b
  <2>4. \A x \in Accounts :
          Ledger'.accounts[x].balance - b.accounts[x].balance =
            (IF x = run.paid_to THEN next.amount_usdc ELSE 0)
            - (IF x = next.account THEN next.amount_usdc ELSE 0)
    BY <1>13, <1>18, <1>23, <2>1
  <2>5. run.fee * BPS <= next.amount_usdc * MAX_KEEPER_FEE_BPS
    BY <1>13, <1>19, <1>23
  <2>6. Ledger'.shares = [b.shares EXCEPT ![next.vault][next.owner] = @ + run.units]
    BY <1>13, <1>20, <1>23, <2>1
  <2>7. \A x \in Vaults :
          Ledger'.vault[x].total_equity_units - b.vault[x].total_equity_units =
            IF x = next.vault THEN run.units ELSE 0
    BY <1>13, <1>21, <1>23, <2>1
  <2>8. \E y \in Registered[next.vault] :
          /\ Ledger'.holdings = [b.holdings EXCEPT ![next.vault][y] =
                                   Ledger'.holdings[next.vault][y]]
          /\ ToEquityUnits(Ledger'.holdings[next.vault][y] - b.holdings[next.vault][y],
                           Decimals[y], LiveMultiplier(y)') = run.units
    BY <1>4, <1>13, <1>22, <1>23, <2>1
  <2>9. Len(Ledger'.runs[s]) = Len(b.runs[s]) + 1 BY <1>16, <2>1
  <2>10. tx'.before = b BY <1>2 DEF b
  <2>11. QED
    BY <2>2, <2>3, <2>4, <2>5, <2>6, <2>7, <2>8, <2>9, <2>10 DEF BuyEffect
<1>25. Done(tx.before, s)' BY <1>2, <1>14, <1>15, <1>17, <1>24 DEF Done
<1>26. QED BY <1>3, <1>6, <1>25

LEMMA InitAtomicInv == Init => AtomicInv
BY InitExecutionInv DEF Init, AtomicInv

LEMMA AtomicInvStep == AtomicInv /\ [Next]_vars => AtomicInv'
<1> SUFFICES ASSUME AtomicInv, [Next]_vars PROVE AtomicInv' OBVIOUS
<1>1. ExecutionInv' BY ExecutionInvStep DEF AtomicInv
<1>2. CASE Tick \/ Commit \/ Abort
  <2>1. tx' = None BY <1>2 DEF Tick, Commit, Abort
  <2>2. QED BY <1>1, <2>1 DEF AtomicInv
<1>3. ASSUME NEW ixs \in Transactions, Submit(ixs) PROVE AtomicInv'
  <2>1. UNCHANGED ledger /\ tx = None /\ tx'.before = Ledger BY <1>3 DEF Submit
  <2>2. \A s \in Schedules : receipt[s] = None
    BY <2>1 DEF AtomicInv, ExecutionInv, NoStrandedExecution
  <2>3. Untouched(tx.before)'
    BY <2>1, <2>2 DEF Untouched, TotalsSince, Ledger, ledger
  <2>4. QED BY <1>1, <2>3 DEF AtomicInv
<1>4. ASSUME tx # None, NEW ix, Instruction(ix) PROVE AtomicInv'
  <2>1. TypeOK BY DEF AtomicInv, ExecutionInv
  <2>2. tx'.before = tx.before BY <1>4, <2>1, InstructionRuns, RunsTx
  <2>3. CASE BeginExecution(ix) BY <1>1, <2>3, BeginOpens DEF AtomicInv
  <2>4. CASE SettleExecution(ix) BY <1>1, <2>4, SettleDoes DEF AtomicInv
  <2>5. CASE QuietOps(ix)
    <3>1. /\ now' = now
          /\ UNCHANGED <<receipt, runs, shares, holdings>>
          /\ \A x \in Accounts : accounts'[x].balance = accounts[x].balance
          /\ \A v \in Vaults : vault'[v].total_equity_units = vault[v].total_equity_units
          /\ \A s \in Schedules : schedule[s] # None =>
               schedule'[s] # None /\ SamePlan(schedule'[s], schedule[s])
      BY <2>1, <2>5, QuietKeeps
    <3>2. /\ Untouched(tx.before) => Untouched(tx.before)'
          /\ \A s \in Schedules : Opened(tx.before, s) => Opened(tx.before, s)'
          /\ \A s \in Schedules : Done(tx.before, s) => Done(tx.before, s)'
      BY <2>2, <3>1, StagesKept
    <3>3. PairBegun => PairBegun' BY <1>4, <2>1, PairStaysBegun
    <3>4. QED BY <1>1, <1>4, <3>2, <3>3 DEF AtomicInv
  <2>6. QED BY <1>4, <2>3, <2>4, <2>5 DEF Instruction, QuietOps
<1>5. CASE UNCHANGED vars
  <2>1. /\ now' = now /\ tx' = tx /\ UNCHANGED <<schedule, vault, accounts, receipt, runs,
                                               shares, holdings>>
    BY <1>5 DEF vars, ledger
  <2>2. /\ Untouched(tx.before) => Untouched(tx.before)'
        /\ \A s \in Schedules : Opened(tx.before, s) => Opened(tx.before, s)'
        /\ \A s \in Schedules : Done(tx.before, s) => Done(tx.before, s)'
    BY <2>1, StagesKept DEF SamePlan
  <2>3. PairBegun => PairBegun' BY <2>1 DEF PairBegun
  <2>4. QED BY <1>1, <2>1, <2>2, <2>3 DEF AtomicInv
<1>6. QED BY <1>2, <1>3, <1>4, <1>5 DEF Next

\* What the invariant says of the step that ends a transaction.
LEMMA EndOfTransaction ==
  ASSUME AtomicInv, [Next]_vars, tx # None, tx' = None
  PROVE  LET b == tx.before
             a == Ledger'
         IN /\ Cardinality(Bought(b, a)) <= 1
            /\ \A s \in Bought(b, a) : BuyEffect(b, a, s)
            /\ Bought(b, a) = {} => NothingBought(b, a)
<1> DEFINE b == tx.before
<1>1. \A t : Cardinality({}) = 0 /\ Cardinality({t}) = 1 /\ Cardinality({}) <= 1
             /\ Cardinality({t}) <= 1
  <2>1. Cardinality({}) = 0 BY FS_EmptySet
  <2>2. \A t : Cardinality({t}) = 1 BY FS_Singleton
  <2>3. QED BY <2>1, <2>2
<1>2. Commit \/ Abort
  <2>1. ASSUME NEW ix, Instruction(ix) PROVE tx' # None
    BY <2>1, InstructionRuns, RunsTx DEF AtomicInv, ExecutionInv
  <2>2. QED BY <2>1 DEF Next, Tick, Submit, vars
<1>3. ASSUME UNCHANGED <<accounts, shares, holdings, vault, runs>>, Untouched(b)
      PROVE  Bought(b, Ledger') = {} /\ NothingBought(b, Ledger')
  BY <1>3 DEF Untouched, TotalsSince, Bought, NothingBought, Ledger
<1>4. CASE Abort
  <2>1. Ledger'.runs = b.runs /\ Ledger'.accounts = b.accounts
        /\ Ledger'.shares = b.shares /\ Ledger'.holdings = b.holdings
        /\ Ledger'.vault = b.vault
    BY <1>4 DEF Abort, Ledger
  <2> HIDE DEF Ledger
  <2>2. Bought(b, Ledger') = {} /\ NothingBought(b, Ledger')
    BY <2>1 DEF Bought, NothingBought
  <2>3. QED BY <1>1, <2>2
<1>5. CASE Commit
  <2>1. UNCHANGED ledger /\ now' = now /\ tx.pc > Len(tx.ixs) BY <1>5 DEF Commit
  <2>2. \A s \in Schedules : receipt[s] = None
    <3>1. Len(tx.ixs) \in Nat /\ tx.pc \in Nat
      BY OpenTransaction DEF AtomicInv, ExecutionInv, TxRecord
    <3>2. QED BY <2>1, <3>1 DEF AtomicInv, ExecutionInv, OpenIsPaired, IsOpen
  <2>3. Ledger' = Ledger BY <2>1 DEF Ledger, ledger
  <2>4. CASE Untouched(b)
    <3>1. Bought(b, Ledger') = {} /\ NothingBought(b, Ledger')
      BY <1>3, <2>1, <2>4 DEF ledger
    <3>2. QED BY <1>1, <3>1
  <2>5. ASSUME NEW s \in Schedules, Done(b, s)
        PROVE  Bought(b, Ledger) = {s} /\ BuyEffect(b, Ledger, s)
    <3>1. BuyEffect(b, Ledger, s) BY <2>5 DEF Done
    <3>2. Len(runs[s]) = Len(b.runs[s]) + 1 BY <3>1 DEF BuyEffect, Ledger
    <3>3. b.runs[s] \in Seq(RunRecord)
      BY OpenTransaction DEF AtomicInv, ExecutionInv, TxRecord, LedgerRecord
    <3>4. Len(b.runs[s]) \in Nat BY <3>3
    <3>5. runs[s] # b.runs[s] BY <3>2, <3>4
    <3>6. Ledger.runs = runs BY DEF Ledger
    <3>7. \A t \in Schedules \ {s} : runs[t] = b.runs[t] BY <2>5 DEF Done
    <3>8. QED BY <3>1, <3>5, <3>6, <3>7 DEF Bought
  <2>6. Untouched(b) \/ \E s \in Schedules : Done(b, s)
    BY <2>2 DEF AtomicInv, Opened
  <2>7. QED BY <1>1, <2>3, <2>4, <2>5, <2>6
<1>6. QED BY <1>2, <1>4, <1>5

\* Whatever a transaction is made of, when it is over it has bought for at
\* most one schedule, once and with everything a buy entails, or it has moved
\* no money and no shares.
THEOREM BuysAtomic == Spec => BuysAreAtomic
<1>1. Spec => []AtomicInv BY InitAtomicInv, AtomicInvStep, PTL DEF Spec
<1>2. AtomicInv /\ [Next]_vars =>
        [ tx # None /\ tx' = None =>
            LET b == tx.before
                a == Ledger'
            IN /\ Cardinality(Bought(b, a)) <= 1
               /\ \A s \in Bought(b, a) : BuyEffect(b, a, s)
               /\ Bought(b, a) = {} => NothingBought(b, a) ]_vars
  BY EndOfTransaction
<1>3. QED BY <1>1, <1>2, PTL DEF Spec, BuysAreAtomic

-----------------------------------------------------------------------------
(* The whole history of buys of a schedule: their pace and the floor under  *)
(* what they deliver.  Both follow from one invariant that relates the runs *)
(* of a schedule to the fields settle_execution leaves on it; it holds of   *)
(* the ledger, and of the ledger an open transaction would go back to.      *)

Paced(sch, r) ==
  /\ sch.cadence_seconds > 0
  /\ \A i \in 1..Len(r) : r[i].due <= r[i].at
  /\ \A i \in 1..Len(r)-1 :
       /\ r[i].at < r[i+1].due
       /\ r[i].due + sch.cadence_seconds <= r[i+1].due
       /\ r[i+1].due <= r[i].at + sch.cadence_seconds
  /\ \A i \in 1..Len(r)-2 : r[i].at + sch.cadence_seconds < r[i+2].at
  /\ Len(r) > 0 =>
       /\ sch.next_due_ts > r[Len(r)].at
       /\ sch.next_due_ts <= r[Len(r)].at + sch.cadence_seconds
       /\ r[Len(r)].due + sch.cadence_seconds <= sch.next_due_ts

\* The stored floor is the ratcheted result of the last buy.
Floored(sch, r) ==
  /\ \A i \in 1..Len(r)-1 :
       (r[i+1].units + 1) * BPS > r[i].units * (BPS - sch.tolerance)
  /\ Len(r) = 0 => sch.min_equity_units = sch.initial_min_equity_units
  /\ Len(r) > 0 =>
       /\ r[1].units >= sch.initial_min_equity_units
       /\ sch.min_equity_units = RatchetedFloor(r[Len(r)].units, sch.tolerance)

\* A schedule that does not exist has bought nothing.
Kept(sch, rn) ==
  \A s \in Schedules :
    IF sch[s] = None THEN rn[s] = <<>>
    ELSE Paced(sch[s], rn[s]) /\ Floored(sch[s], rn[s])

HistoryInv ==
  /\ TypeOK
  /\ Kept(schedule, runs)
  /\ tx # None => Kept(tx.before.schedule, tx.before.runs)

-----------------------------------------------------------------------------
\* A due date moves past the present, by one cadence at least and never to
\* more than one cadence from now.
LEMMA NextDueAfterBounds ==
  ASSUME NEW previous \in Int, NEW cadence \in Int, cadence > 0, NEW t \in Int, previous <= t
  PROVE  LET next == NextDueAfter(previous, cadence, t) IN
         next > t /\ next <= t + cadence /\ previous + cadence <= next
BY DEF NextDueAfter

\* What is not below the ratcheted floor of n is at least n less the tolerance.
LEMMA AboveFloor ==
  ASSUME NEW n \in Nat, NEW tol \in 0..MAX_FLOOR_TOLERANCE, NEW u \in Nat,
         u >= RatchetedFloor(n, tol)
  PROVE  (u + 1) * BPS > n * (BPS - tol)
<1>1. BPS - tol \in Nat /\ BPS \in Nat \ {0} BY MathAssumption
<1>2. n * (BPS - tol) \in Nat BY <1>1, MulNat
<1>3. ASSUME NEW x \in Nat, NEW d \in Nat \ {0}, u >= x \div d PROVE (u + 1) * d > x
  <2>1. x < ((x \div d) + 1) * d OBVIOUS
  <2>2. x \div d \in Nat BY DivNat
  <2>3. ASSUME NEW k \in Nat, u >= k PROVE (u + 1) * d >= (k + 1) * d
    <3>1. u - k \in Nat BY <2>3
    <3>2. (u - k) * d \in Nat BY <3>1, MulNat
    <3>3. (u + 1) * d = (k + 1) * d + (u - k) * d OBVIOUS
    <3>4. (k + 1) * d \in Nat BY MulNat
    <3>5. QED BY <3>2, <3>3, <3>4
  <2>4. QED BY <1>3, <2>1, <2>2, <2>3
<1>4. QED BY <1>1, <1>2, <1>3 DEF RatchetedFloor

\* Appending a run keeps the pace.
LEMMA PacedAppend ==
  ASSUME NEW sch \in ScheduleRecord, NEW r \in Seq(RunRecord), NEW run \in RunRecord,
         NEW next \in ScheduleRecord, Paced(sch, r),
         run.due = sch.next_due_ts, run.at >= run.due,
         next.cadence_seconds = sch.cadence_seconds,
         next.next_due_ts = NextDueAfter(sch.next_due_ts, sch.cadence_seconds, run.at)
  PROVE  Paced(next, Append(r, run))
<1> DEFINE q == Append(r, run)
           n == Len(r)
           cad == sch.cadence_seconds
<1>1. /\ n \in Nat /\ Len(q) = n + 1 /\ q[n + 1] = run
      /\ \A i \in 1..n : q[i] = r[i] /\ r[i] \in RunRecord
  OBVIOUS
<1>2. \A i \in 1..n : r[i].at \in Int /\ r[i].due \in Int BY <1>1 DEF RunRecord
<1>3. run.at \in Int /\ run.due \in Int /\ cad \in Int /\ cad > 0
  BY DEF RunRecord, ScheduleRecord, Paced
<1>4. /\ next.next_due_ts > run.at /\ next.next_due_ts <= run.at + cad
      /\ run.due + cad <= next.next_due_ts
  BY <1>3, NextDueAfterBounds
<1>5. n > 0 => /\ run.due > r[n].at
               /\ run.due <= r[n].at + cad
               /\ r[n].due + cad <= run.due
  BY DEF Paced
<1>6. \A i \in 1..n+1 : q[i].due <= q[i].at
  BY <1>1, <1>3 DEF Paced
<1>7. \A i \in 1..n : /\ q[i].at < q[i+1].due
                      /\ q[i].due + cad <= q[i+1].due
                      /\ q[i+1].due <= q[i].at + cad
  <2> SUFFICES ASSUME NEW i \in 1..n
               PROVE  /\ q[i].at < q[i+1].due
                      /\ q[i].due + cad <= q[i+1].due
                      /\ q[i+1].due <= q[i].at + cad
    OBVIOUS
  <2>1. CASE i = n BY <1>1, <1>5, <2>1
  <2>2. CASE i # n BY <1>1, <2>2 DEF Paced
  <2>3. QED BY <2>1, <2>2
<1>8. \A i \in 1..n-1 : q[i].at + cad < q[i+2].at
  <2> SUFFICES ASSUME NEW i \in 1..n-1 PROVE q[i].at + cad < q[i+2].at
    OBVIOUS
  <2>1. CASE i = n - 1
    <3>1. r[n-1].at < r[n].due /\ r[n].due + cad <= run.due /\ run.due <= run.at
      BY <1>1, <1>5, <2>1 DEF Paced
    <3>2. q[i] = r[n-1] /\ q[i+2] = run BY <1>1, <2>1
    <3>3. r[n-1].at \in Int /\ r[n].due \in Int BY <1>1, <1>2, <2>1
    <3>4. QED BY <1>3, <3>1, <3>2, <3>3
  <2>2. CASE i # n - 1
    <3>1. i \in 1..n-2 /\ q[i] = r[i] /\ q[i+2] = r[i+2] BY <1>1, <2>2
    <3>2. QED BY <3>1 DEF Paced
  <2>3. QED BY <2>1, <2>2
<1>9. QED BY <1>1, <1>3, <1>4, <1>6, <1>7, <1>8 DEF Paced

\* Appending a run that clears the stored floor keeps the floor.
LEMMA FlooredAppend ==
  ASSUME NEW sch \in ScheduleRecord, NEW r \in Seq(RunRecord), NEW run \in RunRecord,
         NEW next \in ScheduleRecord, Floored(sch, r),
         run.units >= sch.min_equity_units,
         next.tolerance = sch.tolerance,
         next.initial_min_equity_units = sch.initial_min_equity_units,
         next.min_equity_units = RatchetedFloor(run.units, sch.tolerance)
  PROVE  Floored(next, Append(r, run))
<1> DEFINE q == Append(r, run)
           n == Len(r)
           tol == sch.tolerance
<1>1. /\ n \in Nat /\ Len(q) = n + 1 /\ q[n + 1] = run
      /\ \A i \in 1..n : q[i] = r[i] /\ r[i] \in RunRecord
  OBVIOUS
<1>2. tol \in 0..MAX_FLOOR_TOLERANCE /\ run.units \in Nat
  BY DEF RunRecord, ScheduleRecord
<1>3. \A i \in 1..n : (q[i+1].units + 1) * BPS > q[i].units * (BPS - tol)
  <2> SUFFICES ASSUME NEW i \in 1..n
               PROVE  (q[i+1].units + 1) * BPS > q[i].units * (BPS - tol)
    OBVIOUS
  <2>1. CASE i = n
    <3>1. run.units >= RatchetedFloor(r[n].units, tol) BY <2>1 DEF Floored
    <3>2. r[n].units \in Nat BY <1>1, <2>1 DEF RunRecord
    <3>3. QED BY <1>1, <1>2, <2>1, <3>1, <3>2, AboveFloor
  <2>2. CASE i # n
    <3>1. i \in 1..n-1 /\ q[i] = r[i] /\ q[i+1] = r[i+1] BY <1>1, <2>2
    <3>2. QED BY <3>1 DEF Floored
  <2>3. QED BY <2>1, <2>2
<1>4. q[1].units >= sch.initial_min_equity_units
  <2>1. CASE n = 0 BY <1>1, <2>1 DEF Floored
  <2>2. CASE n > 0 BY <1>1, <2>2 DEF Floored
  <2>3. QED BY <1>1, <2>1, <2>2
<1>5. QED BY <1>1, <1>3, <1>4 DEF Floored

-----------------------------------------------------------------------------
LEMMA InitHistoryInv == Init => HistoryInv
BY TypeInit DEF Init, HistoryInv, Kept

\* An instruction keeps the history.
LEMMA InstructionKeeps ==
  ASSUME HistoryInv, NEW ix, Instruction(ix)
  PROVE  Kept(schedule', runs')
<1>1. LedgerOK /\ now \in Nat BY TypeOKParts DEF HistoryInv
<1>2. Kept(schedule, runs) BY DEF HistoryInv
<1>3. ix \in Instructions BY InstructionRuns, RunsTx DEF HistoryInv
<1>4. CASE UNCHANGED <<schedule, runs>> BY <1>2, <1>4
<1>5. CASE CreateSchedule(ix)
  <2>1. ix.schedule \in Schedules /\ ix.terms \in Terms
    BY <1>3, <1>5 DEF CreateSchedule, Runs, Instructions
  <2>2. runs' = runs /\ schedule[ix.schedule] = None /\ runs[ix.schedule] = <<>>
    BY <1>2, <1>5, <2>1 DEF CreateSchedule, Kept
  <2>3. /\ \A s \in Schedules \ {ix.schedule} : schedule'[s] = schedule[s]
        /\ schedule'[ix.schedule].cadence_seconds = ix.terms.cadence_seconds
        /\ schedule'[ix.schedule].min_equity_units
             = schedule'[ix.schedule].initial_min_equity_units
    BY <1>1, <1>5, <2>1 DEF CreateSchedule, LedgerOK
  <2>4. ix.terms.cadence_seconds > 0
    BY <1>5, <2>1, ExecutionAssumption DEF CreateSchedule, TermsAccepted, Terms
  <2>5. Paced(schedule'[ix.schedule], <<>>) /\ Floored(schedule'[ix.schedule], <<>>)
    BY <2>3, <2>4 DEF Paced, Floored
  <2>6. QED BY <1>2, <2>2, <2>3, <2>5 DEF Kept
<1>6. CASE CancelSchedule(ix)
  <2>1. ix.schedule \in Schedules
    BY <1>3, <1>6 DEF CancelSchedule, Runs, Instructions
  <2> DEFINE s == ix.schedule
  <2>2. schedule[s] \in ScheduleRecord /\ schedule[s] # None /\ runs' = runs
    BY <1>1, <1>6, <2>1 DEF CancelSchedule, LedgerOK
  <2>3. schedule' = [schedule EXCEPT ![s] = [schedule[s] EXCEPT !.active = FALSE]]
    BY <1>6 DEF CancelSchedule
  <2>4. schedule'[s] = [schedule[s] EXCEPT !.active = FALSE]
    BY <1>1, <2>1, <2>3 DEF LedgerOK
  <2>5. /\ schedule'[s].cadence_seconds = schedule[s].cadence_seconds
        /\ schedule'[s].next_due_ts = schedule[s].next_due_ts
        /\ schedule'[s].tolerance = schedule[s].tolerance
        /\ schedule'[s].min_equity_units = schedule[s].min_equity_units
        /\ schedule'[s].initial_min_equity_units = schedule[s].initial_min_equity_units
        /\ schedule'[s] # None
    <3>1. schedule'[s] \in ScheduleRecord
      <4>1. [schedule[s] EXCEPT !.active = FALSE] \in ScheduleRecord
        BY <2>2 DEF ScheduleRecord
      <4>2. QED BY <2>4, <4>1
    <3>2. schedule'[s] # None
      <4>1. None \notin ScheduleRecord BY ExecutionAssumption
      <4>2. QED BY <3>1, <4>1
    <3>3. QED BY <2>2, <2>4, <3>2 DEF ScheduleRecord
  <2>6. Paced(schedule[s], runs[s]) /\ Floored(schedule[s], runs[s])
    BY <1>2, <2>1, <2>2 DEF Kept
  <2>7. Paced(schedule'[s], runs[s]) BY <2>5, <2>6 DEF Paced
  <2>8. Floored(schedule'[s], runs[s]) BY <2>5, <2>6 DEF Floored
  <2>9. \A t \in Schedules \ {s} : schedule'[t] = schedule[t]
    BY <1>1, <2>1, <2>3 DEF LedgerOK
  <2>10. QED BY <1>2, <2>2, <2>5, <2>7, <2>8, <2>9 DEF Kept
<1>7. CASE SettleExecution(ix)
  <2> DEFINE s == ix.schedule
             units == DeliveredUnits(s, ix)
             run == [at |-> now, due |-> schedule[s].next_due_ts, units |-> units,
                     fee |-> ExecutionFee(s, ix.vault), paid_to |-> ix.account]
             next == Advanced(schedule[s], units)
  <2>1. s \in Schedules /\ ix.vault \in Vaults /\ ix.wrapper \in Wrappers
        /\ ix.account \in Accounts
    BY <1>3, <1>7 DEF SettleExecution, Runs, Instructions
  <2>2. schedule[s] \in ScheduleRecord /\ schedule[s] # None /\ runs[s] \in Seq(RunRecord)
    BY <1>1, <1>7, <2>1 DEF SettleExecution, Runnable, LedgerOK
  <2>3. units \in Nat
    BY <1>7, <2>1, DeliveredUnitsType DEF SettleExecution, EscrowMatches, HistoryInv
  <2>4. ExecutionFee(s, ix.vault) \in Nat BY <1>1, <2>1, <2>2, ExecutionFeeType
  <2>5. run \in RunRecord BY <1>1, <2>1, <2>2, <2>3, <2>4 DEF RunRecord, ScheduleRecord
  <2>6. next \in ScheduleRecord BY <1>1, <2>2, <2>3, AdvancedType
  <2>7. /\ schedule' = [schedule EXCEPT ![s] = next]
        /\ runs' = [runs EXCEPT ![s] = Append(runs[s], run)]
    BY <1>7 DEF SettleExecution
  <2>8. /\ next.cadence_seconds = schedule[s].cadence_seconds
        /\ next.next_due_ts =
             NextDueAfter(schedule[s].next_due_ts, schedule[s].cadence_seconds, now)
        /\ next.tolerance = schedule[s].tolerance
        /\ next.initial_min_equity_units = schedule[s].initial_min_equity_units
        /\ next.min_equity_units = RatchetedFloor(units, schedule[s].tolerance)
    BY <2>2 DEF Advanced, ScheduleRecord
  <2>9. now >= schedule[s].next_due_ts BY <1>7 DEF SettleExecution, Runnable
  <2>10. units >= schedule[s].min_equity_units
    <3>1. \E min \in Nat : units >= AtLeast(schedule[s].min_equity_units, min)
      <4>1. ix.min \in Nat
        BY <1>3, <1>7 DEF SettleExecution, Runs, Instructions
      <4>2. QED BY <1>7, <4>1 DEF SettleExecution, ClearsFloor
    <3>2. schedule[s].min_equity_units \in Nat BY <2>2 DEF ScheduleRecord
    <3>3. QED BY <2>3, <3>1, <3>2 DEF AtLeast
  <2>11. Paced(schedule[s], runs[s]) /\ Floored(schedule[s], runs[s])
    BY <1>2, <2>1, <2>2 DEF Kept
  <2>12. run.at = now /\ run.due = schedule[s].next_due_ts /\ run.units = units
    OBVIOUS
  <2> HIDE DEF units, run, next
  <2>13. Paced(next, Append(runs[s], run))
    BY <2>2, <2>5, <2>6, <2>8, <2>9, <2>11, <2>12, PacedAppend
  <2>14. Floored(next, Append(runs[s], run))
    BY <2>2, <2>5, <2>6, <2>8, <2>10, <2>11, <2>12, FlooredAppend
  <2>15. /\ schedule'[s] = next /\ runs'[s] = Append(runs[s], run) /\ next # None
         /\ \A t \in Schedules \ {s} : schedule'[t] = schedule[t] /\ runs'[t] = runs[t]
    BY <1>1, <2>1, <2>6, <2>7, ExecutionAssumption DEF LedgerOK
  <2>16. QED BY <1>2, <2>13, <2>14, <2>15 DEF Kept
<1>8. QED
  BY <1>4, <1>5, <1>6, <1>7 DEF Instruction, SetKeeperFee, BeginExecution, Deliver,
                                Approve, Revoke, SetAuthority

LEMMA HistoryInvStep == HistoryInv /\ [Next]_vars => HistoryInv'
<1> SUFFICES ASSUME HistoryInv, [Next]_vars PROVE HistoryInv' OBVIOUS
<1>1. TypeOK' BY TypeStep DEF HistoryInv
<1>2. CASE Tick \/ Commit \/ UNCHANGED vars
  BY <1>1, <1>2 DEF Tick, Commit, vars, ledger, HistoryInv, Kept
<1>3. ASSUME NEW ixs \in Transactions, Submit(ixs) PROVE HistoryInv'
  <2>1. UNCHANGED ledger /\ tx'.before.schedule = schedule /\ tx'.before.runs = runs
    BY <1>3 DEF Submit, Ledger
  <2>2. QED BY <1>1, <2>1 DEF HistoryInv, ledger, Kept
<1>4. ASSUME tx # None, NEW ix, Instruction(ix) PROVE HistoryInv'
  <2>1. tx'.before = tx.before BY <1>4, InstructionRuns, RunsTx DEF HistoryInv
  <2>2. Kept(schedule', runs') BY <1>4, InstructionKeeps
  <2>3. QED BY <1>1, <1>4, <2>1, <2>2 DEF HistoryInv, Kept
<1>5. CASE Abort BY <1>1, <1>5 DEF Abort, HistoryInv, Kept
<1>6. QED BY <1>2, <1>3, <1>4, <1>5 DEF Next

LEMMA HistoryKept == Spec => []HistoryInv
BY InitHistoryInv, HistoryInvStep, PTL DEF Spec

-----------------------------------------------------------------------------
\* However late, early or often anyone submits executions, a schedule's due
\* dates are a cadence apart and a backlog is worth one buy.
THEOREM PaceKept == Spec => []BuysArePaced
<1>1. HistoryInv => BuysArePaced
  BY DEF HistoryInv, Kept, Paced, BuysArePaced
<1>2. QED BY <1>1, HistoryKept, PTL

\* Every buy delivers at least the owner's tolerance of the one before, and the
\* first at least the minimum the owner signed.
THEOREM FloorKept == Spec => []DeliveryIsFloored
<1>1. HistoryInv => DeliveryIsFloored
  BY DEF HistoryInv, Kept, Floored, DeliveryIsFloored
<1>2. QED BY <1>1, HistoryKept, PTL

-----------------------------------------------------------------------------
(* The counters *)

UnitsBought(r) == SumFunction([i \in 1..Len(r) |-> r[i].units])

Plans(sch, v) == {s \in Schedules : sch[s] # None /\ sch[s].vault = v}
PlansUnits(sch, v) == SumFunction([s \in Plans(sch, v) |-> sch[s].total_equity_units])

\* What a schedule's counters say of its runs.
Tallied(plan, r) ==
  /\ plan.executions = Len(r)
  /\ plan.total_usdc_spent = Len(r) * plan.amount_usdc
  /\ plan.total_equity_units = UnitsBought(r)

\* What a vault's counter says of its receipts and of its schedules.
VaultTallied(sch, total, shr, v) ==
  /\ total = SumFunction(shr)
  /\ total = PlansUnits(sch, v)

\* The counters of one ledger.
Counted(sch, vlt, shr, rn) ==
  /\ \A s \in Schedules : sch[s] # None => Tallied(sch[s], rn[s])
  /\ \A v \in Vaults : VaultTallied(sch, vlt[v].total_equity_units, shr[v], v)

CountersInv ==
  /\ HistoryInv
  /\ Counted(schedule, vault, shares, runs)
  /\ tx # None =>
       Counted(tx.before.schedule, tx.before.vault, tx.before.shares, tx.before.runs)

\* A run more adds its units.
LEMMA UnitsAppend ==
  ASSUME NEW r \in Seq(RunRecord), NEW run \in RunRecord
  PROVE  UnitsBought(Append(r, run)) = UnitsBought(r) + run.units
<1> DEFINE n == Len(r)
           f == [i \in 1..n |-> r[i].units]
           g == [i \in 1..n+1 |-> Append(r, run)[i].units]
           S == 1..n
<1>1. n \in Nat /\ Len(Append(r, run)) = n + 1 /\ run.units \in Nat
  BY DEF RunRecord
<1>2. \A i \in S : Append(r, run)[i] = r[i] /\ r[i] \in RunRecord OBVIOUS
<1>3. /\ IsFiniteSet(S) /\ n + 1 \notin S /\ 1..n+1 = S \cup {n + 1}
  <2>1. IsFiniteSet(S) BY <1>1, FS_Interval
  <2>2. QED BY <1>1, <2>1
<1>4. ASSUME NEW i \in S PROVE f[i] \in Nat /\ g[i] = f[i]
  <2>1. Append(r, run)[i] = r[i] /\ r[i].units \in Nat BY <1>2 DEF RunRecord
  <2>2. i \in 1..n+1 BY <1>1
  <2>3. f[i] = r[i].units /\ g[i] = Append(r, run)[i].units BY <2>2
  <2>4. QED BY <2>1, <2>3
<1>5. g[n + 1] = run.units /\ DOMAIN f = S /\ DOMAIN g = S \cup {n + 1}
  BY <1>1, <1>3
<1>6. UnitsBought(r) = SumFunction(f) /\ UnitsBought(Append(r, run)) = SumFunction(g)
  BY <1>1 DEF UnitsBought
<1> HIDE DEF n, f, g, S
<1>7. SumFunctionOnSet(g, S \cup {n + 1}) = g[n + 1] + SumFunctionOnSet(g, S)
  <2>1. \A i \in S \cup {n + 1} : g[i] \in Int BY <1>1, <1>4, <1>5
  <2>2. QED BY <1>3, <2>1, SumAdd
<1>8. SumFunctionOnSet(f, S) = SumFunctionOnSet(g, S) BY <1>3, <1>4, SumSame
<1>9. SumFunctionOnSet(f, S) \in Nat BY <1>3, <1>4, SumNat
<1>10. SumFunction(f) = SumFunctionOnSet(f, S)
       /\ SumFunction(g) = SumFunctionOnSet(g, S \cup {n + 1})
  BY <1>5 DEF SumFunction
<1>11. QED BY <1>1, <1>5, <1>6, <1>7, <1>8, <1>9, <1>10

\* No run, no units.
LEMMA UnitsNone == UnitsBought(<<>>) = 0
<1>1. DOMAIN [i \in 1..Len(<<>>) |-> <<>>[i].units] = {} OBVIOUS
<1>2. QED BY <1>1, SumEmpty DEF UnitsBought, SumFunction

\* The schedules of a vault, and what they have bought.
LEMMA PlansType ==
  ASSUME NEW sch \in [Schedules -> ScheduleRecord \cup {None}], NEW v
  PROVE  /\ Plans(sch, v) \subseteq Schedules /\ IsFiniteSet(Plans(sch, v))
         /\ [s \in Plans(sch, v) |-> sch[s].total_equity_units] \in [Plans(sch, v) -> Int]
<1>1. Plans(sch, v) \subseteq Schedules /\ \A s \in Plans(sch, v) : sch[s] \in ScheduleRecord
  BY DEF Plans
<1>2. IsFiniteSet(Plans(sch, v)) BY <1>1, ExecutionAssumption, FS_Subset
<1>3. \A s \in Plans(sch, v) : sch[s].total_equity_units \in Int
  BY <1>1 DEF ScheduleRecord
<1>4. QED BY <1>1, <1>2, <1>3

\* What they have bought is a whole number.
LEMMA PlansIsInt ==
  ASSUME NEW sch \in [Schedules -> ScheduleRecord \cup {None}], NEW v
  PROVE  PlansUnits(sch, v) \in Int
<1> DEFINE S == Plans(sch, v)
           f == [s \in S |-> sch[s].total_equity_units]
<1>1. IsFiniteSet(S) /\ f \in [S -> Int] BY PlansType
<1>2. PlansUnits(sch, v) = SumFunction(f) BY DEF PlansUnits
<1> HIDE DEF S, f
<1>3. S \in SUBSET S /\ DOMAIN f = S /\ \A s \in S : f[s] \in Int BY <1>1
<1>4. QED BY <1>1, <1>2, <1>3, SumInt DEF SumFunction

\* A schedule that has bought nothing leaves every vault's total.
LEMMA PlansCreated ==
  ASSUME NEW sch \in [Schedules -> ScheduleRecord \cup {None}], NEW s \in Schedules,
         sch[s] = None, NEW plan \in ScheduleRecord, plan.total_equity_units = 0, NEW v
  PROVE  PlansUnits([sch EXCEPT ![s] = plan], v) = PlansUnits(sch, v)
<1> DEFINE next == [sch EXCEPT ![s] = plan]
           S == Plans(sch, v)
           f == [x \in S |-> sch[x].total_equity_units]
           g == [x \in Plans(next, v) |-> next[x].total_equity_units]
<1>1. plan # None /\ next[s] = plan /\ \A x \in Schedules \ {s} : next[x] = sch[x]
  BY ExecutionAssumption
<1>2. s \notin S /\ IsFiniteSet(S) /\ f \in [S -> Int] BY PlansType DEF Plans
<1>3. CASE plan.vault = v
  <2>1. Plans(next, v) = S \cup {s}
    <3> HIDE DEF next
    <3>1. QED BY <1>1, <1>3 DEF Plans
  <2>2. g[s] = 0 /\ \A x \in S : g[x] = f[x]
    <3>1. \A x \in S : x \in Schedules \ {s} BY <1>2 DEF Plans
    <3> HIDE DEF next, S
    <3>2. QED BY <1>1, <2>1, <3>1
  <2>3. DOMAIN f = S /\ DOMAIN g = S \cup {s} BY <2>1
  <2>4. PlansUnits(sch, v) = SumFunction(f) /\ PlansUnits(next, v) = SumFunction(g)
    BY DEF PlansUnits
  <2> HIDE DEF f, g, S, next
  <2>5. SumFunctionOnSet(g, S \cup {s}) = g[s] + SumFunctionOnSet(g, S)
    <3>1. \A x \in S \cup {s} : g[x] \in Int BY <1>2, <2>2
    <3>2. QED BY <1>2, <3>1, SumAdd
  <2>6. SumFunctionOnSet(f, S) = SumFunctionOnSet(g, S)
    <3>1. \A x \in S : f[x] \in Int /\ f[x] = g[x] BY <1>2, <2>2
    <3>2. QED BY <1>2, <3>1, SumSame
  <2>7. SumFunctionOnSet(f, S) \in Int
    <3>1. S \in SUBSET S /\ \A x \in S : f[x] \in Int BY <1>2
    <3>2. QED BY <1>2, <3>1, SumInt
  <2>8. SumFunction(f) = SumFunctionOnSet(f, S) /\ SumFunction(g) = SumFunctionOnSet(g, S \cup {s})
    BY <2>3 DEF SumFunction
  <2>9. QED BY <2>2, <2>4, <2>5, <2>6, <2>7, <2>8 DEF next
<1>4. CASE plan.vault # v
  <2>1. Plans(next, v) = S
    <3> HIDE DEF next
    <3>1. QED BY <1>1, <1>4 DEF Plans
  <2>2. \A x \in S : next[x] = sch[x]
    <3>1. \A x \in S : x \in Schedules \ {s} BY <1>2 DEF Plans
    <3>2. QED BY <1>1, <3>1
  <2>3. g = f
    <3> HIDE DEF next, S
    <3>1. QED BY <2>1, <2>2
  <2>4. QED BY <2>3 DEF PlansUnits
<1>5. QED BY <1>3, <1>4

\* A schedule's counter moves its own vault's total and no other.
LEMMA PlansMoved ==
  ASSUME NEW sch \in [Schedules -> ScheduleRecord \cup {None}], NEW s \in Schedules,
         sch[s] # None, NEW plan \in ScheduleRecord, plan.vault = sch[s].vault, NEW v
  PROVE  /\ v = plan.vault =>
              PlansUnits([sch EXCEPT ![s] = plan], v)
                = PlansUnits(sch, v) - sch[s].total_equity_units + plan.total_equity_units
         /\ v # plan.vault =>
              PlansUnits([sch EXCEPT ![s] = plan], v) = PlansUnits(sch, v)
<1> DEFINE next == [sch EXCEPT ![s] = plan]
           S == Plans(sch, v)
           f == [x \in S |-> sch[x].total_equity_units]
           g == [x \in Plans(next, v) |-> next[x].total_equity_units]
           n == plan.total_equity_units
<1>1. plan # None /\ next[s] = plan /\ \A x \in Schedules \ {s} : next[x] = sch[x]
  BY ExecutionAssumption
<1>2. IsFiniteSet(S) /\ f \in [S -> Int] /\ S \subseteq Schedules BY PlansType
<1>3. Plans(next, v) = S
  <2> HIDE DEF next
  <2>1. QED BY <1>1 DEF Plans
<1>4. PlansUnits(sch, v) = SumFunction(f) /\ PlansUnits(next, v) = SumFunction(g)
  BY DEF PlansUnits
<1>5. SumFunction(f) \in Int
  <2>1. S \in SUBSET S /\ DOMAIN f = S /\ \A x \in S : f[x] \in Int BY <1>2
  <2>2. QED BY <1>2, <2>1, SumInt DEF SumFunction
<1>6. CASE v = plan.vault
  <2>1. s \in S BY <1>6 DEF Plans
  <2>2. g = [f EXCEPT ![s] = n]
    <3>1. g = [x \in S |-> next[x].total_equity_units] BY <1>3
    <3> HIDE DEF next, S
    <3>2. QED BY <1>1, <1>2, <2>1, <3>1
  <2>3. f[s] = sch[s].total_equity_units BY <2>1
  <2>4. n \in Int BY DEF ScheduleRecord
  <2> HIDE DEF f, g, S, next, n
  <2>5. SumFunction([f EXCEPT ![s] = n]) = SumFunction(f) - f[s] + n
    BY <1>2, <2>1, <2>4, SumExcept
  <2>6. PlansUnits(next, v) = PlansUnits(sch, v) - sch[s].total_equity_units + n
    BY <1>4, <2>2, <2>3, <2>5
  <2>7. QED BY <1>6, <2>6 DEF next, n
<1>7. CASE v # plan.vault
  <2>1. s \notin S BY <1>7 DEF Plans
  <2>2. g = f
    <3>1. g = [x \in S |-> next[x].total_equity_units] BY <1>3
    <3> HIDE DEF next, S
    <3>2. QED BY <1>1, <1>2, <2>1, <3>1
  <2> HIDE DEF f, g, S, next
  <2>3. PlansUnits(next, v) = PlansUnits(sch, v) BY <1>4, <2>2
  <2>4. QED BY <1>7, <2>3 DEF next
<1>8. QED BY <1>6, <1>7

-----------------------------------------------------------------------------
\* A new schedule has no runs, and counts none.
LEMMA CreateCounts ==
  ASSUME HistoryInv, Counted(schedule, vault, shares, runs), NEW ix, CreateSchedule(ix),
         ix \in Instructions
  PROVE  Counted(schedule', vault', shares', runs')
<1> DEFINE s == ix.schedule
           plan == schedule'[s]
<1>1. LedgerOK /\ LedgerOK' BY TypeOKParts, CreateScheduleTypes DEF HistoryInv
<1>2. s \in Schedules /\ ix.terms \in Terms
  BY DEF CreateSchedule, Runs, Instructions
<1>3. schedule[s] = None /\ vault' = vault /\ shares' = shares /\ runs' = runs
  BY DEF CreateSchedule
<1>4. runs[s] = <<>> BY <1>2, <1>3 DEF HistoryInv, Kept
<1>5. /\ schedule' = [schedule EXCEPT ![s] = plan]
      /\ plan.executions = 0 /\ plan.total_usdc_spent = 0 /\ plan.total_equity_units = 0
      /\ plan.amount_usdc = ix.terms.amount_usdc
      /\ plan # None
  <2> DEFINE new == [owner |-> ix.terms.owner, vault |-> ix.terms.vault,
        account |-> ix.terms.account, amount_usdc |-> ix.terms.amount_usdc,
        cadence_seconds |-> ix.terms.cadence_seconds,
        next_due_ts |-> ix.terms.first_run_ts,
        min_equity_units |-> ix.terms.min_equity_units,
        initial_min_equity_units |-> ix.terms.min_equity_units,
        tolerance |-> ix.terms.tolerance,
        executions |-> 0, total_usdc_spent |-> 0, total_equity_units |-> 0,
        active |-> TRUE]
  <2>1. schedule' = [schedule EXCEPT ![s] = new] BY DEF CreateSchedule
  <2>2. plan = new BY <1>1, <1>2, <2>1 DEF LedgerOK
  <2>3. plan.executions = 0 /\ plan.total_usdc_spent = 0 /\ plan.total_equity_units = 0
        /\ plan.amount_usdc = ix.terms.amount_usdc
    BY <2>2
  <2>4. plan \in ScheduleRecord \cup {None} BY <1>1, <1>2 DEF LedgerOK
  <2>5. plan # None
    <3>1. ix.terms.tolerance \in 0..MAX_FLOOR_TOLERANCE
      <4>1. MAX_FLOOR_TOLERANCE \in Nat BY MathAssumption
      <4>2. QED BY <1>2, <4>1 DEF CreateSchedule, TermsAccepted, Terms
    <3>2. new \in ScheduleRecord BY <1>2, <3>1 DEF Terms, ScheduleRecord
    <3>3. QED BY <2>2, <3>2, ExecutionAssumption
  <2>6. QED BY <2>1, <2>2, <2>3, <2>5
<1>6. plan \in ScheduleRecord BY <1>1, <1>2, <1>5 DEF LedgerOK
<1>7. Tallied(plan, runs[s])
  <2>1. plan.amount_usdc \in Nat BY <1>6 DEF ScheduleRecord
  <2>2. Len(<<>>) = 0 /\ 0 * plan.amount_usdc = 0 BY <2>1
  <2>3. QED BY <1>4, <1>5, <2>2, UnitsNone DEF Tallied
<1>8. schedule \in [Schedules -> ScheduleRecord \cup {None}] BY <1>1 DEF LedgerOK
<1> HIDE DEF plan
<1>9. \A v : PlansUnits(schedule', v) = PlansUnits(schedule, v)
  BY <1>2, <1>3, <1>5, <1>6, <1>8, PlansCreated
<1>10. \A x \in Schedules \ {s} : schedule'[x] = schedule[x]
  BY <1>5, <1>8
<1>11. schedule'[s] = plan BY DEF plan
<1>12. \A x \in Schedules : schedule'[x] # None => Tallied(schedule'[x], runs'[x])
  BY <1>3, <1>7, <1>10, <1>11 DEF Counted
<1>13. QED BY <1>3, <1>9, <1>12 DEF Counted, VaultTallied

\* A cancelled schedule keeps its counters.
LEMMA CancelCounts ==
  ASSUME HistoryInv, Counted(schedule, vault, shares, runs), NEW ix, CancelSchedule(ix),
         ix \in Instructions
  PROVE  Counted(schedule', vault', shares', runs')
<1> DEFINE s == ix.schedule
           plan == [schedule[s] EXCEPT !.active = FALSE]
<1>1. LedgerOK BY TypeOKParts DEF HistoryInv
<1>2. s \in Schedules BY DEF CancelSchedule, Runs, Instructions
<1>3. /\ schedule[s] # None /\ schedule' = [schedule EXCEPT ![s] = plan]
      /\ vault' = vault /\ shares' = shares /\ runs' = runs
  BY DEF CancelSchedule
<1>4. /\ schedule \in [Schedules -> ScheduleRecord \cup {None}]
      /\ schedule[s] \in ScheduleRecord
  BY <1>1, <1>2, <1>3 DEF LedgerOK
<1>5. /\ plan \in ScheduleRecord /\ plan.vault = schedule[s].vault
      /\ plan.executions = schedule[s].executions
      /\ plan.total_usdc_spent = schedule[s].total_usdc_spent
      /\ plan.amount_usdc = schedule[s].amount_usdc
      /\ plan.total_equity_units = schedule[s].total_equity_units
      /\ schedule[s].total_equity_units \in Nat
  BY <1>4 DEF ScheduleRecord
<1> HIDE DEF plan
<1>6. schedule'[s] = plan /\ \A x \in Schedules \ {s} : schedule'[x] = schedule[x]
  BY <1>2, <1>3, <1>4
<1>7. \A v : PlansUnits(schedule', v) = PlansUnits(schedule, v)
  <2> SUFFICES ASSUME NEW v PROVE PlansUnits(schedule', v) = PlansUnits(schedule, v)
    OBVIOUS
  <2> DEFINE next == [schedule EXCEPT ![s] = plan]
             a == schedule[s].total_equity_units
             b == plan.total_equity_units
  <2>1. /\ v = plan.vault => PlansUnits(next, v) = PlansUnits(schedule, v) - a + b
        /\ v # plan.vault => PlansUnits(next, v) = PlansUnits(schedule, v)
    BY <1>2, <1>3, <1>4, <1>5, PlansMoved
  <2>2. PlansUnits(schedule, v) \in Int /\ a \in Int BY <1>4, <1>5, PlansIsInt
  <2>3. schedule' = next /\ b = a BY <1>3, <1>5
  <2> HIDE DEF next, a, b
  <2>4. QED BY <2>1, <2>2, <2>3
<1>8. Tallied(schedule[s], runs[s]) BY <1>2, <1>3 DEF Counted
<1>9. Tallied(plan, runs[s]) BY <1>5, <1>8 DEF Tallied
<1>10. \A x \in Schedules : schedule'[x] # None => Tallied(schedule'[x], runs'[x])
  BY <1>3, <1>6, <1>9 DEF Counted
<1>11. QED BY <1>3, <1>7, <1>10 DEF Counted, VaultTallied

\* A settled buy is one more run, and the same units everywhere.
LEMMA SettleCounts ==
  ASSUME HistoryInv, Counted(schedule, vault, shares, runs), NEW ix, SettleExecution(ix),
         ix \in Instructions
  PROVE  Counted(schedule', vault', shares', runs')
<1> DEFINE s == ix.schedule
           v == ix.vault
           owner == schedule[s].owner
           units == DeliveredUnits(s, ix)
           run == [at |-> now, due |-> schedule[s].next_due_ts, units |-> units,
                   fee |-> ExecutionFee(s, v), paid_to |-> ix.account]
           plan == Advanced(schedule[s], units)
<1>1. LedgerOK /\ now \in Nat BY TypeOKParts DEF HistoryInv
<1>2. s \in Schedules /\ v \in Vaults /\ ix.wrapper \in Wrappers /\ ix.account \in Accounts
  BY DEF SettleExecution, Runs, Instructions
<1>3. /\ schedule[s] # None /\ schedule[s].vault = v
      /\ schedule' = [schedule EXCEPT ![s] = plan]
      /\ runs' = [runs EXCEPT ![s] = Append(runs[s], run)]
      /\ vault' = [vault EXCEPT ![v].total_equity_units = vault[v].total_equity_units + units]
      /\ shares' = [shares EXCEPT ![v][owner] = shares[v][owner] + units]
  BY DEF SettleExecution, Runnable
<1>4. /\ schedule \in [Schedules -> ScheduleRecord \cup {None}]
      /\ schedule[s] \in ScheduleRecord /\ runs[s] \in Seq(RunRecord)
      /\ runs \in [Schedules -> Seq(RunRecord)]
      /\ vault \in [Vaults -> VaultRecord] /\ shares \in [Vaults -> [Users -> Nat]]
      /\ owner \in Users
  BY <1>1, <1>2, <1>3 DEF LedgerOK, ScheduleRecord
<1>5. units \in Nat
  BY <1>2, DeliveredUnitsType DEF SettleExecution, EscrowMatches, HistoryInv
<1>6. ExecutionFee(s, v) \in Nat BY <1>1, <1>2, <1>3, ExecutionFeeType
<1>7. run \in RunRecord BY <1>1, <1>2, <1>4, <1>5, <1>6 DEF RunRecord, ScheduleRecord
<1>8. plan \in ScheduleRecord BY <1>1, <1>4, <1>5, AdvancedType
<1>9. /\ plan.vault = schedule[s].vault
      /\ plan.amount_usdc = schedule[s].amount_usdc
      /\ plan.executions = schedule[s].executions + 1
      /\ plan.total_usdc_spent = schedule[s].total_usdc_spent + schedule[s].amount_usdc
      /\ plan.total_equity_units = schedule[s].total_equity_units + units
      /\ schedule[s].amount_usdc \in Nat
  BY <1>4 DEF Advanced, ScheduleRecord
<1>10. run.units = units OBVIOUS
<1> HIDE DEF units, run, plan, owner
<1>11. /\ schedule'[s] = plan /\ runs'[s] = Append(runs[s], run)
       /\ \A x \in Schedules \ {s} : schedule'[x] = schedule[x] /\ runs'[x] = runs[x]
  BY <1>2, <1>3, <1>4
<1>12. Tallied(plan, Append(runs[s], run))
  <2>1. Tallied(schedule[s], runs[s]) BY <1>2, <1>3 DEF Counted
  <2>2. Len(Append(runs[s], run)) = Len(runs[s]) + 1 /\ Len(runs[s]) \in Nat
    BY <1>4, <1>7
  <2>3. UnitsBought(Append(runs[s], run)) = UnitsBought(runs[s]) + units
    BY <1>4, <1>7, <1>10, UnitsAppend
  <2> DEFINE n == Len(runs[s])
             a == schedule[s].amount_usdc
  <2>4. (n + 1) * a = n * a + a BY <1>9, <2>2
  <2>5. QED BY <1>9, <2>1, <2>2, <2>3, <2>4 DEF Tallied
<1>13. ASSUME NEW x \in Vaults
       PROVE  VaultTallied(schedule', vault'[x].total_equity_units, shares'[x], x)
  <2>1. VaultTallied(schedule, vault[x].total_equity_units, shares[x], x)
    BY DEF Counted
  <2>2. /\ x = plan.vault => PlansUnits(schedule', x) = PlansUnits(schedule, x) + units
        /\ x # plan.vault => PlansUnits(schedule', x) = PlansUnits(schedule, x)
    <3> DEFINE next == [schedule EXCEPT ![s] = plan]
               a == schedule[s].total_equity_units
               b == plan.total_equity_units
    <3>1. /\ x = plan.vault => PlansUnits(next, x) = PlansUnits(schedule, x) - a + b
          /\ x # plan.vault => PlansUnits(next, x) = PlansUnits(schedule, x)
      BY <1>2, <1>3, <1>4, <1>8, <1>9, PlansMoved
    <3>2. schedule' = next /\ b = a + units BY <1>3, <1>9
    <3>3. PlansUnits(schedule, x) \in Int BY <1>4, PlansIsInt
    <3>4. a \in Int BY <1>4 DEF ScheduleRecord
    <3> HIDE DEF next, a, b
    <3>5. QED BY <1>5, <3>1, <3>2, <3>3, <3>4
  <2>3. PlansUnits(schedule, x) \in Int BY <1>4, PlansIsInt
  <2>4. CASE x = v
    <3>1. vault'[x].total_equity_units = vault[x].total_equity_units + units
      BY <1>2, <1>3, <1>4, <2>4 DEF VaultRecord
    <3>2. shares'[x] = [shares[x] EXCEPT ![owner] = shares[x][owner] + units]
      BY <1>2, <1>3, <1>4, <2>4
    <3>3. shares[x] \in [Users -> Int] /\ shares[x][owner] \in Int
          /\ shares[x][owner] + units \in Int
      BY <1>4, <1>5
    <3>4. SumFunction([shares[x] EXCEPT ![owner] = shares[x][owner] + units])
            = SumFunction(shares[x]) - shares[x][owner] + (shares[x][owner] + units)
      <4>1. IsFiniteSet(Users) BY ExecutionAssumption
      <4>2. QED BY <1>4, <3>3, <4>1, SumExcept
    <3>5. SumFunction(shares[x]) = PlansUnits(schedule, x) BY <2>1 DEF VaultTallied
    <3>6. SumFunction(shares'[x]) = PlansUnits(schedule, x) + units
      BY <1>5, <2>3, <3>2, <3>3, <3>4, <3>5
    <3>7. PlansUnits(schedule', x) = PlansUnits(schedule, x) + units
      BY <1>3, <1>9, <2>2, <2>4
    <3>8. QED BY <2>1, <3>1, <3>6, <3>7 DEF VaultTallied
  <2>5. CASE x # v
    <3>1. vault'[x] = vault[x] /\ shares'[x] = shares[x]
      BY <1>2, <1>3, <1>4, <2>5
    <3>2. PlansUnits(schedule', x) = PlansUnits(schedule, x)
      BY <1>3, <1>9, <2>2, <2>5
    <3>3. QED BY <2>1, <2>3, <3>1, <3>2 DEF VaultTallied
  <2>6. QED BY <2>4, <2>5
<1>14. \A x \in Schedules : schedule'[x] # None => Tallied(schedule'[x], runs'[x])
  BY <1>11, <1>12 DEF Counted
<1>15. QED BY <1>13, <1>14 DEF Counted

\* An instruction keeps the counters.
LEMMA InstructionCounts ==
  ASSUME HistoryInv, Counted(schedule, vault, shares, runs), NEW ix, Instruction(ix)
  PROVE  Counted(schedule', vault', shares', runs')
<1>1. ix \in Instructions BY InstructionRuns, RunsTx DEF HistoryInv
<1>2. CASE UNCHANGED <<schedule, vault, shares, runs>> BY <1>2
<1>3. CASE SetKeeperFee(ix)
  <2>1. ix.vault \in Vaults /\ vault \in [Vaults -> VaultRecord]
    BY <1>1, <1>3, TypeOKParts DEF SetKeeperFee, Runs, Instructions, HistoryInv, LedgerOK
  <2>2. \A v \in Vaults : vault'[v].total_equity_units = vault[v].total_equity_units
    BY <1>3, <2>1 DEF SetKeeperFee, VaultRecord
  <2>3. UNCHANGED <<schedule, shares, runs>> BY <1>3 DEF SetKeeperFee
  <2>4. QED BY <2>2, <2>3 DEF Counted
<1>4. QED
  BY <1>1, <1>2, <1>3, CreateCounts, CancelCounts, SettleCounts
  DEF Instruction, BeginExecution, Deliver, Approve, Revoke, SetAuthority

LEMMA InitCountersInv == Init => CountersInv
<1> SUFFICES ASSUME Init PROVE CountersInv OBVIOUS
<1>1. HistoryInv /\ tx = None BY InitHistoryInv DEF Init
<1>2. \A s \in Schedules : schedule[s] = None BY DEF Init
<1>3. ASSUME NEW v \in Vaults
      PROVE  VaultTallied(schedule, vault[v].total_equity_units, shares[v], v)
  <2>1. vault[v].total_equity_units = 0 BY DEF Init
  <2>2. DOMAIN shares[v] = Users /\ \A u \in Users : shares[v][u] = 0 BY DEF Init
  <2>3. SumFunction(shares[v]) = 0
    BY <2>2, SumZero, ExecutionAssumption DEF SumFunction
  <2>4. Plans(schedule, v) = {} BY <1>2 DEF Plans
  <2>5. DOMAIN [s \in Plans(schedule, v) |-> schedule[s].total_equity_units] = {} BY <2>4
  <2>6. PlansUnits(schedule, v) = 0 BY <2>5, SumEmpty DEF PlansUnits, SumFunction
  <2>7. QED BY <2>1, <2>3, <2>6 DEF VaultTallied
<1>4. QED BY <1>1, <1>2, <1>3 DEF CountersInv, Counted

LEMMA CountersStep == CountersInv /\ [Next]_vars => CountersInv'
<1> SUFFICES ASSUME CountersInv, [Next]_vars PROVE CountersInv' OBVIOUS
<1>1. HistoryInv /\ HistoryInv' BY HistoryInvStep DEF CountersInv
<1>2. CASE Tick \/ Commit \/ UNCHANGED vars
  BY <1>1, <1>2 DEF Tick, Commit, vars, ledger, CountersInv, Counted
<1>3. ASSUME NEW ixs \in Transactions, Submit(ixs) PROVE CountersInv'
  <2>1. /\ UNCHANGED ledger /\ tx'.before.schedule = schedule /\ tx'.before.vault = vault
        /\ tx'.before.shares = shares /\ tx'.before.runs = runs
    BY <1>3 DEF Submit, Ledger
  <2>2. QED BY <1>1, <2>1 DEF CountersInv, ledger, Counted
<1>4. ASSUME tx # None, NEW ix, Instruction(ix) PROVE CountersInv'
  <2>1. tx'.before = tx.before BY <1>1, <1>4, InstructionRuns, RunsTx DEF HistoryInv
  <2>2. Counted(schedule', vault', shares', runs')
    BY <1>1, <1>4, InstructionCounts DEF CountersInv
  <2>3. QED BY <1>1, <1>4, <2>1, <2>2 DEF CountersInv
<1>5. CASE Abort BY <1>1, <1>5 DEF Abort, CountersInv
<1>6. QED BY <1>2, <1>3, <1>4, <1>5 DEF Next

\* However buys, cancels, fee changes and aborts interleave, a schedule's
\* counters are what its runs add up to, and a vault's are what its schedules
\* bought and what its savers hold.
THEOREM CountersRight == Spec => []CountersAgree
<1>1. Spec => []CountersInv BY InitCountersInv, CountersStep, PTL DEF Spec
<1>2. CountersInv => CountersAgree
  BY DEF CountersInv, Counted, Tallied, VaultTallied, UnitsBought, PlansUnits, Plans,
         CountersAgree, PlansOf
<1>3. QED BY <1>1, <1>2, PTL
=============================================================================
