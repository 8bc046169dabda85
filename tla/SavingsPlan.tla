---------------------------- MODULE SavingsPlan ----------------------------
(***************************************************************************)
(* What a savings plan promises its owner, whoever runs it and however:    *)
(* while it is active and funded it buys once for each due date, not       *)
(* before the date, and a late buy leaves one buy owed, not a backlog.  A   *)
(* cancelled plan never comes back.  Keepers and apps implement it.        *)
(***************************************************************************)
EXTENDS Integers, Sequences

CONSTANTS Plans, Cadence

VARIABLES
  clock,
  plan,    \* each plan's status, next due date and the buys its funds allow
  bought   \* each plan's buys: the date they were due and the time they ran

vars == <<clock, plan, bought>>

Records == [status : {"none", "active", "cancelled"}, due : Int, funds : Nat]

Init ==
  /\ clock \in Nat
  /\ plan \in [Plans -> Records]
  /\ bought = [p \in Plans |-> <<>>]

Pass ==
  /\ clock' \in Nat /\ clock' > clock
  /\ UNCHANGED <<plan, bought>>

\* next_due_after: a cadence on, and never in the past.
Buy(p) ==
  /\ plan[p].status = "active" /\ plan[p].funds > 0
  /\ plan[p].due <= clock
  /\ bought' = [bought EXCEPT ![p] = Append(@, [due |-> plan[p].due, at |-> clock])]
  /\ plan' = [plan EXCEPT ![p].due = plan'[p].due, ![p].funds = plan'[p].funds]
  /\ plan'[p].due >= plan[p].due + Cadence[p]
  /\ plan'[p].due \in (clock + 1)..(clock + Cadence[p])
  /\ plan'[p].funds < plan[p].funds
  /\ UNCHANGED clock

\* The owner creates, cancels, funds and spends, several of them at once.
OwnerActs ==
  /\ plan' \in [Plans -> Records]
  /\ \A p \in Plans :
       \/ plan[p].status = "none"
       \/ /\ plan'[p].due = plan[p].due
          /\ plan'[p].status \in {plan[p].status, "cancelled"}
  /\ UNCHANGED <<clock, bought>>

Next == Pass \/ OwnerActs \/ \E p \in Plans : Buy(p)

Spec == Init /\ [][Next]_vars
=============================================================================
