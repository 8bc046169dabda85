------------------------------- MODULE Keeper -------------------------------
(***************************************************************************)
(* Keepers (keeper/index.ts, with withRetry of scripts/devnet-lib.ts) that *)
(* run the due plans of a chain nobody of them owns.                       *)
(*                                                                         *)
(* A keeper reads the due plans and a price, then takes the plans one by   *)
(* one: check, send a transaction, wait for its confirmation.  Every read  *)
(* is old when it is used.  A send may be lost, its answer may be lost     *)
(* although the transaction arrived, a transaction may land after its      *)
(* keeper gave up on it, and a keeper may crash anywhere and be restarted. *)
(* A buy on chain is one atomic step here; the module Execution opens it.  *)
(***************************************************************************)
EXTENDS Integers, Sequences, FiniteSets, SequencesExt

CONSTANTS
  Keepers,
  Plans,
  None,
  Listed,        \* plans on a vault that the keepers' address book lists
  Closed,        \* plans whose owner closed the payment account
  OneShot,       \* keepers started with --once, by a cron job
  Flat,          \* the price source is a flat price, not Pyth
  Cadence,       \* plan -> seconds between buys
  InitialPlan,   \* plan -> its record
  Shares,        \* equity units the swap amount buys at the quoted price
  Rates,         \* equity units one raw wrapper token may stand for
  InitialRate,
  InitialStock,  \* raw wrapper tokens in each keeper's inventory
  ATTEMPTS,      \* withRetry's attempts
  MAX_PRICE_AGE,
  BLOCKHASH_LIFE,
  MaxTime,       \* last value of the clock, which stands for all later times
  MAX_MISHAPS    \* bound of everything that goes wrong or interferes

VARIABLES
  now,
  plan, bought,  \* as in SavingsPlan
  credit,        \* Schedule.total_equity_units
  floor,         \* Schedule.min_equity_units
  stock,
  rate,          \* the wrapper mint's live multiplier
  file,          \* the multiplier in the address book file
  closed_at,     \* when the market closed, None while it is open
  flight,        \* transactions that may still land
  keeper,        \* each keeper process
  landed,        \* history: buys that each keeper's transactions made
  reported,      \* history: executions that each keeper reported
  mishaps

chain == <<plan, bought, credit, floor, stock, landed>>
world == <<rate, file, closed_at>>
vars == <<now, chain, world, flight, keeper, reported, mishaps>>

\* Signed transactions: one attempt each at running one plan.
Copies == [keeper : Keepers, plan : Plans, raw : Nat, min : Nat, attempt : Nat,
           expires : Nat]

ASSUME KeeperAssumption ==
  /\ IsFiniteSet(Plans)
  /\ Cadence \in [Plans -> Nat \ {0}]
  /\ InitialPlan \in [Plans -> [status : {"active", "cancelled"}, due : Nat, funds : Nat]]
  /\ Shares \in Nat \ {0} /\ Rates \subseteq Nat \ {0} /\ InitialRate \in Rates
  /\ InitialStock \in Nat /\ MaxTime \in Nat /\ ATTEMPTS \in Nat \ {0}
  /\ BLOCKHASH_LIFE \in Nat \ {0} /\ MAX_PRICE_AGE \in Nat
  /\ MAX_MISHAPS \in Nat
  /\ None \notin Nat /\ None \notin Copies

-----------------------------------------------------------------------------
(* The program and the network. *)

\* next_due_after, as in ParitasMath.
NextDue(p) ==
  IF plan[p].due + Cadence[p] > now THEN plan[p].due + Cadence[p] ELSE now + Cadence[p]

\* ratcheted_floor at the app's tolerance of a fifth.
FloorOf(units) == (units * 8) \div 10

Units(c) == c.raw * rate

\* What the delivery and settle_execution ask for.
Deliverable(c) ==
  /\ c.plan \notin Closed
  /\ stock[c.keeper] >= c.raw
  /\ Units(c) >= floor[c.plan] /\ Units(c) >= c.min

\* Mutants: begin_execution does not look at the due date, or at the allowance.
ExecutableEarly(c) ==
  plan[c.plan].status = "active" /\ plan[c.plan].funds > 0 /\ Deliverable(c)

ExecutableUnfunded(c) ==
  plan[c.plan].status = "active" /\ plan[c.plan].due <= now /\ Deliverable(c)

\* And begin_execution.
Executable(c) ==
  /\ plan[c.plan].status = "active" /\ plan[c.plan].due <= now
  /\ plan[c.plan].funds > 0
  /\ Deliverable(c)

Buy(c) ==
  LET p == c.plan IN
    /\ bought' = [bought EXCEPT ![p] = Append(@, [due |-> plan[p].due, at |-> now])]
    /\ plan' = [plan EXCEPT ![p].due = NextDue(p), ![p].funds = @ - 1]
    /\ credit' = [credit EXCEPT ![p] = @ + Units(c)]
    /\ floor' = [floor EXCEPT ![p] = FloorOf(Units(c))]
    /\ stock' = [stock EXCEPT ![c.keeper] = @ - c.raw]
    /\ landed' = [landed EXCEPT ![c.keeper] = @ + 1]

Verdict(c, verdict) ==
  keeper' = [keeper EXCEPT ![c.keeper].verdict =
               IF keeper[c.keeper].copy = c THEN verdict ELSE @]

Land(c) ==
  /\ IF Executable(c)
       THEN Buy(c) /\ Verdict(c, "ok")
       ELSE UNCHANGED chain /\ Verdict(c, "err")
  /\ flight' = flight \ {c}
  /\ UNCHANGED <<now, world, reported, mishaps>>

-----------------------------------------------------------------------------
(* A keeper process. *)

\* A process that has just started: book is what it read of the file.
Process(pc, book) ==
  [pc |-> pc, book |-> book, due |-> <<>>, quoted |-> 0, attempt |-> 0,
   copy |-> None, verdict |-> "none", stopping |-> FALSE]

At(k, pc) == keeper[k].pc = pc
Entry(k) == Head(keeper[k].due)

Start(k) ==
  /\ At(k, "down")
  /\ keeper' = [keeper EXCEPT ![k] = Process("asleep", file)]
  /\ UNCHANGED <<now, chain, world, flight, reported, mishaps>>

\* The end of a pass: exit after --once or a signal, else sleep.
PassOver(k) ==
  IF keeper[k].stopping \/ k \in OneShot
    THEN Process("down", 0)
    ELSE Process("asleep", keeper[k].book)

\* Oldest due first, ties in the order the RPC returned them.
DuePlans == {p \in Plans \cap Listed : plan[p].status = "active" /\ plan[p].due <= now}

OldestFirst(s) == \A i, j \in DOMAIN s : i < j => plan[s[i]].due <= plan[s[j]].due

Fetch(k) ==
  /\ At(k, "asleep") /\ ~keeper[k].stopping
  /\ \E s \in {s \in SetToSeqs(DuePlans) : OldestFirst(s)} :
       keeper' = [keeper EXCEPT ![k] =
         IF s = <<>> THEN PassOver(k)
         ELSE [@ EXCEPT !.pc = "prices",
                        !.due = [i \in DOMAIN s |-> [plan |-> s[i], floor |-> floor[s[i]]]]]]
  /\ UNCHANGED <<now, chain, world, flight, reported, mishaps>>

\* One price per pass, as old as the last one published.
Published == IF Flat \/ closed_at = None THEN now ELSE closed_at

ReadPrices(k) ==
  /\ At(k, "prices")
  /\ keeper' = [keeper EXCEPT ![k].pc = "next", ![k].quoted = Published]
  /\ UNCHANGED <<now, chain, world, flight, reported, mishaps>>

\* Mutant: a failure ends the pass.
PassAborted(k) == PassOver(k)

\* The plan at hand is over, executed, skipped or failed: on to the next.
Finished(k) ==
  [keeper[k] EXCEPT !.pc = "next", !.due = Tail(@), !.attempt = 0,
                    !.copy = None, !.verdict = "none"]

\* An error inside execute(): logged, and one plan's problem is its own.
Failed(k) == Finished(k)

\* quoteDelivery, at the multiplier of the book.
Delivery(k) == Shares \div keeper[k].book
Expected(k) == Delivery(k) * keeper[k].book

PriceTooOld(k) == now - keeper[k].quoted > MAX_PRICE_AGE

\* Mutant: the settle's minimum is the floor and not the quote.
MinimumAtFloor(k) == Entry(k).floor

\* The expected units go into the settle instruction as the caller's minimum.
Minimum(k) == Expected(k)

\* preflight: the floor as fetched, the inventory and the owner's account as
\* they are now.
Blocked(k) ==
  \/ PriceTooOld(k)
  \/ Delivery(k) = 0
  \/ Expected(k) < Entry(k).floor
  \/ stock[k] < Delivery(k)
  \/ plan[Entry(k).plan].funds = 0

Check(k) ==
  /\ At(k, "next") /\ keeper[k].due # <<>> /\ ~keeper[k].stopping
  /\ keeper' = [keeper EXCEPT ![k] =
       IF Blocked(k) THEN Finished(k)
       ELSE IF Entry(k).plan \in Closed THEN Failed(k)
       ELSE [@ EXCEPT !.pc = "send", !.attempt = 1]]
  /\ UNCHANGED <<now, chain, world, flight, reported, mishaps>>

EndPass(k) ==
  /\ At(k, "next") /\ (keeper[k].due = <<>> \/ keeper[k].stopping)
  /\ keeper' = [keeper EXCEPT ![k] = PassOver(k)]
  /\ UNCHANGED <<now, chain, world, flight, reported, mishaps>>

Exit(k) ==
  /\ At(k, "asleep") /\ keeper[k].stopping
  /\ keeper' = [keeper EXCEPT ![k] = Process("down", 0)]
  /\ UNCHANGED <<now, chain, world, flight, reported, mishaps>>

\* Each attempt signs afresh: a copy with a blockhash of its own.
Copy(k) ==
  [keeper |-> k, plan |-> Entry(k).plan, raw |-> Delivery(k), min |-> Minimum(k),
   attempt |-> keeper[k].attempt, expires |-> now + BLOCKHASH_LIFE]

\* sendRawTransaction simulates first; a rejection is an error that withRetry
\* does not retry.
Send(k) ==
  /\ At(k, "send")
  /\ IF Executable(Copy(k))
       THEN /\ flight' = flight \cup {Copy(k)}
            /\ keeper' = [keeper EXCEPT ![k].pc = "confirm", ![k].copy = Copy(k)]
       ELSE keeper' = [keeper EXCEPT ![k] = Failed(k)] /\ UNCHANGED flight
  /\ UNCHANGED <<now, chain, world, reported, mishaps>>

\* The deadline passes, or the blockhash's height, whether or not a poll could
\* have seen the copy land.  "was not confirmed" is not retried for an execution.
GiveUp(k) ==
  /\ At(k, "confirm")
  /\ keeper' = [keeper EXCEPT ![k] = Failed(k)]
  /\ UNCHANGED <<now, chain, world, flight, reported, mishaps>>

\* Mutant: a transaction that is not refused is taken as confirmed.
ConfirmedUnlessError(k) == keeper[k].verdict # "err"

Confirmed(k) == keeper[k].verdict = "ok"

Confirm(k) ==
  /\ At(k, "confirm")
  /\ \/ Confirmed(k) /\ keeper' = [keeper EXCEPT ![k].pc = "reread"]
     \/ keeper[k].verdict = "err" /\ keeper' = [keeper EXCEPT ![k] = Failed(k)]
  /\ UNCHANGED <<now, chain, world, flight, reported, mishaps>>

Reread(k) ==
  /\ At(k, "reread")
  /\ keeper' = [keeper EXCEPT ![k] = Finished(k)]
  /\ reported' = [reported EXCEPT ![k] = @ + 1]
  /\ UNCHANGED <<now, chain, world, flight, mishaps>>

Step(k) ==
  \/ Start(k) \/ Fetch(k) \/ ReadPrices(k) \/ Check(k) \/ EndPass(k) \/ Exit(k)
  \/ Send(k) \/ Confirm(k) \/ GiveUp(k) \/ Reread(k)

-----------------------------------------------------------------------------
(* What goes wrong. *)

Mishap == mishaps < MAX_MISHAPS /\ mishaps' = mishaps + 1

\* A transport error, taken as "provably did not execute": the next attempt,
\* or the error once the attempts are used up.
Retried(k) ==
  IF keeper[k].attempt < ATTEMPTS THEN [keeper[k] EXCEPT !.attempt = @ + 1] ELSE Failed(k)

SendErrs(k) ==
  /\ At(k, "send") /\ Mishap
  /\ \/ UNCHANGED flight                            \* the request was lost
     \/ /\ Executable(Copy(k))                      \* only its answer was
        /\ flight' = flight \cup {Copy(k)}
  /\ keeper' = [keeper EXCEPT ![k] = Retried(k)]
  /\ UNCHANGED <<now, chain, world, reported>>

\* A read that fails withRetry's attempts.  Before the loop it costs the pass,
\* inside execute() the plan, even one whose buy has landed.
ReadErrs(k) ==
  /\ Mishap
  /\ \/ keeper[k].pc \in {"asleep", "prices"} /\ keeper' = [keeper EXCEPT ![k] = PassOver(k)]
     \/ /\ At(k, "reread") \/ (At(k, "next") /\ keeper[k].due # <<>> /\ ~keeper[k].stopping)
        /\ keeper' = [keeper EXCEPT ![k] = Failed(k)]
  /\ UNCHANGED <<now, chain, world, flight, reported>>

Crash(k) ==
  /\ ~At(k, "down") /\ Mishap
  /\ keeper' = [keeper EXCEPT ![k] = Process("down", 0)]
  /\ UNCHANGED <<now, chain, world, flight, reported>>

Signal(k) ==
  /\ ~At(k, "down") /\ ~keeper[k].stopping /\ Mishap
  /\ keeper' = [keeper EXCEPT ![k].stopping = TRUE]
  /\ UNCHANGED <<now, chain, world, flight, reported>>

\* A transaction that no leader takes before its blockhash expires.
Drop(c) ==
  /\ Mishap /\ flight' = flight \ {c}
  /\ UNCHANGED <<now, chain, world, keeper, reported>>

\* The owner cancels, spends or revokes, or approves again.
OwnerActs(p) ==
  /\ Mishap
  /\ \/ plan' = [plan EXCEPT ![p].status = "cancelled"]
     \/ plan[p].funds > 0 /\ plan' = [plan EXCEPT ![p].funds = 0]
     \/ plan[p].funds = 0 /\ plan' = [plan EXCEPT ![p].funds = InitialPlan[p].funds]
  /\ UNCHANGED <<now, bought, credit, floor, stock, landed, world, flight, keeper, reported>>

CloseMarket ==
  /\ closed_at = None /\ Mishap /\ closed_at' = now
  /\ UNCHANGED <<now, chain, rate, file, flight, keeper, reported>>

\* The issuer moves the multiplier; the book in use is behind until the set-up
\* script has rewritten the file and the keeper has restarted.
MoveMultiplier ==
  /\ Mishap /\ rate' \in Rates \ {rate}
  /\ UNCHANGED <<now, chain, file, closed_at, flight, keeper, reported>>

Goes(k) == SendErrs(k) \/ ReadErrs(k) \/ Crash(k) \/ Signal(k)

-----------------------------------------------------------------------------
(* The world. *)

RewriteBook ==
  /\ file # rate /\ file' = rate
  /\ UNCHANGED <<now, chain, rate, closed_at, flight, keeper, reported, mishaps>>

OpenMarket ==
  /\ closed_at # None /\ closed_at' = None
  /\ UNCHANGED <<now, chain, rate, file, flight, keeper, reported, mishaps>>

\* A transaction that is not dropped lands before its blockhash expires.
Tick ==
  /\ now < MaxTime /\ \A c \in flight : now < c.expires
  /\ now' = now + 1
  /\ UNCHANGED <<chain, world, flight, keeper, reported, mishaps>>

Init ==
  /\ now = 0
  /\ plan = InitialPlan
  /\ bought = [p \in Plans |-> <<>>]
  /\ credit = [p \in Plans |-> 0]
  /\ floor = [p \in Plans |-> 0]
  /\ stock = [k \in Keepers |-> InitialStock]
  /\ rate = InitialRate /\ file = InitialRate
  /\ closed_at = None
  /\ flight = {}
  /\ keeper = [k \in Keepers |-> Process("down", 0)]
  /\ landed = [k \in Keepers |-> 0]
  /\ reported = [k \in Keepers |-> 0]
  /\ mishaps = 0

Next ==
  \/ \E k \in Keepers : Step(k) \/ Goes(k)
  \/ \E c \in flight : Land(c) \/ Drop(c)
  \/ \E p \in Plans : OwnerActs(p)
  \/ CloseMarket \/ OpenMarket \/ MoveMultiplier \/ RewriteBook \/ Tick

Spec == Init /\ [][Next]_vars

\* systemd or cron restarts a keeper, and its process keeps taking steps; the
\* network delivers what it does not drop; markets reopen; time goes on.
Fairness ==
  /\ \A k \in Keepers : WF_vars(Step(k))
  /\ WF_vars(\E c \in flight : Land(c))
  /\ WF_vars(OpenMarket)
  /\ WF_vars(Tick)

FairSpec == Spec /\ Fairness

-----------------------------------------------------------------------------
(* Properties *)

Entries == [plan : Plans, floor : Nat]

Processes ==
  [pc : {"down", "asleep", "prices", "next", "send", "confirm", "reread"},
   book : Rates \cup {0}, due : Seq(Entries), quoted : Nat, attempt : Nat,
   copy : Copies \cup {None}, verdict : {"none", "ok", "err"},
   stopping : BOOLEAN]

\* Every variable keeps its type; in particular no inventory and no allowance is
\* drawn below zero by transactions that were checked against older balances.
TypeOK ==
  /\ now \in Nat
  /\ plan \in [Plans -> [status : {"active", "cancelled"}, due : Nat, funds : Nat]]
  /\ bought \in [Plans -> Seq([due : Nat, at : Nat])]
  /\ credit \in [Plans -> Nat] /\ floor \in [Plans -> Nat]
  /\ stock \in [Keepers -> Nat]
  /\ rate \in Rates /\ file \in Rates
  /\ closed_at \in Nat \cup {None}
  /\ flight \in SUBSET Copies
  /\ keeper \in [Keepers -> Processes]
  /\ landed \in [Keepers -> Nat] /\ reported \in [Keepers -> Nat]
  /\ mishaps \in Nat

\* What keepers do, resend and lose track of is for the owner a plan that keeps
\* its promise: one buy per due date, none early, none after a cancel.
Promise == INSTANCE SavingsPlan WITH clock <- now
PlansKeepTheirPromise == Promise!Spec

\* An execution that a keeper reports is on chain and its own, reported once,
\* whatever was resent, timed out, crashed or answered late.
ReportsAreReal ==
  \A k \in Keepers :
    reported[k] + (IF At(k, "reread") THEN 1 ELSE 0) <= landed[k]

Quotes == {(Shares \div book) * book : book \in Rates}

\* A buy credits at least the units that its quote promised: an address book
\* that is behind the mint costs the keeper, or the buy, never the saver.
SaverGetsTheQuote ==
  [][\A p \in Plans :
       Len(bought'[p]) > Len(bought[p]) =>
         \E quote \in Quotes : credit'[p] - credit[p] >= quote]_vars

\* A keeper that could run plan p, now and on every later attempt: its book is
\* true, also after a restart, it has the inventory, and the quote clears the floor.
Able(k, p) ==
  /\ file = rate /\ (At(k, "down") \/ keeper[k].book = rate)
  /\ Shares \div rate > 0 /\ stock[k] >= Shares \div rate
  /\ (Shares \div rate) * rate >= floor[p]

Runnable(p) ==
  /\ p \in Listed \ Closed
  /\ plan[p].status = "active" /\ plan[p].funds > 0 /\ plan[p].due <= now
  /\ \E k \in Keepers : Able(k, p)

\* Late rather than lost: a due plan that some keeper could run is bought, or
\* ceases to be runnable, although transactions are lost, keepers crash and
\* other plans of the backlog fail on every pass.
DuePlansAreRun ==
  \A p \in Plans : \A n \in 0..MaxTime :
    (Runnable(p) /\ Len(bought[p]) = n) ~> (Len(bought[p]) > n \/ ~Runnable(p))
=============================================================================
