----------------------------- MODULE DevnetSetup -----------------------------
(***************************************************************************)
(* scripts/setup-devnet.ts: the operator's script that builds the devnet   *)
(* deployment, mock mints, vaults, wrappers, token accounts and balances,  *)
(* and writes the address book every client reads.                         *)
(*                                                                         *)
(* A run is one pass over Steps.  Each step reads the chain, sends what is *)
(* missing and waits for it; whatever goes wrong ends the run, and the     *)
(* operator reruns the script, which has to reconcile what it finds.  A    *)
(* transaction whose outcome a run did not learn can still land during a   *)
(* later one.                                                              *)
(***************************************************************************)
EXTENDS Integers, FiniteSets, SequencesExt

CONSTANTS
  Vaults,            \* VAULT_SPECS: a sequence of [symbol, labels]
  Pending,           \* labels whose CONTEXT.md multiplier change is yet to take effect
  Target,            \* whole units a balance is topped up to
  Refill,            \* lamports of the liquidity key below which it is funded again
  MAX_KEYS,          \* bound of the keypairs made for a label
  MAX_MISHAPS        \* bound of failures and of units spent

Labels == UNION {ToSet(Vaults[v].labels) : v \in DOMAIN Vaults}
Mints == Labels \X (1..MAX_KEYS)
Accounts == (Mints \X {"wallet", "keeper"}) \cup {<<<<"SOL", 1>>, "liquidity">>}
Slots == 1..(MAX_MISHAPS + 1)

\* VAULT_SPECS is a list that is not empty, of vaults with at least one wrapper each, and
\* the steps' other objects are no labels.
ASSUME DevnetSetupAssumption ==
  /\ Vaults \in Seq(ToSet(Vaults)) /\ Len(Vaults) > 0
  /\ \A v \in DOMAIN Vaults :
       /\ DOMAIN Vaults[v] = {"symbol", "labels"}
       /\ Vaults[v].labels \in Seq(ToSet(Vaults[v].labels)) /\ Len(Vaults[v].labels) > 0
  /\ Labels \cap {"USDC", "SOL", "book"} = {}
  /\ Pending \subseteq Labels
  /\ Target \in Nat \ {0} /\ Refill \in 1..Target
  /\ MAX_KEYS \in Nat \ {0} /\ MAX_MISHAPS \in Nat

VARIABLES
  passed,      \* whether the pending multipliers are live
  keyFile,     \* labels whose keypair is in .devnet-keys
  generated,   \* keypairs made so far for a label, which numbers its mints
  multiplier,  \* what a mock mint is valued at, "none" before it exists
  chain,       \* the other accounts that exist
  held,        \* token balances, and the liquidity key's lamports
  flight,      \* transactions that may still land, by slot
  run,
  told,        \* labels whose keypair the script asked the operator to delete
  book,        \* the address book
  doubts,      \* history: top ups whose outcome the script did not learn, by account
  mishaps

vars == <<passed, keyFile, generated, multiplier, chain, held, flight, run, told, book,
          doubts, mishaps>>

-----------------------------------------------------------------------------
(* The script as a sequence of steps. *)

MintSteps(l) == <<[op |-> "mint", of |-> l], [op |-> "verify", of |-> l]>>

\* The keeper delivers a vault's first wrapper, so that is what it is stocked with.
WrapperSteps(labels, i) ==
  LET Own == <<[op |-> "wrapper", of |-> labels[i]], [op |-> "accounts", of |-> labels[i]],
               [op |-> "wallet", of |-> labels[i]]>>
      Keeper == <<[op |-> "keeper accounts", of |-> labels[i]],
                  [op |-> "keeper", of |-> labels[i]]>>
  IN IF i = 1 THEN Own \o Keeper ELSE Own

VaultSteps(v) ==
  <<[op |-> "feed", of |-> v.symbol]>>
    \o FlattenSeq([i \in DOMAIN v.labels |-> MintSteps(v.labels[i])])
    \o <<[op |-> "vault", of |-> v.symbol]>>
    \o FlattenSeq([i \in DOMAIN v.labels |-> WrapperSteps(v.labels, i)])

Steps ==
  <<[op |-> "feed", of |-> "USDC"]>>
    \o FlattenSeq([v \in DOMAIN Vaults |-> VaultSteps(Vaults[v])])
    \o <<[op |-> "owner", of |-> "USDC"], [op |-> "liquidity accounts", of |-> "USDC"],
         [op |-> "liquidity", of |-> "SOL"], [op |-> "save", of |-> "book"]>>

Off == [pc |-> 0, phase |-> "read", slot |-> 0, verdict |-> "none", short |-> 0,
        passed |-> FALSE]

Step == Steps[run.pc]

\* The mint that the label's keypair stands for.
MintOf(l) == <<l, generated[l]>>

\* The multiplier in effect, by CONTEXT.md (liveMultiplierOf, and
\* currentMultiplierFixed of a mock, both of whose fields are equal).
Live(l, late) == IF l \in Pending /\ late THEN "new" ELSE "old"

\* The account a step creates, and the one it tops up.
Object(s) == IF s.op = "vault" THEN <<s.op, s.of, 0>>
             ELSE IF s.of \in Labels THEN <<s.op, s.of, generated[s.of]>> ELSE <<s.op, s.of, 1>>
Account(s) == IF s.op = "liquidity" THEN <<<<"SOL", 1>>, s.op>> ELSE <<MintOf(s.of), s.op>>

TopsUp(s) == s.op \in {"wallet", "keeper", "liquidity"}
Reads(s) == s.op \in {"feed", "verify"}

\* The sends marked idempotent, and those (.rpc()) that are never retried.
Idempotent(s) == s.op \in {"keeper accounts", "owner", "liquidity accounts"}
Unretried(s) == s.op \in {"vault", "wrapper"}

\* Mutant: a top up that mints the whole target.
ShortfallWhole(s) ==
  IF held[Account(s)] >= (IF s.op = "liquidity" THEN Refill ELSE Target) THEN 0 ELSE Target

\* Mutant: a top up that does not look whether the balance is there.
ShortfallUnchecked(s) == Target - held[Account(s)]

Shortfall(s) ==
  IF held[Account(s)] >= (IF s.op = "liquidity" THEN Refill ELSE Target) THEN 0
  ELSE Target - held[Account(s)]

\* Whether what a step reads calls for a transaction.
Missing(s) ==
  \/ s.op = "mint" /\ multiplier[MintOf(s.of)] = "none"
  \/ Unretried(s) /\ Object(s) \notin chain
  \/ s.op \in {"accounts", "keeper accounts", "owner", "liquidity accounts"}
  \/ TopsUp(s) /\ Shortfall(s) # 0

-----------------------------------------------------------------------------
(* The run. *)

\* Whatever is thrown ends the run: main's catch exits the process.
Die == run' = Off

Mishap == mishaps < MAX_MISHAPS /\ mishaps' = mishaps + 1

\* main reads the time once.
Start ==
  /\ run.pc = 0
  /\ run' = [Off EXCEPT !.pc = 1, !.passed = passed]
  /\ UNCHANGED <<passed, keyFile, generated, multiplier, chain, held, flight, told, book,
                 doubts, mishaps>>

\* Mutant: the keypair of a mint is not written down.
LoadKeyUnkept(l) ==
  /\ generated[l] < MAX_KEYS
  /\ generated' = [generated EXCEPT ![l] = @ + 1]
  /\ UNCHANGED keyFile

\* loadOrCreateKeypair: the file is written before the mint is created.
LoadKey(l) ==
  IF l \in keyFile THEN UNCHANGED <<keyFile, generated>>
  ELSE /\ generated[l] < MAX_KEYS
       /\ generated' = [generated EXCEPT ![l] = @ + 1]
       /\ keyFile' = keyFile \cup {l}

\* ensureMockMint loads the keypair, then looks for the mint.
OpenKey ==
  /\ run.pc > 0 /\ run.phase = "read" /\ Step.op = "mint"
  /\ LoadKey(Step.of)
  /\ run' = [run EXCEPT !.phase = "look"]
  /\ UNCHANGED <<passed, multiplier, chain, held, flight, told, book, doubts, mishaps>>

\* Mutant: token accounts are only made along with the wrapper.
ReusedSkips(s) == IF s.op = "wrapper" THEN run.pc + 2 ELSE run.pc + 1

\* Mutant: a mint is only verified by the run that creates it.
ReusedUnverified(s) == IF s.op = "mint" THEN run.pc + 2 ELSE run.pc + 1

\* What follows a step that found its work done: the next one, so that a reused
\* mint is verified and a reused wrapper gets its token accounts.
Reused(s) == run.pc + 1

\* accountExists, tokenBalance and getBalance, and what they decide.
Look ==
  /\ run.pc > 0
  /\ run.phase = (IF Step.op = "mint" THEN "look" ELSE "read")
  /\ ~Reads(Step) /\ Step.op # "save"
  /\ run' = IF Missing(Step)
              THEN [run EXCEPT !.phase = "send",
                               !.short = IF TopsUp(Step) THEN Shortfall(Step) ELSE 0]
              ELSE [run EXCEPT !.phase = "read", !.pc = Reused(Step)]
  /\ UNCHANGED <<passed, keyFile, generated, multiplier, chain, held, flight, told, book,
                 doubts, mishaps>>

\* keeperPublicKey: neither the environment nor a file may name a keeper, and then
\* it gets no accounts and no inventory.  (One answer for a whole run in the code,
\* one for each vault here.)
NoKeeper ==
  /\ run.pc > 0 /\ run.phase = "read" /\ Step.op = "keeper accounts"
  /\ run' = [run EXCEPT !.pc = @ + 2]
  /\ UNCHANGED <<passed, keyFile, generated, multiplier, chain, held, flight, told, book,
                 doubts, mishaps>>

\* A send starts from a fresh blockhash, so it is a transaction of its own.
Send ==
  /\ run.pc > 0 /\ run.phase = "send"
  /\ \E i \in Slots :
       /\ i \notin DOMAIN flight
       /\ \A j \in Slots \ DOMAIN flight : i <= j
       /\ flight' = [k \in DOMAIN flight \cup {i} |->
            IF k = i THEN [step |-> Step, object |-> Object(Step),
                           amount |-> run.short, late |-> run.passed]
            ELSE flight[k]]
       /\ run' = [run EXCEPT !.phase = "wait", !.slot = i]
  /\ UNCHANGED <<passed, keyFile, generated, multiplier, chain, held, told, book, doubts,
                 mishaps>>

Confirm ==
  /\ run.verdict = "ok"
  /\ run' = [run EXCEPT !.phase = "read", !.pc = @ + 1, !.slot = 0, !.verdict = "none",
                        !.short = 0]
  /\ UNCHANGED <<passed, keyFile, generated, multiplier, chain, held, flight, told, book,
                 doubts, mishaps>>

Rejected ==
  /\ run.verdict = "err"
  /\ Die
  /\ UNCHANGED <<passed, keyFile, generated, multiplier, chain, held, flight, told, book,
                 doubts, mishaps>>

Doubt ==
  doubts' = IF TopsUp(Step) THEN [doubts EXCEPT ![Account(Step)] = @ + 1] ELSE doubts

Resend == run' = [run EXCEPT !.phase = "send", !.slot = 0, !.verdict = "none"]

\* "Block height exceeded", whether or not the transaction landed: withRetry
\* resends what was marked idempotent.
Unknown ==
  /\ run.phase = "wait" /\ Mishap /\ Doubt
  /\ IF Idempotent(Step) THEN Resend ELSE Die
  /\ UNCHANGED <<passed, keyFile, generated, multiplier, chain, held, flight, told, book>>

\* A transport failure of a call that did reach the network: withRetry takes it
\* that the transaction was never executed.
Misjudge ==
  /\ run.phase = "wait" /\ Mishap /\ Doubt
  /\ IF Unretried(Step) THEN Die ELSE Resend
  /\ UNCHANGED <<passed, keyFile, generated, multiplier, chain, held, flight, told, book>>

\* verifyPriceFeed and the checks main starts with.
CheckFeed ==
  /\ run.pc > 0 /\ Step.op = "feed"
  /\ run' = [run EXCEPT !.pc = @ + 1]
  /\ UNCHANGED <<passed, keyFile, generated, multiplier, chain, held, flight, told, book,
                 doubts, mishaps>>

\* The mock is worth to the program what the real mint is worth.
Matches(l) == multiplier[MintOf(l)] = Live(l, run.passed)

Verify ==
  /\ run.pc > 0 /\ Step.op = "verify"
  /\ IF Matches(Step.of)
       THEN run' = [run EXCEPT !.pc = @ + 1] /\ UNCHANGED told
       ELSE Die /\ told' = told \cup {Step.of}
  /\ UNCHANGED <<passed, keyFile, generated, multiplier, chain, held, flight, book, doubts,
                 mishaps>>

\* The address book is written once, at the end.
Save ==
  /\ run.pc > 0 /\ Step.op = "save"
  /\ book' = [saved |-> TRUE, late |-> run.passed, mints |-> generated]
  /\ run' = Off
  /\ UNCHANGED <<passed, keyFile, generated, multiplier, chain, held, flight, told, doubts,
                 mishaps>>

\* A read or a send failing five times over, a check of main's or of
\* verifyPriceFeed's that fails, or the script being interrupted.
Fail ==
  /\ run.pc > 0 /\ Mishap
  /\ IF run.phase = "wait" THEN Doubt ELSE UNCHANGED doubts
  /\ Die
  /\ UNCHANGED <<passed, keyFile, generated, multiplier, chain, held, flight, told, book>>

-----------------------------------------------------------------------------
(* The network, the clock, and whoever uses the balances. *)

Judged(i, verdict) == run' = IF run.slot = i THEN [run EXCEPT !.verdict = verdict] ELSE run

Without(i) == flight' = [k \in DOMAIN flight \ {i} |-> flight[k]]

\* An account is initialised once; the idempotent creations and top ups always work.
Acceptable(x) ==
  /\ x.step.op = "mint" => multiplier[<<x.step.of, x.object[3]>>] = "none"
  /\ Unretried(x.step) => x.object \notin chain

Land(i) ==
  LET x == flight[i]
      m == <<x.step.of, x.object[3]>>
      a == <<m, x.step.op>>
  IN /\ Without(i)
     /\ IF ~Acceptable(x)
          THEN Judged(i, "err") /\ UNCHANGED <<multiplier, chain, held>>
          ELSE /\ Judged(i, "ok")
               /\ multiplier' = IF x.step.op = "mint"
                                  THEN [multiplier EXCEPT ![m] = Live(x.step.of, x.late)]
                                  ELSE multiplier
               /\ held' = IF TopsUp(x.step) THEN [held EXCEPT ![a] = @ + x.amount] ELSE held
               /\ chain' = IF x.step.op = "mint" \/ TopsUp(x.step) THEN chain
                           ELSE chain \cup {x.object}
     /\ UNCHANGED <<passed, keyFile, generated, told, book, doubts, mishaps>>

\* A transaction the run no longer waits for expires.
Drop(i) ==
  /\ i # run.slot
  /\ Without(i)
  /\ UNCHANGED <<passed, keyFile, generated, multiplier, chain, held, run, told, book, doubts,
                 mishaps>>

\* A multiplier change of CONTEXT.md takes effect.
Pass ==
  /\ ~passed /\ passed' = TRUE
  /\ UNCHANGED <<keyFile, generated, multiplier, chain, held, flight, run, told, book, doubts,
                 mishaps>>

\* A keeper delivers, the wallet tests, the liquidity key pays fees.
Spend ==
  /\ Mishap
  /\ \E a \in Accounts : held[a] > 0 /\ held' = [held EXCEPT ![a] = @ - 1]
  /\ UNCHANGED <<passed, keyFile, generated, multiplier, chain, flight, run, told, book,
                 doubts>>

\* "Delete the keypair and rerun to build a fresh one."
DeleteKey(l) ==
  /\ run.pc = 0 /\ l \in told
  /\ keyFile' = keyFile \ {l} /\ told' = told \ {l}
  /\ UNCHANGED <<passed, generated, multiplier, chain, held, flight, run, book, doubts,
                 mishaps>>

-----------------------------------------------------------------------------
Init ==
  /\ passed = FALSE /\ keyFile = {} /\ told = {}
  /\ generated = [l \in Labels |-> 0]
  /\ multiplier = [m \in Mints |-> "none"]
  /\ chain = {} /\ flight = <<>>
  /\ held = [a \in Accounts |-> 0]
  /\ run = Off
  /\ book = [saved |-> FALSE, late |-> FALSE, mints |-> [l \in Labels |-> 0]]
  /\ doubts = [a \in Accounts |-> 0]
  /\ mishaps = 0

Runs == OpenKey \/ Look \/ NoKeeper \/ Send \/ Confirm \/ Rejected \/ CheckFeed \/ Verify \/ Save

Next ==
  \/ Start \/ Runs
  \/ Unknown \/ Misjudge \/ Fail
  \/ \E i \in DOMAIN flight : Land(i) \/ Drop(i)
  \/ Pass \/ Spend
  \/ \E l \in Labels : DeleteKey(l)

Spec == Init /\ [][Next]_vars

\* The script runs on, the network answers what a run waits for, and the operator
\* reruns the script and does what it asked for.
Fairness ==
  /\ WF_vars(Runs) /\ WF_vars(Start)
  /\ WF_vars(\E i \in DOMAIN flight : i = run.slot /\ Land(i))
  /\ \A l \in Labels : SF_vars(DeleteKey(l))

FairSpec == Spec /\ Fairness

-----------------------------------------------------------------------------
\* Types, and bounds: a top up that is sent is of at least one unit and at most
\* the target, whatever an earlier run left in the account.
TypeOK ==
  /\ passed \in BOOLEAN
  /\ keyFile \subseteq Labels /\ told \subseteq Labels
  /\ generated \in [Labels -> 0..MAX_KEYS]
  /\ multiplier \in [Mints -> {"none", "old", "new"}]
  /\ \A o \in chain : o[3] \in 0..MAX_KEYS
  /\ held \in [Accounts -> Nat]
  /\ DOMAIN flight \subseteq Slots
  /\ \A i \in DOMAIN flight :
       flight[i].amount \in (IF TopsUp(flight[i].step) THEN 1..Target ELSE {0})
  /\ run.pc \in 0..Len(Steps) /\ run.phase \in {"read", "look", "send", "wait"}
  /\ run.slot \in {0} \cup Slots /\ run.verdict \in {"none", "ok", "err"}
  /\ book.mints \in [Labels -> 0..MAX_KEYS]
  /\ doubts \in [Accounts -> 0..MAX_MISHAPS] /\ mishaps \in 0..MAX_MISHAPS

\* The address book every client reads names nothing that is not there: each of
\* its mints is worth what the real one was worth when that run began, and is
\* registered, with the token accounts that settle_execution needs, whatever
\* failed or was interrupted before and however many runs it took
\* (saveAddressBook at the end of main, after every step was seen to be done).
BookIsTrue ==
  book.saved =>
    /\ \A v \in DOMAIN Vaults : <<"vault", Vaults[v].symbol, 0>> \in chain
    /\ \A l \in Labels :
         /\ multiplier[<<l, book.mints[l]>>] = Live(l, book.late)
         /\ {<<"wrapper", l, book.mints[l]>>, <<"accounts", l, book.mints[l]>>} \subseteq chain
    /\ {<<"owner", "USDC", 1>>, <<"liquidity accounts", "USDC", 1>>} \subseteq chain

\* Reruns recognise the mints of earlier runs (loadOrCreateKeypair): a label has a
\* second mock mint only if the real multiplier changed, never one of equal worth.
OneMintPerWorth ==
  \A m, n \in Mints :
    m[1] = n[1] /\ m # n /\ multiplier[m] # "none" => multiplier[m] # multiplier[n]

\* "minting only the shortfall, so reruns never inflate a balance without bound":
\* what an account holds over its target is paid for by a top up whose outcome the
\* script did not learn, at most the target for each.
NeverInflated == \A a \in Accounts : held[a] <= Target * (1 + doubts[a])

\* Rerun often enough, and with its requests followed, setup ends with an address
\* book of mints that are worth what the real ones are worth now.
SetupConverges ==
  <>[](book.saved /\ \A l \in Labels : multiplier[<<l, book.mints[l]>>] = Live(l, passed))
=============================================================================
