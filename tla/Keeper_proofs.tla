--------------------------- MODULE Keeper_proofs ---------------------------
(***************************************************************************)
(* Theorems about keepers: any number of them, any plans and cadences, any *)
(* number of attempts, mishaps and restarts.                               *)
(***************************************************************************)
EXTENDS Keeper, FiniteSetTheorems, TLAPS

USE DEF At

-----------------------------------------------------------------------------
(* What is true of a keeper process at each of its steps. *)

Sound(q) ==
  /\ q \in Processes
  /\ q.pc # "down" => q.book \in Rates
  /\ q.pc \in {"send", "confirm", "reread"} => q.due # <<>>
  /\ q.pc \notin {"confirm", "reread"} => q.copy = None

LedgerOK ==
  /\ now \in Nat
  /\ plan \in [Plans -> [status : {"active", "cancelled"}, due : Nat, funds : Nat]]
  /\ bought \in [Plans -> Seq([due : Nat, at : Nat])]
  /\ credit \in [Plans -> Nat] /\ floor \in [Plans -> Nat]
  /\ stock \in [Keepers -> Nat]
  /\ rate \in Rates /\ file \in Rates
  /\ closed_at \in Nat \cup {None}
  /\ flight \in SUBSET Copies
  /\ landed \in [Keepers -> Nat] /\ reported \in [Keepers -> Nat]
  /\ mishaps \in Nat

KeepersSound ==
  /\ DOMAIN keeper = Keepers /\ keeper = [k \in Keepers |-> keeper[k]]
  /\ \A k \in Keepers : Sound(keeper[k])

KeeperInv == LedgerOK /\ KeepersSound

LEMMA SoundIsTyped == KeeperInv => TypeOK
  BY DEF KeeperInv, LedgerOK, KeepersSound, Sound, TypeOK

LEMMA OneProcess ==
  ASSUME KeepersSound, NEW k \in Keepers, NEW q, Sound(q),
         keeper' = [keeper EXCEPT ![k] = q]
  PROVE  KeepersSound'
  BY DEF KeepersSound, Sound

LEMMA FreshProcess ==
  /\ Sound(Process("down", 0))
  /\ \A book \in Rates : Sound(Process("asleep", book))
<1>1. <<>> \in Seq(Entries)
  OBVIOUS
<1> QED
  BY <1>1 DEF Sound, Process, Processes

LEMMA EndsSound ==
  ASSUME KeeperInv, NEW k \in Keepers, ~At(k, "down")
  PROVE  Sound(PassOver(k))
  BY FreshProcess DEF PassOver, KeeperInv, KeepersSound, Sound

LEMMA FinishedSound ==
  ASSUME KeeperInv, NEW k \in Keepers, ~At(k, "down"), keeper[k].due # <<>>
  PROVE  Sound(Finished(k))
<1>1. keeper[k] \in Processes /\ keeper[k].book \in Rates
  BY DEF KeeperInv, KeepersSound, Sound
<1>2. Tail(keeper[k].due) \in Seq(Entries)
  BY <1>1 DEF Processes
<1>3. Finished(k) \in Processes
  BY <1>1, <1>2 DEF Finished, Processes
<1> QED
  BY <1>1, <1>3 DEF Finished, Sound, Processes

\* What a keeper puts into a transaction, once it has a plan at hand.
LEMMA CopyTyped ==
  ASSUME KeeperInv, NEW k \in Keepers, At(k, "send")
  PROVE  Copy(k) \in Copies
<1>1. keeper[k] \in Processes /\ keeper[k].book \in Rates /\ keeper[k].due # <<>>
  BY DEF KeeperInv, KeepersSound, Sound
<1>2. Entry(k) \in Entries
  BY <1>1 DEF Entry, Processes
<1>3. Shares \in Nat /\ keeper[k].book \in Nat \ {0}
  BY <1>1, KeeperAssumption
<1>4. Delivery(k) \in Nat
  BY <1>3 DEF Delivery
<1>5. Minimum(k) \in Nat
  BY <1>3, <1>4 DEF Minimum, Expected
<1>6. keeper[k].attempt \in Nat /\ now + BLOCKHASH_LIFE \in Nat
  BY <1>1, KeeperAssumption DEF Processes, KeeperInv, LedgerOK
<1> QED
  BY <1>2, <1>4, <1>5, <1>6 DEF Copy, Copies, Entries

LEMMA RetriedSound ==
  ASSUME KeeperInv, NEW k \in Keepers, At(k, "send")
  PROVE  Sound(Retried(k))
<1>1. keeper[k] \in Processes /\ keeper[k].book \in Rates /\ keeper[k].due # <<>>
      /\ keeper[k].copy = None
  BY DEF KeeperInv, KeepersSound, Sound
<1>2. [keeper[k] EXCEPT !.attempt = @ + 1] \in Processes
  BY <1>1 DEF Processes
<1>3. Sound([keeper[k] EXCEPT !.attempt = @ + 1])
  BY <1>1, <1>2 DEF Sound, Processes
<1> QED
  BY <1>1, <1>3, FinishedSound DEF Retried, Failed

-----------------------------------------------------------------------------
(* Every step keeps the invariant. *)

LEMMA InitSound == Init => KeeperInv
<1> SUFFICES ASSUME Init PROVE KeeperInv
  OBVIOUS
<1>1. LedgerOK
  BY KeeperAssumption DEF Init, LedgerOK
<1>2. KeepersSound
  BY FreshProcess DEF Init, KeepersSound
<1> QED
  BY <1>1, <1>2 DEF KeeperInv

\* A buy by a transaction that may land.
LEMMA BuyTyped ==
  ASSUME KeeperInv, NEW c \in Copies, Executable(c), Buy(c)
  PROVE  /\ plan' \in [Plans -> [status : {"active", "cancelled"}, due : Nat, funds : Nat]]
         /\ bought' \in [Plans -> Seq([due : Nat, at : Nat])]
         /\ credit' \in [Plans -> Nat] /\ floor' \in [Plans -> Nat]
         /\ stock' \in [Keepers -> Nat] /\ landed' \in [Keepers -> Nat]
<1> DEFINE p == c.plan
<1>1. p \in Plans /\ c.keeper \in Keepers /\ c.raw \in Nat
  BY DEF Copies
<1>2. NextDue(p) \in Nat
  <2>1. plan[p].due \in Nat /\ now \in Nat
    BY <1>1 DEF KeeperInv, LedgerOK
  <2>2. Cadence[p] \in Nat
    BY <1>1, KeeperAssumption
  <2> QED
    BY <2>1, <2>2 DEF NextDue
<1>3. rate \in Nat
  BY KeeperAssumption DEF KeeperInv, LedgerOK
<1>4. Units(c) \in Nat /\ FloorOf(Units(c)) \in Nat
  BY <1>1, <1>3 DEF Units, FloorOf
<1>5. plan[p].funds - 1 \in Nat /\ stock[c.keeper] - c.raw \in Nat
  BY <1>1 DEF Executable, Deliverable, KeeperInv, LedgerOK
<1>6. [due |-> plan[p].due, at |-> now] \in [due : Nat, at : Nat]
  BY <1>1 DEF KeeperInv, LedgerOK
<1>7. plan' \in [Plans -> [status : {"active", "cancelled"}, due : Nat, funds : Nat]]
  BY <1>1, <1>2, <1>5 DEF Buy, KeeperInv, LedgerOK
<1>8. bought' \in [Plans -> Seq([due : Nat, at : Nat])]
  BY <1>1, <1>6 DEF Buy, KeeperInv, LedgerOK
<1>9. credit[p] + Units(c) \in Nat /\ landed[c.keeper] + 1 \in Nat
  <2>1. credit[p] \in Nat /\ landed[c.keeper] \in Nat
    BY <1>1 DEF KeeperInv, LedgerOK
  <2> QED
    BY <2>1, <1>4
<1>10. credit' \in [Plans -> Nat]
  BY <1>1, <1>9 DEF Buy, KeeperInv, LedgerOK
<1>11. floor' \in [Plans -> Nat]
  BY <1>1, <1>4 DEF Buy, KeeperInv, LedgerOK
<1>12. stock' \in [Keepers -> Nat]
  BY <1>1, <1>5 DEF Buy, KeeperInv, LedgerOK
<1>13. landed' \in [Keepers -> Nat]
  BY <1>1, <1>9 DEF Buy, KeeperInv, LedgerOK
<1> QED
  BY <1>7, <1>8, <1>10, <1>11, <1>12, <1>13

LEMMA VerdictSound ==
  ASSUME KeeperInv, NEW c \in Copies, NEW verdict \in {"ok", "err"}, Verdict(c, verdict)
  PROVE  KeepersSound'
<1>1. c.keeper \in Keepers
  BY DEF Copies
<1>2. PICK v : keeper' = [keeper EXCEPT ![c.keeper] = [keeper[c.keeper] EXCEPT !.verdict = v]]
               /\ v \in {"none", "ok", "err"}
  BY <1>1 DEF Verdict, KeeperInv, KeepersSound, Sound, Processes
<1>3. Sound(keeper[c.keeper])
  BY <1>1 DEF KeeperInv, KeepersSound
<1>4. [keeper[c.keeper] EXCEPT !.verdict = v] \in Processes
  BY <1>2, <1>3 DEF Sound, Processes
<1>5. Sound([keeper[c.keeper] EXCEPT !.verdict = v])
  BY <1>3, <1>4 DEF Sound, Processes
<1> QED
  BY <1>1, <1>2, <1>5, OneProcess DEF KeeperInv

\* The steps of a keeper that change only its own process.
Alone(k) == keeper' # keeper => \E q : Sound(q) /\ keeper' = [keeper EXCEPT ![k] = q]

LEMMA AloneSound ==
  ASSUME KeeperInv, NEW k \in Keepers, Alone(k), LedgerOK'
  PROVE  KeeperInv'
<1>1. CASE keeper' = keeper
  BY <1>1 DEF KeeperInv, KeepersSound
<1>2. CASE keeper' # keeper
  BY <1>2, OneProcess DEF Alone, KeeperInv
<1> QED
  BY <1>1, <1>2

LEMMA FetchSound ==
  ASSUME KeeperInv, NEW k \in Keepers, Fetch(k)
  PROVE  Alone(k)
<1>1. PICK s \in SetToSeqs(DuePlans) :
        keeper' = [keeper EXCEPT ![k] =
          IF s = <<>> THEN PassOver(k)
          ELSE [keeper[k] EXCEPT !.pc = "prices",
                !.due = [i \in DOMAIN s |-> [plan |-> s[i], floor |-> floor[s[i]]]]]]
  BY DEF Fetch
<1>2. Sound(keeper[k]) /\ keeper[k].pc = "asleep"
  BY DEF KeeperInv, KeepersSound, Fetch
<1>3. CASE s = <<>>
  BY <1>1, <1>2, <1>3, EndsSound DEF Alone
<1>4. CASE s # <<>>
  <2> DEFINE d == [i \in DOMAIN s |-> [plan |-> s[i], floor |-> floor[s[i]]]]
             q == [keeper[k] EXCEPT !.pc = "prices", !.due = d]
  <2>1. DuePlans \subseteq Plans /\ IsFiniteSet(DuePlans)
    BY KeeperAssumption, FS_Subset DEF DuePlans
  <2>2. Cardinality(DuePlans) \in Nat
    BY <2>1, FS_CardinalityType
  <2>3. s \in [1..Cardinality(DuePlans) -> Plans]
    BY <2>1 DEF SetToSeqs
  <2>4. d \in [1..Cardinality(DuePlans) -> Entries]
    BY <2>3 DEF KeeperInv, LedgerOK, Entries
  <2>5. d \in Seq(Entries)
    BY <2>2, <2>4
  <2>6. q \in Processes
    <3> HIDE DEF d
    <3> QED
      BY <1>2, <2>5 DEF Sound, Processes
  <2>7. q.pc = "prices" /\ q.book = keeper[k].book /\ q.copy = keeper[k].copy
    BY <1>2 DEF Sound, Processes
  <2>8. Sound(q)
    BY <1>2, <2>6, <2>7 DEF Sound
  <2> QED
    BY <1>1, <1>4, <2>8 DEF Alone
<1> QED
  BY <1>3, <1>4

LEMMA StepSound ==
  ASSUME KeeperInv, NEW k \in Keepers, Step(k)
  PROVE  KeeperInv'
<1>1. Sound(keeper[k]) /\ keeper[k] \in Processes
  BY DEF KeeperInv, KeepersSound, Sound
<1>2. CASE Start(k)
  <2>1. Sound(Process("asleep", file))
    BY FreshProcess DEF KeeperInv, LedgerOK
  <2> QED
    BY <1>2, <2>1, AloneSound DEF Start, Alone, KeeperInv, LedgerOK, chain, world
<1>3. CASE Fetch(k)
  BY <1>3, FetchSound, AloneSound DEF Fetch, KeeperInv, LedgerOK, chain, world
<1>4. CASE ReadPrices(k)
  <2> DEFINE q == [keeper[k] EXCEPT !.pc = "next", !.quoted = Published]
  <2>1. Published \in Nat
    BY DEF Published, KeeperInv, LedgerOK
  <2>2. Sound(q)
    BY <1>1, <1>4, <2>1 DEF ReadPrices, Sound, Processes
  <2>3. keeper' = [keeper EXCEPT ![k] = q]
    BY <1>4 DEF ReadPrices
  <2> QED
    BY <1>4, <2>2, <2>3, AloneSound DEF ReadPrices, Alone, KeeperInv, LedgerOK, chain, world
<1>5. CASE Check(k)
  <2> DEFINE q == [keeper[k] EXCEPT !.pc = "send", !.attempt = 1]
  <2>1. Sound(q)
    BY <1>1, <1>5 DEF Check, Sound, Processes
  <2>2. Sound(Finished(k)) /\ Sound(Failed(k))
    BY <1>5, FinishedSound DEF Check, Failed
  <2>3. Alone(k)
    BY <1>5, <2>1, <2>2 DEF Check, Alone
  <2> QED
    BY <1>5, <2>3, AloneSound DEF Check, KeeperInv, LedgerOK, chain, world
<1>6. CASE EndPass(k)
  <2>1. Sound(PassOver(k))
    BY <1>6, EndsSound DEF EndPass
  <2> QED
    BY <1>6, <2>1, AloneSound DEF EndPass, Alone, KeeperInv, LedgerOK, chain, world
<1>7. CASE Exit(k)
  BY <1>7, FreshProcess, AloneSound DEF Exit, Alone, KeeperInv, LedgerOK, chain, world
<1>8. CASE Send(k)
  <2> DEFINE q == [keeper[k] EXCEPT !.pc = "confirm", !.copy = Copy(k)]
  <2>1. Copy(k) \in Copies
    BY <1>8, CopyTyped DEF Send
  <2>2. Sound(q)
    BY <1>1, <1>8, <2>1 DEF Send, Sound, Processes
  <2>3. Sound(Failed(k))
    BY <1>1, <1>8, FinishedSound DEF Send, Sound, Failed
  <2>4. Alone(k)
    BY <1>8, <2>2, <2>3 DEF Send, Alone
  <2> QED
    BY <1>8, <2>1, <2>4, AloneSound DEF Send, KeeperInv, LedgerOK, chain, world
<1>9. CASE Confirm(k)
  <2> DEFINE q == [keeper[k] EXCEPT !.pc = "reread"]
  <2>1. Sound(q)
    BY <1>1, <1>9 DEF Confirm, Sound, Processes
  <2>2. Sound(Failed(k))
    BY <1>1, <1>9, FinishedSound DEF Confirm, Sound, Failed
  <2>3. Alone(k)
    BY <1>9, <2>1, <2>2 DEF Confirm, Alone
  <2> QED
    BY <1>9, <2>3, AloneSound DEF Confirm, KeeperInv, LedgerOK, chain, world
<1>10. CASE GiveUp(k)
  <2>1. Sound(Failed(k))
    BY <1>1, <1>10, FinishedSound DEF GiveUp, Sound, Failed
  <2> QED
    BY <1>10, <2>1, AloneSound DEF GiveUp, Alone, KeeperInv, LedgerOK, chain, world
<1>11. CASE Reread(k)
  <2>1. Sound(Finished(k))
    BY <1>1, <1>11, FinishedSound DEF Reread, Sound
  <2>2. reported' \in [Keepers -> Nat]
    BY <1>11 DEF Reread, KeeperInv, LedgerOK
  <2> QED
    BY <1>11, <2>1, <2>2, AloneSound DEF Reread, Alone, KeeperInv, LedgerOK, chain, world
<1> QED
  BY <1>2, <1>3, <1>4, <1>5, <1>6, <1>7, <1>8, <1>9, <1>10, <1>11 DEF Step

LEMMA MishapTyped == ASSUME LedgerOK, Mishap PROVE mishaps' \in Nat
  BY DEF LedgerOK, Mishap

LEMMA GoesSound ==
  ASSUME KeeperInv, NEW k \in Keepers, Goes(k)
  PROVE  KeeperInv'
<1>1. Sound(keeper[k]) /\ keeper[k] \in Processes
  BY DEF KeeperInv, KeepersSound, Sound
<1>2. CASE SendErrs(k)
  <2>1. flight' \in SUBSET Copies
    BY <1>2, CopyTyped DEF SendErrs, KeeperInv, LedgerOK
  <2>2. Sound(Retried(k))
    BY <1>2, RetriedSound DEF SendErrs
  <2>3. Alone(k)
    BY <1>2, <2>2 DEF SendErrs, Alone
  <2> QED
    BY <1>2, <2>1, <2>3, MishapTyped, AloneSound
    DEF SendErrs, KeeperInv, LedgerOK, chain, world
<1>3. CASE ReadErrs(k)
  <2>1. Alone(k)
    BY <1>1, <1>3, EndsSound, FinishedSound DEF ReadErrs, Alone, Failed, Sound
  <2> QED
    BY <1>3, <2>1, MishapTyped, AloneSound DEF ReadErrs, KeeperInv, LedgerOK, chain, world
<1>4. CASE Crash(k)
  BY <1>4, FreshProcess, MishapTyped, AloneSound
  DEF Crash, Alone, KeeperInv, LedgerOK, chain, world
<1>5. CASE Signal(k)
  <2> DEFINE q == [keeper[k] EXCEPT !.stopping = TRUE]
  <2>1. Sound(q)
    BY <1>1 DEF Sound, Processes
  <2>2. Alone(k)
    BY <1>5, <2>1 DEF Signal, Alone
  <2> QED
    BY <1>5, <2>2, MishapTyped, AloneSound DEF Signal, KeeperInv, LedgerOK, chain, world
<1> QED
  BY <1>2, <1>3, <1>4, <1>5 DEF Goes

LEMMA LandSound ==
  ASSUME KeeperInv, NEW c \in flight, Land(c)
  PROVE  KeeperInv'
<1>1. c \in Copies
  BY DEF KeeperInv, LedgerOK
<1>2. KeepersSound'
  BY <1>1, VerdictSound DEF Land
<1>3. LedgerOK'
  <2>1. CASE Executable(c)
    BY <1>1, <2>1, BuyTyped DEF Land, KeeperInv, LedgerOK, world
  <2>2. CASE ~Executable(c)
    BY <1>1, <2>2 DEF Land, KeeperInv, LedgerOK, chain, world
  <2> QED
    BY <2>1, <2>2
<1> QED
  BY <1>2, <1>3 DEF KeeperInv

\* An owner changes the status, only to cancelled, or the funds.
LEMMA OwnerChange ==
  ASSUME KeeperInv, NEW p \in Plans, OwnerActs(p)
  PROVE  \E s \in {plan[p].status, "cancelled"}, n \in Nat :
           /\ s \in {"active", "cancelled"}
           /\ plan' = [plan EXCEPT ![p] = [plan[p] EXCEPT !.status = s, !.funds = n]]
<1> DEFINE Changed(s, n) ==
             plan' = [plan EXCEPT ![p] = [plan[p] EXCEPT !.status = s, !.funds = n]]
<1>1. /\ plan[p] \in [status : {"active", "cancelled"}, due : Nat, funds : Nat]
      /\ InitialPlan[p].funds \in Nat
  BY KeeperAssumption DEF KeeperInv, LedgerOK
<1>2. CASE plan' = [plan EXCEPT ![p].status = "cancelled"]
  <2>1. Changed("cancelled", plan[p].funds)
    BY <1>1, <1>2
  <2> QED
    BY <1>1, <2>1
<1>3. CASE plan' = [plan EXCEPT ![p].funds = 0]
  <2>1. Changed(plan[p].status, 0)
    BY <1>1, <1>3
  <2> QED
    BY <1>1, <2>1
<1>4. CASE plan' = [plan EXCEPT ![p].funds = InitialPlan[p].funds]
  <2>1. Changed(plan[p].status, InitialPlan[p].funds)
    BY <1>1, <1>4
  <2> QED
    BY <1>1, <2>1
<1> QED
  BY <1>2, <1>3, <1>4 DEF OwnerActs

LEMMA OwnerSound ==
  ASSUME KeeperInv, NEW p \in Plans, OwnerActs(p)
  PROVE  KeeperInv'
<1>1. PICK s \in {plan[p].status, "cancelled"}, n \in Nat :
        /\ s \in {"active", "cancelled"}
        /\ plan' = [plan EXCEPT ![p] = [plan[p] EXCEPT !.status = s, !.funds = n]]
  BY OwnerChange
<1>2. plan' \in [Plans -> [status : {"active", "cancelled"}, due : Nat, funds : Nat]]
  BY <1>1 DEF KeeperInv, LedgerOK
<1> QED
  BY <1>2, MishapTyped DEF OwnerActs, KeeperInv, LedgerOK, KeepersSound, world

LEMMA NextSound == KeeperInv /\ [Next]_vars => KeeperInv'
<1> SUFFICES ASSUME KeeperInv, [Next]_vars PROVE KeeperInv'
  OBVIOUS
<1>1. CASE \E k \in Keepers : Step(k) \/ Goes(k)
  BY <1>1, StepSound, GoesSound
<1>2. CASE \E c \in flight : Land(c)
  BY <1>2, LandSound
<1>3. ASSUME NEW c \in flight, Drop(c) PROVE KeeperInv'
  BY <1>3, MishapTyped DEF Drop, KeeperInv, LedgerOK, KeepersSound, chain, world
<1>4. CASE \E p \in Plans : OwnerActs(p)
  BY <1>4, OwnerSound
<1>5. CASE CloseMarket \/ OpenMarket
  BY <1>5, MishapTyped
  DEF CloseMarket, OpenMarket, KeeperInv, LedgerOK, KeepersSound, chain
<1>6. CASE MoveMultiplier \/ RewriteBook
  BY <1>6, MishapTyped
  DEF MoveMultiplier, RewriteBook, KeeperInv, LedgerOK, KeepersSound, chain
<1>7. CASE Tick
  BY <1>7 DEF Tick, KeeperInv, LedgerOK, KeepersSound, chain, world
<1>8. CASE UNCHANGED vars
  BY <1>8 DEF vars, KeeperInv, LedgerOK, KeepersSound, chain, world
<1> QED
  BY <1>1, <1>2, <1>3, <1>4, <1>5, <1>6, <1>7, <1>8 DEF Next

\* Every variable keeps its type, for any number of keepers, plans and mishaps:
\* no inventory and no allowance is drawn below zero.
THEOREM KeeperTypeCorrect == Spec => []TypeOK
<1>1. Init => KeeperInv
  BY InitSound
<1>2. KeeperInv /\ [Next]_vars => KeeperInv'
  BY NextSound
<1>3. KeeperInv => TypeOK
  BY SoundIsTyped
<1> QED
  BY <1>1, <1>2, <1>3, PTL DEF Spec

-----------------------------------------------------------------------------
(* Keepers implement the abstract plan. *)

LEMMA PromisedInit == Init => Promise!Init
  BY KeeperAssumption DEF Init, Promise!Init, Promise!Records

LEMMA PromisedBuy ==
  ASSUME KeeperInv, NEW c \in flight, Executable(c), Land(c)
  PROVE  Promise!Buy(c.plan)
<1> DEFINE p == c.plan
<1>1. p \in Plans /\ c \in Copies
  BY DEF KeeperInv, LedgerOK, Copies
<1>2. plan[p].due \in Nat /\ plan[p].funds \in Nat \ {0} /\ now \in Nat
      /\ plan[p].due <= now
  BY <1>1 DEF KeeperInv, LedgerOK, Executable
<1>3. Cadence[p] \in Nat \ {0}
  BY <1>1, KeeperAssumption
<1>4. /\ NextDue(p) >= plan[p].due + Cadence[p]
      /\ NextDue(p) \in (now + 1)..(now + Cadence[p])
  BY <1>2, <1>3 DEF NextDue
<1>5. Buy(c) /\ now' = now
  BY DEF Land
<1>6. plan' = [plan EXCEPT ![p].due = NextDue(p), ![p].funds = plan[p].funds - 1]
  BY <1>5 DEF Buy
<1>7. plan'[p].due = NextDue(p) /\ plan'[p].funds = plan[p].funds - 1
  BY <1>1, <1>6 DEF KeeperInv, LedgerOK
<1>8. plan' = [plan EXCEPT ![p].due = plan'[p].due, ![p].funds = plan'[p].funds]
  BY <1>6, <1>7
<1>9. bought' = [bought EXCEPT ![p] = Append(@, [due |-> plan[p].due, at |-> now])]
  BY <1>5 DEF Buy
<1>10. plan'[p].funds < plan[p].funds
  BY <1>2, <1>7
<1>11. plan[p].status = "active"
  BY DEF Executable
<1> HIDE DEF p
<1> QED
  BY <1>2, <1>4, <1>5, <1>7, <1>8, <1>9, <1>10, <1>11 DEF Promise!Buy, p

LEMMA PromisedOwner ==
  ASSUME KeeperInv, KeeperInv', NEW p \in Plans, OwnerActs(p)
  PROVE  Promise!OwnerActs
<1>1. plan' \in [Plans -> Promise!Records]
  BY DEF KeeperInv, LedgerOK, Promise!Records
<1>2. \A q \in Plans : plan'[q].due = plan[q].due
                       /\ plan'[q].status \in {plan[q].status, "cancelled"}
  <2>1. PICK s \in {plan[p].status, "cancelled"}, n \in Nat :
          plan' = [plan EXCEPT ![p] = [plan[p] EXCEPT !.status = s, !.funds = n]]
    BY OwnerChange
  <2> QED
    BY <2>1 DEF KeeperInv, LedgerOK
<1> QED
  BY <1>1, <1>2 DEF OwnerActs, Promise!OwnerActs

LEMMA PromisedNext ==
  KeeperInv /\ KeeperInv' /\ [Next]_vars => [Promise!Next]_(Promise!vars)
<1> SUFFICES ASSUME KeeperInv, KeeperInv', [Next]_vars
             PROVE  [Promise!Next]_(Promise!vars)
  OBVIOUS
<1> DEFINE Stutter == UNCHANGED <<now, plan, bought>>
<1>1. ASSUME NEW k \in Keepers, Step(k) PROVE Stutter
  BY <1>1 DEF Step, Start, Fetch, ReadPrices, Check, EndPass, Exit, Send, Confirm,
              GiveUp, Reread, chain
<1>2. ASSUME NEW k \in Keepers, Goes(k) PROVE Stutter
  BY <1>2 DEF Goes, SendErrs, ReadErrs, Crash, Signal, chain
<1>3. ASSUME NEW c \in flight, Land(c) PROVE Stutter \/ Promise!Next
  <2>1. CASE Executable(c)
    <3>1. c.plan \in Plans
      BY DEF KeeperInv, LedgerOK, Copies
    <3> QED
      BY <1>3, <2>1, <3>1, PromisedBuy DEF Promise!Next
  <2>2. CASE ~Executable(c)
    BY <1>3, <2>2 DEF Land, chain
  <2> QED
    BY <2>1, <2>2
<1>4. ASSUME NEW c \in flight, Drop(c) PROVE Stutter
  BY <1>4 DEF Drop, chain
<1>5. ASSUME NEW p \in Plans, OwnerActs(p) PROVE Promise!Next
  BY <1>5, PromisedOwner DEF Promise!Next
<1>6. ASSUME CloseMarket \/ OpenMarket \/ MoveMultiplier \/ RewriteBook PROVE Stutter
  BY <1>6 DEF CloseMarket, OpenMarket, MoveMultiplier, RewriteBook, chain
<1>7. ASSUME Tick PROVE Promise!Next
  <2>1. Promise!Pass
    BY <1>7 DEF Tick, chain, Promise!Pass, KeeperInv, LedgerOK
  <2> QED
    BY <2>1 DEF Promise!Next
<1>8. ASSUME UNCHANGED vars PROVE Stutter
  BY <1>8 DEF vars, chain
<1>9. Stutter \/ Promise!Next
  BY <1>1, <1>2, <1>3, <1>4, <1>5, <1>6, <1>7, <1>8 DEF Next
<1> QED
  BY <1>9 DEF Promise!vars

\* Whatever keepers resend, lose or repeat, a plan is run as SavingsPlan promises.
THEOREM PromiseKept == Spec => PlansKeepTheirPromise
<1>1. Init => KeeperInv /\ Promise!Init
  BY InitSound, PromisedInit
<1>2. KeeperInv /\ [Next]_vars => KeeperInv'
  BY NextSound
<1>3. KeeperInv /\ KeeperInv' /\ [Next]_vars => [Promise!Next]_(Promise!vars)
  BY PromisedNext
<1> QED
  BY <1>1, <1>2, <1>3, PTL DEF Spec, PlansKeepTheirPromise, Promise!Spec

-----------------------------------------------------------------------------
(* What a keeper reports is on chain. *)

\* Counted with the buy behind a confirmation that has not been reported yet.
Reportable(q) == IF q.pc = "reread" \/ (q.pc = "confirm" /\ q.verdict = "ok") THEN 1 ELSE 0

ReportInv ==
  \A k \in Keepers :
    /\ reported[k] + Reportable(keeper[k]) <= landed[k]
    /\ keeper[k].pc \notin {"confirm", "reread"} => keeper[k].verdict = "none"

LEMMA FreshReports ==
  \A book : Process("down", book).verdict = "none" /\ Process("asleep", book).verdict = "none"
            /\ Reportable(Process("down", book)) = 0 /\ Reportable(Process("asleep", book)) = 0
            /\ Process("down", book).pc = "down" /\ Process("asleep", book).pc = "asleep"
  BY DEF Process, Reportable

LEMMA FinishedReports ==
  ASSUME KeeperInv, NEW k \in Keepers
  PROVE  Finished(k).verdict = "none" /\ Finished(k).pc = "next" /\ Reportable(Finished(k)) = 0
<1>1. keeper[k] \in Processes
  BY DEF KeeperInv, KeepersSound, Sound
<1>2. Finished(k).verdict = "none" /\ Finished(k).pc = "next"
  BY <1>1 DEF Finished, Processes
<1> QED
  BY <1>2 DEF Reportable

\* A process that neither waits for a verdict nor has one.
Quiet(q) == q.verdict = "none" /\ Reportable(q) = 0

\* A step that neither lands nor reports anything, and after which no keeper has
\* more to report.
NoMore(j) ==
  \/ keeper'[j] = keeper[j]
  \/ Quiet(keeper'[j])
  \/ /\ Reportable(keeper'[j]) = Reportable(keeper[j])
     /\ keeper'[j].pc \in {"confirm", "reread"} \/ keeper'[j].verdict = "none"

LEMMA NothingMoreToReport ==
  ASSUME KeeperInv, ReportInv, reported' = reported, landed' = landed,
         \A j \in Keepers : NoMore(j)
  PROVE  ReportInv'
<1>1. \A j \in Keepers : reported[j] \in Nat /\ landed[j] \in Nat
  BY DEF KeeperInv, LedgerOK
<1>2. \A j \in Keepers : Reportable(keeper[j]) \in {0, 1}
  BY DEF Reportable
<1>3. \A j \in Keepers : Reportable(keeper'[j]) \in {0, Reportable(keeper[j])}
  BY DEF NoMore, Quiet
<1>4. \A j \in Keepers : reported[j] + Reportable(keeper'[j]) <= landed[j]
  BY <1>1, <1>2, <1>3 DEF ReportInv
<1>5. \A j \in Keepers :
        keeper'[j].pc \notin {"confirm", "reread"} => keeper'[j].verdict = "none"
  BY DEF NoMore, Quiet, ReportInv
<1> QED
  BY <1>4, <1>5 DEF ReportInv

\* The same, when the process that steps becomes q.
LEMMA QuietReports ==
  ASSUME KeeperInv, ReportInv, reported' = reported, landed' = landed,
         NEW k \in Keepers, NEW q, Quiet(q), keeper' = [keeper EXCEPT ![k] = q]
  PROVE  ReportInv'
<1>1. \A j \in Keepers : keeper'[j] = IF j = k THEN q ELSE keeper[j]
  BY DEF KeeperInv, KeepersSound
<1> QED
  BY <1>1, NothingMoreToReport DEF NoMore

LEMMA QuietEnds ==
  ASSUME KeeperInv, NEW k \in Keepers
  PROVE  Quiet(PassOver(k)) /\ Quiet(Finished(k)) /\ Quiet(Failed(k))
         /\ \A book : Quiet(Process("down", book)) /\ Quiet(Process("asleep", book))
  BY FreshReports, FinishedReports DEF PassOver, Quiet, Failed

LEMMA StepReports ==
  ASSUME KeeperInv, ReportInv, NEW k \in Keepers, Step(k)
  PROVE  ReportInv'
<1>1. /\ keeper[k] \in Processes
      /\ keeper[k].pc \notin {"confirm", "reread"} => keeper[k].verdict = "none"
  BY DEF KeeperInv, KeepersSound, Sound, ReportInv
<1>2. CASE Start(k) \/ EndPass(k) \/ Exit(k) \/ GiveUp(k)
  BY <1>2, QuietEnds, QuietReports DEF Start, EndPass, Exit, GiveUp, chain
<1>3. CASE Fetch(k)
  <2>1. PICK d : \/ keeper' = [keeper EXCEPT ![k] = PassOver(k)]
                 \/ keeper' = [keeper EXCEPT ![k] =
                                 [keeper[k] EXCEPT !.pc = "prices", !.due = d]]
    BY <1>3 DEF Fetch
  <2>2. Quiet([keeper[k] EXCEPT !.pc = "prices", !.due = d])
    BY <1>1, <1>3 DEF Fetch, Quiet, Reportable, Processes
  <2> QED
    BY <1>3, <2>1, <2>2, QuietEnds, QuietReports DEF Fetch, chain
<1>4. CASE ReadPrices(k)
  <2>1. Quiet([keeper[k] EXCEPT !.pc = "next", !.quoted = Published])
    BY <1>1, <1>4 DEF ReadPrices, Quiet, Reportable, Processes
  <2>2. keeper' = [keeper EXCEPT ![k] = [keeper[k] EXCEPT !.pc = "next", !.quoted = Published]]
    BY <1>4 DEF ReadPrices
  <2> QED
    BY <1>4, <2>1, <2>2, QuietReports DEF ReadPrices, chain
<1>5. CASE Check(k)
  <2>1. Quiet([keeper[k] EXCEPT !.pc = "send", !.attempt = 1])
    BY <1>1, <1>5 DEF Check, Quiet, Reportable, Processes
  <2> QED
    BY <1>5, <2>1, QuietEnds, QuietReports DEF Check, chain
<1>6. CASE Send(k)
  <2>1. Quiet([keeper[k] EXCEPT !.pc = "confirm", !.copy = Copy(k)])
    BY <1>1, <1>6 DEF Send, Quiet, Reportable, Processes
  <2>2. \/ keeper' = [keeper EXCEPT ![k] = Failed(k)]
        \/ keeper' = [keeper EXCEPT ![k] = [keeper[k] EXCEPT !.pc = "confirm", !.copy = Copy(k)]]
    BY <1>6 DEF Send
  <2> QED
    BY <1>6, <2>1, <2>2, QuietEnds, QuietReports DEF Send, chain
<1>7. CASE Confirm(k)
  <2>1. CASE keeper' = [keeper EXCEPT ![k] = Failed(k)]
    BY <1>7, <2>1, QuietEnds, QuietReports DEF Confirm, chain
  <2>2. CASE Confirmed(k) /\ keeper' = [keeper EXCEPT ![k].pc = "reread"]
    <3>1. \A j \in Keepers : keeper'[j] =
            IF j = k THEN [keeper[k] EXCEPT !.pc = "reread"] ELSE keeper[j]
      BY <2>2 DEF KeeperInv, KeepersSound
    <3>2. /\ Reportable([keeper[k] EXCEPT !.pc = "reread"]) = Reportable(keeper[k])
          /\ [keeper[k] EXCEPT !.pc = "reread"].pc = "reread"
      BY <1>1, <1>7, <2>2 DEF Confirm, Confirmed, Reportable, Processes
    <3> QED
      BY <1>7, <3>1, <3>2, NothingMoreToReport DEF Confirm, NoMore, chain
  <2> QED
    BY <1>7, <2>1, <2>2 DEF Confirm
<1>8. CASE Reread(k)
  <2>1. \A j \in Keepers : reported[j] \in Nat /\ landed[j] \in Nat
    BY DEF KeeperInv, LedgerOK
  <2>2. \A j \in Keepers : /\ keeper'[j] = IF j = k THEN Finished(k) ELSE keeper[j]
                           /\ reported'[j] = IF j = k THEN reported[k] + 1 ELSE reported[j]
    BY <1>8 DEF Reread, KeeperInv, KeepersSound, LedgerOK
  <2>3. Reportable(keeper[k]) = 1
    BY <1>8 DEF Reread, Reportable
  <2>4. \A j \in Keepers : reported'[j] + Reportable(keeper'[j]) <= landed[j]
    BY <2>1, <2>2, <2>3, FinishedReports DEF ReportInv
  <2>5. landed' = landed
    BY <1>8 DEF Reread, chain
  <2> QED
    BY <2>2, <2>4, <2>5, FinishedReports DEF ReportInv
<1> QED
  BY <1>2, <1>3, <1>4, <1>5, <1>6, <1>7, <1>8 DEF Step

LEMMA GoesReports ==
  ASSUME KeeperInv, ReportInv, NEW k \in Keepers, Goes(k)
  PROVE  ReportInv'
<1>1. /\ keeper[k] \in Processes
      /\ keeper[k].pc \notin {"confirm", "reread"} => keeper[k].verdict = "none"
  BY DEF KeeperInv, KeepersSound, Sound, ReportInv
<1>2. CASE SendErrs(k)
  <2>1. CASE keeper' = [keeper EXCEPT ![k] = Failed(k)]
    BY <1>2, <2>1, QuietEnds, QuietReports DEF SendErrs, chain
  <2>2. CASE keeper' = [keeper EXCEPT ![k] = [keeper[k] EXCEPT !.attempt = @ + 1]]
    <3>1. Quiet([keeper[k] EXCEPT !.attempt = @ + 1])
      BY <1>1, <1>2 DEF SendErrs, Quiet, Reportable, Processes
    <3> QED
      BY <1>2, <2>2, <3>1, QuietReports DEF SendErrs, chain
  <2> QED
    BY <1>2, <2>1, <2>2 DEF SendErrs, Retried
<1>3. CASE ReadErrs(k)
  BY <1>3, QuietEnds, QuietReports DEF ReadErrs, chain
<1>4. CASE Crash(k)
  BY <1>4, QuietEnds, QuietReports DEF Crash, chain
<1>5. CASE Signal(k)
  <2>1. \A j \in Keepers : keeper'[j] =
          IF j = k THEN [keeper[k] EXCEPT !.stopping = TRUE] ELSE keeper[j]
    BY <1>5 DEF Signal, KeeperInv, KeepersSound
  <2>2. LET q == [keeper[k] EXCEPT !.stopping = TRUE]
        IN  q.pc = keeper[k].pc /\ q.verdict = keeper[k].verdict
    BY <1>1 DEF Processes
  <2>3. \A j \in Keepers : NoMore(j)
    BY <1>1, <2>1, <2>2 DEF NoMore, Reportable, Processes
  <2> QED
    BY <1>5, <2>3, NothingMoreToReport DEF Signal, chain
<1> QED
  BY <1>2, <1>3, <1>4, <1>5 DEF Goes

LEMMA LandReports ==
  ASSUME KeeperInv, ReportInv, NEW c \in flight, Land(c)
  PROVE  ReportInv'
<1>1. c \in Copies /\ c.keeper \in Keepers
  BY DEF KeeperInv, LedgerOK, Copies
<1> DEFINE k == c.keeper
<1>2. \A j \in Keepers : reported[j] \in Nat /\ landed[j] \in Nat /\ keeper[j] \in Processes
  BY DEF KeeperInv, LedgerOK, KeepersSound, Sound
<1>3. keeper[k].copy = c => keeper[k].pc \in {"confirm", "reread"}
  BY <1>1, KeeperAssumption DEF KeeperInv, KeepersSound, Sound
<1>4. reported' = reported
  BY DEF Land
<1>5. ASSUME NEW verdict \in {"ok", "err"}, Verdict(c, verdict)
      PROVE  \A j \in Keepers :
               /\ keeper'[j].pc = keeper[j].pc
               /\ keeper'[j].verdict =
                    IF j = k /\ keeper[k].copy = c THEN verdict ELSE keeper[j].verdict
  BY <1>1, <1>2, <1>5 DEF Verdict, KeeperInv, KeepersSound, Processes
<1>6. CASE Executable(c)
  <2>1. Verdict(c, "ok") /\ \A j \in Keepers : landed'[j] = IF j = k THEN landed[j] + 1 ELSE landed[j]
    BY <1>1, <1>6 DEF Land, Buy, KeeperInv, LedgerOK
  <2>2. \A j \in Keepers : j # k => Reportable(keeper'[j]) = Reportable(keeper[j])
    BY <1>5, <2>1 DEF Reportable
  <2>3. Reportable(keeper'[k]) \in {0, 1} /\ Reportable(keeper[k]) \in {0, 1}
    BY DEF Reportable
  <2>4. reported[k] + Reportable(keeper'[k]) <= landed'[k]
    BY <1>1, <1>2, <2>1, <2>3 DEF ReportInv
  <2>5. \A j \in Keepers : reported[j] + Reportable(keeper'[j]) <= landed'[j]
    BY <1>1, <1>2, <2>1, <2>2, <2>4 DEF ReportInv
  <2>6. \A j \in Keepers :
          keeper'[j].pc \notin {"confirm", "reread"} => keeper'[j].verdict = "none"
    BY <1>3, <1>5, <2>1 DEF ReportInv
  <2> QED
    BY <1>4, <2>5, <2>6 DEF ReportInv
<1>7. CASE ~Executable(c)
  <2>1. Verdict(c, "err") /\ landed' = landed
    BY <1>7 DEF Land, chain
  <2>2. \A j \in Keepers : Reportable(keeper'[j]) \in {Reportable(keeper[j]), 0}
    BY <1>5, <2>1 DEF Reportable
  <2>3. \A j \in Keepers : Reportable(keeper[j]) \in {0, 1}
    BY DEF Reportable
  <2>4. \A j \in Keepers : reported[j] + Reportable(keeper'[j]) <= landed[j]
    BY <1>2, <2>2, <2>3 DEF ReportInv
  <2>5. \A j \in Keepers :
          keeper'[j].pc \notin {"confirm", "reread"} => keeper'[j].verdict = "none"
    BY <1>3, <1>5, <2>1 DEF ReportInv
  <2> QED
    BY <1>4, <2>1, <2>4, <2>5 DEF ReportInv
<1> QED
  BY <1>6, <1>7

LEMMA NextReports == KeeperInv /\ ReportInv /\ [Next]_vars => ReportInv'
<1> SUFFICES ASSUME KeeperInv, ReportInv, [Next]_vars PROVE ReportInv'
  OBVIOUS
<1> DEFINE Same == UNCHANGED <<keeper, landed, reported>>
<1>1. CASE \E k \in Keepers : Step(k) \/ Goes(k)
  BY <1>1, StepReports, GoesReports
<1>2. CASE \E c \in flight : Land(c)
  BY <1>2, LandReports
<1>3. ASSUME \/ \E c \in flight : Drop(c)
             \/ \E p \in Plans : OwnerActs(p)
             \/ CloseMarket \/ OpenMarket \/ MoveMultiplier \/ RewriteBook \/ Tick
             \/ UNCHANGED vars
      PROVE  Same
  BY <1>3 DEF Drop, OwnerActs, CloseMarket, OpenMarket, MoveMultiplier, RewriteBook,
              Tick, vars, chain
<1>4. CASE Same
  BY <1>4 DEF ReportInv
<1> QED
  BY <1>1, <1>2, <1>3, <1>4 DEF Next

\* Every execution that a keeper reports is on chain and was made by a transaction
\* of its own, through any number of resends, timeouts, crashes and late landings.
THEOREM ReportsReal == Spec => []ReportsAreReal
<1>1. Init => KeeperInv /\ ReportInv
  <2>1. Init => ReportInv
    BY FreshReports DEF Init, ReportInv
  <2> QED
    BY <2>1, InitSound
<1>2. KeeperInv /\ [Next]_vars => KeeperInv'
  BY NextSound
<1>3. KeeperInv /\ ReportInv /\ [Next]_vars => ReportInv'
  BY NextReports
<1>4. KeeperInv /\ ReportInv => ReportsAreReal
  BY DEF KeeperInv, LedgerOK, ReportInv, Reportable, ReportsAreReal
<1> QED
  BY <1>1, <1>2, <1>3, <1>4, PTL DEF Spec

-----------------------------------------------------------------------------
(* What a quote is worth. *)

\* Every transaction that may still land asks for what some book quoted.
QuoteInv == \A c \in flight : c.min \in Quotes

\* A keeper at work has a book, and puts its quote into what it sends.
LEMMA MinimumIsQuote ==
  ASSUME KeeperInv, NEW k \in Keepers, At(k, "send")
  PROVE  Copy(k).min \in Quotes
<1>1. keeper[k].book \in Rates
  BY DEF KeeperInv, KeepersSound, Sound
<1> QED
  BY <1>1 DEF Copy, Minimum, Expected, Delivery, Quotes

\* Only a send adds to what may land.
LEMMA FlightGrows ==
  ASSUME KeeperInv, [Next]_vars
  PROVE  \A c \in flight' \ flight : \E k \in Keepers : At(k, "send") /\ c = Copy(k)
<1>1. ASSUME NEW k \in Keepers, Step(k) \/ Goes(k)
      PROVE  flight' = flight \/ (At(k, "send") /\ flight' = flight \cup {Copy(k)})
  BY <1>1 DEF Step, Goes, Start, Fetch, ReadPrices, Check, EndPass, Exit, Send, Confirm,
              GiveUp, Reread, SendErrs, ReadErrs, Crash, Signal
<1>2. ASSUME NEW c \in flight, Land(c) \/ Drop(c) PROVE flight' \subseteq flight
  BY <1>2 DEF Land, Drop
<1>3. ASSUME \/ \E p \in Plans : OwnerActs(p)
             \/ CloseMarket \/ OpenMarket \/ MoveMultiplier \/ RewriteBook \/ Tick
             \/ UNCHANGED vars
      PROVE  flight' = flight
  BY <1>3 DEF OwnerActs, CloseMarket, OpenMarket, MoveMultiplier, RewriteBook, Tick, vars
<1> QED
  BY <1>1, <1>2, <1>3 DEF Next

LEMMA NextQuotes == KeeperInv /\ QuoteInv /\ [Next]_vars => QuoteInv'
<1> SUFFICES ASSUME KeeperInv, QuoteInv, [Next]_vars, NEW c \in flight'
             PROVE  c.min \in Quotes
  BY DEF QuoteInv, Quotes
<1>1. CASE c \in flight
  BY <1>1 DEF QuoteInv
<1>2. CASE c \notin flight
  BY <1>2, FlightGrows, MinimumIsQuote
<1> QED
  BY <1>1, <1>2

\* Only a landing buys, and it credits what the transaction delivers.
LEMMA BuyOnlyLands ==
  ASSUME KeeperInv, Next, NEW p \in Plans, Len(bought'[p]) > Len(bought[p])
  PROVE  \E c \in flight : c.plan = p /\ Executable(c) /\ Buy(c)
<1>1. bought' # bought
  <2>1. Len(bought[p]) \in Nat
    BY DEF KeeperInv, LedgerOK
  <2> QED
    BY <2>1
<1>2. ASSUME NEW k \in Keepers, Step(k) \/ Goes(k) PROVE bought' = bought
  BY <1>2 DEF Step, Goes, Start, Fetch, ReadPrices, Check, EndPass, Exit, Send, Confirm,
              GiveUp, Reread, SendErrs, ReadErrs, Crash, Signal, chain
<1>3. ASSUME \/ \E c \in flight : Drop(c)
             \/ \E q \in Plans : OwnerActs(q)
             \/ CloseMarket \/ OpenMarket \/ MoveMultiplier \/ RewriteBook \/ Tick
      PROVE  bought' = bought
  BY <1>3 DEF Drop, OwnerActs, CloseMarket, OpenMarket, MoveMultiplier, RewriteBook, Tick, chain
<1>4. PICK c \in flight : Land(c)
  BY <1>1, <1>2, <1>3 DEF Next
<1>5. Executable(c) /\ Buy(c)
  BY <1>1, <1>4 DEF Land, chain
<1>6. c.plan = p
  <2>1. Len(bought'[p]) # Len(bought[p])
    <3>1. Len(bought[p]) \in Nat
      BY DEF KeeperInv, LedgerOK
    <3> QED
      BY <3>1
  <2>2. DOMAIN bought = Plans
    BY DEF KeeperInv, LedgerOK
  <2>3. c.plan # p => bought'[p] = bought[p]
    BY <1>5, <2>2 DEF Buy
  <2> QED
    BY <2>1, <2>3
<1> QED
  BY <1>5, <1>6

LEMMA LandingHonoursQuote ==
  ASSUME KeeperInv, QuoteInv, Next, NEW p \in Plans, Len(bought'[p]) > Len(bought[p])
  PROVE  \E quote \in Quotes : credit'[p] - credit[p] >= quote
<1>1. PICK c \in flight : c.plan = p /\ Executable(c) /\ Buy(c)
  BY BuyOnlyLands
<1>2. c \in Copies /\ c.min \in Quotes /\ credit \in [Plans -> Nat] /\ rate \in Nat
  BY KeeperAssumption DEF KeeperInv, LedgerOK, QuoteInv
<1>3. c.raw \in Nat /\ c.min \in Nat /\ credit[p] \in Nat
  BY <1>2 DEF Copies
<1>4. Units(c) >= c.min
  BY <1>1 DEF Executable, Deliverable
<1>5. credit'[p] = credit[p] + Units(c)
  BY <1>1, <1>2 DEF Buy
<1>6. Units(c) \in Nat
  BY <1>2, <1>3 DEF Units
<1>7. credit'[p] - credit[p] >= c.min
  BY <1>3, <1>4, <1>5, <1>6
<1> QED
  BY <1>2, <1>7

\* Whatever the multiplier, the price and the books did between the quote and the
\* landing, a buy credits at least what a keeper's quote promised.
THEOREM QuoteHonoured == Spec => SaverGetsTheQuote
<1>1. Init => KeeperInv /\ QuoteInv
  <2>1. Init => QuoteInv
    BY DEF Init, QuoteInv
  <2> QED
    BY <2>1, InitSound
<1>2. KeeperInv /\ [Next]_vars => KeeperInv'
  BY NextSound
<1>3. KeeperInv /\ QuoteInv /\ [Next]_vars => QuoteInv'
  BY NextQuotes
<1>4. KeeperInv /\ QuoteInv /\ [Next]_vars =>
        [\A p \in Plans :
           Len(bought'[p]) > Len(bought[p]) =>
             \E quote \in Quotes : credit'[p] - credit[p] >= quote]_vars
  BY LandingHonoursQuote
<1> QED
  BY <1>1, <1>2, <1>3, <1>4, PTL DEF Spec, SaverGetsTheQuote
=============================================================================
