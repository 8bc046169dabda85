---------------------------- MODULE Payouts_proofs ----------------------------
(***************************************************************************)
(* Theorems about taking money out, for any wrappers, decimals and scales, *)
(* any moves of others and any failures: types, what a withdrawal and a    *)
(* cash out that land have in common with what was asked for, and that the *)
(* planner plans what the program accepts.                                 *)
(***************************************************************************)
EXTENDS Payouts, ParitasMath_proofs

-----------------------------------------------------------------------------
(* The planner's terms *)

SourceRecord == [balance : Nat, mult : Multipliers]
SourcesSet == [Wrappers -> SourceRecord]

\* Capacities, raw amounts and worths are natural numbers.
LEMMA SourceTerms ==
  ASSUME NEW s \in SourcesSet, NEW w \in Wrappers, NEW n \in Nat
  PROVE  /\ Capacity(s, w) \in Nat /\ Raw(s, w, n) \in Nat /\ Worth(s, w, n) \in Nat
         /\ s[w].balance \in Nat /\ s[w].mult \in Nat \ {0}
         /\ Decimals[w] \in 0..MAX_DECIMALS
<1>1. /\ s[w].balance \in Nat /\ s[w].mult \in Nat \ {0} /\ Decimals[w] \in 0..MAX_DECIMALS
  BY PayoutsAssumption DEF SourcesSet, SourceRecord
<1>2. Capacity(s, w) \in Nat /\ Worth(s, w, n) \in Nat
  BY <1>1, ToEquityUnitsType DEF Capacity, Worth
<1>3. /\ MULTIPLIER_SCALE \in Nat /\ EQUITY_UNIT_DECIMALS \in 0..MAX_DECIMALS
  BY MathAssumption
<1>4. RawRate(Decimals[w], s[w].mult) \in Nat BY <1>1, <1>3, ComputeRateType DEF RawRate
<1>5. Raw(s, w, n) \in Nat BY <1>4, ConvertType DEF Raw, FromEquityUnits
<1>6. QED BY <1>1, <1>2, <1>5

\* A withdrawal within the capacity of a wrapper pays out no more than the vault holds.
LEMMA CapacityCovers ==
  ASSUME NEW s \in SourcesSet, NEW w \in Wrappers, NEW n \in Nat, n <= Capacity(s, w)
  PROVE  Raw(s, w, n) <= s[w].balance
<1> DEFINE b == s[w].balance
           r == UnitRate(Decimals[w], s[w].mult)
           q == RawRate(Decimals[w], s[w].mult)
           z == Raw(s, w, n)
           R == RATE_SCALE
<1>1. /\ b \in Nat /\ s[w].mult \in Nat \ {0} /\ Decimals[w] \in 0..MAX_DECIMALS
      /\ Capacity(s, w) \in Nat /\ z \in Nat
  BY SourceTerms
<1>2. /\ MULTIPLIER_SCALE \in Nat \ {0} /\ EQUITY_UNIT_DECIMALS \in 0..MAX_DECIMALS
      /\ R \in Nat \ {0}
  BY MathAssumption
<1>3. r \in Nat /\ q \in Nat BY <1>1, <1>2, ComputeRateType DEF UnitRate, RawRate
<1>4. r * q <= R * R BY <1>1, <1>2, RatesCancel DEF UnitRate, RawRate
<1>5. n * R <= b * r
  <2>1. Capacity(s, w) * R <= b * r
    BY <1>1, <1>3, ConvertType DEF Capacity, ToEquityUnits
  <2>2. n * R <= Capacity(s, w) * R BY <1>1, <1>2, MulMonotone
  <2>3. n * R \in Nat /\ Capacity(s, w) * R \in Nat /\ b * r \in Nat
    BY <1>1, <1>2, <1>3, MulNat
  <2> HIDE DEF r, b, R
  <2>4. QED BY <2>1, <2>2, <2>3
<1>6. z * R <= n * q BY <1>3, ConvertType DEF Raw, FromEquityUnits
<1> HIDE DEF b, r, q, z, R
<1>7. (z * R) * R <= (n * q) * R BY <1>1, <1>2, <1>3, <1>6, MulNat, MulMonotone
<1>8. (n * R) * q <= (b * r) * q BY <1>1, <1>2, <1>3, <1>5, MulNat, MulMonotone
<1>9. (r * q) * b <= (R * R) * b BY <1>1, <1>2, <1>3, <1>4, MulNat, MulMonotone
<1>10. /\ (z * R) * R = z * (R * R) /\ (n * q) * R = (n * R) * q
       /\ (b * r) * q = (r * q) * b /\ (R * R) * b = b * (R * R)
  BY <1>1, <1>2, <1>3
<1>11. /\ z * (R * R) \in Nat /\ (n * R) * q \in Nat /\ (r * q) * b \in Nat
       /\ b * (R * R) \in Nat
  BY <1>1, <1>2, <1>3, MulNat
<1>12. z * (R * R) <= b * (R * R) BY <1>7, <1>8, <1>9, <1>10, <1>11
<1>13. R * R \in Nat \ {0} BY <1>2, MulPositive
<1>14. z <= b BY <1>1, <1>12, <1>13, MulCancel
<1>15. QED BY <1>14 DEF z, b

\* Nothing asked, nothing paid.
LEMMA NothingForNothing ==
  ASSUME NEW s \in SourcesSet, NEW w \in Wrappers
  PROVE  Raw(s, w, 0) = 0
<1>1. RATE_SCALE \in Nat \ {0} /\ s[w].mult \in Nat \ {0} /\ Decimals[w] \in 0..MAX_DECIMALS
      /\ MULTIPLIER_SCALE \in Nat /\ EQUITY_UNIT_DECIMALS \in 0..MAX_DECIMALS
  BY SourceTerms, MathAssumption
<1>2. RawRate(Decimals[w], s[w].mult) \in Nat BY <1>1, ComputeRateType DEF RawRate
<1>3. 0 * RawRate(Decimals[w], s[w].mult) = 0 BY <1>2
<1>4. 0 \div RATE_SCALE = 0 BY <1>1
<1>5. QED BY <1>3, <1>4 DEF Raw, FromEquityUnits, ConvertAmount

-----------------------------------------------------------------------------
(* The order in which a split takes from the wrappers, and what it takes *)

\* It is a strict total order.
LEMMA AheadOrder ==
  ASSUME NEW s \in SourcesSet
  PROVE  /\ \A w \in Wrappers : Ahead(s, w) \subseteq Wrappers /\ w \notin Ahead(s, w)
         /\ \A v, w \in Wrappers : v = w \/ v \in Ahead(s, w) \/ w \in Ahead(s, v)
         /\ \A u, v, w \in Wrappers :
              u \in Ahead(s, v) /\ v \in Ahead(s, w) => u \in Ahead(s, w)
<1>1. \A w \in Wrappers : Capacity(s, w) \in Nat /\ w \in Nat
  BY SourceTerms, PayoutsAssumption
<1>2. QED BY <1>1 DEF Ahead

\* Of some wrappers one comes last.
LEMMA LastOf ==
  ASSUME NEW s \in SourcesSet, NEW S, S \in SUBSET Wrappers, S # {}
  PROVE  \E m \in S : S \ {m} \subseteq Ahead(s, m)
<1> DEFINE Good == {T \in SUBSET Wrappers : T # {} => \E m \in T : T \ {m} \subseteq Ahead(s, m)}
<1>1. ASSUME NEW T \in SUBSET Wrappers, \A U \in SUBSET T : U # T => U \in Good
      PROVE  T \in Good
  <2> SUFFICES ASSUME T # {} PROVE \E m \in T : T \ {m} \subseteq Ahead(s, m) OBVIOUS
  <2>1. PICK x \in T : TRUE OBVIOUS
  <2>2. T \ {x} \in Good BY <1>1, <2>1
  <2>3. CASE T \ {x} = {} BY <2>1, <2>3
  <2>4. CASE T \ {x} # {}
    <3>1. PICK m \in T \ {x} : (T \ {x}) \ {m} \subseteq Ahead(s, m) BY <2>2, <2>4
    <3>2. CASE x \in Ahead(s, m) BY <3>1, <3>2
    <3>3. CASE m \in Ahead(s, x)
      <4>1. \A u \in T \ {x, m} : u \in Ahead(s, x)
        <5>1. \A u \in T \ {x, m} : u \in Ahead(s, m) BY <3>1
        <5>2. QED BY <2>1, <3>1, <3>3, <5>1, AheadOrder
      <4>2. QED BY <2>1, <3>3, <4>1
    <3>4. QED BY <2>1, <3>1, <3>2, <3>3, AheadOrder
  <2>5. QED BY <2>3, <2>4
<1>2. \A T \in SUBSET Wrappers : T \in Good
  <2> HIDE DEF Good
  <2>1. QED BY <1>1, PayoutsAssumption, SubsetInduction
<1>3. QED BY <1>2

Capacities(s) == [w \in Wrappers |-> Capacity(s, w)]
Takes(s, n) == [w \in Wrappers |-> Take(s, w, n)]

\* What is taken through one wrapper: its capacity, and what those ahead leave, at most.
LEMMA TakeIs ==
  ASSUME NEW s \in SourcesSet, NEW w \in Wrappers, NEW n \in Nat
  PROVE  /\ Take(s, w, n) \in Nat /\ Take(s, w, n) <= Capacity(s, w)
         /\ SumFunctionOnSet(Capacities(s), Ahead(s, w)) \in Nat
         /\ Take(s, w, n) <= AtLeast(0, n - SumFunctionOnSet(Capacities(s), Ahead(s, w)))
<1> DEFINE f == [v \in Ahead(s, w) |-> Capacity(s, v)]
           A == Ahead(s, w)
<1>1. A \subseteq Wrappers /\ IsFiniteSet(A)
  BY AheadOrder, PayoutsAssumption, FS_Subset
<1>2. \A v \in A : f[v] \in Nat /\ Capacities(s)[v] = f[v]
  BY <1>1, SourceTerms DEF Capacities
<1>3. DOMAIN f = A OBVIOUS
<1>4. SumFunction(f) = SumFunctionOnSet(f, A) BY <1>3 DEF SumFunction
<1>5. Take(s, w, n) = AtMost(Capacity(s, w), AtLeast(0, n - SumFunction(f))) BY DEF Take
<1> HIDE DEF f, A
<1>6. SumFunctionOnSet(f, A) \in Nat BY <1>1, <1>2, SumNat
<1>7. SumFunctionOnSet(Capacities(s), A) = SumFunctionOnSet(f, A) BY <1>1, <1>2, SumSame
<1>8. Capacity(s, w) \in Nat BY SourceTerms
<1>9. QED BY <1>4, <1>5, <1>6, <1>7, <1>8 DEF AtMost, AtLeast, A

\* A split takes no more than was asked for, through whichever wrappers.
LEMMA SplitTakesLess ==
  ASSUME NEW s \in SourcesSet, NEW n \in Nat
  PROVE  \A T \in SUBSET Wrappers : SumFunctionOnSet(Takes(s, n), T) <= n
<1> DEFINE f == Takes(s, n)
           g == Capacities(s)
           Good == {T \in SUBSET Wrappers : SumFunctionOnSet(f, T) <= n}
<1>1. \A w \in Wrappers : /\ f[w] \in Nat /\ g[w] \in Nat /\ f[w] <= g[w]
                          /\ f[w] = Take(s, w, n)
  BY TakeIs, SourceTerms DEF Takes, Capacities
<1>2. ASSUME NEW T \in SUBSET Wrappers, \A U \in SUBSET T : U # T => U \in Good
      PROVE  T \in Good
  <2>1. CASE T = {}
    <3>1. SumFunctionOnSet(f, T) = 0 BY <2>1, SumEmpty
    <3>2. QED BY <3>1
  <2>2. CASE T # {}
    <3>1. PICK m \in T : T \ {m} \subseteq Ahead(s, m) BY <2>2, LastOf
    <3> DEFINE U == T \ {m}
    <3>2. U \in SUBSET T /\ U # T /\ U \in SUBSET Wrappers BY <3>1
    <3>3. IsFiniteSet(T) /\ IsFiniteSet(U) /\ IsFiniteSet(Ahead(s, m))
          /\ Ahead(s, m) \subseteq Wrappers /\ m \in Wrappers
      BY <3>1, AheadOrder, PayoutsAssumption, FS_Subset
    <3>4. SumFunctionOnSet(f, U) <= n BY <1>2, <3>2
    <3>5. SumFunctionOnSet(f, T) = f[m] + SumFunctionOnSet(f, U)
      <4> HIDE DEF f
      <4>1. \A w \in T : f[w] \in Int BY <1>1
      <4>2. QED BY <3>1, <3>3, <4>1, SumRemove
    <3> HIDE DEF U, f, g
    <3>6. SumFunctionOnSet(f, U) \in Nat BY <1>1, <3>2, <3>3, SumNat
    <3>7. SumFunctionOnSet(f, U) <= SumFunctionOnSet(g, U)
      <4>1. \A w \in U : f[w] \in Int /\ g[w] \in Int /\ f[w] <= g[w] BY <1>1, <3>2
      <4>2. QED BY <3>3, <4>1, SumMonotone
    <3>8. SumFunctionOnSet(g, U) <= SumFunctionOnSet(g, Ahead(s, m))
      <4>1. U \subseteq Ahead(s, m) BY <3>1 DEF U
      <4>2. \A w \in Ahead(s, m) : g[w] \in Nat BY <1>1, <3>3
      <4>3. QED BY <3>3, <4>1, <4>2, SumSubset
    <3>9. SumFunctionOnSet(g, U) \in Nat BY <1>1, <3>2, <3>3, SumNat
    <3>10. /\ SumFunctionOnSet(g, Ahead(s, m)) \in Nat
           /\ f[m] <= AtLeast(0, n - SumFunctionOnSet(g, Ahead(s, m)))
           /\ f[m] \in Nat
      BY <1>1, <3>3, TakeIs DEF g
    <3>11. SumFunctionOnSet(f, T) <= n
      BY <3>4, <3>5, <3>6, <3>7, <3>8, <3>9, <3>10 DEF AtLeast
    <3>12. QED BY <3>11
  <2>3. QED BY <2>1, <2>2
<1>3. \A T \in SUBSET Wrappers : T \in Good
  <2> HIDE DEF Good
  <2>1. QED BY <1>2, PayoutsAssumption, SubsetInduction
<1>4. QED BY <1>3

-----------------------------------------------------------------------------
(* What the planner returns *)

SharesOf(legs) == SumFunction([leg \in legs |-> leg.shares])

OnePerWrapper(legs) == \A a, b \in legs : a.wrapper = b.wrapper => a = b

\* A plan for n on sources s: legs through different wrappers, each within its wrapper's
\* capacity, and for no more than n together.
PlanFor(s, legs, n) ==
  /\ legs \subseteq LegRecord /\ IsFiniteSet(legs) /\ OnePerWrapper(legs)
  /\ SharesOf(legs) \in Nat /\ SharesOf(legs) <= n
  /\ \A leg \in legs : /\ leg.raw = Raw(s, leg.wrapper, leg.shares) /\ leg.raw > 0
                       /\ leg.shares <= Capacity(s, leg.wrapper) /\ leg.shares > 0

LEMMA SharesOfOne ==
  ASSUME NEW leg \in LegRecord
  PROVE  SharesOf({leg}) = leg.shares
<1> DEFINE f == [l \in {leg} |-> l.shares]
<1>1. DOMAIN f = {leg} /\ f[leg] = leg.shares /\ leg.shares \in Int BY DEF LegRecord
<1>2. SumFunction(f) = SumFunctionOnSet(f, {leg}) BY <1>1 DEF SumFunction
<1> HIDE DEF f
<1>3. SumFunctionOnSet(f, {leg}) = leg.shares BY <1>1, SumSingle
<1>4. QED BY <1>2, <1>3 DEF SharesOf, f

LEMMA LegIs ==
  ASSUME NEW s \in SourcesSet, NEW w \in Wrappers, NEW n \in Nat
  PROVE  /\ Leg(s, w, n) \in LegRecord
         /\ Leg(s, w, n).wrapper = w /\ Leg(s, w, n).shares = n /\ Leg(s, w, n).raw = Raw(s, w, n)
<1>1. Raw(s, w, n) \in Nat BY SourceTerms
<1>2. QED BY <1>1 DEF Leg, LegRecord

\* One wrapper for all of n: one leg or none.
LEMMA SingleIsPlan ==
  ASSUME NEW s \in SourcesSet, NEW ws, ws \in SUBSET Wrappers, NEW n \in Nat
  PROVE  /\ PlanFor(s, SingleLeg(s, ws, n), n)
         /\ \A leg \in SingleLeg(s, ws, n) :
              /\ SingleLeg(s, ws, n) = {leg} /\ leg.shares = n /\ leg.wrapper \in ws
              /\ PlanFor(s, {leg}, n)
<1> DEFINE V == {v \in ws : /\ Ahead(s, v) \cap ws = {}
                            /\ Capacity(s, v) >= n /\ Raw(s, v, n) > 0}
           legs == SingleLeg(s, ws, n)
<1>1. legs = {Leg(s, w, n) : w \in V} BY DEF SingleLeg
<1>2. \A v, w \in V : v = w BY AheadOrder
<1>3. ASSUME NEW leg \in legs
      PROVE  legs = {leg} /\ leg.shares = n /\ leg.wrapper \in ws /\ PlanFor(s, {leg}, n)
  <2>1. PICK w \in V : leg = Leg(s, w, n) BY <1>1
  <2>2. /\ leg \in LegRecord /\ leg.wrapper = w /\ leg.shares = n /\ leg.raw = Raw(s, w, n)
    BY <2>1, LegIs
  <2>3. legs = {leg} BY <1>1, <1>2, <2>1
  <2>4. SharesOf({leg}) = n BY <2>2, SharesOfOne
  <2>5. n > 0
    <3>1. Raw(s, w, n) > 0 /\ Raw(s, w, 0) = 0 BY NothingForNothing
    <3>2. n # 0 BY <3>1
    <3>3. QED BY <3>2
  <2>6. Capacity(s, w) >= n /\ Raw(s, w, n) > 0 /\ Capacity(s, w) \in Nat BY SourceTerms
  <2> HIDE DEF V, legs
  <2>7. PlanFor(s, {leg}, n)
    <3>1. IsFiniteSet({leg}) BY FS_Singleton
    <3>2. OnePerWrapper({leg}) BY DEF OnePerWrapper
    <3>3. SharesOf({leg}) \in Nat /\ SharesOf({leg}) <= n BY <2>4
    <3>4. \A l \in {leg} : /\ l.raw = Raw(s, l.wrapper, l.shares) /\ l.raw > 0
                           /\ l.shares <= Capacity(s, l.wrapper) /\ l.shares > 0
      BY <2>2, <2>5, <2>6
    <3>5. QED BY <2>2, <3>1, <3>2, <3>3, <3>4 DEF PlanFor
  <2>8. w \in ws BY DEF V
  <2>9. QED BY <2>2, <2>3, <2>7, <2>8
<1>4. CASE legs = {}
  <2>1. SharesOf({}) = 0
    <3> DEFINE f == [leg \in {} |-> leg.shares]
    <3>1. DOMAIN f = {} OBVIOUS
    <3>2. QED BY <3>1, SumEmpty DEF SharesOf, SumFunction
  <2>2. PlanFor(s, {}, n) BY <2>1, FS_EmptySet DEF PlanFor, OnePerWrapper
  <2>3. QED BY <1>3, <1>4, <2>2
<1>5. QED BY <1>3, <1>4

\* A split over as many wrappers as it takes.
LEMMA SplitIsPlan ==
  ASSUME NEW s \in SourcesSet, NEW n \in Nat
  PROVE  PlanFor(s, SplitLegs(s, n), n)
<1> DEFINE V == {v \in Wrappers : Raw(s, v, Take(s, v, n)) > 0}
           h == [v \in Wrappers |-> Leg(s, v, Take(s, v, n))]
           legs == SplitLegs(s, n)
           f == Takes(s, n)
           g == [leg \in legs |-> leg.shares]
<1>1. legs = {h[w] : w \in V} BY DEF SplitLegs
<1>2. ASSUME NEW w \in V
      PROVE  /\ h[w] \in LegRecord /\ h[w].wrapper = w
             /\ h[w].shares = f[w] /\ h[w].raw = Raw(s, w, f[w]) /\ h[w].raw > 0
             /\ f[w] \in Nat /\ f[w] > 0 /\ f[w] <= Capacity(s, w)
  <2>1. Take(s, w, n) \in Nat /\ Take(s, w, n) <= Capacity(s, w) BY TakeIs
  <2>2. f[w] = Take(s, w, n) /\ h[w] = Leg(s, w, Take(s, w, n)) BY DEF Takes
  <2>3. Raw(s, w, f[w]) > 0 BY <2>2
  <2>4. f[w] # 0
    <3>1. Raw(s, w, 0) = 0 BY NothingForNothing
    <3>2. QED BY <2>3, <3>1
  <2> HIDE DEF f, h
  <2>5. QED BY <2>1, <2>2, <2>3, <2>4, LegIs
<1>3. V \in SUBSET Wrappers /\ IsFiniteSet(V) BY PayoutsAssumption, FS_Subset
<1>4. \A w \in V : f[w] \in Int /\ f[w] = g[h[w]] BY <1>1, <1>2
<1>5. \A v, w \in V : h[v] = h[w] => v = w BY <1>2
<1>6. DOMAIN g = legs OBVIOUS
<1>7. SharesOf(legs) = SumFunctionOnSet(g, legs) BY <1>6 DEF SharesOf, SumFunction
<1>8. SumFunctionOnSet(f, V) <= n BY <1>3, SplitTakesLess
<1> HIDE DEF V, h, legs, f, g
<1>9. IsFiniteSet(legs) /\ SharesOf(legs) = SumFunctionOnSet(f, V)
  BY <1>1, <1>3, <1>4, <1>5, <1>7, SumRenamed
<1>10. SumFunctionOnSet(f, V) \in Nat BY <1>2, <1>3, SumNat
<1>11. legs \subseteq LegRecord /\ OnePerWrapper(legs) BY <1>1, <1>2 DEF OnePerWrapper
<1>12. \A leg \in legs : /\ leg.raw = Raw(s, leg.wrapper, leg.shares) /\ leg.raw > 0
                         /\ leg.shares <= Capacity(s, leg.wrapper) /\ leg.shares > 0
  BY <1>1, <1>2
<1>13. PlanFor(s, legs, n) BY <1>8, <1>9, <1>10, <1>11, <1>12 DEF PlanFor
<1>14. QED BY <1>13 DEF legs

\* planPayout, with the saver's choice of a wrapper or without.
LEMMA PayoutIsPlan ==
  ASSUME NEW s \in SourcesSet, NEW n \in Nat, NEW chosen \in Wrappers \cup {None}
  PROVE  /\ PlanFor(s, PlanPayout(s, n, chosen), n)
         /\ chosen # None => \A leg \in PlanPayout(s, n, chosen) :
              PlanPayout(s, n, chosen) = {leg} /\ leg.shares = n /\ leg.wrapper = chosen
<1>1. CASE chosen # None
  <2> DEFINE ws == {chosen}
             legs == SingleLeg(s, ws, n)
  <2>1. ws \in SUBSET Wrappers BY <1>1
  <2>2. PlanPayout(s, n, chosen) = legs BY <1>1 DEF PlanPayout
  <2>3. /\ PlanFor(s, legs, n)
        /\ \A leg \in legs : legs = {leg} /\ leg.shares = n /\ leg.wrapper \in ws
    <3> HIDE DEF ws
    <3>1. QED BY <2>1, SingleIsPlan
  <2> HIDE DEF legs
  <2>4. QED BY <2>2, <2>3
<1>2. CASE chosen = None
  <2>1. PlanPayout(s, n, chosen) \in {SplitLegs(s, n), {}} BY <1>2 DEF PlanPayout
  <2>2. PlanFor(s, {}, n)
    <3> DEFINE f == [leg \in {} |-> leg.shares]
    <3>1. DOMAIN f = {} OBVIOUS
    <3>2. SharesOf({}) = 0 BY <3>1, SumEmpty DEF SharesOf, SumFunction
    <3>3. QED BY <3>2, FS_EmptySet DEF PlanFor, OnePerWrapper
  <2>3. QED BY <1>2, <2>1, <2>2, SplitIsPlan
<1>3. QED BY <1>1, <1>2

\* A payment is a natural number.
LEMMA PaymentType ==
  ASSUME NEW s \in SourcesSet, NEW leg \in LegRecord, NEW p \in Nat
  PROVE  Payment(s, leg, p) \in Nat
<1>1. leg.wrapper \in Wrappers /\ leg.raw \in Nat BY DEF LegRecord
<1>2. Worth(s, leg.wrapper, leg.raw) \in Nat BY <1>1, SourceTerms
<1>3. PowerOfTen[EQUITY_UNIT_DECIMALS] \in Nat \ {0} BY MathAssumption, PowerType
<1>4. QED BY <1>2, <1>3, MulNat, DivNat DEF Payment

-----------------------------------------------------------------------------
(* What is true throughout *)

OpRecord ==
  [pc : {"idle", "build", "sign", "confirm"}, way : {"shares", "cash"}, amount : Nat,
   chosen : Wrappers \cup {None}, expected : Nat, tx : Transactions \cup {None},
   verdict : {"none", "ok", "err"}]

FormRecord ==
  [open : BOOLEAN, owned : Nat, sources : SourcesSet \cup {None}, amount : Nat,
   way : {"shares", "cash"}, advanced : BOOLEAN, chosen : Wrappers \cup {None},
   quote : [ok : BOOLEAN, payment : Nat] \cup {None}]

\* A transaction has a leg per wrapper at most, and pays in money or in kind.
TxGood(x) ==
  /\ x \in Transactions /\ IsFiniteSet(x.legs) /\ OnePerWrapper(x.legs)
  /\ x.way = "shares" => x.payment = 0

\* What is about to be signed is what was asked for.
Agreed(o) ==
  /\ o.tx.way = o.way
  /\ o.way = "cash" =>
       /\ o.tx.payment >= o.expected
       /\ \E leg \in LegRecord : o.tx.legs = {leg} /\ leg.shares = o.amount
  /\ o.way = "shares" =>
       /\ SharesOf(o.tx.legs) <= o.amount
       /\ o.chosen # None =>
            \E leg \in LegRecord :
              o.tx.legs = {leg} /\ leg.shares = o.amount /\ leg.wrapper = o.chosen

OpGood(o) ==
  /\ o \in OpRecord
  /\ o.pc \in {"sign", "confirm"} => TxGood(o.tx) /\ Agreed(o)

Market ==
  /\ mult \in [Wrappers -> Multipliers] /\ balance \in [Wrappers -> 0..U64_MAX]
  /\ desk \in Nat /\ price \in Prices \cup {None}

Saver ==
  shares \in 0..InitialShares /\ wallet \in [Wrappers -> Nat] /\ cash \in Nat

PayoutInv ==
  /\ Market /\ Saver
  /\ form \in FormRecord /\ form.amount <= form.owned
  /\ OpGood(op)
  /\ \A x \in flight : TxGood(x)
  /\ moves \in Nat

LEMMA SourcesType == ASSUME Market PROVE Sources \in SourcesSet /\ NoSources \in SourcesSet
<1>1. \A w \in Wrappers : balance[w] \in Nat /\ mult[w] \in Multipliers
  BY MathAssumption DEF Market
<1>2. QED BY <1>1 DEF Sources, NoSources, SourcesSet, SourceRecord

LEMMA IdleGood == OpGood(Idle)
BY DEF OpGood, OpRecord, Idle

LEMMA ClosedGood ==
  ASSUME NEW n \in Nat
  PROVE  Closed(n) \in FormRecord /\ Closed(n).amount <= Closed(n).owned
BY DEF Closed, FormRecord

LEMMA InitPayoutInv == Init => PayoutInv
<1> SUFFICES ASSUME Init PROVE PayoutInv OBVIOUS
<1>1. Market
  <2>1. balance \in [Wrappers -> 0..U64_MAX] BY PayoutsAssumption DEF Init
  <2>2. QED BY <2>1, PayoutsAssumption DEF Init, Market
<1>2. Saver BY PayoutsAssumption DEF Init, Saver
<1>3. InitialShares \in Nat BY PayoutsAssumption
<1>4. QED BY <1>1, <1>2, <1>3, IdleGood, ClosedGood DEF Init, PayoutInv

-----------------------------------------------------------------------------
(* Building *)

\* What the app builds for a withdrawal is what the operation asks for.
LEMMA WithdrawGood ==
  ASSUME PayoutInv, NEW o \in OpRecord, o.way = "shares", NEW x \in WithdrawTransactions(o)
  PROVE  /\ TxGood(x) /\ Agreed([o EXCEPT !.tx = x])
         /\ PlanFor(Sources, x.legs, o.amount) /\ x.way = "shares"
<1> DEFINE legs == PlanPayout(Sources, o.amount, o.chosen)
           q == [o EXCEPT !.tx = x]
<1>1. x = [way |-> "shares", legs |-> legs, payment |-> 0, nonce |-> moves] /\ legs # {}
  BY DEF WithdrawTransactions
<1>2. Sources \in SourcesSet BY SourcesType DEF PayoutInv
<1>3. o.amount \in Nat /\ o.chosen \in Wrappers \cup {None} BY DEF OpRecord
<1>4. /\ PlanFor(Sources, legs, o.amount)
      /\ o.chosen # None => \A leg \in legs :
           legs = {leg} /\ leg.shares = o.amount /\ leg.wrapper = o.chosen
  BY <1>2, <1>3, PayoutIsPlan
<1> HIDE DEF legs
<1>5. x.legs = legs /\ x.way = "shares" /\ x.payment = 0 BY <1>1
<1>6. /\ legs \subseteq LegRecord /\ IsFiniteSet(legs) /\ OnePerWrapper(legs)
      /\ SharesOf(legs) <= o.amount
  BY <1>4 DEF PlanFor
<1>7. TxGood(x)
  <2>1. moves \in Nat BY DEF PayoutInv
  <2>2. x \in Transactions BY <1>1, <1>6, <2>1 DEF Transactions
  <2>3. QED BY <1>5, <1>6, <2>2 DEF TxGood
<1>8. q.tx = x /\ q.way = "shares" /\ q.amount = o.amount /\ q.chosen = o.chosen
  BY DEF OpRecord
<1> HIDE DEF q
<1>9. Agreed(q)
  <2>1. q.chosen # None =>
          \E leg \in LegRecord : legs = {leg} /\ leg.shares = q.amount /\ leg.wrapper = q.chosen
    BY <1>1, <1>4, <1>6, <1>8
  <2>2. QED BY <1>5, <1>6, <1>8, <2>1 DEF Agreed
<1>10. QED BY <1>4, <1>5, <1>7, <1>9 DEF q

\* A leg that the cash out service sells is a plan for the shares asked for.
LEMMA CashOutLegIs ==
  ASSUME PayoutInv, NEW n \in Nat, NEW leg \in CashOutLegs(n)
  PROVE  /\ leg \in LegRecord /\ leg.shares = n /\ PlanFor(Sources, {leg}, n)
         /\ price \in Nat /\ Payment(Sources, leg, price) \in Nat
         /\ n <= shares /\ desk >= Payment(Sources, leg, price)
<1>1. Sources \in SourcesSet BY SourcesType DEF PayoutInv
<1>2. leg \in SingleLeg(Sources, Wrappers, n) BY DEF CashOutLegs
<1>3. leg.shares = n /\ PlanFor(Sources, {leg}, n)
  <2>1. Wrappers \in SUBSET Wrappers OBVIOUS
  <2>2. QED BY <1>1, <1>2, <2>1, SingleIsPlan
<1>4. leg \in LegRecord BY <1>3 DEF PlanFor
<1>5. price \in Nat BY PayoutsAssumption DEF CashOutLegs, PayoutInv, Market
<1>6. Payment(Sources, leg, price) \in Nat BY <1>1, <1>4, <1>5, PaymentType
<1>7. n <= shares /\ desk >= Payment(Sources, leg, price) BY DEF CashOutLegs
<1>8. QED BY <1>3, <1>4, <1>5, <1>6, <1>7

\* So is the one leg of a transaction that its route builds.
LEMMA CashOutTransaction ==
  ASSUME PayoutInv, NEW n \in Nat, NEW leg \in CashOutLegs(n), NEW x,
         x = [way |-> "cash", legs |-> {leg}, payment |-> Payment(Sources, leg, price),
              nonce |-> moves]
  PROVE  TxGood(x)
<1>1. leg \in LegRecord /\ PlanFor(Sources, {leg}, n) /\ Payment(Sources, leg, price) \in Nat
  BY CashOutLegIs
<1>2. IsFiniteSet({leg}) /\ OnePerWrapper({leg}) BY <1>1 DEF PlanFor
<1>3. moves \in Nat BY DEF PayoutInv
<1>4. x \in Transactions BY <1>1, <1>3 DEF Transactions
<1>5. x.legs = {leg} /\ x.way = "cash" OBVIOUS
<1>6. QED BY <1>2, <1>4, <1>5 DEF TxGood

\* What the app builds for a cash out is what the operation asks for.
LEMMA CashOutGood ==
  ASSUME PayoutInv, NEW o \in OpRecord, o.way = "cash", NEW x \in CashOutTransactions(o)
  PROVE  TxGood(x) /\ Agreed([o EXCEPT !.tx = x])
<1>1. PICK leg \in CashOutLegs(o.amount) :
        /\ Payment(Sources, leg, price) >= o.expected
        /\ x = [way |-> "cash", legs |-> {leg}, payment |-> Payment(Sources, leg, price),
                nonce |-> moves]
  BY DEF CashOutTransactions
<1>2. o.amount \in Nat BY DEF OpRecord
<1>3. leg \in LegRecord /\ leg.shares = o.amount BY <1>2, CashOutLegIs
<1>4. TxGood(x) BY <1>1, <1>2, CashOutTransaction
<1> DEFINE q == [o EXCEPT !.tx = x]
<1>5. q.tx = x /\ q.way = "cash" /\ q.amount = o.amount /\ q.expected = o.expected
  BY DEF OpRecord
<1>6. x.legs = {leg} /\ x.way = "cash" /\ x.payment = Payment(Sources, leg, price) BY <1>1
<1> HIDE DEF q
<1>7. Agreed(q) BY <1>1, <1>3, <1>5, <1>6 DEF Agreed
<1>8. QED BY <1>4, <1>7 DEF q

-----------------------------------------------------------------------------
(* Landing *)

\* What a transaction pays out and sells of one wrapper, leg by leg.
LEMMA PerWrapper ==
  ASSUME PayoutInv, NEW x, TxGood(x), NEW w \in Wrappers
  PROVE  /\ (\A leg \in x.legs : leg.wrapper # w) => PaidOut(x, w) = 0 /\ SoldOff(x, w) = 0
         /\ \A leg \in x.legs :
              leg.wrapper = w => /\ PaidOut(x, w) = Raw(Sources, w, leg.shares)
                                 /\ SoldOff(x, w) = (IF x.way = "cash" THEN leg.raw ELSE 0)
<1> DEFINE S == {l \in x.legs : l.wrapper = w}
           f == [leg \in S |-> Raw(Sources, w, leg.shares)]
           g == [leg \in S |-> leg.raw]
<1>1. /\ PaidOut(x, w) = SumFunctionOnSet(f, S)
      /\ SoldOff(x, w) = (IF x.way = "cash" THEN SumFunctionOnSet(g, S) ELSE 0)
  <2>1. DOMAIN f = S /\ DOMAIN g = S OBVIOUS
  <2>2. QED BY <2>1 DEF PaidOut, SoldOff, SumFunction
<1>2. CASE \A leg \in x.legs : leg.wrapper # w
  <2>1. S = {} BY <1>2
  <2> HIDE DEF S, f, g
  <2>2. SumFunctionOnSet(f, S) = 0 /\ SumFunctionOnSet(g, S) = 0 BY <2>1, SumEmpty
  <2>3. QED BY <1>1, <1>2, <2>2
<1>3. ASSUME NEW leg \in x.legs, leg.wrapper = w
      PROVE  /\ PaidOut(x, w) = Raw(Sources, w, leg.shares)
             /\ SoldOff(x, w) = (IF x.way = "cash" THEN leg.raw ELSE 0)
  <2>1. S = {leg} BY <1>3 DEF TxGood, OnePerWrapper
  <2>2. leg \in LegRecord BY DEF TxGood, Transactions
  <2>3. leg.shares \in Nat /\ leg.raw \in Nat BY <2>2 DEF LegRecord
  <2>4. Raw(Sources, w, leg.shares) \in Int
    <3>1. Sources \in SourcesSet BY SourcesType DEF PayoutInv
    <3>2. QED BY <2>3, <3>1, SourceTerms
  <2>5. f[leg] = Raw(Sources, w, leg.shares) /\ g[leg] = leg.raw BY <2>1
  <2> HIDE DEF S, f, g
  <2>6. SumFunctionOnSet(f, {leg}) = f[leg] /\ SumFunctionOnSet(g, {leg}) = g[leg]
    BY <2>3, <2>4, <2>5, SumSingle
  <2>7. QED BY <1>1, <2>1, <2>5, <2>6
<1>4. QED BY <1>2, <1>3

\* What the program accepts, the vault has.
LEMMA PaidOutHeld ==
  ASSUME PayoutInv, NEW x, TxGood(x), Acceptable(x), NEW w \in Wrappers
  PROVE  /\ PaidOut(x, w) \in Nat /\ PaidOut(x, w) <= balance[w]
         /\ SoldOff(x, w) \in Nat /\ SoldOff(x, w) <= wallet[w] + PaidOut(x, w)
<1>1. balance[w] \in Nat /\ wallet[w] \in Nat BY DEF PayoutInv, Market, Saver
<1>2. PaidOut(x, w) \in Nat /\ PaidOut(x, w) <= balance[w] /\ SoldOff(x, w) \in Nat
  <2>1. CASE \A leg \in x.legs : leg.wrapper # w BY <1>1, <2>1, PerWrapper
  <2>2. ASSUME NEW leg \in x.legs, leg.wrapper = w
        PROVE  PaidOut(x, w) \in Nat /\ PaidOut(x, w) <= balance[w] /\ SoldOff(x, w) \in Nat
    <3>1. Raw(Sources, w, leg.shares) \in 1..balance[w] BY <2>2 DEF Acceptable, PaysOut
    <3>2. leg.raw \in Nat BY DEF TxGood, Transactions, LegRecord
    <3>3. QED BY <1>1, <2>2, <3>1, <3>2, PerWrapper
  <2>3. QED BY <2>1, <2>2
<1>3. SoldOff(x, w) <= wallet[w] + PaidOut(x, w)
  <2>1. CASE x.way = "cash" BY <1>1, <1>2, <2>1 DEF Acceptable
  <2>2. CASE x.way # "cash"
    <3>1. SoldOff(x, w) = 0 BY <2>2 DEF SoldOff
    <3>2. QED BY <1>1, <1>2, <3>1
  <2>3. QED BY <2>1, <2>2
<1>4. QED BY <1>2, <1>3

\* The burn is a natural number, as every leg's shares are.
LEMMA BurnedType == ASSUME NEW x, TxGood(x) PROVE Burned(x) \in Nat
<1> DEFINE f == [leg \in x.legs |-> leg.shares]
<1>1. DOMAIN f = x.legs /\ \A leg \in x.legs : f[leg] \in Nat
  BY DEF TxGood, Transactions, LegRecord
<1>2. Burned(x) = SumFunctionOnSet(f, x.legs) BY <1>1 DEF Burned, SumFunction
<1>3. IsFiniteSet(x.legs) BY DEF TxGood
<1> HIDE DEF f
<1>4. QED BY <1>1, <1>2, <1>3, SumNat

LEMMA LandStep ==
  ASSUME PayoutInv, NEW x \in flight, Land(x) PROVE PayoutInv'
<1>1. TxGood(x) BY DEF PayoutInv
<1>2. OpGood(op')
  <2>1. CASE op' = op BY <2>1 DEF PayoutInv
  <2>2. ASSUME NEW v \in {"ok", "err"}, op' = [op EXCEPT !.verdict = v] PROVE OpGood(op')
    <3>1. op \in OpRecord BY DEF PayoutInv, OpGood
    <3>2. op' \in OpRecord BY <2>2, <3>1 DEF OpRecord
    <3>3. /\ op'.pc = op.pc /\ op'.way = op.way /\ op'.amount = op.amount
          /\ op'.chosen = op.chosen /\ op'.expected = op.expected /\ op'.tx = op.tx
      BY <2>2, <3>1 DEF OpRecord
    <3>4. Agreed(op) => Agreed(op') BY <3>3 DEF Agreed
    <3>5. QED BY <3>2, <3>3, <3>4 DEF PayoutInv, OpGood
  <2>3. QED BY <2>1, <2>2 DEF Land
<1>3. (\A y \in flight' : TxGood(y)) BY DEF Land, PayoutInv
<1>4. form' = form /\ mult' = mult /\ price' = price /\ moves' = moves BY DEF Land
<1>5. CASE ~Acceptable(x)
  <2>1. UNCHANGED <<saver, balance, desk>> BY <1>5 DEF Land
  <2>2. Market' /\ Saver' BY <1>4, <2>1 DEF PayoutInv, Market, Saver, saver
  <2>3. QED BY <1>2, <1>3, <1>4, <2>2 DEF PayoutInv
<1>6. CASE Acceptable(x)
  <2>1. /\ shares' = shares - Burned(x)
        /\ balance' = [w \in Wrappers |-> balance[w] - PaidOut(x, w)]
        /\ wallet' = [w \in Wrappers |-> wallet[w] + PaidOut(x, w) - SoldOff(x, w)]
        /\ cash' = cash + x.payment /\ desk' = desk - x.payment
    BY <1>6 DEF Land
  <2>2. \A w \in Wrappers : balance[w] - PaidOut(x, w) \in 0..U64_MAX
    <3> SUFFICES ASSUME NEW w \in Wrappers
                 PROVE  balance[w] - PaidOut(x, w) \in 0..U64_MAX
      OBVIOUS
    <3>1. balance[w] \in 0..U64_MAX BY DEF PayoutInv, Market
    <3>2. PaidOut(x, w) \in Nat /\ PaidOut(x, w) <= balance[w]
      BY <1>1, <1>6, PaidOutHeld
    <3>3. U64_MAX \in Nat BY MathAssumption
    <3>4. QED BY <3>1, <3>2, <3>3
  <2>3. \A w \in Wrappers : wallet[w] + PaidOut(x, w) - SoldOff(x, w) \in Nat
    <3>1. \A w \in Wrappers : wallet[w] \in Nat BY DEF PayoutInv, Saver
    <3>2. QED BY <1>1, <1>6, <3>1, PaidOutHeld
  <2>4. Burned(x) \in Nat /\ Burned(x) <= shares BY <1>1, <1>6, BurnedType DEF Acceptable
  <2>5. x.payment \in Nat /\ x.payment <= desk
    <3>1. x.payment \in Nat /\ x.way \in {"shares", "cash"} BY <1>1 DEF TxGood, Transactions
    <3>2. desk \in Nat BY DEF PayoutInv, Market
    <3>3. x.way = "shares" => x.payment = 0 BY <1>1 DEF TxGood
    <3>4. x.way = "cash" => desk >= x.payment BY <1>6 DEF Acceptable
    <3>5. QED BY <3>1, <3>2, <3>3, <3>4
  <2>6. balance' \in [Wrappers -> 0..U64_MAX] /\ wallet' \in [Wrappers -> Nat] BY <2>1, <2>2, <2>3
  <2>7. shares' \in 0..InitialShares
    <3>1. shares \in 0..InitialShares /\ InitialShares \in Nat
      BY PayoutsAssumption DEF PayoutInv, Saver
    <3>2. QED BY <2>1, <2>4, <3>1
  <2>8. Market'
    <3>1. desk' \in Nat BY <2>1, <2>5 DEF PayoutInv, Market
    <3>2. QED BY <1>4, <2>6, <3>1 DEF PayoutInv, Market
  <2>9. Saver'
    <3>1. cash' \in Nat BY <2>1, <2>5 DEF PayoutInv, Saver
    <3>2. QED BY <2>6, <2>7, <3>1 DEF Saver
  <2>10. QED BY <1>2, <1>3, <1>4, <2>8, <2>9 DEF PayoutInv
<1>7. QED BY <1>5, <1>6

-----------------------------------------------------------------------------
(* The screen and the operation *)

\* What the screen hands on as the saver's choice of a wrapper is one, or none.
LEMMA ChosenIs ==
  ASSUME PayoutInv, form.sources # None PROVE Chosen \in Wrappers \cup {None}
<1> DEFINE legs == PlanPayout(form.sources, form.amount, None)
           covered == {w \in Wrappers : Covered(form.sources, w, form.amount)}
<1>1. form.sources \in SourcesSet /\ form.amount \in Nat /\ form.chosen \in Wrappers \cup {None}
  BY DEF PayoutInv, FormRecord
<1>2. legs \subseteq LegRecord BY <1>1, PayoutIsPlan DEF PlanFor
<1>3. Silent \in Wrappers \cup {None}
  <2> HIDE DEF legs, covered
  <2>1. Silent = IF Cardinality(legs) = 1 THEN (CHOOSE leg \in legs : TRUE).wrapper
                 ELSE IF covered = {} THEN None ELSE Min(covered)
    BY DEF Silent, legs, covered
  <2>2. CASE Cardinality(legs) = 1
    <3>1. legs # {} BY <2>2, FS_EmptySet
    <3>2. (CHOOSE leg \in legs : TRUE) \in legs BY <3>1
    <3>3. (CHOOSE leg \in legs : TRUE) \in LegRecord BY <1>2, <3>2
    <3>4. QED BY <2>1, <2>2, <3>3 DEF LegRecord
  <2>3. CASE Cardinality(legs) # 1 /\ covered = {} BY <2>1, <2>3
  <2>4. CASE Cardinality(legs) # 1 /\ covered # {}
    <3>1. covered \subseteq Wrappers /\ covered \subseteq Nat BY PayoutsAssumption DEF covered
    <3>2. \E m \in covered : \A y \in covered : m <= y BY <2>4, <3>1, LeastOf
    <3>3. Min(covered) \in covered BY <3>2 DEF Min
    <3>4. QED BY <2>1, <2>4, <3>1, <3>3
  <2>5. QED BY <2>2, <2>3, <2>4
<1>4. QED BY <1>1, <1>3 DEF Chosen

\* The screen's steps leave everything else alone.
LEMMA FormStep ==
  ASSUME PayoutInv, NEW f, f \in FormRecord, f.amount <= f.owned, form' = f,
         Same, op' = op, moves' \in Nat
  PROVE  PayoutInv'
<1>1. Market' /\ Saver' BY DEF Same, market, saver, PayoutInv, Market, Saver
<1>2. QED BY <1>1 DEF Same, PayoutInv

LEMMA MoveType == ASSUME PayoutInv, Move PROVE moves' \in Nat
BY DEF PayoutInv, Move

LEMMA ScreenStep ==
  ASSUME PayoutInv, Open \/ LoadSources \/ LoadErrs \/ Type \/ Choose \/ Quote \/ Back
  PROVE  PayoutInv'
<1>1. /\ form \in FormRecord /\ form.amount <= form.owned /\ moves \in Nat
      /\ Sources \in SourcesSet /\ NoSources \in SourcesSet
  BY SourcesType DEF PayoutInv
<1>2. CASE Open
  <2> DEFINE f == [Closed(form.owned) EXCEPT !.open = TRUE]
  <2>1. form.owned \in Nat BY <1>1 DEF FormRecord
  <2>2. f \in FormRecord /\ f.amount <= f.owned
    <3>1. Closed(form.owned) \in FormRecord /\ Closed(form.owned).amount = 0
      BY <2>1, ClosedGood DEF Closed
    <3>2. f \in FormRecord /\ f.amount = 0 /\ f.owned = form.owned
      BY <2>1, <3>1 DEF Closed, FormRecord
    <3>3. QED BY <2>1, <3>2
  <2>3. form' = f /\ Same /\ op' = op /\ moves' = moves BY <1>2 DEF Open
  <2> HIDE DEF f
  <2>4. QED BY <1>1, <2>2, <2>3, FormStep
<1>3. CASE LoadSources
  <2> DEFINE f == [form EXCEPT !.sources = Sources]
  <2>1. f \in FormRecord /\ f.amount <= f.owned BY <1>1 DEF FormRecord
  <2>2. form' = f /\ Same /\ op' = op /\ moves' = moves BY <1>3 DEF LoadSources
  <2> HIDE DEF f
  <2>3. QED BY <1>1, <2>1, <2>2, FormStep
<1>4. CASE LoadErrs
  <2> DEFINE f == [form EXCEPT !.sources = NoSources]
  <2>1. f \in FormRecord /\ f.amount <= f.owned BY <1>1 DEF FormRecord
  <2>2. form' = f /\ Same /\ op' = op /\ moves' \in Nat BY <1>4, MoveType DEF LoadErrs
  <2> HIDE DEF f
  <2>3. QED BY <2>1, <2>2, FormStep
<1>5. CASE Type
  <2>1. PICK n \in (Amounts \cap 1..form.owned) \ {form.amount} :
          form' = [form EXCEPT !.amount = n, !.quote = None]
    BY <1>5 DEF Type
  <2> DEFINE f == [form EXCEPT !.amount = n, !.quote = None]
  <2>2. n \in Nat /\ n <= form.owned BY <1>1 DEF FormRecord
  <2>3. f \in FormRecord /\ f.amount <= f.owned BY <1>1, <2>2 DEF FormRecord
  <2>4. form' = f /\ Same /\ op' = op /\ moves' = moves BY <1>5, <2>1 DEF Type
  <2> HIDE DEF f
  <2>5. QED BY <1>1, <2>3, <2>4, FormStep
<1>6. CASE Choose
  <2>1. form' \in FormRecord /\ form'.amount = form.amount /\ form'.owned = form.owned
    BY <1>1, <1>6 DEF Choose, FormRecord
  <2>2. Same /\ op' = op /\ moves' = moves BY <1>6 DEF Choose
  <2>3. QED BY <1>1, <2>1, <2>2, FormStep
<1>7. CASE Quote
  <2>1. PICK q \in [ok : BOOLEAN, payment : Nat] : form' = [form EXCEPT !.quote = q]
    <3>1. CASE CashOutLegs(form.amount) = {} BY <1>7, <3>1 DEF Quote
    <3>2. CASE CashOutLegs(form.amount) # {}
      <4>1. PICK leg \in CashOutLegs(form.amount) :
              form' = [form EXCEPT !.quote = [ok |-> TRUE, payment |-> Payment(Sources, leg, price)]]
        BY <1>7, <3>2 DEF Quote
      <4>2. form.amount \in Nat BY <1>1 DEF FormRecord
      <4>3. Payment(Sources, leg, price) \in Nat BY <4>2, CashOutLegIs
      <4>4. QED BY <4>1, <4>3
    <3>3. QED BY <3>1, <3>2
  <2> DEFINE f == [form EXCEPT !.quote = q]
  <2>2. f \in FormRecord /\ f.amount <= f.owned BY <1>1 DEF FormRecord
  <2>3. form' = f /\ Same /\ op' = op /\ moves' = moves BY <1>7, <2>1 DEF Quote
  <2> HIDE DEF f
  <2>4. QED BY <1>1, <2>2, <2>3, FormStep
<1>8. CASE Back
  <2> DEFINE f == Closed(form.owned)
  <2>1. form.owned \in Nat BY <1>1 DEF FormRecord
  <2>2. f \in FormRecord /\ f.amount <= f.owned BY <2>1, ClosedGood
  <2>3. form' = f /\ Same /\ op' = op /\ moves' = moves BY <1>8 DEF Back
  <2> HIDE DEF f
  <2>4. QED BY <1>1, <2>2, <2>3, FormStep
<1>9. QED BY <1>2, <1>3, <1>4, <1>5, <1>6, <1>7, <1>8

\* A step of the operation, whatever it does to the form and to what may land.
LEMMA OpStep ==
  ASSUME PayoutInv, UNCHANGED <<market, saver>>, OpGood(op'),
         form' \in {form, Closed(shares), Closed(form.owned)}, \A x \in flight' : TxGood(x), moves' \in Nat
  PROVE  PayoutInv'
<1>1. Market' /\ Saver' BY DEF market, saver, PayoutInv, Market, Saver
<1>2. form' \in FormRecord /\ form'.amount <= form'.owned
  <2>1. shares \in Nat BY PayoutsAssumption DEF PayoutInv, Saver
  <2>2. form.owned \in Nat BY DEF PayoutInv, FormRecord
  <2>3. QED BY <2>1, <2>2, ClosedGood DEF PayoutInv
<1>3. QED BY <1>1, <1>2 DEF PayoutInv

LEMMA OperationStep ==
  ASSUME PayoutInv, Submit \/ Build \/ Sign \/ Decline \/ Confirm \/ GiveUp
  PROVE  PayoutInv'
<1>1. /\ op \in OpRecord /\ moves \in Nat /\ form \in FormRecord
      /\ \A x \in flight : TxGood(x)
  BY DEF PayoutInv, OpGood
<1>2. CASE Submit
  <2>1. UNCHANGED <<market, saver>> /\ flight' = flight /\ form' = form /\ moves' = moves
    BY <1>2 DEF Submit, Same
  <2>2. form.amount \in Nat BY <1>1 DEF FormRecord
  <2>3. CASE form.way = "shares"
    <3>1. form.sources # None BY <1>2, <2>3 DEF Submit, SharesReady
    <3>2. Chosen \in Wrappers \cup {None} BY <3>1, ChosenIs
    <3>3. op' = [Idle EXCEPT !.pc = "build", !.amount = form.amount, !.chosen = Chosen]
      BY <1>2, <2>3 DEF Submit
    <3>4. OpGood(op') BY <2>2, <3>2, <3>3 DEF Idle, OpGood, OpRecord
    <3>5. QED BY <1>1, <2>1, <3>4, OpStep
  <2>4. CASE form.way # "shares"
    <3>1. form.quote # None BY <1>2, <2>4 DEF Submit
    <3>2. form.quote.payment \in Nat BY <1>1, <3>1 DEF FormRecord
    <3>3. op' = [Idle EXCEPT !.pc = "build", !.way = "cash", !.amount = form.amount,
                             !.expected = form.quote.payment]
      BY <1>2, <2>4 DEF Submit
    <3>4. OpGood(op') BY <2>2, <3>2, <3>3 DEF Idle, OpGood, OpRecord
    <3>5. QED BY <1>1, <2>1, <3>4, OpStep
  <2>5. QED BY <2>3, <2>4
<1>3. CASE Build
  <2>1. UNCHANGED <<market, saver>> /\ flight' = flight /\ form' = form /\ moves' = moves
    BY <1>3 DEF Build, Same
  <2>2. CASE op' = Idle BY <1>1, <2>1, <2>2, IdleGood, OpStep
  <2>3. CASE op' # Idle
    <3>1. PICK x : /\ x \in (IF op.way = "shares" THEN WithdrawTransactions(op)
                             ELSE CashOutTransactions(op))
                   /\ op' = [op EXCEPT !.pc = "sign", !.tx = x]
      BY <1>3, <2>3 DEF Build
    <3>2. op.way \in {"shares", "cash"} BY <1>1 DEF OpRecord
    <3>3. TxGood(x) /\ Agreed([op EXCEPT !.tx = x])
      BY <1>1, <3>1, <3>2, WithdrawGood, CashOutGood
    <3> DEFINE q == [op EXCEPT !.tx = x]
    <3>4. /\ op' \in OpRecord /\ op'.tx = x
          /\ q.tx = op'.tx /\ q.way = op'.way /\ q.amount = op'.amount
          /\ q.chosen = op'.chosen /\ q.expected = op'.expected
      BY <1>1, <3>1, <3>3 DEF OpRecord, TxGood
    <3>5. Agreed(q) BY <3>3
    <3> HIDE DEF q
    <3>6. Agreed(op') BY <3>4, <3>5 DEF Agreed
    <3>7. OpGood(op') BY <3>3, <3>4, <3>6 DEF OpGood
    <3>8. QED BY <1>1, <2>1, <3>7, OpStep
  <2>4. QED BY <2>2, <2>3
<1>4. CASE Sign
  <2>1. UNCHANGED <<market, saver>> /\ form' = form /\ moves' = moves BY <1>4 DEF Sign
  <2>2. TxGood(op.tx) /\ Agreed(op) BY <1>4 DEF Sign, PayoutInv, OpGood
  <2>3. \A x \in flight' : TxGood(x) BY <1>1, <1>4, <2>2 DEF Sign
  <2>4. /\ op' \in OpRecord /\ op'.tx = op.tx /\ op'.way = op.way /\ op'.amount = op.amount
        /\ op'.chosen = op.chosen /\ op'.expected = op.expected
    BY <1>1, <1>4 DEF Sign, OpRecord
  <2>5. Agreed(op') BY <2>2, <2>4 DEF Agreed
  <2>6. OpGood(op') BY <2>2, <2>4, <2>5 DEF OpGood
  <2>7. QED BY <1>1, <2>1, <2>3, <2>6, OpStep
<1>5. CASE Decline
  <2>1. UNCHANGED <<market, saver>> /\ flight' = flight /\ form' = form /\ moves' = moves
        /\ op' = Idle
    BY <1>5 DEF Decline, Same
  <2>2. QED BY <1>1, <2>1, IdleGood, OpStep
<1>6. CASE Confirm
  <2>1. UNCHANGED <<market, saver>> /\ flight' = flight /\ op' = Idle
        /\ form' \in {form, Closed(shares), Closed(form.owned)}
    BY <1>6 DEF Confirm, Same
  <2>2. moves' \in Nat BY <1>1, <1>6, MoveType DEF Confirm
  <2>3. QED BY <1>1, <2>1, <2>2, IdleGood, OpStep
<1>7. CASE GiveUp
  <2>1. UNCHANGED <<market, saver>> /\ form' = form /\ op' = Idle BY <1>7 DEF GiveUp
  <2>2. (\A x \in flight' : TxGood(x)) /\ moves' \in Nat BY <1>1, <1>7, MoveType DEF GiveUp
  <2>3. QED BY <2>1, <2>2, IdleGood, OpStep
<1>8. QED BY <1>2, <1>3, <1>4, <1>5, <1>6, <1>7

LEMMA OthersStep == ASSUME PayoutInv, Others PROVE PayoutInv'
<1>1. moves' \in Nat BY MoveType DEF Others
<1>2. Market' BY PayoutsAssumption DEF Others, PayoutInv, Market
<1>3. Saver' BY DEF Others, saver, PayoutInv, Saver
<1>4. QED BY <1>1, <1>2, <1>3 DEF Others, PayoutInv

LEMMA PayoutStep == PayoutInv /\ [Next]_vars => PayoutInv'
<1> SUFFICES ASSUME PayoutInv, [Next]_vars PROVE PayoutInv' OBVIOUS
<1>1. CASE UNCHANGED vars
  BY <1>1 DEF vars, market, saver, PayoutInv, Market, Saver
<1>2. CASE Next BY <1>2, ScreenStep, OperationStep, OthersStep, LandStep DEF Next
<1>3. QED BY <1>1, <1>2

LEMMA PayoutAlways == Spec => []PayoutInv
BY InitPayoutInv, PayoutStep, PTL DEF Spec

-----------------------------------------------------------------------------
(* The theorems *)

\* Whatever was planned on old balances and whatever moved since, no account of the
\* saver's, the vault's or the desk's is drawn below zero.
THEOREM PayoutTypes == Spec => []TypeOK
<1>1. PayoutInv => TypeOK
  <2> SUFFICES ASSUME PayoutInv PROVE TypeOK OBVIOUS
  <2>1. form.amount \in 0..form.owned /\ form.open \in BOOLEAN BY DEF PayoutInv, FormRecord
  <2>2. op.pc \in {"idle", "build", "sign", "confirm"} BY DEF PayoutInv, OpGood, OpRecord
  <2>3. op.pc \in {"sign", "confirm"} => op.tx # None
    BY PayoutsAssumption DEF PayoutInv, OpGood, TxGood
  <2>4. shares \in Nat BY PayoutsAssumption DEF PayoutInv, Saver
  <2>5. balance \in [Wrappers -> Nat] BY MathAssumption DEF PayoutInv, Market
  <2>6. QED BY <2>1, <2>2, <2>3, <2>4, <2>5 DEF PayoutInv, Market, Saver, TypeOK
<1>2. QED BY <1>1, PayoutAlways, PTL

\* The step that takes a transaction out of flight and moves the saver's accounts lands it.
LEMMA OnlyLandingPays ==
  ASSUME Next, NEW x \in flight, x \notin flight', saver' # saver
  PROVE  Land(x) /\ Acceptable(x)
<1>1. \E y \in flight : Land(y)
  BY DEF Next, Open, LoadSources, LoadErrs, Type, Choose, Quote, Back, Submit, Build, Sign,
         Decline, Confirm, GiveUp, Others, Same, saver
<1>2. PICK y \in flight : Land(y) BY <1>1
<1>3. y = x BY <1>2 DEF Land
<1>4. QED BY <1>2, <1>3 DEF Land

\* A cash out that lands pays at least what the saver agreed to, for exactly the shares
\* asked for, whatever moved between the quote, the build and the landing.
THEOREM QuoteIsPaid == Spec => CashOutPaysTheQuote
<1> DEFINE Pays(x) ==
      x = op.tx /\ x \notin flight' /\ x.way = "cash" /\ op.pc = "confirm" /\ cash' # cash =>
        cash' - cash >= op.expected /\ shares - shares' = op.amount
<1>1. ASSUME PayoutInv, Next, NEW x \in flight PROVE Pays(x)
  <2> SUFFICES ASSUME x = op.tx, x \notin flight', x.way = "cash", op.pc = "confirm", cash' # cash
               PROVE  cash' - cash >= op.expected /\ shares - shares' = op.amount
    OBVIOUS
  <2>1. saver' # saver BY DEF saver
  <2>2. Land(x) /\ Acceptable(x) BY <1>1, <2>1, OnlyLandingPays
  <2>3. cash' = cash + x.payment /\ shares' = shares - Burned(x) BY <2>2 DEF Land
  <2>4. TxGood(x) /\ Agreed(op) BY <1>1 DEF PayoutInv, OpGood
  <2>5. PICK leg \in LegRecord : x.legs = {leg} /\ leg.shares = op.amount BY <2>4 DEF Agreed
  <2>6. Burned(x) = op.amount BY <2>5, SharesOfOne DEF Burned, SharesOf
  <2>7. x.payment >= op.expected BY <2>4 DEF Agreed
  <2>8. x.payment \in Nat BY <2>4 DEF TxGood, Transactions
  <2>9. cash \in Nat /\ shares \in Nat /\ op.amount \in Nat /\ op.expected \in Nat
    BY <1>1, PayoutsAssumption DEF PayoutInv, Saver, OpGood, OpRecord
  <2>10. QED BY <2>3, <2>6, <2>7, <2>8, <2>9
<1>2. PayoutInv /\ [Next]_vars => [\A x \in flight : Pays(x)]_vars BY <1>1
<1>3. QED BY <1>2, PayoutAlways, PTL DEF Spec, CashOutPaysTheQuote

\* A withdrawal that lands burns no more than was asked for, and through a wrapper that
\* the saver chose exactly that, paying nothing else.
THEOREM AskedIsWithdrawn == Spec => WithdrawsWhatWasAsked
<1> DEFINE Fits(x) ==
      x = op.tx /\ x \notin flight' /\ x.way = "shares" /\ op.pc = "confirm" /\ shares' # shares =>
        /\ shares - shares' <= op.amount
        /\ op.chosen # None =>
             /\ shares - shares' = op.amount
             /\ \A w \in Wrappers \ {op.chosen} : wallet'[w] = wallet[w]
<1>1. ASSUME PayoutInv, Next, NEW x \in flight PROVE Fits(x)
  <2> SUFFICES ASSUME x = op.tx, x \notin flight', x.way = "shares", op.pc = "confirm",
                      shares' # shares
               PROVE  /\ shares - shares' <= op.amount
                      /\ op.chosen # None =>
                           /\ shares - shares' = op.amount
                           /\ \A w \in Wrappers \ {op.chosen} : wallet'[w] = wallet[w]
    OBVIOUS
  <2>1. saver' # saver BY DEF saver
  <2>2. Land(x) /\ Acceptable(x) BY <1>1, <2>1, OnlyLandingPays
  <2>3. /\ shares' = shares - Burned(x)
        /\ wallet' = [w \in Wrappers |-> wallet[w] + PaidOut(x, w) - SoldOff(x, w)]
    BY <2>2 DEF Land
  <2>4. TxGood(x) /\ Agreed(op) BY <1>1 DEF PayoutInv, OpGood
  <2>5. Burned(x) \in Nat /\ Burned(x) = SharesOf(x.legs)
    BY <2>4, BurnedType DEF Burned, SharesOf
  <2>6. /\ shares \in Nat /\ op.amount \in Nat
        /\ \A w \in Wrappers : wallet[w] \in Nat
    BY <1>1, PayoutsAssumption DEF PayoutInv, Saver, OpGood, OpRecord
  <2>7. SharesOf(x.legs) <= op.amount BY <2>4 DEF Agreed
  <2>8. shares - shares' <= op.amount BY <2>3, <2>5, <2>6, <2>7
  <2>9. ASSUME op.chosen # None
        PROVE  /\ shares - shares' = op.amount
               /\ \A w \in Wrappers \ {op.chosen} : wallet'[w] = wallet[w]
    <3>1. PICK leg \in LegRecord :
            x.legs = {leg} /\ leg.shares = op.amount /\ leg.wrapper = op.chosen
      BY <2>4, <2>9 DEF Agreed
    <3>2. Burned(x) = op.amount BY <2>5, <3>1, SharesOfOne
    <3>3. \A w \in Wrappers \ {op.chosen} : PaidOut(x, w) = 0 /\ SoldOff(x, w) = 0
      BY <1>1, <2>4, <3>1, PerWrapper
    <3>4. QED BY <2>3, <2>6, <3>2, <3>3
  <2>10. QED BY <2>8, <2>9
<1>2. PayoutInv /\ [Next]_vars => [\A x \in flight : Fits(x)]_vars BY <1>1
<1>3. QED BY <1>2, PayoutAlways, PTL DEF Spec, WithdrawsWhatWasAsked

-----------------------------------------------------------------------------
(* What the planner plans, the program accepts *)

\* A leg within its wrapper's capacity: the vault has what it pays, and no width is short.
LEMMA LegAccepted ==
  ASSUME PayoutInv, NEW leg \in LegRecord, leg.shares > 0, leg.raw > 0,
         leg.raw = Raw(Sources, leg.wrapper, leg.shares),
         leg.shares <= Capacity(Sources, leg.wrapper)
  PROVE  PaysOut(leg)
<1> DEFINE w == leg.wrapper
           n == leg.shares
           d == Decimals[w]
           m == mult[w]
           q == RawRate(d, m)
           z == Raw(Sources, w, n)
<1>1. w \in Wrappers /\ n \in Nat BY DEF LegRecord
<1>2. Sources \in SourcesSet BY SourcesType DEF PayoutInv
<1>3. /\ balance[w] \in 0..U64_MAX /\ m \in Multipliers /\ m \in Nat \ {0}
      /\ d \in 0..MAX_DECIMALS /\ Sources[w].balance = balance[w] /\ Sources[w].mult = m
  BY <1>1, PayoutsAssumption DEF PayoutInv, Market, Sources
<1>4. z = ConvertAmount(n, q) /\ z \in Nat /\ z > 0
  BY <1>1, <1>2, <1>3, SourceTerms DEF Raw, FromEquityUnits
<1>5. z <= balance[w] BY <1>1, <1>2, <1>3, CapacityCovers
<1>6. /\ RATE_SCALE \in Nat \ {0} /\ MULTIPLIER_SCALE \in Nat \ {0} /\ U64_MAX \in Nat
      /\ EQUITY_UNIT_DECIMALS \in 0..MAX_DECIMALS /\ U128_MAX \in Nat
  BY MathAssumption
<1>7. q \in Nat /\ q = ComputeRate(MULTIPLIER_SCALE, EQUITY_UNIT_DECIMALS, m, d)
  BY <1>3, <1>6, ComputeRateType DEF RawRate
<1>8. q > 0
  <2>1. q = 0 => z = 0
    <3>1. n * 0 = 0 /\ 0 \div RATE_SCALE = 0 BY <1>1, <1>6
    <3> HIDE DEF q, z, n
    <3>2. QED BY <1>4, <3>1 DEF ConvertAmount
  <2> HIDE DEF q, z
  <2>2. QED BY <1>4, <1>7, <2>1
<1>9. RateDefined(MULTIPLIER_SCALE, EQUITY_UNIT_DECIMALS, m, d)
  <2>1. /\ FitsU128(RateNumerator(MULTIPLIER_SCALE, EQUITY_UNIT_DECIMALS, d))
        /\ FitsU128(RateDenominator(m, EQUITY_UNIT_DECIMALS, d))
    BY <1>1, <1>3, WidthsAssumption
  <2> HIDE DEF d, m, q
  <2>2. QED BY <1>3, <1>6, <1>7, <1>8, <2>1 DEF RateDefined
<1>10. FitsU64(ConvertAmount(n, q))
  <2> HIDE DEF q, z, n, w
  <2>1. QED BY <1>3, <1>4, <1>5, <1>6 DEF FitsU64
<1>11. FitsU128(n * q)
  <2> DEFINE a == n * q
             R == RATE_SCALE
             U == U64_MAX
  <2>1. a \in Nat BY <1>1, <1>7, MulNat
  <2>2. a < (z + 1) * R
    <3>1. z = a \div R BY <1>4 DEF ConvertAmount
    <3> HIDE DEF a, z, R
    <3>2. QED BY <1>6, <2>1, <3>1, DivBounds DEF R
  <2>3. (U + 1) * R \in Nat /\ (U + 1) * R <= U128_MAX
    BY WidthsAssumption, <1>6 DEF FitsU128
  <2>4. z <= U /\ U \in Nat /\ R \in Nat BY <1>3, <1>4, <1>5, <1>6
  <2> HIDE DEF a, z, R, U, w
  <2>5. z + 1 \in Nat /\ U + 1 \in Nat /\ z + 1 <= U + 1 BY <1>4, <2>4
  <2>6. (z + 1) * R <= (U + 1) * R BY <2>4, <2>5, MulMonotone
  <2>7. (z + 1) * R \in Nat BY <2>4, <2>5, MulNat
  <2>8. QED BY <1>6, <2>1, <2>2, <2>3, <2>6, <2>7 DEF FitsU128, a
<1>12. FromEquityUnitsDefined(n, d, m)
  <2> HIDE DEF n, d, m
  <2>1. QED BY <1>9, <1>10, <1>11 DEF FromEquityUnitsDefined, ConvertDefined, q
<1>13. z \in 1..balance[w] BY <1>3, <1>4, <1>5
<1>14. QED BY <1>12, <1>13 DEF PaysOut

\* A plan on the balances of this moment for shares that the saver holds is accepted.
LEMMA PlanAccepted ==
  ASSUME PayoutInv, NEW x, TxGood(x), NEW n \in Nat, n <= shares,
         PlanFor(Sources, x.legs, n),
         x.way = "cash" => x.payment > 0 /\ desk >= x.payment
  PROVE  Acceptable(x)
<1>1. \A leg \in x.legs : PaysOut(leg) BY LegAccepted DEF PlanFor
<1>2. Burned(x) <= shares
  <2>1. Burned(x) = SharesOf(x.legs) BY DEF Burned, SharesOf
  <2>2. SharesOf(x.legs) \in Nat /\ SharesOf(x.legs) <= n BY DEF PlanFor
  <2>3. shares \in Nat BY PayoutsAssumption DEF PayoutInv, Saver
  <2>4. QED BY <2>1, <2>2, <2>3
<1>3. ASSUME x.way = "cash", NEW w \in Wrappers
      PROVE  wallet[w] + PaidOut(x, w) >= SoldOff(x, w)
  <2>1. wallet[w] \in Nat BY DEF PayoutInv, Saver
  <2>2. CASE \A leg \in x.legs : leg.wrapper # w BY <2>1, <2>2, PerWrapper
  <2>3. ASSUME NEW leg \in x.legs, leg.wrapper = w
        PROVE  wallet[w] + PaidOut(x, w) >= SoldOff(x, w)
    <3>1. leg.raw = Raw(Sources, w, leg.shares) /\ leg.raw \in Nat
      BY <2>3 DEF PlanFor, LegRecord
    <3>2. PaidOut(x, w) = leg.raw /\ SoldOff(x, w) = leg.raw
      BY <1>3, <2>3, <3>1, PerWrapper
    <3>3. QED BY <2>1, <3>1, <3>2
  <2>4. QED BY <2>2, <2>3
<1>4. QED BY <1>1, <1>2, <1>3 DEF Acceptable

\* A plan that the planner returns is one that the program accepts while nothing has moved,
\* split or whole, chosen or not, in wrappers or as a cash out, for every amount the saver
\* holds and on every balance the vault can have.
THEOREM PlansAreAccepted == Spec => []FreshPlansAreAccepted
<1>1. ASSUME PayoutInv PROVE FreshPlansAreAccepted
  <2>1. shares \in Nat BY <1>1, PayoutsAssumption DEF PayoutInv, Saver
  <2>2. ASSUME NEW n \in 1..shares, NEW chosen \in Wrappers \cup {None},
               NEW x \in WithdrawTransactions([Idle EXCEPT !.amount = n, !.chosen = chosen])
        PROVE  Acceptable(x)
    <3> DEFINE o == [Idle EXCEPT !.amount = n, !.chosen = chosen]
    <3>1. n \in Nat /\ n <= shares BY <2>1
    <3>2. o \in OpRecord /\ o.way = "shares" /\ o.amount = n BY <3>1 DEF Idle, OpRecord
    <3>3. x \in WithdrawTransactions(o) OBVIOUS
    <3> HIDE DEF o
    <3>4. TxGood(x) /\ PlanFor(Sources, x.legs, n) /\ x.way = "shares"
      BY <1>1, <3>2, <3>3, WithdrawGood
    <3>5. QED BY <1>1, <3>1, <3>4, PlanAccepted
  <2>3. ASSUME NEW n \in 1..shares,
               NEW x \in CashOutsUnchecked([Idle EXCEPT !.amount = n]), x.payment > 0
        PROVE  Acceptable(x)
    <3>1. n \in Nat /\ n <= shares BY <2>1
    <3>2. PICK leg \in CashOutLegs(n) :
            x = [way |-> "cash", legs |-> {leg}, payment |-> Payment(Sources, leg, price),
                 nonce |-> moves]
      <4>1. [Idle EXCEPT !.amount = n].amount = n BY DEF Idle
      <4>2. QED BY <4>1 DEF CashOutsUnchecked
    <3>3. TxGood(x) BY <1>1, <3>1, <3>2, CashOutTransaction
    <3>4. PlanFor(Sources, {leg}, n) /\ desk >= Payment(Sources, leg, price)
      BY <1>1, <3>1, CashOutLegIs
    <3>5. x.legs = {leg} /\ x.payment = Payment(Sources, leg, price) BY <3>2
    <3>6. PlanFor(Sources, x.legs, n) /\ x.payment > 0 /\ desk >= x.payment
      BY <2>3, <3>4, <3>5
    <3>7. QED BY <1>1, <3>1, <3>3, <3>6, PlanAccepted
  <2>4. QED BY <2>2, <2>3 DEF FreshPlansAreAccepted
<1>2. QED BY <1>1, PayoutAlways, PTL
=============================================================================
