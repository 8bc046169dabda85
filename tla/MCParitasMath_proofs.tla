------------------------ MODULE MCParitasMath_proofs ------------------------
(***************************************************************************)
(* The program's arithmetic against its reference definitions, for every   *)
(* bound on the amounts and the multipliers and every scale.               *)
(***************************************************************************)
EXTENDS MCParitasMath, ParitasMath_proofs, SequenceTheorems

MintRecord == [mult : Nat \ {0}, dec : 0..MAX_DECIMALS]

InputsOK ==
  /\ amount \in Amounts
  /\ mint_a \in MintRecord
  /\ mint_b \in MintRecord
  /\ saver \in Savers \cup {null}

LEMMA UnitType == Unit \in MintRecord
<1>1. MULTIPLIER_SCALE \in Nat \ {0} /\ EQUITY_UNIT_DECIMALS \in 0..MAX_DECIMALS
  BY MathAssumption
<1>2. QED BY <1>1 DEF Unit, MintRecord

\* The inputs are amounts and mints throughout.
LEMMA InputsKept == Spec => []InputsOK
<1>1. Mints \subseteq MintRecord BY DEF Mints, MintRecord
<1>2. Init => InputsOK
  <2>1. 0 \in Amounts BY MCAssumption DEF Amounts
  <2>2. QED BY <1>1, <2>1, UnitType DEF Init, InputsOK
<1>3. InputsOK /\ [Next]_vars => InputsOK'
  <2>1. amount \in Amounts => (amount + 1) % (MaxAmount + 1) \in Amounts
    <3>1. \A n \in Nat, d \in Nat \ {0} : n % d \in 0..(d - 1) OBVIOUS
    <3>2. MaxAmount + 1 \in Nat \ {0} /\ (MaxAmount + 1) - 1 = MaxAmount BY MCAssumption
    <3>3. amount \in Amounts => amount + 1 \in Nat BY MCAssumption DEF Amounts
    <3>4. QED BY <3>1, <3>2, <3>3 DEF Amounts
  <2>2. QED BY <2>1 DEF InputsOK, Next, vars
<1>4. QED BY <1>2, <1>3, PTL DEF Spec

-----------------------------------------------------------------------------
(* schedule_math.rs *)

\* A quotient is what fits: k units of d are at most n exactly when k is at
\* most the quotient.
LEMMA QuotientFits ==
  ASSUME NEW n \in Nat, NEW d \in Nat \ {0}, NEW k \in Nat
  PROVE  /\ k * d <= n <=> k <= n \div d
         /\ (k + 1) * d > n <=> k >= n \div d
<1> DEFINE q == n \div d
<1>1. q \in Nat /\ q * d <= n /\ n < (q + 1) * d BY DivNat, DivBounds
<1>2. k * d <= n => k <= q BY DivGreatest
<1> HIDE DEF q
<1>3. q * d \in Nat /\ k * d \in Nat /\ (k + 1) * d \in Nat /\ (q + 1) * d \in Nat
  BY <1>1, MulNat
<1>4. ASSUME k <= q PROVE k * d <= n
  <2>1. k * d <= q * d BY <1>1, <1>4, MulMonotone
  <2>2. QED BY <1>1, <1>3, <2>1
<1>5. ASSUME k >= q PROVE (k + 1) * d > n
  <2>1. q + 1 \in Nat /\ k + 1 \in Nat /\ q + 1 <= k + 1 BY <1>1, <1>5
  <2>2. (q + 1) * d <= (k + 1) * d BY <2>1, MulMonotone
  <2>3. QED BY <1>1, <1>3, <2>2
<1>6. ASSUME k + 1 <= q PROVE (k + 1) * d <= n
  <2>1. (k + 1) * d <= q * d BY <1>1, <1>6, MulMonotone
  <2>2. QED BY <1>1, <1>3, <2>1
<1>7. k * d <= n <=> k <= q BY <1>2, <1>4
<1>8. (k + 1) * d > n <=> k >= q BY <1>1, <1>3, <1>5, <1>6
<1>9. QED BY <1>7, <1>8 DEF q

\* A part of an amount, in basis points, is at most the amount.
LEMMA PartFits ==
  ASSUME NEW n \in Nat, NEW bps \in 0..BPS
  PROVE  (n * bps) \div BPS \in Nat /\ (n * bps) \div BPS <= n
<1>1. BPS \in Nat \ {0} /\ bps \in Nat /\ bps <= BPS BY MathAssumption
<1>2. n * bps \in Nat /\ n * BPS \in Nat BY <1>1, MulNat
<1>3. bps * n <= BPS * n BY <1>1, MulMonotone
<1>4. n * bps <= n * BPS BY <1>1, <1>3
<1>5. (n * BPS) \div BPS <= n
  <2> DEFINE q == (n * BPS) \div BPS
  <2>1. q \in Nat /\ q * BPS <= n * BPS BY <1>1, <1>2, DivNat, DivBounds
  <2> HIDE DEF q
  <2>2. q <= n BY <1>1, <2>1, MulCancel
  <2>3. QED BY <2>2 DEF q
<1>6. (n * bps) \div BPS <= (n * BPS) \div BPS BY <1>1, <1>2, <1>4, DivMonotone
<1>7. (n * bps) \div BPS \in Nat /\ (n * BPS) \div BPS \in Nat BY <1>1, <1>2, DivNat
<1>8. QED BY <1>5, <1>6, <1>7

\* The largest and the least of a set are what Max and Min choose.
LEMMA MaxIs ==
  ASSUME NEW S \in SUBSET Int, NEW m \in S, \A x \in S : x <= m
  PROVE  Max(S) = m
<1>1. \A x \in S : (\A y \in S : x >= y) => x = m OBVIOUS
<1>2. QED BY <1>1 DEF Max

LEMMA MinIs ==
  ASSUME NEW S \in SUBSET Int, NEW m \in S, \A x \in S : m <= x
  PROVE  Min(S) = m
<1>1. \A x \in S : (\A y \in S : x <= y) => x = m OBVIOUS
<1>2. QED BY <1>1 DEF Min

LEMMA FloorIsReference == InputsOK => FloorMatchesReference
<1> SUFFICES ASSUME InputsOK, NEW tol \in 0..MAX_FLOOR_TOLERANCE
             PROVE  RatchetedFloor(amount, tol)
                      = Max({f \in Amounts : f * BPS <= amount * (BPS - tol)})
  BY DEF FloorMatchesReference
<1> DEFINE bps == BPS - tol
           q == (amount * bps) \div BPS
           S == {f \in Amounts : f * BPS <= amount * bps}
<1>1. BPS \in Nat \ {0} /\ MAX_FLOOR_TOLERANCE \in 0..BPS BY MathAssumption
<1>2. bps \in 0..BPS BY <1>1
<1>3. amount \in Nat /\ amount <= MaxAmount /\ MaxAmount \in Nat
  BY MCAssumption DEF InputsOK, Amounts
<1>4. Amounts = 0..MaxAmount BY DEF Amounts
<1> HIDE DEF bps
<1>5. q \in Nat /\ q <= amount BY <1>2, <1>3, PartFits
<1>6. amount * bps \in Nat BY <1>1, <1>2, <1>3, MulNat
<1>7. \A f \in Nat : f * BPS <= amount * bps <=> f <= q BY <1>1, <1>6, QuotientFits
<1> HIDE DEF q
<1>8. q \in S /\ S \in SUBSET Int /\ \A f \in S : f <= q BY <1>3, <1>4, <1>5, <1>7
<1> HIDE DEF S
<1>9. Max(S) = q BY <1>8, MaxIs
<1>10. QED BY <1>9 DEF RatchetedFloor, S, q, bps

LEMMA FeeIsReference == InputsOK => FeeMatchesReference
<1> SUFFICES ASSUME InputsOK, NEW bps \in 0..BPS, NEW min \in Amounts
             PROVE  LET allowed == {f \in Amounts : f * BPS <= amount * MAX_KEEPER_FEE_BPS}
                        covering == {f \in allowed : (f + 1) * BPS > amount * bps /\ f >= min}
                        fee == KeeperFee(amount, bps, min)
                    IN /\ fee = IF covering = {} THEN Max(allowed) ELSE Min(covering)
                       /\ amount > 0 => fee < amount
  BY DEF FeeMatchesReference
<1> DEFINE allowed == {f \in Amounts : f * BPS <= amount * MAX_KEEPER_FEE_BPS}
           covering == {f \in allowed : (f + 1) * BPS > amount * bps /\ f >= min}
           c == (amount * MAX_KEEPER_FEE_BPS) \div BPS
           q == (amount * bps) \div BPS
           fee == KeeperFee(amount, bps, min)
<1>1. /\ BPS \in Nat \ {0} /\ MAX_KEEPER_FEE_BPS \in 0..BPS /\ bps \in Nat
      /\ MAX_KEEPER_FEE_BPS < BPS /\ MAX_KEEPER_FEE_BPS \in Nat
  BY MathAssumption
<1>2. /\ amount \in Nat /\ amount <= MaxAmount /\ MaxAmount \in Nat /\ min \in Nat
      /\ Amounts = 0..MaxAmount
  BY MCAssumption DEF InputsOK, Amounts
<1>3. c \in Nat /\ c <= amount /\ q \in Nat /\ q <= amount
  BY <1>1, <1>2, PartFits
<1>4. amount * MAX_KEEPER_FEE_BPS \in Nat /\ amount * bps \in Nat
  BY <1>1, <1>2, MulNat
<1>5. \A f \in Nat : f * BPS <= amount * MAX_KEEPER_FEE_BPS <=> f <= c
  BY <1>1, <1>4, QuotientFits
<1>6. \A f \in Nat : (f + 1) * BPS > amount * bps <=> f >= q
  BY <1>1, <1>4, QuotientFits
<1>7. fee = AtMost(AtLeast(q, min), c) BY DEF KeeperFee, FeeCeiling
<1>8. amount > 0 => c < amount
  <2>1. c * BPS <= amount * MAX_KEEPER_FEE_BPS BY <1>3, <1>5
  <2> HIDE DEF c
  <2>2. ASSUME amount <= c, amount > 0 PROVE FALSE
    <3>1. amount * BPS <= c * BPS BY <1>1, <1>2, <1>3, <2>2, MulMonotone
    <3>2. BPS - MAX_KEEPER_FEE_BPS \in Nat \ {0} /\ amount \in Nat \ {0} BY <1>1, <1>2, <2>2
    <3>3. amount * (BPS - MAX_KEEPER_FEE_BPS) \in Nat \ {0} BY <3>2, MulPositive
    <3>4. amount * BPS = amount * MAX_KEEPER_FEE_BPS + amount * (BPS - MAX_KEEPER_FEE_BPS)
      BY <1>1, <1>2
    <3>5. c * BPS \in Nat BY <1>1, <1>3, MulNat
    <3>6. QED BY <1>4, <2>1, <3>1, <3>3, <3>4, <3>5
  <2>3. QED BY <1>2, <1>3, <2>2
<1> HIDE DEF c, q, fee
<1>9. allowed = 0..c BY <1>2, <1>3, <1>5
<1>10. covering = {f \in 0..c : f >= q /\ f >= min} BY <1>3, <1>6, <1>9
<1> HIDE DEF allowed, covering
<1>11. fee = IF covering = {} THEN Max(allowed) ELSE Min(covering)
  <2> DEFINE m == AtLeast(q, min)
  <2>1. m \in Nat /\ m >= q /\ m >= min /\ m \in {q, min} BY <1>2, <1>3 DEF AtLeast
  <2>2. CASE m <= c
    <3>1. fee = m BY <1>7, <2>2 DEF AtMost
    <3>2. /\ m \in covering /\ covering \in SUBSET Int
          /\ \A f \in covering : m <= f
      BY <1>3, <1>10, <2>1, <2>2
    <3> HIDE DEF m
    <3>3. Min(covering) = m BY <3>2, MinIs
    <3>4. QED BY <3>1, <3>2, <3>3
  <2>3. CASE m > c
    <3>1. fee = c BY <1>3, <1>7, <2>1, <2>3 DEF AtMost
    <3>2. covering = {} BY <1>3, <1>10, <2>1, <2>3
    <3>3. c \in allowed /\ allowed \in SUBSET Int /\ \A f \in allowed : f <= c
      BY <1>3, <1>9
    <3>4. Max(allowed) = c BY <3>3, MaxIs
    <3>5. QED BY <3>1, <3>2, <3>4
  <2>4. QED BY <1>3, <2>1, <2>2, <2>3
<1>12. amount > 0 => fee < amount
  <2>1. fee \in Nat /\ fee <= c
    BY <1>2, <1>3, <1>7 DEF AtMost, AtLeast
  <2>2. QED BY <1>2, <1>3, <1>8, <2>1
<1>13. QED BY <1>11, <1>12 DEF allowed, covering, fee

-----------------------------------------------------------------------------
(* multiplier.rs *)

\* A conversion from one mint to another loses exact worth, or keeps it.
LEMMA WorthLost ==
  ASSUME NEW n \in Nat, NEW x \in MintRecord, NEW y \in MintRecord
  PROVE  /\ ConvertAmount(n, RateOf(x, y)) \in Nat
         /\ Worth(ConvertAmount(n, RateOf(x, y)), y) <= Worth(n, x)
<1>1. /\ x.mult \in Nat /\ x.dec \in 0..MAX_DECIMALS
      /\ y.mult \in Nat \ {0} /\ y.dec \in 0..MAX_DECIMALS
  BY DEF MintRecord
<1>2. RateOf(x, y) \in Nat BY <1>1, ComputeRateType DEF RateOf
<1>3. QED BY <1>1, <1>2, ConvertType, ConversionLoses DEF Worth, RateOf

\* An exact worth is a natural number.
LEMMA WorthType ==
  ASSUME NEW n \in Nat, NEW x \in MintRecord PROVE Worth(n, x) \in Nat
<1>1. x.mult \in Nat /\ x.dec \in 0..MAX_DECIMALS BY DEF MintRecord
<1>2. PowerOfTen[MAX_DECIMALS - x.dec] \in Nat BY <1>1, PowerType
<1>3. QED BY <1>1, <1>2, MulNat DEF Worth

\* There and back yields no more than one started with.
LEMMA ThereAndBack ==
  ASSUME NEW n \in Nat, NEW x \in MintRecord, NEW y \in MintRecord
  PROVE  ConvertAmount(ConvertAmount(n, RateOf(x, y)), RateOf(y, x)) <= n
<1> DEFINE r == RateOf(x, y)
           q == RateOf(y, x)
           p == ConvertAmount(n, r)
           z == ConvertAmount(p, q)
           R == RATE_SCALE
<1>1. /\ x.mult \in Nat \ {0} /\ x.dec \in 0..MAX_DECIMALS
      /\ y.mult \in Nat \ {0} /\ y.dec \in 0..MAX_DECIMALS
      /\ R \in Nat \ {0}
  BY MathAssumption DEF MintRecord
<1>2. r \in Nat /\ q \in Nat BY <1>1, ComputeRateType DEF RateOf
<1>3. r * q <= R * R BY <1>1, RatesCancel DEF RateOf
<1>4. p \in Nat /\ p * R <= n * r BY <1>2, ConvertType
<1>5. z \in Nat /\ z * R <= p * q
  <2> HIDE DEF p
  <2>1. QED BY <1>2, <1>4, ConvertType
<1> HIDE DEF r, q, p, z, R
<1>6. (z * R) * R <= (p * q) * R BY <1>1, <1>2, <1>4, <1>5, MulNat, MulMonotone
<1>7. (p * R) * q <= (n * r) * q BY <1>1, <1>2, <1>4, MulNat, MulMonotone
<1>8. (r * q) * n <= (R * R) * n BY <1>1, <1>2, <1>3, MulNat, MulMonotone
<1>9. /\ (z * R) * R = z * (R * R) /\ (p * q) * R = (p * R) * q
      /\ (n * r) * q = (r * q) * n /\ (R * R) * n = n * (R * R)
  BY <1>1, <1>2, <1>4, <1>5
<1>10. /\ z * (R * R) \in Nat /\ (p * R) * q \in Nat /\ (r * q) * n \in Nat
       /\ n * (R * R) \in Nat
  BY <1>1, <1>2, <1>4, <1>5, MulNat
<1>11. z * (R * R) <= n * (R * R) BY <1>6, <1>7, <1>8, <1>9, <1>10
<1>12. R * R \in Nat \ {0} BY <1>1, MulPositive
<1>13. z <= n BY <1>5, <1>11, <1>12, MulCancel
<1>14. QED BY <1>13 DEF z, p, r, q

LEMMA NoConversionProfits == InputsOK => ConversionsNeverProfit
<1> SUFFICES ASSUME InputsOK PROVE ConversionsNeverProfit OBVIOUS
<1> DEFINE units == ToEquityUnits(amount, mint_a.dec, mint_a.mult)
           raw == FromEquityUnits(units, mint_b.dec, mint_b.mult)
<1>1. /\ amount \in Nat /\ mint_a \in MintRecord /\ mint_b \in MintRecord
      /\ Unit \in MintRecord
  BY UnitType DEF InputsOK, Amounts
<1>2. Unit.mult = MULTIPLIER_SCALE /\ Unit.dec = EQUITY_UNIT_DECIMALS BY DEF Unit
<1>3. units = ConvertAmount(amount, RateOf(mint_a, Unit))
  BY <1>2 DEF ToEquityUnits, UnitRate, RateOf
<1>4. raw = ConvertAmount(units, RateOf(Unit, mint_b))
  BY <1>2 DEF FromEquityUnits, RawRate, RateOf
<1>5. units \in Nat /\ Worth(units, Unit) <= Worth(amount, mint_a)
  BY <1>1, <1>3, WorthLost
<1> HIDE DEF units
<1>6. raw \in Nat /\ Worth(raw, mint_b) <= Worth(units, Unit)
  BY <1>1, <1>4, <1>5, WorthLost
<1> HIDE DEF raw
<1>7. /\ Worth(units, Unit) \in Nat /\ Worth(amount, mint_a) \in Nat
      /\ Worth(raw, mint_b) \in Nat
  BY <1>1, <1>5, <1>6, WorthType
<1>8. Worth(raw, mint_b) <= Worth(amount, mint_a) BY <1>5, <1>6, <1>7
<1>9. ConvertAmount(ConvertAmount(amount, RateOf(mint_a, mint_b)), RateOf(mint_b, mint_a))
        <= amount
  BY <1>1, ThereAndBack
<1>10. QED BY <1>5, <1>8, <1>9 DEF ConversionsNeverProfit, units, raw

LEMMA NoSplittingPays == InputsOK => SplittingNeverPays
<1> SUFFICES ASSUME InputsOK, NEW part \in 0..amount
             PROVE  LET Units(n) == ToEquityUnits(n, mint_a.dec, mint_a.mult)
                        Raw(n) == FromEquityUnits(n, mint_a.dec, mint_a.mult)
                    IN /\ Units(part) + Units(amount - part) <= Units(amount)
                       /\ Raw(part) + Raw(amount - part) <= Raw(amount)
  BY DEF SplittingNeverPays
<1>1. /\ amount \in Nat /\ part \in Nat /\ amount - part \in Nat
      /\ part + (amount - part) = amount
  BY DEF InputsOK, Amounts
<1>2. /\ mint_a.mult \in Nat \ {0} /\ mint_a.dec \in 0..MAX_DECIMALS
      /\ MULTIPLIER_SCALE \in Nat \ {0} /\ EQUITY_UNIT_DECIMALS \in 0..MAX_DECIMALS
  BY MathAssumption DEF InputsOK, MintRecord
<1>3. /\ UnitRate(mint_a.dec, mint_a.mult) \in Nat
      /\ RawRate(mint_a.dec, mint_a.mult) \in Nat
  BY <1>2, ComputeRateType DEF UnitRate, RawRate
<1>4. \A rate \in Nat :
        ConvertAmount(part, rate) + ConvertAmount(amount - part, rate)
          <= ConvertAmount(amount, rate)
  <2>1. \A rate \in Nat :
          ConvertAmount(part, rate) + ConvertAmount(amount - part, rate)
            <= ConvertAmount(part + (amount - part), rate)
    BY <1>1, ConvertSum
  <2>2. QED BY <1>1, <2>1
<1>5. QED BY <1>3, <1>4 DEF ToEquityUnits, FromEquityUnits

-----------------------------------------------------------------------------
(* Funding *)

\* The recursive equation of BuyDates.
AreBuyDates(at, k, c, due, now) ==
  at = [n \in 1..k |->
          IF n = 1 THEN AtLeast(due, now)
          ELSE NextDueAfter(IF n = 2 THEN due ELSE at[n-1], c, at[n-1])]

\* And its solution: from the second date on a cadence apart.
DateOf(c, due, now, n) ==
  IF n = 1 THEN AtLeast(due, now)
  ELSE NextDueAfter(due, c, AtLeast(due, now)) + (n - 2) * c

\* What the equation says at one buy.
LEMMA DatesAt ==
  ASSUME NEW at, NEW k, NEW c, NEW due, NEW now, AreBuyDates(at, k, c, due, now), NEW n \in 1..k
  PROVE  at[n] = IF n = 1 THEN AtLeast(due, now)
                 ELSE NextDueAfter(IF n = 2 THEN due ELSE at[n-1], c, at[n-1])
<1> DEFINE r(i) == IF i = 1 THEN AtLeast(due, now)
                   ELSE NextDueAfter(IF i = 2 THEN due ELSE at[i-1], c, at[i-1])
<1>1. at = [i \in 1..k |-> r(i)] BY DEF AreBuyDates
<1>2. [i \in 1..k |-> r(i)][n] = r(n) OBVIOUS
<1> HIDE DEF r
<1>3. at[n] = r(n) BY <1>1, <1>2
<1>4. QED BY <1>3 DEF r

\* One date after the other.
LEMMA NextDate ==
  ASSUME NEW c \in Nat \ {0}, NEW due \in Nat, NEW now \in Nat, NEW n \in Nat, n >= 2
  PROVE  DateOf(c, due, now, n)
           = NextDueAfter(IF n = 2 THEN due ELSE DateOf(c, due, now, n - 1), c,
                          DateOf(c, due, now, n - 1))
<1> DEFINE a == AtLeast(due, now)
           d == NextDueAfter(due, c, a)
<1>1. a \in Nat BY DEF AtLeast
<1>2. d \in Nat BY <1>1 DEF NextDueAfter
<1>3. CASE n = 2
  <2>1. DateOf(c, due, now, 1) = a /\ n - 1 = 1 BY <1>3 DEF DateOf
  <2>2. DateOf(c, due, now, n) = d + 0 * c BY <1>3 DEF DateOf
  <2> HIDE DEF a, d
  <2>3. d + 0 * c = d BY <1>2
  <2>4. QED BY <1>3, <2>1, <2>2, <2>3 DEF d
<1>4. CASE n # 2
  <2> DEFINE p == d + (n - 3) * c
  <2>1. n - 3 \in Nat /\ (n - 1) - 2 = n - 3 /\ n - 1 # 1 /\ n # 1 BY <1>4
  <2>2. DateOf(c, due, now, n - 1) = p BY <2>1 DEF DateOf
  <2>3. DateOf(c, due, now, n) = d + (n - 2) * c BY <2>1 DEF DateOf
  <2> HIDE DEF d
  <2>4. (n - 3) * c \in Nat /\ (n - 2) * c = (n - 3) * c + c BY <2>1, MulNat
  <2>5. p \in Nat /\ d + (n - 2) * c = p + c BY <1>2, <2>4
  <2> HIDE DEF p
  <2>6. NextDueAfter(p, c, p) = p + c BY <2>5 DEF NextDueAfter
  <2>7. QED BY <1>4, <2>2, <2>3, <2>5, <2>6
<1>5. QED BY <1>3, <1>4

\* BuyDates is what its equation describes.
LEMMA BuyDatesExist ==
  ASSUME NEW k \in Nat, NEW c \in Nat \ {0}, NEW due \in Nat, NEW now \in Nat
  PROVE  AreBuyDates(BuyDates(k, c, due, now), k, c, due, now)
<1> DEFINE at == [n \in 1..k |-> DateOf(c, due, now, n)]
           r(n) == IF n = 1 THEN AtLeast(due, now)
                   ELSE NextDueAfter(IF n = 2 THEN due ELSE at[n-1], c, at[n-1])
<1>1. ASSUME NEW n \in 1..k PROVE DateOf(c, due, now, n) = r(n)
  <2>1. CASE n = 1 BY <2>1 DEF DateOf
  <2>2. CASE n # 1
    <3>1. n \in Nat /\ n >= 2 /\ n - 1 \in 1..k BY <2>2
    <3>2. at[n-1] = DateOf(c, due, now, n - 1) BY <3>1
    <3> HIDE DEF at
    <3>3. QED BY <2>2, <3>1, <3>2, NextDate
  <2>3. QED BY <2>1, <2>2
<1>2. at = [n \in 1..k |-> r(n)]
  <2> HIDE DEF r
  <2>1. QED BY <1>1
<1>3. AreBuyDates(at, k, c, due, now)
  <2> HIDE DEF at
  <2>1. QED BY <1>2 DEF AreBuyDates
<1>4. \E f : AreBuyDates(f, k, c, due, now) BY <1>3
<1>5. BuyDates(k, c, due, now) = CHOOSE f : AreBuyDates(f, k, c, due, now)
  BY DEF BuyDates, AreBuyDates
<1>6. QED BY <1>4, <1>5

\* So every date is the solution's: at the first buy where it were not, it would be.
LEMMA BuyDateIs ==
  ASSUME NEW k \in Nat, NEW c \in Nat \ {0}, NEW due \in Nat, NEW now \in Nat
  PROVE  \A n \in 1..k : BuyDates(k, c, due, now)[n] = DateOf(c, due, now, n)
<1> DEFINE at == BuyDates(k, c, due, now)
           Wrong == {n \in 1..k : at[n] # DateOf(c, due, now, n)}
<1>1. AreBuyDates(at, k, c, due, now) BY BuyDatesExist
<1> HIDE DEF at
<1>2. ASSUME Wrong # {} PROVE FALSE
  <2>1. Wrong \subseteq Nat OBVIOUS
  <2>2. \E n \in Wrong : \A y \in Wrong : n <= y
    <3> HIDE DEF Wrong
    <3>1. QED BY <1>2, <2>1, LeastOf
  <2>3. PICK n \in Wrong : \A y \in Wrong : n <= y BY <2>2
  <2>4. n \in 1..k /\ n \in Nat /\ at[n] # DateOf(c, due, now, n) OBVIOUS
  <2>5. at[n] = IF n = 1 THEN AtLeast(due, now)
                ELSE NextDueAfter(IF n = 2 THEN due ELSE at[n-1], c, at[n-1])
    BY <1>1, <2>4, DatesAt
  <2>6. n # 1 BY <2>4, <2>5 DEF DateOf
  <2>7. n - 1 \in 1..k /\ ~(n <= n - 1) /\ n >= 2 BY <2>4, <2>6
  <2>8. at[n-1] = DateOf(c, due, now, n - 1) BY <2>3, <2>7
  <2>9. QED BY <2>4, <2>5, <2>6, <2>7, <2>8, NextDate
<1>3. QED BY <1>2 DEF at

\* The last date that the app shows is the last buy's, or less than a cadence after it.
LEMMA LastDateIs ==
  ASSUME NEW k \in Nat \ {0}, NEW c \in Nat \ {0}, NEW due \in Nat, NEW now \in Nat
  PROVE  (AtLeast(due, now) + (k - 1) * c) - BuyDates(k, c, due, now)[k] \in 0..(c - 1)
<1> DEFINE a == AtLeast(due, now)
           d == NextDueAfter(due, c, a)
<1>1. BuyDates(k, c, due, now)[k] = DateOf(c, due, now, k) BY BuyDateIs
<1>2. a \in Nat /\ due <= a BY DEF AtLeast
<1> HIDE DEF a
<1>3. d \in Nat /\ (a + c) - d \in 0..(c - 1) BY <1>2 DEF NextDueAfter
<1>4. CASE k = 1
  <2>1. (k - 1) * c = 0 BY <1>4
  <2>2. DateOf(c, due, now, k) = a BY <1>4 DEF DateOf, a
  <2>3. QED BY <1>1, <1>2, <2>1, <2>2 DEF a
<1>5. CASE k # 1
  <2>1. DateOf(c, due, now, k) = d + (k - 2) * c BY <1>5 DEF DateOf, a
  <2>2. (k - 2) * c \in Nat /\ (k - 1) * c = (k - 2) * c + c BY <1>5, MulNat
  <2> HIDE DEF d
  <2>3. (a + (k - 1) * c) - DateOf(c, due, now, k) = (a + c) - d BY <1>2, <1>3, <2>1, <2>2
  <2>4. QED BY <1>1, <1>3, <2>3 DEF a
<1>6. QED BY <1>4, <1>5

\* The least amount of a plan is the least whose fee the ceiling leaves whole.
LEMMA MinAmountIs ==
  ASSUME NEW n \in Nat, NEW fee_min \in Nat
  PROVE  (n < MinAmount(fee_min)) <=>
           (n < PowerOfTen[MONEY_DECIMALS] \/ FeeCeiling(n) < fee_min)
<1> DEFINE P == PowerOfTen[MONEY_DECIMALS]
           M == MAX_KEEPER_FEE_BPS
           x == fee_min * BPS
           y == n * M
           q == (x + M - 1) \div M
           z == y \div BPS
<1>1. M \in Nat \ {0} /\ BPS \in Nat \ {0} BY MathAssumption, PortfolioAssumption
<1>2. P \in Nat BY MathAssumption, PortfolioAssumption
<1>3. x \in Nat /\ y \in Nat BY <1>1, MulNat
<1>4. (n + 1) * M = y + M BY <1>1
<1>5. MinAmount(fee_min) = AtLeast(P, q) /\ FeeCeiling(n) = z BY DEF MinAmount, FeeCeiling
<1>6. x <= y <=> fee_min <= z
  <2> HIDE DEF y
  <2>1. QED BY <1>1, <1>3, QuotientFits
<1> HIDE DEF x, y, P, M
<1>7. x + M - 1 \in Nat BY <1>1, <1>3
<1>8. q \in Nat BY <1>1, <1>7, DivNat
<1>9. (n + 1) * M <= x + M - 1 <=> n + 1 <= q BY <1>1, <1>7, QuotientFits
<1>10. z \in Nat BY <1>1, <1>3, DivNat
<1> HIDE DEF q, z
<1>11. n < q <=> fee_min > z BY <1>1, <1>3, <1>4, <1>6, <1>8, <1>9, <1>10
<1>12. n < AtLeast(P, q) <=> n < P \/ n < q BY <1>2, <1>8 DEF AtLeast
<1>13. QED BY <1>5, <1>10, <1>11, <1>12 DEF P

LEMMA MinAmountType == ASSUME NEW fee_min \in Nat PROVE MinAmount(fee_min) \in Nat
<1> DEFINE M == MAX_KEEPER_FEE_BPS
           x == fee_min * BPS
<1>1. M \in Nat \ {0} /\ BPS \in Nat \ {0} BY MathAssumption, PortfolioAssumption
<1>2. PowerOfTen[MONEY_DECIMALS] \in Nat BY MathAssumption, PortfolioAssumption
<1>3. x \in Nat BY <1>1, MulNat
<1> HIDE DEF M, x
<1>4. x + M - 1 \in Nat BY <1>1, <1>3
<1>5. (x + M - 1) \div M \in Nat BY <1>1, <1>4, DivNat
<1>6. QED BY <1>2, <1>5 DEF MinAmount, AtLeast, x, M

\* An approval covers the horizon, and no whole buy more.
LEMMA RunsFundedIs ==
  ASSUME NEW c \in Nat \ {0}
  PROVE  /\ RunsFunded(c) * c >= FUNDED_HORIZON
         /\ RunsFunded(c) > MIN_RUNS_FUNDED => (RunsFunded(c) - 1) * c < FUNDED_HORIZON
<1> DEFINE H == FUNDED_HORIZON
           L == MIN_RUNS_FUNDED
           q == (H + c - 1) \div c
           n == RunsFunded(c)
<1>1. H \in Nat /\ L \in Nat BY PortfolioAssumption
<1>2. n = AtLeast(L, q) BY DEF RunsFunded
<1> HIDE DEF H, L, n
<1>3. H + c - 1 \in Nat BY <1>1
<1>4. q \in Nat /\ q * c <= H + c - 1 /\ H + c - 1 < (q + 1) * c BY <1>3, DivNat, DivBounds
<1> HIDE DEF q
<1>5. (q + 1) * c = q * c + c /\ q * c \in Nat BY <1>4, MulNat
<1>6. q * c >= H BY <1>1, <1>4, <1>5
<1>7. n \in Nat /\ n >= q BY <1>1, <1>2, <1>4 DEF AtLeast
<1>8. n * c >= H
  <2>1. q * c <= n * c BY <1>4, <1>7, MulMonotone
  <2>2. n * c \in Nat BY <1>7, MulNat
  <2>3. QED BY <1>1, <1>5, <1>6, <2>1, <2>2
<1>9. ASSUME n > L PROVE (n - 1) * c < H
  <2>1. n = q BY <1>1, <1>2, <1>4, <1>9 DEF AtLeast
  <2>2. (q - 1) * c = q * c - c BY <1>4
  <2>3. QED BY <1>1, <1>4, <1>5, <2>1, <2>2
<1>10. QED BY <1>8, <1>9 DEF H, L, n

LEMMA FundingIsReference == InputsOK => FundingMatchesTheProgram
<1> SUFFICES ASSUME InputsOK PROVE FundingMatchesTheProgram OBVIOUS
<1> DEFINE price == mint_a.mult
           cadence == mint_b.mult
           reach(due, now) == AllowanceReach(amount, price, cadence, due, now)
           S == {n \in 0..amount : n * price <= amount}
           buys == Max(S)
           runs == RunsFunded(cadence)
           q == amount \div price
<1>1. /\ amount \in Nat /\ price \in Nat \ {0} /\ cadence \in Nat \ {0}
  BY DEF InputsOK, Amounts, MintRecord
<1> HIDE DEF price, cadence
<1>2. q \in Nat BY <1>1, DivNat
<1>3. buys = q
  <2>1. \A n \in Nat : n * price <= amount <=> n <= q BY <1>1, QuotientFits
  <2>2. q <= amount
    <3>1. q * price <= amount BY <1>2, <2>1
    <3>2. price >= 1 BY <1>1
    <3>3. 1 * q <= price * q BY <1>1, <1>2, <3>2, MulMonotone
    <3>4. q * price = price * q /\ 1 * q = q /\ q * price \in Nat BY <1>1, <1>2, MulNat
    <3> HIDE DEF q
    <3>5. QED BY <1>1, <1>2, <3>1, <3>3, <3>4
  <2> HIDE DEF q
  <2>3. q \in S /\ S \in SUBSET Int /\ \A n \in S : n <= q BY <1>1, <1>2, <2>1, <2>2
  <2> HIDE DEF S
  <2>4. QED BY <2>3, MaxIs
<1>4. /\ Coverage(amount, price).buys = q
      /\ \A due, now : reach(due, now).buys = q
      /\ \A due, now : q # 0 => reach(due, now).lastTs = AtLeast(due, now) + (q - 1) * cadence
  BY <1>1 DEF Coverage, AllowanceReach
<1>5. (Coverage(amount, price).level = "empty") <=> amount < price
  <2>1. (Coverage(amount, price).level = "empty") <=> q = 0 BY <1>1 DEF Coverage
  <2>2. 1 * price <= amount <=> 1 <= q BY <1>1, QuotientFits
  <2> HIDE DEF q
  <2>3. QED BY <1>1, <1>2, <2>1, <2>2
<1>6. ASSUME NEW due \in 0..Few, NEW now \in 0..Few
      PROVE  /\ reach(due, now).buys = buys
             /\ buys > 0 => reach(due, now).lastTs - BuyDates(buys, cadence, due, now)[buys]
                              \in 0..(cadence - 1)
  <2> HIDE DEF q, buys
  <2>1. reach(due, now).buys = buys BY <1>3, <1>4
  <2>2. ASSUME buys > 0
        PROVE  reach(due, now).lastTs - BuyDates(buys, cadence, due, now)[buys] \in 0..(cadence - 1)
    <3>1. buys \in Nat \ {0} /\ due \in Nat /\ now \in Nat BY <1>2, <1>3, <2>2
    <3>2. reach(due, now).lastTs = AtLeast(due, now) + (buys - 1) * cadence
      BY <1>3, <1>4, <3>1
    <3> HIDE DEF reach
    <3>3. QED BY <1>1, <3>1, <3>2, LastDateIs
  <2>3. QED BY <2>1, <2>2
<1>7. runs * cadence >= FUNDED_HORIZON
      /\ (runs > MIN_RUNS_FUNDED => (runs - 1) * cadence < FUNDED_HORIZON)
  BY <1>1, RunsFundedIs
<1>8. ASSUME NEW fee_min \in 0..Few
      PROVE  (PlanProblem(amount, cadence, fee_min, MaxAmount) = "too small") <=>
               cadence >= MIN_CADENCE /\
                 (amount < PowerOfTen[MONEY_DECIMALS] \/ FeeCeiling(amount) < fee_min)
  <2>1. amount < MinAmount(fee_min) <=>
          amount < PowerOfTen[MONEY_DECIMALS] \/ FeeCeiling(amount) < fee_min
    BY <1>1, MinAmountIs
  <2>2. amount # null
    <3>1. amount \in Int BY <1>1
    <3>2. QED BY <3>1, NullAssumption, Zenon
  <2>3. null # "too small" BY NullAssumption
  <2>4. MIN_CADENCE \in Nat /\ MinAmount(fee_min) \in Nat
    BY PortfolioAssumption, MinAmountType
  <2>5. (PlanProblem(amount, cadence, fee_min, MaxAmount) = "too small") <=>
          cadence >= MIN_CADENCE /\ amount < MinAmount(fee_min)
    <3> DEFINE large == FundedAmount(amount, cadence) > U64_MAX
               dear == amount > MaxAmount
               min == MinAmount(fee_min)
    <3>1. PlanProblem(amount, cadence, fee_min, MaxAmount) =
            (IF cadence < MIN_CADENCE THEN "too often"
             ELSE IF amount < min THEN "too small"
             ELSE IF large THEN "too large"
             ELSE IF dear THEN "not enough money" ELSE null)
      BY <2>2 DEF PlanProblem
    <3>2. cadence < MIN_CADENCE <=> ~(cadence >= MIN_CADENCE) BY <1>1, <2>4
    <3> HIDE DEF large, dear, min
    <3>3. QED BY <2>3, <3>1, <3>2 DEF min
  <2>6. QED BY <2>1, <2>5
<1>9. QED BY <1>3, <1>4, <1>5, <1>6, <1>7, <1>8 DEF FundingMatchesTheProgram, price, cadence

-----------------------------------------------------------------------------
(* Positions *)

\* Sums of one term and of two.
LEMMA SumOfOne ==
  ASSUME NEW f, NEW x, DOMAIN f = {x}, f[x] \in Int
  PROVE  SumFunction(f) = f[x]
<1>1. SumFunctionOnSet(f, {x}) = f[x] BY SumSingle
<1>2. QED BY <1>1 DEF SumFunction

LEMMA SumOfTwo ==
  ASSUME NEW f, NEW x, NEW y, x # y, DOMAIN f = {x, y}, f[x] \in Int, f[y] \in Int
  PROVE  SumFunction(f) = f[x] + f[y]
<1> DEFINE T == {x} \cup {y}
<1>1. IsFiniteSet({x}) /\ y \notin {x} BY FS_Singleton
<1>2. \A i \in T : f[i] \in Int OBVIOUS
<1>3. T = DOMAIN f OBVIOUS
<1>4. SumFunctionOnSet(f, {x}) = f[x] BY SumSingle
<1>5. SumFunctionOnSet(f, T) = f[y] + SumFunctionOnSet(f, {x}) BY <1>1, <1>2, SumAdd
<1> HIDE DEF T
<1>6. SumFunction(f) = SumFunctionOnSet(f, T) BY <1>3 DEF SumFunction
<1>7. QED BY <1>4, <1>5, <1>6

\* The value of shares at a quote is a quotient.
LEMMA ValueIs ==
  ASSUME NEW mint \in MintRecord, Quoted(mint)
  PROVE  \E p \in Nat \ {0}, d \in Nat \ {0} :
           \A n \in Nat : ValueOf(n, QuoteOf(mint)) = (n * p) \div d
<1> DEFINE shift == MONEY_DECIMALS + (-mint.dec) - EQUITY_UNIT_DECIMALS
           m == mint.mult
<1>1. /\ MONEY_DECIMALS \in 0..MAX_DECIMALS /\ EQUITY_UNIT_DECIMALS \in 0..MAX_DECIMALS
      /\ mint.dec \in 0..MAX_DECIMALS /\ MAX_DECIMALS \in Nat /\ m \in Nat \ {0}
  BY MathAssumption, PortfolioAssumption DEF MintRecord
<1>2. shift \in (-MAX_DECIMALS)..MAX_DECIMALS BY <1>1 DEF Quoted
<1>3. \A n : ValueOf(n, QuoteOf(mint)) =
               (IF shift >= 0 THEN n * m * PowerOfTen[shift] ELSE (n * m) \div PowerOfTen[-shift])
  BY DEF ValueOf, QuoteOf
<1> HIDE DEF shift, m
<1>4. CASE shift >= 0
  <2> DEFINE t == PowerOfTen[shift]
  <2>1. shift \in 0..MAX_DECIMALS BY <1>1, <1>2, <1>4
  <2>2. t \in Nat \ {0} BY <2>1, MathAssumption
  <2>3. \A n \in Nat : ValueOf(n, QuoteOf(mint)) = n * m * t BY <1>3, <1>4
  <2> HIDE DEF t
  <2>4. m * t \in Nat \ {0} BY <1>1, <2>2, MulPositive
  <2>5. \A n \in Nat : n * m * t = (n * (m * t)) \div 1
    <3> SUFFICES ASSUME NEW n \in Nat PROVE n * m * t = (n * (m * t)) \div 1 OBVIOUS
    <3>1. n * m * t = n * (m * t) BY <1>1, <2>2
    <3>2. n * (m * t) \in Nat BY <2>4, MulNat
    <3>3. \A k \in Nat : k \div 1 = k OBVIOUS
    <3>4. QED BY <3>1, <3>2, <3>3
  <2> DEFINE q == m * t
  <2>6. q \in Nat \ {0} /\ \A n \in Nat : ValueOf(n, QuoteOf(mint)) = (n * q) \div 1
    BY <2>3, <2>4, <2>5
  <2> HIDE DEF q
  <2>7. 1 \in Nat \ {0} OBVIOUS
  <2>8. QED BY <2>6, <2>7
<1>5. CASE ~(shift >= 0)
  <2>1. -shift \in 0..MAX_DECIMALS BY <1>1, <1>2, <1>5
  <2>2. PowerOfTen[-shift] \in Nat \ {0} BY <2>1, MathAssumption
  <2> DEFINE d == PowerOfTen[-shift]
  <2>3. \A n \in Nat : ValueOf(n, QuoteOf(mint)) = (n * m) \div d BY <1>3, <1>5
  <2>4. d \in Nat \ {0} BY <2>2
  <2> HIDE DEF d
  <2>5. QED BY <1>1, <2>3, <2>4
<1>6. QED BY <1>4, <1>5

\* Cost split at average between what stays and what left loses a unit at most.
LEMMA CostSplits ==
  ASSUME NEW s \in Nat, NEW b \in Nat \ {0}, NEW a \in 0..b
  PROVE  (s * a) \div b + (s * (b - a)) \div b \in {s - 1, s}
<1> DEFINE x == s * a
           y == s * (b - a)
           u == x \div b
           v == y \div b
<1>1. a \in Nat /\ b - a \in Nat OBVIOUS
<1>2. x \in Nat /\ y \in Nat /\ x + y = s * b /\ s * b \in Nat BY <1>1, MulNat
<1> HIDE DEF x, y
<1>3. /\ u \in Nat /\ u * b <= x /\ x < (u + 1) * b
      /\ v \in Nat /\ v * b <= y /\ y < (v + 1) * b
  BY <1>2, DivNat, DivBounds
<1> HIDE DEF u, v
<1>4. u + v <= s
  <2>1. (u + v) * b = u * b + v * b /\ u * b \in Nat /\ v * b \in Nat BY <1>3, MulNat
  <2>2. (u + v) * b <= s * b BY <1>2, <1>3, <2>1
  <2>3. u + v \in Nat BY <1>3
  <2>4. QED BY <2>2, <2>3, MulCancel
<1>5. s <= u + v + 1
  <2> SUFFICES ASSUME u + v + 2 <= s PROVE FALSE BY <1>3
  <2>1. (u + v + 2) * b <= s * b BY <1>3, MulMonotone
  <2>2. (u + v + 2) * b = (u + 1) * b + (v + 1) * b BY <1>3
  <2>3. (u + 1) * b \in Nat /\ (v + 1) * b \in Nat BY <1>3, MulNat
  <2>4. QED BY <1>2, <1>3, <2>1, <2>2, <2>3
<1>6. QED BY <1>3, <1>4, <1>5 DEF u, v, x, y

\* A position that gained on the whole gained on every part, and one that lost lost.
LEMMA SignKept ==
  ASSUME NEW s \in Nat, NEW b \in Nat \ {0}, NEW w \in 0..b,
         NEW p \in Nat \ {0}, NEW d \in Nat \ {0}
  PROVE  /\ (b * p) \div d >= s => (w * p) \div d >= (s * w) \div b
         /\ (b * p) \div d < s => (w * p) \div d <= (s * w) \div b
<1> DEFINE B == b * p
           W == w * p
           C == s * w
           q == C \div b
           r == W \div d
<1>1. w \in Nat /\ B \in Nat /\ W \in Nat /\ C \in Nat BY MulNat
<1>2. W * b = B * w /\ C * d = (s * d) * w BY <1>1
<1>3. s * d <= B <=> s <= B \div d
  <2> HIDE DEF B
  <2>1. QED BY <1>1, QuotientFits
<1> HIDE DEF B, W, C
<1>4. /\ q \in Nat /\ q * b <= C /\ r \in Nat /\ r * d <= W /\ B \div d \in Nat
  BY <1>1, DivNat, DivBounds
<1> HIDE DEF q, r
<1>5. /\ s * d \in Nat /\ q * b \in Nat /\ r * d \in Nat /\ W * b \in Nat /\ C * d \in Nat
      /\ (q * d) * b \in Nat /\ (r * b) * d \in Nat /\ q * d \in Nat /\ r * b \in Nat
  BY <1>1, <1>4, MulNat
<1>6. ASSUME B \div d >= s PROVE r >= q
  <2>1. s * d <= B BY <1>3, <1>4, <1>6
  <2>2. (s * d) * w <= B * w BY <1>1, <1>5, <2>1, MulMonotone
  <2>3. (q * b) * d <= C * d BY <1>1, <1>4, <1>5, MulMonotone
  <2>4. (q * b) * d = (q * d) * b BY <1>4
  <2>5. (q * d) * b <= W * b BY <1>2, <1>5, <2>2, <2>3, <2>4
  <2>6. q * d <= W BY <1>1, <1>5, <2>5, MulCancel
  <2>7. QED BY <1>1, <1>4, <2>6, DivGreatest DEF r
<1>7. ASSUME B \div d < s PROVE r <= q
  <2>1. B <= s * d BY <1>1, <1>3, <1>4, <1>5, <1>7
  <2>2. B * w <= (s * d) * w BY <1>1, <1>5, <2>1, MulMonotone
  <2>3. (r * d) * b <= W * b BY <1>1, <1>4, <1>5, MulMonotone
  <2>4. (r * d) * b = (r * b) * d BY <1>4
  <2>5. (r * b) * d <= C * d BY <1>2, <1>5, <2>2, <2>3, <2>4
  <2>6. r * b <= C BY <1>1, <1>5, <2>5, MulCancel
  <2>7. QED BY <1>1, <1>4, <2>6, DivGreatest DEF q
<1>8. QED BY <1>6, <1>7 DEF q, r, B, W, C

\* Two plans and what they bought and spent between them.
TwoPlans(bought, more, spent) ==
  {[address |-> 1, sharesTotal |-> bought, investedTotal |-> spent],
   [address |-> 2, sharesTotal |-> more, investedTotal |-> more]}

BoughtBy(plans) == SumFunction([p \in plans |-> p.sharesTotal])
SpentBy(plans) == SumFunction([p \in plans |-> p.investedTotal])

LEMMA PlansAddUp ==
  ASSUME NEW bought \in Nat, NEW more \in Nat, NEW spent \in Nat
  PROVE  /\ BoughtBy(TwoPlans(bought, more, spent)) = bought + more
         /\ SpentBy(TwoPlans(bought, more, spent)) = spent + more
<1> DEFINE x == [address |-> 1, sharesTotal |-> bought, investedTotal |-> spent]
           y == [address |-> 2, sharesTotal |-> more, investedTotal |-> more]
           plans == TwoPlans(bought, more, spent)
           f == [p \in plans |-> p.sharesTotal]
           g == [p \in plans |-> p.investedTotal]
<1>1. x # y
  <2>1. x.address = 1 /\ y.address = 2 OBVIOUS
  <2> HIDE DEF x, y
  <2>2. QED BY <2>1
<1>2. plans = {x, y} BY DEF TwoPlans
<1>3. /\ x.sharesTotal = bought /\ x.investedTotal = spent
      /\ y.sharesTotal = more /\ y.investedTotal = more
  OBVIOUS
<1> HIDE DEF x, y, plans
<1>4. /\ DOMAIN f = {x, y} /\ f[x] = bought /\ f[y] = more
      /\ DOMAIN g = {x, y} /\ g[x] = spent /\ g[y] = more
  BY <1>2, <1>3
<1>5. bought \in Int /\ more \in Int /\ spent \in Int OBVIOUS
<1> HIDE DEF f, g
<1>6. SumFunction(f) = f[x] + f[y]
  <2>1. f[x] \in Int /\ f[y] \in Int /\ DOMAIN f = {x, y} BY <1>4, <1>5
  <2>2. QED BY <1>1, <2>1, SumOfTwo
<1>7. SumFunction(g) = g[x] + g[y]
  <2>1. g[x] \in Int /\ g[y] \in Int /\ DOMAIN g = {x, y} BY <1>4, <1>5
  <2>2. QED BY <1>1, <2>1, SumOfTwo
<1>8. SumFunction(f) = bought + more /\ SumFunction(g) = spent + more
  BY <1>4, <1>6, <1>7
<1>9. QED BY <1>8 DEF f, g, plans, BoughtBy, SpentBy

\* The position in what two plans bought, if they bought anything.
LEMMA PositionIs ==
  ASSUME NEW plans, NEW b \in Nat \ {0}, NEW s, NEW quote, quote # null, NEW n, NEW symbol,
         BoughtBy(plans) = b, SpentBy(plans) = s
  PROVE  /\ Position(symbol, n, plans, quote).symbol = symbol
         /\ Position(symbol, n, plans, quote).shares = n
         /\ Position(symbol, n, plans, quote).invested = (s * AtMost(n, b)) \div b
         /\ Position(symbol, n, plans, quote).value = ValueOf(n, quote)
         /\ Position(symbol, n, plans, quote).gain
              = ValueOf(AtMost(n, b), quote) - ((s * AtMost(n, b)) \div b)
<1>1. b # 0 OBVIOUS
<1>2. Position(symbol, n, plans, quote) =
        [symbol |-> symbol, shares |-> n,
         invested |-> (s * AtMost(n, b)) \div b, unknown |-> n - AtMost(n, b),
         value |-> ValueOf(n, quote),
         gain |-> ValueOf(AtMost(n, b), quote) - ((s * AtMost(n, b)) \div b)]
  BY <1>1, Zenon DEF Position, BoughtBy, SpentBy
<1>3. QED BY <1>2

\* No plans: no cost and no gain.
LEMMA PositionWithoutPlans ==
  ASSUME NEW n \in Nat, NEW quote, NEW symbol
  PROVE  /\ Position(symbol, n, {}, quote).symbol = symbol
         /\ Position(symbol, n, {}, quote).shares = n
         /\ quote = null => Position(symbol, n, {}, quote).value = null
         /\ quote # null => /\ Position(symbol, n, {}, quote).value = ValueOf(n, quote)
                            /\ Position(symbol, n, {}, quote).gain = ValueOf(0, quote) - 0
<1> DEFINE f == [p \in {} |-> p.sharesTotal]
<1>1. SumFunction(f) = 0
  <2>1. DOMAIN f = {} OBVIOUS
  <2> HIDE DEF f
  <2>2. QED BY <2>1, SumEmpty DEF SumFunction
<1>2. AtMost(n, 0) = 0 BY DEF AtMost
<1>3. QED BY <1>1, <1>2 DEF Position

\* One position without a price that is held leaves the total without a value.
LEMMA NoTotal ==
  ASSUME NEW x, NEW y, y.shares > 0, y.value = null
  PROVE  Total({x, y}).value = null
BY DEF Total

\* A position that neither gained nor lost leaves the total gain alone.
LEMMA TotalGain ==
  ASSUME NEW x, NEW y, x # y, x.shares \in Nat, y.shares > 0, x.value # null, y.value # null,
         x.gain \in Int, y.gain = 0, x.shares = 0 => x.gain = 0
  PROVE  Total({x, y}).gain = x.gain
<1> DEFINE relevant == {p \in {x, y} : p.shares > 0}
           f == [p \in relevant |-> p.gain]
<1>1. Total({x, y}).gain = SumFunction(f) BY DEF Total
<1>2. CASE x.shares > 0
  <2>1. relevant = {x, y} BY <1>2
  <2>2. DOMAIN f = {x, y} /\ f[x] = x.gain /\ f[y] = 0 BY <2>1
  <2> HIDE DEF f, relevant
  <2>3. SumFunction(f) = f[x] + f[y]
    <3>1. DOMAIN f = {x, y} /\ f[x] \in Int /\ f[y] \in Int BY <2>2
    <3>2. QED BY <3>1, SumOfTwo
  <2>4. QED BY <1>1, <2>2, <2>3
<1>3. CASE ~(x.shares > 0)
  <2>1. relevant = {y} BY <1>3
  <2>2. DOMAIN f = {y} /\ f[y] = 0 BY <2>1
  <2> HIDE DEF f, relevant
  <2>3. SumFunction(f) = f[y]
    <3>1. DOMAIN f = {y} /\ f[y] \in Int BY <2>2
    <3>2. QED BY <3>1, SumOfOne
  <2>4. QED BY <1>1, <1>3, <2>2, <2>3
<1>4. QED BY <1>2, <1>3

\* What is not held leaves the total value alone, price or no price.
LEMMA TotalValue ==
  ASSUME NEW x, NEW y, x.shares \in Nat, y.shares = 0, x.value \in Nat, x.value # null,
         x.shares = 0 => x.value = 0
  PROVE  Total({x, y}).value = x.value
<1> DEFINE relevant == {p \in {x, y} : p.shares > 0}
           f == [p \in relevant |-> p.value]
<1>1. relevant \subseteq {x} OBVIOUS
<1>2. Total({x, y}).value = SumFunction(f) BY <1>1 DEF Total
<1>3. CASE x.shares > 0
  <2>1. DOMAIN f = {x} /\ f[x] = x.value BY <1>3
  <2> HIDE DEF f, relevant
  <2>2. SumFunction(f) = f[x]
    <3>1. DOMAIN f = {x} /\ f[x] \in Int BY <2>1
    <3>2. QED BY <3>1, SumOfOne
  <2>3. QED BY <1>2, <2>1, <2>2
<1>4. CASE ~(x.shares > 0)
  <2>1. DOMAIN f = {} BY <1>4
  <2> HIDE DEF f, relevant
  <2>2. SumFunction(f) = 0 BY <2>1, SumEmpty DEF SumFunction
  <2>3. QED BY <1>2, <1>4, <2>2
<1>5. QED BY <1>3, <1>4

LEMMA TakingOutIsRight == InputsOK => TakingOutIsNoLoss
<1> SUFFICES ASSUME InputsOK, Quoted(mint_a), Quoted(mint_b),
                    NEW bought \in 1..Few, NEW more \in 0..Few, NEW spent \in 0..Few
             PROVE
    LET plans == {[address |-> 1, sharesTotal |-> bought, investedTotal |-> spent],
                  [address |-> 2, sharesTotal |-> more, investedTotal |-> more]}
        Held(n) == Position("a", n, plans, QuoteOf(mint_a))
        all == Held(bought + more)
        now == Held(amount)
        other(quote) == Position("b", bought, {}, quote)
    IN /\ amount <= bought + more =>
            now.invested + Held((bought + more) - amount).invested
              \in {all.invested - 1, all.invested}
       /\ all.gain >= 0 => now.gain >= 0
       /\ all.gain < 0 => now.gain <= 0
       /\ amount >= bought + more => now.gain = all.gain
       /\ Total({now, other(null)}).value = null
       /\ Total({now, other(QuoteOf(mint_b))}).gain = now.gain
       /\ Total({now, Position("b", 0, {}, null)}).value = now.value
  BY DEF TakingOutIsNoLoss
<1> DEFINE plans == {[address |-> 1, sharesTotal |-> bought, investedTotal |-> spent],
                     [address |-> 2, sharesTotal |-> more, investedTotal |-> more]}
           Held(n) == Position("a", n, plans, QuoteOf(mint_a))
           all == Held(bought + more)
           now == Held(amount)
           other(quote) == Position("b", bought, {}, quote)
           b == bought + more
           s == spent + more
           W(n) == AtMost(n, b)
           Cost(n) == (s * W(n)) \div b
           Value(n) == ValueOf(n, QuoteOf(mint_a))
<1>1. /\ amount \in Nat /\ b \in Nat \ {0} /\ s \in Nat
      /\ mint_a \in MintRecord /\ mint_b \in MintRecord
      /\ bought \in Nat \ {0} /\ more \in Nat /\ spent \in Nat
  BY DEF InputsOK, Amounts
<1>2. QuoteOf(mint_a) # null /\ QuoteOf(mint_b) # null
  <2>1. \A mint \in MintRecord : QuoteOf(mint) \in [price : Nat, expo : Int]
    BY MathAssumption DEF QuoteOf, MintRecord
  <2>2. QED BY <1>1, <2>1, NullAssumption, Zenon
<1>3. \A n \in Nat : /\ Held(n).symbol = "a" /\ Held(n).shares = n
                     /\ Held(n).invested = Cost(n) /\ Held(n).value = Value(n)
                     /\ Held(n).gain = Value(W(n)) - Cost(n)
  <2> SUFFICES ASSUME NEW n \in Nat
               PROVE  /\ Held(n).symbol = "a" /\ Held(n).shares = n
                      /\ Held(n).invested = Cost(n) /\ Held(n).value = Value(n)
                      /\ Held(n).gain = Value(W(n)) - Cost(n)
    OBVIOUS
  <2>1. BoughtBy(plans) = b /\ SpentBy(plans) = s
    BY <1>1, PlansAddUp DEF TwoPlans
  <2> DEFINE Q == QuoteOf(mint_a)
  <2>2. Q # null /\ b \in Nat \ {0} BY <1>1, <1>2
  <2> HIDE DEF plans, b, s, Q
  <2>3. /\ Position("a", n, plans, Q).symbol = "a"
        /\ Position("a", n, plans, Q).shares = n
        /\ Position("a", n, plans, Q).invested = (s * AtMost(n, b)) \div b
        /\ Position("a", n, plans, Q).value = ValueOf(n, Q)
        /\ Position("a", n, plans, Q).gain
             = ValueOf(AtMost(n, b), Q) - ((s * AtMost(n, b)) \div b)
    BY <2>1, <2>2, PositionIs
  <2>4. QED BY <2>3 DEF Q
<1>4. PICK p \in Nat \ {0}, d \in Nat \ {0} : \A n \in Nat : Value(n) = (n * p) \div d
  BY <1>1, ValueIs
<1>5. \A n \in Nat : W(n) \in 0..b /\ W(n) \in Nat BY <1>1 DEF AtMost
<1>6. /\ W(b) = b /\ (amount >= b => W(amount) = b) /\ W(0) = 0
      /\ (amount <= b => W(amount) = amount /\ W(b - amount) = b - amount /\ b - amount \in Nat)
  BY <1>1 DEF AtMost
<1>7. /\ now.symbol = "a" /\ now.shares = amount /\ now.invested = Cost(amount)
      /\ now.value = Value(amount) /\ now.gain = Value(W(amount)) - Cost(amount)
      /\ all.invested = Cost(b) /\ all.gain = Value(W(b)) - Cost(b)
      /\ amount <= b => Held(b - amount).invested = Cost(b - amount)
  BY <1>1, <1>3, <1>6
<1>8. \A n \in Nat : Cost(n) \in Nat /\ Value(n) \in Nat
  <2> SUFFICES ASSUME NEW n \in Nat PROVE Cost(n) \in Nat /\ Value(n) \in Nat OBVIOUS
  <2>1. s * W(n) \in Nat /\ n * p \in Nat BY <1>1, <1>4, <1>5, MulNat
  <2>2. QED BY <1>1, <1>4, <2>1, DivNat
<1>9. Cost(b) = s
  <2>1. \A k \in Nat, i \in Nat \ {0} : (k * i) \div i = k
    <3> SUFFICES ASSUME NEW k \in Nat, NEW i \in Nat \ {0} PROVE (k * i) \div i = k OBVIOUS
    <3>1. \A j \in Nat : j * i <= k * i <=> j <= (k * i) \div i BY MulNat, QuotientFits
    <3>2. (k * i) \div i \in Nat /\ ((k * i) \div i) * i <= k * i BY MulNat, DivNat, DivBounds
    <3>3. (k * i) \div i <= k BY <3>2, MulCancel
    <3>4. k <= (k * i) \div i BY <3>1
    <3>5. QED BY <3>2, <3>3, <3>4
  <2>2. QED BY <1>1, <1>6, <2>1
<1>10. amount <= b => now.invested + Held(b - amount).invested \in {all.invested - 1, all.invested}
  <2> SUFFICES ASSUME amount <= b PROVE Cost(amount) + Cost(b - amount) \in {s - 1, s}
    BY <1>7, <1>9
  <2>1. Cost(amount) = (s * amount) \div b /\ Cost(b - amount) = (s * (b - amount)) \div b
    BY <1>6
  <2>2. amount \in 0..b BY <1>1
  <2>3. (s * amount) \div b + (s * (b - amount)) \div b \in {s - 1, s}
    <3> HIDE DEF s, b
    <3>1. QED BY <1>1, <2>2, CostSplits
  <2> HIDE DEF Cost, s, b
  <2>4. QED BY <2>1, <2>3
<1>11. /\ all.gain >= 0 => now.gain >= 0
       /\ all.gain < 0 => now.gain <= 0
  <2> DEFINE w == W(amount)
  <2>1. w \in 0..b /\ w \in Nat /\ Cost(amount) = (s * w) \div b BY <1>1, <1>5
  <2>2. Value(b) = (b * p) \div d /\ Value(w) = (w * p) \div d BY <1>1, <1>4, <2>1
  <2>3. /\ (b * p) \div d >= s => (w * p) \div d >= (s * w) \div b
        /\ (b * p) \div d < s => (w * p) \div d <= (s * w) \div b
    <3> HIDE DEF b, s, w
    <3>1. QED BY <1>1, <1>4, <2>1, SignKept
  <2>4. /\ all.gain = Value(b) - s /\ now.gain = Value(w) - Cost(amount)
        /\ Value(b) \in Nat /\ Value(w) \in Nat /\ Cost(amount) \in Nat
    BY <1>1, <1>6, <1>7, <1>8, <1>9, <2>1
  <2> HIDE DEF Value, Cost, s, b, w, all, now
  <2>5. QED BY <1>1, <2>1, <2>2, <2>3, <2>4
<1>12. amount >= b => now.gain = all.gain BY <1>6, <1>7
<1>13. now.value \in Nat /\ now.value # null /\ now.gain \in Int
       /\ (amount = 0 => now.value = 0 /\ now.gain = 0)
  <2>1. Value(0) = 0 /\ Cost(0) = 0
    <3>1. 0 * p = 0 /\ s * 0 = 0 /\ 0 \div d = 0 /\ 0 \div b = 0 BY <1>1, <1>4
    <3>2. QED BY <1>4, <1>6, <3>1
  <2>2. now.value \in Int /\ now.value \in Nat /\ now.gain \in Int BY <1>1, <1>5, <1>7, <1>8
  <2>3. now.value # null BY <2>2, NullAssumption, Zenon
  <2>4. amount = 0 => now.value = 0 /\ now.gain = 0
    <3> SUFFICES ASSUME amount = 0 PROVE now.value = 0 /\ now.gain = 0 OBVIOUS
    <3>1. now.value = Value(0) /\ now.gain = Value(0) - Cost(0) BY <1>6, <1>7
    <3> HIDE DEF Value, Cost, now
    <3>2. QED BY <2>1, <3>1
  <2>5. QED BY <2>2, <2>3, <2>4
<1>14. Total({now, other(null)}).value = null
  <2> DEFINE y == other(null)
  <2>1. y.shares = bought /\ y.value = null BY <1>1, PositionWithoutPlans
  <2> HIDE DEF now, y
  <2>2. y.shares > 0 BY <1>1, <2>1
  <2>3. Total({now, y}).value = null BY <2>1, <2>2, NoTotal
  <2>4. QED BY <2>3 DEF y
<1>15. Total({now, other(QuoteOf(mint_b))}).gain = now.gain
  <2> DEFINE y == other(QuoteOf(mint_b))
  <2>1. PICK pb \in Nat \ {0}, db \in Nat \ {0} :
          \A n \in Nat : ValueOf(n, QuoteOf(mint_b)) = (n * pb) \div db
    BY <1>1, ValueIs
  <2>2. ValueOf(0, QuoteOf(mint_b)) = 0
    <3>1. 0 * pb = 0 /\ 0 \div db = 0 OBVIOUS
    <3>2. QED BY <2>1, <3>1
  <2>3. ValueOf(bought, QuoteOf(mint_b)) \in Nat BY <1>1, <2>1, MulNat, DivNat
  <2>4. /\ y.symbol = "b" /\ y.shares = bought /\ y.gain = 0
        /\ y.value = ValueOf(bought, QuoteOf(mint_b))
    BY <1>1, <1>2, <2>2, PositionWithoutPlans
  <2>5. y.value # null
    <3>1. y.value \in Int BY <2>3, <2>4
    <3>2. QED BY <3>1, NullAssumption, Zenon
  <2>6. now # y
    <3>1. now.symbol = "a" BY <1>7
    <3> HIDE DEF now, y
    <3>2. QED BY <3>1, <2>4
  <2> HIDE DEF now, y
  <2>7. QED BY <1>1, <1>7, <1>13, <2>4, <2>5, <2>6, TotalGain DEF y
<1>16. Total({now, Position("b", 0, {}, null)}).value = now.value
  <2>1. Position("b", 0, {}, null).shares = 0 BY PositionWithoutPlans
  <2> HIDE DEF now
  <2>2. QED BY <1>1, <1>7, <1>13, <2>1, TotalValue
<1>17. QED BY <1>10, <1>11, <1>12, <1>14, <1>15, <1>16

-----------------------------------------------------------------------------
(* Streaks *)

\* Every number is so many wholes and a remainder, in one way.
LEMMA Remainder ==
  ASSUME NEW n \in Nat, NEW d \in Nat \ {0}
  PROVE  n % d \in 0..(d - 1) /\ n = (n \div d) * d + (n % d)
OBVIOUS

LEMMA RemainderIs ==
  ASSUME NEW a \in Nat, NEW d \in Nat \ {0}, NEW r \in 0..(d - 1)
  PROVE  (a * d + r) % d = r
<1> DEFINE n == a * d + r
           b == n \div d
           s == n % d
<1>1. a * d \in Nat /\ n \in Nat BY MulNat
<1> HIDE DEF n
<1>2. b \in Nat /\ s \in 0..(d - 1) /\ n = b * d + s BY <1>1, Remainder, DivNat
<1> HIDE DEF b, s
<1>3. b * d \in Nat /\ (a + 1) * d = a * d + d /\ (b + 1) * d = b * d + d BY <1>2, MulNat
<1>4. ASSUME a + 1 <= b PROVE FALSE
  <2>1. (a + 1) * d <= b * d BY <1>2, <1>4, MulMonotone
  <2>2. QED BY <1>1, <1>2, <1>3, <2>1 DEF n
<1>5. ASSUME b + 1 <= a PROVE FALSE
  <2>1. (b + 1) * d <= a * d BY <1>2, <1>5, MulMonotone
  <2>2. QED BY <1>1, <1>2, <1>3, <2>1 DEF n
<1>6. a = b BY <1>2, <1>4, <1>5
<1>7. s = r BY <1>1, <1>2, <1>6 DEF n
<1>8. QED BY <1>7 DEF s, n

\* Whole weeks later it is the same day of the week.
LEMMA SameDay ==
  ASSUME NEW n \in Nat, NEW p \in Nat, p % WEEK = 0
  PROVE  (n + p) % WEEK = n % WEEK
<1> DEFINE a == n \div WEEK
           b == p \div WEEK
           r == n % WEEK
<1>1. WEEK \in Nat \ {0} BY PortfolioAssumption
<1>2. /\ a \in Nat /\ b \in Nat /\ r \in 0..(WEEK - 1)
      /\ n = a * WEEK + r /\ p = b * WEEK
  <2>1. n % WEEK \in 0..(WEEK - 1) /\ n = a * WEEK + (n % WEEK) BY <1>1, Remainder
  <2>2. p = b * WEEK + (p % WEEK) BY <1>1, Remainder
  <2>3. a \in Nat /\ b \in Nat BY <1>1, DivNat
  <2> HIDE DEF a, b
  <2>4. b * WEEK \in Nat BY <1>1, <2>3, MulNat
  <2>5. QED BY <2>1, <2>2, <2>3, <2>4
<1> HIDE DEF a, b, r
<1>3. n + p = (a + b) * WEEK + r BY <1>1, <1>2
<1>4. a + b \in Nat BY <1>2
<1>5. ((a + b) * WEEK + r) % WEEK = r BY <1>1, <1>2, <1>4, RemainderIs
<1>6. QED BY <1>3, <1>5 DEF r

\* The market opens within two days.
LEMMA OpensSoon ==
  ASSUME NEW day \in Nat
  PROVE  \E d \in day..(day + 2) : IsMarketOpen(d)
<1> DEFINE a == day \div WEEK
           r == day % WEEK
<1>1. WEEK \in Nat \ {0} /\ WEEK > 2 BY PortfolioAssumption
<1>2. a \in Nat /\ r \in 0..(WEEK - 1) /\ day = a * WEEK + r BY <1>1, Remainder, DivNat
<1>3. \A d : IsMarketOpen(d) <=> ~(d % WEEK >= WEEK - 2) BY DEF IsMarketOpen, IsWeekend
<1>4. CASE r < WEEK - 2 BY <1>1, <1>2, <1>3, <1>4
<1>5. CASE r >= WEEK - 2
  <2> DEFINE next == (a + 1) * WEEK
  <2> HIDE DEF a, r
  <2>1. next = a * WEEK + WEEK /\ a * WEEK \in Nat BY <1>1, <1>2, MulNat
  <2>2. (next + 0) % WEEK = 0 BY <1>1, <1>2, RemainderIs
  <2> HIDE DEF next
  <2>3. next \in day..(day + 2) /\ next \in Nat BY <1>1, <1>2, <1>5, <2>1
  <2>4. next % WEEK = 0 BY <2>2, <2>3
  <2>5. IsMarketOpen(next) BY <1>1, <1>3, <2>4
  <2>6. QED BY <2>3, <2>5
<1>6. QED BY <1>1, <1>2, <1>4, <1>5

\* nextMarketOpen is the first open day from the one given.
LEMMA NextOpenIs ==
  ASSUME NEW day \in Nat
  PROVE  /\ NextMarketOpen(day) \in day..(day + 2)
         /\ IsMarketOpen(NextMarketOpen(day))
         /\ \A x \in Nat : x >= day /\ IsMarketOpen(x) => NextMarketOpen(day) <= x
<1> DEFINE S == {d \in day .. day + WEEK : IsMarketOpen(d)}
<1>1. WEEK \in Nat /\ WEEK > 2 BY PortfolioAssumption
<1>2. PICK d \in day..(day + 2) : IsMarketOpen(d) BY OpensSoon
<1>3. d \in S BY <1>1, <1>2
<1>4. S \subseteq Nat OBVIOUS
<1>5. PICK m \in S : \A y \in S : m <= y BY <1>3, <1>4, LeastOf
<1>6. NextMarketOpen(day) \in S /\ \A y \in S : NextMarketOpen(day) <= y
  BY <1>5 DEF NextMarketOpen, Min
<1>7. NextMarketOpen(day) <= d BY <1>3, <1>6
<1>8. \A x \in Nat : x >= day /\ IsMarketOpen(x) => NextMarketOpen(day) <= x
  <2> SUFFICES ASSUME NEW x \in Nat, x >= day, IsMarketOpen(x) PROVE NextMarketOpen(day) <= x
    OBVIOUS
  <2>1. CASE x <= day + WEEK BY <1>1, <1>6, <2>1
  <2>2. CASE x > day + WEEK BY <1>1, <1>6, <2>2
  <2>3. QED BY <1>1, <2>1, <2>2
<1>9. QED BY <1>1, <1>2, <1>6, <1>7, <1>8

\* A buy less than a period late, by the calendar or by the market's, follows the
\* one before it in a row.
LEMMA GapIsShort ==
  ASSUME NEW from \in Nat, NEW due \in Nat, NEW to \in Nat, NEW p \in Nat \ {0}, NEW c \in Nat,
         from <= due, due <= to, due - from <= p, to - due <= p + 1, c >= p,
         \/ to - due < p
         \/ p < WEEK /\ Cardinality({d \in due..(to - 1) : IsMarketOpen(d)}) < p
  PROVE  Gap(from, to, c) < 2 * c
<1> DEFINE X == {d \in from..(to - 1) : ~IsWeekend(d)}
           Y == {d \in from..(due - 1) : ~IsWeekend(d)}
           Z == {d \in due..(to - 1) : ~IsWeekend(d)}
<1>1. WEEK \in Nat BY PortfolioAssumption
<1>2. CASE c < WEEK
  <2>1. Gap(from, to, c) = Cardinality(X)
    <3>1. AtMost(from, to) = from /\ AtLeast(from, to) = to BY DEF AtMost, AtLeast
    <3>2. QED BY <1>2, <3>1 DEF Gap, WeekdaySeconds
  <2>2. /\ IsFiniteSet(from..(due - 1)) /\ Cardinality(from..(due - 1)) = due - from
        /\ IsFiniteSet(due..(to - 1)) /\ Cardinality(due..(to - 1)) = to - due
    <3>1. /\ due - 1 \in Int /\ to - 1 \in Int
          /\ (from > due - 1 <=> due - from = 0) /\ (due > to - 1 <=> to - due = 0)
          /\ (due - 1) - from + 1 = due - from /\ (to - 1) - due + 1 = to - due
      OBVIOUS
    <3>2. \A a, b \in Int : /\ IsFiniteSet(a..b)
                            /\ Cardinality(a..b) = (IF a > b THEN 0 ELSE b - a + 1)
      BY FS_Interval
    <3>3. QED BY <3>1, <3>2
  <2>3. /\ IsFiniteSet(Y) /\ Cardinality(Y) <= due - from
        /\ IsFiniteSet(Z) /\ Cardinality(Z) <= to - due
        /\ Cardinality(Y) \in Nat /\ Cardinality(Z) \in Nat
    <3>1. Y \subseteq from..(due - 1) /\ Z \subseteq due..(to - 1) OBVIOUS
    <3> HIDE DEF Y, Z
    <3>2. IsFiniteSet(Y) /\ Cardinality(Y) <= Cardinality(from..(due - 1))
      BY <2>2, <3>1, FS_Subset
    <3>3. IsFiniteSet(Z) /\ Cardinality(Z) <= Cardinality(due..(to - 1))
      BY <2>2, <3>1, FS_Subset
    <3>4. Cardinality(Y) \in Nat /\ Cardinality(Z) \in Nat
      BY <3>2, <3>3, FS_CardinalityType
    <3>5. QED BY <2>2, <3>2, <3>3, <3>4
  <2>4. X = Y \cup Z OBVIOUS
  <2>5. Cardinality(X) <= Cardinality(Y) + Cardinality(Z) /\ Cardinality(X) \in Nat
    <3> HIDE DEF X, Y, Z
    <3>1. IsFiniteSet(X) BY <2>3, <2>4, FS_Union
    <3>2. Cardinality(X) = Cardinality(Y) + Cardinality(Z) - Cardinality(Y \cap Z)
      BY <2>3, <2>4, FS_Union
    <3>3. IsFiniteSet(Y \cap Z) BY <2>3, FS_Intersection
    <3>4. Cardinality(X) \in Nat /\ Cardinality(Y \cap Z) \in Nat
      BY <3>1, <3>3, FS_CardinalityType
    <3>5. QED BY <2>3, <3>2, <3>4
  <2>6. Cardinality(Z) < p
    <3>1. Z = {d \in due..(to - 1) : IsMarketOpen(d)} BY DEF IsMarketOpen
    <3> HIDE DEF Z
    <3>2. QED BY <2>3, <3>1
  <2> HIDE DEF X, Y, Z
  <2>7. QED BY <2>1, <2>3, <2>5, <2>6
<1>3. CASE ~(c < WEEK)
  <2>1. Gap(from, to, c) = to - from BY <1>3 DEF Gap
  <2>2. QED BY <1>1, <1>3, <2>1
<1>4. QED BY <1>2, <1>3

\* Three buys at different times, newest first.
LEMMA ExecutionsAre ==
  ASSUME NEW x, NEW y, NEW z, x.ts \in Nat, y.ts \in Nat, z.ts \in Nat,
         x.ts < y.ts, y.ts < z.ts
  PROVE  LET s == Executions({x, y, z})
         IN  Len(s) = 3 /\ s # <<>> /\ s[1] = z /\ s[2] = y /\ s[3] = x
<1> DEFINE S == {x, y, z}
           Newest(s) == \A i, j \in DOMAIN s : i < j => s[i].ts >= s[j].ts
           OneOf == {f \in [1..3 -> S] : \A i, j \in 1..3 : i # j => f[i] # f[j]}
           w == [i \in 1..3 |-> IF i = 1 THEN z ELSE IF i = 2 THEN y ELSE x]
<1>1. x # y /\ y # z /\ x # z OBVIOUS
<1>2. Cardinality(S) = 3
  <2>1. IsFiniteSet({x}) /\ Cardinality({x}) = 1 BY FS_Singleton
  <2>2. \A T, e : IsFiniteSet(T) /\ e \notin T =>
          IsFiniteSet(T \cup {e}) /\ Cardinality(T \cup {e}) = Cardinality(T) + 1
    BY FS_AddElement
  <2> DEFINE A == {x}
             B == A \cup {y}
             C == B \cup {z}
  <2>3. y \notin A /\ z \notin B /\ C = S BY <1>1
  <2> HIDE DEF S
  <2>4. IsFiniteSet(B) /\ Cardinality(B) = Cardinality(A) + 1
    <3> HIDE DEF A
    <3>1. QED BY <2>1, <2>2, <2>3 DEF A
  <2>5. Cardinality(C) = Cardinality(B) + 1
    <3> HIDE DEF B
    <3>1. QED BY <2>2, <2>3, <2>4
  <2> HIDE DEF B, C
  <2>6. QED BY <2>1, <2>3, <2>4, <2>5
<1>3. SetToSeqs(S) = OneOf
  <2> HIDE DEF S
  <2>1. QED BY <1>2 DEF SetToSeqs
<1>4. w \in OneOf
  <2>1. w \in [1..3 -> S] OBVIOUS
  <2>2. w[1] = z /\ w[2] = y /\ w[3] = x OBVIOUS
  <2> HIDE DEF w, S
  <2>3. \A i, j \in 1..3 : i # j => w[i] # w[j]
    <3>1. \A i \in 1..3 : i = 1 \/ i = 2 \/ i = 3 OBVIOUS
    <3>2. QED BY <1>1, <2>2, <3>1
  <2>4. QED BY <2>1, <2>3
<1>5. Newest(w)
  <2>1. w[1] = z /\ w[2] = y /\ w[3] = x /\ DOMAIN w = 1..3 OBVIOUS
  <2> HIDE DEF w
  <2>2. \A i \in 1..3 : i = 1 \/ i = 2 \/ i = 3 OBVIOUS
  <2>3. QED BY <2>1, <2>2
<1> DEFINE s == Executions(S)
<1>6. s \in OneOf /\ Newest(s)
  <2>1. s = CHOOSE f \in OneOf : Newest(f) BY <1>3 DEF Executions
  <2> HIDE DEF s, OneOf, Newest, w
  <2>2. QED BY <1>4, <1>5, <2>1
<1>7. s[1] = z /\ s[2] = y /\ s[3] = x
  <2>1. /\ s[1] \in S /\ s[2] \in S /\ s[3] \in S
        /\ s[1] # s[2] /\ s[2] # s[3] /\ s[1] # s[3]
        /\ s[1].ts >= s[2].ts /\ s[2].ts >= s[3].ts
    <3>1. DOMAIN s = 1..3 BY <1>6
    <3>2. 1 \in 1..3 /\ 2 \in 1..3 /\ 3 \in 1..3 OBVIOUS
    <3> HIDE DEF s, S
    <3>3. QED BY <1>6, <3>1, <3>2
  <2> HIDE DEF s
  <2>2. QED BY <1>1, <2>1
<1>8. Len(s) = 3 /\ s # <<>>
  <2>1. s \in [1..3 -> S] BY <1>6
  <2> HIDE DEF s, S
  <2>2. s \in Seq(S)
    <3>1. [1..3 -> S] \in {[1..n -> S] : n \in Nat} OBVIOUS
    <3>2. QED BY <2>1, <3>1, SeqDef
  <2>3. Len(s) \in Nat /\ DOMAIN s = 1..Len(s) BY <2>2, LenProperties
  <2>4. Len(s) = 3
    <3> DEFINE n == Len(s)
    <3>1. 1..n = 1..3 /\ n \in Nat BY <2>1, <2>3
    <3> HIDE DEF n
    <3>2. 3 \in 1..n BY <3>1
    <3>3. n \in 1..3 BY <3>1, <3>2
    <3>4. n = 3 BY <3>1, <3>2, <3>3
    <3>5. QED BY <3>4 DEF n
  <2>5. Len(<<>>) = 0 OBVIOUS
  <2>6. ASSUME s = <<>> PROVE FALSE
    <3>1. Len(s) = Len(<<>>) BY <2>6, Zenon
    <3>2. QED BY <2>4, <2>5, <3>1
  <2>7. QED BY <2>4, <2>6
<1>9. QED BY <1>7, <1>8

\* A gap of no time is short.
LEMMA NoGap == ASSUME NEW n \in Nat, NEW c \in Nat \ {0} PROVE Gap(n, n, c) < 2 * c
<1>1. WeekdaySeconds(n, n) = 0
  <2>1. AtMost(n, n) = n /\ AtLeast(n, n) = n BY DEF AtMost, AtLeast
  <2>2. {d \in n..(n - 1) : ~IsWeekend(d)} = {} OBVIOUS
  <2>3. QED BY <2>1, <2>2, FS_EmptySet DEF WeekdaySeconds
<1>2. QED BY <1>1 DEF Gap

\* The streak of three buys on the day of the last one: all of them when they
\* follow each other closely, and one when the last did not.
LEMMA StreakOfThree ==
  ASSUME NEW x, NEW y, NEW z, x.ts \in Nat, y.ts \in Nat, z.ts \in Nat,
         x.ts < y.ts, y.ts < z.ts, z.cadence \in Nat \ {0}
  PROVE  LET k == ComputeStreak(Executions({x, y, z}), z.cadence, z.ts).count
         IN  /\ /\ Gap(x.ts, y.ts, y.cadence) < 2 * y.cadence
                /\ Gap(y.ts, z.ts, z.cadence) < 2 * z.cadence
                => k = 3
             /\ ~(Gap(y.ts, z.ts, z.cadence) < 2 * z.cadence) => k = 1
<1> DEFINE e == Executions({x, y, z})
           Near(i) == Gap(e[i].ts, e[i-1].ts, e[i-1].cadence) < 2 * e[i-1].cadence
           inRow == {n \in 1..Len(e) : \A i \in 2..n : Near(i)}
           c == z.cadence
           now == z.ts
           k == ComputeStreak(e, c, now).count
<1>1. Len(e) = 3 /\ e # <<>> /\ e[1] = z /\ e[2] = y /\ e[3] = x BY ExecutionsAre
<1>2. c # null
  <2>1. c \in Int OBVIOUS
  <2>2. QED BY <2>1, NullAssumption, Zenon
<1> HIDE DEF e
<1>3. Gap(e[1].ts, now, c) < 2 * c BY <1>1, NoGap
<1>4. k = Max(inRow) BY <1>1, <1>2, <1>3 DEF ComputeStreak
<1>5. /\ Near(2) <=> Gap(y.ts, z.ts, z.cadence) < 2 * z.cadence
      /\ Near(3) <=> Gap(x.ts, y.ts, y.cadence) < 2 * y.cadence
  <2>1. 2 - 1 = 1 /\ 3 - 1 = 2 OBVIOUS
  <2>2. QED BY <1>1, <2>1
<1>6. inRow = {n \in 1..3 : \A i \in 2..n : Near(i)} BY <1>1
<1> HIDE DEF Near, k
<1>7. ASSUME Near(2), Near(3) PROVE k = 3
  <2>1. inRow = 1..3
    <3>1. \A n \in 1..3 : \A i \in 2..n : i = 2 \/ i = 3 OBVIOUS
    <3>2. QED BY <1>6, <1>7, <3>1
  <2>2. Max(1..3) = 3
    <3> DEFINE S == 1..3
    <3>1. S \subseteq Nat /\ 3 \in S /\ \A n \in S : n <= 3 OBVIOUS
    <3> HIDE DEF S
    <3>2. Max(S) = 3 BY <3>1, MaxIs
    <3>3. QED BY <3>2 DEF S
  <2>3. QED BY <1>4, <2>1, <2>2
<1>8. ASSUME ~Near(2) PROVE k = 1
  <2>1. 1 \in inRow /\ inRow \subseteq Nat BY <1>6
  <2>2. \A n \in inRow : n <= 1
    <3>1. \A n \in 1..3 : n <= 1 \/ 2 \in 2..n OBVIOUS
    <3>2. QED BY <1>6, <1>8, <3>1
  <2> HIDE DEF inRow
  <2>3. QED BY <1>4, <2>1, <2>2, MaxIs
<1>9. QED BY <1>5, <1>7, <1>8 DEF k, e

LEMMA StreakIsRight == InputsOK => StreakIsFair
<1> SUFFICES ASSUME InputsOK, saver # null PROVE StreakIsFair BY DEF StreakIsFair
<1> DEFINE p == saver.pace
           g == saver.changed
           Late(n, c) == <<0, c \div 2, c - 1>>[saver.late[n] + 1]
           At(due, n, c) == NextMarketOpen(due + Late(n, c))
           first == At(amount, 1, p)
           due2 == NextDueAfter(amount, p, first)
           second == At(due2, 2, p)
           due3 == NextDueAfter(due2, p, second)
           third == At(due3, 3, p)
           Punctual(due, buy) ==
             \/ buy - due < p
             \/ /\ p < WEEK
                /\ Cardinality({d \in due..(buy - 1) : IsMarketOpen(d)}) < p
           Buys(last) == {[ts |-> first, cadence |-> p], [ts |-> second, cadence |-> p],
                          [ts |-> last, cadence |-> g]}
           Count(last) == ComputeStreak(Executions(Buys(last)), g, last).count
           last == At(due3 + p, 3, p)
<1>1. /\ saver \in Savers /\ amount \in Nat /\ p \in Nat \ {0} /\ g \in Nat \ {0}
      /\ \A n \in 1..3 : saver.late[n] \in 0..2
  <2>1. saver \in Savers BY DEF InputsOK
  <2>2. p \in Paces /\ g \in Paces /\ saver.late \in [1..3 -> 0..2] BY <2>1 DEF Savers
  <2>3. p \in Nat \ {0} /\ g \in Nat \ {0} BY <2>2, MCAssumption
  <2>4. amount \in Nat BY MCAssumption DEF InputsOK, Amounts
  <2> HIDE DEF p, g
  <2>5. QED BY <2>1, <2>2, <2>3, <2>4
<1>2. \A n \in 1..3 : Late(n, p) \in 0..(p - 1) /\ (saver.late[n] = 0 => Late(n, p) = 0)
  <2> SUFFICES ASSUME NEW n \in 1..3
               PROVE  Late(n, p) \in 0..(p - 1) /\ (saver.late[n] = 0 => Late(n, p) = 0)
    OBVIOUS
  <2> DEFINE l == saver.late[n]
  <2>1. l \in 0..2 BY <1>1
  <2>2. p \div 2 \in 0..(p - 1) BY <1>1
  <2> HIDE DEF p, l
  <2>3. <<0, p \div 2, p - 1>>[l + 1] \in {0, p \div 2, p - 1} BY <2>1
  <2>4. l = 0 => <<0, p \div 2, p - 1>>[l + 1] = 0 OBVIOUS
  <2>5. QED BY <1>1, <2>2, <2>3, <2>4 DEF l
<1>3. \A due \in Nat, n \in 1..3 : At(due, n, p) \in due..(due + (p + 1))
  <2> SUFFICES ASSUME NEW due \in Nat, NEW n \in 1..3
               PROVE  At(due, n, p) \in due..(due + (p + 1))
    OBVIOUS
  <2> DEFINE d == due + Late(n, p)
  <2>1. d \in due..(due + (p - 1)) /\ d \in Nat BY <1>1, <1>2
  <2> HIDE DEF d, p
  <2>2. NextMarketOpen(d) \in d..(d + 2) BY <2>1, NextOpenIs
  <2>3. NextMarketOpen(d) \in due..(due + (p + 1)) BY <1>1, <2>1, <2>2
  <2>4. QED BY <2>3 DEF d, p
<1> HIDE DEF p, g, At
<1>4. first \in Nat BY <1>1, <1>3
<1>5. first < due2 /\ due2 - first <= p /\ due2 \in Nat
  <2> HIDE DEF first
  <2>1. first \in amount..(amount + (p + 1)) BY <1>1, <1>3 DEF first
  <2>2. QED BY <1>1, <1>4, <2>1 DEF NextDueAfter
<1>6. second \in due2..(due2 + (p + 1)) /\ second \in Nat
  <2> HIDE DEF due2
  <2>1. QED BY <1>1, <1>3, <1>5
<1>7. second < due3 /\ due3 - second <= p /\ due3 \in Nat
  <2> HIDE DEF second, due2
  <2>1. QED BY <1>1, <1>5, <1>6 DEF NextDueAfter
<1>8. third \in due3..(due3 + (p + 1)) /\ third \in Nat
  <2> HIDE DEF due3
  <2>1. QED BY <1>1, <1>3, <1>7
<1>9. last \in (due3 + p)..((due3 + p) + (p + 1)) /\ last \in Nat
  <2> HIDE DEF due3
  <2>1. due3 + p \in Nat BY <1>1, <1>7
  <2>2. QED BY <1>1, <1>3, <2>1
<1> HIDE DEF first, due2, second, due3, third, last
<1>10. ASSUME NEW to \in Nat, second < to
       PROVE  /\ /\ Gap(first, second, p) < 2 * p /\ Gap(second, to, g) < 2 * g
                 => Count(to) = 3
              /\ ~(Gap(second, to, g) < 2 * g) => Count(to) = 1
  <2> DEFINE x == [ts |-> first, cadence |-> p]
             y == [ts |-> second, cadence |-> p]
             z == [ts |-> to, cadence |-> g]
  <2>1. /\ x.ts = first /\ y.ts = second /\ z.ts = to
        /\ y.cadence = p /\ z.cadence = g
    OBVIOUS
  <2>2. first < second BY <1>4, <1>5, <1>6
  <2>3. Count(to) = ComputeStreak(Executions({x, y, z}), z.cadence, z.ts).count
    BY <2>1
  <2> HIDE DEF x, y, z, Count
  <2>4. QED BY <1>1, <1>4, <1>6, <1>10, <2>1, <2>2, <2>3, StreakOfThree
<1>11. ASSUME g >= p, Punctual(due2, second), Punctual(due3, third) PROVE Count(third) = 3
  <2>1. Gap(first, second, p) < 2 * p
    <3>1. second - due2 <= p + 1 /\ due2 <= second /\ first <= due2 BY <1>1, <1>4, <1>5, <1>6
    <3>2. p \in Nat /\ p >= p BY <1>1
    <3>3. QED BY <1>1, <1>4, <1>5, <1>6, <1>11, <3>1, <3>2, GapIsShort
  <2>2. Gap(second, third, g) < 2 * g
    <3>1. third - due3 <= p + 1 /\ due3 <= third /\ second <= due3 BY <1>1, <1>6, <1>7, <1>8
    <3>2. QED BY <1>1, <1>6, <1>7, <1>8, <1>11, <3>1, GapIsShort
  <2>3. second < third BY <1>6, <1>7, <1>8
  <2> HIDE DEF Count
  <2>4. QED BY <1>8, <1>10, <2>1, <2>2, <2>3
<1>12. ASSUME g = p, p % WEEK = 0, saver.late[2] = 0 PROVE Count(last) = 1
  <2>1. WEEK \in Nat /\ WEEK > 2 BY PortfolioAssumption
  <2>2. p >= WEEK
    <3> SUFFICES ASSUME p < WEEK PROVE FALSE BY <1>1, <2>1
    <3>1. 0 * WEEK = 0 /\ 0 * WEEK + p = p BY <1>1, <2>1
    <3>2. (0 * WEEK + p) % WEEK = p BY <1>1, <2>1, RemainderIs
    <3>3. QED BY <1>1, <1>12, <3>1, <3>2
  <2>3. second = NextMarketOpen(due2)
    <3>1. second = NextMarketOpen(due2 + Late(2, p)) BY DEF second, At
    <3>2. Late(2, p) = 0 BY <1>2, <1>12
    <3>3. due2 + 0 = due2 BY <1>5
    <3> HIDE DEF Late
    <3>4. QED BY <3>1, <3>2, <3>3
  <2>4. /\ second \in due2..(due2 + 2)
        /\ \A x \in Nat : x >= due2 /\ IsMarketOpen(x) => second <= x
    BY <1>5, <2>3, NextOpenIs
  <2>5. due3 = due2 + p BY <1>1, <1>5, <2>1, <2>2, <2>4 DEF due3, NextDueAfter
  <2>6. IsMarketOpen(last) /\ last >= due3 + p
    <3>1. last = NextMarketOpen((due3 + p) + Late(3, p)) BY DEF last, At
    <3>2. Late(3, p) \in Nat BY <1>1, <1>2
    <3> HIDE DEF Late
    <3>3. (due3 + p) + Late(3, p) \in Nat BY <1>1, <1>7, <3>2
    <3>4. QED BY <1>1, <1>7, <1>9, <3>1, <3>3, NextOpenIs
  <2> DEFINE back == last - 2 * p
  <2>7. /\ back \in Nat /\ back >= due2 /\ back + p \in Nat
        /\ (back + p) + p = last
    BY <1>1, <1>5, <1>7, <1>9, <2>5, <2>6
  <2> HIDE DEF back
  <2>8. back % WEEK = last % WEEK
    <3>1. (back + p) % WEEK = back % WEEK BY <1>1, <1>12, <2>7, SameDay
    <3>2. ((back + p) + p) % WEEK = (back + p) % WEEK BY <1>1, <1>12, <2>7, SameDay
    <3>3. QED BY <2>7, <3>1, <3>2
  <2>9. IsMarketOpen(back) BY <2>6, <2>8 DEF IsMarketOpen, IsWeekend
  <2>10. second <= back BY <2>4, <2>7, <2>9
  <2>11. Gap(second, last, g) = last - second /\ last - second >= 2 * g
    <3>1. ~(g < WEEK) BY <1>1, <1>12, <2>1, <2>2
    <3>2. Gap(second, last, g) = last - second BY <3>1 DEF Gap
    <3>3. last - second >= 2 * g BY <1>1, <1>6, <1>9, <1>12, <2>7, <2>10
    <3>4. QED BY <3>2, <3>3
  <2>12. second < last /\ ~(Gap(second, last, g) < 2 * g)
    BY <1>1, <1>6, <1>9, <2>11
  <2> HIDE DEF Count
  <2>13. QED BY <1>9, <1>10, <2>12
<1>13. QED
  BY <1>11, <1>12 DEF StreakIsFair, p, g, At, first, due2, second, due3, third, last

-----------------------------------------------------------------------------
\* The keeper's fee is the least the ceiling allows that covers its share and
\* the minimum, and less than the amount, for every amount and every setting.
THEOREM FeeIsRight == Spec => []FeeMatchesReference
BY InputsKept, FeeIsReference, PTL

\* The ratcheted floor is the largest whole number within the tolerance.
THEOREM FloorIsRight == Spec => []FloorMatchesReference
BY InputsKept, FloorIsReference, PTL

\* No conversion creates value, at any decimals, multipliers and scales.
THEOREM NeverProfits == Spec => []ConversionsNeverProfit
BY InputsKept, NoConversionProfits, PTL

\* And splitting one never yields more.
THEOREM NeverPaysToSplit == Spec => []SplittingNeverPays
BY InputsKept, NoSplittingPays, PTL

\* What the app says of an allowance and of a plan's limits is what the program does.
THEOREM FundingIsRight == Spec => []FundingMatchesTheProgram
BY InputsKept, FundingIsReference, PTL

\* Taking shares out never reads as losing money, nor as making it, at any prices,
\* decimals and amounts.
THEOREM TakingOutReadsRight == Spec => []TakingOutIsNoLoss
BY InputsKept, TakingOutIsRight, PTL

\* No weekend and no change to a slower pace costs a reliable saver a streak, and
\* a skipped week does.
THEOREM StreakCounts == Spec => []StreakIsFair
BY InputsKept, StreakIsRight, PTL
=============================================================================
