------------------------- MODULE ParitasMath_proofs -------------------------
(***************************************************************************)
(* Lemmas about the program's arithmetic, for every scale: quotients, fees *)
(* and floors, what a conversion keeps and loses; and about the sums that  *)
(* the invariants of the books are stated with.                            *)
(***************************************************************************)
EXTENDS ParitasMath, FiniteSetTheorems, TLAPS

-----------------------------------------------------------------------------
(* Products and quotients *)

\* Division of naturals is a natural.
LEMMA DivNat == ASSUME NEW a \in Nat, NEW b \in Nat \ {0} PROVE a \div b \in Nat
  OBVIOUS

\* The product of naturals is a natural.
LEMMA MulNat == ASSUME NEW a \in Nat, NEW b \in Nat PROVE a * b \in Nat
  OBVIOUS

\* The product of positive numbers is positive.
LEMMA MulPositive == ASSUME NEW a \in Nat \ {0}, NEW b \in Nat \ {0} PROVE a * b \in Nat \ {0}
  OBVIOUS

\* Multiplying keeps the order.
LEMMA MulMonotone ==
  ASSUME NEW a \in Nat, NEW b \in Nat, NEW c \in Nat, a <= b PROVE a * c <= b * c
<1>1. b - a \in Nat OBVIOUS
<1>2. (b - a) * c \in Nat BY <1>1, MulNat
<1>3. b * c = a * c + (b - a) * c OBVIOUS
<1>4. QED BY <1>2, <1>3

\* A positive common factor cancels.
LEMMA MulCancel ==
  ASSUME NEW a \in Nat, NEW b \in Nat, NEW c \in Nat \ {0}, a * c <= b * c PROVE a <= b
<1> SUFFICES ASSUME b + 1 <= a PROVE FALSE OBVIOUS
<1>1. (b + 1) * c <= a * c BY MulMonotone
<1>2. (b + 1) * c = b * c + c OBVIOUS
<1>3. a * c \in Nat /\ b * c \in Nat BY MulNat
<1>4. QED BY <1>1, <1>2, <1>3

\* What rounding down means.
LEMMA DivBounds ==
  ASSUME NEW a \in Nat, NEW d \in Nat \ {0}
  PROVE  (a \div d) * d <= a /\ a < (a \div d + 1) * d
  OBVIOUS

\* The quotient is the largest that fits.
LEMMA DivGreatest ==
  ASSUME NEW a \in Nat, NEW d \in Nat \ {0}, NEW k \in Nat, k * d <= a
  PROVE  k <= a \div d
<1> DEFINE q == a \div d
<1>1. q \in Nat /\ a < (q + 1) * d BY DivNat, DivBounds
<1> HIDE DEF q
<1> SUFFICES ASSUME q + 1 <= k PROVE FALSE BY <1>1 DEF q
<1>2. (q + 1) * d <= k * d BY <1>1, MulMonotone
<1>3. (q + 1) * d \in Nat /\ k * d \in Nat BY <1>1, MulNat
<1>4. QED BY <1>1, <1>2, <1>3

\* Dividing keeps the order.
LEMMA DivMonotone ==
  ASSUME NEW a \in Nat, NEW b \in Nat, NEW d \in Nat \ {0}, a <= b
  PROVE  a \div d <= b \div d
<1>1. a \div d \in Nat /\ (a \div d) * d <= a BY DivNat, DivBounds
<1>2. (a \div d) * d <= b BY <1>1, MulNat
<1>3. QED BY <1>1, <1>2, DivGreatest

\* Rounding twice loses at least as much as rounding once.
LEMMA DivSum ==
  ASSUME NEW a \in Nat, NEW b \in Nat, NEW d \in Nat \ {0}
  PROVE  a \div d + b \div d <= (a + b) \div d
<1>1. /\ a \div d \in Nat /\ (a \div d) * d <= a
      /\ b \div d \in Nat /\ (b \div d) * d <= b
  BY DivNat, DivBounds
<1> DEFINE p == a \div d
           q == b \div d
<1> HIDE DEF p, q
<1>2. p \in Nat /\ q \in Nat /\ p * d <= a /\ q * d <= b BY <1>1 DEF p, q
<1>3. (p + q) * d = p * d + q * d BY <1>2
<1>4. (p + q) * d <= a + b BY <1>2, <1>3, MulNat
<1>5. p + q <= (a + b) \div d BY <1>2, <1>4, DivGreatest
<1>6. QED BY <1>5 DEF p, q

-----------------------------------------------------------------------------
(* schedule_math.rs *)

\* A keeper fee is a natural number, whatever the settings.
LEMMA KeeperFeeType ==
  ASSUME NEW amount \in Nat, NEW bps \in Nat, NEW min \in Nat
  PROVE  KeeperFee(amount, bps, min) \in Nat
  BY DivNat, MulNat, MathAssumption DEF KeeperFee, FeeCeiling, AtMost, AtLeast

\* It is never more than the ceiling's share of the amount.
LEMMA KeeperFeeCapped ==
  ASSUME NEW amount \in Nat, NEW bps \in Nat, NEW min \in Nat
  PROVE  KeeperFee(amount, bps, min) * BPS <= amount * MAX_KEEPER_FEE_BPS
<1>1. BPS \in Nat \ {0} /\ MAX_KEEPER_FEE_BPS \in Nat BY MathAssumption
<1>2. amount * MAX_KEEPER_FEE_BPS \in Nat /\ amount * bps \in Nat BY <1>1, MulNat
<1>3. /\ FeeCeiling(amount) \in Nat
      /\ FeeCeiling(amount) * BPS <= amount * MAX_KEEPER_FEE_BPS
  BY <1>1, <1>2, DivNat, DivBounds DEF FeeCeiling
<1>4. (amount * bps) \div BPS \in Nat BY <1>1, <1>2, DivNat
<1>5. KeeperFee(amount, bps, min) <= FeeCeiling(amount)
  BY <1>3, <1>4 DEF KeeperFee, AtMost, AtLeast
<1>6. KeeperFee(amount, bps, min) * BPS <= FeeCeiling(amount) * BPS
  BY <1>1, <1>3, <1>5, KeeperFeeType, MulMonotone
<1>7. KeeperFee(amount, bps, min) * BPS \in Nat /\ FeeCeiling(amount) * BPS \in Nat
  BY <1>1, <1>3, KeeperFeeType, MulNat
<1>8. QED BY <1>2, <1>3, <1>6, <1>7

\* So is a ratcheted floor, within the widest tolerance.
LEMMA RatchetedFloorType ==
  ASSUME NEW realised \in Nat, NEW tolerance \in 0..MAX_FLOOR_TOLERANCE
  PROVE  RatchetedFloor(realised, tolerance) \in Nat
<1>1. BPS - tolerance \in Nat BY MathAssumption
<1>2. QED BY <1>1, DivNat, MulNat, MathAssumption DEF RatchetedFloor

-----------------------------------------------------------------------------
(* multiplier.rs *)

\* What compute_rate scales one side by.
Scale(dec_a, dec_b) == IF dec_b >= dec_a THEN PowerOfTen[dec_b - dec_a] ELSE 1

\* A mint's scale is positive.
LEMMA PowerType ==
  ASSUME NEW d \in 0..MAX_DECIMALS
  PROVE  PowerOfTen[d] \in Nat \ {0} /\ PowerOfTen[MAX_DECIMALS - d] \in Nat \ {0}
<1>1. MAX_DECIMALS \in Nat /\ PowerOfTen \in [0..MAX_DECIMALS -> Nat \ {0}]
  BY MathAssumption
<1>2. MAX_DECIMALS - d \in 0..MAX_DECIMALS BY <1>1
<1>3. QED BY <1>1, <1>2

\* So is the scale between two mints.
LEMMA ScaleType ==
  ASSUME NEW dec_a \in 0..MAX_DECIMALS, NEW dec_b \in 0..MAX_DECIMALS
  PROVE  Scale(dec_a, dec_b) \in Nat \ {0}
<1>1. MAX_DECIMALS \in Nat BY MathAssumption
<1>2. CASE dec_b >= dec_a
  <2>1. dec_b - dec_a \in 0..MAX_DECIMALS BY <1>1, <1>2
  <2>2. QED BY <1>2, <2>1, PowerType DEF Scale
<1>3. CASE ~(dec_b >= dec_a) BY <1>3 DEF Scale
<1>4. QED BY <1>2, <1>3

\* The numerator and the denominator of compute_rate.
LEMMA RateTerms ==
  ASSUME NEW mult_a \in Nat, NEW dec_a \in 0..MAX_DECIMALS,
         NEW mult_b \in Nat \ {0}, NEW dec_b \in 0..MAX_DECIMALS
  PROVE  /\ Scale(dec_a, dec_b) \in Nat \ {0} /\ Scale(dec_b, dec_a) \in Nat \ {0}
         /\ RateNumerator(mult_a, dec_a, dec_b) = mult_a * RATE_SCALE * Scale(dec_a, dec_b)
         /\ RateDenominator(mult_b, dec_a, dec_b) = mult_b * Scale(dec_b, dec_a)
         /\ RateNumerator(mult_a, dec_a, dec_b) \in Nat
         /\ RateDenominator(mult_b, dec_a, dec_b) \in Nat \ {0}
<1>1. Scale(dec_a, dec_b) \in Nat \ {0} /\ Scale(dec_b, dec_a) \in Nat \ {0}
  BY ScaleType
<1>2. RateNumerator(mult_a, dec_a, dec_b) = mult_a * RATE_SCALE * Scale(dec_a, dec_b)
  BY DEF RateNumerator, Scale
<1>3. RateDenominator(mult_b, dec_a, dec_b) = mult_b * Scale(dec_b, dec_a)
  <2>1. PowerOfTen[0] = 1
    <3>1. PowerOfTen[0] \in Nat \ {0} BY MathAssumption
    <3>2. PowerOfTen[0] = PowerOfTen[0] * PowerOfTen[0] BY MathAssumption
    <3>3. \A p \in Nat \ {0} : p = p * p => p = 1 OBVIOUS
    <3>4. QED BY <3>1, <3>2, <3>3
  <2>2. CASE dec_a = dec_b BY <2>1, <2>2 DEF RateDenominator, Scale
  <2>3. CASE dec_a # dec_b BY <2>3 DEF RateDenominator, Scale
  <2>4. QED BY <2>2, <2>3
<1>4. mult_a * RATE_SCALE * Scale(dec_a, dec_b) \in Nat BY <1>1, MulNat, MathAssumption
<1>5. mult_b * Scale(dec_b, dec_a) \in Nat \ {0} BY <1>1, MulPositive
<1>6. QED BY <1>1, <1>2, <1>3, <1>4, <1>5

\* The rate between any two mints is a natural number.
LEMMA ComputeRateType ==
  ASSUME NEW mult_a \in Nat, NEW dec_a \in 0..MAX_DECIMALS,
         NEW mult_b \in Nat \ {0}, NEW dec_b \in 0..MAX_DECIMALS
  PROVE  ComputeRate(mult_a, dec_a, mult_b, dec_b) \in Nat
BY RateTerms, DivNat DEF ComputeRate

\* A rate times its denominator is at most its numerator.
LEMMA RateBound ==
  ASSUME NEW mult_a \in Nat, NEW dec_a \in 0..MAX_DECIMALS,
         NEW mult_b \in Nat \ {0}, NEW dec_b \in 0..MAX_DECIMALS
  PROVE  ComputeRate(mult_a, dec_a, mult_b, dec_b) * (mult_b * Scale(dec_b, dec_a))
           <= mult_a * RATE_SCALE * Scale(dec_a, dec_b)
<1> DEFINE N == RateNumerator(mult_a, dec_a, dec_b)
           D == RateDenominator(mult_b, dec_a, dec_b)
<1>1. N \in Nat /\ D \in Nat \ {0} BY RateTerms
<1>2. ComputeRate(mult_a, dec_a, mult_b, dec_b) = N \div D BY DEF ComputeRate
<1>3. N = mult_a * RATE_SCALE * Scale(dec_a, dec_b) /\ D = mult_b * Scale(dec_b, dec_a)
  BY RateTerms
<1> HIDE DEF N, D
<1>4. (N \div D) * D <= N BY <1>1, DivBounds
<1>5. QED BY <1>2, <1>3, <1>4

\* There and back is never more than one for one.
LEMMA RatesCancel ==
  ASSUME NEW ma \in Nat \ {0}, NEW da \in 0..MAX_DECIMALS,
         NEW mb \in Nat \ {0}, NEW db \in 0..MAX_DECIMALS
  PROVE  ComputeRate(ma, da, mb, db) * ComputeRate(mb, db, ma, da) <= RATE_SCALE * RATE_SCALE
<1> DEFINE r == ComputeRate(ma, da, mb, db)
           q == ComputeRate(mb, db, ma, da)
           s == Scale(da, db)
           t == Scale(db, da)
           R == RATE_SCALE
<1>1. /\ r \in Nat /\ q \in Nat /\ s \in Nat \ {0} /\ t \in Nat \ {0}
      /\ R \in Nat \ {0}
  BY ComputeRateType, RateTerms, MathAssumption
<1>2. r * (mb * t) <= ma * R * s BY RateBound
<1>3. q * (ma * s) <= mb * R * t BY RateBound
<1> HIDE DEF r, q, s, t, R
<1>4. (r * (mb * t)) * (q * (ma * s)) <= (ma * R * s) * (q * (ma * s))
  <2>1. r * (mb * t) \in Nat /\ ma * R * s \in Nat /\ q * (ma * s) \in Nat
    BY <1>1, MulNat
  <2>2. QED BY <1>2, <2>1, MulMonotone
<1>5. (q * (ma * s)) * (ma * R * s) <= (mb * R * t) * (ma * R * s)
  <2>1. q * (ma * s) \in Nat /\ mb * R * t \in Nat /\ ma * R * s \in Nat
    BY <1>1, MulNat
  <2>2. QED BY <1>3, <2>1, MulMonotone
<1> DEFINE c == ma * mb * s * t
<1>6. (r * (mb * t)) * (q * (ma * s)) = (r * q) * c BY <1>1
<1>7. (mb * R * t) * (ma * R * s) = (R * R) * c BY <1>1
<1>8. (ma * R * s) * (q * (ma * s)) = (q * (ma * s)) * (ma * R * s) BY <1>1
<1>9. c \in Nat \ {0} /\ r * q \in Nat /\ R * R \in Nat BY <1>1, MulNat, MulPositive
<1> HIDE DEF c
<1>10. (r * q) * c <= (R * R) * c
  <2> DEFINE x == (ma * R * s) * (q * (ma * s))
  <2>1. x \in Nat BY <1>1, MulNat
  <2>2. (r * q) * c <= x BY <1>4, <1>6
  <2>3. x <= (R * R) * c BY <1>5, <1>7, <1>8
  <2>4. (r * q) * c \in Nat /\ (R * R) * c \in Nat BY <1>9, MulNat
  <2> HIDE DEF x
  <2>5. QED BY <2>1, <2>2, <2>3, <2>4
<1>11. r * q <= R * R BY <1>9, <1>10, MulCancel
<1>12. QED BY <1>11 DEF r, q, R

\* A conversion yields a natural number, rounded down.
LEMMA ConvertType ==
  ASSUME NEW n \in Nat, NEW rate \in Nat
  PROVE  /\ ConvertAmount(n, rate) \in Nat
         /\ ConvertAmount(n, rate) * RATE_SCALE <= n * rate
BY DivNat, MulNat, DivBounds, MathAssumption DEF ConvertAmount

\* A conversion keeps the exact worth of an amount or loses some of it.
LEMMA ConversionLoses ==
  ASSUME NEW n \in Nat,
         NEW ma \in Nat, NEW da \in 0..MAX_DECIMALS,
         NEW mb \in Nat \ {0}, NEW db \in 0..MAX_DECIMALS
  PROVE  ConvertAmount(n, ComputeRate(ma, da, mb, db)) * mb * PowerOfTen[MAX_DECIMALS - db]
           <= n * ma * PowerOfTen[MAX_DECIMALS - da]
<1> DEFINE r == ComputeRate(ma, da, mb, db)
           q == ConvertAmount(n, r)
           s == Scale(da, db)
           t == Scale(db, da)
           R == RATE_SCALE
           pa == PowerOfTen[MAX_DECIMALS - da]
           pb == PowerOfTen[MAX_DECIMALS - db]
<1>1. /\ r \in Nat /\ s \in Nat \ {0} /\ t \in Nat \ {0} /\ R \in Nat \ {0}
      /\ pa \in Nat \ {0} /\ pb \in Nat \ {0}
  <2>1. r \in Nat BY ComputeRateType
  <2>2. s \in Nat \ {0} /\ t \in Nat \ {0} BY ScaleType
  <2>3. pa \in Nat \ {0} /\ pb \in Nat \ {0} BY PowerType
  <2>4. R \in Nat \ {0} BY MathAssumption
  <2>5. QED BY <2>1, <2>2, <2>3, <2>4
<1>2. q \in Nat /\ q * R <= n * r BY <1>1, ConvertType
<1>3. r * (mb * t) <= ma * R * s BY RateBound
<1>4. pa * t = pb * s
  <2>1. ASSUME NEW d \in 0..MAX_DECIMALS, NEW e \in 0..MAX_DECIMALS, e >= d
        PROVE  PowerOfTen[MAX_DECIMALS - d] = PowerOfTen[MAX_DECIMALS - e] * PowerOfTen[e - d]
    <3>1. /\ MAX_DECIMALS - e \in 0..MAX_DECIMALS /\ e - d \in 0..MAX_DECIMALS
          /\ (MAX_DECIMALS - e) + (e - d) = MAX_DECIMALS - d
      BY <2>1, MathAssumption
    <3>2. QED BY <3>1, MathAssumption
  <2>2. CASE da = db
    <3>1. s = t BY <2>2
    <3>2. QED BY <2>2, <3>1
  <2>3. CASE da < db
    <3>1. s = PowerOfTen[db - da] /\ t = 1 BY <2>3 DEF Scale
    <3>2. pa = pb * s BY <2>1, <2>3, <3>1
    <3> HIDE DEF pa, pb, s, t
    <3>3. QED BY <1>1, <3>1, <3>2
  <2>4. CASE da > db
    <3>1. t = PowerOfTen[da - db] /\ s = 1 BY <2>4 DEF Scale
    <3>2. pb = pa * t BY <2>1, <2>4, <3>1
    <3> HIDE DEF pa, pb, s, t
    <3>3. QED BY <1>1, <3>1, <3>2
  <2>5. QED BY <2>2, <2>3, <2>4
<1> HIDE DEF r, q, s, t, R, pa, pb
<1>5. (q * R) * (mb * t) <= (n * r) * (mb * t) BY <1>1, <1>2, MulNat, MulMonotone
<1>6. (r * (mb * t)) * n <= (ma * R * s) * n BY <1>1, <1>3, MulNat, MulMonotone
<1>7. (q * mb * t) * R <= (n * ma * s) * R
  <2>1. (q * R) * (mb * t) = (q * mb * t) * R BY <1>1, <1>2
  <2>2. (n * r) * (mb * t) = (r * (mb * t)) * n BY <1>1
  <2>3. (ma * R * s) * n = (n * ma * s) * R BY <1>1
  <2>4. /\ (q * mb * t) * R \in Nat /\ (r * (mb * t)) * n \in Nat
        /\ (n * ma * s) * R \in Nat
    BY <1>1, <1>2, MulNat
  <2>5. QED BY <1>5, <1>6, <2>1, <2>2, <2>3, <2>4
<1>8. q * mb * t <= n * ma * s BY <1>1, <1>2, <1>7, MulNat, MulCancel
<1>9. (q * mb * t) * pb <= (n * ma * s) * pb BY <1>1, <1>2, <1>8, MulNat, MulMonotone
<1>10. (q * mb * pb) * t <= (n * ma * pa) * t
  <2>1. (q * mb * t) * pb = (q * mb * pb) * t BY <1>1, <1>2
  <2>2. (n * ma * s) * pb = (n * ma) * (pb * s) BY <1>1
  <2>3. (n * ma) * (pa * t) = (n * ma * pa) * t BY <1>1
  <2>4. QED BY <1>4, <1>9, <2>1, <2>2, <2>3
<1>11. q * mb * pb <= n * ma * pa BY <1>1, <1>2, <1>10, MulNat, MulCancel
<1>12. QED BY <1>11 DEF q, r, pa, pb

\* So is the number of equity units a raw amount is worth.
LEMMA ToEquityUnitsType ==
  ASSUME NEW amount \in Nat, NEW dec \in 0..MAX_DECIMALS, NEW mult \in Nat
  PROVE  ToEquityUnits(amount, dec, mult) \in Nat
<1>1. UnitRate(dec, mult) \in Nat BY ComputeRateType, MathAssumption DEF UnitRate
<1>2. amount * UnitRate(dec, mult) \in Nat BY <1>1, MulNat
<1>3. QED BY <1>2, DivNat, MathAssumption DEF ToEquityUnits, ConvertAmount

\* More of a wrapper, or a higher multiplier, is never worth fewer units.
LEMMA UnitsMonotone ==
  ASSUME NEW n \in Nat, NEW k \in Nat, n <= k, NEW dec \in 0..MAX_DECIMALS,
         NEW low \in Nat \ {0}, NEW high \in Nat \ {0}, low <= high
  PROVE  ToEquityUnits(n, dec, low) <= ToEquityUnits(k, dec, high)
<1> DEFINE r == UnitRate(dec, low)
           q == UnitRate(dec, high)
<1>1. EQUITY_UNIT_DECIMALS \in 0..MAX_DECIMALS /\ MULTIPLIER_SCALE \in Nat \ {0}
      /\ RATE_SCALE \in Nat \ {0}
  BY MathAssumption
<1>2. r \in Nat /\ q \in Nat BY <1>1, ComputeRateType DEF UnitRate
<1>3. r <= q
  <2> DEFINE s == Scale(dec, EQUITY_UNIT_DECIMALS)
             d == RateDenominator(MULTIPLIER_SCALE, dec, EQUITY_UNIT_DECIMALS)
             a == RateNumerator(low, dec, EQUITY_UNIT_DECIMALS)
             b == RateNumerator(high, dec, EQUITY_UNIT_DECIMALS)
  <2>1. /\ s \in Nat /\ d \in Nat \ {0} /\ a \in Nat /\ b \in Nat
        /\ a = low * RATE_SCALE * s /\ b = high * RATE_SCALE * s
    <3>1. s \in Nat BY <1>1, ScaleType
    <3>2. d \in Nat \ {0} BY <1>1, RateTerms
    <3>3. low \in Nat /\ high \in Nat OBVIOUS
    <3>4. a \in Nat /\ a = low * RATE_SCALE * s BY <1>1, <3>3, RateTerms
    <3>5. b \in Nat /\ b = high * RATE_SCALE * s BY <1>1, <3>3, RateTerms
    <3>6. QED BY <3>1, <3>2, <3>4, <3>5
  <2>2. r = a \div d /\ q = b \div d BY DEF UnitRate, ComputeRate
  <2> HIDE DEF s, d, a, b, r, q
  <2>3. low * (RATE_SCALE * s) <= high * (RATE_SCALE * s)
    BY <1>1, <2>1, MulNat, MulMonotone
  <2>4. a <= b BY <1>1, <2>1, <2>3
  <2>5. QED BY <2>1, <2>2, <2>4, DivMonotone
<1> HIDE DEF r, q
<1>4. n * r <= k * r BY <1>2, MulMonotone
<1>5. r * k <= q * k BY <1>2, <1>3, MulMonotone
<1>6. n * r \in Nat /\ k * r \in Nat /\ k * q \in Nat /\ r * k = k * r /\ q * k = k * q
  BY <1>2, MulNat
<1>7. n * r <= k * q BY <1>4, <1>5, <1>6
<1>8. (n * r) \div RATE_SCALE <= (k * q) \div RATE_SCALE
  BY <1>1, <1>6, <1>7, DivMonotone
<1>9. QED BY <1>8 DEF ToEquityUnits, ConvertAmount, r, q

\* Two deposits are worth no more units than one of both.
LEMMA ConvertSum ==
  ASSUME NEW n \in Nat, NEW k \in Nat, NEW rate \in Nat
  PROVE  ConvertAmount(n, rate) + ConvertAmount(k, rate) <= ConvertAmount(n + k, rate)
<1>1. n * rate \in Nat /\ k * rate \in Nat /\ RATE_SCALE \in Nat \ {0}
  BY MulNat, MathAssumption
<1>2. (n + k) * rate = n * rate + k * rate OBVIOUS
<1>3. (n * rate) \div RATE_SCALE + (k * rate) \div RATE_SCALE
        <= (n * rate + k * rate) \div RATE_SCALE
  BY <1>1, DivSum
<1>4. QED BY <1>2, <1>3 DEF ConvertAmount

\* Paying units out of n raw tokens lowers what is left by at most the units:
\* the two roundings both favour the vault.
LEMMA PayingOutCovers ==
  ASSUME NEW n \in Nat, NEW units \in Nat, NEW dec \in 0..MAX_DECIMALS,
         NEW mult \in Nat \ {0}, FromEquityUnits(units, dec, mult) <= n
  PROVE  ToEquityUnits(n, dec, mult)
           <= ToEquityUnits(n - FromEquityUnits(units, dec, mult), dec, mult) + units
<1> DEFINE r == UnitRate(dec, mult)
           q == RawRate(dec, mult)
           raw == FromEquityUnits(units, dec, mult)
           cap == ToEquityUnits(n, dec, mult)
           R == RATE_SCALE
<1>1. EQUITY_UNIT_DECIMALS \in 0..MAX_DECIMALS /\ MULTIPLIER_SCALE \in Nat \ {0}
      /\ R \in Nat \ {0}
  BY MathAssumption
<1>2. r \in Nat /\ q \in Nat BY <1>1, ComputeRateType DEF UnitRate, RawRate
<1>3. r * q <= R * R BY <1>1, RatesCancel DEF UnitRate, RawRate
<1>4. /\ raw \in Nat /\ raw * R <= units * q
      /\ cap \in Nat /\ cap * R <= n * r
  BY <1>2, ConvertType DEF ToEquityUnits, FromEquityUnits
<1>5. ToEquityUnits(n - raw, dec, mult) = ((n - raw) * r) \div R
  BY DEF ToEquityUnits, ConvertAmount
<1>6. raw <= n /\ n - raw \in Nat BY <1>4
<1> HIDE DEF r, q, raw, cap, R
<1>7. raw * r <= units * R
  <2>1. (raw * R) * r <= (units * q) * r BY <1>1, <1>2, <1>4, MulNat, MulMonotone
  <2>2. (r * q) * units <= (R * R) * units BY <1>1, <1>2, <1>3, MulNat, MulMonotone
  <2>3. (raw * R) * r = (raw * r) * R BY <1>1, <1>2, <1>4
  <2>4. (units * q) * r = (r * q) * units BY <1>2
  <2>5. (R * R) * units = (units * R) * R BY <1>1
  <2>6. (raw * r) * R \in Nat /\ (r * q) * units \in Nat /\ (units * R) * R \in Nat
    BY <1>1, <1>2, <1>4, MulNat
  <2>7. (raw * r) * R <= (units * R) * R BY <2>1, <2>2, <2>3, <2>4, <2>5, <2>6
  <2>8. QED BY <1>1, <1>2, <1>4, <2>7, MulNat, MulCancel
<1>8. (n - raw) * r \in Nat BY <1>2, <1>6, MulNat
<1>9. CASE cap <= units
  <2>1. ((n - raw) * r) \div R \in Nat BY <1>1, <1>8, DivNat
  <2>2. QED BY <1>4, <1>5, <1>9, <2>1 DEF cap, raw
<1>10. CASE cap > units
  <2> DEFINE rest == cap - units
  <2>1. rest \in Nat /\ cap = rest + units BY <1>4, <1>10
  <2> HIDE DEF rest
  <2>2. rest * R + units * R <= n * r
    <3>1. cap * R = rest * R + units * R BY <1>1, <2>1
    <3>2. QED BY <1>4, <3>1
  <2>3. n * r = (n - raw) * r + raw * r BY <1>2, <1>4
  <2>4. /\ rest * R \in Nat /\ units * R \in Nat /\ n * r \in Nat
        /\ raw * r \in Nat
    BY <1>1, <1>2, <1>4, <2>1, MulNat
  <2>5. rest * R <= (n - raw) * r BY <1>7, <1>8, <2>2, <2>3, <2>4
  <2>6. rest <= ((n - raw) * r) \div R BY <1>1, <1>8, <2>1, <2>5, DivGreatest
  <2>7. ((n - raw) * r) \div R \in Nat BY <1>1, <1>8, DivNat
  <2>8. QED BY <1>5, <2>1, <2>6, <2>7 DEF cap, raw
<1>11. QED BY <1>4, <1>9, <1>10

-----------------------------------------------------------------------------
(* Sums over finite sets. The library's induction theorems take the property *)
(* as an operator; here it is a set, and the induction is that the strict    *)
(* inclusion of finite sets is well-founded.                                 *)

LessThan == {p \in Nat \X Nat : p[1] < p[2]}

\* A set of naturals that is not empty has a least element.
LEMMA LeastOf ==
  ASSUME NEW S, S \subseteq Nat, S # {}
  PROVE  \E x \in S : \A y \in S : x <= y
<1>1. OpToRel(<, Nat) = LessThan BY DEF OpToRel, LessThan
<1>2. IsWellFoundedOn(LessThan, Nat) BY <1>1, NatLessThanWellFounded
<1>3. PICK x \in S : \A y \in S : ~ (<<y, x>> \in LessThan) BY <1>2, WFMin
<1>4. ASSUME NEW y \in S, ~(x <= y) PROVE FALSE
  <2>1. y < x /\ y \in Nat /\ x \in Nat BY <1>4
  <2>2. <<y, x>> \in LessThan BY <2>1 DEF LessThan
  <2>3. QED BY <1>3, <2>2
<1>5. QED BY <1>4

\* Induction over the subsets of a finite set, with a set for the property:
\* a set is good when all its proper subsets are.
LEMMA SubsetInduction ==
  ASSUME NEW S, IsFiniteSet(S), NEW Good,
         \A T \in SUBSET S : (\A U \in SUBSET T : U # T => U \in Good) => T \in Good
  PROVE  \A T \in SUBSET S : T \in Good
<1> DEFINE Bad == {T \in SUBSET S : T \notin Good}
<1>1. IsWellFoundedOn(StrictSubsetOrdering(S), SUBSET S)
  BY FS_StrictSubsetOrderingWellFounded, FS_FiniteSubsetsOfFinite
<1>2. ASSUME Bad # {} PROVE FALSE
  <2>1. Bad \subseteq SUBSET S OBVIOUS
  <2>2. PICK T \in Bad : \A U \in Bad : <<U, T>> \notin StrictSubsetOrdering(S)
    <3> HIDE DEF Bad
    <3>1. QED BY <1>1, <1>2, <2>1, WFMin
  <2>3. \A U \in SUBSET T : U # T => U \in Good
    BY <2>1, <2>2 DEF StrictSubsetOrdering
  <2>4. QED BY <2>1, <2>3
<1>3. QED BY <1>2

-----------------------------------------------------------------------------
\* The element that the folds of the community modules take first.
Pick(s) == CHOOSE x \in s : TRUE

\* The element a fold takes out first is one of the set.
LEMMA PickIn == ASSUME NEW s, s # {} PROVE Pick(s) \in s
BY DEF Pick

\* g maps every subset of S to the sum of the terms of f over it.
FoldsOver(f, S, g) ==
  g = [s \in SUBSET S |-> IF s = {} THEN 0 ELSE f[Pick(s)] + g[s \ {Pick(s)}]]

\* What the recursion of a fold says at one set.
LEMMA FoldsAt ==
  ASSUME NEW f, NEW S, NEW g, FoldsOver(f, S, g), NEW s \in SUBSET S
  PROVE  g[s] = IF s = {} THEN 0 ELSE f[Pick(s)] + g[s \ {Pick(s)}]
<1> DEFINE r(t) == IF t = {} THEN 0 ELSE f[Pick(t)] + g[t \ {Pick(t)}]
<1>1. g = [t \in SUBSET S |-> r(t)] BY DEF FoldsOver
<1>2. [t \in SUBSET S |-> r(t)][s] = r(s) OBVIOUS
<1> HIDE DEF r
<1>3. g[s] = r(s) BY <1>1, <1>2
<1>4. QED BY <1>3 DEF r

\* Two folds of the same terms agree wherever both are defined.
LEMMA FoldsUnique ==
  ASSUME NEW f, NEW S, IsFiniteSet(S), NEW g, FoldsOver(f, S, g), NEW T, NEW h, FoldsOver(f, T, h)
  PROVE  \A s \in SUBSET (S \cap T) : g[s] = h[s]
<1> DEFINE R == S \cap T
           Good == {s \in SUBSET R : g[s] = h[s]}
<1>1. IsFiniteSet(R) BY FS_Subset
<1>2. ASSUME NEW s \in SUBSET R, \A t \in SUBSET s : t # s => t \in Good
      PROVE  s \in Good
  <2>1. s \in SUBSET S /\ s \in SUBSET T OBVIOUS
  <2>2. CASE s = {} BY <2>1, <2>2, FoldsAt
  <2>3. CASE s # {}
    <3>1. s \ {Pick(s)} \in Good BY <1>2, <2>3, PickIn
    <3>2. g[s] = f[Pick(s)] + g[s \ {Pick(s)}] BY <2>1, <2>3, FoldsAt
    <3>3. h[s] = f[Pick(s)] + h[s \ {Pick(s)}] BY <2>1, <2>3, FoldsAt
    <3>4. QED BY <3>1, <3>2, <3>3
  <2>4. QED BY <2>2, <2>3
<1>3. \A s \in SUBSET R : s \in Good
  <2> HIDE DEF Good
  <2>1. QED BY <1>1, <1>2, SubsetInduction
<1>4. QED BY <1>3

\* There is a fold over the subsets of every finite set.
LEMMA FoldsExists ==
  ASSUME NEW f, NEW S, IsFiniteSet(S)
  PROVE  \E g : FoldsOver(f, S, g)
<1> DEFINE Good == {T \in SUBSET S : \E g : FoldsOver(f, T, g)}
           of(T) == CHOOSE g : FoldsOver(f, T, g)
<1>1. ASSUME NEW T \in SUBSET S, \A U \in SUBSET T : U # T => U \in Good
      PROVE  T \in Good
  <2> DEFINE rest(s) == s \ {Pick(s)}
             g == [s \in SUBSET T |-> IF s = {} THEN 0 ELSE f[Pick(s)] + of(rest(s))[rest(s)]]
  <2>1. \A U \in SUBSET T : U # T => FoldsOver(f, U, of(U)) /\ IsFiniteSet(U)
    <3>1. \A U \in SUBSET T : U # T => \E h : FoldsOver(f, U, h) BY <1>1
    <3>2. \A U : (\E h : FoldsOver(f, U, h)) => FoldsOver(f, U, of(U)) OBVIOUS
    <3>3. QED BY <3>1, <3>2, FS_Subset
  <2>2. ASSUME NEW U \in SUBSET T, U # T PROVE g[U] = of(U)[U]
    <3> DEFINE h == of(U)
    <3>1. FoldsOver(f, U, h) BY <2>1, <2>2
    <3> HIDE DEF h
    <3>2. h[U] = IF U = {} THEN 0 ELSE f[Pick(U)] + h[rest(U)] BY <3>1, FoldsAt
    <3>3. CASE U = {} BY <3>2, <3>3 DEF h
    <3>4. CASE U # {}
      <4>1. /\ rest(U) \in SUBSET U /\ rest(U) # T /\ rest(U) \in SUBSET T
            /\ rest(U) \cap U = rest(U)
        BY <2>2, <3>4, PickIn
      <4>2. FoldsOver(f, rest(U), of(rest(U))) /\ IsFiniteSet(rest(U)) BY <2>1, <4>1
      <4>3. of(rest(U))[rest(U)] = h[rest(U)]
        <5> HIDE DEF rest, of
        <5>1. QED BY <3>1, <4>1, <4>2, FoldsUnique
      <4>4. g[U] = f[Pick(U)] + of(rest(U))[rest(U)] BY <3>4
      <4>5. QED BY <3>2, <3>4, <4>3, <4>4 DEF h
    <3>5. QED BY <3>3, <3>4
  <2>3. \A s \in SUBSET T : s # {} => rest(s) \in SUBSET T /\ rest(s) # T
    BY PickIn
  <2>4. \A s \in SUBSET T : s # {} => of(rest(s))[rest(s)] = g[rest(s)]
    <3> HIDE DEF g, of, rest
    <3>1. QED BY <2>2, <2>3
  <2>5. FoldsOver(f, T, g)
    <3> DEFINE r(s) == IF s = {} THEN 0 ELSE f[Pick(s)] + of(rest(s))[rest(s)]
               q(s) == IF s = {} THEN 0 ELSE f[Pick(s)] + g[rest(s)]
    <3>1. \A s \in SUBSET T : r(s) = q(s)
      <4> HIDE DEF g, of
      <4>1. QED BY <2>4
    <3>2. g = [s \in SUBSET T |-> r(s)] OBVIOUS
    <3> HIDE DEF g, r
    <3>3. g = [s \in SUBSET T |-> q(s)] BY <3>1, <3>2
    <3>4. QED BY <3>3 DEF FoldsOver
  <2> HIDE DEF g
  <2>6. QED BY <2>5
<1>2. \A T \in SUBSET S : T \in Good
  <2> HIDE DEF Good
  <2>1. QED BY <1>1, SubsetInduction
<1>3. QED BY <1>2

Folding(f, S) == CHOOSE g : FoldsOver(f, S, g)

\* A sum is the fold of its terms.
LEMMA SumIsFold ==
  ASSUME NEW f, NEW S, IsFiniteSet(S)
  PROVE  /\ FoldsOver(f, S, Folding(f, S))
         /\ SumFunctionOnSet(f, S) = Folding(f, S)[S]
<1>1. FoldsOver(f, S, Folding(f, S)) BY FoldsExists DEF Folding
<1>2. SumFunctionOnSet(f, S) = Folding(f, S)[S]
  BY DEF SumFunctionOnSet, FoldFunctionOnSet, MapThenFoldSet, Folding, FoldsOver, Pick
<1>3. QED BY <1>1, <1>2

-----------------------------------------------------------------------------

\* The empty sum.
LEMMA SumEmpty == ASSUME NEW f PROVE SumFunctionOnSet(f, {}) = 0
<1>1. IsFiniteSet({}) BY FS_EmptySet
<1>2. /\ FoldsOver(f, {}, Folding(f, {}))
      /\ SumFunctionOnSet(f, {}) = Folding(f, {})[{}]
  BY <1>1, SumIsFold
<1>3. QED BY <1>2, FoldsAt

\* A sum, one term taken out: the one the fold takes first.
LEMMA SumStep ==
  ASSUME NEW f, NEW S, IsFiniteSet(S), S # {}
  PROVE  SumFunctionOnSet(f, S) = f[Pick(S)] + SumFunctionOnSet(f, S \ {Pick(S)})
<1> DEFINE T == S \ {Pick(S)}
           g == Folding(f, S)
           h == Folding(f, T)
<1>1. IsFiniteSet(T) /\ T \in SUBSET (S \cap T) /\ T \in SUBSET S
  BY FS_Subset
<1>2. FoldsOver(f, S, g) /\ SumFunctionOnSet(f, S) = g[S] BY SumIsFold
<1>3. FoldsOver(f, T, h) /\ SumFunctionOnSet(f, T) = h[T]
  <2> HIDE DEF T
  <2>1. QED BY <1>1, SumIsFold
<1> HIDE DEF g, h
<1>4. g[S] = f[Pick(S)] + g[T] BY <1>2, FoldsAt
<1>5. g[T] = h[T]
  <2> HIDE DEF T
  <2>1. QED BY <1>1, <1>2, <1>3, FoldsUnique
<1>6. QED BY <1>2, <1>3, <1>4, <1>5

\* A sum of integers is an integer.
LEMMA SumInt ==
  ASSUME NEW f, NEW S, IsFiniteSet(S), \A x \in S : f[x] \in Int
  PROVE  \A T \in SUBSET S : SumFunctionOnSet(f, T) \in Int
<1> DEFINE Good == {T \in SUBSET S : SumFunctionOnSet(f, T) \in Int}
<1>1. ASSUME NEW T \in SUBSET S, \A U \in SUBSET T : U # T => U \in Good
      PROVE  T \in Good
  <2>1. CASE T = {} BY <2>1, SumEmpty
  <2>2. CASE T # {}
    <3>1. IsFiniteSet(T) /\ Pick(T) \in T BY <2>2, FS_Subset, PickIn
    <3>2. T \ {Pick(T)} \in Good BY <1>1, <3>1
    <3>3. SumFunctionOnSet(f, T) = f[Pick(T)] + SumFunctionOnSet(f, T \ {Pick(T)})
      BY <2>2, <3>1, SumStep
    <3>4. QED BY <3>1, <3>2, <3>3
  <2>3. QED BY <2>1, <2>2
<1>2. \A T \in SUBSET S : T \in Good
  <2> HIDE DEF Good
  <2>1. QED BY <1>1, SubsetInduction
<1>3. QED BY <1>2

\* A sum of naturals is a natural.
LEMMA SumNat ==
  ASSUME NEW f, NEW S, IsFiniteSet(S), \A x \in S : f[x] \in Nat
  PROVE  SumFunctionOnSet(f, S) \in Nat
<1> DEFINE Good == {T \in SUBSET S : SumFunctionOnSet(f, T) \in Nat}
<1>1. ASSUME NEW T \in SUBSET S, \A U \in SUBSET T : U # T => U \in Good
      PROVE  T \in Good
  <2>1. CASE T = {} BY <2>1, SumEmpty
  <2>2. CASE T # {}
    <3>1. IsFiniteSet(T) /\ Pick(T) \in T BY <2>2, FS_Subset, PickIn
    <3>2. T \ {Pick(T)} \in Good BY <1>1, <3>1
    <3>3. SumFunctionOnSet(f, T) = f[Pick(T)] + SumFunctionOnSet(f, T \ {Pick(T)})
      BY <2>2, <3>1, SumStep
    <3>4. QED BY <3>1, <3>2, <3>3
  <2>3. QED BY <2>1, <2>2
<1>2. \A T \in SUBSET S : T \in Good
  <2> HIDE DEF Good
  <2>1. QED BY <1>1, SubsetInduction
<1>3. QED BY <1>2

\* A sum of zeros.
LEMMA SumZero ==
  ASSUME NEW f, NEW S, IsFiniteSet(S), \A x \in S : f[x] = 0
  PROVE  SumFunctionOnSet(f, S) = 0
<1> DEFINE Good == {T \in SUBSET S : SumFunctionOnSet(f, T) = 0}
<1>1. ASSUME NEW T \in SUBSET S, \A U \in SUBSET T : U # T => U \in Good
      PROVE  T \in Good
  <2>1. CASE T = {} BY <2>1, SumEmpty
  <2>2. CASE T # {}
    <3>1. IsFiniteSet(T) /\ Pick(T) \in T BY <2>2, FS_Subset, PickIn
    <3>2. T \ {Pick(T)} \in Good BY <1>1, <3>1
    <3>3. SumFunctionOnSet(f, T) = f[Pick(T)] + SumFunctionOnSet(f, T \ {Pick(T)})
      BY <2>2, <3>1, SumStep
    <3>4. QED BY <3>1, <3>2, <3>3
  <2>3. QED BY <2>1, <2>2
<1>2. \A T \in SUBSET S : T \in Good
  <2> HIDE DEF Good
  <2>1. QED BY <1>1, SubsetInduction
<1>3. QED BY <1>2

\* The order of addition does not matter: any term may be taken out.
LEMMA SumRemove ==
  ASSUME NEW f, NEW S, IsFiniteSet(S), \A x \in S : f[x] \in Int, NEW a \in S
  PROVE  SumFunctionOnSet(f, S) = f[a] + SumFunctionOnSet(f, S \ {a})
<1> DEFINE Splits(T, x) == SumFunctionOnSet(f, T) = f[x] + SumFunctionOnSet(f, T \ {x})
           Good == {T \in SUBSET S : \A x \in T : Splits(T, x)}
<1>1. ASSUME NEW T \in SUBSET S, \A U \in SUBSET T : U # T => U \in Good
      PROVE  T \in Good
  <2> SUFFICES ASSUME NEW x \in T PROVE Splits(T, x) OBVIOUS
  <2> DEFINE y == Pick(T)
  <2>1. IsFiniteSet(T) /\ y \in T BY FS_Subset, PickIn
  <2>2. SumFunctionOnSet(f, T) = f[y] + SumFunctionOnSet(f, T \ {y})
    BY <2>1, SumStep
  <2> HIDE DEF y
  <2>3. CASE x = y BY <2>2, <2>3
  <2>4. CASE x # y
    <3> DEFINE U == (T \ {y}) \ {x}
    <3>1. U = (T \ {x}) \ {y} OBVIOUS
    <3>2. T \ {y} \in Good /\ T \ {x} \in Good BY <1>1, <2>1
    <3>3. SumFunctionOnSet(f, T \ {y}) = f[x] + SumFunctionOnSet(f, U)
      BY <2>4, <3>2
    <3>4. SumFunctionOnSet(f, T \ {x}) = f[y] + SumFunctionOnSet(f, U)
      BY <2>1, <2>4, <3>1, <3>2
    <3>5. SumFunctionOnSet(f, U) \in Int BY SumInt
    <3>6. f[x] \in Int /\ f[y] \in Int BY <2>1
    <3> HIDE DEF U
    <3>7. QED BY <2>2, <3>3, <3>4, <3>5, <3>6
  <2>5. QED BY <2>3, <2>4
<1>2. \A T \in SUBSET S : T \in Good
  <2> HIDE DEF Good
  <2>1. QED BY <1>1, SubsetInduction
<1>3. QED BY <1>2

\* A sum over a set with one more element.
LEMMA SumAdd ==
  ASSUME NEW f, NEW S, IsFiniteSet(S), NEW a, a \notin S,
         \A x \in S \cup {a} : f[x] \in Int
  PROVE  SumFunctionOnSet(f, S \cup {a}) = f[a] + SumFunctionOnSet(f, S)
<1>1. IsFiniteSet(S \cup {a}) BY FS_AddElement
<1>2. (S \cup {a}) \ {a} = S OBVIOUS
<1>3. QED BY <1>1, <1>2, SumRemove

\* Smaller terms, smaller sum.
LEMMA SumMonotone ==
  ASSUME NEW f, NEW g, NEW S, IsFiniteSet(S),
         \A x \in S : f[x] \in Int /\ g[x] \in Int /\ f[x] <= g[x]
  PROVE  SumFunctionOnSet(f, S) <= SumFunctionOnSet(g, S)
<1> DEFINE Good == {T \in SUBSET S : SumFunctionOnSet(f, T) <= SumFunctionOnSet(g, T)}
<1>1. ASSUME NEW T \in SUBSET S, \A U \in SUBSET T : U # T => U \in Good
      PROVE  T \in Good
  <2>1. CASE T = {} BY <2>1, SumEmpty
  <2>2. CASE T # {}
    <3> DEFINE y == Pick(T)
               U == T \ {y}
    <3>1. IsFiniteSet(T) /\ y \in T BY <2>2, FS_Subset, PickIn
    <3>2. U \in Good BY <1>1, <3>1
    <3>3. SumFunctionOnSet(f, T) = f[y] + SumFunctionOnSet(f, U)
      BY <2>2, <3>1, SumStep
    <3>4. SumFunctionOnSet(g, T) = g[y] + SumFunctionOnSet(g, U)
      BY <2>2, <3>1, SumStep
    <3>5. SumFunctionOnSet(f, U) \in Int /\ SumFunctionOnSet(g, U) \in Int
      BY SumInt
    <3>6. f[y] \in Int /\ g[y] \in Int /\ f[y] <= g[y] BY <3>1
    <3> HIDE DEF y
    <3>7. SumFunctionOnSet(f, U) <= SumFunctionOnSet(g, U) BY <3>2
    <3> HIDE DEF U
    <3>8. SumFunctionOnSet(f, T) <= SumFunctionOnSet(g, T)
      BY <3>3, <3>4, <3>5, <3>6, <3>7
    <3>9. QED BY <3>8
  <2>3. QED BY <2>1, <2>2
<1>2. \A T \in SUBSET S : T \in Good
  <2> HIDE DEF Good
  <2>1. QED BY <1>1, SubsetInduction
<1>3. QED BY <1>2

\* A sum depends on its terms only.
LEMMA SumSame ==
  ASSUME NEW f, NEW g, NEW S, IsFiniteSet(S), \A x \in S : f[x] \in Int /\ f[x] = g[x]
  PROVE  SumFunctionOnSet(f, S) = SumFunctionOnSet(g, S)
<1>1. SumFunctionOnSet(f, S) <= SumFunctionOnSet(g, S) BY SumMonotone
<1>2. SumFunctionOnSet(g, S) <= SumFunctionOnSet(f, S) BY SumMonotone
<1>3. SumFunctionOnSet(f, S) \in Int /\ SumFunctionOnSet(g, S) \in Int BY SumInt
<1>4. QED BY <1>1, <1>2, <1>3

\* A sum one of whose terms changes.
LEMMA SumUpdate ==
  ASSUME NEW f, NEW g, NEW S, IsFiniteSet(S), NEW a \in S,
         \A x \in S : f[x] \in Int /\ g[x] \in Int,
         \A x \in S \ {a} : g[x] = f[x]
  PROVE  SumFunctionOnSet(g, S) = SumFunctionOnSet(f, S) - f[a] + g[a]
<1>1. IsFiniteSet(S \ {a}) BY FS_Subset
<1>2. SumFunctionOnSet(f, S \ {a}) = SumFunctionOnSet(g, S \ {a})
  BY <1>1, SumSame
<1>3. SumFunctionOnSet(f, S) = f[a] + SumFunctionOnSet(f, S \ {a}) BY SumRemove
<1>4. SumFunctionOnSet(g, S) = g[a] + SumFunctionOnSet(g, S \ {a}) BY SumRemove
<1>5. SumFunctionOnSet(f, S \ {a}) \in Int /\ f[a] \in Int /\ g[a] \in Int BY SumInt
<1>6. QED BY <1>2, <1>3, <1>4, <1>5

\* The same for the sum of all the terms of a function.
LEMMA SumExcept ==
  ASSUME NEW S, IsFiniteSet(S), NEW f \in [S -> Int], NEW a \in S, NEW n \in Int
  PROVE  SumFunction([f EXCEPT ![a] = n]) = SumFunction(f) - f[a] + n
<1> DEFINE g == [f EXCEPT ![a] = n]
<1>1. /\ DOMAIN f = S /\ DOMAIN g = S /\ g[a] = n
      /\ \A x \in S : f[x] \in Int /\ g[x] \in Int
      /\ \A x \in S \ {a} : g[x] = f[x]
  OBVIOUS
<1> HIDE DEF g
<1>2. SumFunctionOnSet(g, S) = SumFunctionOnSet(f, S) - f[a] + g[a]
  BY <1>1, SumUpdate
<1>3. QED BY <1>1, <1>2 DEF SumFunction, g

\* No term exceeds a sum of naturals.
LEMMA SumAtLeast ==
  ASSUME NEW f, NEW S, IsFiniteSet(S), \A x \in S : f[x] \in Nat, NEW a \in S
  PROVE  f[a] <= SumFunctionOnSet(f, S)
<1>1. IsFiniteSet(S \ {a}) BY FS_Subset
<1>2. SumFunctionOnSet(f, S \ {a}) \in Nat BY <1>1, SumNat
<1>3. SumFunctionOnSet(f, S) = f[a] + SumFunctionOnSet(f, S \ {a}) BY SumRemove
<1>4. QED BY <1>2, <1>3

\* A part of a sum of naturals is at most the sum.
LEMMA SumSubset ==
  ASSUME NEW f, NEW S, IsFiniteSet(S), \A x \in S : f[x] \in Nat, NEW T, T \subseteq S
  PROVE  SumFunctionOnSet(f, T) <= SumFunctionOnSet(f, S)
<1> DEFINE Good == {U \in SUBSET S : T \subseteq U =>
                      SumFunctionOnSet(f, T) <= SumFunctionOnSet(f, U)}
<1>1. SumFunctionOnSet(f, T) \in Nat
  <2>1. IsFiniteSet(T) BY FS_Subset
  <2>2. QED BY <2>1, SumNat
<1>2. ASSUME NEW U \in SUBSET S, \A V \in SUBSET U : V # U => V \in Good
      PROVE  U \in Good
  <2> SUFFICES ASSUME T \subseteq U PROVE SumFunctionOnSet(f, T) <= SumFunctionOnSet(f, U)
    OBVIOUS
  <2>1. CASE T = U BY <1>1, <2>1
  <2>2. CASE T # U
    <3>1. PICK a \in U : a \notin T BY <2>2
    <3>2. IsFiniteSet(U) /\ IsFiniteSet(U \ {a}) BY FS_Subset
    <3>3. SumFunctionOnSet(f, U) = f[a] + SumFunctionOnSet(f, U \ {a}) BY <3>1, <3>2, SumRemove
    <3>4. U \ {a} \in Good BY <1>2, <3>1
    <3>5. SumFunctionOnSet(f, T) <= SumFunctionOnSet(f, U \ {a}) BY <3>1, <3>4
    <3>6. SumFunctionOnSet(f, U \ {a}) \in Nat /\ f[a] \in Nat BY <3>1, <3>2, SumNat
    <3>7. QED BY <1>1, <3>3, <3>5, <3>6
  <2>3. QED BY <2>1, <2>2
<1>3. \A U \in SUBSET S : U \in Good
  <2> HIDE DEF Good
  <2>1. QED BY <1>2, SubsetInduction
<1>4. QED BY <1>3

\* A sum of one term.
LEMMA SumSingle ==
  ASSUME NEW f, NEW a, f[a] \in Int PROVE SumFunctionOnSet(f, {a}) = f[a]
<1>1. IsFiniteSet({a}) BY FS_Singleton
<1>2. SumFunctionOnSet(f, {a}) = f[a] + SumFunctionOnSet(f, {a} \ {a}) BY <1>1, SumRemove
<1>3. {a} \ {a} = {} OBVIOUS
<1>4. QED BY <1>2, <1>3, SumEmpty

\* A sum over other names of the same terms.
LEMMA SumRenamed ==
  ASSUME NEW f, NEW g, NEW h, NEW S, IsFiniteSet(S),
         \A x \in S : f[x] \in Int /\ f[x] = g[h[x]],
         \A x, y \in S : h[x] = h[y] => x = y
  PROVE  /\ IsFiniteSet({h[x] : x \in S})
         /\ SumFunctionOnSet(g, {h[x] : x \in S}) = SumFunctionOnSet(f, S)
<1> DEFINE Image(T) == {h[x] : x \in T}
           Good == {T \in SUBSET S : /\ IsFiniteSet(Image(T))
                                     /\ SumFunctionOnSet(g, Image(T)) = SumFunctionOnSet(f, T)}
<1>1. ASSUME NEW T \in SUBSET S, \A U \in SUBSET T : U # T => U \in Good
      PROVE  T \in Good
  <2>1. CASE T = {}
    <3>1. Image(T) = {} BY <2>1
    <3>2. QED BY <2>1, <3>1, SumEmpty, FS_EmptySet
  <2>2. CASE T # {}
    <3>1. PICK a \in T : TRUE BY <2>2
    <3> DEFINE U == T \ {a}
    <3>2. U \in Good BY <1>1, <3>1
    <3>3. Image(T) = Image(U) \cup {h[a]} /\ h[a] \notin Image(U) BY <3>1
    <3>4. IsFiniteSet(Image(U)) /\ SumFunctionOnSet(g, Image(U)) = SumFunctionOnSet(f, U)
      BY <3>2
    <3>5. \A y \in Image(U) \cup {h[a]} : g[y] \in Int BY <3>1
    <3>6. IsFiniteSet(T) BY FS_Subset
    <3>7. SumFunctionOnSet(f, T) = f[a] + SumFunctionOnSet(f, U)
      <4>1. \A x \in T : f[x] \in Int OBVIOUS
      <4>2. QED BY <3>1, <3>6, <4>1, SumRemove
    <3>8. f[a] = g[h[a]] BY <3>1
    <3> HIDE DEF Image, U
    <3>9. IsFiniteSet(Image(U) \cup {h[a]}) BY <3>4, FS_AddElement
    <3>10. SumFunctionOnSet(g, Image(U) \cup {h[a]}) = g[h[a]] + SumFunctionOnSet(g, Image(U))
      BY <3>3, <3>4, <3>5, SumAdd
    <3>11. QED BY <3>3, <3>4, <3>7, <3>8, <3>9, <3>10
  <2>3. QED BY <2>1, <2>2
<1>2. \A T \in SUBSET S : T \in Good
  <2> HIDE DEF Good
  <2>1. QED BY <1>1, SubsetInduction
<1>3. QED BY <1>2
=============================================================================
