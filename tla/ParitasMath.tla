---------------------------- MODULE ParitasMath ----------------------------
(***************************************************************************)
(* The arithmetic of the paritas program: keeper fees, the ratcheting      *)
(* floor, due dates and the conversions between a wrapper's raw amount and *)
(* equity units.                                                           *)
(*                                                                         *)
(* Every scale and every integer limit of the Rust code is a constant, so  *)
(* that TLC can run on small ones and the proofs hold for the real ones.   *)
(* A checked operation that would overflow makes its handler fail: the     *)
(* values below are mathematical and the handlers test them with the Fits  *)
(* predicates, where the code tests them with checked_* and try_from.      *)
(***************************************************************************)
EXTENDS Integers

CONSTANTS
  BPS,                   \* basis points in one whole (10_000)
  MAX_KEEPER_FEE_BPS,    \* ceiling of the keeper's cut
  MAX_FLOOR_TOLERANCE,   \* widest tolerance of the ratcheting floor
  MULTIPLIER_SCALE,      \* fixed point 1.0 of a multiplier
  RATE_SCALE,            \* fixed point 1.0 of a rate
  EQUITY_UNIT_DECIMALS,  \* decimals of the receipt token
  MAX_DECIMALS,          \* largest decimals of any mint
  PowerOfTen,            \* 10^d, for every decimal gap
  U64_MAX, U128_MAX, I64_MAX

ASSUME MathAssumption ==
  /\ BPS \in Nat \ {0}
  /\ MAX_KEEPER_FEE_BPS \in Nat /\ MAX_KEEPER_FEE_BPS < BPS
  /\ MAX_FLOOR_TOLERANCE \in 0..BPS
  /\ MULTIPLIER_SCALE \in Nat \ {0}
  /\ RATE_SCALE \in Nat \ {0}
  /\ MAX_DECIMALS \in Nat
  /\ EQUITY_UNIT_DECIMALS \in 0..MAX_DECIMALS
  /\ PowerOfTen \in [0..MAX_DECIMALS -> Nat \ {0}]
  /\ \A d, e \in 0..MAX_DECIMALS :
       d + e <= MAX_DECIMALS => PowerOfTen[d + e] = PowerOfTen[d] * PowerOfTen[e]
  /\ U64_MAX \in Nat /\ U128_MAX \in Nat /\ I64_MAX \in Nat

AtMost(a, b) == IF a <= b THEN a ELSE b
AtLeast(a, b) == IF a >= b THEN a ELSE b

FitsU64(n) == n \in 0..U64_MAX
FitsU128(n) == n \in 0..U128_MAX
FitsI64(n) == n <= I64_MAX

-----------------------------------------------------------------------------
(* schedule_math.rs *)

FeeCeiling(amount) == (amount * MAX_KEEPER_FEE_BPS) \div BPS

\* Mutant: the minimum is applied after the ceiling.
KeeperFeeUnclamped(amount, fee_bps, fee_min) ==
  AtLeast(AtMost((amount * fee_bps) \div BPS, FeeCeiling(amount)), fee_min)

\* The larger of the basis-point fee and the absolute minimum, clamped.
KeeperFee(amount, fee_bps, fee_min) ==
  AtMost(AtLeast((amount * fee_bps) \div BPS, fee_min), FeeCeiling(amount))

\* Mutant: a floor that rounds up.
RatchetedFloorUp(realised, tolerance) ==
  (realised * (BPS - tolerance) + BPS - 1) \div BPS

RatchetedFloor(realised, tolerance) == (realised * (BPS - tolerance)) \div BPS

\* Mutant: a missed period stays due.
NextDueWithBacklog(previous, cadence, now) == previous + cadence

NextDueAfter(previous, cadence, now) ==
  IF previous + cadence > now THEN previous + cadence ELSE now + cadence

-----------------------------------------------------------------------------
(* multiplier.rs *)

\* A mint's ScaledUiAmountConfig: the multiplier in force and the one that
\* replaces it once the clock reaches effective_ts.
CurrentMultiplier(config, now) ==
  IF now >= config.effective_ts THEN config.new_multiplier ELSE config.multiplier

RateNumerator(mult_a, dec_a, dec_b) ==
  mult_a * RATE_SCALE * (IF dec_b >= dec_a THEN PowerOfTen[dec_b - dec_a] ELSE 1)

RateDenominator(mult_b, dec_a, dec_b) ==
  mult_b * (IF dec_b >= dec_a THEN 1 ELSE PowerOfTen[dec_a - dec_b])

ComputeRate(mult_a, dec_a, mult_b, dec_b) ==
  RateNumerator(mult_a, dec_a, dec_b) \div RateDenominator(mult_b, dec_a, dec_b)

\* compute_rate returns Ok: neither multiplier is zero, nothing overflows and
\* the rate has not truncated to zero.
RateDefined(mult_a, dec_a, mult_b, dec_b) ==
  /\ mult_a > 0 /\ mult_b > 0
  /\ FitsU128(RateNumerator(mult_a, dec_a, dec_b))
  /\ FitsU128(RateDenominator(mult_b, dec_a, dec_b))
  /\ ComputeRate(mult_a, dec_a, mult_b, dec_b) > 0

\* Mutant: a conversion that rounds up.
ConvertAmountUp(amount_in, rate) == (amount_in * rate + RATE_SCALE - 1) \div RATE_SCALE

ConvertAmount(amount_in, rate) == (amount_in * rate) \div RATE_SCALE

ConvertDefined(amount_in, rate) ==
  /\ FitsU128(amount_in * rate)
  /\ FitsU64(ConvertAmount(amount_in, rate))

\* The equity unit is the identity mint: multiplier 1.0, its own decimals.
UnitRate(dec, mult) ==
  ComputeRate(mult, dec, MULTIPLIER_SCALE, EQUITY_UNIT_DECIMALS)

RawRate(dec, mult) ==
  ComputeRate(MULTIPLIER_SCALE, EQUITY_UNIT_DECIMALS, mult, dec)

ToEquityUnits(amount_in, dec, mult) == ConvertAmount(amount_in, UnitRate(dec, mult))

ToEquityUnitsDefined(amount_in, dec, mult) ==
  /\ RateDefined(mult, dec, MULTIPLIER_SCALE, EQUITY_UNIT_DECIMALS)
  /\ ConvertDefined(amount_in, UnitRate(dec, mult))

FromEquityUnits(units, dec, mult) == ConvertAmount(units, RawRate(dec, mult))

FromEquityUnitsDefined(units, dec, mult) ==
  /\ RateDefined(MULTIPLIER_SCALE, EQUITY_UNIT_DECIMALS, mult, dec)
  /\ ConvertDefined(units, RawRate(dec, mult))
=============================================================================
