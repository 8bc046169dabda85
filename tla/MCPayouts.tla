----------------------------- MODULE MCPayouts -----------------------------
(* Instances of Payouts for TLC: two wrappers with different decimals and  *)
(* multipliers, so that every conversion rounds.                           *)
EXTENDS Payouts

MCPowerOfTen == [d \in 0..2 |-> IF d = 0 THEN 1 ELSE 3^d]
MCDecimals == [w \in Wrappers |-> IF w = 1 THEN 1 ELSE 0]
MCMultiplier == [w \in Wrappers |-> IF w = 1 THEN 2 ELSE 3]
\* The fullest wrapper is the coarse one, which pays out nothing for a few units,
\* or the fine one.
MCBalances == {[w \in Wrappers |-> IF w = 1 THEN n ELSE 1] : n \in {3, 5}}
=============================================================================
