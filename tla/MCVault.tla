------------------------------ MODULE MCVault ------------------------------
(* Instances of Vault for TLC: two wrappers with different decimals and     *)
(* multipliers, so that every conversion rounds.                            *)
EXTENDS Vault, TLC

CONSTANTS a, b, w1, w2

MCPowerOfTen == [d \in 0..2 |-> IF d = 0 THEN 1 ELSE 3^d]
MCDecimals == (w1 :> 1) @@ (w2 :> 0)
MCConfig ==
  (w1 :> [multiplier |-> 2, new_multiplier |-> 2, effective_ts |-> 0]) @@
  (w2 :> [multiplier |-> 3, new_multiplier |-> 3, effective_ts |-> 0])
MCWallet == (a :> ((w1 :> 3) @@ (w2 :> 0))) @@ (b :> ((w1 :> 0) @@ (w2 :> 1)))
MCStock == (w1 :> 0) @@ (w2 :> 1)
=============================================================================
