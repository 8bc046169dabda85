------------------------------ MODULE MCKeeper ------------------------------
(***************************************************************************)
(* Instances of Keeper for TLC: a young plan behind an older one whose     *)
(* owner closed the payment account, and keepers of both kinds.            *)
(***************************************************************************)
EXTENDS Keeper

CONSTANTS k1, k2, p1, p2

MCCadence == [p \in Plans |-> 1]

MCPlan == [p \in Plans |-> [status |-> "active", due |-> 0, funds |-> 2]]

MCBacklog == [p \in Plans |->
  [status |-> "active", due |-> IF p \in Closed THEN 0 ELSE 1, funds |-> 2]]
=============================================================================
