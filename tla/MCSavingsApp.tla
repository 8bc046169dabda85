---------------------------- MODULE MCSavingsApp ----------------------------
(***************************************************************************)
(* Instances of SavingsApp for TLC.  Every approval covers two buys.       *)
(***************************************************************************)
EXTENDS SavingsApp, TLC

CONSTANTS t1, t2

MCRuns == [c \in Cadences |-> 2]

TabSymmetry == Permutations(Tabs)
=============================================================================
