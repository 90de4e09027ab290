----------------------------- MODULE MCRegionTree -----------------------------
(* Four regions besides the root: an if with an else nested in an arm of   *)
(* another, with short circuits and reroutes in both.  One body suffices:  *)
(* it may follow any instruction of the kernel.                            *)
EXTENDS RegionTree, TLC

CONSTANTS A, B

CondSymmetry == Permutations(Conds)
===============================================================================
