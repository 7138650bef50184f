--------------------------- MODULE MCEngramManager ---------------------------
(***************************************************************************)
(* Model-checking instances of EngramManager.  The amounts are scaled down  *)
(* (one slot's collateral is 2 wei instead of 10^14) and the shares are      *)
(* coarser, so that every rounding and every comparison happens with small  *)
(* numbers.                                                                 *)
(***************************************************************************)
EXTENDS EngramManager, TLC

\* All deals play the same part, as do all aggregators.
DealSymmetry == Permutations(Deals)
AggSymmetry == Permutations(AggIds)
=============================================================================
