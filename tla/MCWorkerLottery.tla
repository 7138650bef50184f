--------------------------- MODULE MCWorkerLottery ---------------------------
(***************************************************************************)
(* Instances of WorkerLottery for TLC.  Workers differ in name only.        *)
(***************************************************************************)
EXTENDS WorkerLottery, TLC

CONSTANTS w1, w2, w3, w4, w5

WorkerSymmetry == Permutations(Workers)
=============================================================================
