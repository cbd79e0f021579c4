--------------------------- MODULE MCMergeService ---------------------------
(***************************************************************************)
(* A small instance of MergeService for TLC.                               *)
(***************************************************************************)
EXTENDS MergeService, TLC

CONSTANTS m1, m2

(* The markets are alike. *)
Interchangeable == Permutations(Markets)
=============================================================================
