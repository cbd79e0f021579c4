-------------------------- MODULE MCExecutionEngine --------------------------
(***************************************************************************)
(* Small instances of ExecutionEngine for TLC.                             *)
(***************************************************************************)
EXTENDS ExecutionEngine, TLC

CONSTANTS s1, s2, m1

(* Every signal is one of the same market. *)
SameMarket == [s \in Signals |-> m1]

(* Signals of one market may be swapped. *)
Interchangeable == Permutations(Signals)

(* With a threshold of fifteen per cent, 8 is a drop from 10 and neither 9  *)
(* from 10 nor 8 from 9 is; 0 is a balance key that is missing, at first or *)
(* later.                                                                   *)
SteadyBalance == {10}
AnyBalance == {0, 8, 9, 10}
=============================================================================
