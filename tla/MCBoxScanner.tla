----------------------------- MODULE MCBoxScanner -----------------------------
(***************************************************************************)
(* Small instances of BoxScanner for TLC.                                  *)
(***************************************************************************)
EXTENDS BoxScanner, TLC

CONSTANT m1

(* A level at every price. *)
FullBook == [p \in Prices |-> 1]
=============================================================================
