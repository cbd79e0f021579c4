------------------------------- MODULE MCBoxBot -------------------------------
(***************************************************************************)
(* Small instances of BoxBot for TLC.                                      *)
(***************************************************************************)
EXTENDS BoxBot, TLC

(* A chunk costs 2 on either side and 4 as a box, which pays 5. *)
TwoEach == [o \in Outcomes |-> 2]
=============================================================================
