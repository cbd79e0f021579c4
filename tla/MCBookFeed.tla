------------------------------ MODULE MCBookFeed ------------------------------
(***************************************************************************)
(* Small instances of BookFeed for TLC.                                    *)
(***************************************************************************)
EXTENDS BookFeed, TLC

CONSTANT m1

(* One level at price 1 of every book. *)
OneLevel == [p \in Prices |-> IF p = 1 THEN 1 ELSE 0]
=============================================================================
