--------------------------- MODULE MCAlphaExecutor ---------------------------
(***************************************************************************)
(* Small instances of AlphaExecutor for TLC.                               *)
(***************************************************************************)
EXTENDS AlphaExecutor, TLC

CONSTANTS s1, s2, m1

(* Two signals for one market of the sports vertical. *)
SameMarket == [s \in Signals |-> m1]
Interchangeable == Permutations(Signals)
AllSports == [m \in Markets |-> "sports"]

(* No position is held at first. *)
NothingHeld == [m \in Markets |-> 0]
=============================================================================
