----------------------------- MODULE MCLatencyBot -----------------------------
(***************************************************************************)
(* Small instances of LatencyBot for TLC.                                  *)
(***************************************************************************)
EXTENDS LatencyBot, TLC
=============================================================================
