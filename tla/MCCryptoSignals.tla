---------------------------- MODULE MCCryptoSignals ----------------------------
(***************************************************************************)
(* A small instance of CryptoSignals for TLC.                              *)
(***************************************************************************)
EXTENDS CryptoSignals

CONSTANTS btc, eth

(* The latency bot's feeds, the momentum bot's, and the service's own. *)
AllSetups == {{"binance", "coinbase"}, {"ticker"}, {"combined"}}
FaultsPerSetup == [u \in AllSetups |-> IF u = {"combined"} THEN 1 ELSE 2]
=============================================================================
