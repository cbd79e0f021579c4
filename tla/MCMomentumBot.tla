----------------------------- MODULE MCMomentumBot -----------------------------
(***************************************************************************)
(* Small instances of MomentumBot for TLC.                                 *)
(***************************************************************************)
EXTENDS MomentumBot, TLC

(* Deep at one price; two prices, the dearer one listed first, with an     *)
(* empty level; too little of anything.                                    *)
Deep == <<[price |-> 2, size |-> 9]>>
Mixed == <<[price |-> 3, size |-> 4], [price |-> 2, size |-> 0],
           [price |-> 2, size |-> 2]>>
Thin == <<[price |-> 2, size |-> 1]>>
MCBooks == {Deep, Mixed, Thin, <<>>}
=============================================================================
