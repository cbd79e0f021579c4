------------------------------ MODULE TradeBook ------------------------------
(***************************************************************************)
(* What every trading service of the platform owes its operator, whatever  *)
(* its strategy: a trade enters the service's books once, and for no more  *)
(* than the exchange had really filled when it was entered.  The services  *)
(* may lose track of a purchase (a reply that never comes, a crash), they  *)
(* may not invent one.                                                     *)
(*                                                                         *)
(* The detailed modules implement this specification; each says with       *)
(* INSTANCE ... WITH what a trade is and where the two numbers come from.  *)
(***************************************************************************)
EXTENDS Naturals

CONSTANT Trades          \* the attempts to trade that are told apart

VARIABLES
  bought,                \* per trade: the complete units filled so far
  booked                 \* per trade: the units the books claim, 0 if none

vars == <<bought, booked>>

TypeOK ==
  /\ bought \in [Trades -> Nat]
  /\ booked \in [Trades -> Nat]

Init ==
  /\ bought = [t \in Trades |-> 0]
  /\ booked = [t \in Trades |-> 0]

(* The exchange fills more of trade t. *)
Fill(t) ==
  /\ bought'[t] > bought[t]
  /\ bought' = [bought EXCEPT ![t] = bought'[t]]
  /\ UNCHANGED booked

(* The service enters trade t, which it has not entered before. *)
Book(t) ==
  /\ booked[t] = 0
  /\ booked'[t] \in 1 .. bought[t]
  /\ booked' = [booked EXCEPT ![t] = booked'[t]]
  /\ UNCHANGED bought

Next == \E t \in Trades : Fill(t) \/ Book(t)

Spec == Init /\ [][Next]_vars
=============================================================================
