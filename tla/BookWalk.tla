------------------------------- MODULE BookWalk -------------------------------
(***************************************************************************)
(* The arithmetic of an order of the momentum bot: its reading of an order *)
(* book (orderbook-checker.ts) and the split of an order into chunks       *)
(* (trade-executor.ts).  A book is a sequence of levels, in the order the  *)
(* exchange lists them; prices and sizes count their smallest units.       *)
(***************************************************************************)
EXTENDS Integers, Sequences, FiniteSets, Functions

CONSTANT MinShares             \* MIN_SHARES and MIN_CHUNK

ASSUME BookWalkAssumption == MinShares \in Nat \ {0}

Least(a, b) == IF a <= b THEN a ELSE b

(* fetchOrderBook(): levels without a price or size are dropped, and the   *)
(* cheapest comes first; levels of one price stay in some order.           *)
AskLists(book) ==
  LET kept == {i \in DOMAIN book : book[i].price > 0 /\ book[i].size > 0}
      places == 1 .. Cardinality(kept)
  IN {[i \in places |-> book[at[i]]] :
        at \in {at \in Bijection(places, kept) :
                 \A i, j \in places :
                   i < j => book[at[i]].price <= book[at[j]].price}}

NothingTaken == [shares |-> 0, cost |-> 0, worst |-> 0]

(* Mutant: the shares a level has left over are taken as well. *)
TakeWhole(maxPrice, maxShares, taken, level) ==
  IF level.price > maxPrice \/ taken.shares >= maxShares THEN taken
  ELSE [shares |-> taken.shares + level.size,
        cost |-> taken.cost + level.size * level.price,
        worst |-> level.price]

(* One turn of the loop over the levels. *)
Take(maxPrice, maxShares, taken, level) ==
  IF level.price > maxPrice \/ taken.shares >= maxShares THEN taken
  ELSE LET n == Least(level.size, maxShares - taken.shares) IN
       [shares |-> taken.shares + n,
        cost |-> taken.cost + n * level.price,
        worst |-> level.price]

(* getAvailableLiquidity(); below MinShares it is no liquidity at all. *)
Liquidity(asks, maxPrice, maxShares) ==
  LET walk[i \in 0 .. Len(asks)] ==
        IF i = 0 THEN NothingTaken
        ELSE Take(maxPrice, maxShares, walk[i - 1], asks[i])
  IN walk[Len(asks)]

(* Mutant: the rest of an order is not joined to the chunk before it. *)
SplitEvenly(shares, maxChunk) ==
  LET split[n \in 0 .. shares] ==
        IF n = 0 THEN <<>>
        ELSE <<Least(n, maxChunk)>> \o split[n - Least(n, maxChunk)]
  IN split[shares]

(* executeSingle(), executeChunked(): a rest below MinShares is joined to  *)
(* the last chunk, which may then be larger than the others.               *)
Chunks(shares, maxChunk) ==
  LET split[n \in 0 .. shares] ==
        LET chunk == Least(n, maxChunk)
        IN IF n = 0 THEN <<>>
           ELSE IF n - chunk \in 1 .. MinShares - 1 THEN <<n>>
           ELSE <<chunk>> \o split[n - chunk]
  IN split[shares]
=============================================================================
