--------------------------- MODULE MomentumBot_proofs ---------------------------
(***************************************************************************)
(* Theorems about MomentumBot, for any books, prices, limits, windows and  *)
(* bounds.                                                                 *)
(*                                                                         *)
(* One bet: until it has decided, the bot that is running has made no bet  *)
(* in this window, so that each bet of it belongs to a crash               *)
(* (DecisionInv).  A bot that has decided sleeps until a window begins.    *)
(*                                                                         *)
(* Its cost and the loss of a day: the walk of a book takes no more than   *)
(* was asked for, the split of an order is the whole order, and therefore  *)
(* IInv, which is stated with the model, is kept by every step.            *)
(***************************************************************************)
EXTENDS MomentumBot, FiniteSetTheorems, WellFoundedInduction, TLAPS

Undecided == {"down", "connect", "load", "begin", "record", "discover", "wait",
              "global", "momentum", "limits", "signal"}

DecisionInv ==
  /\ bets \in Nat /\ crashes \in Nat
  /\ bets <= 1 + crashes
  /\ pc \in Undecided \/ (pc = "asleep" /\ passed) => bets <= crashes

LEMMA DecisionInit == MomentumInit => DecisionInv
BY DEF MomentumInit, DecisionInv

(* A step that neither bets nor crashes, and comes before the decision only *)
(* from there.                                                             *)
LEMMA OtherSteps ==
  ASSUME DecisionInv, UNCHANGED <<bets, crashes>>,
         pc' \in Undecided => pc \in Undecided,
         pc' = "asleep" => ~passed' \/ (pc = "asleep" /\ passed' = passed)
  PROVE  DecisionInv'
BY DEF DecisionInv

LEMMA DecisionStep == DecisionInv /\ [MomentumNext]_momentumVars => DecisionInv'
<1> SUFFICES ASSUME DecisionInv, [MomentumNext]_momentumVars
             PROVE  DecisionInv'
  OBVIOUS
<1> USE DEF momentumVars, timeVars, pastVars, GoTo
<1>1. CASE Boot
  BY <1>1, OtherSteps DEF Boot, Undecided
<1>2. CASE Connect
  BY <1>2, OtherSteps DEF Connect, Undecided
<1>3. CASE LoadStats
  BY <1>3, OtherSteps DEF LoadStats, Undecided
<1>4. CASE Begin
  BY <1>4, OtherSteps DEF Begin, Undecided
<1>5. CASE RecordWindow
  BY <1>5, OtherSteps DEF RecordWindow, Persist, Undecided
<1>6. CASE NoMarket \/ Discover \/ DecisionPoint
  BY <1>6, OtherSteps DEF NoMarket, Discover, DecisionPoint, Undecided
<1>7. CASE CheckGlobal \/ CheckMomentum
  BY <1>7, OtherSteps DEF CheckGlobal, CheckMomentum, CheckSwitch, Undecided
<1>8. CASE Allowed
  BY <1>8, OtherSteps DEF Allowed, Undecided
<1>9. CASE Blocked
  BY <1>9, OtherSteps DEF Blocked, Undecided
<1>10. CASE BlockFails
  BY <1>10, OtherSteps DEF BlockFails, Undecided
<1>11. CASE NoSignal
  BY <1>11, OtherSteps DEF NoSignal, Undecided
<1>12. CASE \E side \in Sides, book \in Books : Decide(side, book)
  <2>1. pc = "signal" /\ pc' = "execute" /\ bets' = bets + 1
        /\ crashes' = crashes
    BY <1>12 DEF Decide
  <2> QED BY <2>1 DEF DecisionInv, Undecided
<1>13. CASE \E p \in 1 .. MaxEntry : ChunkFilled(p) \/ ChunkThrows(p)
  BY <1>13, OtherSteps DEF ChunkFilled, ChunkThrows, Undecided
<1>14. CASE ChunkKilled
  BY <1>14, OtherSteps DEF ChunkKilled, Undecided
<1>15. CASE \E book \in Books : PaperFill(book)
  BY <1>15, OtherSteps DEF PaperFill, Undecided
<1>16. CASE BetPlaced \/ BetMissed
  BY <1>16, OtherSteps DEF BetPlaced, BetMissed, Undecided
<1>17. CASE RecordSkip \/ PersistTrade
  BY <1>17, OtherSteps DEF RecordSkip, PersistTrade, Persist, Undecided
<1>18. CASE Close
  BY <1>18, OtherSteps DEF Close, Undecided
<1>19. CASE \E lead \in Leads, outcome \in Sides : RecordTrade(lead, outcome)
  BY <1>19, OtherSteps DEF RecordTrade, Undecided
<1>20. CASE WaitForNextWindow
  BY <1>20, OtherSteps DEF WaitForNextWindow, Undecided
<1>21. CASE WakeUp
  BY <1>21 DEF WakeUp, DecisionInv, Undecided
<1>22. CASE Crash
  <2>1. pc' = "down" /\ bets' = bets /\ crashes' = crashes + 1
    BY <1>22 DEF Crash
  <2> QED BY <2>1 DEF DecisionInv, Undecided
<1>23. CASE Tick
  BY <1>23, OtherSteps DEF Tick, Undecided
<1>24. CASE NextWindow
  BY <1>24 DEF NextWindow, DecisionInv
<1>25. CASE \E key \in Switches : Toggle(key)
  BY <1>25, OtherSteps DEF Toggle, Undecided
<1>26. CASE UNCHANGED momentumVars
  BY <1>26, OtherSteps
<1> QED
  BY <1>1, <1>2, <1>3, <1>4, <1>5, <1>6, <1>7, <1>8, <1>9, <1>10, <1>11,
     <1>12, <1>13, <1>14, <1>15, <1>16, <1>17, <1>18, <1>19, <1>20, <1>21,
     <1>22, <1>23, <1>24, <1>25, <1>26 DEF MomentumNext

(* mainLoop(): one decision in each window, and one more for each time the *)
(* bot was started again in it, for any books and any lengths.             *)
THEOREM OneBet == MomentumSpec => []OneBetPerWindow
<1>1. DecisionInv => OneBetPerWindow
  BY DEF DecisionInv, OneBetPerWindow
<1> QED BY <1>1, DecisionInit, DecisionStep, PTL DEF MomentumSpec

-----------------------------------------------------------------------------
LEMMA TypeInit == MomentumInit => TypeInv
<1> SUFFICES ASSUME MomentumInit PROVE TypeInv
  OBVIOUS
<1>1. sec \in Nat /\ bets \in Nat /\ crashes \in Nat /\ failures \in Nat
  BY DEF MomentumInit
<1>2. mode \in Modes /\ enabled \in [Switches -> BOOLEAN] /\ passed \in BOOLEAN
  BY Zenon DEF MomentumInit
<1>3. pc = "down"
  BY DEF MomentumInit
<1> QED BY <1>1, <1>2, <1>3, Zenon DEF TypeInv

LEMMA TypeStep == TypeInv /\ [MomentumNext]_momentumVars => TypeInv'
<1> SUFFICES ASSUME TypeInv, [MomentumNext]_momentumVars
             PROVE  TypeInv'
  OBVIOUS
<1> USE DEF TypeInv, momentumVars, timeVars, pastVars, GoTo, Fails
<1>1. CASE Boot
  BY <1>1 DEF Boot
<1>2. CASE Connect
  BY <1>2 DEF Connect
<1>3. CASE LoadStats
  BY <1>3 DEF LoadStats
<1>4. CASE Begin
  BY <1>4 DEF Begin
<1>5. CASE RecordWindow
  BY <1>5 DEF RecordWindow, Persist
<1>6. CASE NoMarket \/ Discover \/ DecisionPoint
  BY <1>6 DEF NoMarket, Discover, DecisionPoint
<1>7. CASE CheckGlobal \/ CheckMomentum
  BY <1>7 DEF CheckGlobal, CheckMomentum, CheckSwitch
<1>8. CASE Allowed
  BY <1>8 DEF Allowed
<1>9. CASE Blocked
  BY <1>9 DEF Blocked
<1>10. CASE BlockFails
  BY <1>10 DEF BlockFails
<1>11. CASE NoSignal
  BY <1>11 DEF NoSignal
<1>12. CASE \E side \in Sides, book \in Books : Decide(side, book)
  BY <1>12 DEF Decide
<1>13. CASE \E p \in 1 .. MaxEntry : ChunkFilled(p) \/ ChunkThrows(p)
  BY <1>13 DEF ChunkFilled, ChunkThrows
<1>14. CASE ChunkKilled
  BY <1>14 DEF ChunkKilled
<1>15. CASE \E book \in Books : PaperFill(book)
  BY <1>15 DEF PaperFill
<1>16. CASE BetPlaced \/ BetMissed
  BY <1>16 DEF BetPlaced, BetMissed
<1>17. CASE RecordSkip \/ PersistTrade
  BY <1>17 DEF RecordSkip, PersistTrade, Persist
<1>18. CASE Close
  BY <1>18 DEF Close
<1>19. CASE \E lead \in Leads, outcome \in Sides : RecordTrade(lead, outcome)
  BY <1>19 DEF RecordTrade
<1>20. CASE WaitForNextWindow
  BY <1>20 DEF WaitForNextWindow
<1>21. CASE WakeUp
  BY <1>21 DEF WakeUp
<1>22. CASE Crash
  BY <1>22 DEF Crash
<1>23. CASE Tick
  BY <1>23 DEF Tick
<1>24. CASE NextWindow
  BY <1>24 DEF NextWindow
<1>25. CASE \E key \in Switches : Toggle(key)
  BY <1>25 DEF Toggle
<1>26. CASE UNCHANGED momentumVars
  BY <1>26
<1> QED
  BY <1>1, <1>2, <1>3, <1>4, <1>5, <1>6, <1>7, <1>8, <1>9, <1>10, <1>11,
     <1>12, <1>13, <1>14, <1>15, <1>16, <1>17, <1>18, <1>19, <1>20, <1>21,
     <1>22, <1>23, <1>24, <1>25, <1>26 DEF MomentumNext

(* mainLoop(), processWindow(): the bot is always at one of the places the *)
(* module names, and switches, clock and counters keep their types.        *)
THEOREM TypesHold == MomentumSpec => []TypeInv
BY TypeInit, TypeStep, PTL DEF MomentumSpec

-----------------------------------------------------------------------------
(* Induction over the natural numbers, and functions defined by recursion  *)
(* on them: f[i] is got from f[p[i]], where p[i] is less than i.           *)
LessRel == {ss \in Nat \X Nat : ss[1] < ss[2]}

LEMMA LessIsWellFounded == IsWellFoundedOn(LessRel, Nat)
BY Zenon, NatLessThanWellFounded DEF OpToRel, LessRel

LEMMA SetInduction ==
  ASSUME NEW T, \A n \in Nat : (\A m \in Nat : m < n => m \in T) => n \in T
  PROVE  Nat \subseteq T
<1> SUFFICES ASSUME Nat \ T # {} PROVE FALSE
  OBVIOUS
<1>1. PICK n \in Nat \ T : \A m \in Nat \ T : ~ (<<m, n>> \in LessRel)
  <2>1. Nat \ T \in SUBSET Nat
    OBVIOUS
  <2> QED BY <2>1, LessIsWellFounded, WFMin
<1>2. ASSUME NEW m \in Nat, m < n PROVE m \in T
  BY <1>1, <1>2 DEF LessRel
<1> QED BY <1>1, <1>2

(* What holds of the first value, and of each if of an earlier one. *)
LEMMA AlongRecursion ==
  ASSUME NEW N \in Nat, NEW S, NEW f, f[0] \in S,
         \A i \in 1 .. N : \E j \in 0 .. i - 1 : f[j] \in S => f[i] \in S
  PROVE  \A i \in 0 .. N : f[i] \in S
<1> DEFINE T == {i \in Nat : i <= N => f[i] \in S}
<1>1. ASSUME NEW i \in Nat, \A j \in Nat : j < i => j \in T
      PROVE  i \in T
  <2>1. CASE i = 0 \/ i > N
    BY <2>1
  <2>2. CASE i \in 1 .. N
    <3>1. PICK j \in 0 .. i - 1 : f[j] \in S => f[i] \in S
      BY <2>2
    <3>2. j \in Nat /\ j < i /\ j <= N
      BY <2>2
    <3> QED BY <3>1, <3>2, <1>1
  <2> QED BY <2>1, <2>2
<1>2. Nat \subseteq T
  <2> HIDE DEF T
  <2> QED BY <1>1, SetInduction
<1> QED BY <1>2

(* f is defined by that recursion, in which G is the step ... *)
Follows(f, N, a, p, G) ==
  f[0] = a /\ \A i \in 1 .. N : f[i] = G[<<i, f[p[i]]>>]

(* ... and there is such a function, so that CHOOSE finds it. *)
LEMMA RecursionExists ==
  ASSUME NEW N \in Nat, NEW S, NEW a \in S, NEW p \in [1 .. N -> Nat],
         \A i \in 1 .. N : p[i] < i,
         NEW G \in [(1 .. N) \X S -> S]
  PROVE  \E f \in [0 .. N -> S] : Follows(f, N, a, p, G)
<1> DEFINE Fits(n, f) == \A i \in 0 .. n : f[i] = IF i = 0 THEN a
                                                  ELSE G[<<i, f[p[i]]>>]
           T == {n \in Nat : n <= N => \E f \in [0 .. n -> S] : Fits(n, f)}
<1>1. ASSUME NEW n \in Nat, \A m \in Nat : m < n => m \in T
      PROVE  n \in T
  <2>1. CASE n = 0
    <3> DEFINE f == [i \in 0 .. 0 |-> a]
    <3>1. f \in [0 .. 0 -> S] /\ Fits(0, f)
      OBVIOUS
    <3> HIDE DEF f, Fits
    <3>2. \E g \in [0 .. 0 -> S] : Fits(0, g)
      BY <3>1
    <3> QED BY <3>2, <2>1
  <2>2. CASE n > N
    BY <2>2
  <2>3. CASE n \in 1 .. N
    <3>1. n - 1 \in Nat /\ n - 1 < n /\ n - 1 <= N
      BY <2>3
    <3>2. n - 1 \in T
      BY <3>1, <1>1
    <3>3. PICK f \in [0 .. n - 1 -> S] : Fits(n - 1, f)
      BY <3>1, <3>2
    <3>4. p[n] \in 0 .. n - 1
      BY <2>3
    <3> DEFINE g == [i \in 0 .. n |-> IF i = n THEN G[<<n, f[p[n]]>>] ELSE f[i]]
    <3>5. g \in [0 .. n -> S]
      BY <2>3, <3>4
    <3>6. ASSUME NEW i \in 0 .. n
          PROVE  g[i] = IF i = 0 THEN a ELSE G[<<i, g[p[i]]>>]
      <4>1. CASE i = n
        <5>1. g[p[i]] = f[p[n]]
          BY <4>1, <3>4, <2>3
        <5>2. g[i] = G[<<n, f[p[n]]>>]
          BY <4>1
        <5> HIDE DEF g
        <5> QED BY <4>1, <5>1, <5>2, <2>3
      <4>2. CASE i = 0
        <5>1. 0 \in 0 .. n - 1 /\ 0 \in 0 .. n /\ 0 # n
          BY <2>3
        <5>2. g[0] = f[0]
          BY <5>1
        <5>3. f[0] = a
          BY <5>1, <3>3
        <5> HIDE DEF g
        <5> QED BY <4>2, <5>2, <5>3
      <4>3. CASE i \in 1 .. n - 1
        <5>1. p[i] \in 0 .. n - 1 /\ p[i] # n
          BY <4>3, <2>3
        <5>2. g[p[i]] = f[p[i]] /\ g[i] = f[i]
          BY <5>1, <4>3
        <5>3. f[i] = G[<<i, f[p[i]]>>]
          BY <3>3, <4>3
        <5> HIDE DEF g
        <5> QED BY <4>3, <5>2, <5>3
      <4> QED BY <4>1, <4>2, <4>3
    <3> HIDE DEF g
    <3>7. Fits(n, g)
      BY <3>6
    <3> HIDE DEF Fits
    <3> QED BY <3>5, <3>7
  <2>4. n = 0 \/ n > N \/ n \in 1 .. N
    OBVIOUS
  <2> HIDE DEF T
  <2> QED BY <2>1, <2>2, <2>3, <2>4
<1>2. N \in T
  <2> HIDE DEF T
  <2> QED BY <1>1, SetInduction
<1>3. PICK f \in [0 .. N -> S] : Fits(N, f)
  BY <1>2
<1>4. f[0] = a
  <2>1. 0 \in 0 .. N
    OBVIOUS
  <2> QED BY <1>3, <2>1
<1>5. ASSUME NEW i \in 1 .. N
      PROVE  f[i] = G[<<i, f[p[i]]>>]
  BY <1>3
<1> QED BY <1>4, <1>5, Zenon DEF Follows

-----------------------------------------------------------------------------
Level == [price : Nat \ {0}, size : Nat \ {0}]

LEMMA ItemOf ==
  ASSUME NEW X, NEW s \in Seq(X), NEW i \in DOMAIN s
  PROVE  s[i] \in X
OBVIOUS

(* What fetchOrderBook() keeps of a book has prices and sizes. *)
LEMMA AsksAreLevels ==
  ASSUME NEW book \in Seq([price : Int, size : Int]), NEW asks \in AskLists(book)
  PROVE  asks \in Seq(Level)
<1> DEFINE kept == {i \in DOMAIN book : book[i].price > 0 /\ book[i].size > 0}
           places == 1 .. Cardinality(kept)
<1>1. Cardinality(kept) \in Nat
  <2>1. IsFiniteSet(1 .. Len(book))
    BY FS_Interval
  <2>2. kept \subseteq 1 .. Len(book)
    OBVIOUS
  <2>3. IsFiniteSet(kept)
    BY <2>1, <2>2, FS_Subset
  <2> QED BY <2>3, FS_CardinalityType
<1>2. PICK at \in Bijection(places, kept) : asks = [i \in places |-> book[at[i]]]
  BY DEF AskLists
<1>3. at \in [places -> kept]
  BY DEF Bijection, Injection
<1>4. ASSUME NEW i \in kept
      PROVE  book[i] \in Level
  <2>1. book[i] \in [price : Int, size : Int]
    <3>1. i \in DOMAIN book
      OBVIOUS
    <3> HIDE DEF kept
    <3> QED BY <3>1, ItemOf
  <2>2. book[i].price > 0 /\ book[i].size > 0
    OBVIOUS
  <2> HIDE DEF kept
  <2> QED BY <2>1, <2>2 DEF Level
<1> HIDE DEF kept
<1>5. asks \in [places -> Level]
  BY <1>2, <1>3, <1>4
<1> QED BY <1>1, <1>5
-----------------------------------------------------------------------------
(* What an order may have taken of a book: no more shares than it is for,  *)
(* at no more than its limit.                                              *)
Takings(maxPrice, maxShares) ==
  {taken \in [shares : 0 .. maxShares, cost : Nat, worst : 0 .. maxPrice] :
     taken.cost <= taken.shares * maxPrice}

LEMMA Product ==
  ASSUME NEW n \in Nat, NEW p \in Nat, NEW q \in Nat, p <= q
  PROVE  n * p \in Nat /\ n * q \in Nat /\ n * p <= n * q
<1>1. n * q = n * p + n * (q - p)
  OBVIOUS
<1>2. n * p \in Nat /\ n * q \in Nat /\ n * (q - p) \in Nat
  OBVIOUS
<1> QED BY <1>1, <1>2

(* A turn of the loop takes no more than that. *)
LEMMA TakeTakes ==
  ASSUME NEW maxPrice \in Nat, NEW maxShares \in Nat,
         NEW taken \in Takings(maxPrice, maxShares), NEW level \in Level
  PROVE  Take(maxPrice, maxShares, taken, level) \in Takings(maxPrice, maxShares)
<1>1. CASE level.price > maxPrice \/ taken.shares >= maxShares
  BY <1>1 DEF Take
<1>2. CASE ~ (level.price > maxPrice \/ taken.shares >= maxShares)
  <2> DEFINE n == IF level.size <= maxShares - taken.shares
                  THEN level.size ELSE maxShares - taken.shares
  <2>1. /\ taken.shares \in 0 .. maxShares /\ taken.cost \in Nat
        /\ taken.cost <= taken.shares * maxPrice
        /\ level.price \in Nat /\ level.price <= maxPrice /\ level.size \in Nat
    BY <1>2 DEF Takings, Level
  <2>2. n \in Nat /\ taken.shares + n \in 0 .. maxShares
    BY <1>2, <2>1
  <2>3. Take(maxPrice, maxShares, taken, level) =
          [shares |-> taken.shares + n, cost |-> taken.cost + n * level.price,
           worst |-> level.price]
    BY <1>2, Zenon DEF Take, Least
  <2> HIDE DEF n
  <2>4. n * level.price \in Nat /\ n * level.price <= n * maxPrice /\ n * maxPrice \in Nat
    BY <2>1, <2>2, Product
  <2>5. (taken.shares + n) * maxPrice = taken.shares * maxPrice + n * maxPrice
    BY <2>1, <2>2
  <2>6. taken.shares * maxPrice \in Nat
    BY <2>1, Product
  <2>7. taken.cost + n * level.price \in Nat
        /\ taken.cost + n * level.price <= (taken.shares + n) * maxPrice
    BY <2>1, <2>4, <2>5, <2>6
  <2> QED BY <2>1, <2>2, <2>3, <2>7 DEF Takings
<1> QED BY <1>1, <1>2

(* The loop of getAvailableLiquidity(), as a function of the turns. *)
Walk(asks, maxPrice, maxShares) ==
  CHOOSE walk : walk = [i \in 0 .. Len(asks) |->
    IF i = 0 THEN NothingTaken
    ELSE Take(maxPrice, maxShares, walk[i - 1], asks[i])]

LEMMA LiquidityIsWalk ==
  ASSUME NEW asks, NEW maxPrice, NEW maxShares
  PROVE  Liquidity(asks, maxPrice, maxShares) = Walk(asks, maxPrice, maxShares)[Len(asks)]
BY DEF Liquidity, Walk

LEMMA WalkIs ==
  ASSUME NEW asks \in Seq(Level), NEW maxPrice \in Nat, NEW maxShares \in Nat
  PROVE  LET walk == Walk(asks, maxPrice, maxShares) IN
         \A i \in 0 .. Len(asks) :
           walk[i] = IF i = 0 THEN NothingTaken
                     ELSE Take(maxPrice, maxShares, walk[i - 1], asks[i])
<1> DEFINE N == Len(asks)
           S == Takings(maxPrice, maxShares)
           Turn(i, taken) == Take(maxPrice, maxShares, taken, asks[i])
           p == [i \in 1 .. N |-> i - 1]
           G == [y \in (1 .. N) \X S |-> Turn(y[1], y[2])]
<1>1. N \in Nat /\ NothingTaken \in S
  <2>1. 0 <= 0 * maxPrice
    OBVIOUS
  <2> QED BY <2>1 DEF NothingTaken, Takings
<1>2. \A i \in 1 .. N, x \in S : Turn(i, x) \in S
  BY TakeTakes
<1>3. p \in [1 .. N -> Nat] /\ \A i \in 1 .. N : p[i] < i
  OBVIOUS
<1> HIDE DEF S, Turn
<1>4. G \in [(1 .. N) \X S -> S]
  BY <1>2
<1>5. \A i \in 1 .. N, x \in S : G[<<i, x>>] = Turn(i, x)
  OBVIOUS
<1> HIDE DEF N, G, p
<1>6. PICK f \in [0 .. N -> S] : Follows(f, N, NothingTaken, p, G)
  <2>1. N \in Nat /\ NothingTaken \in S /\ p \in [1 .. N -> Nat]
        /\ G \in [(1 .. N) \X S -> S]
    BY <1>1, <1>3, <1>4, Zenon
  <2>2. \A i \in 1 .. N : p[i] < i
    BY <1>3, Zenon
  <2> QED BY <2>1, <2>2, RecursionExists, Zenon
<1>7. f[0] = NothingTaken /\ \A i \in 1 .. N : f[i] = G[<<i, f[p[i]]>>]
  BY <1>6, Zenon DEF Follows
<1>8. ASSUME NEW i \in 1 .. N
      PROVE  G[<<i, f[p[i]]>>] = Turn(i, f[i - 1])
  <2>1. p[i] = i - 1
    BY DEF p
  <2>2. f[i - 1] \in S
    BY <1>1
  <2> QED BY <2>1, <2>2, <1>5
<1>9. f = [i \in 0 .. N |-> IF i = 0 THEN NothingTaken ELSE Turn(i, f[i - 1])]
  <2>1. \A i \in 0 .. N : f[i] = IF i = 0 THEN NothingTaken ELSE Turn(i, f[i - 1])
    <3> SUFFICES ASSUME NEW i \in 0 .. N
                 PROVE  f[i] = IF i = 0 THEN NothingTaken ELSE Turn(i, f[i - 1])
      OBVIOUS
    <3>1. CASE i = 0
      BY <3>1, <1>7
    <3>2. CASE i # 0
      <4>1. i \in 1 .. N
        BY <1>1, <3>2
      <4> QED BY <4>1, <1>7, <1>8, Zenon
    <3> QED BY <3>1, <3>2
  <2>2. f = [i \in 0 .. N |-> f[i]]
    OBVIOUS
  <2> QED BY <2>1, <2>2, Zenon
<1> DEFINE Is(walk) == walk = [i \in 0 .. N |->
             IF i = 0 THEN NothingTaken ELSE Turn(i, walk[i - 1])]
<1>10. Walk(asks, maxPrice, maxShares) = CHOOSE walk : Is(walk)
  BY DEF Walk, N, Turn
<1>11. Is(Walk(asks, maxPrice, maxShares))
  <2>1. Is(f)
    BY <1>9
  <2> HIDE DEF Is
  <2> QED BY <1>10, <2>1
<1> QED BY <1>11 DEF N, Turn

(* getAvailableLiquidity(): nor does the loop, however long the book is. *)
LEMMA LiquidityTakes ==
  ASSUME NEW asks \in Seq(Level), NEW maxPrice \in Nat, NEW maxShares \in Nat
  PROVE  Liquidity(asks, maxPrice, maxShares) \in Takings(maxPrice, maxShares)
<1> DEFINE walk == Walk(asks, maxPrice, maxShares)
           S == Takings(maxPrice, maxShares)
<1>1. Len(asks) \in Nat
  OBVIOUS
<1>2. walk[0] \in S
  <2>1. walk[0] = NothingTaken
    BY WalkIs, <1>1
  <2>2. 0 <= 0 * maxPrice
    OBVIOUS
  <2> HIDE DEF walk
  <2> QED BY <2>1, <2>2 DEF NothingTaken, Takings
<1>3. ASSUME NEW i \in 1 .. Len(asks)
      PROVE  \E j \in 0 .. i - 1 : walk[j] \in S => walk[i] \in S
  <2>1. i - 1 \in 0 .. i - 1 /\ i \in 0 .. Len(asks) /\ i # 0 /\ asks[i] \in Level
    BY <1>1
  <2>2. walk[i] = Take(maxPrice, maxShares, walk[i - 1], asks[i])
    BY <2>1, WalkIs
  <2> HIDE DEF walk
  <2> QED BY <2>1, <2>2, TakeTakes
<1> HIDE DEF walk, S
<1>4. \A i \in 0 .. Len(asks) : walk[i] \in S
  BY <1>1, <1>2, <1>3, AlongRecursion
<1> QED BY <1>1, <1>4, LiquidityIsWalk DEF walk, S

-----------------------------------------------------------------------------
(* The sum of a sequence, as the function of the sums of its beginnings. *)
Sums(numbers) ==
  CHOOSE sum : sum = [i \in 0 .. Len(numbers) |->
    IF i = 0 THEN 0 ELSE sum[i - 1] + numbers[i]]

LEMMA SumsAre ==
  ASSUME NEW numbers \in Seq(Nat)
  PROVE  LET sum == Sums(numbers) IN
         /\ sum[0] = 0
         /\ \A i \in 1 .. Len(numbers) : sum[i] = sum[i - 1] + numbers[i]
<1> DEFINE N == Len(numbers)
           p == [i \in 1 .. N |-> i - 1]
           G == [y \in (1 .. N) \X Nat |-> y[2] + numbers[y[1]]]
<1>1. N \in Nat
  OBVIOUS
<1>2. p \in [1 .. N -> Nat] /\ \A i \in 1 .. N : p[i] < i
  OBVIOUS
<1>3. G \in [(1 .. N) \X Nat -> Nat]
  <2>1. \A i \in 1 .. N : numbers[i] \in Nat
    OBVIOUS
  <2> HIDE DEF N
  <2> QED BY <2>1
<1>4. \A i \in 1 .. N, x \in Nat : G[<<i, x>>] = x + numbers[i]
  OBVIOUS
<1> HIDE DEF N, G, p
<1>5. PICK f \in [0 .. N -> Nat] : Follows(f, N, 0, p, G)
  <2>1. \A i \in 1 .. N : p[i] < i
    BY <1>2, Zenon
  <2>2. 0 \in Nat
    OBVIOUS
  <2> QED BY <1>1, <1>2, <1>3, <2>1, <2>2, RecursionExists, Zenon
<1>6. f[0] = 0 /\ \A i \in 1 .. N : f[i] = G[<<i, f[p[i]]>>]
  BY <1>5, Zenon DEF Follows
<1>7. ASSUME NEW i \in 1 .. N
      PROVE  G[<<i, f[p[i]]>>] = f[i - 1] + numbers[i]
  <2>1. p[i] = i - 1
    BY DEF p
  <2>2. f[i - 1] \in Nat
    BY <1>1
  <2> QED BY <2>1, <2>2, <1>4
<1> DEFINE Is(sum) == sum = [i \in 0 .. N |->
             IF i = 0 THEN 0 ELSE sum[i - 1] + numbers[i]]
<1>8. Is(f)
  <2>1. \A i \in 0 .. N : f[i] = IF i = 0 THEN 0 ELSE f[i - 1] + numbers[i]
    <3> SUFFICES ASSUME NEW i \in 0 .. N
                 PROVE  f[i] = IF i = 0 THEN 0 ELSE f[i - 1] + numbers[i]
      OBVIOUS
    <3>1. CASE i = 0
      BY <3>1, <1>6
    <3>2. CASE i # 0
      <4>1. i \in 1 .. N
        BY <1>1, <3>2
      <4> QED BY <4>1, <1>6, <1>7, <3>2, Zenon
    <3> QED BY <3>1, <3>2
  <2>2. f = [i \in 0 .. N |-> f[i]]
    OBVIOUS
  <2> QED BY <2>1, <2>2, Zenon
<1>9. Sums(numbers) = CHOOSE sum : Is(sum)
  BY DEF Sums, N
<1>10. Is(Sums(numbers))
  <2> HIDE DEF Is
  <2> QED BY <1>8, <1>9
<1>11. 0 \in 0 .. N /\ \A i \in 1 .. N : i \in 0 .. N /\ i # 0
  BY <1>1
<1> QED BY <1>10, <1>11 DEF N

LEMMA TotalOf ==
  ASSUME NEW numbers PROVE Total(numbers) = Sums(numbers)[Len(numbers)]
BY DEF Total, Sums

LEMMA TotalOfNone == Total(<<>>) = 0
<1>1. <<>> \in Seq(Nat) /\ Len(<<>>) = 0
  OBVIOUS
<1> QED BY <1>1, SumsAre, TotalOf

(* A number more in front adds itself. *)
LEMMA TotalOfOneMore ==
  ASSUME NEW c \in Nat, NEW numbers \in Seq(Nat)
  PROVE  Total(<<c>> \o numbers) = c + Total(numbers) /\ Total(numbers) \in Nat
<1> DEFINE more == <<c>> \o numbers
           s == Sums(numbers)
           t == Sums(more)
           N == Len(numbers)
           T == {i \in Nat : i <= N => s[i] \in Nat /\ t[i + 1] = c + s[i]}
<1>1. /\ N \in Nat /\ more \in Seq(Nat) /\ Len(more) = N + 1
      /\ more[1] = c /\ \A i \in 1 .. N : more[i + 1] = numbers[i] /\ numbers[i] \in Nat
  OBVIOUS
<1>2. s[0] = 0 /\ \A i \in 1 .. N : s[i] = s[i - 1] + numbers[i]
  BY SumsAre
<1>3. t[0] = 0 /\ \A i \in 1 .. N + 1 : t[i] = t[i - 1] + more[i]
  <2> HIDE DEF more
  <2> QED BY <1>1, SumsAre
<1> HIDE DEF more, s, t, N
<1>4. ASSUME NEW i \in Nat, \A j \in Nat : j < i => j \in T
      PROVE  i \in T
  <2>1. CASE i = 0
    <3>1. 1 \in 1 .. N + 1 /\ 1 - 1 = 0
      BY <1>1
    <3>2. t[1] = t[0] + more[1]
      BY <3>1, <1>3
    <3> QED BY <2>1, <3>2, <1>1, <1>2, <1>3
  <2>2. CASE i \in 1 .. N
    <3>1. i - 1 \in Nat /\ i - 1 < i /\ i - 1 <= N /\ (i - 1) + 1 = i
      BY <2>2, <1>1
    <3>2. i - 1 \in T
      BY <3>1, <1>4
    <3>3. s[i - 1] \in Nat /\ t[i] = c + s[i - 1]
      BY <3>1, <3>2
    <3>4. i + 1 \in 1 .. N + 1 /\ (i + 1) - 1 = i
      BY <2>2, <1>1
    <3>5. t[i + 1] = t[i] + more[i + 1]
      BY <3>4, <1>3
    <3>6. s[i] = s[i - 1] + numbers[i] /\ more[i + 1] = numbers[i] /\ numbers[i] \in Nat
      BY <2>2, <1>1, <1>2
    <3> QED BY <3>3, <3>5, <3>6
  <2>3. CASE i > N
    BY <2>3, <1>1
  <2>4. i = 0 \/ i \in 1 .. N \/ i > N
    BY <1>1
  <2> HIDE DEF T
  <2> QED BY <2>1, <2>2, <2>3, <2>4
<1>5. N \in T
  <2> HIDE DEF T
  <2> QED BY <1>1, <1>4, SetInduction
<1>6. s[N] \in Nat /\ t[N + 1] = c + s[N]
  BY <1>1, <1>5
<1>7. Total(numbers) = s[N] /\ Total(more) = t[N + 1]
  BY <1>1, TotalOf DEF s, t, N
<1> QED BY <1>6, <1>7 DEF more

-----------------------------------------------------------------------------
(* What executeChunked() makes of n shares, when it has split the rest. *)
Piece(n, maxChunk, rest) ==
  IF n - Least(n, maxChunk) \in 1 .. MinShares - 1 THEN <<n>>
  ELSE <<Least(n, maxChunk)>> \o rest

Splits(shares, maxChunk) ==
  CHOOSE split : split = [n \in 0 .. shares |->
    IF n = 0 THEN <<>> ELSE Piece(n, maxChunk, split[n - Least(n, maxChunk)])]

LEMMA ChunksOf ==
  ASSUME NEW shares, NEW maxChunk
  PROVE  Chunks(shares, maxChunk) = Splits(shares, maxChunk)[shares]
BY DEF Chunks, Splits, Piece

LEMMA SplitsAre ==
  ASSUME NEW shares \in Nat, NEW maxChunk \in Nat \ {0}
  PROVE  LET split == Splits(shares, maxChunk) IN
         /\ split[0] = <<>>
         /\ \A n \in 1 .. shares :
              split[n] = Piece(n, maxChunk, split[n - Least(n, maxChunk)])
<1> DEFINE N == shares
           S == Seq(Nat)
           p == [n \in 1 .. N |-> n - Least(n, maxChunk)]
           G == [y \in (1 .. N) \X S |-> Piece(y[1], maxChunk, y[2])]
<1>1. <<>> \in S
  OBVIOUS
<1>2. ASSUME NEW n \in 1 .. N
      PROVE  Least(n, maxChunk) \in 1 .. n /\ n - Least(n, maxChunk) \in 0 .. n - 1
  BY DEF Least
<1>3. p \in [1 .. N -> Nat] /\ \A n \in 1 .. N : p[n] < n
  BY <1>2
<1>4. \A n \in 1 .. N, s \in S : Piece(n, maxChunk, s) \in S
  <2> SUFFICES ASSUME NEW n \in 1 .. N, NEW s \in S
               PROVE  Piece(n, maxChunk, s) \in S
    OBVIOUS
  <2>1. n \in Nat /\ Least(n, maxChunk) \in Nat
    BY <1>2
  <2> QED BY <2>1 DEF Piece
<1> HIDE DEF S
<1>5. G \in [(1 .. N) \X S -> S]
  BY <1>4
<1>6. \A n \in 1 .. N, s \in S : G[<<n, s>>] = Piece(n, maxChunk, s)
  OBVIOUS
<1> HIDE DEF N, G, p
<1>7. PICK f \in [0 .. N -> S] : Follows(f, N, <<>>, p, G)
  <2>1. \A n \in 1 .. N : p[n] < n
    BY <1>3, Zenon
  <2>2. N \in Nat
    BY DEF N
  <2> QED BY <1>1, <1>3, <1>5, <2>1, <2>2, RecursionExists, Zenon
<1>8. f[0] = <<>> /\ \A n \in 1 .. N : f[n] = G[<<n, f[p[n]]>>]
  BY <1>7, Zenon DEF Follows
<1>9. ASSUME NEW n \in 1 .. N
      PROVE  G[<<n, f[p[n]]>>] = Piece(n, maxChunk, f[n - Least(n, maxChunk)])
  <2>1. p[n] = n - Least(n, maxChunk)
    BY DEF p
  <2>2. p[n] \in 0 .. N
    BY <1>2, <2>1 DEF N
  <2>3. f[p[n]] \in S
    BY <2>2
  <2> QED BY <2>1, <2>3, <1>6, Zenon
<1> DEFINE Is(split) == split = [n \in 0 .. N |->
             IF n = 0 THEN <<>> ELSE Piece(n, maxChunk, split[n - Least(n, maxChunk)])]
<1>10. Is(f)
  <2>1. \A n \in 0 .. N : f[n] = IF n = 0 THEN <<>>
                          ELSE Piece(n, maxChunk, f[n - Least(n, maxChunk)])
    <3> SUFFICES ASSUME NEW n \in 0 .. N
                 PROVE  f[n] = IF n = 0 THEN <<>>
                          ELSE Piece(n, maxChunk, f[n - Least(n, maxChunk)])
      OBVIOUS
    <3>1. CASE n = 0
      BY <3>1, <1>8
    <3>2. CASE n # 0
      <4>1. n \in 1 .. N
        BY <3>2 DEF N
      <4> QED BY <4>1, <1>8, <1>9, <3>2, Zenon
    <3> QED BY <3>1, <3>2
  <2>2. f = [n \in 0 .. N |-> f[n]]
    OBVIOUS
  <2> QED BY <2>1, <2>2, Zenon
<1>11. Splits(shares, maxChunk) = CHOOSE split : Is(split)
  BY DEF Splits, N
<1>12. Is(Splits(shares, maxChunk))
  <2> HIDE DEF Is
  <2> QED BY <1>10, <1>11
<1>13. 0 \in 0 .. N /\ \A n \in 1 .. N : n \in 0 .. N /\ n # 0
  BY DEF N
<1> HIDE DEF Is
<1> DEFINE split == Splits(shares, maxChunk)
<1>14. split = [n \in 0 .. N |->
             IF n = 0 THEN <<>> ELSE Piece(n, maxChunk, split[n - Least(n, maxChunk)])]
  BY <1>12, Zenon DEF Is
<1> HIDE DEF split
<1>15. split[0] = <<>>
  BY <1>13, <1>14
<1>16. \A n \in 1 .. N : split[n] = Piece(n, maxChunk, split[n - Least(n, maxChunk)])
  BY <1>13, <1>14
<1> QED BY <1>15, <1>16, Zenon DEF N, split

(* The split of n is the same in the split of more. *)
LEMMA SplitsAgree ==
  ASSUME NEW shares \in Nat, NEW more \in Nat, shares <= more,
         NEW maxChunk \in Nat \ {0}
  PROVE  Splits(more, maxChunk)[shares] = Chunks(shares, maxChunk)
<1> DEFINE s == Splits(shares, maxChunk)
           t == Splits(more, maxChunk)
           T == {n \in Nat : n <= shares => s[n] = t[n]}
<1>1. s[0] = <<>> /\ t[0] = <<>>
  BY SplitsAre
<1>2. \A n \in 1 .. shares :
         s[n] = Piece(n, maxChunk, s[n - Least(n, maxChunk)])
  BY SplitsAre, Zenon
<1>3. \A n \in 1 .. more :
         t[n] = Piece(n, maxChunk, t[n - Least(n, maxChunk)])
  BY SplitsAre, Zenon
<1> HIDE DEF s, t
<1>4. ASSUME NEW n \in Nat, \A m \in Nat : m < n => m \in T
      PROVE  n \in T
  <2>1. CASE n = 0
    BY <2>1, <1>1
  <2>2. CASE n \in 1 .. shares
    <3>1. n - Least(n, maxChunk) \in 0 .. n - 1
      BY <2>2 DEF Least
    <3>2. n - Least(n, maxChunk) \in T
      BY <3>1, <1>4
    <3>3. s[n - Least(n, maxChunk)] = t[n - Least(n, maxChunk)]
      BY <3>1, <3>2, <2>2
    <3>4. n \in 1 .. more
      BY <2>2
    <3>5. s[n] = t[n]
      BY <2>2, <3>3, <3>4, <1>2, <1>3, Zenon
    <3> QED BY <3>5
  <2>3. CASE n > shares
    BY <2>3
  <2>4. n = 0 \/ n \in 1 .. shares \/ n > shares
    OBVIOUS
  <2> HIDE DEF T
  <2> QED BY <2>1, <2>2, <2>3, <2>4
<1>5. shares \in T
  <2> HIDE DEF T
  <2> QED BY <1>4, SetInduction
<1>6. s[shares] = t[shares]
  BY <1>5
<1> QED BY <1>6, ChunksOf, Zenon DEF s, t

LEMMA ChunksOfNone ==
  ASSUME NEW maxChunk \in Nat \ {0}
  PROVE  Chunks(0, maxChunk) = <<>>
<1>1. 0 \in Nat
  OBVIOUS
<1> QED BY <1>1, ChunksOf, SplitsAre, Zenon

(* executeChunked(): the first chunk is not below the minimum, and the     *)
(* rest is either nothing or an order that can be split itself.            *)
LEMMA FirstChunk ==
  ASSUME NEW shares \in Nat, shares >= MinShares,
         NEW maxChunk \in Nat, maxChunk >= MinShares
  PROVE  \E c \in MinShares .. maxChunk + MinShares - 1 :
           /\ c <= shares /\ (shares - c = 0 \/ shares - c >= MinShares)
           /\ Chunks(shares, maxChunk) = <<c>> \o Chunks(shares - c, maxChunk)
<1> DEFINE least == Least(shares, maxChunk)
           rest == shares - least
<1> USE BookWalkAssumption
<1>1. maxChunk \in Nat \ {0} /\ shares \in 1 .. shares
  OBVIOUS
<1>2. /\ least \in MinShares .. maxChunk /\ least <= shares
      /\ rest \in 0 .. shares
      /\ rest # 0 => least = maxChunk
  BY DEF Least
<1> HIDE DEF least
<1>3. Splits(shares, maxChunk)[rest] = Chunks(rest, maxChunk)
  <2>1. rest \in Nat /\ rest <= shares
    BY <1>2
  <2> HIDE DEF rest
  <2> QED BY <2>1, <1>1, SplitsAgree
<1>4. Chunks(shares, maxChunk) = Piece(shares, maxChunk, Chunks(rest, maxChunk))
  <2>1. Splits(shares, maxChunk)[shares] =
          Piece(shares, maxChunk, Splits(shares, maxChunk)[rest])
    BY <1>1, SplitsAre, Zenon DEF least
  <2> QED BY <2>1, <1>3, ChunksOf, Zenon
<1>5. CASE rest \in 1 .. MinShares - 1
  <2>1. Chunks(shares, maxChunk) = <<shares>>
    BY <1>4, <1>5, Zenon DEF Piece, least
  <2>2. <<shares>> = <<shares>> \o <<>>
    OBVIOUS
  <2>3. Chunks(shares - shares, maxChunk) = <<>>
    <3>1. shares - shares = 0
      OBVIOUS
    <3> QED BY <3>1, <1>1, ChunksOfNone, Zenon
  <2>4. shares \in MinShares .. maxChunk + MinShares - 1 /\ shares <= shares
        /\ shares - shares = 0
    BY <1>2, <1>5
  <2>5. Chunks(shares, maxChunk) = <<shares>> \o Chunks(shares - shares, maxChunk)
    BY <2>1, <2>2, <2>3, Zenon
  <2> QED BY <2>4, <2>5, Zenon
<1>6. CASE rest \notin 1 .. MinShares - 1
  <2>1. Chunks(shares, maxChunk) = <<least>> \o Chunks(rest, maxChunk)
    BY <1>4, <1>6, Zenon DEF Piece, least
  <2>2. least \in MinShares .. maxChunk + MinShares - 1 /\ least <= shares
        /\ (rest = 0 \/ rest >= MinShares)
    BY <1>2, <1>6
  <2> QED BY <2>1, <2>2, Zenon
<1> QED BY <1>5, <1>6

LEMMA SeqOver ==
  ASSUME NEW X, NEW Y, X \subseteq Y, NEW s \in Seq(X)
  PROVE  s \in Seq(Y)
<1>1. \A i \in 1 .. Len(s) : s[i] \in Y
  OBVIOUS
<1> QED BY <1>1

(* executeChunked(): the chunks of an order are all of the order, and each *)
(* is of a size that may be sent.                                          *)
LEMMA ChunksFit ==
  ASSUME NEW shares \in Nat, shares = 0 \/ shares >= MinShares,
         NEW maxChunk \in Nat, maxChunk >= MinShares
  PROVE  /\ Chunks(shares, maxChunk) \in Seq(MinShares .. maxChunk + MinShares - 1)
         /\ Total(Chunks(shares, maxChunk)) = shares
<1> DEFINE Sizes == MinShares .. maxChunk + MinShares - 1
           Fits(n) == /\ Chunks(n, maxChunk) \in Seq(Sizes)
                      /\ Total(Chunks(n, maxChunk)) = n
           T == {n \in Nat : n = 0 \/ n >= MinShares => Fits(n)}
<1> USE BookWalkAssumption
<1>1. ASSUME NEW n \in Nat, \A m \in Nat : m < n => m \in T
      PROVE  n \in T
  <2>1. CASE n = 0
    <3>1. Chunks(0, maxChunk) = <<>>
      BY ChunksOfNone
    <3>2. <<>> \in Seq(Sizes)
      OBVIOUS
    <3>3. Fits(0)
      BY <3>1, <3>2, TotalOfNone, Zenon
    <3> QED BY <2>1, <3>3
  <2>2. CASE n >= MinShares
    <3>1. PICK c \in Sizes :
            /\ c <= n /\ (n - c = 0 \/ n - c >= MinShares)
            /\ Chunks(n, maxChunk) = <<c>> \o Chunks(n - c, maxChunk)
      BY <2>2, FirstChunk
    <3> DEFINE rest == Chunks(n - c, maxChunk)
    <3>2. c \in Nat /\ n - c \in Nat /\ n - c < n
      BY <3>1
    <3>3. n - c \in T
      BY <3>2, <1>1
    <3>4. Fits(n - c)
      BY <3>1, <3>2, <3>3
    <3>5. rest \in Seq(Sizes) /\ Total(rest) = n - c
      BY <3>4
    <3> HIDE DEF rest
    <3>6. rest \in Seq(Nat)
      <4>1. Sizes \subseteq Nat
        OBVIOUS
      <4> HIDE DEF Sizes
      <4> QED BY <4>1, <3>5, SeqOver
    <3>7. <<c>> \o rest \in Seq(Sizes)
      <4> HIDE DEF Sizes
      <4> QED BY <3>5
    <3>8. Total(<<c>> \o rest) = n
      BY <3>2, <3>5, <3>6, TotalOfOneMore
    <3>9. Fits(n)
      BY <3>1, <3>7, <3>8, Zenon DEF rest
    <3> QED BY <3>9
  <2>3. CASE ~ (n = 0 \/ n >= MinShares)
    <3> HIDE DEF Fits
    <3> QED BY <2>3
  <2> HIDE DEF T
  <2> QED BY <2>1, <2>2, <2>3
<1>2. shares \in T
  <2> HIDE DEF T
  <2> QED BY <1>1, SetInduction
<1> QED BY <1>2


-----------------------------------------------------------------------------
(* A quotient is the largest number whose product is not above the         *)
(* dividend.                                                               *)
LEMMA Quotient ==
  ASSUME NEW a \in Nat, NEW b \in Nat \ {0}
  PROVE  /\ a \div b \in Nat
         /\ (a \div b) * b <= a
         /\ \A k \in Nat : k * b <= a => k <= a \div b
         /\ \A k \in Nat : a < k * b => a \div b < k
<1> DEFINE q == a \div b
<1>1. q \in Nat /\ q * b <= a /\ a < q * b + b
  OBVIOUS
<1> HIDE DEF q
<1>2. ASSUME NEW k \in Nat, k > q
      PROVE  k * b >= q * b + b
  <2>1. (q + 1) * b <= k * b
    <3>1. q + 1 \in Nat /\ q + 1 <= k
      BY <1>1, <1>2
    <3>2. b * (q + 1) <= b * k
      BY <3>1, Product
    <3> QED BY <3>1, <3>2
  <2>2. (q + 1) * b = q * b + b
    BY <1>1
  <2>3. k * b \in Nat /\ q * b \in Nat
    BY <1>1, Product
  <2> QED BY <2>1, <2>2, <2>3
<1>3. ASSUME NEW k \in Nat, k <= q
      PROVE  k * b <= q * b
  <2>1. b * k <= b * q
    BY <1>1, <1>3, Product
  <2> QED BY <2>1, <1>1
<1>4. q * b \in Nat /\ \A k \in Nat : k * b \in Nat
  BY <1>1, Product
<1>5. ASSUME NEW k \in Nat, k * b <= a PROVE k <= q
  BY <1>1, <1>2, <1>4, <1>5
<1>6. ASSUME NEW k \in Nat, a < k * b PROVE q < k
  BY <1>1, <1>3, <1>4, <1>6
<1> QED BY <1>1, <1>5, <1>6 DEF q

(* The most shares a bet may be for. *)
MaxShares == MaxBet \div MinEntry

(* So many shares cost no more than MaxCost, at whatever price is allowed. *)
LEMMA Bounds ==
  /\ MaxShares \in Nat /\ MaxCost \in Nat
  /\ \A n \in 0 .. MaxShares : n * MaxEntry <= MaxCost
<1> USE MomentumBotAssumption, BookWalkAssumption
<1>1. MaxShares \in Nat /\ MaxShares * MinEntry <= MaxBet
  <2>1. MaxBet \in Nat /\ MinEntry \in Nat \ {0}
    OBVIOUS
  <2> QED BY <2>1, Quotient, Zenon DEF MaxShares
<1>2. MaxBet * MaxEntry \in Nat
  BY Product
<1>3. ASSUME NEW n \in 0 .. MaxShares
      PROVE  n * MaxEntry <= MaxCost
  <2>1. n \in Nat /\ n <= MaxShares
    BY <1>1
  <2>2. MinEntry * n <= MinEntry * MaxShares
    BY <1>1, <2>1, Product
  <2>3. MinEntry * n <= MaxBet /\ MinEntry * n \in Nat
    <3>1. MinEntry * MaxShares = MaxShares * MinEntry
      BY <1>1
    <3>2. MinEntry * n \in Nat /\ MaxShares * MinEntry \in Nat
      BY <1>1, <2>1, Product
    <3> QED BY <1>1, <2>2, <3>1, <3>2
  <2>4. MaxEntry * (MinEntry * n) <= MaxEntry * MaxBet
    BY <2>3, Product
  <2>5. n * MaxEntry \in Nat /\ (n * MaxEntry) * MinEntry = MaxEntry * (MinEntry * n)
        /\ MaxEntry * MaxBet = MaxBet * MaxEntry
    BY <2>1, Product
  <2>6. (n * MaxEntry) * MinEntry <= MaxBet * MaxEntry
    BY <2>4, <2>5
  <2>7. MinEntry \in Nat \ {0}
    OBVIOUS
  <2> QED BY <1>2, <2>5, <2>6, <2>7, Quotient, Zenon DEF MaxCost
<1>4. MaxCost \in Nat
  <2>1. MinEntry \in Nat \ {0}
    OBVIOUS
  <2> QED BY <1>2, <2>1, Quotient, Zenon DEF MaxCost
<1> QED BY <1>1, <1>3, <1>4

LEMMA TakenTakes ==
  ASSUME NEW book \in Books, NEW asks \in AskLists(book)
  PROVE  Taken(asks) \in Takings(MaxEntry, MaxShares)
<1>1. asks \in Seq(Level)
  BY AsksAreLevels, MomentumBotAssumption
<1>2. MaxEntry \in Nat
  BY MomentumBotAssumption
<1> QED BY <1>1, <1>2, Bounds, LiquidityTakes, Zenon DEF Taken, MaxShares

(* evaluate(): what is scaled down to the bet is still not below the       *)
(* minimum.                                                                *)
LEMMA ScaledFits ==
  ASSUME NEW taken \in Takings(MaxEntry, MaxShares), taken.shares >= MinShares
  PROVE  Scaled(taken) \in MinShares .. taken.shares
<1> DEFINE n == taken.shares
           c == taken.cost
<1>1. n \in Nat /\ c \in Nat /\ c <= n * MaxEntry /\ n >= MinShares
  BY Bounds DEF Takings
<1>2. MinShares \in Nat \ {0} /\ MaxBet \in Nat /\ MaxBet >= MinShares * MaxEntry
      /\ MaxEntry \in Nat
  BY MomentumBotAssumption, BookWalkAssumption
<1> HIDE DEF n, c
<1>3. CASE c <= MaxBet
  <2>1. Scaled(taken) = n
    BY <1>1, <1>2, <1>3 DEF Scaled, n, c
  <2> QED BY <2>1, <1>1, <1>2 DEF n
<1>4. CASE c > MaxBet
  <2>1. Scaled(taken) = (n * MaxBet) \div c /\ c \in Nat \ {0}
    BY <1>1, <1>2, <1>4 DEF Scaled, n, c
  <2>2. n * MaxBet \in Nat /\ n * (MinShares * MaxEntry) <= n * MaxBet
    <3>1. MinShares * MaxEntry \in Nat
      BY <1>2, Product
    <3> QED BY <1>1, <1>2, <3>1, Product
  <2>3. MinShares * c <= n * MaxBet
    <3>1. MinShares * c <= MinShares * (n * MaxEntry) /\ MinShares * (n * MaxEntry) \in Nat
          /\ MinShares * c \in Nat
      <4>1. n * MaxEntry \in Nat
        BY <1>1, <1>2, Product
      <4> QED BY <1>1, <1>2, <4>1, Product
    <3>2. MinShares * (n * MaxEntry) = n * (MinShares * MaxEntry)
      BY <1>1, <1>2
    <3> QED BY <2>2, <3>1, <3>2
  <2>4. n * MaxBet < n * c
    <3>1. n * c = n * MaxBet + n * (c - MaxBet)
      BY <1>1, <1>2
    <3>2. n * (c - MaxBet) >= 1
      <4>1. c - MaxBet \in Nat \ {0} /\ n \in Nat \ {0}
        BY <1>1, <1>2, <1>4
      <4> HIDE DEF n
      <4>2. \A x, y \in Nat \ {0} : x * y >= 1
        OBVIOUS
      <4> QED BY <4>1, <4>2
    <3>3. n * (c - MaxBet) \in Int
      BY <1>1, <1>2
    <3> QED BY <2>2, <3>1, <3>2, <3>3
  <2>5. (n * MaxBet) \div c \in Nat /\ MinShares <= (n * MaxBet) \div c
        /\ (n * MaxBet) \div c < n
    BY <1>1, <1>2, <2>1, <2>2, <2>3, <2>4, Quotient, Zenon
  <2> QED BY <2>1, <2>5, <1>1, <1>2 DEF n
<1> QED BY <1>1, <1>2, <1>3, <1>4

-----------------------------------------------------------------------------
(* BetInv: a bet costs what its shares may cost. *)
LEMMA BetInit == MomentumInit => BetInv
<1> SUFFICES ASSUME MomentumInit PROVE BetInv
  OBVIOUS
<1>1. MaxCost \in Nat /\ MaxEntry \in Nat
  BY Bounds, MomentumBotAssumption
<1>2. 0 * MaxEntry = 0
  BY <1>1
<1> HIDE DEF MaxCost
<1> QED BY <1>1, <1>2 DEF MomentumInit, BetInv, NoOrder, Sides

(* A step that leaves the bet alone, and neither begins nor ends one. *)
LEMMA BetFrame ==
  ASSUME BetInv, UNCHANGED <<orderVars, mode>>,
         pc' \notin Betting => pc \notin Betting,
         pc' = "execute" => pc = "execute"
  PROVE  BetInv'
BY DEF BetInv, orderVars, MaxCost

LEMMA NoBetInv ==
  ASSUME NoBet, pc' # "execute"
  PROVE  BetInv'
<1>1. MaxCost \in Nat /\ MaxEntry \in Nat
  BY Bounds, MomentumBotAssumption
<1>2. 0 * MaxEntry = 0 /\ 0 * 0 = 0
  BY <1>1
<1>3. MaxCost' = MaxCost
  BY DEF MaxCost
<1> HIDE DEF MaxCost
<1> QED BY <1>1, <1>2, <1>3 DEF NoBet, BetInv, NoOrder, Sides

LEMMA BetDecide ==
  ASSUME BetInv, NEW side \in Sides, NEW book \in Books, Decide(side, book)
  PROVE  BetInv'
<1>1. PICK asks \in AskLists(book) :
        order' = [side |-> side, shares |-> Scaled(Taken(asks)),
                  limit |-> Taken(asks).worst]
        /\ Taken(asks).shares >= MinShares
  BY DEF Decide, WorthABet
<1>2. Taken(asks) \in Takings(MaxEntry, MaxShares)
  BY TakenTakes
<1>3. Scaled(Taken(asks)) \in MinShares .. Taken(asks).shares
  BY <1>1, <1>2, ScaledFits
<1>4. Taken(asks).shares \in 0 .. MaxShares /\ Taken(asks).worst \in 0 .. MaxEntry
  BY <1>2 DEF Takings
<1>5. Scaled(Taken(asks)) \in 0 .. MaxShares
  BY <1>3, <1>4, Bounds, BookWalkAssumption
<1>6. /\ order'.side = side /\ order'.shares = Scaled(Taken(asks))
      /\ order'.limit = Taken(asks).worst
      /\ order' \in [side : Sides, shares : Nat, limit : 0 .. MaxEntry]
  BY <1>1, <1>4, <1>5, Bounds
<1>7. order'.shares * MaxEntry <= MaxCost
  BY <1>5, <1>6, Bounds
<1>8. /\ pc = "signal" /\ pc' = "execute" /\ mode' = mode
      /\ UNCHANGED <<filled, cost, bought, paid, late>>
  BY DEF Decide, GoTo
<1>9. /\ bought = 0 /\ paid = 0 /\ cost = 0 /\ filled = 0 /\ late = 0
  BY <1>8 DEF BetInv, Betting
<1>10. order'.shares \in Nat /\ order'.limit \in Nat
  BY <1>6, MomentumBotAssumption
<1>11. 0 <= order'.shares /\ 0 <= 0 * order'.limit
  BY <1>10
<1>12. MaxCost' = MaxCost
  BY DEF MaxCost
<1> HIDE DEF MaxCost
<1> QED BY <1>6, <1>7, <1>8, <1>9, <1>11, <1>12 DEF BetInv, Betting

(* The chunk in front, and what is left after it. *)
LEMMA ChunkHead ==
  ASSUME BetInv, ChunkInv, pc = "execute", mode = "live"
  PROVE  /\ Head(chunks) \in MinShares .. order.shares - filled
         /\ Head(chunks) \in Nat \ {0}
         /\ \/ order.shares - filled - Head(chunks) = 0
            \/ order.shares - filled - Head(chunks) >= MinShares
         /\ Tail(chunks) = Chunks(order.shares - (filled + Head(chunks)), MaxOrder)
<1> DEFINE left == order.shares - filled
<1>1. /\ left \in Nat /\ left >= MinShares /\ chunks = Chunks(left, MaxOrder)
      /\ MaxOrder \in Nat /\ MaxOrder >= MinShares /\ MinShares \in Nat \ {0}
      /\ order.shares \in Nat /\ filled \in Nat
  BY MomentumBotAssumption, BookWalkAssumption DEF BetInv, ChunkInv
<1>2. PICK c \in MinShares .. MaxOrder + MinShares - 1 :
        /\ c <= left /\ (left - c = 0 \/ left - c >= MinShares)
        /\ chunks = <<c>> \o Chunks(left - c, MaxOrder)
  <2> HIDE DEF left
  <2> QED BY <1>1, FirstChunk
<1>3. c \in Nat \ {0} /\ left - c \in Nat /\ left - c = order.shares - (filled + c)
  BY <1>1, <1>2
<1> DEFINE rest == Chunks(left - c, MaxOrder)
<1>4. rest \in Seq(MinShares .. MaxOrder + MinShares - 1)
  <2> HIDE DEF left
  <2> QED BY <1>1, <1>2, <1>3, ChunksFit, Zenon
<1>5. Head(chunks) = c /\ Tail(chunks) = rest
  <2>1. chunks = <<c>> \o rest
    BY <1>2
  <2> HIDE DEF rest, left
  <2> QED BY <2>1, <1>4
<1>6. Tail(chunks) = Chunks(order.shares - (filled + Head(chunks)), MaxOrder)
  BY <1>3, <1>5, Zenon
<1> HIDE DEF rest
<1> QED BY <1>1, <1>2, <1>3, <1>5, <1>6

(* What is bought at no more than the limit costs no more than the limit. *)
LEMMA Buying ==
  ASSUME BetInv, NEW n \in Nat, NEW p \in Nat, Buys(n, p)
  PROVE  /\ bought' = bought + n /\ bought' \in Nat
         /\ paid' = paid + n * p /\ paid' \in Nat
         /\ n * p <= n * order.limit /\ n * order.limit \in Nat /\ n * p \in Nat
         /\ paid' <= bought' * order.limit
<1>1. /\ order.limit \in Nat /\ bought \in Nat /\ paid \in Nat
      /\ paid <= bought * order.limit
  BY MomentumBotAssumption DEF BetInv
<1>2. p <= order.limit /\ bought' = bought + n /\ paid' = paid + n * p
  BY DEF Buys
<1>3. n * p \in Nat /\ n * order.limit \in Nat /\ n * p <= n * order.limit
      /\ bought * order.limit \in Nat
  BY <1>1, <1>2, Product
<1>4. (bought + n) * order.limit = bought * order.limit + n * order.limit
  BY <1>1
<1> QED BY <1>1, <1>2, <1>3, <1>4

LEMMA BetFilled ==
  ASSUME BetInv, ChunkInv, NEW p \in 1 .. MaxEntry, ChunkFilled(p)
  PROVE  BetInv'
<1> DEFINE n == Head(chunks)
<1>1. /\ pc = "execute" /\ mode = "live" /\ pc' \in {"result", "execute"}
      /\ Buys(n, p) /\ filled' = filled + n /\ cost' = cost + n * order.limit
      /\ order' = order /\ late' = late /\ mode' = mode
  BY DEF ChunkFilled
<1>2. n \in Nat /\ n <= order.shares - filled
  BY <1>1, ChunkHead, BookWalkAssumption DEF BetInv
<1>3. p \in Nat
  BY MomentumBotAssumption
<1> HIDE DEF n
<1>4. /\ bought' = bought + n /\ bought' \in Nat
      /\ paid' = paid + n * p /\ paid' \in Nat
      /\ n * p <= n * order.limit /\ n * order.limit \in Nat /\ n * p \in Nat
      /\ paid' <= bought' * order.limit
  BY <1>1, <1>2, <1>3, Buying
<1>5. late = 0 /\ bought = filled + late /\ paid <= cost /\ order.shares \in Nat
      /\ filled \in Nat /\ cost \in Nat /\ paid \in Nat
  BY <1>1 DEF BetInv
<1>6. /\ filled' \in Nat /\ cost' \in Nat /\ late' = 0
      /\ bought' = filled' + late' /\ bought' <= order'.shares
      /\ paid' <= cost'
  BY <1>1, <1>2, <1>4, <1>5
<1>7. order'.shares * MaxEntry <= MaxCost'
      /\ order' \in [side : Sides, shares : Nat, limit : 0 .. MaxEntry]
  BY <1>1 DEF BetInv, MaxCost
<1>8. paid' <= bought' * order'.limit
  BY <1>1, <1>4
<1> HIDE DEF MaxCost
<1> QED BY <1>1, <1>4, <1>6, <1>7, <1>8 DEF BetInv, Betting

LEMMA BetThrows ==
  ASSUME BetInv, ChunkInv, NEW p \in 1 .. MaxEntry, ChunkThrows(p)
  PROVE  BetInv'
<1> DEFINE n == Head(chunks)
<1>1. /\ pc = "execute" /\ mode = "live" /\ pc' = "result"
      /\ (Buys(n, p) /\ late' = late + n) \/ UNCHANGED <<bought, paid, late>>
      /\ UNCHANGED <<order, filled, cost, mode>>
  BY DEF ChunkThrows, GoTo
<1>2. n \in Nat \ {0} /\ n <= order.shares - filled
  BY <1>1, ChunkHead, BookWalkAssumption DEF BetInv
<1>3. p \in Nat
  BY MomentumBotAssumption
<1> HIDE DEF n
<1>5. late = 0 /\ bought = filled + late /\ paid <= cost /\ order.shares \in Nat
      /\ filled \in Nat /\ cost \in Nat /\ paid \in Nat
  BY <1>1 DEF BetInv
<1>7. order'.shares * MaxEntry <= MaxCost'
      /\ order' \in [side : Sides, shares : Nat, limit : 0 .. MaxEntry]
  BY <1>1 DEF BetInv, MaxCost
<1> HIDE DEF MaxCost
<1>8. CASE Buys(n, p) /\ late' = late + n
  <2>1. /\ bought' = bought + n /\ bought' \in Nat /\ paid' \in Nat
        /\ paid' <= bought' * order.limit
    BY <1>2, <1>3, <1>8, Buying
  <2>2. /\ late' \in Nat \ {0}
        /\ bought' = filled' + late' /\ bought' <= order'.shares
        /\ paid' <= bought' * order'.limit
    BY <1>1, <1>2, <1>5, <1>8, <2>1
  <2> QED BY <1>1, <1>5, <1>7, <2>1, <2>2 DEF BetInv, Betting
<1>9. CASE UNCHANGED <<bought, paid, late>>
  BY <1>1, <1>7, <1>9 DEF BetInv, Betting
<1> QED BY <1>1, <1>8, <1>9

LEMMA BetPaper ==
  ASSUME BetInv, NEW book \in Books, PaperFill(book)
  PROVE  BetInv'
<1>1. /\ pc = "execute" /\ pc' = "result" /\ late' = late
      /\ UNCHANGED <<order, mode>>
  BY DEF PaperFill, GoTo
<1>2. late = 0 /\ order.shares \in Nat /\ order.limit \in Nat
  BY <1>1, MomentumBotAssumption DEF BetInv
<1>3. PICK asks \in AskLists(book) :
        LET taken == Liquidity(asks, order.limit, order.shares)
            fill == IF taken.shares >= MinShares THEN taken ELSE NothingTaken
        IN /\ filled' = fill.shares /\ bought' = fill.shares
           /\ cost' = fill.cost /\ paid' = fill.cost
  BY DEF PaperFill
<1>4. asks \in Seq(Level)
  BY AsksAreLevels, MomentumBotAssumption
<1>5. Liquidity(asks, order.limit, order.shares) \in Takings(order.limit, order.shares)
  BY <1>2, <1>4, LiquidityTakes
<1>6. NothingTaken \in Takings(order.limit, order.shares)
  <2>1. 0 <= 0 * order.limit
    BY <1>2
  <2> QED BY <1>2, <2>1 DEF NothingTaken, Takings
<1>7. PICK fill \in Takings(order.limit, order.shares) :
        /\ filled' = fill.shares /\ bought' = fill.shares
        /\ cost' = fill.cost /\ paid' = fill.cost
  <2> HIDE DEF Takings, NothingTaken
  <2> QED BY <1>3, <1>5, <1>6
<1>8. /\ fill.shares \in Nat /\ fill.shares <= order.shares /\ fill.cost \in Nat
      /\ fill.cost <= fill.shares * order.limit
  BY <1>2 DEF Takings
<1>9. order'.shares * MaxEntry <= MaxCost'
      /\ order' \in [side : Sides, shares : Nat, limit : 0 .. MaxEntry]
  BY <1>1 DEF BetInv, MaxCost
<1> HIDE DEF MaxCost
<1> QED BY <1>1, <1>2, <1>7, <1>8, <1>9 DEF BetInv, Betting

-----------------------------------------------------------------------------
LEMMA BetIsCapped == BetInv => BetCapHolds
<1> SUFFICES ASSUME BetInv PROVE paid <= MaxCost
  BY DEF BetCapHolds
<1>1. /\ paid \in Nat /\ bought \in Nat /\ order.shares \in Nat
      /\ order.limit \in Nat /\ order.limit <= MaxEntry /\ MaxEntry \in Nat
      /\ paid <= bought * order.limit /\ bought <= order.shares
      /\ order.shares * MaxEntry <= MaxCost /\ MaxCost \in Nat
  <2>1. MaxEntry \in Nat /\ MaxCost \in Nat
    BY Bounds, MomentumBotAssumption
  <2> HIDE DEF MaxCost
  <2> QED BY <2>1 DEF BetInv
<1> HIDE DEF MaxCost
<1>2. bought * order.limit \in Nat /\ bought * order.limit <= bought * MaxEntry
  BY <1>1, Product
<1>3. MaxEntry * bought \in Nat /\ MaxEntry * bought <= MaxEntry * order.shares
  BY <1>1, Product
<1>4. MaxEntry * bought = bought * MaxEntry
      /\ MaxEntry * order.shares = order.shares * MaxEntry
  BY <1>1
<1>5. MaxEntry * order.shares \in Nat
  BY <1>1, Product
<1> QED BY <1>1, <1>2, <1>3, <1>4, <1>5

(* ChunkInv: what is still to be sent is the split of what is not filled. *)
LEMMA ChunkFrame ==
  ASSUME ChunkInv, pc' = "execute" => pc = "execute" /\ UNCHANGED <<order, filled, chunks, mode>>
  PROVE  ChunkInv'
BY DEF ChunkInv

LEMMA ChunkDecide ==
  ASSUME BetInv, NEW side \in Sides, NEW book \in Books, Decide(side, book)
  PROVE  ChunkInv'
<1>1. PICK asks \in AskLists(book) :
        /\ order' = [side |-> side, shares |-> Scaled(Taken(asks)),
                     limit |-> Taken(asks).worst]
        /\ chunks' = Chunks(Scaled(Taken(asks)), MaxOrder)
        /\ Taken(asks).shares >= MinShares
  BY DEF Decide, WorthABet
<1>2. Taken(asks) \in Takings(MaxEntry, MaxShares)
  BY TakenTakes
<1>3. Scaled(Taken(asks)) \in MinShares .. Taken(asks).shares
  BY <1>1, <1>2, ScaledFits
<1>4. pc = "signal" /\ filled' = filled
  BY DEF Decide, GoTo
<1>5. filled' = 0
  BY <1>4 DEF BetInv, Betting
<1> DEFINE n == Scaled(Taken(asks))
<1>6. order'.shares = n /\ chunks' = Chunks(n, MaxOrder)
  BY <1>1
<1>7. n \in Int /\ n >= MinShares
  BY <1>3
<1> HIDE DEF n
<1>8. order'.shares - filled' = n
  BY <1>5, <1>6, <1>7
<1> QED BY <1>6, <1>7, <1>8, Zenon DEF ChunkInv

LEMMA ChunkFilledStep ==
  ASSUME BetInv, ChunkInv, NEW p \in 1 .. MaxEntry, ChunkFilled(p)
  PROVE  ChunkInv'
<1>1. /\ pc = "execute" /\ mode = "live" /\ mode' = mode
      /\ filled' = filled + Head(chunks) /\ chunks' = Tail(chunks)
      /\ pc' = IF Tail(chunks) = <<>> THEN "result" ELSE "execute"
      /\ order' = order
  BY DEF ChunkFilled
<1>2. /\ Tail(chunks) = Chunks(order.shares - (filled + Head(chunks)), MaxOrder)
      /\ \/ order.shares - filled - Head(chunks) = 0
         \/ order.shares - filled - Head(chunks) >= MinShares
      /\ Head(chunks) \in Nat
  BY <1>1, ChunkHead
<1>3. order.shares \in Nat /\ filled \in Nat
  BY DEF BetInv
<1> DEFINE left == order.shares - (filled + Head(chunks))
<1>4. left = order.shares - filled - Head(chunks)
  BY <1>2, <1>3
<1>5. CASE left = 0
  <2>1. Tail(chunks) = <<>>
    <3>1. MaxOrder \in Nat \ {0}
      BY MomentumBotAssumption, BookWalkAssumption
    <3> QED BY <1>2, <1>5, <3>1, ChunksOfNone, Zenon
  <2>2. pc' = "result"
    BY <1>1, <2>1
  <2> QED BY <2>2 DEF ChunkInv
<1>6. CASE left >= MinShares
  <2>1. chunks' = Chunks(left, MaxOrder) /\ order'.shares - filled' = left
    BY <1>1, <1>2, Zenon
  <2> HIDE DEF left
  <2> QED BY <2>1, <1>6, Zenon DEF ChunkInv
<1>7. left = 0 \/ left >= MinShares
  BY <1>2, <1>4, Zenon
<1> QED BY <1>5, <1>6, <1>7
-----------------------------------------------------------------------------
(* LossInv: the figures of the day are no better than the day. *)
LEMMA LossInit == MomentumInit => LossInv
<1> SUFFICES ASSUME MomentumInit PROVE LossInv
  OBVIOUS
<1>1. MaxCost \in Nat /\ MaxDailyLoss \in Nat \ {0}
  BY Bounds, MomentumBotAssumption
<1> HIDE DEF MaxCost
<1>2. stored = NoFigures /\ stats = NoFigures /\ earned = 0 /\ pc = "down"
  BY DEF MomentumInit
<1>3. NoFigures \in Figures /\ NoFigures.profit = 0
  BY DEF NoFigures, Figures
<1>4. Known.profit = 0
  BY <1>2, <1>3 DEF Known, Reset
<1> QED BY <1>1, <1>2, <1>3, <1>4 DEF LossInv, LossLimitHolds, Betting

Starting == {"down", "connect", "load"}

LEMMA ResetIsFigures ==
  ASSUME NEW figures \in Figures
  PROVE  /\ Reset(figures) \in Figures
         /\ Reset(figures).today
         /\ Reset(Reset(figures)) = Reset(figures)
<1>1. NoFigures \in Figures /\ NoFigures.today
  BY DEF Figures, NoFigures
<1>2. CASE figures.today
  BY <1>2, Zenon DEF Reset
<1>3. CASE ~ figures.today
  BY <1>1, <1>3, Zenon DEF Reset
<1> QED BY <1>2, <1>3

(* A step that earns nothing, and does not change what is known of the     *)
(* day.                                                                    *)
LEMMA LossFrame ==
  ASSUME LossInv, stored' \in Figures, stats' \in Figures, earned' = earned,
         remembered' => remembered /\ Known'.profit = Known.profit,
         pc' \in Betting \cup {"signal"} => pc \in Betting \cup {"signal"}
  PROVE  LossInv'
BY DEF LossInv, LossLimitHolds, MaxCost

LEMMA LossStays ==
  ASSUME LossInv, UNCHANGED <<stored, stats, earned>>, remembered' => remembered,
         pc' \in Starting <=> pc \in Starting,
         pc' \in Betting \cup {"signal"} => pc \in Betting \cup {"signal"}
  PROVE  LossInv'
<1>1. Known' = Known
  BY DEF Known, Starting
<1>2. stored' \in Figures /\ stats' \in Figures
  BY DEF LossInv
<1> QED BY <1>1, <1>2, LossFrame

(* Looking at the limits, which may find that a day has passed. *)
LEMMA LossReset ==
  ASSUME LossInv, DayReset, pc \notin Starting, pc' \notin Starting,
         stored' = stored, earned' = earned, remembered' = remembered,
         pc' \in Betting \cup {"signal"} => Reset(stats).profit > -MaxDailyLoss
  PROVE  LossInv'
<1>1. /\ stats \in Figures /\ stored \in Figures /\ earned \in Int
  BY DEF LossInv
<1>2. stats' = Reset(stats)
  BY DEF DayReset
<1>3. Reset(stats) \in Figures /\ Reset(stats') = Reset(stats)
  BY <1>1, <1>2, ResetIsFigures, Zenon
<1>4. Known = Reset(stats) /\ Known' = Reset(stats')
  BY DEF Known, Starting
<1>5. stored' \in Figures /\ stats' \in Figures
  BY <1>1, <1>2, <1>3
<1>6. MaxDailyLoss \in Nat /\ Reset(stats).profit \in Int
  BY <1>3, MomentumBotAssumption DEF Figures
<1>7. remembered => earned >= Reset(stats).profit
  BY <1>4 DEF LossInv
<1>8. remembered' => earned' >= Known'.profit
  BY <1>3, <1>4, <1>7
<1>9. LossLimitHolds'
  BY DEF LossInv, LossLimitHolds, MaxCost
<1>10. remembered' /\ pc' \in Betting \cup {"signal"} => earned' > -MaxDailyLoss
  BY <1>1, <1>6, <1>7
<1> QED BY <1>1, <1>5, <1>8, <1>9, <1>10 DEF LossInv

LEMMA LossLoad == LossInv /\ LoadStats => LossInv'
<1> SUFFICES ASSUME LossInv, LoadStats PROVE LossInv'
  OBVIOUS
<1>1. /\ pc = "load" /\ pc' = "begin" /\ stored' = stored /\ earned' = earned
      /\ \/ stats' = [profit |-> Reset(stored).profit,
                      losses |-> stored.losses, today |-> TRUE]
            /\ remembered' = remembered
         \/ remembered' = FALSE /\ stats' = stats
  BY DEF LoadStats, GoTo
<1>2. stored \in Figures /\ Reset(stored) \in Figures /\ stats \in Figures
  BY ResetIsFigures DEF LossInv
<1>3. stored' \in Figures /\ stats' \in Figures
  <2>1. Reset(stored).profit \in Int /\ stored.losses \in Nat
    BY <1>2 DEF Figures
  <2>2. [profit |-> Reset(stored).profit, losses |-> stored.losses,
         today |-> TRUE] \in Figures
    BY <2>1 DEF Figures
  <2> QED BY <1>1, <1>2, <2>2, Zenon
<1>4. remembered' => remembered /\ Known'.profit = Known.profit
  <2> SUFFICES ASSUME remembered' PROVE remembered /\ Known'.profit = Known.profit
    OBVIOUS
  <2>1. remembered /\ stats' = [profit |-> Reset(stored).profit,
                                losses |-> stored.losses, today |-> TRUE]
    BY <1>1
  <2>2. Known = Reset(stored) /\ Known' = Reset(stats')
    BY <1>1 DEF Known
  <2>3. stats'.today = TRUE /\ stats'.profit = Reset(stored).profit
    BY <2>1
  <2> QED BY <2>1, <2>2, <2>3 DEF Reset
<1>5. pc' \in Betting \cup {"signal"} => pc \in Betting \cup {"signal"}
  BY <1>1 DEF Betting
<1> QED BY <1>1, <1>3, <1>4, <1>5, LossFrame

LEMMA LossPersist ==
  ASSUME LossInv, NEW from \in {"record", "skip", "persist"},
         NEW to \in {"discover", "next"}, Persist(from, to)
  PROVE  LossInv'
<1>1. /\ pc = from /\ pc' = to /\ stats' = stats /\ earned' = earned
      /\ stored' = stats \/ stored' = stored
      /\ remembered' = remembered
  BY DEF Persist, GoTo, truthVars
<1>2. stored' \in Figures /\ stats' \in Figures
  BY <1>1 DEF LossInv
<1>3. Known' = Known
  BY <1>1 DEF Known
<1> QED BY <1>1, <1>2, <1>3, LossFrame DEF Betting

(* A bet is booked: what was paid for it is at most what is booked as its  *)
(* cost, and a win that is booked was one.                                 *)
LEMMA LossTrade ==
  ASSUME BetInv, LossInv, NEW lead \in Leads, NEW outcome \in Sides,
         RecordTrade(lead, outcome)
  PROVE  LossInv'
<1> DEFINE won == lead = order.side
           income == IF outcome = order.side THEN Payout * bought ELSE 0
           booked == IF won THEN Payout * filled ELSE 0
<1>1. /\ pc = "settle" /\ pc' = "persist" /\ stored' = stored
      /\ stats' = Booked(Reset(stats), won)
      /\ earned' = earned + income - paid
      /\ remembered' => remembered /\ late = 0 /\ (won => outcome = order.side)
  BY Zenon DEF RecordTrade, GoTo
<1>2. /\ stats \in Figures /\ Reset(stats) \in Figures /\ stored \in Figures
      /\ earned \in Int
  BY ResetIsFigures DEF LossInv
<1>3. Known = Reset(stats) /\ Known' = Reset(stats')
  BY <1>1 DEF Known
<1>4. /\ bought = filled + late /\ (late = 0 => paid <= cost)
      /\ bought \in Nat /\ filled \in Nat /\ paid \in Nat /\ cost \in Nat
      /\ late \in Nat
      /\ paid <= MaxCost
  <2>1. paid <= MaxCost
    <3> QED BY BetIsCapped DEF BetCapHolds
  <2> HIDE DEF MaxCost
  <2> QED BY <2>1 DEF BetInv
<1>5. Payout * bought \in Nat /\ Payout * filled \in Nat
  BY <1>4, Product, MomentumBotAssumption
<1>6. income \in Nat /\ booked \in Nat
  BY <1>5
<1>7. remembered' => income >= booked
  <2> SUFFICES ASSUME remembered' PROVE income >= booked
    OBVIOUS
  <2>1. bought = filled /\ (won => outcome = order.side)
    BY <1>1, <1>4
  <2> QED BY <2>1, <1>5
<1>8. /\ stats' \in Figures /\ stats'.today = TRUE
      /\ stats'.profit = Reset(stats).profit + booked - cost
  <2>1. stats' = [profit |-> Reset(stats).profit + booked - cost,
                  losses |-> IF won THEN 0 ELSE Reset(stats).losses + 1,
                  today |-> TRUE]
    BY <1>1 DEF Booked
  <2>2. Reset(stats).profit \in Int /\ Reset(stats).losses \in Nat
    BY <1>2 DEF Figures
  <2> HIDE DEF booked, won
  <2> QED BY <1>4, <1>6, <2>1, <2>2 DEF Figures
<1> HIDE DEF income, booked, won
<1>9. Reset(stats)' = stats' /\ Reset(stats).profit \in Int
  BY <1>2, <1>8 DEF Reset, Figures
<1>10. MaxCost \in Nat /\ MaxDailyLoss \in Nat /\ MaxCost' = MaxCost
  BY Bounds, MomentumBotAssumption DEF MaxCost
<1> HIDE DEF MaxCost
<1>11. remembered' => earned' >= Known'.profit
  <2> SUFFICES ASSUME remembered' PROVE earned' >= Known'.profit
    OBVIOUS
  <2>1. earned >= Reset(stats).profit /\ paid <= cost /\ income >= booked
    BY <1>1, <1>3, <1>4, <1>7 DEF LossInv
  <2>2. Known'.profit = Reset(stats).profit + booked - cost
    BY <1>3, <1>8, <1>9
  <2> QED BY <1>1, <1>2, <1>4, <1>6, <1>9, <2>1, <2>2
<1>12. remembered' => earned' > -(MaxDailyLoss + MaxCost)
  <2> SUFFICES ASSUME remembered' PROVE earned' > -(MaxDailyLoss + MaxCost)
    OBVIOUS
  <2>1. earned > -MaxDailyLoss
    BY <1>1 DEF LossInv, Betting
  <2> QED BY <1>1, <1>2, <1>4, <1>6, <1>10, <2>1
<1>13. earned' \in Int
  BY <1>1, <1>2, <1>4, <1>6
<1> QED BY <1>1, <1>2, <1>8, <1>10, <1>11, <1>12, <1>13
        DEF LossInv, LossLimitHolds, Betting

LEMMA LossCrash == LossInv /\ Crash => LossInv'
<1> SUFFICES ASSUME LossInv, Crash PROVE LossInv'
  OBVIOUS
<1>1. /\ pc' = "down" /\ stored' = stored /\ stats' = stats /\ earned' = earned
      /\ remembered' => remembered /\ Reset(stored).profit = Known.profit
  BY DEF Crash, bookVars
<1>2. Known' = Reset(stored)
  BY <1>1 DEF Known
<1>3. stored' \in Figures /\ stats' \in Figures
  BY <1>1 DEF LossInv
<1> QED BY <1>1, <1>2, <1>3, LossFrame DEF Betting

LEMMA LossNextWindow == LossInv /\ NextWindow => LossInv'
<1> SUFFICES ASSUME LossInv, NextWindow PROVE LossInv'
  OBVIOUS
<1>1. pc' = pc
  BY DEF NextWindow
<1>2. CASE UNCHANGED <<stored, stats, truthVars>>
  BY <1>1, <1>2, LossStays DEF truthVars
<1>3. CASE /\ stored' = [stored EXCEPT !.today = FALSE]
           /\ stats' = [stats EXCEPT !.today = FALSE]
           /\ earned' = 0 /\ remembered' = TRUE
  <2>1. stored \in Figures /\ stats \in Figures
    BY DEF LossInv
  <2>2. /\ stored' \in Figures /\ stats' \in Figures
        /\ ~ stored'.today /\ ~ stats'.today
    BY <1>3, <2>1 DEF Figures
  <2>3. Known' = NoFigures
    BY <2>2 DEF Known, Reset
  <2>4. MaxCost \in Nat /\ MaxDailyLoss \in Nat \ {0} /\ MaxCost' = MaxCost
    BY Bounds, MomentumBotAssumption DEF MaxCost
  <2> HIDE DEF MaxCost
  <2> QED BY <1>3, <2>2, <2>3, <2>4 DEF LossInv, LossLimitHolds, NoFigures
<1> QED BY <1>2, <1>3 DEF NextWindow

-----------------------------------------------------------------------------
(* The three together. *)
LEMMA IInvInit == MomentumInit => IInv
<1> SUFFICES ASSUME MomentumInit PROVE IInv
  OBVIOUS
<1>1. ChunkInv
  BY DEF MomentumInit, ChunkInv
<1> QED BY <1>1, BetInit, LossInit DEF IInv

(* A step that leaves the bet alone, and begins or ends none. *)
LEMMA BetStays ==
  ASSUME BetInv, ChunkInv, UNCHANGED <<orderVars, mode>>,
         pc' \notin Betting => pc \notin Betting,
         pc' = "execute" => pc = "execute"
  PROVE  BetInv' /\ ChunkInv'
BY BetFrame, ChunkFrame DEF orderVars

(* ... and the figures as well. *)
LEMMA IInvStays ==
  ASSUME IInv, UNCHANGED <<mode, stored, stats, orderVars, truthVars>>,
         pc' \in Starting <=> pc \in Starting,
         pc' \in Betting <=> pc \in Betting,
         pc' = "signal" => pc = "signal",
         pc' = "execute" => pc = "execute"
  PROVE  IInv'
<1>1. BetInv' /\ ChunkInv'
  BY BetStays DEF IInv
<1>2. LossInv'
  BY LossStays DEF IInv, truthVars
<1> QED BY <1>1, <1>2 DEF IInv

LEMMA IInvStep == IInv /\ [MomentumNext]_momentumVars => IInv'
<1> SUFFICES ASSUME IInv, [MomentumNext]_momentumVars
             PROVE  IInv'
  OBVIOUS
<1> USE DEF GoTo
<1>1. CASE Boot
  <2>1. /\ pc = "down" /\ pc' = "connect" /\ stored' = stored
        /\ stats' = NoFigures
        /\ UNCHANGED <<mode, orderVars, truthVars>>
    BY <1>1 DEF Boot
  <2>2. BetInv' /\ ChunkInv'
    BY <2>1, BetStays DEF IInv, Betting
  <2>3. Known' = Known /\ stored' \in Figures /\ stats' \in Figures
    BY <2>1 DEF IInv, LossInv, Known, Figures, NoFigures
  <2>4. LossInv'
    BY <2>1, <2>3, LossFrame DEF IInv, Betting, truthVars
  <2> QED BY <2>2, <2>4 DEF IInv
<1>2. CASE Connect
  BY <1>2, IInvStays DEF Connect, bookVars, Starting, Betting
<1>3. CASE LoadStats
  <2>1. BetInv' /\ ChunkInv'
    BY <1>3, BetStays DEF LoadStats, IInv, Betting
  <2> QED BY <1>3, <2>1, LossLoad DEF IInv
<1>4. CASE Begin
  BY <1>4, IInvStays DEF Begin, bookVars, Starting, Betting
<1>5. CASE RecordWindow
  <2>1. BetInv' /\ ChunkInv'
    BY <1>5, BetStays DEF RecordWindow, Persist, IInv, Betting
  <2> QED BY <1>5, <2>1, LossPersist DEF RecordWindow, IInv
<1>6. CASE NoMarket \/ Discover \/ DecisionPoint
  BY <1>6, IInvStays DEF NoMarket, Discover, DecisionPoint, bookVars, Starting,
     Betting
<1>7. CASE CheckGlobal \/ CheckMomentum
  BY <1>7, IInvStays DEF CheckGlobal, CheckMomentum, CheckSwitch, bookVars,
     Starting, Betting
<1>8. CASE Allowed
  <2>1. BetInv' /\ ChunkInv'
    BY <1>8, BetStays DEF Allowed, IInv, Betting
  <2>2. Reset(stats).profit > -MaxDailyLoss
    <3>1. Reset(stats) \in Figures
      BY ResetIsFigures DEF IInv, LossInv
    <3>2. Reset(stats).profit \in Int /\ MaxDailyLoss \in Nat
      BY <3>1, MomentumBotAssumption DEF Figures
    <3> QED BY <1>8, <3>2 DEF Allowed, LossReached
  <2>3. LossInv'
    BY <1>8, <2>2, LossReset DEF Allowed, IInv, Starting, truthVars
  <2> QED BY <2>1, <2>3 DEF IInv
<1>9. CASE Blocked
  <2>1. BetInv' /\ ChunkInv'
    BY <1>9, BetStays DEF Blocked, IInv, Betting
  <2>2. LossInv'
    BY <1>9, LossReset DEF Blocked, IInv, Starting, Betting, truthVars
  <2> QED BY <2>1, <2>2 DEF IInv
<1>10. CASE BlockFails
  <2>1. BetInv' /\ ChunkInv'
    BY <1>10, BetStays DEF BlockFails, IInv, Betting
  <2>2. LossInv'
    BY <1>10, LossReset DEF BlockFails, IInv, Starting, Betting, truthVars
  <2> QED BY <2>1, <2>2 DEF IInv
<1>11. CASE NoSignal
  BY <1>11, IInvStays DEF NoSignal, bookVars, Starting, Betting
<1>12. CASE \E side \in Sides, book \in Books : Decide(side, book)
  <2>1. PICK side \in Sides : \E book \in Books : Decide(side, book)
    BY <1>12
  <2>2. PICK book \in Books : Decide(side, book)
    BY <2>1
  <2>3. BetInv' /\ ChunkInv'
    BY <2>2, BetDecide, ChunkDecide DEF IInv
  <2>4. LossInv'
    BY <2>2, LossStays DEF Decide, IInv, bookVars, truthVars, Starting, Betting
  <2> QED BY <2>3, <2>4 DEF IInv
<1>13. CASE \E p \in 1 .. MaxEntry : ChunkFilled(p) \/ ChunkThrows(p)
  <2>1. PICK p \in 1 .. MaxEntry : ChunkFilled(p) \/ ChunkThrows(p)
    BY <1>13
  <2>2. CASE ChunkFilled(p)
    <3>1. BetInv' /\ ChunkInv'
      BY <2>2, BetFilled, ChunkFilledStep DEF IInv
    <3>2. LossInv'
      BY <2>2, LossStays DEF ChunkFilled, IInv, bookVars, truthVars, Starting,
         Betting
    <3> QED BY <3>1, <3>2 DEF IInv
  <2>3. CASE ChunkThrows(p)
    <3>1. BetInv'
      BY <2>3, BetThrows DEF IInv
    <3>2. ChunkInv'
      BY <2>3, ChunkFrame DEF ChunkThrows, IInv
    <3>3. LossInv'
      BY <2>3, LossStays DEF ChunkThrows, IInv, bookVars, truthVars, Starting,
         Betting
    <3> QED BY <3>1, <3>2, <3>3 DEF IInv
  <2> QED BY <2>1, <2>2, <2>3
<1>14. CASE ChunkKilled
  BY <1>14, IInvStays DEF ChunkKilled, bookVars, Starting, Betting
<1>15. CASE \E book \in Books : PaperFill(book)
  <2>1. PICK book \in Books : PaperFill(book)
    BY <1>15
  <2>2. BetInv'
    BY <2>1, BetPaper DEF IInv
  <2>3. ChunkInv'
    BY <2>1, ChunkFrame DEF PaperFill, IInv
  <2>4. LossInv'
    BY <2>1, LossStays DEF PaperFill, IInv, bookVars, truthVars, Starting,
       Betting
  <2> QED BY <2>2, <2>3, <2>4 DEF IInv
<1>16. CASE BetPlaced
  BY <1>16, IInvStays DEF BetPlaced, bookVars, Starting, Betting
<1>17. CASE BetMissed
  <2>1. /\ pc = "result" /\ pc' = "skip" /\ NoBet
        /\ stored' = stored /\ stats' = stats /\ earned' = earned
    BY <1>17 DEF BetMissed, bookVars
  <2>2. remembered' => remembered
    BY <1>17, Zenon DEF BetMissed
  <2>3. BetInv' /\ ChunkInv'
    BY <2>1, NoBetInv, ChunkFrame DEF IInv
  <2>4. LossInv'
    BY <2>1, <2>2, LossStays DEF IInv, Starting, Betting
  <2> QED BY <2>3, <2>4 DEF IInv
<1>18. CASE RecordSkip
  <2>1. BetInv' /\ ChunkInv'
    BY <1>18, BetStays DEF RecordSkip, Persist, IInv, Betting
  <2> QED BY <1>18, <2>1, LossPersist DEF RecordSkip, IInv
<1>19. CASE Close
  BY <1>19, IInvStays DEF Close, bookVars, Starting, Betting
<1>20. CASE \E lead \in Leads, outcome \in Sides : RecordTrade(lead, outcome)
  <2>1. PICK lead \in Leads : \E outcome \in Sides : RecordTrade(lead, outcome)
    BY <1>20
  <2>2. PICK outcome \in Sides : RecordTrade(lead, outcome)
    BY <2>1
  <2>3. NoBet /\ pc' = "persist"
    BY <2>2 DEF RecordTrade
  <2>4. BetInv' /\ ChunkInv'
    BY <2>3, NoBetInv, ChunkFrame DEF IInv
  <2> QED BY <2>2, <2>4, LossTrade DEF IInv
<1>21. CASE PersistTrade
  <2>1. BetInv' /\ ChunkInv'
    BY <1>21, BetStays DEF PersistTrade, Persist, IInv, Betting
  <2> QED BY <1>21, <2>1, LossPersist DEF PersistTrade, IInv
<1>22. CASE WaitForNextWindow \/ WakeUp
  BY <1>22, IInvStays DEF WaitForNextWindow, WakeUp, bookVars, Starting, Betting
<1>23. CASE Crash
  <2>1. NoBet /\ pc' = "down"
    BY <1>23 DEF Crash
  <2>2. BetInv' /\ ChunkInv'
    BY <2>1, NoBetInv, ChunkFrame DEF IInv
  <2> QED BY <1>23, <2>2, LossCrash DEF IInv
<1>24. CASE Tick
  BY <1>24, IInvStays DEF Tick
<1>25. CASE NextWindow
  <2>1. BetInv' /\ ChunkInv'
    BY <1>25, BetStays DEF NextWindow, IInv
  <2> QED BY <1>25, <2>1, LossNextWindow DEF IInv
<1>26. CASE \E key \in Switches : Toggle(key)
  BY <1>26, IInvStays DEF Toggle, bookVars
<1>27. CASE UNCHANGED momentumVars
  BY <1>27, IInvStays DEF momentumVars, bookVars
<1> QED
  BY <1>1, <1>2, <1>3, <1>4, <1>5, <1>6, <1>7, <1>8, <1>9, <1>10, <1>11,
     <1>12, <1>13, <1>14, <1>15, <1>16, <1>17, <1>18, <1>19, <1>20, <1>21,
     <1>22, <1>23, <1>24, <1>25, <1>26, <1>27 DEF MomentumNext

LEMMA IInvHolds == MomentumSpec => []IInv
BY IInvInit, IInvStep, PTL DEF MomentumSpec

LEMMA ChunksAreFit == IInv => ChunksFitOrder
<1> SUFFICES ASSUME IInv, pc = "execute", mode = "live"
             PROVE  /\ filled + Total(chunks) = order.shares
                    /\ \A i \in DOMAIN chunks :
                         chunks[i] \in MinShares .. MaxOrder + MinShares - 1
  BY DEF ChunksFitOrder
<1> DEFINE left == order.shares - filled
<1>1. order.shares \in Nat /\ filled \in Nat /\ left >= MinShares
      /\ chunks = Chunks(left, MaxOrder)
  BY DEF IInv, BetInv, ChunkInv
<1>2. left \in Nat /\ MaxOrder \in Nat /\ MaxOrder >= MinShares
  BY <1>1, BookWalkAssumption, MomentumBotAssumption
<1> HIDE DEF left
<1>3. chunks \in Seq(MinShares .. MaxOrder + MinShares - 1) /\ Total(chunks) = left
  BY <1>1, <1>2, ChunksFit, Zenon
<1>4. filled + left = order.shares
  BY <1>1 DEF left
<1>5. \A i \in DOMAIN chunks : chunks[i] \in MinShares .. MaxOrder + MinShares - 1
  BY <1>3, ItemOf
<1> QED BY <1>3, <1>4, <1>5

(* canTrade(): for any limit, books, prices and windows, the real loss of  *)
(* a day is less than the limit and one bet more, if every fill was told   *)
(* and every win booked was one, across midnights, crashes and restarts.   *)
THEOREM LimitHolds == MomentumSpec => []LossLimitHolds
<1>1. IInv => LossLimitHolds
  BY DEF IInv, LossInv
<1> QED BY <1>1, IInvHolds, PTL

(* evaluate(), executeSingle(): whatever the books are and however they    *)
(* move, a bet costs no more than maxBetUsdc at the highest entry price in *)
(* place of the lowest.                                                    *)
THEOREM BetsAreCapped == MomentumSpec => []BetCapHolds
<1>1. IInv => BetCapHolds
  BY BetIsCapped DEF IInv
<1> QED BY <1>1, IInvHolds, PTL

(* executeChunked(): for any order and any sizes, the chunks sent and to   *)
(* be sent are the whole order, each between the minimum and the size of a *)
(* chunk and the minimum together.                                         *)
THEOREM ChunksFitAlways == MomentumSpec => []ChunksFitOrder
BY ChunksAreFit, IInvHolds, PTL
=============================================================================
