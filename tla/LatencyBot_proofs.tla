-------------------------- MODULE LatencyBot_proofs --------------------------
(***************************************************************************)
(* Proofs about LatencyBot for any window, prices, position, limits, pause *)
(* and bounds.  Orders are followed chunk by chunk into the position of    *)
(* the window, and windows into the figures of the day and the session.    *)
(***************************************************************************)
EXTENDS LatencyBot, TLAPS

LEMMA TimesMonotone ==
  ASSUME NEW a \in Nat, NEW b \in Nat, NEW c \in Nat, b <= c
  PROVE  a * b \in Nat /\ a * c \in Nat /\ a * b <= a * c
OBVIOUS

(* Resetting gives figures of today; what is today's is left alone. *)
LEMMA ResetFigures ==
  ASSUME NEW figures \in Figures
  PROVE  /\ Reset(figures) \in Figures
         /\ Reset(figures).today
         /\ Reset(Reset(figures)) = Reset(figures)
         /\ Reset(figures).losses <= figures.losses
BY DEF Reset, Figures, NoFigures

LEMMA BookedFigures ==
  ASSUME NEW figures \in Figures, NEW profit \in Int
  PROVE  /\ Booked(figures, profit) \in Figures
         /\ Booked(figures, profit).today
         /\ Booked(figures, profit).profit = figures.profit + profit
         /\ profit >= 0 => Booked(figures, profit).losses = 0
BY DEF Booked, Figures

LEMMA MaxSpentNat == MaxSpent \in Nat /\ MaxPosition <= MaxSpent
<1>1. HighPrice \in Nat /\ 1 <= HighPrice /\ MaxPosition \in Nat
  BY LatencyBotAssumption
<1>2. MaxPosition * 1 <= MaxPosition * HighPrice
  BY <1>1, TimesMonotone
<1> QED BY <1>1, <1>2 DEF MaxSpent

(* What an order may cost at its limit, whatever is left of the position.  *)
LEMMA OrderFits ==
  ASSUME NEW s \in Nat, NEW n \in Nat, NEW ask \in Prices, NEW limit \in Prices,
         n * ask <= MaxPosition - s
  PROVE  s + limit * n <= MaxSpent
<1> USE LatencyBotAssumption DEF Prices
<1>1. n * 1 <= n * ask /\ n * limit <= n * HighPrice
  BY TimesMonotone
<1>2. s * 1 <= s * HighPrice
  BY TimesMonotone
<1>3. s + n <= MaxPosition
  BY <1>1
<1>4. HighPrice * (s + n) <= HighPrice * MaxPosition
  BY <1>3, TimesMonotone
<1>5. HighPrice * (s + n) = s * HighPrice + n * HighPrice
  OBVIOUS
<1>6. limit * n = n * limit
  OBVIOUS
<1>7. /\ s * HighPrice \in Nat /\ n * HighPrice \in Nat /\ n * limit \in Nat
      /\ HighPrice * MaxPosition \in Nat
  OBVIOUS
<1> QED BY <1>1, <1>2, <1>4, <1>5, <1>6, <1>7 DEF MaxSpent

(* What has been filled of an order costs no more than all of it. *)
LEMMA FilledFits ==
  ASSUME NEW limit \in Nat, NEW f \in Nat, NEW n \in Nat, f <= n
  PROVE  /\ limit * f \in Nat /\ limit * n \in Nat /\ limit * f <= limit * n
BY TimesMonotone

LEMMA OneMore ==
  ASSUME NEW limit \in Nat, NEW f \in Nat
  PROVE  limit * (f + 1) = limit * f + limit
OBVIOUS

LEMMA InitLatencyBotInv ==
  ASSUME LatencyBotInit
  PROVE  LatencyBotInv
<1> USE LatencyBotAssumption DEF LatencyBotInit
<1>1. TypeInv
  <2>1. NoFigures \in Figures /\ NoOrder \in Orders
    BY DEF NoFigures, Figures, NoOrder, Orders, Outcomes
  <2>2. NoShares \in [Outcomes -> Nat]
    BY DEF NoShares
  <2>3. due \in BOOLEAN /\ passed \in BOOLEAN /\ remembered \in BOOLEAN
    BY Zenon
  <2>4. diverged \in BOOLEAN
    BY Zenon
  <2> QED BY <2>1, <2>2, <2>3, <2>4 DEF TypeInv
<1>2. OrderInv
  <2>1. \A o \in Outcomes : NoShares[o] = 0
    BY DEF NoShares
  <2> QED BY <2>1, MaxSpentNat DEF OrderInv, Outcomes
<1>3. WindowInv
  <2>1. \A o \in Outcomes : NoShares[o] = 0
    BY DEF NoShares
  <2>2. order.limit = 0 /\ HighPrice * late = 0
    BY DEF NoOrder
  <2>3. MaxSpent * restarts = 0
    BY MaxSpentNat
  <2> HIDE DEF LatencyBotInit
  <2>4. /\ spent = NoShares /\ held = NoShares /\ bought = NoShares
        /\ before = NoShares /\ volume = 0 /\ paid = 0 /\ filled = 0
        /\ pc = "down"
    BY DEF LatencyBotInit
  <2> QED BY <2>1, <2>2, <2>3, <2>4 DEF WindowInv, Outcomes
<1>4. LimitInv
  BY MaxSpentNat DEF LimitInv, Trading, Known, Reset, NoFigures
<1> QED BY <1>1, <1>2, <1>3, <1>4 DEF LatencyBotInv

-----------------------------------------------------------------------------
(* Every step keeps the types. *)

LEMMA DayResetTypes ==
  ASSUME TypeInv, DayReset
  PROVE  stats' \in Figures /\ pause' \in Nat
BY ResetFigures DEF TypeInv, DayReset, ResetPause

LEMMA ForgottenTypes ==
  ASSUME Forgotten
  PROVE  /\ spent' \in [Outcomes -> Nat] /\ held' \in [Outcomes -> Nat]
         /\ volume' \in Nat
BY DEF Forgotten, NoShares

LEMMA PositionOverTypes ==
  ASSUME PositionOver
  PROVE  /\ bought' \in [Outcomes -> Nat] /\ before' \in [Outcomes -> Nat]
         /\ paid' \in Nat /\ late' \in Nat /\ restarts' \in Nat
BY DEF PositionOver, NoShares

(* What a bot that turns to the current window leaves alone or clears. *)
LEMMA TurnTypes ==
  ASSUME TypeInv, TurnToWindow
  PROVE  /\ bought' \in [Outcomes -> Nat] /\ before' \in [Outcomes -> Nat]
         /\ paid' \in Nat /\ late' \in Nat /\ restarts' \in Nat
         /\ passed' \in BOOLEAN /\ remembered' \in BOOLEAN
         /\ UNCHANGED <<spent, held, volume, sec, earned>>
<1>1. passed' \in BOOLEAN /\ UNCHANGED <<spent, held, volume, sec, earned>>
  BY DEF TurnToWindow
<1>2. CASE passed
  <2>1. remembered' \in BOOLEAN
    BY <1>2, Zenon DEF TurnToWindow
  <2> QED BY <1>1, <1>2, <2>1, PositionOverTypes DEF TurnToWindow
<1>3. CASE ~passed
  BY <1>1, <1>3 DEF TurnToWindow, TypeInv, positionVars
<1> QED BY <1>2, <1>3

(* The result of a window is booked, whatever it is. *)
LEMMA RecordResultTypes ==
  ASSUME TypeInv, NEW outcome \in Outcomes, NEW profit \in Int,
         RecordResult(outcome, profit)
  PROVE  TypeInv'
<1> USE LatencyBotAssumption
<1>1. stats' \in Figures /\ session' \in Int /\ pause' \in Nat /\ sinceLoss' \in Nat
  <2>1. CASE volume = 0
    BY <2>1, DayResetTypes DEF RecordResult, TypeInv
  <2>2. CASE volume # 0
    <3>1. /\ stats' = Booked(Reset(stats), profit)
          /\ session' = session + profit
          /\ pause' = PauseTicks \/ pause' = ResetPause
          /\ sinceLoss' = 0 \/ sinceLoss' = sinceLoss
      BY <2>2 DEF RecordResult
    <3>2. stats' \in Figures
      BY <3>1, ResetFigures, BookedFigures DEF TypeInv
    <3> QED BY <3>1, <3>2 DEF TypeInv, ResetPause
  <2> QED BY <2>1, <2>2
<1>2. earned' \in Int
  BY DEF RecordResult, TypeInv
<1>3. remembered' \in BOOLEAN
  BY Zenon DEF RecordResult, TypeInv
<1>4. Forgotten /\ PositionOver
      /\ UNCHANGED <<enabled, stored, since, diverged, due, order, filled, view,
                  sec, passed, failures>> /\ pc' = "persist"
  BY DEF RecordResult, GoTo, haltVars, orderVars, timeVars
<1> QED BY <1>1, <1>2, <1>3, <1>4, ForgottenTypes, PositionOverTypes DEF TypeInv

LEMMA StepTypeInv ==
  ASSUME TypeInv, [LatencyBotNext]_botVars
  PROVE  TypeInv'
<1> USE LatencyBotAssumption DEF TypeInv, GoTo, Fails, bookVars, truthVars,
        haltVars, orderVars, windowVars, positionVars, timeVars
<1>f. /\ NoFigures \in Figures
      /\ Reset(stored) \in Figures /\ Reset(stats) \in Figures
      /\ NoOrder \in Orders
  BY ResetFigures DEF NoFigures, Figures, NoOrder, Orders, Outcomes
<1>1. ASSUME Boot
      PROVE  TypeInv'
  <2>1. diverged' \in BOOLEAN
    BY <1>1, Zenon DEF Boot
  <2> QED BY <1>1, <1>f, <2>1 DEF Boot
<1>2. ASSUME Connect \/ SkipWindow \/ LoopEnds \/ NoCheck
      PROVE  TypeInv'
  BY <1>2 DEF Connect, SkipWindow, LoopEnds, NoCheck, InLoop
<1>3. ASSUME LoadStats
      PROVE  TypeInv'
  <2>1. remembered' \in BOOLEAN
    BY <1>3, Zenon DEF LoadStats
  <2>2. stats' \in Figures
    <3>1. Reset(stored).profit \in Int /\ stored.losses \in Nat
      BY <1>f DEF Figures
    <3>2. [profit |-> Reset(stored).profit, losses |-> stored.losses,
           today |-> TRUE] \in Figures
      BY <3>1 DEF Figures
    <3> QED BY <1>3, <3>2 DEF LoadStats
  <2> QED BY <1>3, <2>1, <2>2 DEF LoadStats
<1>4. ASSUME Begin \/ WaitForNextWindow
      PROVE  TypeInv'
  <2>1. TurnToWindow
    BY <1>4 DEF Begin, WaitForNextWindow
  <2> QED BY <1>4, <2>1, TurnTypes DEF Begin, WaitForNextWindow
<1>5. ASSUME StartWindow
      PROVE  TypeInv'
  <2>1. due' \in BOOLEAN
    BY <1>5, Zenon DEF StartWindow
  <2> QED BY <1>5, <2>1, ForgottenTypes DEF StartWindow
<1>6. ASSUME CheckDivergence
      PROVE  TypeInv'
  <2>1. due' \in BOOLEAN
    BY <1>6, Zenon DEF CheckDivergence
  <2>2. since' \in Int /\ since' >= -1
    BY <1>6 DEF CheckDivergence
  <2>3. diverged' \in BOOLEAN
    <3>1. (diverged \/ since' >= DivergenceTicks) \in BOOLEAN
      BY Zenon
    <3>2. CASE view = "near"
      BY <1>6, <3>2, Zenon DEF CheckDivergence
    <3>3. CASE view = "apart"
      <4>1. diverged' = (diverged \/ since' >= DivergenceTicks)
        BY <1>6, <3>3 DEF CheckDivergence
      <4> QED BY <3>1, <4>1, Zenon
    <3>4. CASE view = "stale"
      BY <1>6, <3>4 DEF CheckDivergence
    <3> QED BY <3>2, <3>3, <3>4
  <2> QED BY <1>6, <2>1, <2>2, <2>3 DEF CheckDivergence, InLoop
<1>7. ASSUME CheckGlobal \/ CheckLatency
      PROVE  TypeInv'
  BY <1>7 DEF CheckGlobal, CheckLatency, CheckSwitch
<1>8. ASSUME Allowed \/ BlockFails
      PROVE  TypeInv'
  BY <1>8, DayResetTypes DEF Allowed, BlockFails
<1>9. ASSUME Blocked
      PROVE  TypeInv'
  <2>1. enabled' \in [Switches -> BOOLEAN]
    BY <1>9, Zenon DEF Blocked
  <2> QED BY <1>9, <2>1, DayResetTypes DEF Blocked
<1>10. ASSUME Evaluate \/ NoDecision \/ OrderKilled \/ Close \/ WakeUp
       PROVE  TypeInv'
  BY <1>10 DEF Evaluate, NoDecision, OrderKilled, Close, WakeUp
<1>11. ASSUME NEW o \in Outcomes, NEW n \in 1 .. MaxPosition,
              NEW ask \in Prices, NEW limit \in Prices,
              NEW cost \in n * ask .. n * limit, Decide(o, n, ask, limit, cost)
       PROVE  TypeInv'
  <2>0. n * ask \in Nat /\ n * limit \in Nat
    BY TimesMonotone DEF Prices
  <2>1. limit \in Nat /\ cost \in Nat /\ n \in Nat
    BY <2>0 DEF Prices
  <2>2. order' \in Orders
    BY <1>11, <2>1 DEF Decide, Orders
  <2> QED BY <1>11, <2>2 DEF Decide
<1>12. ASSUME NEW p \in Prices, OrderFilled(p)
       PROVE  TypeInv'
  <2>1. order.side \in Outcomes
    BY DEF Orders
  <2> QED BY <1>12, <2>1 DEF OrderFilled, Buys, Prices
<1>13. ASSUME NEW p \in Prices, OrderThrows(p)
       PROVE  TypeInv'
  <2>1. order.side \in Outcomes
    BY DEF Orders
  <2> QED BY <1>13, <2>1 DEF OrderThrows, Buys, Prices
<1>14. ASSUME RecordFill
       PROVE  TypeInv'
  <2>1. order.side \in Outcomes /\ order.limit \in Nat /\ order.cost \in Nat
    BY DEF Orders
  <2>2. order.limit * filled \in Nat
    BY <2>1, TimesMonotone
  <2>3. (IF filled > 0 THEN order.limit * filled ELSE order.cost) \in Nat
    BY <2>1, <2>2
  <2> HIDE DEF Prices
  <2>4. spent' \in [Outcomes -> Nat] /\ held' \in [Outcomes -> Nat] /\ volume' \in Nat
    <3>1. spent' \in [Outcomes -> Nat]
      <4> DEFINE cost == IF filled > 0 THEN order.limit * filled ELSE order.cost
      <4>1. spent' = [spent EXCEPT ![order.side] = spent[order.side] + cost]
        BY <1>14 DEF RecordFill
      <4>2. cost \in Nat
        BY <2>3
      <4> HIDE DEF cost
      <4> QED BY <2>1, <4>1, <4>2
    <3>2. held' \in [Outcomes -> Nat]
      BY <1>14, <2>1 DEF RecordFill
    <3>3. volume' \in Nat
      BY <1>14, <2>2 DEF RecordFill
    <3> QED BY <3>1, <3>2, <3>3
  <2>5. /\ order' = NoOrder /\ filled' = 0 /\ pc' = "loop"
        /\ UNCHANGED <<enabled, stored, bookVars, haltVars, due, positionVars,
                       view, timeVars, truthVars, failures>>
    BY <1>14 DEF RecordFill, OrderOver
  <2> QED BY <1>f, <2>4, <2>5
<1>15. ASSUME NEW outcome \in Outcomes, Resolved(outcome)
       PROVE  TypeInv'
  <2>1. Payout * held[outcome] - volume \in Int
    OBVIOUS
  <2>2. RecordResult(outcome, Payout * held[outcome] - volume)
    BY <1>15 DEF Resolved
  <2> QED BY <2>1, <2>2, RecordResultTypes
<1>16. ASSUME NEW outcome \in Outcomes, Unresolved(outcome)
       PROVE  TypeInv'
  <2>1. -volume \in Int
    OBVIOUS
  <2>2. RecordResult(outcome, -volume)
    BY <1>16 DEF Unresolved
  <2> QED BY <2>1, <2>2, RecordResultTypes
<1>17. ASSUME Persist
       PROVE  TypeInv'
  BY <1>17 DEF Persist
<1>18. ASSUME Crash
       PROVE  TypeInv'
  <2>1. remembered' \in BOOLEAN
    BY <1>18, Zenon DEF Crash
  <2>2. restarts' \in Nat
    BY <1>18 DEF Crash
  <2> QED BY <1>18, <1>f, <2>1, <2>2, ForgottenTypes DEF Crash, OrderOver
<1>19. ASSUME SecondPasses
       PROVE  TypeInv'
  <2>1. due' \in BOOLEAN
    BY <1>19, Zenon DEF SecondPasses
  <2> QED BY <1>19, <2>1 DEF SecondPasses
<1>t. ASSUME TimePasses
      PROVE  /\ due' \in BOOLEAN /\ pause' \in Nat /\ sinceLoss' \in Nat
             /\ since' \in Int /\ since' >= -1
  <2>1. due' \in BOOLEAN
    BY <1>t, Zenon DEF TimePasses
  <2> QED BY <1>t, <2>1 DEF TimePasses, Later
<1>20. ASSUME Tick
       PROVE  TypeInv'
  BY <1>20, <1>t DEF Tick
<1>21. ASSUME NextWindow
       PROVE  TypeInv'
  <2>1. passed' \in BOOLEAN /\ remembered' \in BOOLEAN
    BY <1>21, Zenon DEF NextWindow
  <2>2. stored' \in Figures /\ stats' \in Figures
    <3>1. CASE UNCHANGED <<stored, stats>>
      BY <3>1
    <3>2. CASE /\ stored' = [stored EXCEPT !.today = FALSE]
               /\ stats' = [stats EXCEPT !.today = FALSE]
      BY <3>2, Zenon DEF Figures
    <3> QED BY <1>21, <3>1, <3>2 DEF NextWindow
  <2>3. earned' \in Int
    BY <1>21 DEF NextWindow
  <2> QED BY <1>21, <1>t, <2>1, <2>2, <2>3 DEF NextWindow
<1>22. ASSUME NEW v \in Views, PricesMove(v)
       PROVE  TypeInv'
  BY <1>22 DEF PricesMove
<1>23. ASSUME NEW key \in Toggled, Toggle(key)
       PROVE  TypeInv'
  <2>1. enabled' \in [Switches -> BOOLEAN]
    BY <1>23, Zenon DEF Toggle
  <2> QED BY <1>23, <2>1 DEF Toggle
<1>24. CASE UNCHANGED botVars
  BY <1>24 DEF botVars
<1> QED BY <1>1, <1>2, <1>3, <1>4, <1>5, <1>6, <1>7, <1>8, <1>9, <1>10, <1>11,
           <1>12, <1>13, <1>14, <1>15, <1>16, <1>17, <1>18, <1>19, <1>20,
           <1>21, <1>22, <1>23, <1>24
        DEF LatencyBotNext, Bot

-----------------------------------------------------------------------------
(* Only one side is spent on, and within the position and the order's rest. *)

Ordering == {"execute", "filled"}

LEMMA QuietOrderInv ==
  ASSUME OrderInv, UNCHANGED <<order, filled, spent>>,
         pc' = pc \/ (pc \notin Ordering /\ pc' \notin Ordering)
  PROVE  OrderInv'
BY DEF OrderInv, Ordering, Sides

LEMMA NewWindowOrderInv ==
  ASSUME OrderInv, Forgotten, pc' \notin Ordering,
         OrderOver \/ (pc \notin Ordering /\ UNCHANGED <<order, filled>>)
  PROVE  OrderInv'
<1>1. \A o \in Outcomes : spent'[o] = 0
  BY DEF Forgotten, NoShares
<1>2. order' = NoOrder /\ filled' = 0
  BY DEF OrderInv, OrderOver, Ordering
<1> QED BY <1>1, <1>2, MaxSpentNat DEF OrderInv, Outcomes, Ordering

LEMMA StepOrderInv ==
  ASSUME TypeInv, OrderInv, [LatencyBotNext]_botVars
  PROVE  OrderInv'
<1> USE DEF GoTo, bookVars, truthVars, haltVars, orderVars, windowVars,
            positionVars, timeVars
<1>1. ASSUME Boot \/ Connect \/ LoadStats \/ Begin \/ SkipWindow
      PROVE  OrderInv'
  BY <1>1, QuietOrderInv
  DEF Boot, Connect, LoadStats, Begin, TurnToWindow, SkipWindow, Ordering
<1>2. ASSUME StartWindow
      PROVE  OrderInv'
  BY <1>2, NewWindowOrderInv DEF StartWindow, Ordering
<1>3. ASSUME LoopEnds \/ CheckDivergence \/ NoCheck \/ Evaluate \/ NoDecision
      PROVE  OrderInv'
  BY <1>3, QuietOrderInv
  DEF LoopEnds, CheckDivergence, NoCheck, Evaluate, NoDecision, InLoop, Ordering
<1>4. ASSUME CheckGlobal \/ CheckLatency \/ Allowed \/ Blocked \/ BlockFails
      PROVE  OrderInv'
  BY <1>4, QuietOrderInv
  DEF CheckGlobal, CheckLatency, CheckSwitch, Allowed, Blocked, BlockFails,
      Ordering
<1>5. ASSUME NEW o \in Outcomes, NEW n \in 1 .. MaxPosition,
             NEW ask \in Prices, NEW limit \in Prices,
             NEW cost \in n * ask .. n * limit, Decide(o, n, ask, limit, cost)
      PROVE  OrderInv'
  <2>1. /\ n \in Nat /\ n > 0 /\ ask \in Nat /\ ask > 0 /\ limit \in Nat
    BY LatencyBotAssumption DEF Prices
  <2>2. n * 1 <= n * ask /\ n * ask \in Nat /\ n * limit \in Nat
    BY <2>1, TimesMonotone
  <2>3. cost \in Nat /\ cost > 0 /\ cost <= n * limit
    BY <2>1, <2>2
  <2>4. limit * n = n * limit
    BY <2>1
  <2>5. spent[o] + limit * n <= MaxSpent
    BY <1>5, <2>1, OrderFits DEF Decide, Left, TypeInv
  <2>6. /\ order' = [side |-> o, shares |-> n, limit |-> limit, cost |-> cost]
        /\ filled' = 0 /\ spent' = spent /\ pc' = "execute"
        /\ o \in Sides
    BY <1>5 DEF Decide
  <2>7. /\ order'.side = o /\ order'.shares = n /\ order'.limit = limit
        /\ order'.cost = cost
    BY <2>6
  <2>8. Sides' = Sides
    BY <2>6 DEF Sides
  <2> HIDE DEF Prices
  <2> QED BY <2>1, <2>3, <2>4, <2>5, <2>6, <2>7, <2>8 DEF OrderInv
<1>6. ASSUME NEW p \in Prices, OrderFilled(p)
      PROVE  OrderInv'
  <2>1. UNCHANGED <<order, spent>> /\ filled' = filled + 1 /\ pc = "execute"
        /\ pc' = IF filled + 1 = order.shares THEN "filled" ELSE "execute"
    BY <1>6 DEF OrderFilled
  <2>2. Sides' = Sides /\ order.shares \in Nat /\ filled \in Nat
    BY <2>1 DEF Sides, TypeInv, Orders
  <2> QED BY <2>1, <2>2 DEF OrderInv
<1>7. ASSUME OrderKilled
      PROVE  OrderInv'
  BY <1>7 DEF OrderKilled, OrderInv, Sides
<1>8. ASSUME NEW p \in Prices, OrderThrows(p)
      PROVE  OrderInv'
  BY <1>8 DEF OrderThrows, OrderInv, Sides
<1>9. ASSUME RecordFill
      PROVE  OrderInv'
  <2> DEFINE s == order.side
             cost == IF filled > 0 THEN order.limit * filled ELSE order.cost
  <2>1. /\ s \in Outcomes /\ order.limit \in Nat /\ order.cost \in Nat
        /\ order.shares \in Nat /\ filled \in Nat
        /\ spent \in [Outcomes -> Nat]
    BY DEF TypeInv, Orders
  <2>2. pc = "filled" /\ pc' = "loop" /\ order' = NoOrder /\ filled' = 0
    BY <1>9 DEF RecordFill, OrderOver
  <2>3. /\ filled <= order.shares
        /\ order.cost <= order.limit * order.shares
        /\ spent[s] + order.limit * order.shares <= MaxSpent
        /\ s \in Sides
    BY <2>2 DEF OrderInv
  <2>4. cost \in Nat /\ spent[s] + cost <= MaxSpent
    BY <2>1, <2>3, FilledFits, MaxSpentNat
  <2>5. spent' = [spent EXCEPT ![s] = spent[s] + cost]
    BY <1>9 DEF RecordFill
  <2> HIDE DEF cost, s
  <2>6. \A o \in Outcomes : spent'[o] = IF o = s THEN spent[s] + cost ELSE spent[o]
    BY <2>1, <2>5
  <2>7. \A o \in Outcomes : spent'[o] <= MaxSpent
    BY <2>4, <2>6 DEF OrderInv
  <2>8. spent'["UP"] = 0 \/ spent'["DOWN"] = 0
    BY <2>1, <2>3, <2>6 DEF OrderInv, Sides, Outcomes
  <2> QED BY <2>2, <2>7, <2>8 DEF OrderInv
<1>10. ASSUME Close
       PROVE  OrderInv'
  BY <1>10, QuietOrderInv DEF Close, Ordering
<1>11. ASSUME NEW outcome \in Outcomes, NEW profit, RecordResult(outcome, profit)
       PROVE  OrderInv'
  BY <1>11, NewWindowOrderInv DEF RecordResult, Ordering
<1>12. ASSUME Persist \/ WaitForNextWindow \/ WakeUp
       PROVE  OrderInv'
  BY <1>12, QuietOrderInv
  DEF Persist, WaitForNextWindow, TurnToWindow, WakeUp, Ordering
<1>13. ASSUME Crash
       PROVE  OrderInv'
  BY <1>13, NewWindowOrderInv DEF Crash, Ordering
<1>14. ASSUME SecondPasses \/ Tick \/ NextWindow
       PROVE  OrderInv'
  BY <1>14, QuietOrderInv DEF SecondPasses, Tick, NextWindow
<1>15. ASSUME NEW v \in Views, PricesMove(v)
       PROVE  OrderInv'
  BY <1>15, QuietOrderInv DEF PricesMove
<1>16. ASSUME NEW key \in Toggled, Toggle(key)
       PROVE  OrderInv'
  BY <1>16, QuietOrderInv DEF Toggle
<1>17. CASE UNCHANGED botVars
  BY <1>17, QuietOrderInv DEF botVars
<1> QED BY <1>1, <1>2, <1>3, <1>4, <1>5, <1>6, <1>7, <1>8, <1>9, <1>10, <1>11,
           <1>12, <1>13, <1>14, <1>15, <1>16, <1>17
        DEF LatencyBotNext, Bot, Resolved, Unresolved

-----------------------------------------------------------------------------
(* What was bought is held, in the order's hands, or was never told. *)

Idle == {"down", "feeds", "load", "begin", "discover", "persist", "next",
         "asleep"}

LEMMA QuietWindowInv ==
  ASSUME WindowInv,
         UNCHANGED <<order, filled, windowVars>>,
         \/ pc' = pc
         \/ pc \notin Ordering /\ (pc' \in Idle => pc \in Idle)
         \/ pc \in Ordering /\ pc' \in Ordering
  PROVE  WindowInv'
<1>1. pc' \in Idle => pc \in Idle
  BY DEF Idle, Ordering
<1>2. pc \in Ordering => pc' \in Ordering
  OBVIOUS
<1> QED BY <1>1, <1>2 DEF WindowInv, Idle, Ordering, windowVars, positionVars

LEMMA NewWindowWindowInv ==
  ASSUME Forgotten, PositionOver, order' = NoOrder, filled' = 0
  PROVE  WindowInv'
<1>1. \A o \in Outcomes :
        spent'[o] = 0 /\ held'[o] = 0 /\ bought'[o] = 0 /\ before'[o] = 0
  BY DEF Forgotten, PositionOver, NoShares
<1>2. /\ volume' = 0 /\ paid' = 0 /\ late' = 0 /\ restarts' = 0
      /\ before' = NoShares /\ bought' = before'
  BY DEF Forgotten, PositionOver
<1>3. order'.limit * filled' = 0 /\ HighPrice * late' = 0 /\ MaxSpent * restarts' = 0
  BY <1>2, LatencyBotAssumption, MaxSpentNat DEF NoOrder
<1> QED BY <1>1, <1>2, <1>3 DEF WindowInv, Forgotten, Outcomes

(* A window on which nothing was spent is as the process found it. *)
LEMMA NothingSpent ==
  ASSUME TypeInv, OrderInv, WindowInv, spent = NoShares, pc \notin Ordering
  PROVE  /\ held = NoShares /\ volume = 0 /\ bought = before
<1>1. \A o \in Outcomes : spent[o] = 0
  BY DEF NoShares
<1>2. \A o \in Outcomes : held[o] = 0 /\ bought[o] = before[o]
  BY <1>1 DEF WindowInv, TypeInv, Ordering
<1>3. held = NoShares /\ bought = before
  BY <1>2 DEF NoShares, TypeInv
<1>4. volume = 0
  BY <1>1 DEF WindowInv, TypeInv, Outcomes
<1> QED BY <1>3, <1>4

(* A bot that turns to the current window holds nothing in it.             *)
LEMMA TurnWindowInv ==
  ASSUME TypeInv, WindowInv, TurnToWindow, UNCHANGED <<order, filled>>,
         order = NoOrder, filled = 0, pc \in Idle, pc' \in Idle
  PROVE  WindowInv'
<1>1. CASE passed
  <2>1. Forgotten
    BY DEF TurnToWindow, Forgotten, WindowInv, Idle
  <2> QED BY <1>1, <2>1, NewWindowWindowInv DEF TurnToWindow
<1>2. CASE ~passed
  <2>1. UNCHANGED <<order, filled, windowVars>>
    BY <1>2 DEF TurnToWindow, windowVars, positionVars
  <2> QED BY <2>1, QuietWindowInv DEF Idle, Ordering
<1> QED BY <1>1, <1>2

(* What is spent in a window is within the position, whatever the side. *)
LEMMA VolumeFits ==
  ASSUME TypeInv, OrderInv, WindowInv
  PROVE  /\ volume <= MaxSpent
         /\ volume # 0 => spent # NoShares
<1>1. spent["UP"] \in Nat /\ spent["DOWN"] \in Nat /\ volume \in Nat
  BY DEF TypeInv, Outcomes
<1>2. spent["UP"] + spent["DOWN"] <= MaxSpent
  BY <1>1 DEF OrderInv, Outcomes
<1>3. spent = NoShares => spent["UP"] = 0 /\ spent["DOWN"] = 0
  BY DEF NoShares, Outcomes
<1> QED BY <1>1, <1>2, <1>3, MaxSpentNat DEF WindowInv

(* What is held and in hand is within a position. *)
LEMMA PositionFits ==
  ASSUME TypeInv, OrderInv, WindowInv
  PROVE  volume + order.limit * filled <= MaxSpent
<1>1. /\ order.side \in Outcomes /\ order.limit \in Nat
      /\ order.shares \in Nat /\ filled \in Nat /\ volume \in Nat
      /\ spent["UP"] \in Nat /\ spent["DOWN"] \in Nat
  BY LatencyBotAssumption DEF TypeInv, Orders, Outcomes
<1>2. order.limit * filled \in Nat /\ MaxSpent \in Nat
  BY <1>1, TimesMonotone, MaxSpentNat
<1>3. volume + order.limit * filled <= MaxSpent
  <2>1. CASE pc \in Ordering
    <3>1. filled <= order.shares
      BY <2>1 DEF OrderInv, Ordering
    <3>2. order.limit * filled <= order.limit * order.shares
          /\ order.limit * order.shares \in Nat
      BY <1>1, <3>1, FilledFits
    <3>3. spent[order.side] + order.limit * order.shares <= MaxSpent
      BY <2>1 DEF OrderInv, Ordering
    <3>4. spent["UP"] + spent["DOWN"] = spent[order.side]
      BY <1>1, <2>1 DEF OrderInv, Ordering, Sides, Outcomes
    <3>5. volume <= spent[order.side]
      BY <3>4 DEF WindowInv
    <3> HIDE DEF MaxSpent
    <3>6. spent[order.side] \in Nat
      BY <1>1, <3>4
    <3> QED BY <1>1, <1>2, <3>2, <3>3, <3>5, <3>6
  <2>2. CASE pc \notin Ordering
    <3>1. order.limit * filled = 0
      BY <1>1, <2>2 DEF OrderInv, Ordering, NoOrder
    <3>2. volume <= MaxSpent
      BY VolumeFits
    <3> QED BY <1>1, <1>2, <3>1, <3>2
  <2> QED BY <2>1, <2>2
<1> QED BY <1>3

(* A process that ends leaves behind what it bought, within a position.    *)
LEMMA CrashWindowInv ==
  ASSUME TypeInv, OrderInv, WindowInv, Crash
  PROVE  WindowInv'
<1>1. /\ order' = NoOrder /\ filled' = 0 /\ Forgotten /\ before' = bought
      /\ restarts' = IF bought = NoShares THEN restarts ELSE restarts + 1
      /\ UNCHANGED <<bought, paid, late>>
  BY DEF Crash, OrderOver
<1>2. \A o \in Outcomes : spent'[o] = 0 /\ held'[o] = 0
  BY <1>1 DEF Forgotten, NoShares
<1>3. spent' = NoShares /\ held' = NoShares /\ volume' = 0 /\ order'.limit * filled' = 0
  BY <1>1 DEF Forgotten, NoOrder
<1>t. /\ volume \in Nat /\ paid \in Nat /\ late \in Nat /\ restarts \in Nat
      /\ bought \in [Outcomes -> Nat] /\ MaxSpent \in Nat
      /\ order.limit * filled \in Nat
      /\ HighPrice * late \in Nat /\ MaxSpent * restarts \in Nat
  <2>1. order.limit \in Nat /\ filled \in Nat /\ late \in Nat /\ restarts \in Nat
        /\ HighPrice \in Nat
    BY LatencyBotAssumption DEF TypeInv, Orders
  <2>2. /\ order.limit * filled \in Nat /\ HighPrice * late \in Nat
        /\ MaxSpent * restarts \in Nat
    BY <2>1, TimesMonotone, MaxSpentNat
  <2> QED BY <2>1, <2>2, MaxSpentNat DEF TypeInv
<1>4. restarts' = 0 => before' = NoShares
  BY <1>1, <1>t
<1>5. restarts' = 0 =>
        \A o \in Outcomes : bought'[o] = held'[o] + (IF o = order'.side THEN filled' ELSE 0)
  <2>1. restarts' = 0 => \A o \in Outcomes : bought'[o] = 0
    BY <1>1, <1>t DEF NoShares
  <2> QED BY <1>1, <1>2, <2>1
<1>6. paid' <= volume' + order'.limit * filled' + HighPrice * late' + MaxSpent * restarts'
  <2>1. CASE bought = NoShares
    <3>1. paid = 0
      BY <2>1, <1>t DEF WindowInv
    <3>2. restarts' = restarts
      BY <1>1, <2>1
    <3> QED BY <1>1, <1>3, <1>t, <3>1, <3>2
  <2>2. CASE bought # NoShares
    <3>1. restarts' = restarts + 1
      BY <1>1, <2>2
    <3>2. MaxSpent * (restarts + 1) = MaxSpent * restarts + MaxSpent
      BY <1>t, OneMore
    <3>3. paid <= volume + order.limit * filled + HighPrice * late + MaxSpent * restarts
      BY DEF WindowInv
    <3>4. volume + order.limit * filled <= MaxSpent
      BY PositionFits
    <3> HIDE DEF MaxSpent
    <3> QED BY <1>1, <1>3, <1>t, <3>1, <3>2, <3>3, <3>4
  <2> QED BY <2>1, <2>2
<1>7. \A o \in Outcomes : bought'[o] = before'[o] /\ bought'[o] \in Nat
  BY <1>1, <1>t
<1>8. paid' > 0 => bought' # NoShares
  BY <1>1 DEF WindowInv
<1>9. volume' <= spent'["UP"] + spent'["DOWN"]
  BY <1>2, <1>3 DEF Outcomes
<1> QED BY <1>1, <1>2, <1>3, <1>4, <1>5, <1>6, <1>7, <1>8, <1>9 DEF WindowInv

LEMMA StepWindowInv ==
  ASSUME TypeInv, OrderInv, WindowInv, LimitInv, [LatencyBotNext]_botVars
  PROVE  WindowInv'
<1> USE DEF GoTo, bookVars, truthVars, haltVars, orderVars, windowVars,
            positionVars, timeVars
<1>t. /\ order.side \in Outcomes /\ order.limit \in Nat /\ order.cost \in Nat
      /\ order.shares \in Nat /\ filled \in Nat
      /\ spent \in [Outcomes -> Nat] /\ held \in [Outcomes -> Nat]
      /\ bought \in [Outcomes -> Nat]
      /\ volume \in Nat /\ paid \in Nat /\ late \in Nat
      /\ HighPrice \in Nat
      /\ before \in [Outcomes -> Nat] /\ restarts \in Nat
      /\ order.limit * filled \in Nat /\ HighPrice * late \in Nat
      /\ MaxSpent * restarts \in Nat
  <2>1. /\ order.side \in Outcomes /\ order.limit \in Nat /\ order.cost \in Nat
        /\ order.shares \in Nat /\ filled \in Nat /\ HighPrice \in Nat
        /\ late \in Nat /\ restarts \in Nat
    BY LatencyBotAssumption DEF TypeInv, Orders
  <2>2. /\ order.limit * filled \in Nat /\ HighPrice * late \in Nat
        /\ MaxSpent * restarts \in Nat
    BY <2>1, TimesMonotone, MaxSpentNat
  <2> QED BY <2>1, <2>2 DEF TypeInv
<1>1. ASSUME Boot \/ Connect \/ LoadStats \/ SkipWindow
      PROVE  WindowInv'
  BY <1>1, QuietWindowInv DEF Boot, Connect, LoadStats, SkipWindow, Ordering, Idle
<1>2. ASSUME StartWindow
      PROVE  WindowInv'
  <2>1. pc = "discover" /\ pc' = "loop" /\ UNCHANGED <<order, filled, windowVars>>
    BY <1>2 DEF StartWindow, Forgotten, WindowInv
  <2> QED BY <2>1, QuietWindowInv DEF Ordering, Idle
<1>3. ASSUME LoopEnds \/ CheckDivergence \/ NoCheck \/ Evaluate \/ NoDecision
      PROVE  WindowInv'
  BY <1>3, QuietWindowInv
  DEF LoopEnds, CheckDivergence, NoCheck, Evaluate, NoDecision, InLoop,
      Ordering, Idle
<1>4. ASSUME CheckGlobal \/ CheckLatency \/ Allowed \/ Blocked
      PROVE  WindowInv'
  BY <1>4, QuietWindowInv
  DEF CheckGlobal, CheckLatency, CheckSwitch, Allowed, Blocked, Ordering, Idle
<1>5. ASSUME BlockFails
      PROVE  WindowInv'
  <2>1. spent = NoShares
    BY <1>5, LatencyBotAssumption, ResetFigures
    DEF BlockFails, LossReached, LimitInv, TypeInv, Figures
  <2>2. pc \notin Ordering /\ pc' \notin Ordering
    BY <1>5 DEF BlockFails, Ordering
  <2>3. UNCHANGED <<order, filled, windowVars>>
    BY <1>5 DEF BlockFails
  <2> QED BY <2>1, <2>2, <2>3, NothingSpent DEF WindowInv, Ordering
<1>6. ASSUME NEW o \in Outcomes, NEW n \in 1 .. MaxPosition,
             NEW ask \in Prices, NEW limit \in Prices,
             NEW cost \in n * ask .. n * limit, Decide(o, n, ask, limit, cost)
      PROVE  WindowInv'
  <2>1. /\ filled = 0 /\ filled' = 0
        /\ order'.limit = limit /\ limit \in Nat
        /\ pc = "evaluate" /\ pc' = "execute"
        /\ UNCHANGED <<spent, held, volume, bought, paid, late, before, restarts>>
    BY <1>6, LatencyBotAssumption DEF Decide, OrderInv, Prices
  <2>2. order'.limit * filled' = 0 /\ order.limit * filled = 0
    BY <1>t, <2>1
  <2> QED BY <1>t, <2>1, <2>2 DEF WindowInv
<1>7. ASSUME NEW p \in Prices, OrderFilled(p)
      PROVE  WindowInv'
  <2>1. /\ p \in Nat /\ p <= order.limit
        /\ bought' = [bought EXCEPT ![order.side] = bought[order.side] + 1]
        /\ paid' = paid + p /\ filled' = filled + 1
        /\ UNCHANGED <<order, spent, held, volume, late, before, restarts>>
        /\ pc = "execute" /\ pc' \in Ordering
    BY <1>7, LatencyBotAssumption DEF OrderFilled, Buys, Prices, Ordering
  <2>2. order.limit * filled' = order.limit * filled + order.limit
    <3>1. order.limit * (filled + 1) = order.limit * filled + order.limit
      BY <1>t, OneMore
    <3> QED BY <2>1, <3>1
  <2>3. \A o \in Outcomes : bought'[o] = bought[o] + (IF o = order.side THEN 1 ELSE 0)
    BY <1>t, <2>1
  <2>4. bought' # NoShares
    BY <1>t, <2>3 DEF NoShares
  <2>5. paid' <= volume' + order'.limit * filled' + HighPrice * late'
             + MaxSpent * restarts'
    BY <1>t, <2>1, <2>2 DEF WindowInv
  <2>6. \A o \in Outcomes : bought'[o] > before'[o] => spent'[o] > 0 \/ order'.side = o
    BY <1>t, <2>1, <2>3 DEF WindowInv
  <2>7. \A o \in Outcomes : late' = 0 /\ restarts' = 0 =>
          bought'[o] = held'[o] + (IF o = order'.side THEN filled' ELSE 0)
    BY <1>t, <2>1, <2>3 DEF WindowInv
  <2>8. \A o \in Outcomes : bought'[o] >= before'[o]
    BY <1>t, <2>1, <2>3 DEF WindowInv
  <2> HIDE DEF MaxSpent
  <2> QED BY <2>1, <2>4, <2>5, <2>6, <2>7, <2>8 DEF WindowInv, Ordering
<1>8. ASSUME OrderKilled
      PROVE  WindowInv'
  BY <1>8, QuietWindowInv DEF OrderKilled, Ordering
<1>9. ASSUME NEW p \in Prices, OrderThrows(p)
      PROVE  WindowInv'
  <2>0. pc = "execute" /\ pc' = "filled"
    BY <1>9 DEF OrderThrows
  <2>1. CASE UNCHANGED <<bought, paid, late>>
    <3>1. UNCHANGED <<order, filled, windowVars>>
      BY <1>9, <2>1 DEF OrderThrows
    <3> QED BY <2>0, <3>1, QuietWindowInv DEF Ordering
  <2>2. CASE Buys(p) /\ late' = late + 1
    <3>1. /\ p \in Nat /\ p <= HighPrice
          /\ bought' = [bought EXCEPT ![order.side] = bought[order.side] + 1]
          /\ paid' = paid + p
          /\ UNCHANGED <<order, filled, spent, held, volume, before, restarts>>
      BY <1>9, <2>2, LatencyBotAssumption DEF OrderThrows, Buys, Prices
    <3>2. HighPrice * late' = HighPrice * late + HighPrice
      BY <1>t, <2>2
    <3>3. \A o \in Outcomes : bought'[o] = bought[o] + (IF o = order.side THEN 1 ELSE 0)
      BY <1>t, <3>1
    <3>4. bought' # NoShares
      BY <1>t, <3>3 DEF NoShares
    <3>5. paid' <= volume' + order'.limit * filled' + HighPrice * late'
             + MaxSpent * restarts'
      BY <1>t, <3>1, <3>2 DEF WindowInv
    <3>6. \A o \in Outcomes : bought'[o] > before'[o] => spent'[o] > 0 \/ order'.side = o
      BY <1>t, <3>1, <3>3 DEF WindowInv
    <3>7. late' # 0
      BY <1>t, <2>2
    <3>8. \A o \in Outcomes : bought'[o] >= before'[o]
      BY <1>t, <3>1, <3>3 DEF WindowInv
    <3> QED BY <2>0, <3>1, <3>4, <3>5, <3>6, <3>7, <3>8 DEF WindowInv
  <2> QED BY <1>9, <2>1, <2>2 DEF OrderThrows
<1>10. ASSUME RecordFill
       PROVE  WindowInv'
  <2> DEFINE s == order.side
             told == order.limit * filled
             cost == IF filled > 0 THEN order.limit * filled ELSE order.cost
  <2>1. /\ pc = "filled" /\ pc' = "loop" /\ order' = NoOrder /\ filled' = 0
        /\ spent' = [spent EXCEPT ![s] = spent[s] + cost]
        /\ held' = [held EXCEPT ![s] = held[s] + filled]
        /\ volume' = volume + told
        /\ UNCHANGED <<bought, paid, late, before, restarts>>
    BY <1>10 DEF RecordFill, OrderOver
  <2>2. /\ told \in Nat /\ cost \in Nat /\ cost > 0 /\ told <= cost
    <3>1. order.cost > 0 /\ order.limit > 0
      BY <2>1, LatencyBotAssumption DEF OrderInv, Prices
    <3>2. filled > 0 => order.limit * filled > 0
      BY <1>t, <3>1
    <3>3. filled = 0 => order.limit * filled = 0
      BY <1>t
    <3> QED BY <1>t, <3>1, <3>2, <3>3
  <2>3. order'.limit * filled' = 0
    BY <2>1 DEF NoOrder
  <2>p. paid' <= volume' + order'.limit * filled' + HighPrice * late'
             + MaxSpent * restarts'
    BY <1>t, <2>1, <2>3 DEF WindowInv
  <2> HIDE DEF s, told, cost
  <2>4. s \in Outcomes /\ s = order.side
    BY <1>t DEF s
  <2>5. /\ \A o \in Outcomes : spent'[o] = spent[o] + (IF o = s THEN cost ELSE 0)
        /\ \A o \in Outcomes : held'[o] = held[o] + (IF o = s THEN filled ELSE 0)
    BY <1>t, <2>1, <2>2, <2>4
  <2>6. \A o \in Outcomes : held'[o] > 0 => spent'[o] > 0
    BY <1>t, <2>2, <2>5 DEF WindowInv
  <2>7. \A o \in Outcomes : bought'[o] > before'[o] => spent'[o] > 0
    BY <1>t, <2>1, <2>2, <2>4, <2>5 DEF WindowInv
  <2>8. \A o \in Outcomes : late' = 0 /\ restarts' = 0 =>
          bought'[o] = held'[o] + (IF o = order'.side THEN filled' ELSE 0)
    BY <1>t, <2>1, <2>4, <2>5 DEF WindowInv
  <2>9. volume' <= spent'["UP"] + spent'["DOWN"]
    BY <1>t, <2>1, <2>2, <2>4, <2>5 DEF WindowInv, Outcomes
  <2> QED BY <2>1, <2>p, <2>6, <2>7, <2>8, <2>9 DEF WindowInv
<1>11. ASSUME Close
       PROVE  WindowInv'
  BY <1>11, QuietWindowInv DEF Close, Ordering, Idle
<1>12. ASSUME NEW outcome \in Outcomes, NEW profit, RecordResult(outcome, profit)
       PROVE  WindowInv'
  BY <1>12, NewWindowWindowInv DEF RecordResult, OrderInv
<1>13. ASSUME Persist \/ WakeUp
       PROVE  WindowInv'
  BY <1>13, QuietWindowInv DEF Persist, WakeUp, Ordering, Idle
<1>14. ASSUME Begin \/ WaitForNextWindow
       PROVE  WindowInv'
  <2>1. /\ TurnToWindow /\ UNCHANGED <<order, filled>>
        /\ pc \in {"begin", "next"} /\ pc' \in {"discover", "asleep"}
    BY <1>14 DEF Begin, WaitForNextWindow
  <2>2. order = NoOrder /\ filled = 0
    BY <2>1 DEF OrderInv
  <2> QED BY <2>1, <2>2, TurnWindowInv DEF Idle
<1>19. ASSUME Crash
       PROVE  WindowInv'
  BY <1>19, CrashWindowInv
<1>15. ASSUME SecondPasses \/ Tick \/ NextWindow
       PROVE  WindowInv'
  BY <1>15, QuietWindowInv DEF SecondPasses, Tick, NextWindow
<1>16. ASSUME NEW v \in Views, PricesMove(v)
       PROVE  WindowInv'
  BY <1>16, QuietWindowInv DEF PricesMove
<1>17. ASSUME NEW key \in Toggled, Toggle(key)
       PROVE  WindowInv'
  BY <1>17, QuietWindowInv DEF Toggle
<1>18. CASE UNCHANGED botVars
  BY <1>18, QuietWindowInv DEF botVars
<1> QED BY <1>1, <1>2, <1>3, <1>4, <1>5, <1>6, <1>7, <1>8, <1>9, <1>10, <1>11,
           <1>12, <1>13, <1>14, <1>15, <1>16, <1>17, <1>18, <1>19
        DEF LatencyBotNext, Bot, Resolved, Unresolved

-----------------------------------------------------------------------------
(* A window is traded in only within the limits it found. *)

Loading == {"down", "feeds", "load"}

LEMMA QuietLimitInv ==
  ASSUME LimitInv,
         UNCHANGED <<stats, session, pause, sinceLoss, earned, remembered>>,
         Trading' => Trading /\ UNCHANGED diverged,
         spent' # NoShares => spent # NoShares \/ Trading,
         pc' \in {"feeds", "load"} => pc \in {"feeds", "load"},
         Known' = Known
  PROVE  LimitInv'
<1>1. Reset(stats)' = Reset(stats)
  BY DEF Reset
<1> QED BY <1>1 DEF LimitInv

(* The loading bot knows what Redis holds, the running one its own figures. *)
LEMMA SameKnown ==
  ASSUME \/ UNCHANGED <<stored, stats>> /\ (pc' \in Loading <=> pc \in Loading)
         \/ UNCHANGED stats /\ pc \notin Loading /\ pc' \notin Loading
  PROVE  Known' = Known
BY DEF Known, Reset, Loading

(* A new day ends the streak, and nothing else that counts against it. *)
LEMMA DayResetLimits ==
  ASSUME TypeInv, LimitInv, DayReset
  PROVE  /\ Reset(stats)' = Reset(stats) /\ stats' = Reset(stats)
         /\ stats'.losses >= MaxLosses =>
              /\ stats.losses >= MaxLosses /\ pause' = pause
              /\ pause' + sinceLoss >= PauseTicks
<1>1. stats' = Reset(stats)
  BY DEF DayReset
<1>2. Reset(stats)' = Reset(stats)
  <2>1. Reset(stats)' = Reset(stats')
    BY DEF Reset
  <2>2. Reset(Reset(stats)) = Reset(stats)
    BY ResetFigures DEF TypeInv
  <2> QED BY <1>1, <2>1, <2>2
<1>3. ASSUME stats'.losses >= MaxLosses
      PROVE  stats.losses >= MaxLosses /\ pause' = pause
  <2>1. stats.today
    BY <1>1, <1>3, LatencyBotAssumption DEF Reset, NoFigures
  <2> QED BY <1>1, <1>3, <2>1 DEF Reset, DayReset, ResetPause
<1> QED BY <1>1, <1>2, <1>3 DEF LimitInv

(* What a window is booked with: no less than its position, no more than   *)
(* it brought if the bot was told of every chunk.                          *)
FairlyBooked(outcome, profit) ==
  /\ profit \in Int /\ profit >= -volume
  /\ late = 0 /\ restarts = 0 => profit <= Payout * bought[outcome] - paid

LEMMA ResultIsFair ==
  ASSUME TypeInv, OrderInv, WindowInv, pc = "settle", NEW outcome \in Outcomes
  PROVE  /\ FairlyBooked(outcome, Payout * held[outcome] - volume)
         /\ FairlyBooked(outcome, -volume)
<1>1. /\ volume \in Nat /\ paid \in Nat /\ late \in Nat /\ Payout \in Nat
      /\ held[outcome] \in Nat /\ bought[outcome] \in Nat
  BY LatencyBotAssumption DEF TypeInv
<1>2. filled = 0 /\ order.limit = 0
  BY DEF OrderInv, NoOrder
<1>3. late = 0 /\ restarts = 0 => bought[outcome] = held[outcome] /\ paid <= volume
  <2>1. order.limit * filled = 0
    BY <1>2
  <2>2. ASSUME late = 0, restarts = 0
        PROVE  HighPrice * late = 0 /\ MaxSpent * restarts = 0
    BY <2>2, LatencyBotAssumption, MaxSpentNat
  <2> QED BY <1>1, <1>2, <2>1, <2>2 DEF WindowInv
<1>4. Payout * held[outcome] \in Nat /\ Payout * bought[outcome] \in Nat
  BY <1>1, TimesMonotone
<1>5. late = 0 /\ restarts = 0 => Payout * bought[outcome] = Payout * held[outcome]
  BY <1>3
<1> QED BY <1>1, <1>3, <1>4, <1>5 DEF FairlyBooked

LEMMA RecordResultLimits ==
  ASSUME TypeInv, OrderInv, WindowInv, LimitInv, NEW outcome \in Outcomes,
         NEW profit, FairlyBooked(outcome, profit),
         RecordResult(outcome, profit)
  PROVE  LimitInv'
<1>t. /\ volume \in Nat /\ paid \in Nat /\ late \in Nat
      /\ session \in Int /\ earned \in Int /\ profit \in Int
      /\ Reset(stats) \in Figures /\ Reset(stats).profit \in Int
      /\ Payout * bought[outcome] \in Nat
      /\ MaxSpent \in Nat /\ MaxLosses \in Nat \ {0} /\ PauseTicks \in Nat
      /\ MaxDailyLoss \in Nat /\ MaxSession \in Nat /\ Payout \in Nat
      /\ pause \in Nat /\ sinceLoss \in Nat
  <2>1. Payout \in Nat /\ bought[outcome] \in Nat
    BY LatencyBotAssumption DEF TypeInv
  <2>2. Reset(stats) \in Figures
    BY ResetFigures DEF TypeInv
  <2> QED BY <2>1, <2>2, TimesMonotone, MaxSpentNat, LatencyBotAssumption
          DEF TypeInv, FairlyBooked, Figures
<1>1. /\ pc = "settle" /\ pc' = "persist" /\ spent' = NoShares
      /\ earned' = earned + Payout * bought[outcome] - paid
      /\ remembered' => remembered /\ late = 0 /\ restarts = 0
  BY Zenon DEF RecordResult, GoTo, Forgotten
<1>2. ~Trading'
  BY <1>1 DEF Trading
<1>3. Known = Reset(stats) /\ Known' = Reset(stats)'
  BY <1>1 DEF Known, Reset
<1>4. CASE volume = 0
  <2>1. DayReset /\ session' = session /\ sinceLoss' = sinceLoss
    BY <1>4 DEF RecordResult
  <2>2. Known' = Known
    BY <1>3, <2>1, DayResetLimits
  <2>3. late = 0 /\ restarts = 0 => paid = 0
    <3>1. order.limit * filled = 0
      BY <1>1 DEF OrderInv, NoOrder
    <3>2. ASSUME late = 0, restarts = 0
          PROVE  HighPrice * late = 0 /\ MaxSpent * restarts = 0
      BY <3>2, LatencyBotAssumption, MaxSpentNat
    <3> QED BY <1>4, <1>t, <3>1, <3>2 DEF WindowInv
  <2>4. remembered' => earned' >= Known'.profit
    BY <1>t, <1>1, <1>3, <2>2, <2>3 DEF LimitInv
  <2>5. remembered' => Known'.profit > -(MaxDailyLoss + MaxSpent)
    BY <1>1, <2>2 DEF LimitInv
  <2>6. stats'.losses >= MaxLosses => pause' + sinceLoss' >= PauseTicks
    BY <2>1, DayResetLimits
  <2> QED BY <1>1, <1>2, <2>1, <2>4, <2>5, <2>6 DEF LimitInv
<1>5. CASE volume # 0
  <2> DEFINE now == Booked(Reset(stats), profit)
  <2>1. /\ stats' = now /\ session' = session + profit
        /\ pause' = IF profit < 0 /\ StreakPauses(now.losses)
                    THEN PauseTicks ELSE ResetPause
        /\ sinceLoss' = IF profit < 0 THEN 0 ELSE sinceLoss
    BY <1>5 DEF RecordResult
  <2>2. /\ now.today /\ now.profit = Reset(stats).profit + profit
        /\ profit >= 0 => now.losses = 0
    BY <1>t, BookedFigures
  <2> HIDE DEF now
  <2>3. Known' = now
    <3>1. Reset(stats)' = Reset(stats')
      BY DEF Reset
    <3>2. Reset(now) = now
      BY <2>2 DEF Reset
    <3> QED BY <1>3, <2>1, <3>1, <3>2
  <2>4. /\ Reset(stats).profit > -MaxDailyLoss /\ session > -MaxSession
        /\ volume <= MaxSpent
    BY <1>5, VolumeFits DEF LimitInv
  <2>5. profit >= -volume
    BY DEF FairlyBooked
  <2>6. session' > -(MaxSession + MaxSpent)
    BY <1>t, <2>1, <2>4, <2>5
  <2>7. Known'.profit > -(MaxDailyLoss + MaxSpent)
    BY <1>t, <2>2, <2>3, <2>4, <2>5
  <2>8. remembered' => earned' >= Known'.profit
    BY <1>t, <1>1, <1>3, <2>2, <2>3 DEF LimitInv, FairlyBooked
  <2>9. ASSUME stats'.losses >= MaxLosses
        PROVE  pause' + sinceLoss' >= PauseTicks
    <3>1. profit < 0
      BY <1>t, <2>1, <2>2, <2>9
    <3>2. pause' = PauseTicks /\ sinceLoss' = 0
      BY <2>1, <2>9, <3>1 DEF StreakPauses
    <3> QED BY <1>t, <3>2
  <2> QED BY <1>1, <1>2, <2>6, <2>7, <2>8, <2>9 DEF LimitInv
<1> QED BY <1>4, <1>5

LEMMA StepLimitInv ==
  ASSUME TypeInv, OrderInv, WindowInv, LimitInv, [LatencyBotNext]_botVars
  PROVE  LimitInv'
<1> USE DEF GoTo, bookVars, truthVars, haltVars, orderVars, windowVars,
            positionVars, timeVars
<1>t. /\ session \in Int /\ earned \in Int
      /\ pause \in Nat /\ sinceLoss \in Nat
      /\ stored \in Figures /\ stats \in Figures
      /\ MaxSpent \in Nat /\ MaxLosses \in Nat \ {0} /\ PauseTicks \in Nat
      /\ MaxDailyLoss \in Nat \ {0} /\ MaxSession \in Nat \ {0}
  BY MaxSpentNat, LatencyBotAssumption DEF TypeInv
<1>1. ASSUME Boot
      PROVE  LimitInv'
  <2>1. /\ stats' = NoFigures /\ session' = 0 /\ pause' = 0
        /\ sinceLoss' = PauseTicks /\ pc = "down" /\ pc' = "feeds"
        /\ UNCHANGED <<stored, spent, earned, remembered>>
    BY <1>1 DEF Boot
  <2>2. spent' = NoShares /\ ~Trading'
    BY <2>1 DEF WindowInv, Trading
  <2>3. Known' = Known
    BY <2>1 DEF Known, Reset
  <2> QED BY <1>t, <2>1, <2>2, <2>3 DEF LimitInv, NoFigures
<1>2. ASSUME Connect \/ CheckGlobal \/ CheckLatency \/ LoopEnds \/ NoCheck
             \/ Evaluate \/ NoDecision
      PROVE  LimitInv'
  <2> USE DEF Connect, CheckGlobal, CheckLatency, CheckSwitch, LoopEnds,
              NoCheck, InLoop, Evaluate, NoDecision
  <2>1. Known' = Known
    BY <1>2, SameKnown DEF Loading
  <2> QED BY <1>2, <2>1, QuietLimitInv DEF Trading
<1>3. ASSUME LoadStats
      PROVE  LimitInv'
  <2>1. /\ pc = "load" /\ pc' = "begin" /\ ~Trading'
        /\ UNCHANGED <<stored, session, pause, sinceLoss, spent, earned>>
    BY <1>3 DEF LoadStats, Trading
  <2>2. spent' = NoShares /\ sinceLoss' >= PauseTicks
    BY <2>1 DEF WindowInv, LimitInv
  <2>3. remembered' => remembered /\ Known'.profit = Known.profit
    <3>1. CASE remembered' = FALSE
      BY <3>1
    <3>2. CASE /\ remembered' = remembered
               /\ stats' = [profit |-> Reset(stored).profit,
                            losses |-> stored.losses, today |-> TRUE]
      <4>1. Known = Reset(stored) /\ Known' = Reset(stats)'
        BY <2>1 DEF Known, Reset
      <4>2. Reset(stats)' = stats'
        BY <3>2 DEF Reset
      <4> QED BY <3>2, <4>1, <4>2
    <3> QED BY <1>3, <3>1, <3>2 DEF LoadStats
  <2> QED BY <1>t, <2>1, <2>2, <2>3 DEF LimitInv
<1>4. ASSUME SkipWindow \/ WakeUp \/ Close \/ Persist
      PROVE  LimitInv'
  <2> USE DEF SkipWindow, WakeUp, Close, Persist
  <2>1. Known' = Known
    BY <1>4, SameKnown DEF Loading
  <2> QED BY <1>4, <2>1, QuietLimitInv DEF Trading
<1>21. ASSUME Begin \/ WaitForNextWindow
       PROVE  LimitInv'
  <2>1. /\ pc \in {"begin", "next"} /\ pc' \in {"discover", "asleep"}
        /\ TurnToWindow /\ ~Trading'
        /\ UNCHANGED <<stored, stats, session, pause, sinceLoss, diverged>>
    BY <1>21 DEF Begin, WaitForNextWindow, Trading
  <2>2. UNCHANGED <<spent, earned>> /\ (remembered' => remembered)
    BY <2>1, Zenon DEF TurnToWindow
  <2>3. Known' = Known
    BY <2>1, SameKnown DEF Loading
  <2>4. Reset(stats)' = Reset(stats)
    BY <2>1 DEF Reset
  <2> QED BY <2>1, <2>2, <2>3, <2>4 DEF LimitInv
<1>5. ASSUME StartWindow
      PROVE  LimitInv'
  <2>1. Known' = Known
    BY <1>5, SameKnown DEF StartWindow, Loading
  <2> QED BY <1>5, <2>1, QuietLimitInv DEF StartWindow, Forgotten, Trading
<1>6. ASSUME CheckDivergence
      PROVE  LimitInv'
  <2>1. Known' = Known
    BY <1>6, SameKnown DEF CheckDivergence, InLoop, Loading
  <2> QED BY <1>6, <2>1, QuietLimitInv DEF CheckDivergence, Trading
<1>7. ASSUME Allowed
      PROVE  LimitInv'
  <2>1. /\ pc = "limits" /\ pc' = "tick" /\ DayReset
        /\ ~LossReached /\ ~Halted
        /\ UNCHANGED <<stored, session, sinceLoss, diverged, earned, remembered>>
    BY <1>7 DEF Allowed
  <2>2. /\ stats' = Reset(stats) /\ Reset(stats)' = Reset(stats)
        /\ stats'.losses >= MaxLosses =>
             pause' = pause /\ stats.losses >= MaxLosses
    BY <2>1, DayResetLimits
  <2>3. Reset(stats).profit > -MaxDailyLoss /\ session > -MaxSession
        /\ ~diverged
    <3>1. Reset(stats).profit \in Int
      BY <1>t, ResetFigures DEF Figures
    <3> QED BY <1>t, <2>1, <3>1 DEF LossReached, Halted, SessionReached
  <2>4. pause' = 0
    BY <1>t, <2>1 DEF Halted, DayReset, ResetPause
  <2>5. stats'.losses >= MaxLosses => sinceLoss >= PauseTicks
    BY <1>t, <2>2, <2>4 DEF LimitInv
  <2>6. Known' = Known
    BY <2>1, <2>2 DEF Known, Reset
  <2> QED BY <1>t, <2>1, <2>2, <2>3, <2>4, <2>5, <2>6 DEF LimitInv
<1>8. ASSUME Blocked \/ BlockFails
      PROVE  LimitInv'
  <2>1. /\ pc = "limits" /\ pc' \in {"close", "next"} /\ DayReset /\ ~Trading'
        /\ UNCHANGED <<stored, session, sinceLoss, spent, earned, remembered>>
    BY <1>8 DEF Blocked, BlockFails, Trading
  <2>2. /\ stats' = Reset(stats) /\ Reset(stats)' = Reset(stats)
        /\ stats'.losses >= MaxLosses =>
             /\ stats.losses >= MaxLosses /\ pause' + sinceLoss >= PauseTicks
    BY <2>1, DayResetLimits
  <2>3. Known' = Known
    BY <2>1, <2>2 DEF Known, Reset
  <2> QED BY <2>1, <2>2, <2>3 DEF LimitInv
<1>9. ASSUME NEW o \in Outcomes, NEW n \in 1 .. MaxPosition,
             NEW ask \in Prices, NEW limit \in Prices,
             NEW cost \in n * ask .. n * limit, Decide(o, n, ask, limit, cost)
      PROVE  LimitInv'
  <2>1. Known' = Known
    BY <1>9, SameKnown DEF Decide, Loading
  <2> QED BY <1>9, <2>1, QuietLimitInv DEF Decide, Trading
<1>10. ASSUME NEW p \in Prices, OrderFilled(p) \/ OrderThrows(p)
       PROVE  LimitInv'
  <2>1. Known' = Known
    BY <1>10, SameKnown DEF OrderFilled, OrderThrows, Loading
  <2> QED BY <1>10, <2>1, QuietLimitInv DEF OrderFilled, OrderThrows, Trading
<1>11. ASSUME OrderKilled \/ RecordFill
       PROVE  LimitInv'
  <2>1. Known' = Known
    BY <1>11, SameKnown DEF OrderKilled, RecordFill, Loading
  <2> QED BY <1>11, <2>1, QuietLimitInv DEF OrderKilled, RecordFill, Trading
<1>12. ASSUME NEW outcome \in Outcomes, Resolved(outcome) \/ Unresolved(outcome)
       PROVE  LimitInv'
  <2>1. pc = "settle"
    BY <1>12 DEF Resolved, Unresolved, RecordResult
  <2> QED BY <1>12, <2>1, ResultIsFair, RecordResultLimits DEF Resolved, Unresolved
<1>13. ASSUME Crash
       PROVE  LimitInv'
  <2>1. /\ pc' = "down" /\ spent' = NoShares /\ ~Trading'
        /\ UNCHANGED <<stored, stats, session, pause, sinceLoss, earned>>
    BY <1>13 DEF Crash, Forgotten, Trading
  <2>2. Known' = Reset(stored)
    BY <2>1 DEF Known, Reset
  <2>3. remembered' => remembered /\ Known'.profit = Known.profit
    <3>1. remembered' => /\ remembered
                         /\ \/ pc \in {"feeds", "load"}
                            \/ Reset(stored).profit = Reset(stats).profit
      BY <1>13, Zenon DEF Crash
    <3> QED BY <2>2, <3>1 DEF Known
  <2> QED BY <2>1, <2>3 DEF LimitInv
<1>14. ASSUME SecondPasses
       PROVE  LimitInv'
  <2>1. Known' = Known
    BY <1>14, SameKnown DEF SecondPasses
  <2> QED BY <1>14, <2>1, QuietLimitInv DEF SecondPasses, Trading
<1>p. ASSUME TimePasses, UNCHANGED <<pc, diverged>>
      PROVE  /\ Trading' => Trading /\ ~diverged'
             /\ sinceLoss >= PauseTicks => sinceLoss' >= PauseTicks
             /\ pause + sinceLoss >= PauseTicks =>
                  pause' + sinceLoss' >= PauseTicks
  <2>1. Trading' => Trading
    BY <1>p DEF TimePasses, Trading
  <2>2. /\ pause' = IF pause > 0 THEN pause - 1 ELSE 0
        /\ sinceLoss' = IF sinceLoss < PauseTicks THEN sinceLoss + 1 ELSE sinceLoss
    BY <1>p DEF TimePasses, Later
  <2> QED BY <1>t, <1>p, <2>1, <2>2 DEF LimitInv
<1>15. ASSUME Tick
       PROVE  LimitInv'
  <2>1. TimePasses /\ UNCHANGED <<stored, stats, session, diverged, pc, spent,
                                  earned, remembered>>
    BY <1>15 DEF Tick
  <2>2. Known' = Known /\ Reset(stats)' = Reset(stats)
    BY <2>1 DEF Known, Reset
  <2> QED BY <1>p, <2>1, <2>2 DEF LimitInv
<1>16. ASSUME NextWindow
       PROVE  LimitInv'
  <2>1. TimePasses /\ UNCHANGED <<session, diverged, pc, spent>>
    BY <1>16 DEF NextWindow
  <2>2. CASE UNCHANGED <<stored, stats, earned, remembered>>
    <3>1. Known' = Known /\ Reset(stats)' = Reset(stats)
      BY <2>1, <2>2 DEF Known, Reset
    <3> QED BY <1>p, <2>1, <2>2, <3>1 DEF LimitInv
  <2>3. CASE /\ stored' = [stored EXCEPT !.today = FALSE]
             /\ stats' = [stats EXCEPT !.today = FALSE]
             /\ earned' = 0 /\ remembered' = TRUE
    <3>1. /\ ~stored'.today /\ ~stats'.today
          /\ stats'.losses = stats.losses
      BY <1>t, <2>3, Zenon DEF Figures
    <3>2. Reset(stats)' = NoFigures /\ Known' = NoFigures
      BY <3>1 DEF Known, Reset
    <3>3. NoFigures.profit = 0
      BY DEF NoFigures
    <3> QED BY <1>p, <1>t, <2>1, <2>3, <3>1, <3>2, <3>3 DEF LimitInv
  <2> QED BY <1>16, <2>2, <2>3 DEF NextWindow
<1>17. ASSUME NEW v \in Views, PricesMove(v)
       PROVE  LimitInv'
  <2>1. Known' = Known
    BY <1>17, SameKnown DEF PricesMove
  <2> QED BY <1>17, <2>1, QuietLimitInv DEF PricesMove, Trading
<1>18. ASSUME NEW key \in Toggled, Toggle(key)
       PROVE  LimitInv'
  <2>1. Known' = Known
    BY <1>18, SameKnown DEF Toggle
  <2> QED BY <1>18, <2>1, QuietLimitInv DEF Toggle, Trading
<1>19. CASE UNCHANGED botVars
  <2>1. Known' = Known
    BY <1>19, SameKnown DEF botVars
  <2> QED BY <1>19, <2>1, QuietLimitInv DEF botVars, Trading
<1> QED BY <1>1, <1>2, <1>3, <1>4, <1>5, <1>6, <1>7, <1>8, <1>9, <1>10, <1>11,
           <1>12, <1>13, <1>14, <1>15, <1>16, <1>17, <1>18, <1>19, <1>21
        DEF LatencyBotNext, Bot

-----------------------------------------------------------------------------
(* Positions, orders, windows and the figures of the day agree for any     *)
(* number of windows, days, failures and restarts.                         *)
THEOREM LatencyBotInvHolds == LatencyBotSpec => []LatencyBotInv
<1>1. LatencyBotInit => LatencyBotInv
  BY InitLatencyBotInv
<1>2. LatencyBotInv /\ [LatencyBotNext]_botVars => LatencyBotInv'
  BY StepTypeInv, StepOrderInv, StepWindowInv, StepLimitInv DEF LatencyBotInv
<1> QED BY <1>1, <1>2, PTL DEF LatencyBotSpec

(* canTrade() keeps what a day and a session bring above their limits but  *)
(* for one window's position, over midnight and restarts.                  *)
THEOREM LossLimitsAreKept == LatencyBotSpec => []LossLimitsHold
<1>1. LatencyBotInv => LossLimitsHold
  <2> SUFFICES ASSUME LatencyBotInv, remembered
               PROVE  earned > -(MaxDailyLoss + MaxSpent)
    BY DEF LatencyBotInv, LimitInv, LossLimitsHold
  <2>1. earned >= Known.profit /\ Known.profit > -(MaxDailyLoss + MaxSpent)
    BY DEF LatencyBotInv, LimitInv
  <2>2. Known.profit \in Int
    BY ResetFigures DEF LatencyBotInv, TypeInv, Known, Figures
  <2>3. earned \in Int /\ MaxDailyLoss \in Int /\ MaxSpent \in Int
    BY MaxSpentNat, LatencyBotAssumption DEF LatencyBotInv, TypeInv
  <2> QED BY <2>1, <2>2, <2>3
<1> QED BY <1>1, LatencyBotInvHolds, PTL

(* The figures of the day never claim more than its windows brought, in    *)
(* memory as in Redis, whether Gamma told the outcome or not.              *)
THEOREM BookingsNeverFlatter == LatencyBotSpec => []BookingNeverFlatters
<1>1. LatencyBotInv => BookingNeverFlatters
  <2>1. ASSUME LatencyBotInv PROVE Known.profit \in Int /\ earned \in Int
    BY <2>1, ResetFigures DEF LatencyBotInv, TypeInv, Known, Figures
  <2> QED BY <2>1 DEF LatencyBotInv, LimitInv, BookingNeverFlatters
<1> QED BY <1>1, LatencyBotInvHolds, PTL

(* A process adds to one side of a window, late fills included; a window   *)
(* of which both sides were bought has seen a restart.                     *)
THEOREM OneSide == LatencyBotSpec => []OneSidePerWindow
<1>1. LatencyBotInv => OneSidePerWindow
  <2> SUFFICES ASSUME TypeInv, OrderInv, WindowInv PROVE OneSidePerWindow
    BY DEF LatencyBotInv
  <2>1. \E o \in Outcomes : bought[o] = before[o]
    BY DEF TypeInv, OrderInv, WindowInv, Sides, Outcomes
  <2>2. restarts = 0 => before["UP"] = 0 /\ before["DOWN"] = 0
    BY DEF WindowInv, NoShares, Outcomes
  <2>3. restarts \in Nat
    BY DEF TypeInv
  <2> QED BY <2>1, <2>2, <2>3 DEF OneSidePerWindow, Outcomes
<1> QED BY <1>1, LatencyBotInvHolds, PTL

(* What a window costs is within one position at the highest price for     *)
(* each process that traded in it, but for the chunks of requests that     *)
(* threw.                                                                  *)
THEOREM PositionCapIsKept == LatencyBotSpec => []PositionCapHolds
<1>1. LatencyBotInv => PositionCapHolds
  <2> SUFFICES ASSUME TypeInv, OrderInv, WindowInv PROVE PositionCapHolds
    BY DEF LatencyBotInv
  <2>1. /\ paid \in Nat /\ late \in Nat /\ restarts \in Nat
        /\ HighPrice \in Nat /\ MaxPosition \in Nat
    BY LatencyBotAssumption DEF TypeInv
  <2>2. volume + order.limit * filled <= MaxSpent
    BY PositionFits
  <2>3. /\ volume \in Nat /\ order.limit * filled \in Nat /\ MaxSpent \in Nat
        /\ HighPrice * late \in Nat /\ MaxSpent * restarts \in Nat
    <3>1. volume \in Nat /\ order.limit \in Nat /\ filled \in Nat
      BY DEF TypeInv, Orders
    <3> QED BY <2>1, <3>1, TimesMonotone, MaxSpentNat
  <2>4. paid <= MaxSpent + HighPrice * late + MaxSpent * restarts
    <3>1. paid <= volume + order.limit * filled + HighPrice * late
                    + MaxSpent * restarts
      BY DEF WindowInv
    <3> HIDE DEF MaxSpent
    <3> QED BY <2>1, <2>2, <2>3, <3>1
  <2>5. HighPrice * (MaxPosition * (restarts + 1) + late)
          = MaxSpent + HighPrice * late + MaxSpent * restarts
    <3>1. HighPrice * (MaxPosition * (restarts + 1) + late)
            = HighPrice * MaxPosition * (restarts + 1) + HighPrice * late
      BY <2>1
    <3>2. MaxSpent * (restarts + 1) = MaxSpent * restarts + MaxSpent
      BY <2>1, <2>3, OneMore
    <3> QED BY <2>1, <2>3, <3>1, <3>2 DEF MaxSpent
  <2> QED BY <2>4, <2>5 DEF PositionCapHolds
<1> QED BY <1>1, LatencyBotInvHolds, PTL

(* No order follows a losing streak before the pause has passed in full.   *)
THEOREM StreakPauseIsKept == LatencyBotSpec => []StreakPauseHolds
<1>1. LatencyBotInv => StreakPauseHolds
  BY DEF LatencyBotInv, LimitInv, Trading, StreakPauseHolds
<1> QED BY <1>1, LatencyBotInvHolds, PTL
=============================================================================
