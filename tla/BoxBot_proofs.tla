---------------------------- MODULE BoxBot_proofs ----------------------------
(***************************************************************************)
(* Proofs about BoxBot for any window, entry times, prices, limits and     *)
(* bounds.  The figures of the day are followed from the decision to the   *)
(* store and back over midnight and restarts; the sides chunk by chunk.    *)
(***************************************************************************)
EXTENDS BoxBot, TLAPS

(* Figures, once they are today's, stay as they are. *)
LEMMA ResetFigures ==
  ASSUME NEW figures \in Figures
  PROVE  /\ Reset(figures) \in Figures
         /\ Reset(figures).today
         /\ Reset(Reset(figures)) = Reset(figures)
BY DEF Reset, Figures, NoFigures

(* Booking adds to the figures and leaves their date alone. *)
LEMMA BookedFigures ==
  ASSUME NEW figures \in Figures, NEW profit \in Int, NEW partial \in BOOLEAN
  PROVE  /\ Booked(figures, profit, partial) \in Figures
         /\ Booked(figures, profit, partial).today = figures.today
         /\ Booked(figures, profit, partial).profit = figures.profit + profit
         /\ Booked(figures, profit, partial).partials
              = figures.partials + (IF partial THEN 1 ELSE 0)
<1>1. /\ figures.profit + profit \in Int
      /\ figures.partials + (IF partial THEN 1 ELSE 0) \in Nat
  BY DEF Figures
<1>2. figures.today \in BOOLEAN
  BY Zenon DEF Figures
<1> QED BY <1>1, <1>2, Zenon DEF Booked, Figures

LEMMA TimesMonotone ==
  ASSUME NEW a \in Nat, NEW b \in Nat, NEW c \in Nat, b <= c
  PROVE  a * b \in Nat /\ a * c \in Nat /\ a * b <= a * c
OBVIOUS

LEMMA TradeLoss ==
  /\ Dearer \in Nat /\ MaxTradeLoss \in Nat
  /\ \A o \in Outcomes : Price[o] * MaxChunks <= MaxTradeLoss
<1>1. /\ Dearer \in Nat /\ MaxChunks \in Nat
      /\ \A o \in Outcomes : Price[o] \in Nat /\ Price[o] <= Dearer
  BY BoxBotAssumption DEF Dearer, Outcomes
<1>2. MaxTradeLoss \in Nat
  BY <1>1 DEF MaxTradeLoss
<1>3. ASSUME NEW o \in Outcomes
      PROVE  Price[o] * MaxChunks <= MaxTradeLoss
  <2>1. MaxChunks * Price[o] <= MaxChunks * Dearer
    BY <1>1, TimesMonotone
  <2>2. Price[o] * MaxChunks = MaxChunks * Price[o]
    BY <1>1
  <2> QED BY <2>1, <2>2 DEF MaxTradeLoss
<1> QED BY <1>1, <1>2, <1>3

(* One trade loses no more than what the dearer side costs. *)
LEMMA ProfitBound ==
  ASSUME shares \in Chunks, filled \in [Outcomes -> Chunks], Successes # {}
  PROVE  /\ Profit \in Int
         /\ MaxTradeLoss \in Nat
         /\ Profit >= -MaxTradeLoss
<1> DEFINE up == Price["UP"]
           down == Price["DOWN"]
<1>1. /\ up \in Nat /\ down \in Nat
      /\ MaxChunks \in Nat /\ Payout \in Nat /\ up + down < Payout
      /\ shares \in Nat
      /\ filled["UP"] \in Nat /\ filled["UP"] <= MaxChunks
      /\ filled["DOWN"] \in Nat /\ filled["DOWN"] <= MaxChunks
  BY BoxBotAssumption DEF Chunks, Outcomes
<1>2. /\ up * filled["UP"] \in Nat /\ up * MaxChunks \in Nat
      /\ up * filled["UP"] <= up * MaxChunks
  BY <1>1, TimesMonotone
<1>3. /\ down * filled["DOWN"] \in Nat /\ down * MaxChunks \in Nat
      /\ down * filled["DOWN"] <= down * MaxChunks
  BY <1>1, TimesMonotone
<1>4. /\ MaxTradeLoss \in Nat
      /\ up * MaxChunks <= MaxTradeLoss /\ down * MaxChunks <= MaxTradeLoss
  BY TradeLoss DEF Outcomes
<1>5. (Payout - up - down) * shares \in Nat
  BY <1>1
<1> HIDE DEF up, down
<1> QED BY <1>1, <1>2, <1>3, <1>4, <1>5 DEF Profit, up, down

LEMMA InitBoxBotInv ==
  ASSUME BoxBotInit
  PROVE  BoxBotInv
<1> USE BoxBotAssumption DEF BoxBotInit
<1>1. TypeInv
  <2>1. NoFigures \in Figures
    BY DEF NoFigures, Figures
  <2>2. /\ NoChunks \in [Outcomes -> Chunks] /\ NoChunks \in [Outcomes -> Nat]
        /\ NoResult \in [Outcomes -> {"none", "success", "failure"}]
        /\ 0 \in Chunks
    BY DEF NoChunks, NoResult, Chunks
  <2>3. traded \in BOOLEAN /\ clean \in BOOLEAN /\ passed \in BOOLEAN
    BY Zenon
  <2>4. begun \in BOOLEAN /\ remembered \in BOOLEAN
    BY Zenon
  <2> QED BY <2>1, <2>2, <2>3, <2>4 DEF TypeInv
<1>2. MaxTradeLoss \in Nat
  BY TradeLoss
<1>3. LimitInv
  BY <1>2 DEF LimitInv, Known, Reset, NoFigures
<1>4. SideInv /\ EntryInv
  BY DEF SideInv, EntryInv
<1> QED BY <1>1, <1>3, <1>4 DEF BoxBotInv

-----------------------------------------------------------------------------
(* Every step keeps the types. *)
LEMMA StepTypeInv ==
  ASSUME TypeInv, SideInv, [BoxBotNext]_botVars
  PROVE  TypeInv'
<1> USE BoxBotAssumption DEF TypeInv, GoTo, Fails, sideVars, timeVars,
        bookVars, memoryVars
<1>f. /\ NoFigures \in Figures
      /\ Reset(stored) \in Figures /\ Reset(stats) \in Figures
  BY ResetFigures DEF NoFigures, Figures
<1>n. /\ NoChunks \in [Outcomes -> Chunks] /\ NoChunks \in [Outcomes -> Nat]
      /\ NoResult \in [Outcomes -> {"none", "success", "failure"}]
      /\ 0 \in Chunks
  BY DEF NoChunks, NoResult, Chunks
<1>1. ASSUME Boot \/ LoadStats
      PROVE  TypeInv'
  BY <1>1, <1>f DEF Boot, LoadStats
<1>2. ASSUME EnsureSwitch
      PROVE  TypeInv'
  BY <1>2 DEF EnsureSwitch
<1>3. ASSUME InitializeFails
      PROVE  TypeInv'
  <2>1. remembered' \in BOOLEAN
    BY <1>3, Zenon DEF InitializeFails
  <2> QED BY <1>3, <2>1 DEF InitializeFails
<1>d. ASSUME Discover
      PROVE  TypeInv'
  <2>1. traded' \in BOOLEAN /\ passed' \in BOOLEAN /\ begun' \in BOOLEAN
    BY <1>d, Zenon DEF Discover
  <2> QED BY <1>d, <2>1 DEF Discover
<1>4. ASSUME NoMarket \/ Enter \/ LoopEnds
      PROVE  TypeInv'
  BY <1>4 DEF NoMarket, Enter, LoopEnds
<1>5. ASSUME CheckGlobal \/ CheckBtc
      PROVE  TypeInv'
  BY <1>5 DEF CheckGlobal, CheckBtc, CheckSwitch
<1>6. ASSUME WithinLimits \/ LimitFails
      PROVE  TypeInv'
  BY <1>6, <1>f DEF WithinLimits, LimitFails
<1>7. ASSUME LimitReached
      PROVE  TypeInv'
  BY <1>7, <1>f DEF LimitReached
<1>8. ASSUME NEW n \in Chunks \ {0}, ScanFinds(n)
      PROVE  TypeInv'
  BY <1>8, <1>n DEF ScanFinds
<1>9. ASSUME ScanNothing \/ PublishFails \/ WakeUp
      PROVE  TypeInv'
  BY <1>9 DEF ScanNothing, PublishFails, WakeUp
<1>p. ASSUME Publish
      PROVE  TypeInv'
  <2>1. traded' \in BOOLEAN
    BY <1>p, Zenon DEF Publish
  <2> QED BY <1>p, <2>1 DEF Publish
<1>w. ASSUME WaitForNextWindow
      PROVE  TypeInv'
  <2>1. passed' \in BOOLEAN
    BY <1>w, Zenon DEF WaitForNextWindow
  <2> QED BY <1>w, <2>1 DEF WaitForNextWindow
<1>10. ASSUME BothFail
       PROVE  TypeInv'
  BY <1>10, <1>n DEF BothFail, DecisionOver
<1>11. ASSUME RecordArbTrade
       PROVE  TypeInv'
  <2>1. Profit \in Int
    BY <1>11, ProfitBound DEF RecordArbTrade
  <2>2. /\ Booked(Reset(stats), Profit, Successes # Outcomes) \in Figures
        /\ Booked(ledger, Profit, Successes # Outcomes) \in Figures
    BY <1>f, <2>1, BookedFigures
  <2> QED BY <1>11, <1>n, <2>2 DEF RecordArbTrade, DecisionOver
<1>12. ASSUME PersistStats \/ CloseWindow \/ RecordSkip
       PROVE  TypeInv'
  BY <1>12 DEF PersistStats, CloseWindow, RecordSkip
<1>13. ASSUME Crash
       PROVE  TypeInv'
  <2>1. remembered' \in BOOLEAN
    BY <1>13, Zenon DEF Crash
  <2> QED BY <1>13, <1>n, <2>1 DEF Crash, DecisionOver
<1>14. ASSUME Tick
       PROVE  TypeInv'
  BY <1>14 DEF Tick
<1>15. ASSUME NextWindow
       PROVE  TypeInv'
  <2>1. passed' \in BOOLEAN /\ begun' \in BOOLEAN
    BY <1>15, Zenon DEF NextWindow
  <2>2. CASE UNCHANGED <<stored, stats, ledger, remembered>>
    BY <1>15, <2>1, <2>2 DEF NextWindow
  <2>3. CASE /\ stored' = [stored EXCEPT !.today = FALSE]
             /\ stats' = [stats EXCEPT !.today = FALSE]
             /\ ledger' = NoFigures
             /\ remembered' = TRUE
    <3>1. stored' \in Figures /\ stats' \in Figures
      BY <2>3 DEF Figures
    <3>2. remembered' \in BOOLEAN
      BY <2>3, Zenon
    <3> QED BY <1>15, <1>f, <2>1, <2>3, <3>1, <3>2 DEF NextWindow
  <2> QED BY <1>15, <2>2, <2>3 DEF NextWindow
<1>16. ASSUME NEW key \in Switches, Toggle(key)
       PROVE  TypeInv'
  BY <1>16 DEF Toggle
<1>17. UNCHANGED botVars => TypeInv'
  BY DEF botVars
<1>18. ASSUME NEW o \in Outcomes, OrderFilled(o), SideInv
       PROVE  TypeInv'
  BY <1>18 DEF OrderFilled, Ordering, SideInv, Chunks
<1>19. ASSUME NEW o \in Outcomes, OrderKilled(o)
       PROVE  TypeInv'
  BY <1>19 DEF OrderKilled
<1>20. ASSUME NEW o \in Outcomes, OrderThrows(o)
       PROVE  TypeInv'
  <2>1. clean' \in BOOLEAN
    BY <1>20, Zenon DEF OrderThrows
  <2>2. bought' \in [Outcomes -> Nat]
    BY <1>20 DEF OrderThrows
  <2> QED BY <1>20, <2>1, <2>2 DEF OrderThrows
<1> QED BY <1>1, <1>2, <1>3, <1>d, <1>p, <1>w, <1>4, <1>5, <1>6, <1>7, <1>8, <1>9, <1>10, <1>11,
           <1>12, <1>13, <1>14, <1>15, <1>16, <1>17, <1>18, <1>19, <1>20
        DEF BoxBotNext, Bot

-----------------------------------------------------------------------------
(* The sides of the decision in hand, chunk by chunk. *)
LEMMA StepSideInv ==
  ASSUME TypeInv, SideInv, [BoxBotNext]_botVars
  PROVE  SideInv'
<1> USE BoxBotAssumption DEF TypeInv, SideInv, GoTo
<1>1. ASSUME NEW n \in Chunks \ {0}, ScanFinds(n)
      PROVE  SideInv'
  BY <1>1 DEF ScanFinds, NoChunks, NoResult, Chunks
<1>2. ASSUME NEW o \in Outcomes, OrderFilled(o)
      PROVE  SideInv'
  <2> SUFFICES ASSUME NEW p \in Outcomes, pc' = "execute"
               PROVE  /\ left'[p] + filled'[p] = shares'
                      /\ result'[p] = "none" => left'[p] > 0 /\ bought'[p] = filled'[p]
                      /\ clean' => bought'[p] = filled'[p]
                      /\ clean' => (result'[p] = "success" <=> left'[p] = 0)
    OBVIOUS
  <2>1. CASE p = o
    BY <1>2, <2>1 DEF OrderFilled, Ordering, memoryVars, Chunks
  <2>2. CASE p # o
    BY <1>2, <2>2 DEF OrderFilled, Ordering, memoryVars, Chunks
  <2> QED BY <2>1, <2>2
<1>3. ASSUME NEW o \in Outcomes, OrderKilled(o)
      PROVE  SideInv'
  BY <1>3 DEF OrderKilled, Ordering, memoryVars, Chunks
<1>4. ASSUME NEW o \in Outcomes, OrderThrows(o)
      PROVE  SideInv'
  BY <1>4 DEF OrderThrows, Ordering, memoryVars, Chunks
<1>5. ASSUME Tick \/ NextWindow
      PROVE  SideInv'
  BY <1>5 DEF Tick, NextWindow, memoryVars, sideVars
<1>6. ASSUME NEW key \in Switches, Toggle(key)
      PROVE  SideInv'
  BY <1>6 DEF Toggle, memoryVars, sideVars
<1>7. CASE UNCHANGED botVars
  BY <1>7 DEF botVars, memoryVars, sideVars
<1>8. ASSUME \/ Boot \/ LoadStats \/ EnsureSwitch \/ InitializeFails
             \/ Discover \/ NoMarket \/ Enter \/ LoopEnds
      PROVE  SideInv'
  BY <1>8 DEF Boot, LoadStats, EnsureSwitch, InitializeFails, Discover,
     NoMarket, Enter, LoopEnds
<1>9. ASSUME CheckGlobal \/ CheckBtc \/ WithinLimits \/ LimitReached \/ LimitFails
      PROVE  SideInv'
  BY <1>9 DEF CheckGlobal, CheckBtc, CheckSwitch, WithinLimits, LimitReached,
     LimitFails
<1>10. ASSUME \/ ScanNothing \/ BothFail \/ RecordArbTrade \/ PersistStats
              \/ Publish \/ PublishFails \/ CloseWindow \/ RecordSkip
              \/ WaitForNextWindow \/ WakeUp \/ Crash
       PROVE  SideInv'
  BY <1>10 DEF ScanNothing, BothFail, RecordArbTrade, PersistStats, Publish,
     PublishFails, CloseWindow, RecordSkip, WaitForNextWindow, WakeUp, Crash
<1> QED BY <1>1, <1>2, <1>3, <1>4, <1>5, <1>6, <1>7, <1>8, <1>9, <1>10
        DEF BoxBotNext, Bot

(* A market is booked once. *)
LEMMA StepEntryInv ==
  ASSUME TypeInv, EntryInv, [BoxBotNext]_botVars
  PROVE  EntryInv'
<1> USE DEF TypeInv, EntryInv, GoTo, timeVars, bookVars, memoryVars
<1>1. ASSUME Boot \/ LoadStats \/ EnsureSwitch \/ InitializeFails
      PROVE  EntryInv'
  BY <1>1 DEF Boot, LoadStats, EnsureSwitch, InitializeFails
<1>2. ASSUME Discover \/ NoMarket \/ Enter \/ LoopEnds
      PROVE  EntryInv'
  BY <1>2 DEF Discover, NoMarket, Enter, LoopEnds
<1>3. ASSUME CheckGlobal \/ CheckBtc
      PROVE  EntryInv'
  BY <1>3 DEF CheckGlobal, CheckBtc, CheckSwitch, Scanning
<1>4. ASSUME WithinLimits \/ LimitReached \/ LimitFails
      PROVE  EntryInv'
  BY <1>4 DEF WithinLimits, LimitReached, LimitFails
<1>5. ASSUME NEW n \in Chunks \ {0}, ScanFinds(n)
      PROVE  EntryInv'
  BY <1>5 DEF ScanFinds
<1>6. ASSUME NEW o \in Outcomes, OrderFilled(o) \/ OrderKilled(o) \/ OrderThrows(o)
      PROVE  EntryInv'
  BY <1>6 DEF OrderFilled, OrderKilled, OrderThrows
<1>7. ASSUME ScanNothing \/ BothFail \/ RecordArbTrade \/ PersistStats \/ Publish
      PROVE  EntryInv'
  BY <1>7 DEF ScanNothing, BothFail, RecordArbTrade, PersistStats, Publish,
     Executed
<1>8. ASSUME \/ PublishFails \/ CloseWindow \/ RecordSkip
             \/ WaitForNextWindow \/ WakeUp \/ Crash
      PROVE  EntryInv'
  BY <1>8 DEF PublishFails, CloseWindow, RecordSkip, WaitForNextWindow,
     WakeUp, Crash
<1>9. ASSUME Tick \/ NextWindow
      PROVE  EntryInv'
  BY <1>9 DEF Tick, NextWindow
<1>10. ASSUME NEW key \in Switches, Toggle(key)
       PROVE  EntryInv'
  BY <1>10 DEF Toggle
<1>11. CASE UNCHANGED botVars
  BY <1>11 DEF botVars
<1> QED BY <1>1, <1>2, <1>3, <1>4, <1>5, <1>6, <1>7, <1>8, <1>9, <1>10, <1>11
        DEF BoxBotNext, Bot

(* The day's figures and limits. *)
LEMMA StepLimitInv ==
  ASSUME TypeInv, LimitInv, [BoxBotNext]_botVars
  PROVE  LimitInv'
<1> USE BoxBotAssumption DEF TypeInv, LimitInv, Known, GoTo, timeVars, bookVars,
        memoryVars
<1>r. /\ Reset(stored) \in Figures /\ Reset(stats) \in Figures
      /\ Reset(stored).today /\ Reset(stats).today
      /\ Reset(Reset(stored)) = Reset(stored)
      /\ Reset(Reset(stats)) = Reset(stats)
  BY ResetFigures
<1>l. MaxTradeLoss \in Nat /\ UNCHANGED MaxTradeLoss
  BY TradeLoss
<1>f. /\ ledger.profit \in Int /\ ledger.partials \in Nat
      /\ Reset(NoFigures) = NoFigures
      /\ NoFigures.today /\ NoFigures.profit = 0 /\ NoFigures.partials = 0
  BY DEF Figures, Reset, NoFigures
<1>1. ASSUME Boot
      PROVE  LimitInv'
  BY <1>1, <1>l DEF Boot, Reset
<1>2. ASSUME LoadStats
      PROVE  LimitInv'
  BY <1>2, <1>l, <1>r DEF LoadStats
<1>3. ASSUME EnsureSwitch
      PROVE  LimitInv'
  BY <1>3, <1>l DEF EnsureSwitch, Reset
<1>4. ASSUME InitializeFails
      PROVE  LimitInv'
  BY <1>4, <1>l DEF InitializeFails, Reset
<1>5. ASSUME Discover \/ NoMarket \/ Enter \/ LoopEnds
      PROVE  LimitInv'
  BY <1>5, <1>l DEF Discover, NoMarket, Enter, LoopEnds, Reset
<1>6. ASSUME CheckGlobal \/ CheckBtc
      PROVE  LimitInv'
  BY <1>6, <1>l DEF CheckGlobal, CheckBtc, CheckSwitch, Reset
<1>7. ASSUME WithinLimits
      PROVE  LimitInv'
  <2>1. /\ Known' = Known
        /\ ledger' = ledger /\ remembered' = remembered
    BY <1>7, <1>r DEF WithinLimits
  <2>2. remembered => ledger.profit > -MaxDailyLoss /\ ledger.partials < MaxPartialFills
    BY <1>7, <1>f DEF WithinLimits, LossReached, PartialsReached
  <2> QED BY <1>l, <2>1, <2>2
<1>8. ASSUME LimitReached \/ LimitFails
      PROVE  LimitInv'
  <2>1. /\ Known' = Known
        /\ ledger' = ledger /\ remembered' = remembered
        /\ pc' \notin {"scan", "execute"}
    BY <1>8, <1>r DEF LimitReached, LimitFails
  <2> QED BY <1>l, <2>1
<1>9. ASSUME NEW n \in Chunks \ {0}, ScanFinds(n)
      PROVE  LimitInv'
  BY <1>9, <1>l DEF ScanFinds, Reset
<1>10. ASSUME NEW o \in Outcomes, OrderFilled(o) \/ OrderKilled(o) \/ OrderThrows(o)
       PROVE  LimitInv'
  BY <1>10, <1>l DEF OrderFilled, OrderKilled, OrderThrows, Reset
<1>11. ASSUME ScanNothing \/ BothFail
       PROVE  LimitInv'
  BY <1>11, <1>l DEF ScanNothing, BothFail, Executed, Reset
<1>12. ASSUME RecordArbTrade
       PROVE  LimitInv'
  <2> DEFINE partial == Successes # Outcomes
  <2>1. Profit \in Int /\ Profit >= -MaxTradeLoss /\ partial \in BOOLEAN
    BY <1>12, ProfitBound DEF RecordArbTrade
  <2>2. /\ pc = "execute" /\ pc' = "persist"
        /\ stats' = Booked(Reset(stats), Profit, partial)
        /\ ledger' = Booked(ledger, Profit, partial)
        /\ remembered' = remembered
    BY <1>12 DEF RecordArbTrade, Executed
  <2>3. /\ ledger'.today
        /\ ledger'.profit = ledger.profit + Profit
        /\ ledger'.partials \in Nat /\ ledger'.partials <= ledger.partials + 1
    <3> HIDE DEF partial
    <3>0. ledger \in Figures /\ ledger.today
      OBVIOUS
    <3>1. /\ Booked(ledger, Profit, partial).today = ledger.today
          /\ Booked(ledger, Profit, partial).profit = ledger.profit + Profit
          /\ Booked(ledger, Profit, partial).partials
               = ledger.partials + (IF partial THEN 1 ELSE 0)
      BY Zenon DEF Booked
    <3> QED BY <1>f, <2>2, <3>0, <3>1
  <2>4. remembered => Known' = ledger'
    <3>1. stats'.today /\ stats' \in Figures
      <4> HIDE DEF partial
      <4>1. /\ Booked(Reset(stats), Profit, partial) \in Figures
            /\ Booked(Reset(stats), Profit, partial).today = Reset(stats).today
        BY <1>r, <2>1, BookedFigures
      <4> QED BY <1>r, <2>2, <4>1
    <3>2. Known' = stats'
      BY <2>2, <3>1 DEF Reset
    <3>3. remembered => Reset(stats) = ledger
      BY <2>2
    <3> QED BY <2>2, <3>2, <3>3
  <2> HIDE DEF partial
  <2> QED BY <1>f, <1>l, <2>1, <2>2, <2>3, <2>4
<1>13. ASSUME PersistStats \/ CloseWindow \/ RecordSkip
       PROVE  LimitInv'
  BY <1>13, <1>l DEF PersistStats, CloseWindow, RecordSkip, Reset
<1>14. ASSUME Publish \/ PublishFails \/ WaitForNextWindow \/ WakeUp
       PROVE  LimitInv'
  BY <1>14, <1>l DEF Publish, PublishFails, WaitForNextWindow, WakeUp, Reset
<1>15. ASSUME Crash
       PROVE  LimitInv'
  <2>1. remembered' => remembered /\ (pc = "load" \/ Reset(stored) = Reset(stats))
    BY <1>15 DEF Crash
  <2>2. UNCHANGED <<stored, stats, ledger>> /\ pc' = "down" /\ pc # "down"
    BY <1>15 DEF Crash
  <2>3. Known' = Reset(stored)
    BY <2>2 DEF Reset
  <2>4. remembered' => Known' = ledger'
    BY <2>1, <2>2, <2>3
  <2> QED BY <1>l, <2>1, <2>2, <2>4
<1>16. ASSUME Tick
       PROVE  LimitInv'
  BY <1>16, <1>l DEF Tick, Reset
<1>17. ASSUME NextWindow
       PROVE  LimitInv'
  <2>1. CASE UNCHANGED <<stored, stats, ledger, remembered>>
    BY <1>17, <1>l, <2>1 DEF NextWindow, Reset
  <2>2. CASE /\ stored' = [stored EXCEPT !.today = FALSE]
             /\ stats' = [stats EXCEPT !.today = FALSE]
             /\ ledger' = NoFigures
    <3>1. stored'.today = FALSE /\ stats'.today = FALSE
      BY <2>2, Zenon DEF Figures
    <3>2. Known' = NoFigures
      BY <3>1 DEF Reset
    <3> QED BY <1>f, <1>l, <2>2, <3>2
  <2> QED BY <1>17, <2>1, <2>2 DEF NextWindow
<1>18. ASSUME NEW key \in Switches, Toggle(key)
       PROVE  LimitInv'
  BY <1>18, <1>l DEF Toggle, Reset
<1>19. CASE UNCHANGED botVars
  BY <1>19, <1>l DEF botVars, Reset
<1> QED BY <1>1, <1>2, <1>3, <1>4, <1>5, <1>6, <1>7, <1>8, <1>9, <1>10, <1>11,
           <1>12, <1>13, <1>14, <1>15, <1>16, <1>17, <1>18, <1>19
        DEF BoxBotNext, Bot

-----------------------------------------------------------------------------
(* What the bot knows of the day is what it has booked on it, the sides of *)
(* a decision add up, and a market is booked once, for any number of       *)
(* windows, days, failures and restarts.                                   *)
THEOREM BoxBotInvHolds == BoxBotSpec => []BoxBotInv
<1>1. BoxBotInit => BoxBotInv
  BY InitBoxBotInv
<1>2. BoxBotInv /\ [BoxBotNext]_botVars => BoxBotInv'
  BY StepTypeInv, StepLimitInv, StepSideInv, StepEntryInv DEF BoxBotInv
<1> QED BY <1>1, <1>2, PTL DEF BoxBotSpec

(* The daily loss limit is missed by one trade at most, and the partial    *)
(* fills of a day never pass theirs, over midnight and restarts.           *)
THEOREM DailyLimitsAreKept == BoxBotSpec => []DailyLimitsHold
<1>1. BoxBotInv => DailyLimitsHold
  BY DEF BoxBotInv, LimitInv, DailyLimitsHold
<1> QED BY <1>1, BoxBotInvHolds, PTL

(* While no request throws, a side is reported a success exactly if all    *)
(* its chunks were bought, whatever the sizes and refusals.                *)
THEOREM SidesAreTold == BoxBotSpec => []SidesAreToldRight
<1>1. BoxBotInv => SidesAreToldRight
  <2> SUFFICES ASSUME BoxBotInv, Executed, clean, NEW o \in Outcomes
               PROVE  o \in Successes <=> bought[o] = shares
    BY DEF SidesAreToldRight
  <2>1. /\ left[o] \in Nat /\ filled[o] \in Nat /\ shares \in Nat
        /\ left[o] + filled[o] = shares
        /\ bought[o] = filled[o]
        /\ result[o] = "success" <=> left[o] = 0
    BY BoxBotAssumption DEF BoxBotInv, TypeInv, SideInv, Executed, Chunks
  <2> QED BY <2>1 DEF Successes
<1> QED BY <1>1, BoxBotInvHolds, PTL

(* No market is booked twice by one process, however late its orders end.  *)
THEOREM OneEntry == BoxBotSpec => []OneEntryPerWindow
<1>1. BoxBotInv => OneEntryPerWindow
  BY DEF BoxBotInv, EntryInv, OneEntryPerWindow
<1> QED BY <1>1, BoxBotInvHolds, PTL
=============================================================================
