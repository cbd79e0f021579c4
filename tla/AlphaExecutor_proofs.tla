------------------------- MODULE AlphaExecutor_proofs -------------------------
(***************************************************************************)
(* Theorems about AlphaExecutor, for every set of signals and markets, any *)
(* balances, thresholds and chunk size.                                    *)
(*                                                                         *)
(* The argument: IInv is inductive.  ShareInv accounts for the shares of a *)
(* signal: decided, still to buy, on order, filled, known to be filled.    *)
(* CapInv carries the caps from the decision to the last order.            *)
(* ExposureInv bounds the exposure by numbers of shares: those of signals  *)
(* that were counted for certain, and those of signals that may have been. *)
(*                                                                         *)
(* The second part is about the service whose signals the executor trades, *)
(* CryptoSignals: ChainInv, EarlyInv and RoundInv are inductive, for its   *)
(* sockets, for the opens of a window and for the time a round takes.      *)
(***************************************************************************)
EXTENDS AlphaExecutor, CryptoSignals, FiniteSetTheorems, WellFoundedInduction,
        TLAPS

-----------------------------------------------------------------------------
(* Arithmetic of the limits *)

LEMMA DivBounds ==
  ASSUME NEW a \in Nat
  PROVE  a \div 100 \in Nat /\ 100 * (a \div 100) <= a
OBVIOUS

LEMMA PercentagesAreNumbers ==
  ASSUME NEW ph \in Phases
  PROVE  /\ MaxPerTrade[ph] \in Nat
         /\ MaxExposure[ph] \in Nat
<1>1. ph = 1 \/ ph = 2 \/ ph = 3
  BY DEF Phases
<1> QED
  BY <1>1 DEF MaxPerTrade, MaxExposure

LEMMA ProductIsNumber ==
  ASSUME NEW a \in Nat, NEW b \in Nat
  PROVE  a * b \in Nat
OBVIOUS

LEMMA PhaseIsPhase ==
  ASSUME NEW capital \in Nat, NEW traded \in Nat
  PROVE  DeterminePhase(capital, traded) \in Phases
BY DEF DeterminePhase, Phases

(* What runAllChecks lets through keeps the per-trade cap and the exposure  *)
(* cap of the portfolio it was asked about.                                 *)
LEMMA AllowedSizeKeepsCaps ==
  ASSUME NEW p \in Snapshots, NEW bet \in Nat, NEW volume \in Nat
  PROVE  LET n == AllowedSize(p, bet, volume) IN
         /\ n \in Nat
         /\ n > 0 =>
              /\ 100 * n <= MaxPerTrade[p.phase] * p.balance
              /\ 100 * (p.exposure + n)
                   <= MaxExposure[p.phase] * Effective(p, volume)
<1> DEFINE cap   == MaxPerTrade[p.phase] * p.balance
           most  == MaxExposure[p.phase] * Effective(p, volume)
           room  == Room(p, volume)
           trade == Lesser(bet, cap \div 100)
           n     == AllowedSize(p, bet, volume)
<1>1. /\ p.balance \in Nat
      /\ p.exposure \in Nat
      /\ MaxPerTrade[p.phase] \in Nat
      /\ MaxExposure[p.phase] \in Nat
  BY PercentagesAreNumbers DEF Snapshots
<1>2. Effective(p, volume) \in Nat
  BY <1>1 DEF Effective
<1>3. cap \in Nat /\ most \in Nat
  BY <1>1, <1>2, ProductIsNumber
<1>4. room = most - 100 * p.exposure
  BY DEF Room
<1> HIDE DEF cap, most, room
<1>5. trade \in Nat /\ 100 * trade <= cap
  BY <1>3, DivBounds DEF Lesser
<1>6. \/ n = 0
      \/ room > 0 /\ n = trade /\ 100 * trade <= room
      \/ room > 0 /\ n = room \div 100 /\ ~ (100 * trade <= room)
  <2>1. room \in Int
    BY <1>1, <1>3, <1>4
  <2> DEFINE reject == 100 * bet > PerMarketCap * p.balance
             small  == 2 * room < MaxPerTrade[p.phase] * Effective(p, volume)
  <2>2. n = IF reject \/ room <= 0 THEN 0
            ELSE IF 100 * trade <= room THEN trade
            ELSE IF small THEN 0
            ELSE room \div 100
    BY DEF AllowedSize, cap, room
  <2> HIDE DEF reject, small, trade, n
  <2>3. CASE reject \/ room <= 0
    BY <2>2, <2>3
  <2>4. CASE ~ (reject \/ room <= 0)
    BY <1>5, <2>1, <2>2, <2>4
  <2> QED
    BY <2>3, <2>4
<1> HIDE DEF trade, n
<1>7. CASE n = 0
  BY <1>7 DEF n
<1>8. CASE room > 0 /\ n = trade /\ 100 * trade <= room
  <2>1. /\ n \in Nat
        /\ 100 * n <= cap
        /\ 100 * (p.exposure + n) <= most
    BY <1>1, <1>3, <1>4, <1>5, <1>8
  <2> QED
    BY <2>1 DEF n, cap, most
<1>9. CASE room > 0 /\ n = room \div 100 /\ ~ (100 * trade <= room)
  <2>1. room \in Nat
    BY <1>1, <1>3, <1>4, <1>9
  <2>2. n \in Nat /\ 100 * n <= room
    BY <1>9, <2>1, DivBounds
  <2>3. /\ n \in Nat
        /\ 100 * n <= cap
        /\ 100 * (p.exposure + n) <= most
    BY <1>1, <1>3, <1>4, <1>5, <1>9, <2>1, <2>2
  <2> QED
    BY <2>3 DEF n, cap, most
<1> QED
  BY <1>6, <1>7, <1>8, <1>9

LEMMA BetSizesAreNumbers ==
  ASSUME NEW p \in Snapshots, NEW bet \in BetSizes(p)
  PROVE  bet \in Nat
<1> DEFINE available == IF p.balance > p.exposure THEN p.balance - p.exposure ELSE 0
<1>1. available \in Nat
  BY DEF Snapshots
<1>2. MaxPerTrade[p.phase] \in Nat
  BY PercentagesAreNumbers DEF Snapshots
<1>3. available * MaxPerTrade[p.phase] \in Nat
  BY <1>1, <1>2, ProductIsNumber
<1>4. (available * MaxPerTrade[p.phase]) \div 100 \in Nat
  BY <1>3, DivBounds
<1> QED
  BY <1>4 DEF BetSizes

-----------------------------------------------------------------------------
(* Type correctness *)

LEMMA TypeInit == Init => TypeOK
<1> SUFFICES ASSUME Init
             PROVE  TypeOK
  OBVIOUS
<1>1. StartExposure \in Nat /\ MaxRestarts \in Nat /\ StartCost \in [Markets -> Nat]
  BY AlphaNumbersAssumption
<1>2. NoSnapshot \in Snapshots
  BY DEF NoSnapshot, Snapshots, Phases
<1>3. byVertical \in [Sources -> SUBSET Markets]
  BY DEF Init
<1> QED
  BY <1>1, <1>2, <1>3 DEF Init, TypeOK, HandlerStates

(* A chunk is no more than what remains: without ShareInv the remaining     *)
(* shares could become negative.                                            *)
LEMMA TypeStep == TypeOK /\ ShareInv /\ [Next]_vars => TypeOK'
<1> SUFFICES ASSUME TypeOK, ShareInv, [Next]_vars
             PROVE  TypeOK'
  OBVIOUS
<1> USE DEF TypeOK, HandlerStates, Advance, redisVars, processVars, readVars,
        tradeVars, orderVars
<1>1. ASSUME NEW s \in Signals, HandlerStep(s)
      PROVE  TypeOK'
  <2>1. CASE CheckSwitches(s)
    BY <2>1 DEF CheckSwitches
  <2>2. CASE ReadPortfolio(s)
    <3>1. PICK b \in Balances, loss \in DailyLosses :
            snap' = [snap EXCEPT ![s] =
                       [balance |-> b, exposure |-> exposure,
                        peak |-> IF peak = 0 THEN b ELSE peak,
                        dailyLoss |-> loss,
                        phase |-> DeterminePhase(b, windows)]]
      BY <2>2 DEF ReadPortfolio
    <3>2. b \in Nat /\ loss \in Nat
      BY AlphaNumbersAssumption
    <3>3. DeterminePhase(b, windows) \in Phases
      BY <3>2, PhaseIsPhase
    <3>4. snap' \in [Signals -> Snapshots]
      BY <3>1, <3>2, <3>3 DEF Snapshots
    <3> QED
      BY <2>2, <3>4 DEF ReadPortfolio
  <2>3. CASE Validate(s)
    BY <2>3 DEF Validate
  <2>4. CASE CheckPosition(s)
    <3>1. size' \in [Signals -> Nat]
      BY <2>4, BetSizesAreNumbers DEF CheckPosition
    <3> QED
      BY <2>4, <3>1 DEF CheckPosition
  <2>5. CASE ListVertical(s)
    <3>1. SourceOf[MarketOf[s]] \in Sources
      BY AlphaSignalsAssumption
    <3> QED
      BY <2>5, <3>1 DEF ListVertical
  <2>6. CASE ReadCost(s)
    BY <2>6 DEF ReadCost
  <2>7. CASE CheckUnrealized(s)
    BY <2>7 DEF CheckUnrealized
  <2>8. CASE CheckVertical(s)
    BY <2>8 DEF CheckVertical
  <2>9. CASE DecideSize(s)
    <3>1. PICK volume \in LatencyVolumes \cup {0} :
            LET n == AllowedSize(snap[s], size[s], volume) IN
            /\ reserved' = [reserved EXCEPT ![s] = volume]
            /\ size' = [size EXCEPT ![s] = n]
            /\ remaining' = [remaining EXCEPT ![s] = n]
      BY <2>9 DEF DecideSize
    <3>2. volume \in Nat
      BY AlphaNumbersAssumption
    <3>3. AllowedSize(snap[s], size[s], volume) \in Nat
      BY <3>2, AllowedSizeKeepsCaps
    <3>4. MarketOf[s] \in Markets
      BY AlphaSignalsAssumption
    <3> QED
      BY <2>9, <3>1, <3>2, <3>3, <3>4 DEF DecideSize
  <2>10. CASE NextChunk(s)
    BY <2>10, AlphaNumbersAssumption DEF NextChunk, Lesser
  <2>11. CASE EndLoop(s)
    BY <2>11 DEF EndLoop
  <2>12. CASE SubmitOrder(s)
    BY <2>12 DEF SubmitOrder
  <2>13. CASE ChunkFilled(s)
    <3>1. chunk[s] <= remaining[s]
      BY <2>13 DEF ChunkFilled, ShareInv, SharesOf
    <3>2. remaining[s] - chunk[s] \in Nat
      BY <3>1
    <3> QED
      BY <2>13, <3>2 DEF ChunkFilled
  <2>14. CASE ChunkFails(s)
    BY <2>14 DEF ChunkFails
  <2>15. CASE ShareCount(s)
    BY <2>15 DEF ShareCount
  <2>16. CASE SetPosition(s)
    BY <2>16, AlphaSignalsAssumption DEF SetPosition
  <2>17. CASE AddExposure(s)
    BY <2>17 DEF AddExposure
  <2>18. CASE AddToVertical(s)
    BY <2>18, AlphaSignalsAssumption DEF AddToVertical
  <2>19. CASE PersistPosition(s)
    BY <2>19 DEF PersistPosition
  <2>20. CASE ReadPeak(s)
    BY <2>20 DEF ReadPeak
  <2>21. CASE SetPeak(s)
    BY <2>21 DEF SetPeak, Snapshots
  <2>22. CASE CountWindow(s)
    BY <2>22 DEF CountWindow
  <2>23. CASE RedisFails(s)
    BY <2>23 DEF RedisFails
  <2> QED
    BY <1>1, <2>1, <2>2, <2>3, <2>4, <2>5, <2>6, <2>7, <2>8, <2>9, <2>10,
       <2>11, <2>12, <2>13, <2>14, <2>15, <2>16, <2>17, <2>18, <2>19, <2>20,
       <2>21, <2>22, <2>23
    DEF HandlerStep, Decide, Trade, Record
<1>2. CASE OperatorFlipsSwitch
  BY <1>2 DEF OperatorFlipsSwitch
<1>3. CASE Stop
  BY <1>3 DEF Stop
<1>4. CASE Crash
  BY <1>4 DEF Crash
<1>5. CASE Restart
  BY <1>5, AlphaNumbersAssumption DEF Restart
<1>6. ASSUME NEW m \in Markets, ForgetSignal(m)
      PROVE  TypeOK'
  BY <1>6 DEF ForgetSignal
<1>7. ASSUME NEW s \in Signals, Publish(s)
      PROVE  TypeOK'
  BY <1>7 DEF Publish
<1>8. ASSUME NEW s \in Signals, ExchangeHandles(s)
      PROVE  TypeOK'
  BY <1>8 DEF ExchangeHandles
<1>9. CASE UNCHANGED vars
  BY <1>9 DEF vars
<1> QED
  BY <1>1, <1>2, <1>3, <1>4, <1>5, <1>6, <1>7, <1>8, <1>9 DEF Next, Environment

-----------------------------------------------------------------------------
(* The shares of a signal *)

LEMMA ShareInit == Init => ShareInv
BY DEF Init, ShareInv, SharesOf, Trading, Recording

LEMMA ShareStep == TypeOK /\ ShareInv /\ [Next]_vars => ShareInv'
<1> SUFFICES ASSUME TypeOK, ShareInv, [Next]_vars, NEW t \in Signals
             PROVE  SharesOf(t)'
  BY DEF ShareInv
<1> USE DEF Advance, redisVars, processVars, readVars, tradeVars, orderVars
<1>0. /\ SharesOf(t)
      /\ handler \in [Signals -> HandlerStates]
      /\ size \in [Signals -> Nat]
      /\ remaining \in [Signals -> Nat]
      /\ filled \in [Signals -> Nat]
      /\ chunk \in [Signals -> Nat]
      /\ bought \in [Signals -> Nat]
      /\ order \in [Signals -> {"none", "sent", "filled", "refused"}]
  BY DEF TypeOK, ShareInv
<1>1. ASSUME NEW s \in Signals, HandlerStep(s)
      PROVE  SharesOf(t)'
  <2>1. CASE CheckSwitches(s)
    BY <2>1, <1>0 DEF CheckSwitches, SharesOf, Trading, Recording
  <2>2. CASE ReadPortfolio(s)
    BY <2>2, <1>0 DEF ReadPortfolio, SharesOf, Trading, Recording
  <2>3. CASE Validate(s)
    BY <2>3, <1>0 DEF Validate, SharesOf, Trading, Recording
  <2>4. CASE CheckPosition(s)
    BY <2>4, <1>0 DEF CheckPosition, SharesOf, Trading, Recording
  <2>5. CASE ListVertical(s)
    BY <2>5, <1>0 DEF ListVertical, SharesOf, Trading, Recording
  <2>6. CASE ReadCost(s)
    BY <2>6, <1>0 DEF ReadCost, SharesOf, Trading, Recording
  <2>7. CASE CheckUnrealized(s)
    BY <2>7, <1>0 DEF CheckUnrealized, SharesOf, Trading, Recording
  <2>8. CASE CheckVertical(s)
    BY <2>8, <1>0 DEF CheckVertical, SharesOf, Trading, Recording
  <2>9. CASE DecideSize(s)
    <3>1. PICK volume \in LatencyVolumes \cup {0} :
            LET n == AllowedSize(snap[s], size[s], volume) IN
            /\ handler[s] = "caps"
            /\ handler' = [handler EXCEPT ![s] = IF n > 0 THEN "loop" ELSE "done"]
            /\ size' = [size EXCEPT ![s] = n]
            /\ remaining' = [remaining EXCEPT ![s] = n]
            /\ UNCHANGED <<filled, chunk, order, bought>>
      BY <2>9 DEF DecideSize
    <3>2. volume \in Nat /\ snap[s] \in Snapshots /\ size[s] \in Nat
      BY AlphaNumbersAssumption DEF TypeOK
    <3>3. AllowedSize(snap[s], size[s], volume) \in Nat
      BY <3>2, AllowedSizeKeepsCaps
    <3> HIDE DEF AllowedSize
    <3> QED
      BY <1>0, <3>1, <3>3 DEF SharesOf, Trading, Recording
  <2>10. CASE NextChunk(s)
    BY <2>10, <1>0, AlphaNumbersAssumption
    DEF NextChunk, Lesser, SharesOf, Trading, Recording
  <2>11. CASE EndLoop(s)
    BY <2>11, <1>0 DEF EndLoop, SharesOf, Trading, Recording
  <2>12. CASE SubmitOrder(s)
    BY <2>12, <1>0 DEF SubmitOrder, SharesOf, Trading, Recording
  <2>13. CASE ChunkFilled(s)
    BY <2>13, <1>0 DEF ChunkFilled, SharesOf, Trading, Recording
  <2>14. CASE ChunkFails(s)
    BY <2>14, <1>0 DEF ChunkFails, SharesOf, Trading, Recording
  <2>15. CASE ShareCount(s)
    BY <2>15, <1>0 DEF ShareCount, SharesOf, Trading, Recording
  <2>16. CASE SetPosition(s)
    BY <2>16, <1>0 DEF SetPosition, SharesOf, Trading, Recording
  <2>17. CASE AddExposure(s)
    BY <2>17, <1>0 DEF AddExposure, SharesOf, Trading, Recording
  <2>18. CASE AddToVertical(s)
    BY <2>18, <1>0 DEF AddToVertical, SharesOf, Trading, Recording
  <2>19. CASE PersistPosition(s)
    BY <2>19, <1>0 DEF PersistPosition, SharesOf, Trading, Recording
  <2>20. CASE ReadPeak(s)
    BY <2>20, <1>0 DEF ReadPeak, SharesOf, Trading, Recording
  <2>21. CASE SetPeak(s)
    BY <2>21, <1>0 DEF SetPeak, SharesOf, Trading, Recording
  <2>22. CASE CountWindow(s)
    BY <2>22, <1>0 DEF CountWindow, SharesOf, Trading, Recording
  <2>23. CASE RedisFails(s)
    BY <2>23, <1>0 DEF RedisFails, SharesOf, Trading, Recording
  <2> QED
    BY <1>1, <2>1, <2>2, <2>3, <2>4, <2>5, <2>6, <2>7, <2>8, <2>9, <2>10,
       <2>11, <2>12, <2>13, <2>14, <2>15, <2>16, <2>17, <2>18, <2>19, <2>20,
       <2>21, <2>22, <2>23
    DEF HandlerStep, Decide, Trade, Record
<1>2. CASE OperatorFlipsSwitch
  BY <1>2, <1>0 DEF OperatorFlipsSwitch, SharesOf, Trading, Recording
<1>3. CASE Stop
  BY <1>3, <1>0 DEF Stop, SharesOf, Trading, Recording
<1>4. CASE Crash
  BY <1>4, <1>0 DEF Crash, SharesOf, Trading, Recording
<1>5. CASE Restart
  BY <1>5, <1>0 DEF Restart, SharesOf, Trading, Recording
<1>6. ASSUME NEW m \in Markets, ForgetSignal(m)
      PROVE  SharesOf(t)'
  BY <1>6, <1>0 DEF ForgetSignal, SharesOf, Trading, Recording
<1>7. ASSUME NEW s \in Signals, Publish(s)
      PROVE  SharesOf(t)'
  BY <1>7, <1>0 DEF Publish, SharesOf, Trading, Recording
<1>8. ASSUME NEW s \in Signals, ExchangeHandles(s)
      PROVE  SharesOf(t)'
  BY <1>8, <1>0 DEF ExchangeHandles, SharesOf, Trading, Recording
<1>9. CASE UNCHANGED vars
  BY <1>9, <1>0 DEF vars, SharesOf, Trading, Recording
<1> QED
  BY <1>1, <1>2, <1>3, <1>4, <1>5, <1>6, <1>7, <1>8, <1>9 DEF Next, Environment

-----------------------------------------------------------------------------
(* The caps of a signal *)

LEMMA CapInit == Init => CapInv
BY DEF Init, CapInv, CapsOf, Trading, Recording

(* A signal that is not trading and has no request starts to trade only     *)
(* where its size is decided; from there on nothing touches what its caps   *)
(* are computed from.                                                       *)
LEMMA CapStep == TypeOK /\ ShareInv /\ CapInv /\ [Next]_vars => CapInv'
<1> SUFFICES ASSUME TypeOK, ShareInv, CapInv, [Next]_vars, NEW t \in Signals
             PROVE  CapsOf(t)'
  BY DEF CapInv
<1> USE DEF Advance, redisVars, processVars, readVars, tradeVars, orderVars
<1>0. /\ CapsOf(t)
      /\ handler[t] \notin Trading \cup {"done"} => order[t] = "none"
      /\ handler \in [Signals -> HandlerStates]
      /\ snap \in [Signals -> Snapshots]
      /\ reserved \in [Signals -> Nat]
      /\ size \in [Signals -> Nat]
      /\ order \in [Signals -> {"none", "sent", "filled", "refused"}]
  BY DEF TypeOK, ShareInv, SharesOf, CapInv
<1>1. ASSUME NEW s \in Signals, HandlerStep(s)
      PROVE  CapsOf(t)'
  <2>1. CASE CheckSwitches(s)
    BY <2>1, <1>0 DEF CheckSwitches, CapsOf, CapOf, Effective, Trading, Recording
  <2>2. CASE ReadPortfolio(s)
    BY <2>2, <1>0 DEF ReadPortfolio, CapsOf, CapOf, Effective, Trading, Recording
  <2>3. CASE Validate(s)
    BY <2>3, <1>0 DEF Validate, CapsOf, CapOf, Effective, Trading, Recording
  <2>4. CASE CheckPosition(s)
    BY <2>4, <1>0 DEF CheckPosition, CapsOf, CapOf, Effective, Trading, Recording
  <2>5. CASE ListVertical(s)
    BY <2>5, <1>0 DEF ListVertical, CapsOf, CapOf, Effective, Trading, Recording
  <2>6. CASE ReadCost(s)
    BY <2>6, <1>0 DEF ReadCost, CapsOf, CapOf, Effective, Trading, Recording
  <2>7. CASE CheckUnrealized(s)
    BY <2>7, <1>0 DEF CheckUnrealized, CapsOf, CapOf, Effective, Trading, Recording
  <2>8. CASE CheckVertical(s)
    BY <2>8, <1>0 DEF CheckVertical, CapsOf, CapOf, Effective, Trading, Recording
  <2>9. CASE DecideSize(s)
    <3>1. PICK volume \in LatencyVolumes \cup {0} :
            LET n == AllowedSize(snap[s], size[s], volume) IN
            /\ handler[s] = "caps"
            /\ handler' = [handler EXCEPT ![s] = IF n > 0 THEN "loop" ELSE "done"]
            /\ reserved' = [reserved EXCEPT ![s] = volume]
            /\ size' = [size EXCEPT ![s] = n]
            /\ UNCHANGED <<snap, order>>
      BY <2>9 DEF DecideSize
    <3>2. CASE t # s
      BY <1>0, <3>1, <3>2 DEF CapsOf, CapOf
    <3>3. CASE t = s
      <4>1. volume \in Nat /\ snap[t] \in Snapshots /\ size[t] \in Nat
        BY <1>0, AlphaNumbersAssumption
      <4> DEFINE n == AllowedSize(snap[t], size[t], volume)
      <4>2. /\ n \in Nat
            /\ n > 0 =>
                 /\ 100 * n <= MaxPerTrade[snap[t].phase] * snap[t].balance
                 /\ 100 * (snap[t].exposure + n)
                      <= MaxExposure[snap[t].phase] * Effective(snap[t], volume)
        BY <4>1, AllowedSizeKeepsCaps
      <4> HIDE DEF n
      <4>3. /\ order'[t] = "none"
            /\ size'[t] = n
            /\ reserved'[t] = volume
            /\ snap'[t] = snap[t]
            /\ n = 0 => handler'[t] = "done"
        BY <1>0, <3>1, <3>3, <4>2 DEF n, Trading, Recording
      <4>4. CASE n > 0
        BY <4>2, <4>3, <4>4 DEF CapsOf, CapOf, Effective
      <4>5. CASE n = 0
        BY <4>3, <4>5 DEF CapsOf, Trading, Recording
      <4> QED
        BY <4>2, <4>4, <4>5
    <3> QED
      BY <3>2, <3>3
  <2>10. CASE NextChunk(s)
    BY <2>10, <1>0 DEF NextChunk, CapsOf, CapOf, Effective, Trading, Recording
  <2>11. CASE EndLoop(s)
    BY <2>11, <1>0 DEF EndLoop, CapsOf, CapOf, Effective, Trading, Recording
  <2>12. CASE SubmitOrder(s)
    BY <2>12, <1>0 DEF SubmitOrder, CapsOf, CapOf, Effective, Trading, Recording
  <2>13. CASE ChunkFilled(s)
    BY <2>13, <1>0 DEF ChunkFilled, CapsOf, CapOf, Effective, Trading, Recording
  <2>14. CASE ChunkFails(s)
    BY <2>14, <1>0 DEF ChunkFails, CapsOf, CapOf, Effective, Trading, Recording
  <2>15. CASE ShareCount(s)
    BY <2>15, <1>0 DEF ShareCount, CapsOf, CapOf, Effective, Trading, Recording
  <2>16. CASE SetPosition(s)
    BY <2>16, <1>0 DEF SetPosition, CapsOf, CapOf, Effective, Trading, Recording
  <2>17. CASE AddExposure(s)
    BY <2>17, <1>0 DEF AddExposure, CapsOf, CapOf, Effective, Trading, Recording
  <2>18. CASE AddToVertical(s)
    BY <2>18, <1>0 DEF AddToVertical, CapsOf, CapOf, Effective, Trading, Recording
  <2>19. CASE PersistPosition(s)
    BY <2>19, <1>0 DEF PersistPosition, CapsOf, CapOf, Effective, Trading, Recording
  <2>20. CASE ReadPeak(s)
    BY <2>20, <1>0 DEF ReadPeak, CapsOf, CapOf, Effective, Trading, Recording
  <2>21. CASE SetPeak(s)
    BY <2>21, <1>0 DEF SetPeak, CapsOf, CapOf, Effective, Trading, Recording
  <2>22. CASE CountWindow(s)
    BY <2>22, <1>0 DEF CountWindow, CapsOf, CapOf, Effective, Trading, Recording
  <2>23. CASE RedisFails(s)
    BY <2>23, <1>0 DEF RedisFails, CapsOf, CapOf, Effective, Trading, Recording
  <2> QED
    BY <1>1, <2>1, <2>2, <2>3, <2>4, <2>5, <2>6, <2>7, <2>8, <2>9, <2>10,
       <2>11, <2>12, <2>13, <2>14, <2>15, <2>16, <2>17, <2>18, <2>19, <2>20,
       <2>21, <2>22, <2>23
    DEF HandlerStep, Decide, Trade, Record
<1>2. CASE OperatorFlipsSwitch
  BY <1>2, <1>0 DEF OperatorFlipsSwitch, CapsOf, CapOf, Effective, Trading, Recording
<1>3. CASE Stop
  BY <1>3, <1>0 DEF Stop, CapsOf, CapOf, Effective, Trading, Recording
<1>4. CASE Crash
  BY <1>4, <1>0 DEF Crash, CapsOf, CapOf, Effective, Trading, Recording
<1>5. CASE Restart
  BY <1>5, <1>0 DEF Restart, CapsOf, CapOf, Effective, Trading, Recording
<1>6. ASSUME NEW m \in Markets, ForgetSignal(m)
      PROVE  CapsOf(t)'
  BY <1>6, <1>0 DEF ForgetSignal, CapsOf, CapOf, Effective, Trading, Recording
<1>7. ASSUME NEW s \in Signals, Publish(s)
      PROVE  CapsOf(t)'
  BY <1>7, <1>0 DEF Publish, CapsOf, CapOf, Effective, Trading, Recording
<1>8. ASSUME NEW s \in Signals, ExchangeHandles(s)
      PROVE  CapsOf(t)'
  BY <1>8, <1>0 DEF ExchangeHandles, CapsOf, CapOf, Effective, Trading, Recording
<1>9. CASE UNCHANGED vars
  BY <1>9, <1>0 DEF vars, CapsOf, CapOf, Effective, Trading, Recording
<1> QED
  BY <1>1, <1>2, <1>3, <1>4, <1>5, <1>6, <1>7, <1>8, <1>9
  DEF Next, Environment

-----------------------------------------------------------------------------
(* The rows of the database *)

LEMMA RowInit == Init => RowInv
BY DEF Init, RowInv, RowOf, Recording

LEMMA RowStep == TypeOK /\ RowInv /\ [Next]_vars => RowInv'
<1> SUFFICES ASSUME TypeOK, RowInv, [Next]_vars, NEW t \in Signals
             PROVE  RowOf(t)'
  BY DEF RowInv
<1> USE DEF Advance, redisVars, processVars, readVars, tradeVars, orderVars
<1>0. /\ RowOf(t)
      /\ handler \in [Signals -> HandlerStates]
      /\ filled \in [Signals -> Nat]
      /\ chunk \in [Signals -> Nat]
  BY DEF TypeOK, RowInv
<1>1. ASSUME NEW s \in Signals, HandlerStep(s)
      PROVE  RowOf(t)'
  <2>1. CASE CheckSwitches(s)
    BY <2>1, <1>0 DEF CheckSwitches, RowOf, Recording
  <2>2. CASE ReadPortfolio(s)
    BY <2>2, <1>0 DEF ReadPortfolio, RowOf, Recording
  <2>3. CASE Validate(s)
    BY <2>3, <1>0 DEF Validate, RowOf, Recording
  <2>4. CASE CheckPosition(s)
    BY <2>4, <1>0 DEF CheckPosition, RowOf, Recording
  <2>5. CASE ListVertical(s)
    BY <2>5, <1>0 DEF ListVertical, RowOf, Recording
  <2>6. CASE ReadCost(s)
    BY <2>6, <1>0 DEF ReadCost, RowOf, Recording
  <2>7. CASE CheckUnrealized(s)
    BY <2>7, <1>0 DEF CheckUnrealized, RowOf, Recording
  <2>8. CASE CheckVertical(s)
    BY <2>8, <1>0 DEF CheckVertical, RowOf, Recording
  <2>9. CASE DecideSize(s)
    BY <2>9, <1>0 DEF DecideSize, RowOf, Recording
  <2>10. CASE NextChunk(s)
    BY <2>10, <1>0 DEF NextChunk, RowOf, Recording
  <2>11. CASE EndLoop(s)
    BY <2>11, <1>0 DEF EndLoop, RowOf, Recording
  <2>12. CASE SubmitOrder(s)
    BY <2>12, <1>0 DEF SubmitOrder, RowOf, Recording
  <2>13. CASE ChunkFilled(s)
    BY <2>13, <1>0 DEF ChunkFilled, RowOf, Recording
  <2>14. CASE ChunkFails(s)
    BY <2>14, <1>0 DEF ChunkFails, RowOf, Recording
  <2>15. CASE ShareCount(s)
    BY <2>15, <1>0 DEF ShareCount, RowOf, Recording
  <2>16. CASE SetPosition(s)
    BY <2>16, <1>0 DEF SetPosition, RowOf, Recording
  <2>17. CASE AddExposure(s)
    BY <2>17, <1>0 DEF AddExposure, RowOf, Recording
  <2>18. CASE AddToVertical(s)
    BY <2>18, <1>0 DEF AddToVertical, RowOf, Recording
  <2>19. CASE PersistPosition(s)
    BY <2>19, <1>0 DEF PersistPosition, RowOf, Recording
  <2>20. CASE ReadPeak(s)
    BY <2>20, <1>0 DEF ReadPeak, RowOf, Recording
  <2>21. CASE SetPeak(s)
    BY <2>21, <1>0 DEF SetPeak, RowOf, Recording
  <2>22. CASE CountWindow(s)
    BY <2>22, <1>0 DEF CountWindow, RowOf, Recording
  <2>23. CASE RedisFails(s)
    BY <2>23, <1>0 DEF RedisFails, RowOf, Recording
  <2> QED
    BY <1>1, <2>1, <2>2, <2>3, <2>4, <2>5, <2>6, <2>7, <2>8, <2>9, <2>10,
       <2>11, <2>12, <2>13, <2>14, <2>15, <2>16, <2>17, <2>18, <2>19, <2>20,
       <2>21, <2>22, <2>23
    DEF HandlerStep, Decide, Trade, Record
<1>2. CASE OperatorFlipsSwitch
  BY <1>2, <1>0 DEF OperatorFlipsSwitch, RowOf, Recording
<1>3. CASE Stop
  BY <1>3, <1>0 DEF Stop, RowOf, Recording
<1>4. CASE Crash
  BY <1>4, <1>0 DEF Crash, RowOf, Recording
<1>5. CASE Restart
  BY <1>5, <1>0 DEF Restart, RowOf, Recording
<1>6. ASSUME NEW m \in Markets, ForgetSignal(m)
      PROVE  RowOf(t)'
  BY <1>6, <1>0 DEF ForgetSignal, RowOf, Recording
<1>7. ASSUME NEW s \in Signals, Publish(s)
      PROVE  RowOf(t)'
  BY <1>7, <1>0 DEF Publish, RowOf, Recording
<1>8. ASSUME NEW s \in Signals, ExchangeHandles(s)
      PROVE  RowOf(t)'
  BY <1>8, <1>0 DEF ExchangeHandles, RowOf, Recording
<1>9. CASE UNCHANGED vars
  BY <1>9, <1>0 DEF vars, RowOf, Recording
<1> QED
  BY <1>1, <1>2, <1>3, <1>4, <1>5, <1>6, <1>7, <1>8, <1>9
  DEF Next, Environment

-----------------------------------------------------------------------------
(* The exposure *)

LEMMA MemberOfShares ==
  ASSUME NEW f, NEW S, NEW x
  PROVE  x \in SharesIn(f, S) <=> \E s \in S : \E i \in 1 .. f[s] : x = <<s, i>>
BY DEF SharesIn

LEMMA SharesAreFinite ==
  ASSUME NEW f \in [Signals -> Nat], NEW S \in SUBSET Signals
  PROVE  /\ IsFiniteSet(SharesIn(f, S))
         /\ Cardinality(SharesIn(f, S)) \in Nat
<1> DEFINE sharesOf == [s \in S |-> {s} \X (1 .. f[s])]
           family == {{s} \X (1 .. f[s]) : s \in S}
<1>1. IsFiniteSet(S)
  BY AlphaSignalsAssumption, FS_Subset
<1>2. sharesOf \in Surjection(S, family)
  BY DEF Surjection
<1>3. IsFiniteSet(family)
  <2> HIDE DEF sharesOf, family
  <2> QED
    BY <1>1, <1>2, FS_Surjection
<1>4. ASSUME NEW T \in family
      PROVE  IsFiniteSet(T)
  <2>1. PICK s \in S : T = {s} \X (1 .. f[s])
    OBVIOUS
  <2>2. f[s] \in Int
    OBVIOUS
  <2>3. IsFiniteSet({s})
    BY FS_Singleton
  <2>4. IsFiniteSet(1 .. f[s])
    BY <2>2, FS_Interval
  <2> QED
    BY <2>1, <2>3, <2>4, FS_Product
<1>5. IsFiniteSet(UNION family)
  <2> HIDE DEF family
  <2> QED
    BY <1>3, <1>4, FS_UNION
<1>6. SharesIn(f, S) = UNION family
  BY DEF SharesIn
<1> QED
  BY <1>5, <1>6, FS_CardinalityType

(* A sum grows with its terms and with the set it is over. *)
LEMMA MoreShares ==
  ASSUME NEW f \in [Signals -> Nat], NEW g \in [Signals -> Nat],
         NEW T \in SUBSET Signals, NEW S \in SUBSET T,
         \A s \in S : f[s] <= g[s]
  PROVE  Cardinality(SharesIn(f, S)) <= Cardinality(SharesIn(g, T))
<1>1. SharesIn(f, S) \subseteq SharesIn(g, T)
  <2> SUFFICES ASSUME NEW x \in SharesIn(f, S)
               PROVE  x \in SharesIn(g, T)
    OBVIOUS
  <2>1. PICK s \in S : \E i \in 1 .. f[s] : x = <<s, i>>
    BY MemberOfShares
  <2>2. PICK i \in 1 .. f[s] : x = <<s, i>>
    BY <2>1
  <2>3. i \in 1 .. g[s]
    BY <2>2
  <2> QED
    BY <2>2, <2>3, MemberOfShares
<1>2. IsFiniteSet(SharesIn(g, T))
  BY SharesAreFinite
<1> QED
  BY <1>1, <1>2, FS_Subset

(* One more signal adds its term. *)
LEMMA SharesOfOneMore ==
  ASSUME NEW f \in [Signals -> Nat], NEW S \in SUBSET Signals,
         NEW s \in Signals \ S
  PROVE  Cardinality(SharesIn(f, S \cup {s}))
           = Cardinality(SharesIn(f, S)) + f[s]
<1> DEFINE mine == {s} \X (1 .. f[s])
           rest == SharesIn(f, S)
<1>1. f[s] \in Nat
  OBVIOUS
<1>2. IsFiniteSet({s}) /\ Cardinality({s}) = 1
  BY FS_Singleton
<1>2a. IsFiniteSet(1 .. f[s]) /\ Cardinality(1 .. f[s]) = f[s]
  <2>1. f[s] \in Int /\ 1 \in Int
    BY <1>1
  <2>2. /\ IsFiniteSet(1 .. f[s])
        /\ Cardinality(1 .. f[s]) = IF 1 > f[s] THEN 0 ELSE f[s] - 1 + 1
    BY <2>1, FS_Interval
  <2> QED
    BY <1>1, <2>2
<1>3. /\ IsFiniteSet(mine)
      /\ Cardinality(mine) = 1 * f[s]
  BY <1>2, <1>2a, FS_Product
<1>4. IsFiniteSet(rest) /\ Cardinality(rest) \in Nat
  BY SharesAreFinite
<1>5. SharesIn(f, S \cup {s}) = rest \cup mine
  BY DEF SharesIn
<1>6. rest \cap mine = {}
  <2> SUFFICES ASSUME NEW x \in rest, x \in mine
               PROVE  FALSE
    OBVIOUS
  <2>1. PICK t \in S : \E i \in 1 .. f[t] : x = <<t, i>>
    BY MemberOfShares
  <2>2. x[1] = t /\ x[1] = s
    BY <2>1
  <2> QED
    BY <2>2
<1>7. Cardinality({}) = 0
  BY FS_EmptySet
<1> HIDE DEF mine, rest
<1>8. Cardinality(rest \cup mine)
        = Cardinality(rest) + Cardinality(mine) - Cardinality(rest \cap mine)
  BY <1>3, <1>4, FS_Union
<1>8a. Cardinality(rest \cap mine) = 0
  BY <1>6, <1>7
<1>9. Cardinality(rest \cup mine) = Cardinality(rest) + f[s]
  BY <1>1, <1>3, <1>4, <1>8, <1>8a
<1> QED
  BY <1>5, <1>9 DEF rest

LEMMA NoShares == ASSUME NEW f PROVE Cardinality(SharesIn(f, {})) = 0
<1>1. SharesIn(f, {}) = {}
  BY DEF SharesIn
<1> QED
  BY <1>1, FS_EmptySet

LEMMA ExposureInit == Init => ExposureInv
<1> SUFFICES ASSUME Init
             PROVE  ExposureInv
  OBVIOUS
<1>1. Exposed = {} /\ MayBeExposed = {}
  BY DEF Init, Exposed, MayBeExposed, AfterExposing
<1>2. exposure = StartExposure /\ StartExposure \in Nat
  BY AlphaNumbersAssumption DEF Init
<1>3. /\ Cardinality(SharesIn(filled, Exposed)) = 0
      /\ Cardinality(SharesIn(bought, MayBeExposed)) = 0
  BY <1>1, NoShares
<1> QED
  BY <1>2, <1>3 DEF ExposureInv

LEMMA WhoIsExposed ==
  ASSUME TypeOK
  PROVE  /\ Exposed \in SUBSET Signals
         /\ MayBeExposed \in SUBSET Signals
BY DEF TypeOK, Exposed, MayBeExposed

(* A step that leaves the exposure alone may take signals from those that   *)
(* were counted for certain and add to those that may have been.            *)
LEMMA ExposureFrame ==
  ASSUME TypeOK, TypeOK', ExposureInv, exposure' = exposure,
         Exposed' \subseteq Exposed,
         MayBeExposed \subseteq MayBeExposed',
         \A s \in Exposed' : filled'[s] = filled[s],
         \A s \in Signals : bought[s] <= bought'[s]
  PROVE  ExposureInv'
<1> DEFINE low   == Cardinality(SharesIn(filled, Exposed))
           high  == Cardinality(SharesIn(bought, MayBeExposed))
           low2  == Cardinality(SharesIn(filled', Exposed'))
           high2 == Cardinality(SharesIn(bought', MayBeExposed'))
<1>1. /\ filled \in [Signals -> Nat] /\ filled' \in [Signals -> Nat]
      /\ bought \in [Signals -> Nat] /\ bought' \in [Signals -> Nat]
      /\ exposure \in Nat
  BY DEF TypeOK
<1>2. /\ Exposed \in SUBSET Signals
      /\ MayBeExposed \in SUBSET Signals
  BY WhoIsExposed
<1>2a. MayBeExposed' \in SUBSET Signals
  BY DEF TypeOK, MayBeExposed
<1>3. low2 <= low
  <2>1. \A s \in Exposed' : filled'[s] <= filled[s]
    BY <1>1, <1>2
  <2>2. Exposed' \in SUBSET Exposed
    OBVIOUS
  <2> QED
    BY <1>1, <1>2, <2>1, <2>2, MoreShares
<1>4. high <= high2
  <2>1. MayBeExposed \in SUBSET MayBeExposed'
    OBVIOUS
  <2>2. \A s \in MayBeExposed : bought[s] <= bought'[s]
    BY <1>2
  <2> QED
    BY <1>1, <1>2a, <2>1, <2>2, MoreShares
<1>5. low \in Nat /\ low2 \in Nat /\ high \in Nat /\ high2 \in Nat
  <2>1. Exposed' \in SUBSET Signals
    BY <1>2
  <2> QED
    BY <1>1, <1>2, <1>2a, <2>1, SharesAreFinite
<1>6. exposure >= StartExposure + low /\ exposure <= StartExposure + high
  BY DEF ExposureInv
<1>7. StartExposure \in Nat
  BY AlphaNumbersAssumption
<1> HIDE DEF low, low2, high, high2
<1>8. exposure' >= StartExposure + low2 /\ exposure' <= StartExposure + high2
  BY <1>1, <1>3, <1>4, <1>5, <1>6, <1>7
<1> QED
  BY <1>8 DEF ExposureInv, low2, high2

(* INCRBYFLOAT: what is counted was filled, and no more than was bought. *)
LEMMA ExposureGrows ==
  ASSUME TypeOK, ShareInv, RowInv, ExposureInv,
         NEW s \in Signals, AddExposure(s)
  PROVE  ExposureInv'
<1> DEFINE low   == Cardinality(SharesIn(filled, Exposed))
           high  == Cardinality(SharesIn(bought, MayBeExposed))
           low2  == Cardinality(SharesIn(filled, Exposed \cup {s}))
           high2 == Cardinality(SharesIn(bought, MayBeExposed \cup {s}))
<1>1. /\ filled \in [Signals -> Nat]
      /\ bought \in [Signals -> Nat]
      /\ handler \in [Signals -> HandlerStates]
      /\ exposure \in Nat
      /\ StartExposure \in Nat
  BY AlphaNumbersAssumption DEF TypeOK
<1>2. /\ handler[s] = "expose"
      /\ handler' = [handler EXCEPT ![s] = "index"]
      /\ exposure' = exposure + filled[s]
      /\ filled' = filled /\ bought' = bought /\ positionRows' = positionRows
  BY DEF AddExposure, Advance, tradeVars, orderVars
<1>3. s \notin positionRows
  BY <1>2 DEF RowInv, RowOf
<1>4. s \notin Exposed /\ s \notin MayBeExposed
  BY <1>2, <1>3 DEF Exposed, MayBeExposed, AfterExposing
<1>5. /\ Exposed' = Exposed \cup {s}
      /\ MayBeExposed' = MayBeExposed \cup {s}
  BY <1>1, <1>2 DEF Exposed, MayBeExposed, AfterExposing
<1>6. /\ Exposed \in SUBSET Signals
      /\ MayBeExposed \in SUBSET Signals
  BY WhoIsExposed
<1>7. s \in Signals \ Exposed /\ s \in Signals \ MayBeExposed
  BY <1>4
<1>8. low2 = low + filled[s] /\ high2 = high + bought[s]
  BY <1>1, <1>6, <1>7, SharesOfOneMore
<1>9. low \in Nat /\ high \in Nat
  BY <1>1, <1>6, SharesAreFinite
<1>10. filled[s] \in Nat /\ bought[s] \in Nat /\ filled[s] <= bought[s]
  BY <1>1 DEF ShareInv, SharesOf
<1>11. exposure >= StartExposure + low /\ exposure <= StartExposure + high
  BY DEF ExposureInv
<1> HIDE DEF low, low2, high, high2
<1>12. exposure' >= StartExposure + low2 /\ exposure' <= StartExposure + high2
  BY <1>1, <1>2, <1>8, <1>9, <1>10, <1>11
<1> QED
  BY <1>2, <1>5, <1>12 DEF ExposureInv, low2, high2

(* A handler stands still, or goes on before INCRBYFLOAT, or after it.      *)
StaysOrGoesOn(s) ==
  \/ handler'[s] = handler[s]
  \/ /\ handler[s] \notin AfterExposing \cup {"done"}
     /\ handler'[s] \notin AfterExposing
  \/ /\ handler[s] \in AfterExposing
     /\ handler'[s] \in AfterExposing \cup {"done"}

LEMMA HandlerStepsFrame ==
  ASSUME TypeOK, TypeOK', ExposureInv,
         exposure' = exposure, filled' = filled, positionRows' = positionRows,
         bought' = bought,
         \A s \in Signals : StaysOrGoesOn(s)
  PROVE  ExposureInv'
<1>1. Exposed' \subseteq Exposed
  BY DEF Exposed, StaysOrGoesOn, AfterExposing
<1>2. MayBeExposed \subseteq MayBeExposed'
  BY DEF MayBeExposed, StaysOrGoesOn, AfterExposing
<1>3. \A s \in Signals : bought[s] <= bought'[s]
  BY DEF TypeOK
<1> QED
  BY <1>1, <1>2, <1>3, ExposureFrame

LEMMA ExposureStep ==
  TypeOK /\ ShareInv /\ RowInv /\ ExposureInv /\ [Next]_vars => ExposureInv'
<1> SUFFICES ASSUME TypeOK, ShareInv, RowInv, ExposureInv, [Next]_vars
             PROVE  ExposureInv'
  OBVIOUS
<1> USE DEF Advance, redisVars, processVars, readVars, tradeVars, orderVars
<1>0. /\ TypeOK'
      /\ handler \in [Signals -> HandlerStates]
      /\ filled \in [Signals -> Nat]
      /\ bought \in [Signals -> Nat]
      /\ chunk \in [Signals -> Nat]
      /\ positionRows \in SUBSET Signals
  BY TypeStep DEF TypeOK
<1>2. \A s \in Signals : bought[s] <= bought[s]
  BY <1>0
<1>3. ASSUME NEW s \in Signals, Decide(s)
      PROVE  ExposureInv'
  <2>1. /\ exposure' = exposure /\ filled' = filled /\ bought' = bought
        /\ positionRows' = positionRows
    BY <1>3 DEF Decide, CheckSwitches, ReadPortfolio, Validate, CheckPosition,
         ListVertical, ReadCost, CheckUnrealized, CheckVertical, DecideSize
  <2>2. \A t \in Signals : StaysOrGoesOn(t)
    BY <1>0, <1>3
    DEF Decide, CheckSwitches, ReadPortfolio, Validate, CheckPosition,
         ListVertical, ReadCost, CheckUnrealized, CheckVertical, DecideSize,
         HandlerStates, StaysOrGoesOn, AfterExposing
  <2> QED
    BY <1>0, <2>1, <2>2, HandlerStepsFrame
<1>4. ASSUME NEW s \in Signals,
             NextChunk(s) \/ EndLoop(s) \/ SubmitOrder(s) \/ ChunkFails(s)
      PROVE  ExposureInv'
  <2>1. /\ exposure' = exposure /\ filled' = filled /\ bought' = bought
        /\ positionRows' = positionRows
    BY <1>4 DEF NextChunk, EndLoop, SubmitOrder, ChunkFails
  <2>2. \A t \in Signals : StaysOrGoesOn(t)
    BY <1>0, <1>4
    DEF NextChunk, EndLoop, SubmitOrder, ChunkFails,
         HandlerStates, StaysOrGoesOn, AfterExposing
  <2> QED
    BY <1>0, <2>1, <2>2, HandlerStepsFrame
<1>5. ASSUME NEW s \in Signals, ChunkFilled(s)
      PROVE  ExposureInv'
  <2>1. /\ handler[s] = "await" /\ handler' = [handler EXCEPT ![s] = "loop"]
        /\ exposure' = exposure /\ positionRows' = positionRows
        /\ bought' = bought
        /\ filled' = [filled EXCEPT ![s] = @ + chunk[s]]
    BY <1>5 DEF ChunkFilled
  <2>2. s \notin positionRows
    BY <2>1 DEF RowInv, RowOf
  <2>3. Exposed' = Exposed /\ MayBeExposed' = MayBeExposed /\ s \notin Exposed
    BY <1>0, <2>1, <2>2 DEF Exposed, MayBeExposed, AfterExposing
  <2>4. \A t \in Exposed' : filled'[t] = filled[t]
    BY <1>0, <2>1, <2>3
  <2> QED
    BY <1>0, <1>2, <2>1, <2>3, <2>4, ExposureFrame
<1>6. ASSUME NEW s \in Signals,
             ShareCount(s) \/ SetPosition(s) \/ AddToVertical(s)
             \/ ReadPeak(s) \/ SetPeak(s) \/ CountWindow(s)
      PROVE  ExposureInv'
  <2>1. /\ exposure' = exposure /\ filled' = filled /\ bought' = bought
        /\ positionRows' = positionRows
    BY <1>6 DEF ShareCount, SetPosition, AddToVertical, ReadPeak, SetPeak,
         CountWindow
  <2>2. \A t \in Signals : StaysOrGoesOn(t)
    BY <1>0, <1>6
    DEF ShareCount, SetPosition, AddToVertical, ReadPeak, SetPeak,
         CountWindow,
         HandlerStates, StaysOrGoesOn, AfterExposing
  <2> QED
    BY <1>0, <2>1, <2>2, HandlerStepsFrame
<1>7. ASSUME NEW s \in Signals, AddExposure(s)
      PROVE  ExposureInv'
  BY <1>7, ExposureGrows
<1>8. ASSUME NEW s \in Signals, PersistPosition(s)
      PROVE  ExposureInv'
  <2>1. /\ handler[s] = "persist" /\ handler' = [handler EXCEPT ![s] = "peak"]
        /\ exposure' = exposure /\ filled' = filled /\ bought' = bought
        /\ positionRows' = positionRows \cup {s} \/ positionRows' = positionRows
    BY <1>8 DEF PersistPosition
  <2>2. Exposed' = Exposed /\ MayBeExposed' = MayBeExposed
    BY <1>0, <2>1 DEF Exposed, MayBeExposed, AfterExposing
  <2> QED
    BY <1>0, <1>2, <2>1, <2>2, ExposureFrame
<1>9. ASSUME NEW s \in Signals, RedisFails(s) \/ Publish(s)
      PROVE  ExposureInv'
  <2>1. /\ exposure' = exposure /\ filled' = filled /\ bought' = bought
        /\ positionRows' = positionRows
    BY <1>9 DEF RedisFails, Publish
  <2>2. \A t \in Signals : StaysOrGoesOn(t)
    BY <1>0, <1>9
    DEF RedisFails, Publish,
         HandlerStates, StaysOrGoesOn, AfterExposing
  <2> QED
    BY <1>0, <2>1, <2>2, HandlerStepsFrame
<1>10. ASSUME NEW s \in Signals, ExchangeHandles(s)
       PROVE  ExposureInv'
  <2>1. \A t \in Signals : bought[t] <= bought'[t]
    BY <1>0, <1>10 DEF ExchangeHandles
  <2>2. exposure' = exposure /\ filled' = filled
        /\ positionRows' = positionRows /\ handler' = handler
    BY <1>10 DEF ExchangeHandles
  <2>3. Exposed' = Exposed /\ MayBeExposed' = MayBeExposed
    BY <2>2 DEF Exposed, MayBeExposed
  <2> QED
    BY <1>0, <2>1, <2>2, <2>3, ExposureFrame
<1>11. CASE Crash
  <2>1. \A s \in Signals : handler'[s] = IF handler[s] = "unsent" THEN "unsent"
                                                               ELSE "done"
    BY <1>11 DEF Crash
  <2>2. /\ exposure' = exposure /\ filled' = filled /\ bought' = bought
        /\ positionRows' = positionRows
    BY <1>11 DEF Crash
  <2>3. Exposed' \subseteq Exposed
    BY <1>0, <2>1, <2>2 DEF Exposed, AfterExposing
  <2>4. MayBeExposed \subseteq MayBeExposed'
    BY <2>1 DEF MayBeExposed, AfterExposing
  <2> QED
    BY <1>0, <1>2, <2>2, <2>3, <2>4, ExposureFrame
<1>12. CASE \/ OperatorFlipsSwitch \/ Stop \/ Restart \/ UNCHANGED vars
            \/ \E m \in Markets : ForgetSignal(m)
  <2>1. /\ exposure' = exposure /\ filled' = filled /\ bought' = bought
        /\ positionRows' = positionRows /\ handler' = handler
    BY <1>12 DEF OperatorFlipsSwitch, Stop, Restart, ForgetSignal, vars
  <2>2. \A t \in Signals : StaysOrGoesOn(t)
    BY <2>1 DEF StaysOrGoesOn
  <2> QED
    BY <1>0, <2>1, <2>2, HandlerStepsFrame
<1> QED
  BY <1>3, <1>4, <1>5, <1>6, <1>7, <1>8, <1>9, <1>10, <1>11, <1>12
  DEF Next, HandlerStep, Trade, Record, Environment

-----------------------------------------------------------------------------
LEMMA IInvInit == Init => IInv
BY TypeInit, ShareInit, CapInit, RowInit, ExposureInit DEF IInv

LEMMA IInvStep == IInv /\ [Next]_vars => IInv'
BY TypeStep, ShareStep, CapStep, RowStep, ExposureStep DEF IInv

(* The inductive invariant: the sizes, requests, fills and rows of every    *)
(* signal add up, and the exposure adds up over all signals, in every       *)
(* execution.                                                               *)
THEOREM BooksAddUp == Spec => []IInv
BY IInvInit, IInvStep, PTL DEF Spec

(* However a signal's requests end, no more is bought for it than the       *)
(* per-trade cap of the portfolio it was decided on.                        *)
THEOREM TradesKeepTheirCap == Spec => []TradeWithinCap
<1>1. IInv => TradeWithinCap
  <2> SUFFICES ASSUME IInv, NEW s \in Signals
               PROVE  100 * bought[s] <= MaxPerTrade[snap[s].phase] * snap[s].balance
    BY DEF TradeWithinCap
  <2> DEFINE cap == MaxPerTrade[snap[s].phase] * snap[s].balance
  <2>1. /\ bought[s] \in Nat
        /\ size[s] \in Nat
        /\ snap[s] \in Snapshots
        /\ SharesOf(s)
        /\ CapsOf(s)
    BY DEF IInv, TypeOK, ShareInv, CapInv
  <2>2. cap \in Nat
    BY <2>1, PercentagesAreNumbers, ProductIsNumber DEF Snapshots
  <2>3. CASE bought[s] = 0
    BY <2>2, <2>3
  <2>4. CASE bought[s] > 0
    <3>1. bought[s] <= size[s] /\ handler[s] \in Trading \cup {"done"}
      BY <2>1, <2>4 DEF SharesOf
    <3>2. order[s] # "none"
      BY <2>1, <2>4, <3>1 DEF SharesOf, Trading, Recording
    <3>3. 100 * size[s] <= cap
      BY <2>1, <3>2 DEF CapsOf
    <3> HIDE DEF cap
    <3>4. 100 * bought[s] <= cap
      BY <2>1, <2>2, <3>1, <3>3
    <3> QED
      BY <3>4 DEF cap
  <2> QED
    BY <2>1, <2>3, <2>4
<1> QED
  BY <1>1, BooksAddUp, PTL

(* Only trades that overlap push the exposure over the phase's cap: what a  *)
(* handler adds fits in the room there was when it read the portfolio.      *)
THEOREM CapHolds == Spec => CapHeldUnlessOverlapped
<1>1. IInv /\ [Next]_vars =>
        [\A s \in Signals :
           AddExposure(s) /\ exposure = snap[s].exposure
             => 100 * exposure' <= CapOf(s)]_vars
  <2> SUFFICES ASSUME IInv, NEW s \in Signals, AddExposure(s),
                      exposure = snap[s].exposure
               PROVE  100 * exposure' <= CapOf(s)
    OBVIOUS
  <2> DEFINE most == CapOf(s)
  <2>1. /\ bought[s] \in Nat
        /\ filled[s] \in Nat
        /\ size[s] \in Nat
        /\ reserved[s] \in Nat
        /\ exposure \in Nat
        /\ snap[s] \in Snapshots
        /\ SharesOf(s)
        /\ CapsOf(s)
    BY DEF IInv, TypeOK, ShareInv, CapInv
  <2>2. Effective(snap[s], reserved[s]) \in Nat
    BY <2>1 DEF Effective, Snapshots
  <2>3. most \in Nat
    BY <2>1, <2>2, PercentagesAreNumbers, ProductIsNumber
    DEF Snapshots, CapOf
  <2>4. /\ handler[s] \in Trading
        /\ exposure' = exposure + filled[s]
    BY DEF AddExposure, Advance, Trading, Recording
  <2>5. 100 * (exposure + size[s]) <= most
    BY <2>1, <2>4 DEF CapsOf
  <2>6. filled[s] <= bought[s]
    BY <2>1 DEF SharesOf
  <2>7. filled[s] <= size[s]
    <3>1. CASE bought[s] = 0
      BY <2>1, <2>6, <3>1
    <3>2. CASE bought[s] > 0
      <4>1. bought[s] <= size[s]
        BY <2>1, <3>2 DEF SharesOf
      <4> QED
        BY <2>1, <2>6, <4>1
    <3> QED
      BY <2>1, <3>1, <3>2
  <2> HIDE DEF most
  <2>8. 100 * exposure' <= most
    BY <2>1, <2>3, <2>4, <2>5, <2>7
  <2> QED
    BY <2>8 DEF most
<1> QED
  BY <1>1, BooksAddUp, PTL DEF Spec, CapHeldUnlessOverlapped

(* The exposure the limits are computed from counts every purchase the      *)
(* database shows and no purchase twice, wherever a recording stopped and   *)
(* whatever it was overtaken by (openPosition, recordPosition).             *)
THEOREM ExposureAddsUp == Spec => []ExposureReconciles
<1>1. IInv => ExposureReconciles
  <2> SUFFICES ASSUME IInv
               PROVE  ExposureReconciles
    OBVIOUS
  <2> DEFINE low   == Cardinality(SharesIn(filled, Exposed))
             high  == Cardinality(SharesIn(bought, MayBeExposed))
             shown == Cardinality(SharesIn(filled, positionRows))
             all   == Cardinality(SharesIn(bought, Signals))
  <2>1. /\ filled \in [Signals -> Nat]
        /\ bought \in [Signals -> Nat]
        /\ exposure \in Nat
        /\ StartExposure \in Nat
        /\ positionRows \in SUBSET Signals
    BY AlphaNumbersAssumption DEF IInv, TypeOK
  <2>2. /\ Exposed \in SUBSET Signals
        /\ MayBeExposed \in SUBSET Signals
        /\ positionRows \in SUBSET Exposed
    BY WhoIsExposed DEF IInv, Exposed
  <2>3. /\ \A s \in positionRows : filled[s] <= filled[s]
        /\ \A s \in MayBeExposed : bought[s] <= bought[s]
    BY <2>1, <2>2
  <2>4. shown <= low
    BY <2>1, <2>2, <2>3, MoreShares
  <2>5. high <= all
    BY <2>1, <2>2, <2>3, MoreShares
  <2>6. shown \in Nat /\ low \in Nat /\ high \in Nat /\ all \in Nat
    BY <2>1, <2>2, SharesAreFinite
  <2>7. exposure >= StartExposure + low /\ exposure <= StartExposure + high
    BY DEF IInv, ExposureInv
  <2> HIDE DEF low, high, shown, all
  <2>8. exposure >= StartExposure + shown /\ exposure <= StartExposure + all
    BY <2>1, <2>4, <2>5, <2>6, <2>7
  <2> QED
    BY <2>8 DEF ExposureReconciles, shown, all
<1> QED
  BY <1>1, BooksAddUp, PTL

-----------------------------------------------------------------------------
(* The abstract book *)

LEMMA BookRefinesInit == Init => Book!Init
BY DEF Init, Book!Init

LEMMA BookRefinesStep == IInv /\ [Next]_vars => [Book!Next]_(Book!vars)
<1> DEFINE booked == [s \in Signals |-> IF s \in positionRows THEN filled[s] ELSE 0]
<1> SUFFICES ASSUME IInv, [Next]_vars
             PROVE  [Book!Next]_(Book!vars)
  OBVIOUS
<1>0. /\ TypeOK
      /\ ShareInv
      /\ RowInv
  BY DEF IInv
<1>1. ASSUME bought' = bought, positionRows' = positionRows, filled' = filled
      PROVE  UNCHANGED Book!vars
  BY <1>1 DEF Book!vars
<1>2. CASE UNCHANGED vars
  BY <1>1, <1>2 DEF vars, tradeVars, orderVars
<1>3. ASSUME NEW s \in Signals, ChunkFilled(s)
      PROVE  UNCHANGED Book!vars
  <2>1. /\ bought' = bought
        /\ positionRows' = positionRows
        /\ filled' = [filled EXCEPT ![s] = @ + chunk[s]]
        /\ handler[s] = "await"
    BY <1>3 DEF ChunkFilled, Advance, orderVars
  <2>2. s \notin positionRows
    BY <1>0, <2>1 DEF RowInv, RowOf
  <2>3. \A t \in Signals : t \in positionRows => filled'[t] = filled[t]
    BY <1>0, <2>1, <2>2 DEF TypeOK
  <2>4. booked' = booked
    BY <2>1, <2>3
  <2> QED
    BY <2>1, <2>4 DEF Book!vars
<1>4. ASSUME NEW s \in Signals, PersistPosition(s)
      PROVE  [Book!Next]_(Book!vars)
  <2>1. /\ bought' = bought
        /\ filled' = filled
        /\ handler[s] = "persist"
        /\ positionRows' = positionRows \cup {s} \/ positionRows' = positionRows
    BY <1>4 DEF PersistPosition, Advance, tradeVars, orderVars
  <2>2. CASE positionRows' = positionRows
    BY <1>1, <2>1, <2>2
  <2>3. CASE positionRows' = positionRows \cup {s}
    <3>1. /\ s \notin positionRows
          /\ filled[s] > 0
          /\ filled[s] <= bought[s]
      BY <1>0, <2>1 DEF RowInv, RowOf, Recording, ShareInv, SharesOf
    <3>2. filled[s] \in 1 .. bought[s]
      BY <1>0, <3>1 DEF TypeOK
    <3>3. /\ booked[s] = 0
          /\ booked'[s] = filled[s]
          /\ booked' = [booked EXCEPT ![s] = booked'[s]]
      BY <2>1, <2>3, <3>1
    <3>4. Book!Book(s)
      BY <2>1, <3>2, <3>3 DEF Book!Book
    <3> QED
      BY <3>4 DEF Book!Next
  <2> QED
    BY <2>1, <2>2, <2>3
<1>5. ASSUME NEW s \in Signals, ExchangeHandles(s)
      PROVE  [Book!Next]_(Book!vars)
  <2>1. /\ positionRows' = positionRows
        /\ filled' = filled
        /\ bought' = [bought EXCEPT ![s] = @ + chunk[s]] \/ bought' = bought
    BY <1>5 DEF ExchangeHandles, tradeVars
  <2>2. /\ bought \in [Signals -> Nat]
        /\ chunk[s] \in Nat
    BY <1>0 DEF TypeOK
  <2>3. CASE bought' = bought
    BY <1>1, <2>1, <2>3
  <2>4. CASE bought' = [bought EXCEPT ![s] = @ + chunk[s]] /\ chunk[s] = 0
    <3>1. bought' = bought
      BY <2>2, <2>4
    <3> QED
      BY <1>1, <2>1, <3>1
  <2>5. CASE bought' = [bought EXCEPT ![s] = @ + chunk[s]] /\ chunk[s] > 0
    <3>1. /\ bought'[s] > bought[s]
          /\ bought' = [bought EXCEPT ![s] = bought'[s]]
          /\ booked' = booked
      BY <2>1, <2>2, <2>5
    <3>2. Book!Fill(s)
      BY <3>1 DEF Book!Fill
    <3> QED
      BY <3>2 DEF Book!Next
  <2> QED
    BY <2>1, <2>2, <2>3, <2>4, <2>5
<1>6. ASSUME NEW s \in Signals, Decide(s)
      PROVE  UNCHANGED Book!vars
  BY <1>1, <1>6
  DEF Decide, CheckSwitches, ReadPortfolio, Validate, CheckPosition,
      ListVertical, ReadCost, CheckUnrealized, CheckVertical, DecideSize,
      tradeVars, orderVars
<1>7. ASSUME NEW s \in Signals,
             NextChunk(s) \/ EndLoop(s) \/ SubmitOrder(s) \/ ChunkFails(s)
      PROVE  UNCHANGED Book!vars
  BY <1>1, <1>7
  DEF NextChunk, EndLoop, SubmitOrder, ChunkFails, tradeVars, orderVars
<1>8. ASSUME NEW s \in Signals,
             \/ ShareCount(s) \/ SetPosition(s) \/ AddExposure(s)
             \/ AddToVertical(s) \/ ReadPeak(s) \/ SetPeak(s)
             \/ CountWindow(s) \/ RedisFails(s) \/ Publish(s)
      PROVE  UNCHANGED Book!vars
  BY <1>1, <1>8
  DEF ShareCount, SetPosition, AddExposure, AddToVertical, ReadPeak, SetPeak,
      CountWindow, RedisFails, Publish, tradeVars, orderVars
<1>9. ASSUME OperatorFlipsSwitch \/ Stop \/ Crash \/ Restart
             \/ \E m \in Markets : ForgetSignal(m)
      PROVE  UNCHANGED Book!vars
  BY <1>1, <1>9
  DEF OperatorFlipsSwitch, Stop, Crash, Restart, ForgetSignal, tradeVars,
      orderVars
<1> QED
  BY <1>2, <1>3, <1>4, <1>5, <1>6, <1>7, <1>8, <1>9
  DEF Next, HandlerStep, Trade, Record, Environment

(* The executor's database is an abstract book: a signal is entered once,   *)
(* with no more shares than the exchange had filled.                        *)
THEOREM AlphaImplementsTradeBook == Spec => ImplementsTradeBook
BY BookRefinesInit, BookRefinesStep, BooksAddUp, PTL
DEF Spec, ImplementsTradeBook, Book!Spec

-----------------------------------------------------------------------------
(* CryptoSignals, whose signals the executor trades: the feeds.  A chain is *)
(* a socket that is not closed or a timer that will open one: connect() and *)
(* scheduleReconnect() of a feed turn one into the other.                   *)
SocketStates == {"closed", "connecting", "open", "mute", "closing"}
Callers == {"nobody", "main", "timer"}
Sockets == [state : SocketStates, caller : Callers]

FeedTypeOK ==
  /\ setup \subseteq Feeds
  /\ phase \in {"down", "starting", "running"}
  /\ socket \in [Feeds -> [Ids -> Sockets]]
  /\ timers \in [Feeds -> Nat]

(* The sockets of a feed that are not closed. *)
Busy(f) == Ids \ InState(f, {"closed"})

ChainsOf(f) == Cardinality(Busy(f)) + timers[f]

ChainInv ==
  /\ FeedTypeOK
  /\ phase = "down" => socket = AllClosed /\ \A f \in Feeds : timers[f] = 0
  /\ \A f \in Plain, i \in Ids : socket[f][i].caller # "timer"
  /\ phase # "down" =>
       \A f \in setup : /\ ChainsOf(f) >= 1
                        /\ f \in Plain => ChainsOf(f) = 1

LEMMA BusyIs ==
  ASSUME FeedTypeOK, NEW f \in Feeds
  PROVE  /\ Busy(f) = {i \in Ids : socket[f][i].state # "closed"}
         /\ IsFiniteSet(Busy(f)) /\ Cardinality(Busy(f)) \in Nat
<1>1. Busy(f) = {i \in Ids : socket[f][i].state # "closed"}
  BY DEF Busy, InState
<1>2. IsFiniteSet(Ids)
  BY FS_Interval, PriceFeedAssumption DEF Ids
<1>3. IsFiniteSet(Busy(f))
  BY <1>2, FS_Subset DEF Busy
<1> QED BY <1>1, <1>3, FS_CardinalityType

BusyFinite == \A f \in Feeds : Cardinality(Busy(f)) \in Nat

LEMMA BusyIsFinite == FeedTypeOK => BusyFinite
BY BusyIs DEF BusyFinite

LEMMA OneSocketMore ==
  ASSUME FeedTypeOK, NEW f \in Feeds, NEW i \in Ids, i \notin Busy(f)
  PROVE  Cardinality(Busy(f) \cup {i}) = Cardinality(Busy(f)) + 1
BY BusyIs, FS_AddElement

LEMMA OneSocketLess ==
  ASSUME FeedTypeOK, NEW f \in Feeds, NEW i \in Busy(f)
  PROVE  Cardinality(Busy(f) \ {i}) = Cardinality(Busy(f)) - 1
BY BusyIs, FS_RemoveElement

(* A socket that is not closed has a process. *)
LEMMA Awake ==
  ASSUME ChainInv, NEW f \in Feeds, NEW i \in Ids, socket[f][i] # NoSocket
  PROVE  phase # "down"
BY DEF ChainInv, AllClosed

(* A step that closes and opens no socket, and changes no timer. *)
LEMMA ChainFrame ==
  ASSUME ChainInv, FeedTypeOK', UNCHANGED <<setup, timers>>,
         phase # "down", phase' # "down",
         \A f \in Feeds : Busy(f)' = Busy(f),
         \A f \in Plain, i \in Ids : socket'[f][i].caller # "timer"
  PROVE  ChainInv'
<1>1. \A f \in Feeds : ChainsOf(f)' = ChainsOf(f)
  BY DEF ChainsOf
<1>2. setup \subseteq Feeds
  BY DEF ChainInv, FeedTypeOK
<1> QED BY <1>1, <1>2 DEF ChainInv

(* A step of one feed. *)
LEMMA ChainOfOne ==
  ASSUME ChainInv, FeedTypeOK', UNCHANGED <<setup, phase>>, phase # "down",
         NEW f \in setup,
         \A g \in Feeds \ {f} : /\ socket'[g] = socket[g]
                               /\ timers'[g] = timers[g],
         f \in Plain => \A i \in Ids : socket'[f][i].caller # "timer",
         ChainsOf(f)' >= ChainsOf(f),
         f \in Plain => ChainsOf(f)' = ChainsOf(f)
  PROVE  ChainInv'
<1>1. setup \subseteq Feeds /\ Plain \subseteq Feeds
  BY DEF ChainInv, FeedTypeOK, Feeds
<1>2. \A g \in Feeds \ {f} : ChainsOf(g)' = ChainsOf(g)
  BY DEF ChainsOf, Busy, InState
<1>3. ChainsOf(f) \in Nat /\ ChainsOf(f)' \in Nat
  <2>1. BusyFinite
    BY BusyIsFinite DEF ChainInv
  <2>2. BusyFinite'
    <3>1. FeedTypeOK' => BusyFinite'
      BY BusyIsFinite, PTL
    <3> QED BY <3>1
  <2>3. timers[f] \in Nat /\ timers'[f] \in Nat
    BY <1>1 DEF ChainInv, FeedTypeOK
  <2> QED BY <1>1, <2>1, <2>2, <2>3 DEF ChainsOf, BusyFinite
<1>4. \A g \in Plain, i \in Ids : socket'[g][i].caller # "timer"
  BY <1>1 DEF ChainInv
<1> QED BY <1>1, <1>2, <1>3, <1>4 DEF ChainInv

LEMMA ChainInit == PriceFeedInit => ChainInv
<1> SUFFICES ASSUME PriceFeedInit PROVE ChainInv
  OBVIOUS
<1>1. setup \subseteq Feeds
  BY PriceFeedAssumption DEF PriceFeedInit
<1>2. NoSocket \in Sockets /\ NoSocket.caller = "nobody"
  BY DEF NoSocket, Sockets, SocketStates, Callers
<1>3. socket \in [Feeds -> [Ids -> Sockets]]
  BY <1>2 DEF PriceFeedInit, AllClosed
<1>4. \A f \in Plain, i \in Ids : socket[f][i].caller # "timer"
  BY <1>2 DEF PriceFeedInit, AllClosed, Feeds
<1> QED BY <1>1, <1>3, <1>4 DEF PriceFeedInit, ChainInv, FeedTypeOK

(* Nothing is left of a process that ends. *)
LEMMA ChainExit ==
  ASSUME ChainInv, Exit, setup' = setup
  PROVE  ChainInv'
<1>1. setup' \subseteq Feeds
  BY DEF ChainInv, FeedTypeOK
<1>2. NoSocket \in Sockets /\ NoSocket.caller = "nobody"
  BY DEF NoSocket, Sockets, SocketStates, Callers
<1>3. /\ phase' = "down" /\ timers' = [f \in Feeds |-> 0]
      /\ socket' = [f \in Feeds |-> [i \in Ids |-> NoSocket]]
  BY DEF Exit, NoLinks, AllClosed
<1>4. socket' \in [Feeds -> [Ids -> Sockets]]
  BY <1>2, <1>3
<1>5. \A f \in Plain, i \in Ids : socket'[f][i].caller # "timer"
  BY <1>2, <1>3 DEF Feeds
<1> QED BY <1>1, <1>3, <1>4, <1>5 DEF ChainInv, FeedTypeOK, AllClosed

LEMMA ChainConnect ==
  ASSUME ChainInv, Connect
  PROVE  ChainInv'
<1> DEFINE first == [state |-> "connecting", caller |-> "main"]
<1>1. /\ phase = "down" /\ phase' = "starting" /\ setup' = setup
      /\ timers' = timers
      /\ socket' = [f \in Feeds |-> [i \in Ids |->
                      IF f \in setup /\ i = 1 THEN first ELSE NoSocket]]
  BY DEF Connect
<1>2. /\ NoSocket \in Sockets /\ NoSocket.caller = "nobody"
      /\ NoSocket.state = "closed"
      /\ first \in Sockets
      /\ first.caller = "main" /\ first.state = "connecting"
  BY DEF NoSocket, Sockets, SocketStates, Callers
<1> HIDE DEF first, NoSocket
<1>3. socket' \in [Feeds -> [Ids -> Sockets]]
  BY <1>1, <1>2
<1>4. \A f \in Plain, i \in Ids : socket'[f][i].caller # "timer"
  BY <1>1, <1>2 DEF Feeds
<1>5. setup \subseteq Feeds /\ \A f \in Feeds : timers[f] = 0
  BY <1>1 DEF ChainInv, FeedTypeOK
<1>6. FeedTypeOK'
  BY <1>1, <1>3 DEF ChainInv, FeedTypeOK
<1>7. ASSUME NEW f \in setup
      PROVE  ChainsOf(f)' = 1
  <2>1. Busy(f)' = {1}
    <3>1. 1 \in Ids
      BY PriceFeedAssumption DEF Ids
    <3>2. \A i \in Ids : socket'[f][i].state # "closed" <=> i = 1
      BY <1>1, <1>2, <1>5
    <3> QED BY <3>1, <3>2 DEF Busy, InState
  <2>2. Cardinality({1}) = 1
    BY FS_Singleton
  <2>3. Cardinality(Busy(f)') = 1
    BY <2>1, <2>2
  <2>4. timers'[f] = 0
    BY <1>1, <1>5
  <2> QED BY <2>3, <2>4 DEF ChainsOf
<1> QED BY <1>1, <1>4, <1>6, <1>7 DEF ChainInv

LEMMA OneSocketSet ==
  ASSUME NEW f \in Feeds, NEW i \in Ids, NEW new \in Sockets,
         socket \in [Feeds -> [Ids -> Sockets]],
         socket' = [socket EXCEPT ![f] = [socket[f] EXCEPT ![i] = new]]
  PROVE  /\ socket' \in [Feeds -> [Ids -> Sockets]]
         /\ \A g \in Feeds \ {f} : socket'[g] = socket[g]
         /\ socket'[f][i] = new
         /\ \A j \in Ids \ {i} : socket'[f][j] = socket[f][j]
<1> DEFINE row == [socket[f] EXCEPT ![i] = new]
<1>1. row \in [Ids -> Sockets] /\ row[i] = new
      /\ \A j \in Ids \ {i} : row[j] = socket[f][j]
  <2>1. socket[f] \in [Ids -> Sockets]
    OBVIOUS
  <2> QED BY <2>1
<1>2. socket' = [socket EXCEPT ![f] = row]
  OBVIOUS
<1> HIDE DEF row
<1>3. socket' \in [Feeds -> [Ids -> Sockets]] /\ socket'[f] = row
      /\ \A g \in Feeds \ {f} : socket'[g] = socket[g]
  BY <1>1, <1>2
<1> QED BY <1>1, <1>3

(* What happens to socket i of feed f: it goes from one state to another,   *)
(* neither of which is closed.                                              *)
SetState(f, i, s) == socket' = [socket EXCEPT ![f][i].state = s]

LEMMA StateChanges ==
  ASSUME ChainInv, NEW f \in setup, NEW i \in Ids,
         socket[f][i].state # "closed",
         NEW s \in SocketStates \ {"closed"},
         SetState(f, i, s),
         UNCHANGED <<setup, phase, timers>>
  PROVE  ChainInv'
<1>1. f \in Feeds /\ socket \in [Feeds -> [Ids -> Sockets]]
      /\ timers \in [Feeds -> Nat]
  BY DEF ChainInv, FeedTypeOK
<1>2. phase # "down"
  BY <1>1, Awake DEF NoSocket
<1> DEFINE new == [socket[f][i] EXCEPT !.state = s]
<1>3. new \in Sockets /\ new.state = s /\ new.caller = socket[f][i].caller
  <2>1. socket[f][i] \in Sockets
    BY <1>1
  <2> QED BY <2>1 DEF Sockets
<1>4. socket' = [socket EXCEPT ![f] = [socket[f] EXCEPT ![i] = new]]
  BY DEF SetState
<1> HIDE DEF new
<1>5. /\ socket' \in [Feeds -> [Ids -> Sockets]]
      /\ \A g \in Feeds \ {f} : socket'[g] = socket[g]
      /\ socket'[f][i] = new
      /\ \A j \in Ids \ {i} : socket'[f][j] = socket[f][j]
  BY <1>1, <1>3, <1>4, OneSocketSet
<1>6. FeedTypeOK'
  BY <1>5 DEF ChainInv, FeedTypeOK
<1>7. Busy(f)' = Busy(f)
  BY <1>3, <1>5 DEF Busy, InState
<1>8. ChainsOf(f)' = ChainsOf(f) /\ ChainsOf(f) \in Int
  <2>1. Cardinality(Busy(f)) \in Nat
    BY <1>1, BusyIsFinite DEF BusyFinite, ChainInv
  <2> QED BY <1>1, <1>7, <2>1 DEF ChainsOf
<1>9. f \in Plain => \A j \in Ids : socket'[f][j].caller # "timer"
  BY <1>3, <1>5 DEF ChainInv
<1> QED BY <1>5, <1>6, <1>8, <1>9, <1>2, ChainOfOne

(* A socket closes, and timers that will open others are set. *)
LEMMA ChainClosed ==
  ASSUME ChainInv, NEW f \in setup, NEW i \in Ids,
         socket[f][i].state = "closing",
         NEW caller \in Callers, NEW n \in {1, 2}, Closed(f, i, caller, n),
         f \in Plain => caller = "nobody" /\ n = 1, setup' = setup
  PROVE  ChainInv'
<1>1. f \in Feeds /\ socket \in [Feeds -> [Ids -> Sockets]]
      /\ timers \in [Feeds -> Nat]
  BY DEF ChainInv, FeedTypeOK
<1>2. phase # "down"
  BY <1>1, Awake DEF NoSocket
<1> DEFINE new == [state |-> "closed", caller |-> caller]
<1>3. new \in Sockets /\ new.state = "closed" /\ new.caller = caller
  BY DEF Sockets, SocketStates
<1>4. /\ socket' = [socket EXCEPT ![f][i] = new] /\ phase' = phase
      /\ timers' = [timers EXCEPT ![f] = @ + n]
  BY DEF Closed
<1>5. socket' = [socket EXCEPT ![f] = [socket[f] EXCEPT ![i] = new]]
  BY <1>4
<1> HIDE DEF new
<1>6. /\ socket' \in [Feeds -> [Ids -> Sockets]]
      /\ \A g \in Feeds \ {f} : socket'[g] = socket[g]
      /\ socket'[f][i] = new
      /\ \A j \in Ids \ {i} : socket'[f][j] = socket[f][j]
  BY <1>1, <1>3, <1>5, OneSocketSet
<1>7. /\ timers' \in [Feeds -> Nat] /\ timers'[f] = timers[f] + n
      /\ \A g \in Feeds \ {f} : timers'[g] = timers[g]
  BY <1>1, <1>4
<1>8. FeedTypeOK'
  BY <1>4, <1>6, <1>7 DEF ChainInv, FeedTypeOK
<1>9. Busy(f)' = Busy(f) \ {i} /\ i \in Busy(f)
  BY <1>3, <1>6 DEF Busy, InState
<1>10. Cardinality(Busy(f) \ {i}) = Cardinality(Busy(f)) - 1
  BY <1>1, <1>9, OneSocketLess DEF ChainInv
<1>11. Cardinality(Busy(f)') = Cardinality(Busy(f)) - 1
  BY <1>9, <1>10
<1>12. Cardinality(Busy(f)) \in Nat /\ timers[f] \in Nat
  BY <1>1, BusyIsFinite DEF BusyFinite, ChainInv
<1>13. /\ ChainsOf(f)' >= ChainsOf(f)
       /\ f \in Plain => ChainsOf(f)' = ChainsOf(f)
  BY <1>7, <1>11, <1>12 DEF ChainsOf
<1>14. f \in Plain => \A j \in Ids : socket'[f][j].caller # "timer"
  BY <1>3, <1>6 DEF ChainInv
<1> QED BY <1>4, <1>6, <1>7, <1>8, <1>13, <1>14, <1>2, ChainOfOne

(* The least of some numbers: the socket that NewSocket takes is free.     *)
LessRel == {ss \in Nat \X Nat : ss[1] < ss[2]}

LEMMA LessIsWellFounded == IsWellFoundedOn(LessRel, Nat)
BY Zenon, NatLessThanWellFounded DEF OpToRel, LessRel

LEMMA FreeHasLeast ==
  ASSUME NEW f, Free(f) # {}
  PROVE  \E n \in Free(f) : \A o \in Free(f) : n <= o
<1>1. Free(f) \in SUBSET Nat
  BY PriceFeedAssumption DEF Free, Ids
<1>2. PICK n \in Free(f) : \A o \in Free(f) : ~ (<<o, n>> \in LessRel)
  BY <1>1, LessIsWellFounded, WFMin
<1>3. ASSUME NEW o \in Free(f) PROVE n <= o
  <2>1. o \in Nat /\ n \in Nat /\ <<o, n>> \in Nat \X Nat
    BY <1>1
  <2>2. ~ (o < n)
    BY <1>2, <2>1 DEF LessRel
  <2> QED BY <2>1, <2>2
<1> QED BY <1>3

(* A timer fires and opens a socket in its place. *)
LEMMA ChainReconnect ==
  ASSUME ChainInv, NEW f \in setup, NEW caller \in Callers,
         Reconnect(f, caller),
         f \in Plain => caller = "nobody"
  PROVE  ChainInv'
<1>1. f \in Feeds /\ socket \in [Feeds -> [Ids -> Sockets]]
      /\ timers \in [Feeds -> Nat]
  BY DEF ChainInv, FeedTypeOK
<1>2. /\ timers[f] > 0 /\ timers' = [timers EXCEPT ![f] = @ - 1]
      /\ setup' = setup /\ phase' = phase /\ NewSocket(f, caller)
      /\ Free(f) # {}
  BY DEF Reconnect
<1>3. phase # "down"
  BY <1>1, <1>2 DEF ChainInv
<1> DEFINE new == [state |-> "connecting", caller |-> caller]
<1>4. new \in Sockets /\ new.state = "connecting" /\ new.caller = caller
  BY DEF Sockets, SocketStates
<1>5. PICK i \in Free(f) : socket' = [socket EXCEPT ![f][i] = new]
  <2> DEFINE i == CHOOSE n \in Free(f) : \A o \in Free(f) : n <= o
  <2>1. i \in Free(f)
    BY <1>2, FreeHasLeast
  <2>2. socket' = [socket EXCEPT ![f][i] = new]
    BY <1>2 DEF NewSocket
  <2> HIDE DEF i, new
  <2> QED BY <2>1, <2>2
<1>6. socket' = [socket EXCEPT ![f] = [socket[f] EXCEPT ![i] = new]]
  BY <1>5
<1>7. i \in Ids /\ socket[f][i].state = "closed"
  BY DEF Free, NoSocket
<1> HIDE DEF new
<1>8. /\ socket' \in [Feeds -> [Ids -> Sockets]]
      /\ \A g \in Feeds \ {f} : socket'[g] = socket[g]
      /\ socket'[f][i] = new
      /\ \A j \in Ids \ {i} : socket'[f][j] = socket[f][j]
  BY <1>1, <1>4, <1>6, <1>7, OneSocketSet
<1>9. /\ timers' \in [Feeds -> Nat] /\ timers'[f] = timers[f] - 1
      /\ \A g \in Feeds \ {f} : timers'[g] = timers[g]
  BY <1>1, <1>2
<1>10. FeedTypeOK'
  BY <1>2, <1>8, <1>9 DEF ChainInv, FeedTypeOK
<1>11. Busy(f)' = Busy(f) \cup {i} /\ i \notin Busy(f)
  BY <1>4, <1>7, <1>8 DEF Busy, InState
<1>12. Cardinality(Busy(f) \cup {i}) = Cardinality(Busy(f)) + 1
  BY <1>1, <1>7, <1>11, OneSocketMore DEF ChainInv
<1>13. Cardinality(Busy(f)') = Cardinality(Busy(f)) + 1
  BY <1>11, <1>12
<1>14. Cardinality(Busy(f)) \in Nat /\ timers[f] \in Nat
  BY <1>1, BusyIsFinite DEF BusyFinite, ChainInv
<1>15. ChainsOf(f)' = ChainsOf(f) /\ ChainsOf(f) \in Int
  BY <1>9, <1>13, <1>14 DEF ChainsOf
<1>16. f \in Plain => \A j \in Ids : socket'[f][j].caller # "timer"
  BY <1>4, <1>8 DEF ChainInv
<1> QED BY <1>2, <1>3, <1>8, <1>9, <1>10, <1>15, <1>16, ChainOfOne

(* The promise of a timer's attempt fails, and a timer is set. *)
LEMMA ChainTimeout ==
  ASSUME ChainInv, NEW f \in setup, NEW i \in Ids, AttemptTimeout(f, i)
  PROVE  ChainInv'
<1>1. f \in Feeds /\ socket \in [Feeds -> [Ids -> Sockets]]
      /\ timers \in [Feeds -> Nat]
  BY DEF ChainInv, FeedTypeOK
<1>2. /\ socket[f][i].caller = "timer" /\ setup' = setup /\ phase' = phase
      /\ socket' = [socket EXCEPT ![f][i].caller = "nobody"]
      /\ timers' = [timers EXCEPT ![f] = @ + 1]
  BY DEF AttemptTimeout
<1>3. f \notin Plain
  BY <1>2 DEF ChainInv
<1> DEFINE new == [socket[f][i] EXCEPT !.caller = "nobody"]
<1>4. new \in Sockets /\ new.state = socket[f][i].state
  <2>1. socket[f][i] \in Sockets
    BY <1>1
  <2> QED BY <2>1 DEF Sockets, Callers
<1>5. socket' = [socket EXCEPT ![f] = [socket[f] EXCEPT ![i] = new]]
  BY <1>2
<1> HIDE DEF new
<1>6. /\ socket' \in [Feeds -> [Ids -> Sockets]]
      /\ \A g \in Feeds \ {f} : socket'[g] = socket[g]
      /\ socket'[f][i] = new
      /\ \A j \in Ids \ {i} : socket'[f][j] = socket[f][j]
  BY <1>1, <1>4, <1>5, OneSocketSet
<1>7. /\ timers' \in [Feeds -> Nat] /\ timers'[f] = timers[f] + 1
      /\ \A g \in Feeds \ {f} : timers'[g] = timers[g]
  BY <1>1, <1>2
<1>8. FeedTypeOK'
  BY <1>2, <1>6, <1>7 DEF ChainInv, FeedTypeOK
<1>9. Busy(f)' = Busy(f)
  BY <1>4, <1>6 DEF Busy, InState
<1>10. Cardinality(Busy(f)') = Cardinality(Busy(f))
  BY <1>9
<1>11. Cardinality(Busy(f)) \in Nat /\ timers[f] \in Nat
  BY <1>1, BusyIsFinite DEF BusyFinite, ChainInv
<1>12. ChainsOf(f)' >= ChainsOf(f)
  BY <1>7, <1>10, <1>11 DEF ChainsOf
<1>13. phase # "down"
  BY <1>1, <1>2, Awake DEF NoSocket
<1> QED BY <1>2, <1>3, <1>6, <1>7, <1>8, <1>12, <1>13, ChainOfOne

(* A message resolves the promise of the connections it comes on. *)
LEMMA ChainMessage ==
  ASSUME ChainInv, NEW f \in setup, Message(f)
  PROVE  ChainInv'
<1>1. f \in Feeds /\ socket \in [Feeds -> [Ids -> Sockets]]
      /\ timers \in [Feeds -> Nat] /\ socket[f] \in [Ids -> Sockets]
      /\ phase \in {"down", "starting", "running"}
  BY DEF ChainInv, FeedTypeOK
<1> DEFINE row == [i \in Ids |->
                     IF socket[f][i].state = "open"
                     THEN [socket[f][i] EXCEPT !.caller = "nobody"]
                     ELSE socket[f][i]]
<1>2. /\ socket' = [socket EXCEPT ![f] = row]
      /\ setup' = setup /\ timers' = timers
      /\ phase' \in {"running", phase}
  BY DEF Message
<1>3. ASSUME NEW i \in Ids
      PROVE  /\ row[i] \in Sockets /\ row[i].state = socket[f][i].state
             /\ row[i].caller \in {"nobody", socket[f][i].caller}
  <2>1. socket[f][i] \in Sockets
    BY <1>1
  <2> QED BY <2>1 DEF Sockets, Callers
<1>4. row \in [Ids -> Sockets]
  BY <1>3
<1> HIDE DEF row
<1>5. socket' \in [Feeds -> [Ids -> Sockets]] /\ socket'[f] = row
      /\ \A g \in Feeds \ {f} : socket'[g] = socket[g]
  BY <1>1, <1>2, <1>4
<1>6. FeedTypeOK'
  BY <1>1, <1>2, <1>5 DEF ChainInv, FeedTypeOK
<1>7. \A g \in Feeds : Busy(g)' = Busy(g)
  BY <1>3, <1>5 DEF Busy, InState
<1>8. phase # "down"
  <2>1. PICK i \in Ids : socket[f][i].state = "open"
    BY DEF Message, Delivers, InState
  <2> QED BY <1>1, <2>1, Awake DEF NoSocket
<1>9. \A g \in Plain, i \in Ids : socket'[g][i].caller # "timer"
  BY <1>3, <1>5 DEF ChainInv, Feeds
<1> QED BY <1>2, <1>6, <1>7, <1>8, <1>9, ChainFrame

LEMMA ChainStands ==
  ASSUME ChainInv, UNCHANGED <<setup, phase, socket, timers>>
  PROVE  ChainInv'
BY DEF ChainInv, FeedTypeOK, ChainsOf, Busy, InState

LEMMA ChainHeartbeat ==
  ASSUME ChainInv, NEW f \in setup, Heartbeat(f)
  PROVE  ChainInv'
<1>1. UNCHANGED <<setup, phase, timers>> /\ socket' = Terminated(f)
  BY DEF Heartbeat
<1>2. CASE newest[f] \in InState(f, {"connecting", "mute"})
  <2>1. /\ newest[f] \in Ids /\ socket[f][newest[f]].state # "closed"
        /\ socket' = [socket EXCEPT ![f][newest[f]].state = "closing"]
    BY <1>1, <1>2 DEF InState, Terminated
  <2> DEFINE i == newest[f]
  <2>2. "closing" \in SocketStates \ {"closed"}
    BY DEF SocketStates
  <2> HIDE DEF i
  <2>3. /\ i \in Ids /\ socket[f][i].state # "closed"
        /\ socket' = [socket EXCEPT ![f][i].state = "closing"]
    BY <2>1, Zenon DEF i
  <2> QED BY <1>1, <2>2, <2>3, StateChanges, Zenon DEF SetState
<1>3. CASE newest[f] \notin InState(f, {"connecting", "mute"})
  BY <1>1, <1>3, ChainStands DEF Terminated
<1> QED BY <1>2, <1>3

LEMMA ChainSocketStep ==
  ASSUME ChainInv, NEW f \in setup, NEW i \in Ids,
         \/ Opens(f, i) \/ HangsUp(f, i) \/ FallsSilent(f, i)
         \/ SocketEnds(f, i) \/ AttemptTimeout(f, i)
  PROVE  ChainInv'
<1>1. /\ "open" \in SocketStates \ {"closed"}
      /\ "mute" \in SocketStates \ {"closed"}
      /\ "closing" \in SocketStates \ {"closed"}
  BY DEF SocketStates
<1>2. CASE Opens(f, i)
  <2>1. /\ socket[f][i].state # "closed" /\ UNCHANGED <<setup, phase, timers>>
        /\ socket' = [socket EXCEPT ![f][i].state = "open"]
    BY <1>2 DEF Opens
  <2> QED BY <1>1, <2>1, StateChanges, Zenon DEF SetState
<1>3. CASE HangsUp(f, i)
  <2>1. /\ socket[f][i].state # "closed" /\ UNCHANGED <<setup, phase, timers>>
        /\ socket' = [socket EXCEPT ![f][i].state = "closing"]
    BY <1>3 DEF HangsUp, InState
  <2> QED BY <1>1, <2>1, StateChanges, Zenon DEF SetState
<1>4. CASE FallsSilent(f, i)
  <2>1. /\ socket[f][i].state # "closed" /\ UNCHANGED <<setup, phase, timers>>
        /\ socket' = [socket EXCEPT ![f][i].state = "mute"]
    BY <1>4 DEF FallsSilent
  <2> QED BY <1>1, <2>1, StateChanges, Zenon DEF SetState
<1>5. CASE PlainCloses(f, i)
  BY <1>5, ChainClosed DEF PlainCloses, Callers
<1>6. CASE TickerCloses(f, i)
  <2>1. socket[f][i].caller \in Callers /\ f \notin Plain
    BY <1>6 DEF ChainInv, FeedTypeOK, Sockets, TickerCloses, Plain
  <2>2. socket[f][i].state = "closing" /\ Closed(f, i, socket[f][i].caller, 1)
        /\ setup' = setup
    BY <1>6 DEF TickerCloses
  <2> QED BY <2>1, <2>2, ChainClosed
<1>7. CASE CombinedCloses(f, i)
  <2>1. f \notin Plain /\ socket[f][i].state = "closing" /\ setup' = setup
        /\ "nobody" \in Callers
    BY <1>7 DEF CombinedCloses, Plain, Callers
  <2>2. CASE socket[f][i].caller = "main"
    BY <1>7, <2>1, <2>2, ChainExit DEF CombinedCloses
  <2>3. CASE socket[f][i].caller = "timer"
    <3>1. Closed(f, i, "nobody", 2)
      BY <1>7, <2>3 DEF CombinedCloses
    <3> QED BY <2>1, <3>1, ChainClosed
  <2>4. CASE socket[f][i].caller \notin {"main", "timer"}
    <3>1. Closed(f, i, "nobody", 1)
      BY <1>7, <2>4 DEF CombinedCloses
    <3> QED BY <2>1, <3>1, ChainClosed
  <2> QED BY <2>2, <2>3, <2>4
<1>8. CASE AttemptTimeout(f, i)
  BY <1>8, ChainTimeout
<1> QED BY <1>2, <1>3, <1>4, <1>5, <1>6, <1>7, <1>8 DEF SocketEnds

LEMMA ChainLink == ChainInv /\ LinkNext => ChainInv'
<1> SUFFICES ASSUME ChainInv, LinkNext PROVE ChainInv'
  OBVIOUS
<1>1. CASE Connect
  BY <1>1, ChainConnect
<1>2. CASE FirstPriceTimeout
  BY <1>2, ChainExit DEF FirstPriceTimeout
<1>3. CASE Disconnect
  BY <1>3, ChainExit DEF Disconnect
<1>4. CASE \E f \in setup : GoesStale(f) \/ FeedReconnects(f) \/ Heartbeat(f)
  <2>1. PICK f \in setup : GoesStale(f) \/ FeedReconnects(f) \/ Heartbeat(f)
    BY <1>4
  <2>2. CASE GoesStale(f)
    BY <2>2, ChainStands DEF GoesStale
  <2>3. CASE FeedReconnects(f)
    <3>1. PICK caller \in Callers : /\ Reconnect(f, caller)
                                    /\ f \in Plain => caller = "nobody"
      BY <2>3 DEF FeedReconnects, PlainReconnects, TickerReconnects,
         CombinedReconnects, Callers, Plain
    <3> QED BY <3>1, ChainReconnect
  <2>4. CASE Heartbeat(f)
    BY <2>4, ChainHeartbeat
  <2> QED BY <2>1, <2>2, <2>3, <2>4
<1>5. CASE \E f \in setup, i \in Ids :
             \/ Opens(f, i) \/ HangsUp(f, i) \/ FallsSilent(f, i)
             \/ SocketEnds(f, i) \/ AttemptTimeout(f, i)
  BY <1>5, ChainSocketStep
<1> QED BY <1>1, <1>2, <1>3, <1>4, <1>5 DEF LinkNext

LEMMA ChainStep == ChainInv /\ [CryptoNext]_cryptoVars => ChainInv'
<1> SUFFICES ASSUME ChainInv, [CryptoNext]_cryptoVars PROVE ChainInv'
  OBVIOUS
<1>1. CASE RoundNext
  BY <1>1, ChainStands DEF RoundNext, Idle, Look, Discover, ReadDirection,
     NoDirection, RoundEnds, NoEdge, CreateSignal, PublishSignal, PublishFails,
     Begin, feedVars, linkVars
<1>2. CASE Link
  BY <1>2, ChainLink DEF Link
<1>3. CASE \E s \in Symbols, p \in Prices : Quote(s, p)
  BY <1>3, ChainMessage DEF Quote, Service
<1>4. CASE \E f \in setup : OtherPrice(f)
  BY <1>4, ChainMessage DEF OtherPrice
<1>5. CASE Tick
  BY <1>5, ChainStands DEF Tick, feedVars, linkVars
<1>6. CASE UNCHANGED cryptoVars
  BY <1>6, ChainStands DEF cryptoVars, feedVars, linkVars
<1> QED BY <1>1, <1>2, <1>3, <1>4, <1>5, <1>6 DEF CryptoNext

LEMMA ChainHolds == ChainInv => FeedsKeepOneChain
BY DEF ChainInv, ChainsOf, Busy, FeedsKeepOneChain

(* A feed of the service that is up has a socket or a timer that will open  *)
(* one, and a plain feed never has two: a reconnect that is scheduled by    *)
(* scheduleReconnect() is neither lost nor doubled, for any setups and any  *)
(* number of faults.                                                        *)
THEOREM OneChain == CryptoSpec => []FeedsKeepOneChain
<1>1. CryptoInit => ChainInv
  BY ChainInit DEF CryptoInit
<1> QED BY <1>1, ChainStep, ChainHolds, PTL DEF CryptoSpec

-----------------------------------------------------------------------------
(* The opens of a window: after a change of window that a loop at rest sees, *)
(* the clock stands at its first second until the loop looks.               *)
EarlyInv ==
  /\ calm /\ passed => pc = "wait" /\ sec = 0 /\ ticked
  /\ calm /\ ~passed => prompt
  /\ pc = "off" => ~calm

LEMMA EarlyInit == CryptoInit => EarlyInv
BY DEF CryptoInit, EarlyInv

(* A step that leaves the clock and what is remembered alone. *)
LEMMA EarlyFrame ==
  ASSUME EarlyInv, UNCHANGED <<sec, passed, calm, prompt>>,
         pc' = "off" => pc = "off",
         pc # "wait" \/ (pc' = pc /\ ticked' = ticked)
  PROVE  EarlyInv'
BY DEF EarlyInv

LEMMA EarlyStep == EarlyInv /\ [CryptoNext]_cryptoVars => EarlyInv'
<1> SUFFICES ASSUME EarlyInv, [CryptoNext]_cryptoVars PROVE EarlyInv'
  OBVIOUS
<1> USE DEF GoTo, Answered, timeVars, pastVars
<1>1. CASE Idle
  BY <1>1 DEF Idle, EarlyInv
<1>2. CASE \E entry \in BOOLEAN : Look(entry)
  <2>1. PICK entry \in BOOLEAN : Look(entry)
    BY <1>2
  <2>2. /\ pc' # "off" /\ calm' = calm /\ pc = "wait"
        /\ prompt' = IF passed THEN sec = 0 ELSE prompt
    BY <2>1 DEF Look
  <2>3. ~ passed'
    BY <2>1, Zenon DEF Look
  <2>4. calm' => prompt'
    <3>1. CASE passed
      <4>1. prompt' = (sec = 0)
        BY <2>2, <3>1, Zenon
      <4>2. calm => sec = 0
        BY <3>1, Zenon DEF EarlyInv
      <4> QED BY <2>2, <4>1, <4>2, Zenon
    <3>2. CASE ~ passed
      <4>1. prompt' = prompt
        BY <2>2, <3>2, Zenon
      <4>2. calm => prompt
        BY <3>2, Zenon DEF EarlyInv
      <4>3. calm' => calm
        BY <2>2
      <4> QED BY <4>1, <4>2, <4>3, Zenon
    <3> QED BY <3>1, <3>2
  <2> QED BY <2>2, <2>3, <2>4, Zenon DEF EarlyInv
<1>3. CASE \E found \in SUBSET Symbols : Discover(found)
  BY <1>3, EarlyFrame DEF Discover
<1>4. CASE \E s \in todo : ReadDirection(s) \/ NoDirection(s)
  BY <1>4, EarlyFrame DEF ReadDirection, NoDirection
<1>5. CASE RoundEnds
  BY <1>5, EarlyFrame DEF RoundEnds
<1>6. CASE NoEdge \/ CreateSignal
  BY <1>6, EarlyFrame DEF NoEdge, CreateSignal
<1>7. CASE PublishSignal \/ PublishFails
  BY <1>7, EarlyFrame DEF PublishSignal, PublishFails
<1>8. CASE Begin
  BY <1>8, EarlyFrame DEF Begin
<1>9. CASE Link
  <2>1. CASE phase' = "down"
    BY <1>9, <2>1 DEF Link, Carried, EarlyInv
  <2>2. CASE phase' # "down"
    BY <1>9, <2>2, EarlyFrame DEF Link, Carried, roundVars
  <2> QED BY <2>1, <2>2
<1>10. CASE \E s \in Symbols, p \in Prices : Quote(s, p)
  BY <1>10, EarlyFrame DEF Quote, roundVars
<1>11. CASE \E f \in setup : OtherPrice(f)
  BY <1>11, EarlyFrame DEF OtherPrice, roundVars
<1>12. CASE Tick
  <2>1. /\ pc # "off" /\ ~ ticked /\ pc' = pc /\ prompt' = prompt
    BY <1>12 DEF Tick, roundVars
  <2>2. ticked'
    BY <1>12, Zenon DEF Tick
  <2>3. CASE sec + 1 < Window
    <3>1. passed' = passed /\ calm' = calm
      BY <1>12, <2>3 DEF Tick
    <3> QED BY <2>1, <2>2, <3>1, Zenon DEF EarlyInv
  <2>4. CASE ~ (sec + 1 < Window)
    <3>1. passed' /\ sec' = 0
      BY <1>12, <2>4, Zenon DEF Tick
    <3>2. calm' = (pc = "wait")
      BY <1>12, <2>4, Zenon DEF Tick
    <3> QED BY <2>1, <2>2, <3>1, <3>2, Zenon DEF EarlyInv
  <2> QED BY <2>3, <2>4
<1>13. CASE UNCHANGED cryptoVars
  BY <1>13, EarlyFrame DEF cryptoVars, roundVars
<1> QED
  BY <1>1, <1>2, <1>3, <1>4, <1>5, <1>6, <1>7, <1>8, <1>9, <1>10, <1>11,
     <1>12, <1>13 DEF CryptoNext, RoundNext

(* recordWindowOpen() records a window's opens at its start when the loop of *)
(* main() was at rest at the change: whatever the feeds did in between.     *)
THEOREM EarlyOpens == CryptoSpec => []OpensAreEarly
<1>1. EarlyInv => OpensAreEarly
  BY DEF EarlyInv, OpensAreEarly
<1> QED BY <1>1, EarlyInit, EarlyStep, PTL DEF CryptoSpec

-----------------------------------------------------------------------------
(* The time a round has taken: two answers per symbol looked at, a tick each. *)
Looked == Cardinality(Symbols) - Cardinality(todo)

Late == IF ticked THEN 1 ELSE 0

(* How long ago the round began, at most. *)
RoundInv ==
  /\ pc \in {"off", "wait", "discover", "next", "book", "publish"}
  /\ sec \in Nat /\ elapsed \in Nat
  /\ passed \in BOOLEAN /\ ticked \in BOOLEAN
  /\ todo \subseteq Symbols
  /\ signal \in [at : Nat, ttl : Nat]
  /\ pc \in {"discover", "next", "book", "publish"} => elapsed \in EntryWindow
  /\ pc = "discover" => Now <= elapsed + Late
  /\ pc = "next" => Now <= elapsed + 2 * Looked + 1 + Late
  /\ pc = "book" => Now <= elapsed + 2 * Looked - 1 + Late
  /\ pc = "publish" => Now <= elapsed + 2 * Looked + Late
  /\ SignalsExpireInWindow

Numbers ==
  /\ Window \in Nat /\ EntryStart \in Nat /\ EntryEnd \in Nat
  /\ LongLeft \in Nat /\ LongTtl \in Nat /\ ShortTtl \in Nat
  /\ EntryEnd <= Window
  /\ IsFiniteSet(Symbols) /\ Cardinality(Symbols) \in Nat
  /\ LongTtl + 2 * Cardinality(Symbols) <= LongLeft
  /\ EntryEnd + 2 * Cardinality(Symbols) + ShortTtl <= Window + 1

LEMMA NumbersAre == Numbers
<1>1. IsFiniteSet(Symbols)
  BY CryptoSignalsAssumption
<1>2. Cardinality(Symbols) \in Nat
  BY <1>1, FS_CardinalityType
<1>3. /\ Window \in Nat /\ EntryStart \in Nat /\ EntryEnd \in Nat
      /\ LongLeft \in Nat /\ LongTtl \in Nat /\ ShortTtl \in Nat
      /\ EntryEnd <= Window
  BY CryptoSignalsAssumption
<1>4. /\ LongTtl + MostAnswers <= LongLeft
      /\ EntryEnd + MostAnswers + ShortTtl <= Window + 1
  BY CryptoSignalsAssumption, Zenon
<1> QED BY <1>1, <1>2, <1>3, <1>4 DEF Numbers, MostAnswers

LEMMA LookedIs ==
  ASSUME NEW some \in SUBSET Symbols
  PROVE  /\ Cardinality(some) \in 0 .. Cardinality(Symbols)
         /\ \A s \in some : Cardinality(some \ {s}) = Cardinality(some) - 1
<1>1. IsFiniteSet(Symbols)
  BY NumbersAre DEF Numbers
<1>2. IsFiniteSet(some) /\ Cardinality(some) <= Cardinality(Symbols)
  BY <1>1, FS_Subset
<1>3. Cardinality(some) \in Nat /\ Cardinality(Symbols) \in Nat
  BY <1>1, <1>2, FS_CardinalityType
<1>4. \A s \in some : Cardinality(some \ {s}) = Cardinality(some) - 1
  BY <1>2, FS_RemoveElement
<1> QED BY <1>2, <1>3, <1>4

LEMMA RoundInit == CryptoInit => RoundInv
<1> SUFFICES ASSUME CryptoInit PROVE RoundInv
  OBVIOUS
<1>1. /\ pc = "off" /\ sec = 0 /\ elapsed = 0 /\ passed \in BOOLEAN
      /\ ticked \in BOOLEAN /\ todo = {} /\ signal = [at |-> 0, ttl |-> 0]
  BY DEF CryptoInit, NoSignal
<1> QED BY <1>1 DEF RoundInv, SignalsExpireInWindow

(* A step between two answers. *)
LEMMA RoundFrame ==
  ASSUME RoundInv, UNCHANGED <<pc, todo, elapsed, signal, sec, passed, ticked>>
  PROVE  RoundInv'
BY DEF RoundInv, SignalsExpireInWindow, Now, Looked, Late

(* Outside a round nothing is in hand. *)
LEMMA RoundIdle ==
  ASSUME RoundInv, pc' \in {"off", "wait"}, elapsed' \in Nat, sec' \in Nat,
         passed' \in BOOLEAN, ticked' \in BOOLEAN, todo' \subseteq Symbols,
         signal' \in [at : Nat, ttl : Nat]
  PROVE  RoundInv'
BY DEF RoundInv, SignalsExpireInWindow

LEMMA RoundOverIs ==
  ASSUME RoundOver
  PROVE  /\ elapsed' \in Nat /\ todo' \subseteq Symbols
         /\ signal' \in [at : Nat, ttl : Nat]
BY DEF RoundOver, NoSignal

(* What was late so far is no more, and one answer more has come. *)
LEMMA RoundAnswer ==
  ASSUME RoundInv, Answered, UNCHANGED <<elapsed, todo>>,
         signal' \in [at : Nat, ttl : Nat],
         \/ pc = "book" /\ pc' = "next"
         \/ pc = "publish" /\ pc' = "next"
  PROVE  RoundInv'
<1>1. /\ Now' = Now /\ Looked' = Looked /\ Late' = 0 /\ ticked' = FALSE
      /\ sec' = sec /\ passed' = passed
  BY DEF Answered, Now, Looked, Late
<1>2. Late \in {0, 1}
  BY DEF Late
<1>3. Now \in Nat /\ Looked \in Int /\ elapsed \in Nat
  <2>1. Cardinality(todo) \in Int /\ Cardinality(Symbols) \in Nat
    BY LookedIs, NumbersAre DEF RoundInv, Numbers
  <2>2. Window \in Nat /\ sec \in Nat
    BY NumbersAre DEF Numbers, RoundInv
  <2> QED BY <2>1, <2>2 DEF Looked, Now, RoundInv
<1>4. Now <= elapsed + 2 * Looked + Late
  BY <1>2, <1>3 DEF RoundInv
<1>5. Now' <= elapsed' + 2 * Looked' + 1 + Late'
  BY <1>1, <1>2, <1>3, <1>4
<1> QED BY <1>1, <1>5 DEF RoundInv, SignalsExpireInWindow

LEMMA RoundLook ==
  ASSUME RoundInv, NEW entry \in BOOLEAN, Look(entry)
  PROVE  RoundInv'
<1>1. /\ UNCHANGED <<todo, signal, sec>>
      /\ passed' = FALSE /\ ticked' = FALSE
      /\ pc' = IF entry THEN "discover" ELSE "wait"
      /\ elapsed' = IF entry THEN sec ELSE elapsed
      /\ entry => sec \in EntryWindow
  BY DEF Look, GoTo
<1>2. CASE ~ entry
  BY <1>1, <1>2, RoundIdle DEF RoundInv
<1>3. CASE entry
  <2>1. pc' = "discover" /\ elapsed' = sec /\ sec \in EntryWindow
    BY <1>1, <1>3
  <2>2. Now' = sec /\ Late' = 0
    BY <1>1 DEF Now, Late
  <2>3. sec \in Nat
    BY DEF RoundInv
  <2>4. Now' <= elapsed' + Late'
    BY <2>1, <2>2, <2>3
  <2>5. EntryWindow' = EntryWindow
    BY DEF EntryWindow
  <2> QED BY <1>1, <2>1, <2>3, <2>4, <2>5 DEF RoundInv, SignalsExpireInWindow
<1> QED BY <1>2, <1>3

LEMMA RoundDiscover ==
  ASSUME RoundInv, NEW found \in SUBSET Symbols, Discover(found)
  PROVE  RoundInv'
<1>1. /\ pc = "discover" /\ pc' = "next" /\ todo' = found
      /\ UNCHANGED <<elapsed, signal, sec, passed>> /\ ticked' = FALSE
  BY DEF Discover, GoTo, Answered
<1>2. /\ Now' = Now /\ Late' = 0
      /\ Looked' = Cardinality(Symbols) - Cardinality(found)
  BY <1>1 DEF Now, Late, Looked
<1>3. Looked' \in Nat /\ Now \in Nat /\ elapsed \in Nat
  <2>1. Window \in Nat /\ Cardinality(Symbols) \in Nat
    BY NumbersAre DEF Numbers
  <2> QED BY <1>2, <2>1, LookedIs DEF Now, RoundInv
<1>4. Now <= elapsed + Late /\ Late \in {0, 1}
  BY <1>1 DEF RoundInv, Late
<1>5. Now' <= elapsed' + 2 * Looked' + 1 + Late'
  BY <1>1, <1>2, <1>3, <1>4
<1> QED BY <1>1, <1>5 DEF RoundInv, SignalsExpireInWindow, EntryWindow

LEMMA RoundDirection ==
  ASSUME RoundInv, NEW s \in todo, ReadDirection(s) \/ NoDirection(s)
  PROVE  RoundInv'
<1>1. /\ pc = "next" /\ pc' \in {"book", "next"} /\ todo' = todo \ {s}
      /\ UNCHANGED <<elapsed, signal, sec, passed, ticked>>
  BY DEF ReadDirection, NoDirection, GoTo, timeVars
<1>2. /\ Cardinality(todo) \in Int /\ Cardinality(Symbols) \in Nat
      /\ Cardinality(todo \ {s}) = Cardinality(todo) - 1
  BY LookedIs, NumbersAre DEF RoundInv, Numbers
<1>3. Cardinality(todo') = Cardinality(todo) - 1
  BY <1>1, <1>2
<1>4. Now' = Now /\ Late' = Late /\ Looked' = Looked + 1 /\ Looked \in Int
  BY <1>1, <1>2, <1>3 DEF Now, Late, Looked
<1>5. Now \in Nat /\ elapsed \in Nat /\ Late \in {0, 1}
  BY NumbersAre DEF Numbers, Now, RoundInv, Late
<1>6. Now <= elapsed + 2 * Looked + 1 + Late
  BY <1>1 DEF RoundInv
<1>7. /\ Now' <= elapsed' + 2 * Looked' - 1 + Late'
      /\ Now' <= elapsed' + 2 * Looked' + 1 + Late'
  BY <1>1, <1>4, <1>5, <1>6
<1>8. todo' \subseteq Symbols
  BY <1>1 DEF RoundInv
<1> QED BY <1>1, <1>7, <1>8 DEF RoundInv, SignalsExpireInWindow, EntryWindow

(* createSignal(): the time that is left when the round begins covers what  *)
(* the signal lives and what the answers take.                              *)
LEMMA RoundSignal ==
  ASSUME RoundInv, CreateSignal
  PROVE  RoundInv'
<1> DEFINE n == Cardinality(Symbols)
           left == Window - elapsed
           ttl == Ttl(left)
<1>1. /\ pc = "book" /\ pc' = "publish" /\ ticked' = FALSE
      /\ signal' = [signal EXCEPT !.at = Now, !.ttl = ttl]
      /\ UNCHANGED <<elapsed, todo, sec, passed>>
  BY DEF CreateSignal, GoTo, Answered
<1>2. /\ Cardinality(todo) \in 0 .. n /\ n \in Nat
      /\ Window \in Nat /\ EntryStart \in Nat /\ EntryEnd \in Nat
      /\ LongLeft \in Nat /\ LongTtl \in Nat /\ ShortTtl \in Nat
      /\ EntryEnd <= Window
      /\ LongTtl + 2 * n <= LongLeft
      /\ EntryEnd + 2 * n + ShortTtl <= Window + 1
  BY LookedIs, NumbersAre DEF RoundInv, Numbers
<1>3. Looked \in Nat /\ Looked <= n
  BY <1>2 DEF Looked
<1>4. Now \in Nat /\ elapsed \in Nat /\ Late \in {0, 1}
  BY NumbersAre DEF Numbers, Now, RoundInv, Late
<1>5. Now <= elapsed + 2 * Looked
  <2>1. Now <= elapsed + 2 * Looked - 1 + Late
    BY <1>1 DEF RoundInv
  <2> QED BY <1>3, <1>4, <2>1
<1>6. elapsed \in EntryWindow
  BY <1>1 DEF RoundInv
<1> HIDE DEF n
<1>7. ttl \in Nat /\ Now + ttl <= Window
  <2>1. elapsed < EntryEnd /\ Now <= elapsed + 2 * n
    BY <1>2, <1>3, <1>4, <1>5, <1>6 DEF EntryWindow
  <2>2. CASE left >= LongLeft
    <3>1. ttl = LongTtl
      BY <2>2 DEF Ttl
    <3> QED BY <1>2, <1>4, <2>1, <2>2, <3>1
  <2>3. CASE ~ (left >= LongLeft)
    <3>1. ttl = ShortTtl
      BY <2>3 DEF Ttl
    <3> QED BY <1>2, <1>4, <2>1, <3>1
  <2> QED BY <2>2, <2>3
<1> HIDE DEF left, ttl
<1>8. /\ signal' \in [at : Nat, ttl : Nat] /\ signal'.at = Now
      /\ signal'.ttl = ttl
  <2>1. signal' = [[signal EXCEPT !.at = Now] EXCEPT !.ttl = ttl]
    BY <1>1
  <2>2. [signal EXCEPT !.at = Now] \in [at : Nat, ttl : Nat]
        /\ [signal EXCEPT !.at = Now].at = Now
    BY <1>4 DEF RoundInv
  <2> QED BY <1>4, <1>7, <2>1, <2>2
<1>9. Now' = Now /\ Late' = 0 /\ Looked' = Looked
  BY <1>1 DEF Now, Late, Looked
<1>10. Now' <= elapsed' + 2 * Looked' + Late'
  BY <1>1, <1>3, <1>4, <1>5, <1>9
<1>11. SignalsExpireInWindow'
  BY <1>7, <1>8 DEF SignalsExpireInWindow
<1> QED BY <1>1, <1>8, <1>10, <1>11 DEF RoundInv, EntryWindow

(* The tick that an answer may take makes it late. *)
LEMMA RoundTick ==
  ASSUME RoundInv, Tick
  PROVE  RoundInv'
<1>1. /\ UNCHANGED <<pc, todo, elapsed, signal>> /\ ticked' = TRUE /\ ~ ticked
  BY DEF Tick, roundVars
<1>2. Late = 0 /\ Late' = 1 /\ Looked' = Looked
  BY <1>1 DEF Late, Looked
<1>3. Window \in Nat /\ sec \in Nat /\ passed \in BOOLEAN
  BY NumbersAre DEF Numbers, RoundInv
<1>4. Now \in Nat /\ Now' \in Nat /\ Now' <= Now + 1 /\ sec' \in Nat
      /\ passed' \in BOOLEAN
  <2>1. CASE sec + 1 < Window
    <3>1. sec' = sec + 1 /\ passed' = passed
      BY <2>1 DEF Tick
    <3> QED BY <1>3, <3>1 DEF Now
  <2>2. CASE ~ (sec + 1 < Window)
    <3>1. sec' = 0 /\ passed' = TRUE
      BY <2>2 DEF Tick
    <3> QED BY <1>3, <2>2, <3>1 DEF Now
  <2> QED BY <2>1, <2>2
<1>5. Looked \in Int /\ elapsed \in Nat
  <2>1. Cardinality(todo) \in Int /\ Cardinality(Symbols) \in Nat
    BY LookedIs, NumbersAre DEF RoundInv, Numbers
  <2> QED BY <2>1 DEF Looked, RoundInv
<1>6. \A e \in Int : Now <= e + Late => Now' <= e + Late'
  BY <1>2, <1>4
<1>7. /\ elapsed \in Int /\ elapsed + 2 * Looked + 1 \in Int
      /\ elapsed + 2 * Looked - 1 \in Int /\ elapsed + 2 * Looked \in Int
  BY <1>5
<1>8. /\ pc' = "discover" => Now' <= elapsed' + Late'
      /\ pc' = "next" => Now' <= elapsed' + 2 * Looked' + 1 + Late'
      /\ pc' = "book" => Now' <= elapsed' + 2 * Looked' - 1 + Late'
      /\ pc' = "publish" => Now' <= elapsed' + 2 * Looked' + Late'
  BY <1>1, <1>2, <1>6, <1>7 DEF RoundInv
<1> QED BY <1>1, <1>4, <1>8 DEF RoundInv, SignalsExpireInWindow, EntryWindow

LEMMA RoundStep == RoundInv /\ [CryptoNext]_cryptoVars => RoundInv'
<1> SUFFICES ASSUME RoundInv, [CryptoNext]_cryptoVars PROVE RoundInv'
  OBVIOUS
<1> USE DEF GoTo, timeVars
<1>1. CASE Idle
  BY <1>1, RoundIdle DEF Idle, Answered, RoundInv
<1>2. CASE \E entry \in BOOLEAN : Look(entry)
  BY <1>2, RoundLook
<1>3. CASE \E found \in SUBSET Symbols : Discover(found)
  BY <1>3, RoundDiscover
<1>4. CASE \E s \in todo : ReadDirection(s) \/ NoDirection(s)
  BY <1>4, RoundDirection
<1>5. CASE RoundEnds
  BY <1>5, RoundIdle, RoundOverIs DEF RoundEnds, RoundInv
<1>6. CASE NoEdge
  <2>1. signal' \in [at : Nat, ttl : Nat]
    BY <1>6 DEF NoEdge, NoSignal
  <2> QED BY <1>6, <2>1, RoundAnswer DEF NoEdge
<1>7. CASE CreateSignal
  BY <1>7, RoundSignal
<1>8. CASE PublishSignal
  <2>1. signal' \in [at : Nat, ttl : Nat]
    BY <1>8 DEF PublishSignal, NoSignal
  <2> QED BY <1>8, <2>1, RoundAnswer DEF PublishSignal
<1>9. CASE PublishFails
  BY <1>9, RoundIdle, RoundOverIs DEF PublishFails, Answered, RoundInv
<1>10. CASE Begin
  BY <1>10, RoundIdle DEF Begin, RoundInv
<1>11. CASE Link
  <2>1. CASE phase' = "down"
    BY <1>11, <2>1, RoundIdle, RoundOverIs DEF Link, Carried, RoundInv
  <2>2. CASE phase' # "down"
    BY <1>11, <2>2, RoundFrame DEF Link, Carried, roundVars
  <2> QED BY <2>1, <2>2
<1>12. CASE \E s \in Symbols, p \in Prices : Quote(s, p)
  BY <1>12, RoundFrame DEF Quote, roundVars
<1>13. CASE \E f \in setup : OtherPrice(f)
  BY <1>13, RoundFrame DEF OtherPrice, roundVars
<1>14. CASE Tick
  BY <1>14, RoundTick
<1>15. CASE UNCHANGED cryptoVars
  BY <1>15, RoundFrame DEF cryptoVars, roundVars
<1> QED
  BY <1>1, <1>2, <1>3, <1>4, <1>5, <1>6, <1>7, <1>8, <1>9, <1>10, <1>11,
     <1>12, <1>13, <1>14, <1>15 DEF CryptoNext, RoundNext

(* createSignal() reads the time left before the round's answers and lets   *)
(* the signal live on from the moment it is made: for any entry window and  *)
(* lives that leave room for the answers, it still expires in its window.   *)
THEOREM SignalsExpire == CryptoSpec => []SignalsExpireInWindow
<1>1. RoundInv => SignalsExpireInWindow
  BY DEF RoundInv
<1> QED BY <1>1, RoundInit, RoundStep, PTL DEF CryptoSpec
=============================================================================
