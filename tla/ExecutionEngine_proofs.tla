------------------------ MODULE ExecutionEngine_proofs ------------------------
(***************************************************************************)
(* Theorems about ExecutionEngine, for every set of signals and markets,   *)
(* every duration and every answer the exchange may give.                  *)
(*                                                                         *)
(* The argument: IInv is inductive.  BookInv ties a signal's handler, its  *)
(* request, the exchange's answer and the wallet together, and the guard's *)
(* counter is bounded by how many trades a step can add to those the guard *)
(* has not seen.                                                           *)
(***************************************************************************)
EXTENDS ExecutionEngine, FiniteSetTheorems, TLAPS

-----------------------------------------------------------------------------
(* Type correctness *)

LEMMA LesserIsInRange ==
  ASSUME NEW n \in Nat, NEW a \in 0 .. n
  PROVE  Lesser(a + 1, n) \in 0 .. n
BY DEF Lesser

LEMMA TypeInit == Init => TypeOK
<1> SUFFICES ASSUME Init
             PROVE  TypeOK
  OBVIOUS
<1>1. /\ BalanceCheckInterval \in Nat
      /\ MarketCooldown \in Nat
      /\ SignalMaxAge \in Nat
      /\ MaxRestarts \in Nat
  BY NumbersAssumption
<1>2. answer \in [Signals -> [Legs -> LegAnswers \cup {"pending"}]]
  BY DEF Init
<1>3. /\ sinceCheck \in 0 .. BalanceCheckInterval
      /\ tradesSinceBalanceCheck \in Nat
      /\ restarts \in 0 .. MaxRestarts
      /\ failedMarkets \in [Markets -> 0 .. MarketCooldown]
      /\ age \in [Signals -> 0 .. SignalMaxAge + 1]
  BY <1>1 DEF Init
<1> QED
  BY <1>2, <1>3 DEF Init, TypeOK, LoopStates, HandlerStates, InFlight, Ended

LEMMA TypeStep == TypeOK /\ [Next]_vars => TypeOK'
<1> SUFFICES ASSUME TypeOK, [Next]_vars
             PROVE  TypeOK'
  OBVIOUS
<1> USE NumbersAssumption DEF TypeOK, LoopStates, HandlerStates,
        InFlight, Ended, GoTo, switchVars, loopVars, signalVars, exchangeVars,
        bookVars, auditVars
<1>1. CASE BootSwitchOn
  BY <1>1 DEF BootSwitchOn
<1>2. CASE BootSwitchOff
  BY <1>2 DEF BootSwitchOff
<1>3. CASE InitializeBalanceTracking
  BY <1>3 DEF InitializeBalanceTracking, MovedMoney
<1>4. CASE Subscribe
  BY <1>4 DEF Subscribe, LoopTop
<1>5. CASE LoopSwitchOn
  BY <1>5 DEF LoopSwitchOn
<1>6. CASE LoopSwitchOff
  BY <1>6 DEF LoopSwitchOff
<1>7. CASE ReadBalance
  BY <1>7 DEF ReadBalance, MovedMoney
<1>8. CASE TripSwitch
  BY <1>8 DEF TripSwitch
<1>9. CASE Halt
  BY <1>9 DEF Halt
<1>10. CASE WakeUp
  BY <1>10 DEF WakeUp, LoopTop
<1>11. CASE Unsubscribe
  BY <1>11 DEF Unsubscribe
<1>12. ASSUME NEW s \in Signals, HandlerStep(s)
       PROVE  TypeOK'
  <2> USE DEF Advance
  <2>1. CASE Admit(s)
    BY <2>1 DEF Admit
  <2>2. CASE Refuse(s)
    BY <2>2 DEF Refuse
  <2>3. CASE VerifySlippage(s)
    BY <2>3 DEF VerifySlippage
  <2>4. CASE SubmitBatchOrders(s)
    BY <2>4 DEF SubmitBatchOrders
  <2>5. CASE ReplySuccess(s)
    BY <2>5 DEF ReplySuccess
  <2>6. CASE ReplyFailure(s)
    <3>0. MarketCooldown \in 0 .. MarketCooldown
      OBVIOUS
    <3>1. failedMarkets' \in [Markets -> 0 .. MarketCooldown]
      <4>1. CASE FirstErrorIsNoBook(answer[s])
        BY <2>6, <3>0, <4>1 DEF ReplyFailure
      <4>2. CASE ~ FirstErrorIsNoBook(answer[s])
        BY <2>6, <4>2 DEF ReplyFailure
      <4> QED
        BY <4>1, <4>2
    <3>2. handler' \in [Signals -> HandlerStates]
      BY <2>6 DEF ReplyFailure
    <3>3. UNCHANGED <<switchVars, loopVars, age, exchangeVars, bookVars,
                      restarts, auditVars>>
      BY <2>6 DEF ReplyFailure
    <3> QED
      BY <3>1, <3>2, <3>3
  <2>7. CASE RequestFails(s)
    BY <2>7 DEF RequestFails
  <2>8. CASE RecordStats(s)
    BY <2>8 DEF RecordStats
  <2>9. CASE PushHistory(s)
    BY <2>9 DEF PushHistory
  <2>10. CASE FinishRecord(s)
    BY <2>10 DEF FinishRecord
  <2>11. CASE RecordFails(s)
    BY <2>11 DEF RecordFails
  <2> QED
    BY <1>12, <2>1, <2>2, <2>3, <2>4, <2>5, <2>6, <2>7, <2>8, <2>9, <2>10,
       <2>11
    DEF HandlerStep
<1>13. CASE OperatorFlipsSwitch
  BY <1>13 DEF OperatorFlipsSwitch
<1>14. CASE BalanceChanges
  BY <1>14 DEF BalanceChanges
<1>15. CASE Stop
  BY <1>15 DEF Stop
<1>16. CASE Crash
  BY <1>16 DEF Crash
<1>17. CASE Restart
  BY <1>17 DEF Restart
<1>18. CASE Tick
  BY <1>18, LesserIsInRange DEF Tick
<1>19. ASSUME NEW s \in Signals, Publish(s)
       PROVE  TypeOK'
  BY <1>19 DEF Publish, Advance
<1>20. ASSUME NEW s \in Signals, ExchangeHandles(s)
       PROVE  TypeOK'
  BY <1>20 DEF ExchangeHandles
<1>21. CASE UNCHANGED vars
  BY <1>21 DEF vars
<1> QED
  BY <1>1, <1>2, <1>3, <1>4, <1>5, <1>6, <1>7, <1>8, <1>9, <1>10, <1>11,
     <1>12, <1>13, <1>14, <1>15, <1>16, <1>17, <1>18, <1>19, <1>20, <1>21
  DEF Next, LoopStep, Environment

(* Every variable keeps the type TypeOK gives it, in every execution. *)
THEOREM TypeCorrect == Spec => []TypeOK
BY TypeInit, TypeStep, PTL DEF Spec

-----------------------------------------------------------------------------
(* The books *)

LEMMA BookInit == Init => BookInv
BY DEF Init, BookInv

(* What BookInv says of one signal depends on these variables only. *)
LEMMA BookFrame ==
  ASSUME BookInv, UNCHANGED <<handler, exchangeVars, bookVars>>
  PROVE  BookInv'
BY DEF BookInv, AllSuccess, exchangeVars, bookVars

LEMMA BookStep == TypeOK /\ BookInv /\ [Next]_vars => BookInv'
<1> SUFFICES ASSUME TypeOK, BookInv, [Next]_vars
             PROVE  BookInv'
  OBVIOUS
<1> USE DEF exchangeVars, bookVars, signalVars
<1>1. CASE \/ LoopStep \/ OperatorFlipsSwitch \/ BalanceChanges \/ Stop
           \/ Restart \/ Tick \/ UNCHANGED vars
  <2>1. UNCHANGED <<handler, exchangeVars, bookVars>>
    BY <1>1 DEF LoopStep, BootSwitchOn, BootSwitchOff,
         InitializeBalanceTracking, Subscribe, LoopSwitchOn, LoopSwitchOff,
         ReadBalance, TripSwitch, Halt, WakeUp, Unsubscribe,
         OperatorFlipsSwitch, BalanceChanges, Stop, Restart, Tick, vars
  <2> QED
    BY <2>1, BookFrame
<1>2. CASE Crash
  BY <1>2 DEF Crash, BookInv, TypeOK, AllSuccess, Ended
<1>3. ASSUME NEW s \in Signals, Publish(s)
      PROVE  BookInv'
  BY <1>3 DEF Publish, Advance, BookInv, TypeOK, AllSuccess
<1>4. ASSUME NEW s \in Signals, ExchangeHandles(s)
      PROVE  BookInv'
  BY <1>4 DEF ExchangeHandles, BookInv, TypeOK, AllSuccess
<1>5. ASSUME NEW s \in Signals, HandlerStep(s)
      PROVE  BookInv'
  <2> USE DEF Advance, BookInv, TypeOK, AllSuccess
  <2>1. CASE Admit(s) \/ Refuse(s) \/ VerifySlippage(s)
    BY <2>1 DEF Admit, Refuse, VerifySlippage
  <2>2. CASE SubmitBatchOrders(s)
    BY <2>2 DEF SubmitBatchOrders
  <2>3. CASE ReplySuccess(s)
    BY <2>3 DEF ReplySuccess
  <2>4. CASE ReplyFailure(s)
    BY <2>4 DEF ReplyFailure
  <2>5. CASE RequestFails(s) \/ RecordFails(s)
    BY <2>5 DEF RequestFails, RecordFails
  <2>6. CASE RecordStats(s)
    BY <2>6 DEF RecordStats
  <2>7. CASE PushHistory(s)
    BY <2>7 DEF PushHistory
  <2>8. CASE FinishRecord(s)
    BY <2>8 DEF FinishRecord
  <2> QED
    BY <1>5, <2>1, <2>2, <2>3, <2>4, <2>5, <2>6, <2>7, <2>8 DEF HandlerStep
<1> QED
  BY <1>1, <1>2, <1>3, <1>4, <1>5 DEF Next, Environment

-----------------------------------------------------------------------------
(* The balance guard's trade counter *)

(* The trades that the counter must cover: recorded in full, bought, and    *)
(* later than the balance the guard last used.                              *)
Unaudited == (Executed \cap MovedMoney) \ audited

LEMMA UnauditedIsFinite ==
  ASSUME NEW S \in SUBSET Signals
  PROVE  /\ IsFiniteSet(S)
         /\ Cardinality(S) \in Nat
         /\ \A T \in SUBSET S : Cardinality(T) <= Cardinality(S)
BY SignalsAssumption, FS_Subset, FS_CardinalityType

LEMMA NothingUnaudited == Cardinality({}) = 0
BY FS_EmptySet

(* One more trade in the set is at most one more to count. *)
LEMMA OneMore ==
  ASSUME NEW S \in SUBSET Signals, NEW s \in Signals, NEW T \in SUBSET (S \cup {s})
  PROVE  Cardinality(T) <= Cardinality(S) + 1
<1>1. IsFiniteSet(S) /\ IsFiniteSet(S \cup {s})
  BY UnauditedIsFinite
<1>2. Cardinality(T) <= Cardinality(S \cup {s})
  BY UnauditedIsFinite
<1>3. \/ Cardinality(S \cup {s}) = Cardinality(S)
      \/ Cardinality(S \cup {s}) = Cardinality(S) + 1
  BY <1>1, FS_AddElement
<1>4. /\ Cardinality(S) \in Nat
      /\ Cardinality(T) \in Nat
  BY UnauditedIsFinite
<1> QED
  BY <1>2, <1>3, <1>4

LEMMA GuardInit == Init => DownInv /\ GuardCountsExecutedTrades
BY DEF Init, DownInv, GuardCountsExecutedTrades

LEMMA UnauditedIsOfSignals ==
  /\ Unaudited \in SUBSET Signals
  /\ Unaudited' \in SUBSET Signals
BY DEF Unaudited, Executed

(* Where a step neither starts the engine, nor lowers the counter, nor adds *)
(* to what the counter must cover, the counter goes on covering it.         *)
LEMMA GuardFrame ==
  ASSUME TypeOK, TypeOK', GuardCountsExecutedTrades,
         isRunning' => isRunning,
         tradesSinceBalanceCheck' = tradesSinceBalanceCheck,
         Unaudited' \subseteq Unaudited
  PROVE  GuardCountsExecutedTrades'
<1> SUFFICES ASSUME isRunning'
             PROVE  tradesSinceBalanceCheck' >= Cardinality(Unaudited')
  BY DEF GuardCountsExecutedTrades, Unaudited
<1>1. tradesSinceBalanceCheck >= Cardinality(Unaudited)
  BY DEF GuardCountsExecutedTrades, Unaudited
<1>2. Unaudited \in SUBSET Signals /\ Unaudited' \in SUBSET Signals
  BY UnauditedIsOfSignals
<1>3. /\ Cardinality(Unaudited') <= Cardinality(Unaudited)
      /\ Cardinality(Unaudited) \in Nat
      /\ Cardinality(Unaudited') \in Nat
  BY <1>2, UnauditedIsFinite
<1>4. tradesSinceBalanceCheck \in Nat
  BY DEF TypeOK
<1> QED
  BY <1>1, <1>3, <1>4

(* The guard looks at every trade there is; a step after which it has       *)
(* nothing left to count keeps it true whatever the counter is.             *)
LEMMA GuardAudits ==
  ASSUME TypeOK', audited' = MovedMoney, UNCHANGED <<handler, bought>>
  PROVE  GuardCountsExecutedTrades'
<1>1. MovedMoney' = MovedMoney
  BY DEF MovedMoney
<1>2. (Executed' \cap MovedMoney') \ audited' = {}
  BY <1>1
<1>3. tradesSinceBalanceCheck' \in Nat
  BY DEF TypeOK
<1> QED
  BY <1>2, <1>3, NothingUnaudited DEF GuardCountsExecutedTrades

LEMMA GuardStep ==
  TypeOK /\ BookInv /\ DownInv /\ GuardCountsExecutedTrades /\ [Next]_vars
    => DownInv' /\ GuardCountsExecutedTrades'
<1> SUFFICES ASSUME TypeOK, BookInv, DownInv, GuardCountsExecutedTrades,
                    [Next]_vars
             PROVE  DownInv' /\ GuardCountsExecutedTrades'
  OBVIOUS
<1> USE DEF GoTo, switchVars, loopVars, signalVars,
        exchangeVars, bookVars, auditVars
<1>0. TypeOK'
  BY TypeStep
<1>1. CASE InitializeBalanceTracking
  <2>1. audited' = MovedMoney /\ UNCHANGED <<handler, bought>>
    BY <1>1 DEF InitializeBalanceTracking
  <2>2. loop' = "subscribe"
    BY <1>1 DEF InitializeBalanceTracking
  <2> QED
    BY <1>0, <2>1, <2>2, GuardAudits DEF DownInv
<1>2. CASE ReadBalance
  <2>1. audited' = MovedMoney /\ UNCHANGED <<handler, bought>>
    BY <1>2 DEF ReadBalance
  <2>2. loop' # "down"
    BY <1>2 DEF ReadBalance
  <2> QED
    BY <1>0, <2>1, <2>2, GuardAudits DEF DownInv
<1>3. CASE Restart
  <2>1. ~ isRunning /\ isRunning' = isRunning
    BY <1>3 DEF Restart, DownInv
  <2> QED
    BY <2>1 DEF DownInv, GuardCountsExecutedTrades
<1>4. CASE Halt \/ Stop \/ Crash
  <2>1. isRunning' = FALSE
    BY <1>4 DEF Halt, Stop, Crash
  <2> QED
    BY <2>1 DEF DownInv, GuardCountsExecutedTrades
<1>5. CASE \/ BootSwitchOn \/ BootSwitchOff \/ Subscribe \/ LoopSwitchOn
           \/ LoopSwitchOff \/ TripSwitch \/ WakeUp \/ Unsubscribe
           \/ OperatorFlipsSwitch \/ BalanceChanges \/ Tick \/ UNCHANGED vars
  <2>1. UNCHANGED <<isRunning, tradesSinceBalanceCheck, handler, bought, audited>>
    BY <1>5 DEF BootSwitchOn, BootSwitchOff, Subscribe, LoopSwitchOn,
         LoopSwitchOff, TripSwitch, WakeUp, Unsubscribe, OperatorFlipsSwitch,
         BalanceChanges, Tick, vars
  <2>2. Unaudited' = Unaudited
    BY <2>1 DEF Unaudited, Executed, MovedMoney
  <2>3. loop' = "down" => loop = "down"
    BY <1>5 DEF BootSwitchOn, BootSwitchOff, Subscribe, LoopSwitchOn,
         LoopSwitchOff, TripSwitch, WakeUp, Unsubscribe, LoopTop,
         OperatorFlipsSwitch, BalanceChanges, Tick, vars
  <2> QED
    BY <1>0, <2>1, <2>2, <2>3, GuardFrame DEF DownInv
<1>6. ASSUME NEW s \in Signals, HandlerStep(s) \/ Publish(s), ~ FinishRecord(s)
      PROVE  DownInv' /\ GuardCountsExecutedTrades'
  <2>1. UNCHANGED <<loop, isRunning, tradesSinceBalanceCheck, bought, audited>>
    BY <1>6 DEF HandlerStep, Publish, Admit, Refuse, VerifySlippage,
         SubmitBatchOrders, ReplySuccess, ReplyFailure, RequestFails,
         RecordStats, PushHistory, RecordFails
  <2>2. \E to \in HandlerStates \ {"executed"} :
          handler' = [handler EXCEPT ![s] = to]
    BY <1>6 DEF HandlerStep, Publish, Admit, Refuse, VerifySlippage,
         SubmitBatchOrders, ReplySuccess, ReplyFailure, RequestFails,
         RecordStats, PushHistory, RecordFails, Advance, HandlerStates,
         InFlight, Ended
  <2>3. Executed' \subseteq Executed
    BY <2>2 DEF Executed, TypeOK
  <2>4. Unaudited' \subseteq Unaudited
    BY <2>1, <2>3 DEF Unaudited, MovedMoney
  <2> QED
    BY <1>0, <2>1, <2>4, GuardFrame DEF DownInv
<1>7. ASSUME NEW s \in Signals, FinishRecord(s)
      PROVE  DownInv' /\ GuardCountsExecutedTrades'
  <2>1. /\ UNCHANGED <<loop, isRunning, bought, audited>>
        /\ Executed' \subseteq Executed \cup {s}
        /\ tradesSinceBalanceCheck' = tradesSinceBalanceCheck + 1
    BY <1>7 DEF FinishRecord, Advance, Executed, TypeOK
  <2>2. /\ Unaudited \in SUBSET Signals
        /\ Unaudited' \in SUBSET (Unaudited \cup {s})
    BY <2>1, UnauditedIsOfSignals DEF Unaudited, MovedMoney
  <2>3. Cardinality(Unaudited') <= Cardinality(Unaudited) + 1
    BY <2>2, OneMore
  <2>4. /\ tradesSinceBalanceCheck \in Nat
        /\ Cardinality(Unaudited) \in Nat
        /\ Cardinality(Unaudited') \in Nat
    BY <2>2, UnauditedIsFinite DEF TypeOK
  <2>5. isRunning => tradesSinceBalanceCheck >= Cardinality(Unaudited)
    BY DEF GuardCountsExecutedTrades, Unaudited
  <2>6. isRunning' => tradesSinceBalanceCheck' >= Cardinality(Unaudited')
    BY <2>1, <2>3, <2>4, <2>5
  <2> QED
    BY <2>1, <2>6 DEF DownInv, GuardCountsExecutedTrades, Unaudited
<1>8. ASSUME NEW s \in Signals, ExchangeHandles(s)
      PROVE  DownInv' /\ GuardCountsExecutedTrades'
  <2>1. UNCHANGED <<loop, isRunning, tradesSinceBalanceCheck, handler, audited>>
    BY <1>8 DEF ExchangeHandles
  <2>2. s \notin Executed /\ Executed' = Executed
    BY <1>8, <2>1 DEF ExchangeHandles, BookInv, Executed
  <2>3. \A t \in Signals \ {s} : bought'[t] = bought[t]
    BY <1>8 DEF ExchangeHandles, TypeOK
  <2>4. Unaudited' \subseteq Unaudited
    BY <2>1, <2>2, <2>3 DEF Unaudited, MovedMoney
  <2> QED
    BY <1>0, <2>1, <2>4, GuardFrame DEF DownInv
<1> QED
  BY <1>1, <1>2, <1>3, <1>4, <1>5, <1>6, <1>7, <1>8
  DEF Next, LoopStep, HandlerStep, Environment

-----------------------------------------------------------------------------
(* The inductive invariant, and what follows from it *)

LEMMA IInvInit == Init => IInv
BY TypeInit, BookInit, GuardInit DEF IInv

LEMMA IInvStep == IInv /\ [Next]_vars => IInv'
BY TypeStep, BookStep, GuardStep DEF IInv

LEMMA IInvHolds == Spec => []IInv
BY IInvInit, IInvStep, PTL DEF Spec

(* No trade enters execution:stats unless the exchange had filled every     *)
(* order its reply listed.                                                  *)
THEOREM BookedTradesWereBought == Spec => []BookedWasBought
<1>1. IInv => BookedWasBought
  BY DEF IInv, TypeOK, BookInv, AllSuccess, BookedWasBought
<1> QED
  BY <1>1, IInvHolds, PTL

(* trades:history never runs ahead of execution:stats. *)
THEOREM HistoryFollowsStats == Spec => []HistoryWasBooked
<1>1. IInv => HistoryWasBooked
  BY DEF IInv, TypeOK, BookInv, HistoryWasBooked
<1> QED
  BY <1>1, IInvHolds, PTL

(* While the engine runs, no trade that was bought since the balance guard  *)
(* last used a balance and whose handler has recorded it is missing from    *)
(* its counter, however handlers, checks, failed writes, stops, crashes and *)
(* restarts interleave (processSignal, checkBalanceGuard).                  *)
THEOREM GuardMissesNoTrade == Spec => []GuardCountsExecutedTrades
<1>1. IInv => GuardCountsExecutedTrades
  BY DEF IInv
<1> QED
  BY <1>1, IInvHolds, PTL

-----------------------------------------------------------------------------
(* Refinement of the abstract book *)

LEMMA BookRefinesInit == Init => Book!Init
BY DEF Init, Book!Init, Legs

(* A batch that is handled fills a unit or nothing; the first write of      *)
(* recordExecution books it; every other step leaves the book alone.        *)
LEMMA BookRefinesStep == IInv /\ [Next]_vars => [Book!Next]_(Book!vars)
<1> SUFFICES ASSUME IInv, [Next]_vars
             PROVE  [Book!Next]_(Book!vars)
  OBVIOUS
<1> DEFINE units == [s \in Signals |-> IF bought[s] = Legs THEN 1 ELSE 0]
           entered == [s \in Signals |->
             IF s \in booked /\ "unlisted" \notin {answer[s][leg] : leg \in Legs}
               THEN 1 ELSE 0]
<1>1. CASE UNCHANGED <<exchangeVars, booked>>
  BY <1>1 DEF exchangeVars, Book!vars
<1>2. ASSUME NEW s \in Signals, ExchangeHandles(s)
      PROVE  [Book!Next]_(Book!vars)
  <2>1. s \notin booked /\ booked' = booked
    BY <1>2 DEF ExchangeHandles, bookVars, IInv, BookInv
  <2>2. \A t \in Signals \ {s} : /\ answer'[t] = answer[t]
                                  /\ bought'[t] = bought[t]
    BY <1>2 DEF ExchangeHandles, IInv, TypeOK
  <2>3. entered' = entered
    BY <2>1, <2>2
  <2>4. bought[s] = {}
    BY <1>2 DEF ExchangeHandles, IInv, BookInv
  <2>5. units[s] = 0
    BY <2>4 DEF Legs
  <2>6. CASE bought'[s] = Legs
    <3>1. units'[s] > units[s]
      BY <2>5, <2>6
    <3>2. units' = [units EXCEPT ![s] = units'[s]]
      BY <2>2
    <3> QED
      BY <2>3, <3>1, <3>2 DEF Book!Next, Book!Fill
  <2>7. CASE bought'[s] # Legs
    <3>1. units' = units
      BY <2>2, <2>5, <2>7
    <3> QED
      BY <2>3, <3>1 DEF Book!vars
  <2> QED
    BY <2>6, <2>7
<1>3. ASSUME NEW s \in Signals, RecordStats(s)
      PROVE  [Book!Next]_(Book!vars)
  <2>1. /\ s \notin booked
        /\ AllSuccess(answer[s])
        /\ order[s] = "handled"
    BY <1>3 DEF RecordStats, Advance, IInv, BookInv
  <2>2. /\ booked' = booked \cup {s}
        /\ answer' = answer
        /\ bought' = bought
    BY <1>3 DEF RecordStats, exchangeVars
  <2>3. units' = units
    BY <2>2
  <2>4. CASE "unlisted" \in {answer[s][leg] : leg \in Legs}
    <3>1. entered' = entered
      BY <2>1, <2>2, <2>4
    <3> QED
      BY <2>3, <3>1 DEF Book!vars
  <2>5. CASE "unlisted" \notin {answer[s][leg] : leg \in Legs}
    <3>1. \A leg \in Legs : answer[s][leg] = "filled"
      BY <2>1, <2>5 DEF AllSuccess
    <3>2. bought[s] = Legs
      BY <2>1, <3>1 DEF IInv, TypeOK, BookInv
    <3>3. units[s] = 1
      BY <3>2
    <3>4. entered[s] = 0
      BY <2>1
    <3>5. entered'[s] = 1
      BY <2>2, <2>5
    <3>6. entered' = [entered EXCEPT ![s] = entered'[s]]
      BY <2>2
    <3>7. entered'[s] \in 1 .. units[s]
      BY <3>3, <3>5
    <3>8. Book!Book(s)
      BY <2>3, <3>4, <3>6, <3>7, Zenon DEF Book!Book
    <3> QED
      BY <3>8 DEF Book!Next
  <2> QED
    BY <2>4, <2>5
<1>4. ASSUME NEW s \in Signals, HandlerStep(s), ~ RecordStats(s)
      PROVE  [Book!Next]_(Book!vars)
  <2>1. /\ booked' = booked
        /\ answer' = answer
        /\ bought' = bought
    BY <1>4 DEF HandlerStep, Admit, Refuse, VerifySlippage,
       SubmitBatchOrders, ReplySuccess, ReplyFailure, RequestFails,
       PushHistory, FinishRecord, RecordFails, exchangeVars, bookVars
  <2> QED
    BY <2>1 DEF Book!vars
<1>5. ASSUME \/ LoopStep \/ OperatorFlipsSwitch \/ BalanceChanges \/ Stop
             \/ Crash \/ Restart \/ Tick \/ UNCHANGED vars
             \/ \E s \in Signals : Publish(s)
      PROVE  UNCHANGED <<exchangeVars, booked>>
  BY <1>5 DEF LoopStep, BootSwitchOn, BootSwitchOff,
       InitializeBalanceTracking, Subscribe, LoopSwitchOn, LoopSwitchOff,
       ReadBalance, TripSwitch, Halt, WakeUp, Unsubscribe,
       OperatorFlipsSwitch, BalanceChanges, Stop, Crash, Restart, Tick,
       Publish, vars, bookVars
<1> QED
  BY <1>1, <1>2, <1>3, <1>4, <1>5 DEF Next, Environment

(* The execution engine keeps the promise of TradeBook. *)
THEOREM EngineImplementsTradeBook == Spec => ImplementsTradeBook
BY BookRefinesInit, BookRefinesStep, IInvHolds, PTL
DEF Spec, ImplementsTradeBook, Book!Spec
=============================================================================
