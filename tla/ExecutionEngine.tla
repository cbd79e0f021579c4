--------------------------- MODULE ExecutionEngine ---------------------------
(***************************************************************************)
(* The box-arbitrage execution service (execution/src/execution-engine.ts  *)
(* and the batch submission of execution/src/clob-client.ts).              *)
(*                                                                         *)
(* One Node process runs a keep-alive loop (kill switch, balance guard)    *)
(* and, for every pub/sub message, a handler of its own.  Handlers are     *)
(* asynchronous and nothing serialises them: every await is a point where  *)
(* another handler, the loop, Redis or the exchange may take a step, so    *)
(* each action below is the code between two awaits.                       *)
(*                                                                         *)
(* Time is counted in ticks.  What matters of it is kept as ages and       *)
(* remaining times that saturate, so the clock itself needs no bound.      *)
(***************************************************************************)
EXTENDS Naturals, FiniteSets

CONSTANTS
  Signals,                   \* the signals the scanner may publish, each once
  Markets,
  MarketOf,                  \* the market of each signal
  Balances,                  \* values the key safe:balance:usdce may take
  LegAnswers,                \* what the exchange may answer for one order
  SignalMaxAge,              \* SIGNAL_MAX_AGE_MS, in ticks
  MarketCooldown,            \* MARKET_COOLDOWN_MS, in ticks
  BalanceCheckInterval,      \* BALANCE_CHECK_INTERVAL_MS, in ticks
  BalanceDropPercent,        \* BALANCE_DROP_THRESHOLD_PERCENT
  TradesBeforeBalanceCheck,
  MaxRestarts                \* bound: how often the container is restarted

Legs == {"YES", "NO"}        \* the two orders of a batch, in this order

(* "unlisted": the reply body names no such order (response.data.orders is  *)
(* missing or short); "noBook": errorMsg says the order book does not       *)
(* exist; "killed": any other refusal.  An HTTP error with a body is turned *)
(* into a list with one refused order: the first leg is "noBook" or         *)
(* "killed", the second is not listed.                                      *)
KnownAnswers == {"filled", "killed", "noBook", "unlisted"}

ASSUME SignalsAssumption ==
  /\ IsFiniteSet(Signals)
  /\ MarketOf \in [Signals -> Markets]
ASSUME AnswersAssumption == LegAnswers \subseteq KnownAnswers
ASSUME NumbersAssumption ==
  /\ Balances \subseteq Nat
  /\ {SignalMaxAge, MarketCooldown, BalanceCheckInterval, BalanceDropPercent,
      TradesBeforeBalanceCheck, MaxRestarts} \subseteq Nat

VARIABLES
  killSwitch,                \* Redis: TRADING_ENABLED is the word TRUE
  balance,                   \* Redis: safe:balance:usdce, 0 when missing
  loop,                      \* where start() and its keep-alive loop are
  isRunning,
  subscribed,                \* the subscriber connection is subscribed
  initialBalance,
  sinceCheck,                \* ticks since lastBalanceCheck
  tradesSinceBalanceCheck,
  failedMarkets,             \* per market: ticks of cooldown left
  handler,                   \* per signal: where its message handler is
  age,                       \* per signal: ticks since it was published
  order,                     \* per signal: where its batch request is
  answer,                    \* per signal and leg: the exchange's answer
  bought,                    \* per signal: the legs the exchange has filled
  booked,                    \* signals counted in execution:stats
  history,                   \* signals pushed on trades:history
  restarts,
  audited,                   \* history variable: signals that had moved money
                             \* when the guard last used a balance
  startBalance               \* history variable: the first balance above 0
                             \* that this life of the process has read

switchVars   == <<killSwitch, balance>>
loopVars     == <<loop, isRunning, subscribed, initialBalance, sinceCheck,
                  tradesSinceBalanceCheck>>
auditVars    == <<audited, startBalance>>
signalVars   == <<handler, age>>
exchangeVars == <<order, answer, bought>>
bookVars     == <<booked, history>>
vars == <<switchVars, loopVars, failedMarkets, signalVars, exchangeVars,
          bookVars, restarts, auditVars>>

LoopStates == {"boot", "baseline", "subscribe", "switch", "balance", "trip",
               "halting", "sleeping", "pausing", "unsubscribe", "returned",
               "down"}
InFlight == {"verify", "submit", "await", "record", "recorded", "pushed"}
Ended == {"executed", "done"}   \* with a successful result, or any other way
HandlerStates == {"unsent", "sent"} \cup InFlight \cup Ended

TypeOK ==
  /\ killSwitch \in BOOLEAN
  /\ balance \in Balances
  /\ loop \in LoopStates
  /\ isRunning \in BOOLEAN
  /\ subscribed \in BOOLEAN
  /\ initialBalance \in Balances \cup {0}
  /\ sinceCheck \in 0 .. BalanceCheckInterval
  /\ tradesSinceBalanceCheck \in Nat
  /\ failedMarkets \in [Markets -> 0 .. MarketCooldown]
  /\ handler \in [Signals -> HandlerStates]
  /\ age \in [Signals -> 0 .. SignalMaxAge + 1]
  /\ order \in [Signals -> {"none", "sent", "handled"}]
  /\ answer \in [Signals -> [Legs -> LegAnswers \cup {"pending"}]]
  /\ bought \in [Signals -> SUBSET Legs]
  /\ booked \in SUBSET Signals
  /\ history \in SUBSET Signals
  /\ restarts \in 0 .. MaxRestarts
  /\ audited \in SUBSET Signals
  /\ startBalance \in Balances \cup {0}

-----------------------------------------------------------------------------
(* Helpers *)

Lesser(a, b) == IF a < b THEN a ELSE b

(* Signals whose batch has changed what the wallet holds. *)
MovedMoney == {s \in Signals : bought[s] # {}}

(* dropPercent > BALANCE_DROP_THRESHOLD_PERCENT, without the division. *)
DroppedFrom(baseline) ==
  100 * balance + BalanceDropPercent * baseline < 100 * baseline

(* Mutant: only recorded trades make a balance check due. *)
CheckOnlyAfterTrades == tradesSinceBalanceCheck >= TradesBeforeBalanceCheck

(* The guard's two triggers: time, or trades that were recorded. *)
BalanceCheckDue ==
  \/ sinceCheck >= BalanceCheckInterval
  \/ tradesSinceBalanceCheck >= TradesBeforeBalanceCheck

(* Mutant: some() for every(). *)
SomeSuccess(a) == \E leg \in Legs : a[leg] \in {"filled", "unlisted"}

(* orderResponses.every(o => o.success && !o.errorMsg): orders that the     *)
(* reply does not list are not looked at.                                   *)
AllSuccess(a) == \A leg \in Legs : a[leg] \in {"filled", "unlisted"}

(* response.orders[0]?.errorMsg of a failed batch mentions a missing book.  *)
FirstErrorIsNoBook(a) ==
  \/ a["YES"] = "noBook"
  \/ a["YES"] = "unlisted" /\ a["NO"] = "noBook"

-----------------------------------------------------------------------------
Init ==
  /\ killSwitch \in BOOLEAN
  /\ balance \in Balances
  /\ loop = "boot"
  /\ isRunning = FALSE
  /\ subscribed = FALSE
  /\ initialBalance = 0
  /\ sinceCheck = 0
  /\ tradesSinceBalanceCheck = 0
  /\ failedMarkets = [m \in Markets |-> 0]
  /\ handler = [s \in Signals |-> "unsent"]
  /\ age = [s \in Signals |-> 0]
  /\ order = [s \in Signals |-> "none"]
  /\ answer = [s \in Signals |-> [leg \in Legs |-> "pending"]]
  /\ bought = [s \in Signals |-> {}]
  /\ booked = {}
  /\ history = {}
  /\ restarts = 0
  /\ audited = {}
  /\ startBalance = 0

-----------------------------------------------------------------------------
(* start() and the keep-alive loop of subscribeToSignals().  Where a Redis  *)
(* call throws outside a try block, start() rejects and main() exits: that  *)
(* is Crash.                                                                *)

GoTo(from, to) ==
  /\ loop = from
  /\ loop' = to

(* start(): a switch that is off, missing or unreadable ends start() here;  *)
(* the process stays up and idle.                                           *)
BootSwitchOn ==
  /\ killSwitch
  /\ GoTo("boot", "baseline")
  /\ UNCHANGED <<switchVars, isRunning, subscribed, initialBalance,
                 sinceCheck, tradesSinceBalanceCheck, failedMarkets,
                 signalVars, exchangeVars, bookVars, restarts, auditVars>>

BootSwitchOff ==
  /\ GoTo("boot", "returned")
  /\ UNCHANGED <<switchVars, isRunning, subscribed, initialBalance,
                 sinceCheck, tradesSinceBalanceCheck, failedMarkets,
                 signalVars, exchangeVars, bookVars, restarts, auditVars>>

(* initializeBalanceTracking(), then isRunning = true. *)
InitializeBalanceTracking ==
  /\ GoTo("baseline", "subscribe")
  /\ initialBalance' = balance
  /\ sinceCheck' = 0
  /\ isRunning' = TRUE
  /\ audited' = MovedMoney
  /\ startBalance' = balance
  /\ UNCHANGED <<switchVars, subscribed, tradesSinceBalanceCheck,
                 failedMarkets, signalVars, exchangeVars, bookVars, restarts>>

(* The first step of a pass through while (this.isRunning).                 *)
LoopTop == IF isRunning THEN "switch" ELSE "unsubscribe"

Subscribe ==
  /\ GoTo("subscribe", LoopTop)
  /\ subscribed' = TRUE
  /\ UNCHANGED <<switchVars, isRunning, initialBalance, sinceCheck,
                 tradesSinceBalanceCheck, failedMarkets, signalVars,
                 exchangeVars, bookVars, restarts, auditVars>>

(* The switch is read as on; the guard decides whether a check is due.  The *)
(* code takes `now` here and stores it in lastBalanceCheck after the read;  *)
(* nothing looks at it in between.                                          *)
LoopSwitchOn ==
  /\ killSwitch
  /\ GoTo("switch", IF BalanceCheckDue THEN "balance" ELSE "sleeping")
  /\ sinceCheck' = IF BalanceCheckDue THEN 0 ELSE sinceCheck
  /\ UNCHANGED <<switchVars, isRunning, subscribed, initialBalance,
                 tradesSinceBalanceCheck, failedMarkets, signalVars,
                 exchangeVars, bookVars, restarts, auditVars>>

(* The switch is off, or reading it failed: "pausing execution".  The loop  *)
(* sleeps and starts over; the balance guard is passed over.                *)
LoopSwitchOff ==
  /\ GoTo("switch", "pausing")
  /\ UNCHANGED <<switchVars, isRunning, subscribed, initialBalance,
                 sinceCheck, tradesSinceBalanceCheck, failedMarkets,
                 signalVars, exchangeVars, bookVars, restarts, auditVars>>

(* Mutant: a check that passes makes its balance the new baseline. *)
ReadBalanceRebases ==
  /\ loop = "balance"
  /\ audited' = MovedMoney
  /\ startBalance' = IF startBalance = 0 THEN balance ELSE startBalance
  /\ IF initialBalance > 0 /\ DroppedFrom(initialBalance)
       THEN /\ loop' = "trip"
            /\ UNCHANGED <<initialBalance, tradesSinceBalanceCheck>>
       ELSE /\ initialBalance' = balance
            /\ tradesSinceBalanceCheck' = 0
            /\ loop' = "sleeping"
  /\ UNCHANGED <<switchVars, isRunning, subscribed, sinceCheck, failedMarkets,
                 signalVars, exchangeVars, bookVars, restarts>>

(* The guard's balance read and the branch on it: no baseline yet, a drop   *)
(* beyond the threshold, or a check that passes.                            *)
ReadBalance ==
  /\ loop = "balance"
  /\ audited' = MovedMoney
  /\ startBalance' = IF startBalance = 0 THEN balance ELSE startBalance
  /\ \/ /\ initialBalance = 0
        /\ initialBalance' = balance
        /\ tradesSinceBalanceCheck' = 0
        /\ loop' = "sleeping"
     \/ /\ initialBalance > 0
        /\ DroppedFrom(initialBalance)
        /\ loop' = "trip"
        /\ UNCHANGED <<initialBalance, tradesSinceBalanceCheck>>
     \/ /\ initialBalance > 0
        /\ ~ DroppedFrom(initialBalance)
        /\ tradesSinceBalanceCheck' = 0
        /\ loop' = "sleeping"
        /\ UNCHANGED initialBalance
  /\ UNCHANGED <<switchVars, isRunning, subscribed, sinceCheck, failedMarkets,
                 signalVars, exchangeVars, bookVars, restarts>>

(* SET TRADING_ENABLED FALSE reaches Redis ... *)
TripSwitch ==
  /\ GoTo("trip", "halting")
  /\ killSwitch' = FALSE
  /\ UNCHANGED <<balance, isRunning, subscribed, initialBalance, sinceCheck,
                 tradesSinceBalanceCheck, failedMarkets, signalVars,
                 exchangeVars, bookVars, restarts, auditVars>>

(* ... and, once its reply is back, the loop breaks. *)
Halt ==
  /\ GoTo("halting", "unsubscribe")
  /\ isRunning' = FALSE
  /\ UNCHANGED <<switchVars, subscribed, initialBalance, sinceCheck,
                 tradesSinceBalanceCheck, failedMarkets, signalVars,
                 exchangeVars, bookVars, restarts, auditVars>>

WakeUp ==
  /\ GoTo("sleeping", LoopTop) \/ GoTo("pausing", LoopTop)
  /\ UNCHANGED <<switchVars, isRunning, subscribed, initialBalance,
                 sinceCheck, tradesSinceBalanceCheck, failedMarkets,
                 signalVars, exchangeVars, bookVars, restarts, auditVars>>

Unsubscribe ==
  /\ GoTo("unsubscribe", "returned")
  /\ subscribed' = FALSE
  /\ UNCHANGED <<switchVars, isRunning, initialBalance, sinceCheck,
                 tradesSinceBalanceCheck, failedMarkets, signalVars,
                 exchangeVars, bookVars, restarts, auditVars>>

-----------------------------------------------------------------------------
(* The message handler and processSignal(), for the message of signal s.    *)

Advance(s, from, to) ==
  /\ handler[s] = from
  /\ handler' = [handler EXCEPT ![s] = to]

(* The scanner publishes; a message nobody is subscribed to is lost. *)
Publish(s) ==
  /\ Advance(s, "unsent", IF subscribed THEN "sent" ELSE "done")
  /\ UNCHANGED <<switchVars, loopVars, failedMarkets, age, exchangeVars,
                 bookVars, restarts, auditVars>>

(* The handler's synchronous prefix lets the signal through: the engine is  *)
(* running, the market is not cooling down, the signal is fresh.  An        *)
(* expired cooldown entry is deleted, which is what 0 stands for.           *)
Admit(s) ==
  /\ isRunning
  /\ failedMarkets[MarketOf[s]] = 0
  /\ age[s] <= SignalMaxAge
  /\ Advance(s, "sent", "verify")
  /\ UNCHANGED <<switchVars, loopVars, failedMarkets, age, exchangeVars,
                 bookVars, restarts, auditVars>>

(* Any of the early returns, the profit threshold included. *)
Refuse(s) ==
  /\ Advance(s, "sent", "done")
  /\ UNCHANGED <<switchVars, loopVars, failedMarkets, age, exchangeVars,
                 bookVars, restarts, auditVars>>

(* verifySlippage() rejects when an ask is missing, has moved too far or    *)
(* leaves no edge; it lets the signal through when prices are within bounds *)
(* and also when reading them throws.  Signing follows; if it throws, the   *)
(* handler ends as after a rejection.                                       *)
VerifySlippage(s) ==
  /\ \/ Advance(s, "verify", "submit")
     \/ Advance(s, "verify", "done")
  /\ UNCHANGED <<switchVars, loopVars, failedMarkets, age, exchangeVars,
                 bookVars, restarts, auditVars>>

(* submitBatchOrders(): after the rate limiter lets it through, the batch   *)
(* of two orders leaves for the exchange.                                   *)
SubmitBatchOrders(s) ==
  /\ Advance(s, "submit", "await")
  /\ order' = [order EXCEPT ![s] = "sent"]
  /\ UNCHANGED <<switchVars, loopVars, failedMarkets, age, answer, bought,
                 bookVars, restarts, auditVars>>

(* Every listed order succeeded: processSignal goes on to record it. *)
ReplySuccess(s) ==
  /\ order[s] = "handled"
  /\ AllSuccess(answer[s])
  /\ Advance(s, "await", "record")
  /\ UNCHANGED <<switchVars, loopVars, failedMarkets, age, exchangeVars,
                 bookVars, restarts, auditVars>>

(* Some listed order failed, or the exchange answered with an HTTP error: a *)
(* failed result, and a cooldown for the market when the first listed order *)
(* says that there is no order book.                                        *)
ReplyFailure(s) ==
  LET m == MarketOf[s] IN
  /\ order[s] = "handled"
  /\ ~ AllSuccess(answer[s])
  /\ Advance(s, "await", "done")
  /\ failedMarkets' = IF FirstErrorIsNoBook(answer[s])
                         THEN [failedMarkets EXCEPT ![m] = MarketCooldown]
                         ELSE failedMarkets
  /\ UNCHANGED <<switchVars, loopVars, age, exchangeVars, bookVars, restarts,
                 auditVars>>

(* Mutant: a timeout counts as acceptance, so the batch is recorded. *)
TimeoutIsSuccess(s) ==
  /\ Advance(s, "await", "record")
  /\ UNCHANGED <<switchVars, loopVars, failedMarkets, age, exchangeVars,
                 bookVars, restarts, auditVars>>

(* Mutant: the client has no timeout and waits for a reply. *)
NeverTimesOut(s) ==
  /\ order[s] = "none"
  /\ Advance(s, "await", "done")
  /\ UNCHANGED <<switchVars, loopVars, failedMarkets, age, exchangeVars,
                 bookVars, restarts, auditVars>>

(* No answer: the connection breaks, or the client's timeout fires.  The    *)
(* result is a failure, whatever the exchange has done with the orders or   *)
(* will still do.                                                           *)
RequestFails(s) ==
  /\ Advance(s, "await", "done")
  /\ UNCHANGED <<switchVars, loopVars, failedMarkets, age, exchangeVars,
                 bookVars, restarts, auditVars>>

(* recordExecution(): first the counters of execution:stats ... *)
RecordStats(s) ==
  /\ Advance(s, "record", "recorded")
  /\ booked' = booked \cup {s}
  /\ UNCHANGED <<switchVars, loopVars, failedMarkets, age, exchangeVars,
                 history, restarts, auditVars>>

(* ... then the trade event, published and pushed on trades:history ... *)
PushHistory(s) ==
  /\ Advance(s, "recorded", "pushed")
  /\ history' = history \cup {s}
  /\ UNCHANGED <<switchVars, loopVars, failedMarkets, age, exchangeVars, booked,
                 restarts, auditVars>>

(* Mutant: tradesSinceBalanceCheck is not incremented. *)
FinishUncounted(s) ==
  /\ Advance(s, "pushed", "executed")
  /\ UNCHANGED <<switchVars, loopVars, failedMarkets, age, exchangeVars,
                 bookVars, restarts, auditVars>>

(* ... and, when the list has been trimmed, back in processSignal the trade *)
(* counter and the successful result.                                       *)
FinishRecord(s) ==
  /\ Advance(s, "pushed", "executed")
  /\ tradesSinceBalanceCheck' = tradesSinceBalanceCheck + 1
  /\ UNCHANGED <<switchVars, loop, isRunning, subscribed, initialBalance,
                 sinceCheck, failedMarkets, age, exchangeVars, bookVars,
                 restarts, auditVars>>

(* A Redis call of recordExecution() throws: processSignal's catch makes it *)
(* a failed result and the trade counter is not incremented, although the   *)
(* trade may be in the statistics and, if it is the trimming that throws,   *)
(* in the history.                                                          *)
RecordFails(s) ==
  /\ \E at \in {"record", "recorded", "pushed"} : Advance(s, at, "done")
  /\ UNCHANGED <<switchVars, loopVars, failedMarkets, age, exchangeVars,
                 bookVars, restarts, auditVars>>

-----------------------------------------------------------------------------
(* The environment: exchange, operator, balance feed, process, time.        *)

(* The exchange takes a batch up, each order fill-or-kill on its own, and   *)
(* answers.  What it does with an order its answer does not list is open.   *)
ExchangeHandles(s) ==
  /\ order[s] = "sent"
  /\ order' = [order EXCEPT ![s] = "handled"]
  /\ \E a \in [Legs -> LegAnswers], got \in SUBSET Legs :
       /\ \A leg \in Legs : a[leg] # "unlisted" =>
                              (leg \in got <=> a[leg] = "filled")
       /\ answer' = [answer EXCEPT ![s] = a]
       /\ bought' = [bought EXCEPT ![s] = got]
  /\ UNCHANGED <<switchVars, loopVars, failedMarkets, signalVars, bookVars,
                 restarts, auditVars>>

(* An operator, or the dashboard, sets or deletes TRADING_ENABLED. *)
OperatorFlipsSwitch ==
  /\ killSwitch' = ~ killSwitch
  /\ UNCHANGED <<balance, loopVars, failedMarkets, signalVars, exchangeVars,
                 bookVars, restarts, auditVars>>

(* Whoever maintains safe:balance:usdce writes another value. *)
BalanceChanges ==
  /\ balance' \in Balances \ {balance}
  /\ UNCHANGED <<killSwitch, loopVars, failedMarkets, signalVars,
                 exchangeVars, bookVars, restarts, auditVars>>

(* stop() on SIGINT or SIGTERM; process.exit, which follows, is Crash. *)
Stop ==
  /\ isRunning
  /\ isRunning' = FALSE
  /\ UNCHANGED <<switchVars, loop, subscribed, initialBalance, sinceCheck,
                 tradesSinceBalanceCheck, failedMarkets, signalVars,
                 exchangeVars, bookVars, restarts, auditVars>>

(* The process ends: an uncaught error, a kill, the exit after stop().  Its *)
(* handlers end with it; requests that left it do not.                      *)
Crash ==
  /\ loop # "down"
  /\ loop' = "down"
  /\ isRunning' = FALSE
  /\ subscribed' = FALSE
  /\ handler' = [s \in Signals |->
                   IF handler[s] \in {"unsent"} \cup Ended
                     THEN handler[s] ELSE "done"]
  /\ UNCHANGED <<switchVars, initialBalance, sinceCheck,
                 tradesSinceBalanceCheck, failedMarkets, age, exchangeVars,
                 bookVars, restarts, auditVars>>

(* restart: unless-stopped.  Everything the process kept in memory is new.  *)
Restart ==
  /\ restarts < MaxRestarts
  /\ restarts' = restarts + 1
  /\ GoTo("down", "boot")
  /\ initialBalance' = 0
  /\ sinceCheck' = 0
  /\ tradesSinceBalanceCheck' = 0
  /\ failedMarkets' = [m \in Markets |-> 0]
  /\ startBalance' = 0
  /\ UNCHANGED <<switchVars, isRunning, subscribed, signalVars, exchangeVars,
                 bookVars, audited>>

Tick ==
  /\ age' = [s \in Signals |->
               IF handler[s] \in {"sent", "verify", "submit"}
                 THEN Lesser(age[s] + 1, SignalMaxAge + 1) ELSE age[s]]
  /\ sinceCheck' = Lesser(sinceCheck + 1, BalanceCheckInterval)
  /\ failedMarkets' = [m \in Markets |->
                         IF failedMarkets[m] = 0 THEN 0
                                                 ELSE failedMarkets[m] - 1]
  /\ UNCHANGED <<switchVars, loop, isRunning, subscribed, initialBalance,
                 tradesSinceBalanceCheck, handler, exchangeVars, bookVars,
                 restarts, auditVars>>

-----------------------------------------------------------------------------
LoopStep ==
  \/ BootSwitchOn \/ BootSwitchOff \/ InitializeBalanceTracking \/ Subscribe
  \/ LoopSwitchOn \/ LoopSwitchOff \/ ReadBalance \/ TripSwitch \/ Halt
  \/ WakeUp \/ Unsubscribe

HandlerStep(s) ==
  \/ Admit(s) \/ Refuse(s) \/ VerifySlippage(s) \/ SubmitBatchOrders(s)
  \/ ReplySuccess(s) \/ ReplyFailure(s) \/ RequestFails(s)
  \/ RecordStats(s) \/ PushHistory(s) \/ FinishRecord(s) \/ RecordFails(s)

Environment ==
  \/ OperatorFlipsSwitch \/ BalanceChanges \/ Stop \/ Crash \/ Restart \/ Tick
  \/ \E s \in Signals : Publish(s) \/ ExchangeHandles(s)

Next ==
  \/ LoopStep
  \/ \E s \in Signals : HandlerStep(s)
  \/ Environment

Spec == Init /\ [][Next]_vars

(* Fairness.  The event loop runs every continuation that is ready, timers  *)
(* fire and time passes; a request ends by its reply or by the client's ten *)
(* second timeout.  Reading the switch may fail, but not for ever: it is    *)
(* tried again and again, hence strong fairness.  Nothing is assumed of the *)
(* operator, the balance feed, the scanner, the exchange or the supervisor. *)
Fairness ==
  /\ WF_vars(LoopStep)
  /\ SF_vars(LoopSwitchOn)
  /\ WF_vars(Tick)
  /\ \A s \in Signals : WF_vars(HandlerStep(s))

FairSpec == Spec /\ Fairness
-----------------------------------------------------------------------------
(* Properties *)

(* A trade in the statistics was bought: for every order the exchange's     *)
(* reply listed, the leg is in the wallet (recordExecution after            *)
(* response.success).                                                       *)
BookedWasBought ==
  \A s \in booked : \A leg \in Legs :
    leg \in bought[s] \/ answer[s][leg] = "unlisted"

(* trades:history never shows a trade that execution:stats does not count:  *)
(* recordExecution writes the counters first, and it may stop half-way.     *)
HistoryWasBooked == history \subseteq booked

(* Signals whose handler came back from recordExecution. *)
Executed == {s \in Signals : handler[s] = "executed"}

(* While the engine runs, every trade that was bought after the balance the *)
(* guard last used is in tradesSinceBalanceCheck, unless its recording is   *)
(* still under way or threw: no check, stop or other handler loses it       *)
(* (processSignal after recordExecution, checkBalanceGuard's reset).        *)
GuardCountsExecutedTrades ==
  isRunning =>
    tradesSinceBalanceCheck >= Cardinality((Executed \cap MovedMoney) \ audited)

(* Why those hold: where a signal stands tells what its batch has come to,  *)
(* and an answer tells what was bought ...                                  *)
BookInv ==
  \A s \in Signals :
    /\ handler[s] \in {"unsent", "sent", "verify", "submit"}
         => order[s] = "none"
    /\ handler[s] = "record" \/ s \in booked
         => order[s] = "handled" /\ AllSuccess(answer[s])
    /\ handler[s] \in {"await", "record"} => s \notin booked
    /\ handler[s] \in {"recorded", "pushed", "executed"} => s \in booked
    /\ order[s] = "handled"
         => \A leg \in Legs : answer[s][leg] # "unlisted"
                                => (leg \in bought[s] <=> answer[s][leg] = "filled")
    /\ order[s] # "handled" => bought[s] = {}
    /\ s \in history => s \in booked

(* ... and a process that is down does not run, so that a restart, which    *)
(* starts the trade counter anew, leaves no guard with a count too low.     *)
DownInv == loop = "down" => ~ isRunning

IInv == TypeOK /\ BookInv /\ DownInv /\ GuardCountsExecutedTrades

(* The engine implements the abstract book: a signal is one trade of one    *)
(* unit, bought when both legs are, booked when the statistics count it.    *)
Book == INSTANCE TradeBook WITH
  Trades <- Signals,
  bought <- [s \in Signals |-> IF bought[s] = Legs THEN 1 ELSE 0],
  booked <- [s \in Signals |->
               IF s \in booked /\ "unlisted" \notin {answer[s][leg] : leg \in Legs}
                 THEN 1 ELSE 0]

ImplementsTradeBook == Book!Spec

(* Every handler that was started ends, whatever the exchange does. *)
HandlersFinish ==
  \A s \in Signals : handler[s] \in InFlight ~> handler[s] \in Ended

TradingOnDrop ==
  isRunning /\ killSwitch /\ startBalance > 0 /\ DroppedFrom(startBalance)

(* A drop beyond the threshold, measured from the first balance this life   *)
(* of the process has read, that persists while the switch is on cannot     *)
(* leave the engine running: neither for want of trades nor because it came *)
(* in small steps (checkBalanceGuard's time trigger and its baseline).      *)
DropHalts == []<> ~ TradingOnDrop
=============================================================================
