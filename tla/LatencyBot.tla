------------------------------ MODULE LatencyBot ------------------------------
(***************************************************************************)
(* The 5-minute latency bot (btc-5m-latency/src), trading live: in every   *)
(* window it buys the outcome that the exchanges' price makes likelier     *)
(* than its ask, order by order, settles the window with Gamma's outcome,  *)
(* and trades within the limits of the day, of the session, of a losing    *)
(* streak and of the oracle's divergence.                                  *)
(*                                                                         *)
(* Sizes count chunks (maxOrderShares), amounts whole units.  Time goes in *)
(* ticks; a second, the interval of the risk checks, is within a tick.     *)
(***************************************************************************)
EXTENDS Integers

CONSTANTS
  Window,                      \* ticks of a window
  MinRemaining, MaxRemaining,  \* config.minTimeRemaining, maxTimeRemaining
  HighPrice,                   \* prices of a chunk are 1 .. HighPrice
  Payout,                      \* what a chunk of the right outcome pays
  MaxPosition,                 \* config.maxPositionPerWindow
  MaxDailyLoss, MaxSession,    \* config.maxDailyLossUsdc, maxSessionDrawdown
  MaxLosses, PauseTicks,       \* config.maxConsecutiveLosses, streakPauseMinutes
  DivergenceTicks,             \* config.oracleDivergenceDurationMs
  Views,                       \* what the feeds may show: near, apart or stale
  Toggled,                     \* bound: switches that the dashboard turns
  MaxProfit,                   \* bound: no order after such a day or session
  MaxFailures                  \* bound: calls that fail and crashes

Outcomes == {"UP", "DOWN"}
Prices == 1 .. HighPrice
Switches == {"global", "latency"}

ASSUME LatencyBotAssumption ==
  /\ Window \in Nat
  /\ MinRemaining \in Nat \ {0} /\ MaxRemaining \in Nat
  /\ HighPrice \in Nat \ {0} /\ Payout \in Nat /\ HighPrice < Payout
  /\ MaxPosition \in Nat \ {0}
  /\ MaxDailyLoss \in Nat \ {0} /\ MaxSession \in Nat \ {0}
  /\ MaxLosses \in Nat \ {0} /\ PauseTicks \in Nat
  /\ DivergenceTicks \in Nat
  /\ Views \subseteq {"near", "apart", "stale"} /\ "near" \in Views
  /\ Toggled \subseteq Switches
  /\ MaxProfit \in Nat /\ MaxFailures \in Nat

VARIABLES
  enabled,               \* Redis: both switches
  stored,                \* Redis: the figures of the day in STATS_KEY
  stats,                 \* memory: the same
  session,               \* memory: stats.sessionPnl
  pause,                 \* memory: ticks until pauseUntil
  since, diverged,       \* memory: ticks since divergenceStartMs, the halt
  pc,                    \* where start() and processWindow() are
  due,                   \* memory: the last risk check is a second old
  spent,                 \* memory: LatencySignal's upSpent and downSpent
  held, volume,          \* memory: WindowTracker's shares and total volume
  order, filled,         \* executeSingle(): the decision and what is filled
  view,                  \* exchange: how far exchanges and oracle are apart
  sec, passed,           \* time: ticks into the window; the bot's has ended
  bought, paid,          \* exchange: this window's chunks and their price
  late,                  \* history: those filled though the request threw
  before,                \* history: those of earlier processes
  restarts,              \* history: restarts since the window's first chunk
  earned,                \* history: what this day's windows really brought
  remembered,            \* history: the bot has been told all of that
  sinceLoss,             \* history: ticks since this process's last loss
  failures               \* counter for the bound

bookVars   == <<stats, session, pause, sinceLoss>>
truthVars  == <<earned, remembered>>
haltVars   == <<since, diverged>>
orderVars  == <<order, filled>>
positionVars == <<bought, paid, late, before, restarts>>
windowVars == <<spent, held, volume, positionVars>>
timeVars   == <<sec, passed>>
botVars == <<enabled, stored, bookVars, haltVars, pc, due, orderVars,
             windowVars, view, timeVars, truthVars, failures>>

(* The figures of a day; today is FALSE when their date is an earlier one. *)
Figures == [profit : Int, losses : Nat, today : BOOLEAN]
NoFigures == [profit |-> 0, losses |-> 0, today |-> TRUE]

Orders == [side : Outcomes, shares : Nat, limit : Nat, cost : Nat]
NoOrder == [side |-> "UP", shares |-> 0, limit |-> 0, cost |-> 0]
NoShares == [o \in Outcomes |-> 0]

-----------------------------------------------------------------------------
(* Helpers. *)

GoTo(from, to) == pc = from /\ pc' = to

Fails == failures < MaxFailures /\ failures' = failures + 1

(* checkDailyReset(): a new day also ends the streak and its pause. *)
Reset(figures) == IF figures.today THEN figures ELSE NoFigures
ResetPause == IF stats.today THEN pause ELSE 0

(* recordWindowResult(), for a window with trades. *)
Booked(figures, profit) ==
  [profit |-> figures.profit + profit,
   losses |-> IF profit >= 0 THEN 0 ELSE figures.losses + 1,
   today |-> TRUE]

Remaining == IF passed THEN 0 ELSE Window - sec
Later(ticks, end) == IF ticks < end THEN ticks + 1 ELSE ticks

(* Nothing of a window is in memory. *)
Forgotten == spent' = NoShares /\ held' = NoShares /\ volume' = 0

(* The exchange has paid for the window's chunks, whoever knew of them. *)
PositionOver ==
  /\ bought' = NoShares /\ paid' = 0 /\ late' = 0
  /\ before' = NoShares /\ restarts' = 0

OrderOver == order' = NoOrder /\ filled' = 0

LatencyBotInit ==
  /\ enabled \in [Switches -> BOOLEAN]
  /\ \A key \in Switches \ Toggled : enabled[key]
  /\ stored = NoFigures /\ stats = NoFigures
  /\ session = 0 /\ pause = 0 /\ since = -1 /\ diverged = FALSE
  /\ pc = "down" /\ due = TRUE
  /\ spent = NoShares /\ held = NoShares /\ volume = 0
  /\ order = NoOrder /\ filled = 0
  /\ view = "near"
  /\ sec = 0 /\ passed = FALSE
  /\ bought = NoShares /\ paid = 0 /\ late = 0
  /\ before = NoShares /\ restarts = 0
  /\ earned = 0 /\ remembered = TRUE /\ sinceLoss = PauseTicks
  /\ failures = 0

-----------------------------------------------------------------------------
(* start() *)

(* The constructors: everything but the figures of the day starts anew. *)
Boot ==
  /\ GoTo("down", "feeds")
  /\ stats' = NoFigures /\ session' = 0 /\ pause' = 0
  /\ sinceLoss' = PauseTicks
  /\ since' = -1 /\ diverged' = FALSE
  /\ UNCHANGED <<enabled, stored, due, orderVars, windowVars, view, timeVars,
                 truthVars, failures>>

(* A feed has a price and the oracle was asked; if neither feed has one    *)
(* within 15 seconds, the process exits.                                   *)
Connect ==
  /\ pc = "feeds"
  /\ \/ pc' = "load" /\ UNCHANGED failures
     \/ pc' = "down" /\ Fails
  /\ UNCHANGED <<enabled, stored, bookVars, haltVars, due, orderVars,
                 windowVars, view, timeVars, truthVars>>

(* initialize(): the profit is reset on a new day, the streak is not; on   *)
(* an error the bot goes on with figures of zero.                          *)
LoadStats ==
  /\ GoTo("load", "begin")
  /\ \/ /\ stats' = [profit |-> Reset(stored).profit,
                     losses |-> stored.losses, today |-> TRUE]
        /\ UNCHANGED <<remembered, failures>>
     \/ Fails /\ remembered' = FALSE /\ UNCHANGED stats
  /\ UNCHANGED <<enabled, stored, session, pause, sinceLoss, haltVars, due,
                 orderVars, windowVars, view, timeVars, earned>>

-----------------------------------------------------------------------------
(* processWindow(): market and price to beat, then the evaluation loop. *)

(* The bot turns to the window that is current now.  When its last one has *)
(* ended without being settled, it is never told what that one brought.    *)
TurnToWindow ==
  /\ passed' = FALSE
  /\ IF passed
     THEN PositionOver /\ remembered' = (remembered /\ bought = NoShares)
     ELSE UNCHANGED <<positionVars, remembered>>
  /\ UNCHANGED <<spent, held, volume, sec, earned>>

Begin ==
  /\ GoTo("begin", "discover")
  /\ TurnToWindow
  /\ UNCHANGED <<enabled, stored, bookVars, haltVars, due, orderVars, view,
                 failures>>

(* No market, or no price of the oracle yet. *)
SkipWindow ==
  /\ GoTo("discover", "next")
  /\ UNCHANGED <<enabled, stored, bookVars, haltVars, due, orderVars,
                 windowVars, view, timeVars, truthVars, failures>>

(* startWindow(), resetWindow(): also when an earlier process has already  *)
(* traded in this window, which is not stored anywhere the bot looks.      *)
StartWindow ==
  /\ GoTo("discover", "loop")
  /\ due' = TRUE
  /\ Forgotten
  /\ UNCHANGED <<enabled, stored, bookVars, haltVars, orderVars, positionVars,
                 view, timeVars, truthVars, failures>>

InLoop == pc = "loop" /\ Remaining >= MinRemaining

LoopEnds ==
  /\ GoTo("loop", "close")
  /\ Remaining < MinRemaining
  /\ UNCHANGED <<enabled, stored, bookVars, haltVars, due, orderVars,
                 windowVars, view, timeVars, truthVars, failures>>

(* Mutant: the divergence is looked at only when trading is allowed. *)
CheckDivergenceLast ==
  /\ InLoop /\ Remaining <= MaxRemaining /\ due
  /\ pc' = "global"
  /\ due' = FALSE
  /\ since' = IF view = "near" /\ ~diverged THEN -1
              ELSE IF view = "apart" /\ since = -1 THEN 0 ELSE since
  /\ diverged' = (diverged \/ (view = "apart" /\ since' >= DivergenceTicks))
  /\ UNCHANGED <<enabled, stored, bookVars, orderVars, windowVars, view,
                 timeVars, truthVars, failures>>

(* checkOracleDivergence() comes first; it changes nothing while the       *)
(* exchanges' price is stale.                                              *)
CheckDivergence ==
  /\ InLoop /\ Remaining <= MaxRemaining /\ due
  /\ pc' = "global"
  /\ due' = FALSE
  /\ since' = CASE view = "near"  -> -1
                [] view = "apart" -> IF since = -1 THEN 0 ELSE since
                [] view = "stale" -> since
  /\ diverged' = CASE view = "near"  -> FALSE
                   [] view = "apart" -> diverged \/ since' >= DivergenceTicks
                   [] view = "stale" -> diverged
  /\ UNCHANGED <<enabled, stored, bookVars, orderVars, windowVars, view,
                 timeVars, truthVars, failures>>

(* A switch counts as on when it reads TRUE; otherwise, also when Redis    *)
(* does not answer, the loop of this window breaks off.                    *)
CheckSwitch(key, from, to) ==
  /\ pc = from
  /\ \/ enabled[key] /\ pc' = to /\ UNCHANGED failures
     \/ ~enabled[key] /\ pc' = "close" /\ UNCHANGED failures
     \/ Fails /\ pc' = "close"
  /\ UNCHANGED <<enabled, stored, bookVars, haltVars, due, orderVars,
                 windowVars, view, timeVars, truthVars>>

CheckGlobal == CheckSwitch("global", "global", "latency")
CheckLatency == CheckSwitch("latency", "latency", "limits")

(* Mutant: the session's limit is passed before it is reached. *)
SessionPassed == session < -MaxSession

LossReached == Reset(stats).profit <= -MaxDailyLoss
SessionReached == session <= -MaxSession

Halted == SessionReached \/ ResetPause > 0 \/ diverged

(* The reset of the day is part of every one of the next three. *)
DayReset == stats' = Reset(stats) /\ pause' = ResetPause

Allowed ==
  /\ GoTo("limits", "tick")
  /\ ~LossReached /\ ~Halted
  /\ DayReset
  /\ UNCHANGED <<enabled, stored, session, sinceLoss, haltVars, due, orderVars,
                 windowVars, view, timeVars, truthVars, failures>>

(* The daily loss turns the bot's own switch off; nothing here turns it on *)
(* again.  Everything else ends the loop of this window.                   *)
Blocked ==
  /\ GoTo("limits", "close")
  /\ LossReached \/ Halted
  /\ DayReset
  /\ enabled' = IF LossReached THEN [enabled EXCEPT !["latency"] = FALSE]
                               ELSE enabled
  /\ UNCHANGED <<stored, session, sinceLoss, haltVars, due, orderVars,
                 windowVars, view, timeVars, truthVars, failures>>

(* If Redis refuses that, the window is given up without settling it. *)
BlockFails ==
  /\ GoTo("limits", "next")
  /\ LossReached /\ Fails
  /\ DayReset
  /\ UNCHANGED <<enabled, stored, session, sinceLoss, haltVars, due, orderVars,
                 windowVars, view, timeVars, truthVars>>

(* Within a second of the last risk check there is no other. *)
NoCheck ==
  /\ InLoop /\ Remaining <= MaxRemaining /\ ~due
  /\ pc' = "tick"
  /\ UNCHANGED <<enabled, stored, bookVars, haltVars, due, orderVars,
                 windowVars, view, timeVars, truthVars, failures>>

(* A price that is not stale is worth a look at the books. *)
Evaluate ==
  /\ GoTo("tick", "evaluate")
  /\ view # "stale"
  /\ UNCHANGED <<enabled, stored, bookVars, haltVars, due, orderVars,
                 windowVars, view, timeVars, truthVars, failures>>

(* No healthy feed, no price, no edge, no book: the next tick follows. *)
NoDecision ==
  /\ pc \in {"tick", "evaluate"}
  /\ pc' = "loop"
  /\ UNCHANGED <<enabled, stored, bookVars, haltVars, due, orderVars,
                 windowVars, view, timeVars, truthVars, failures>>

(* One side per window once anything has been spent. *)
Sides ==
  IF spent["UP"] > 0 THEN {"UP"} ELSE IF spent["DOWN"] > 0 THEN {"DOWN"}
                                                           ELSE Outcomes

(* Mutant: the cap is for each order. *)
LeftForOrder(o) == MaxPosition

(* What is left of the position on a side. *)
Left(o) == MaxPosition - spent[o]

(* The money left buys n chunks at the best ask, but they may cost up to   *)
(* the worst price the book has for them, which is the limit of the order. *)
Decide(o, n, ask, limit, cost) ==
  /\ GoTo("evaluate", "execute")
  /\ o \in Sides
  /\ n * ask <= Left(o)
  /\ n * ask <= cost /\ cost <= n * limit
  /\ earned < MaxProfit /\ session < MaxProfit
  /\ order' = [side |-> o, shares |-> n, limit |-> limit, cost |-> cost]
  /\ filled' = 0
  /\ UNCHANGED <<enabled, stored, bookVars, haltVars, due, windowVars, view,
                 timeVars, truthVars, failures>>

-----------------------------------------------------------------------------
(* executeSingle(): one chunk after the other. *)

(* A chunk bought at price p, which the limit allows. *)
Buys(p) ==
  /\ p <= order.limit
  /\ bought' = [bought EXCEPT ![order.side] = @ + 1]
  /\ paid' = paid + p

OrderFilled(p) ==
  /\ pc = "execute"
  /\ Buys(p)
  /\ filled' = filled + 1
  /\ pc' = IF filled + 1 = order.shares THEN "filled" ELSE "execute"
  /\ UNCHANGED <<enabled, stored, bookVars, haltVars, due, order, spent, held,
                 volume, late, before, restarts, view, timeVars, truthVars,
                 failures>>

OrderKilled ==
  /\ GoTo("execute", "filled")
  /\ UNCHANGED <<enabled, stored, bookVars, haltVars, due, orderVars,
                 windowVars, view, timeVars, truthVars, failures>>

(* A request that throws ends the order; it may be filled all the same. *)
OrderThrows(p) ==
  /\ GoTo("execute", "filled")
  /\ Fails
  /\ \/ Buys(p) /\ late' = late + 1
     \/ UNCHANGED <<bought, paid, late>>
  /\ UNCHANGED <<enabled, stored, bookVars, haltVars, due, orderVars, spent,
                 held, volume, before, restarts, view, timeVars, truthVars>>

(* Mutant: an order that failed is not counted. *)
RecordSuccess ==
  /\ GoTo("filled", "loop")
  /\ spent' = [spent EXCEPT ![order.side] = @ + order.limit * filled]
  /\ held' = [held EXCEPT ![order.side] = @ + filled]
  /\ volume' = volume + order.limit * filled
  /\ OrderOver
  /\ UNCHANGED <<enabled, stored, bookVars, haltVars, due, positionVars, view,
                 timeVars, truthVars, failures>>

(* What is filled counts at the limit; an order without a fill counts as   *)
(* if it had been, and is not told to the window's tracker.                *)
RecordFill ==
  /\ GoTo("filled", "loop")
  /\ spent' = [spent EXCEPT ![order.side] =
                 @ + (IF filled > 0 THEN order.limit * filled ELSE order.cost)]
  /\ held' = [held EXCEPT ![order.side] = @ + filled]
  /\ volume' = volume + order.limit * filled
  /\ OrderOver
  /\ UNCHANGED <<enabled, stored, bookVars, haltVars, due, positionVars, view,
                 timeVars, truthVars, failures>>

-----------------------------------------------------------------------------
(* The window's end. *)

Close ==
  /\ GoTo("close", "settle")
  /\ passed
  /\ UNCHANGED <<enabled, stored, bookVars, haltVars, due, orderVars,
                 windowVars, view, timeVars, truthVars, failures>>

(* Mutant: the pause comes a loss late. *)
StreakLate(losses) == losses > MaxLosses

StreakPauses(losses) == losses >= MaxLosses

(* recordWindowResult(), up to its first await; the window has really      *)
(* brought what the outcome pays for what was bought.                      *)
RecordResult(outcome, profit) ==
  /\ GoTo("settle", "persist")
  /\ IF volume = 0
     THEN DayReset /\ UNCHANGED <<session, sinceLoss>>
     ELSE LET now == Booked(Reset(stats), profit) IN
          /\ stats' = now
          /\ session' = session + profit
          /\ pause' = IF profit < 0 /\ StreakPauses(now.losses)
                      THEN PauseTicks ELSE ResetPause
          /\ sinceLoss' = IF profit < 0 THEN 0 ELSE sinceLoss
  /\ earned' = earned + Payout * bought[outcome] - paid
  /\ remembered' = (remembered /\ late = 0 /\ restarts = 0)
  /\ Forgotten /\ PositionOver
  /\ UNCHANGED <<enabled, stored, haltVars, due, orderVars, view, timeVars,
                 failures>>

(* Gamma knows the outcome. *)
Resolved(outcome) == RecordResult(outcome, Payout * held[outcome] - volume)

(* Mutant: the oracle's guess is booked instead. *)
GuessOutcome(outcome) ==
  \E guess \in Outcomes :
    RecordResult(outcome, Payout * held[guess] - volume)

(* Mutant: Gamma is asked without an end. *)
AskOn(outcome) ==
  /\ GoTo("settle", "settle")
  /\ UNCHANGED <<enabled, stored, bookVars, haltVars, due, orderVars,
                 windowVars, view, timeVars, truthVars, failures>>

(* It does not for three minutes: the worst case is booked. *)
Unresolved(outcome) == RecordResult(outcome, -volume)

(* persistStats() logs an error and forgets it, as does publishing the     *)
(* result; where SQLite throws, processWindow() is over anyway.            *)
Persist ==
  /\ GoTo("persist", "next")
  /\ \/ stored' = stats /\ UNCHANGED failures
     \/ Fails /\ UNCHANGED stored
  /\ UNCHANGED <<enabled, bookVars, haltVars, due, orderVars, windowVars, view,
                 timeVars, truthVars>>

(* waitForNextWindow(): the window after the one that is current now. *)
WaitForNextWindow ==
  /\ GoTo("next", "asleep")
  /\ TurnToWindow
  /\ UNCHANGED <<enabled, stored, bookVars, haltVars, due, orderVars, view,
                 failures>>

WakeUp ==
  /\ GoTo("asleep", "begin")
  /\ passed
  /\ UNCHANGED <<enabled, stored, bookVars, haltVars, due, orderVars,
                 windowVars, view, timeVars, truthVars, failures>>

-----------------------------------------------------------------------------
(* The environment. *)

(* The process ends anywhere, and with it what it knew of its window; the  *)
(* exchange keeps the chunks, and the next process may come to the same    *)
(* window.                                                                 *)
Crash ==
  /\ pc # "down"
  /\ Fails
  /\ pc' = "down"
  /\ remembered' = (/\ remembered
                    /\ \/ pc \in {"feeds", "load"}
                       \/ Reset(stored).profit = Reset(stats).profit)
  /\ before' = bought
  /\ restarts' = IF bought = NoShares THEN restarts ELSE restarts + 1
  /\ Forgotten /\ OrderOver
  /\ UNCHANGED <<enabled, stored, bookVars, haltVars, due, bought, paid, late,
                 view, timeVars, earned>>

TimePasses ==
  /\ due' = TRUE
  /\ pause' = IF pause > 0 THEN pause - 1 ELSE 0
  /\ sinceLoss' = Later(sinceLoss, PauseTicks)
  /\ since' = IF since = -1 THEN -1 ELSE Later(since, DivergenceTicks)

SecondPasses ==
  /\ due' = TRUE
  /\ UNCHANGED <<enabled, stored, bookVars, haltVars, pc, orderVars,
                 windowVars, view, timeVars, truthVars, failures>>

Tick ==
  /\ sec + 1 < Window
  /\ sec' = sec + 1
  /\ TimePasses
  /\ UNCHANGED <<enabled, stored, stats, session, diverged, pc, orderVars,
                 windowVars, view, passed, truthVars, failures>>

(* The next window begins, perhaps a day; on a new day nothing is earned. *)
NextWindow ==
  /\ sec + 1 >= Window
  /\ sec' = 0 /\ passed' = TRUE
  /\ TimePasses
  /\ \/ UNCHANGED <<stored, stats, truthVars>>
     \/ /\ stored' = [stored EXCEPT !.today = FALSE]
        /\ stats' = [stats EXCEPT !.today = FALSE]
        /\ earned' = 0 /\ remembered' = TRUE
  /\ UNCHANGED <<enabled, session, diverged, pc, orderVars, windowVars, view,
                 failures>>

(* The feeds and the oracle show something else. *)
PricesMove(v) ==
  /\ view' = v
  /\ UNCHANGED <<enabled, stored, bookVars, haltVars, pc, due, orderVars,
                 windowVars, timeVars, truthVars, failures>>

(* The dashboard turns a switch on or off. *)
Toggle(key) ==
  /\ enabled' = [enabled EXCEPT ![key] = ~@]
  /\ UNCHANGED <<stored, bookVars, haltVars, pc, due, orderVars, windowVars,
                 view, timeVars, truthVars, failures>>

-----------------------------------------------------------------------------
Bot ==
  \/ Boot \/ Connect \/ LoadStats \/ Begin \/ SkipWindow \/ StartWindow
  \/ LoopEnds \/ CheckDivergence \/ CheckGlobal \/ CheckLatency \/ Allowed
  \/ Blocked \/ NoCheck \/ Evaluate \/ NoDecision
  \/ \E o \in Outcomes, n \in 1 .. MaxPosition, ask, limit \in Prices :
       \E cost \in n * ask .. n * limit : Decide(o, n, ask, limit, cost)
  \/ \E p \in Prices : OrderFilled(p)
  \/ OrderKilled \/ RecordFill \/ Close
  \/ \E outcome \in Outcomes : Unresolved(outcome)
  \/ Persist \/ WaitForNextWindow \/ WakeUp

LatencyBotNext ==
  \/ Bot
  \/ BlockFails \/ Crash
  \/ \E p \in Prices : OrderThrows(p)
  \/ \E outcome \in Outcomes : Resolved(outcome)
  \/ SecondPasses \/ Tick \/ NextWindow
  \/ \E v \in Views : PricesMove(v)
  \/ \E key \in Toggled : Toggle(key)

LatencyBotSpec == LatencyBotInit /\ [][LatencyBotNext]_botVars

(* Every request of the bot ends, at the latest with its timeout; its      *)
(* container is started again (unless-stopped); and time passes.           *)
LatencyBotFairSpec ==
  LatencyBotSpec /\ WF_botVars(Bot) /\ WF_botVars(Tick \/ NextWindow)

-----------------------------------------------------------------------------
(* Properties. *)

TypeInv ==
  /\ enabled \in [Switches -> BOOLEAN]
  /\ stored \in Figures /\ stats \in Figures
  /\ session \in Int /\ earned \in Int
  /\ pause \in Nat /\ sinceLoss \in Nat
  /\ since \in Int /\ since >= -1 /\ diverged \in BOOLEAN
  /\ pc \in {"down", "feeds", "load", "begin", "discover", "loop", "global",
             "latency", "limits", "tick", "evaluate", "execute", "filled",
             "close", "settle", "persist", "next", "asleep"}
  /\ due \in BOOLEAN /\ passed \in BOOLEAN /\ remembered \in BOOLEAN
  /\ spent \in [Outcomes -> Nat] /\ held \in [Outcomes -> Nat]
  /\ bought \in [Outcomes -> Nat] /\ before \in [Outcomes -> Nat]
  /\ volume \in Nat /\ paid \in Nat /\ late \in Nat /\ restarts \in Nat
  /\ order \in Orders /\ filled \in Nat
  /\ view \in {"near", "apart", "stale"}
  /\ sec \in Nat /\ failures \in Nat

MaxSpent == HighPrice * MaxPosition

(* The risk check has allowed what goes on here. *)
Trading ==
  \/ pc \in {"tick", "evaluate", "execute", "filled"}
  \/ pc = "loop" /\ ~due

(* What the bot knows of the day: what Redis holds until it has loaded it. *)
Known == Reset(IF pc \in {"down", "feeds", "load"} THEN stored ELSE stats)

(* Only one side is spent on, within the cap and the order in hand.        *)
OrderInv ==
  /\ \A o \in Outcomes : spent[o] <= MaxSpent
  /\ spent["UP"] = 0 \/ spent["DOWN"] = 0
  /\ pc \in {"execute", "filled"} =>
       /\ filled <= order.shares
       /\ pc = "execute" => filled < order.shares
       /\ order.shares > 0 /\ order.cost > 0 /\ order.limit \in Prices
       /\ order.cost <= order.limit * order.shares
       /\ order.side \in Sides
       /\ spent[order.side] + order.limit * order.shares <= MaxSpent
  /\ pc \notin {"execute", "filled"} => order = NoOrder /\ filled = 0

(* What this process has bought is held, in hand, or was never told.       *)
WindowInv ==
  /\ \A o \in Outcomes :
       /\ held[o] > 0 => spent[o] > 0
       /\ bought[o] >= before[o]
       /\ bought[o] > before[o] =>
            spent[o] > 0 \/ (pc \in {"execute", "filled"} /\ order.side = o)
       /\ late = 0 /\ restarts = 0 =>
            bought[o] = held[o] + (IF o = order.side THEN filled ELSE 0)
  /\ volume <= spent["UP"] + spent["DOWN"]
  /\ paid <= volume + order.limit * filled + HighPrice * late
              + MaxSpent * restarts
  /\ paid > 0 => bought # NoShares
  /\ restarts = 0 => before = NoShares
  /\ pc \in {"down", "feeds", "load", "begin", "discover", "persist", "next",
             "asleep"} =>
       spent = NoShares /\ held = NoShares /\ volume = 0 /\ bought = before

(* A window is traded in only within the limits it found.                  *)
LimitInv ==
  /\ Trading \/ spent # NoShares =>
       /\ Reset(stats).profit > -MaxDailyLoss
       /\ session > -MaxSession
       /\ stats.losses >= MaxLosses => sinceLoss >= PauseTicks
  /\ Trading => ~diverged
  /\ stats.losses >= MaxLosses => pause + sinceLoss >= PauseTicks
  /\ pc \in {"feeds", "load"} => sinceLoss >= PauseTicks
  /\ session > -(MaxSession + MaxSpent)
  /\ remembered => earned >= Known.profit
  /\ remembered => Known.profit > -(MaxDailyLoss + MaxSpent)

LatencyBotInv == TypeInv /\ OrderInv /\ WindowInv /\ LimitInv

(* canTrade(): over midnights and restarts, what a day's windows really    *)
(* bring passes the limit of the day by less than one window's position,   *)
(* as long as the bot was told of all of it; and so does a session's.      *)
LossLimitsHold ==
  /\ remembered => earned > -(MaxDailyLoss + MaxSpent)
  /\ session > -(MaxSession + MaxSpent)

(* index.ts, step 8: what is booked for a day is never more than its       *)
(* windows really brought, whether the outcome was known or not.           *)
BookingNeverFlatters == remembered => Known.profit <= earned

(* latency-signal.ts, step 5, "Lock to one side per window": a process     *)
(* adds to one side of a window only, also when a request threw and was    *)
(* filled all the same; both sides take a restart within the window.       *)
OneSidePerWindow ==
  /\ \E o \in Outcomes : bought[o] = before[o]
  /\ bought["UP"] > 0 /\ bought["DOWN"] > 0 => restarts > 0

(* types.ts, maxPositionPerWindow: what a window's chunks really cost is   *)
(* within a position for each process that traded in it, but for the       *)
(* spread of the prices and for requests that threw and were filled.       *)
PositionCapHolds ==
  paid <= HighPrice * (MaxPosition * (restarts + 1) + late)

(* risk-manager.ts, "Trigger streak pause": an order after a losing streak *)
(* comes at least a full pause after the process's last loss, however many *)
(* windows, losses and midnights there were; a restart ends a pause.       *)
StreakPauseHolds ==
  pc = "execute" /\ stats.losses >= MaxLosses => sinceLoss >= PauseTicks

(* Whatever fails, and whether or not Gamma ever knows an outcome, the bot *)
(* comes to its next window.                                               *)
WindowsGoOn == []<>(pc = "begin")

(* index.ts, "so it can self-resolve when prices converge": when prices    *)
(* stay together and the bot looks again and again, the halt ends for good.*)
DivergenceEnds ==
  <>[](view = "near") /\ []<>(pc = "global") => <>[]~diverged
=============================================================================
