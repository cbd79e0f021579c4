------------------------------ MODULE MomentumBot ------------------------------
(***************************************************************************)
(* The 5-minute momentum bot (btc-5m-momentum/src): shortly before a       *)
(* window ends it bets once on the side the bitcoin price is on, waits for *)
(* the end, judges by the same price whether it has won, and books that.   *)
(* It trades live, order by order, or on paper, walking the book again.    *)
(*                                                                         *)
(* Shares and prices count their smallest units.  Time goes in ticks.      *)
(***************************************************************************)
EXTENDS BookWalk

CONSTANTS
  Window, Entry,               \* ticks of a window, entrySecondsBefore
  MinEntry, MaxEntry, Payout,  \* minEntryPrice, maxEntryPrice, a dollar
  MaxBet, MaxOrder,            \* maxBetUsdc, maxOrderShares
  MaxDailyLoss,                \* maxDailyLossUsdc
  MaxLosses, PauseTicks,       \* maxConsecutiveLosses, streakPauseMinutes
  Books,                       \* the ask books there may be
  Modes,                       \* how the bot may be configured: live, paper
  MaxProfit,                   \* bound: no bet after such a day
  MaxFailures                  \* bound: calls that fail, crashes, wrong judgements

Sides == {"UP", "DOWN"}
Leads == Sides \cup {"EVEN"}

ASSUME MomentumBotAssumption ==
  /\ Window \in Nat /\ Entry \in Nat
  /\ MinEntry \in Nat \ {0} /\ MaxEntry \in Nat /\ Payout \in Nat
  /\ MinEntry < MaxEntry /\ MaxEntry < Payout
  /\ MaxBet \in Nat /\ MaxBet >= MinShares * MaxEntry
  /\ MaxOrder \in Nat /\ MaxOrder >= MinShares
  /\ MaxDailyLoss \in Nat \ {0} /\ MaxLosses \in Nat \ {0}
  /\ PauseTicks \in Nat
  /\ Books \subseteq Seq([price : Int, size : Int])
  /\ Modes \subseteq {"live", "paper"}
  /\ MaxProfit \in Nat /\ MaxFailures \in Nat

VARIABLES
  mode,                  \* config.dryRun
  enabled,               \* Redis: both switches
  stored,                \* Redis: the figures of the day in STATS_KEY
  stats, pause,          \* memory: the same, and ticks until pauseUntil
  pc,                    \* where start() and processWindow() are
  order, chunks,         \* executeSingle(): the decision, the chunks to send
  filled, cost,          \* executeSingle(): the result
  sec, passed,           \* time: ticks into the window; the bot's has ended
  bought, paid, late,    \* exchange: this bet's shares, their price; untold
  bets, crashes,         \* history: the bets and crashes of this window
  earned, remembered,    \* history: what this day really brought; all told
  failures               \* counter for the bound

bookVars  == <<stored, stats, pause>>
orderVars == <<order, chunks, filled, cost, bought, paid, late>>
timeVars  == <<sec, passed>>
pastVars  == <<bets, crashes>>
truthVars == <<earned, remembered>>
momentumVars == <<mode, enabled, bookVars, pc, orderVars, timeVars, pastVars,
                  truthVars, failures>>

Switches == {"global", "momentum"}

(* The figures of a day; today is FALSE when their date is an earlier one. *)
NoFigures == [profit |-> 0, losses |-> 0, today |-> TRUE]
NoOrder == [side |-> "UP", shares |-> 0, limit |-> 0]

-----------------------------------------------------------------------------
(* Helpers. *)

GoTo(from, to) == pc = from /\ pc' = to

Fails == failures < MaxFailures /\ failures' = failures + 1

(* checkDailyReset(): a new day also ends the streak and its pause. *)
Reset(figures) == IF figures.today THEN figures ELSE NoFigures
ResetPause == IF stats.today THEN pause ELSE 0
DayReset == stats' = Reset(stats) /\ pause' = ResetPause

Remaining == IF passed THEN 0 ELSE Window - sec

NoBet ==
  /\ order' = NoOrder /\ chunks' = <<>> /\ filled' = 0 /\ cost' = 0
  /\ bought' = 0 /\ paid' = 0 /\ late' = 0

(* persistStats() logs an error and forgets it. *)
Persist(from, to) ==
  /\ GoTo(from, to)
  /\ \/ stored' = stats /\ UNCHANGED failures
     \/ Fails /\ UNCHANGED stored
  /\ UNCHANGED <<mode, enabled, stats, pause, orderVars, timeVars, pastVars,
                 truthVars>>

MomentumInit ==
  /\ mode \in Modes
  /\ enabled \in [Switches -> BOOLEAN]
  /\ stored = NoFigures /\ stats = NoFigures /\ pause = 0
  /\ pc = "down"
  /\ order = NoOrder /\ chunks = <<>> /\ filled = 0 /\ cost = 0
  /\ sec = 0 /\ passed = FALSE
  /\ bought = 0 /\ paid = 0 /\ late = 0
  /\ bets = 0 /\ crashes = 0
  /\ earned = 0 /\ remembered = TRUE
  /\ failures = 0

-----------------------------------------------------------------------------
(* start() *)

(* The constructors: everything but the figures of the day starts anew. *)
Boot ==
  /\ GoTo("down", "connect")
  /\ stats' = NoFigures /\ pause' = 0
  /\ UNCHANGED <<mode, enabled, stored, orderVars, timeVars, pastVars,
                 truthVars, failures>>

(* Without a first price within ten seconds the process exits. *)
Connect ==
  /\ pc = "connect"
  /\ \/ pc' = "load" /\ UNCHANGED failures
     \/ pc' = "down" /\ Fails
  /\ UNCHANGED <<mode, enabled, bookVars, orderVars, timeVars, pastVars,
                 truthVars>>

(* initialize(): the profit is reset on a new day, the streak is not; on   *)
(* an error the bot goes on with figures of zero.                          *)
LoadStats ==
  /\ GoTo("load", "begin")
  /\ \/ /\ stats' = [profit |-> Reset(stored).profit,
                     losses |-> stored.losses, today |-> TRUE]
        /\ UNCHANGED <<remembered, failures>>
     \/ Fails /\ remembered' = FALSE /\ UNCHANGED stats
  /\ UNCHANGED <<mode, enabled, stored, pause, orderVars, timeVars, pastVars,
                 earned>>

-----------------------------------------------------------------------------
(* processWindow(), up to the decision. *)

Begin ==
  /\ GoTo("begin", "record")
  /\ passed' = FALSE
  /\ UNCHANGED <<mode, enabled, bookVars, orderVars, sec, pastVars, truthVars,
                 failures>>

RecordWindow == Persist("record", "discover")

(* No market for the window, or the window is over by now. *)
NoMarket ==
  /\ GoTo("discover", "skip")
  /\ UNCHANGED <<mode, enabled, bookVars, orderVars, timeVars, pastVars,
                 truthVars, failures>>

(* A market: the open price is the one there is now. *)
Discover ==
  /\ GoTo("discover", "wait")
  /\ Remaining > 0
  /\ UNCHANGED <<mode, enabled, bookVars, orderVars, timeVars, pastVars,
                 truthVars, failures>>

DecisionPoint ==
  /\ GoTo("wait", "global")
  /\ Remaining <= Entry
  /\ UNCHANGED <<mode, enabled, bookVars, orderVars, timeVars, pastVars,
                 truthVars, failures>>

(* A switch counts as on when it reads TRUE, and as off on an error. *)
CheckSwitch(key, from, to) ==
  /\ pc = from
  /\ \/ enabled[key] /\ pc' = to /\ UNCHANGED failures
     \/ ~enabled[key] /\ pc' = "skip" /\ UNCHANGED failures
     \/ Fails /\ pc' = "skip"
  /\ UNCHANGED <<mode, enabled, bookVars, orderVars, timeVars, pastVars,
                 truthVars>>

CheckGlobal == CheckSwitch("global", "global", "momentum")
CheckMomentum == CheckSwitch("momentum", "momentum", "limits")

LossReached == Reset(stats).profit <= -MaxDailyLoss

Allowed ==
  /\ GoTo("limits", "signal")
  /\ ~LossReached /\ ResetPause = 0
  /\ DayReset
  /\ UNCHANGED <<mode, enabled, stored, orderVars, timeVars, pastVars,
                 truthVars, failures>>

(* The daily loss turns the bot's own switch off; nothing turns it on.     *)
Blocked ==
  /\ GoTo("limits", "skip")
  /\ LossReached \/ ResetPause > 0
  /\ DayReset
  /\ enabled' = IF LossReached THEN [enabled EXCEPT !["momentum"] = FALSE]
                               ELSE enabled
  /\ UNCHANGED <<mode, stored, orderVars, timeVars, pastVars, truthVars,
                 failures>>

(* If Redis refuses that, the window ends without being recorded.          *)
BlockFails ==
  /\ GoTo("limits", "next")
  /\ LossReached /\ Fails
  /\ DayReset
  /\ UNCHANGED <<mode, enabled, stored, orderVars, timeVars, pastVars,
                 truthVars>>

-----------------------------------------------------------------------------
(* evaluate() *)

(* What may be bought of a book: as much as the bet would buy at the       *)
(* lowest entry price, scaled down when that costs more than the bet.      *)
Taken(asks) == Liquidity(asks, MaxEntry, MaxBet \div MinEntry)

Scaled(taken) ==
  IF taken.cost > MaxBet THEN (taken.shares * MaxBet) \div taken.cost
                         ELSE taken.shares

WorthABet(asks) ==
  /\ asks # <<>>
  /\ asks[1].price >= MinEntry /\ asks[1].price <= MaxEntry
  /\ Taken(asks).shares >= MinShares

(* The feed is not healthy, the price is flat, or the book is not worth    *)
(* a bet.                                                                  *)
NoSignal ==
  /\ GoTo("signal", "skip")
  /\ UNCHANGED <<mode, enabled, bookVars, orderVars, timeVars, pastVars,
                 truthVars, failures>>

(* The price is on a side, and its book is worth a bet. *)
Decide(side, book) ==
  /\ GoTo("signal", "execute")
  /\ earned < MaxProfit /\ Reset(stats).profit < MaxProfit
  /\ \E asks \in AskLists(book) :
       /\ WorthABet(asks)
       /\ order' = [side |-> side, shares |-> Scaled(Taken(asks)),
                    limit |-> Taken(asks).worst]
       /\ chunks' = Chunks(Scaled(Taken(asks)), MaxOrder)
  /\ bets' = bets + 1
  /\ UNCHANGED <<mode, enabled, bookVars, filled, cost, bought, paid, late,
                 timeVars, crashes, truthVars, failures>>

-----------------------------------------------------------------------------
(* executeSingle() *)

(* n shares are bought at price p, which the limit allows. *)
Buys(n, p) ==
  /\ p <= order.limit
  /\ bought' = bought + n
  /\ paid' = paid + n * p

(* A chunk is filled or killed; what is filled is booked at the limit. *)
ChunkFilled(p) ==
  /\ pc = "execute" /\ mode = "live"
  /\ Buys(Head(chunks), p)
  /\ filled' = filled + Head(chunks)
  /\ cost' = cost + Head(chunks) * order.limit
  /\ chunks' = Tail(chunks)
  /\ pc' = IF Tail(chunks) = <<>> THEN "result" ELSE "execute"
  /\ UNCHANGED <<mode, enabled, bookVars, order, late, timeVars, pastVars,
                 truthVars, failures>>

ChunkKilled ==
  /\ GoTo("execute", "result") /\ mode = "live"
  /\ UNCHANGED <<mode, enabled, bookVars, orderVars, timeVars, pastVars,
                 truthVars, failures>>

(* A request that throws ends the bet; it may be filled all the same. *)
ChunkThrows(p) ==
  /\ GoTo("execute", "result") /\ mode = "live"
  /\ Fails
  /\ \/ Buys(Head(chunks), p) /\ late' = late + Head(chunks)
     \/ UNCHANGED <<bought, paid, late>>
  /\ UNCHANGED <<mode, enabled, bookVars, order, chunks, filled, cost,
                 timeVars, pastVars, truthVars>>

(* On paper the book is fetched again and walked up to the limit. *)
PaperFill(book) ==
  /\ GoTo("execute", "result") /\ mode = "paper"
  /\ \E asks \in AskLists(book) :
       LET taken == Liquidity(asks, order.limit, order.shares)
           fill == IF taken.shares >= MinShares THEN taken ELSE NothingTaken
       IN /\ filled' = fill.shares /\ bought' = fill.shares
          /\ cost' = fill.cost /\ paid' = fill.cost
  /\ UNCHANGED <<mode, enabled, bookVars, order, chunks, late, timeVars,
                 pastVars, truthVars, failures>>

BetPlaced ==
  /\ GoTo("result", "close")
  /\ filled > 0
  /\ UNCHANGED <<mode, enabled, bookVars, orderVars, timeVars, pastVars,
                 truthVars, failures>>

(* Without a fill the window counts as skipped. *)
BetMissed ==
  /\ GoTo("result", "skip")
  /\ filled = 0
  /\ remembered' = (remembered /\ bought = 0)
  /\ NoBet
  /\ UNCHANGED <<mode, enabled, bookVars, timeVars, pastVars, earned,
                 failures>>

RecordSkip == Persist("skip", "next")

-----------------------------------------------------------------------------
(* The end of the window. *)

Close ==
  /\ GoTo("close", "settle")
  /\ passed
  /\ UNCHANGED <<mode, enabled, bookVars, orderVars, timeVars, pastVars,
                 truthVars, failures>>

(* Mutant: a loss costs nothing in the figures of the day. *)
BookedWins(figures, won) ==
  [profit |-> figures.profit + (IF won THEN Payout * filled - cost ELSE 0),
   losses |-> IF won THEN 0 ELSE figures.losses + 1,
   today |-> TRUE]

Booked(figures, won) ==
  [profit |-> figures.profit + (IF won THEN Payout * filled ELSE 0) - cost,
   losses |-> IF won THEN 0 ELSE figures.losses + 1,
   today |-> TRUE]

(* The bitcoin price some seconds after the end decides what is booked,    *)
(* the oracle's outcome what is earned.                                    *)
RecordTrade(lead, outcome) ==
  /\ GoTo("settle", "persist")
  /\ LET won == lead = order.side
         now == Booked(Reset(stats), won)
     IN /\ stats' = now
        /\ pause' = IF ~won /\ now.losses >= MaxLosses THEN PauseTicks
                                                       ELSE ResetPause
        /\ IF won /\ outcome # order.side
           THEN Fails /\ remembered' = FALSE
           ELSE UNCHANGED failures /\ remembered' = (remembered /\ late = 0)
  /\ earned' = earned + (IF outcome = order.side THEN Payout * bought ELSE 0)
                 - paid
  /\ NoBet
  /\ UNCHANGED <<mode, enabled, stored, timeVars, pastVars>>

PersistTrade == Persist("persist", "next")

(* waitForNextWindow(): the window after the one that is current now. *)
WaitForNextWindow ==
  /\ GoTo("next", "asleep")
  /\ passed' = FALSE
  /\ UNCHANGED <<mode, enabled, bookVars, orderVars, sec, pastVars, truthVars,
                 failures>>

(* Mutant: the bot goes on with the window that is current. *)
WakeUpEarly ==
  /\ GoTo("asleep", "begin")
  /\ UNCHANGED <<mode, enabled, bookVars, orderVars, timeVars, pastVars,
                 truthVars, failures>>

WakeUp ==
  /\ GoTo("asleep", "begin")
  /\ passed
  /\ UNCHANGED <<mode, enabled, bookVars, orderVars, timeVars, pastVars,
                 truthVars, failures>>

-----------------------------------------------------------------------------
(* The environment. *)

(* What the bot knows of the day: what Redis holds until it has loaded it. *)
Known == Reset(IF pc \in {"down", "connect", "load"} THEN stored ELSE stats)

(* The process is killed, or told to stop; a bet it has made is never      *)
(* settled.                                                                *)
Crash ==
  /\ pc # "down"
  /\ Fails
  /\ pc' = "down"
  /\ remembered' = (/\ remembered /\ bought = 0
                    /\ Reset(stored).profit = Known.profit)
  /\ crashes' = crashes + 1
  /\ NoBet
  /\ UNCHANGED <<mode, enabled, bookVars, timeVars, bets, earned>>

TimePasses == pause' = IF pause > 0 THEN pause - 1 ELSE 0

Tick ==
  /\ sec + 1 < Window
  /\ sec' = sec + 1
  /\ TimePasses
  /\ UNCHANGED <<mode, enabled, stored, stats, pc, orderVars, passed, pastVars,
                 truthVars, failures>>

(* The next window begins, perhaps a day; on a new day nothing is earned. *)
NextWindow ==
  /\ sec + 1 >= Window
  /\ sec' = 0 /\ passed' = TRUE
  /\ bets' = 0 /\ crashes' = 0
  /\ TimePasses
  /\ \/ UNCHANGED <<stored, stats, truthVars>>
     \/ /\ stored' = [stored EXCEPT !.today = FALSE]
        /\ stats' = [stats EXCEPT !.today = FALSE]
        /\ earned' = 0 /\ remembered' = TRUE
  /\ UNCHANGED <<mode, enabled, pc, orderVars, failures>>

(* The dashboard turns a switch on or off. *)
Toggle(key) ==
  /\ enabled' = [enabled EXCEPT ![key] = ~@]
  /\ UNCHANGED <<mode, bookVars, pc, orderVars, timeVars, pastVars, truthVars,
                 failures>>

-----------------------------------------------------------------------------
MomentumNext ==
  \/ Boot \/ Connect \/ LoadStats \/ Begin \/ RecordWindow \/ NoMarket
  \/ Discover \/ DecisionPoint \/ CheckGlobal \/ CheckMomentum \/ Allowed
  \/ Blocked \/ BlockFails \/ NoSignal
  \/ \E side \in Sides, book \in Books : Decide(side, book)
  \/ \E p \in 1 .. MaxEntry : ChunkFilled(p) \/ ChunkThrows(p)
  \/ ChunkKilled
  \/ \E book \in Books : PaperFill(book)
  \/ BetPlaced \/ BetMissed \/ RecordSkip \/ Close
  \/ \E lead \in Leads, outcome \in Sides : RecordTrade(lead, outcome)
  \/ PersistTrade \/ WaitForNextWindow \/ WakeUp
  \/ Crash \/ Tick \/ NextWindow
  \/ \E key \in Switches : Toggle(key)

MomentumSpec == MomentumInit /\ [][MomentumNext]_momentumVars

-----------------------------------------------------------------------------
(* Properties. *)

TypeInv ==
  /\ mode \in Modes
  /\ enabled \in [Switches -> BOOLEAN]
  /\ pc \in {"down", "connect", "load", "begin", "record", "discover", "wait",
             "global", "momentum", "limits", "signal", "execute", "result",
             "skip", "close", "settle", "persist", "next", "asleep"}
  /\ passed \in BOOLEAN /\ sec \in Nat
  /\ bets \in Nat /\ crashes \in Nat /\ failures \in Nat

(* The most a bet may cost. *)
MaxCost == (MaxBet * MaxEntry) \div MinEntry

(* canTrade(): over midnights and restarts a day's real loss passes its    *)
(* limit by less than one bet, as long as the bot was told of every fill   *)
(* and the price agreed with the oracle on every win.                      *)
LossLimitHolds == remembered => earned > -(MaxDailyLoss + MaxCost)

(* config.ts, maxBetUsdc: whatever the books look like, when they move and *)
(* when requests throw, a bet costs no more than the configured one at the *)
(* highest of the entry prices instead of the lowest.                      *)
BetCapHolds == paid <= MaxCost

Total(numbers) ==
  LET sum[i \in 0 .. Len(numbers)] ==
        IF i = 0 THEN 0 ELSE sum[i - 1] + numbers[i]
  IN sum[Len(numbers)]

(* executeChunked(): while chunks are sent, those filled and those to send *)
(* are the whole order, and none is below the exchange's minimum or much   *)
(* above the configured size.                                              *)
ChunksFitOrder ==
  pc = "execute" /\ mode = "live" =>
    /\ filled + Total(chunks) = order.shares
    /\ \A i \in DOMAIN chunks :
         chunks[i] \in MinShares .. MaxOrder + MinShares - 1

(* mainLoop(): one decision in each window, except that a bot that was     *)
(* started again within a window decides again.                            *)
OneBetPerWindow == bets <= 1 + crashes

(* Why these hold.  A bet is as large as was decided, is bought within its  *)
(* limit, and is booked for no less than was paid unless a fill was missed; *)
(* without a bet nothing of one is left ...                                 *)
Betting == {"execute", "result", "close", "settle"}

BetInv ==
  /\ order \in [side : Sides, shares : Nat, limit : 0 .. MaxEntry]
  /\ filled \in Nat /\ cost \in Nat
  /\ bought \in Nat /\ paid \in Nat /\ late \in Nat
  /\ bought = filled + late /\ bought <= order.shares
  /\ paid <= bought * order.limit
  /\ late = 0 => paid <= cost
  /\ order.shares * MaxEntry <= MaxCost
  /\ pc \notin Betting => bought = 0 /\ paid = 0 /\ cost = 0
  /\ pc = "execute" => late = 0
  /\ pc = "execute" /\ mode = "paper" => filled = 0 /\ cost = 0

(* ... what is still to be sent is the split of what is not yet filled ...  *)
ChunkInv ==
  pc = "execute" /\ mode = "live" =>
    /\ order.shares - filled >= MinShares
    /\ chunks = Chunks(order.shares - filled, MaxOrder)

(* ... and the figures of the day are never better than what was earned, so *)
(* that a bet is only made before the limit is reached.                     *)
Figures == [profit : Int, losses : Nat, today : BOOLEAN]

LossInv ==
  /\ stored \in Figures /\ stats \in Figures /\ earned \in Int
  /\ remembered => earned >= Known.profit
  /\ remembered /\ pc \in Betting \cup {"signal"} => earned > -MaxDailyLoss
  /\ LossLimitHolds

IInv == BetInv /\ ChunkInv /\ LossInv
=============================================================================
