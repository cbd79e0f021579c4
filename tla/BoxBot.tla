-------------------------------- MODULE BoxBot --------------------------------
(***************************************************************************)
(* The 5-minute box bot (btc-5m/src): in every window it buys both         *)
(* outcomes of the window's market when they cost less than they pay, in   *)
(* chunks and on both sides at once, within daily limits.                  *)
(*                                                                         *)
(* Sizes count chunks, amounts whole units.  Prices are one per outcome:   *)
(* a box of one chunk each pays Payout.  Midnight may be any window's      *)
(* start; the figures of a day know whether they are today's.              *)
(***************************************************************************)
EXTENDS Integers

CONSTANTS
  Window,                \* ticks of a window
  EntryStart, EntryEnd,  \* config.entryStartSec, entryEndSec
  MaxChunks,             \* what config.maxPositionUsdc allows, in chunks
  Price,                 \* the price of a chunk, by outcome
  Payout,                \* what a chunk of both outcomes pays
  MaxDailyLoss,          \* config.maxDailyLossUsdc
  MaxPartialFills,       \* three partial fills a day
  MaxProfit,             \* bound: no more is offered after such a day
  MaxFailures            \* bound: calls that fail and crashes

Outcomes == {"UP", "DOWN"}
Chunks == 0 .. MaxChunks

ASSUME BoxBotAssumption ==
  /\ Window \in Nat /\ EntryStart \in 0 .. Window /\ EntryEnd \in 0 .. Window
  /\ MaxChunks \in Nat \ {0}
  /\ Price \in [Outcomes -> Nat]
  /\ Payout \in Nat /\ Price["UP"] + Price["DOWN"] < Payout
  /\ MaxDailyLoss \in Nat \ {0} /\ MaxPartialFills \in Nat \ {0}
  /\ MaxProfit \in Nat /\ MaxFailures \in Nat

VARIABLES
  enabled,               \* Redis: both switches, the bot's own may be missing
  stored,                \* Redis: the figures of the day in STATS_KEY
  stats,                 \* memory: the same
  pc,                    \* where start() and processWindow() are
  traded,                \* memory: this window has been traded
  shares,                \* the decision in hand, in chunks
  left, filled, result,  \* executeOneSide(): chunks to go, filled, outcome
  sec,                   \* time: ticks into the current window
  passed,                \* time: the window that was current has ended
  bought,                \* exchange: chunks filled for the decision in hand
  clean,                 \* history: no request of this decision has failed
  begun,                 \* history: a window has begun since the last market
  entries,               \* history: this process's bookings of that market
  ledger,                \* history: every figure booked on this day
  remembered,            \* history: none of them has been lost since
  failures               \* counter for the bound

sideVars  == <<left, filled, result, bought, clean>>
timeVars  == <<sec, passed>>
bookVars  == <<begun, entries, ledger, remembered>>
memoryVars == <<stats, traded, shares>>
botVars == <<enabled, stored, pc, memoryVars, sideVars, timeVars, bookVars,
             failures>>

Switches == {"global", "btc5m"}

(* The figures of a day; today is FALSE when their date is an earlier one. *)
Figures == [profit : Int, partials : Nat, today : BOOLEAN]
NoFigures == [profit |-> 0, partials |-> 0, today |-> TRUE]

(* checkDailyReset() *)
Reset(figures) == IF figures.today THEN figures ELSE NoFigures

Booked(figures, profit, partial) ==
  [profit |-> figures.profit + profit,
   partials |-> figures.partials + (IF partial THEN 1 ELSE 0),
   today |-> figures.today]

-----------------------------------------------------------------------------
(* Helpers. *)

GoTo(from, to) == pc = from /\ pc' = to

Fails == failures < MaxFailures /\ failures' = failures + 1

(* The window in hand can still be entered. *)
Open == ~passed /\ sec < EntryEnd

(* The condition of the scan loop. *)
Scanning == ~traded /\ Open

NoChunks == [o \in Outcomes |-> 0]
NoResult == [o \in Outcomes |-> "none"]

(* The variables of a decision go out of scope. *)
DecisionOver ==
  /\ shares' = 0
  /\ left' = NoChunks /\ filled' = NoChunks /\ result' = NoResult
  /\ bought' = NoChunks /\ clean' = TRUE

BoxBotInit ==
  /\ enabled \in [Switches -> {"TRUE", "FALSE", "missing"}]
  /\ enabled["global"] # "missing"      \* to every reader that is FALSE
  /\ stored = NoFigures /\ stats = NoFigures
  /\ pc = "down"
  /\ traded = FALSE /\ shares = 0
  /\ left = NoChunks /\ filled = NoChunks /\ result = NoResult
  /\ sec = 0 /\ passed = FALSE
  /\ bought = NoChunks /\ clean = TRUE
  /\ begun = FALSE /\ entries = 0 /\ ledger = NoFigures /\ remembered = TRUE
  /\ failures = 0

-----------------------------------------------------------------------------
(* RiskManager.initialize() *)

(* The container starts the process; the constructor's figures are zero. *)
Boot ==
  /\ GoTo("down", "load")
  /\ stats' = NoFigures
  /\ entries' = 0
  /\ UNCHANGED <<enabled, stored, traded, shares, sideVars, timeVars, begun,
                 ledger, remembered, failures>>

LoadStats ==
  /\ GoTo("load", "switch")
  /\ stats' = Reset(stored)
  /\ UNCHANGED <<enabled, stored, traded, shares, sideVars, timeVars, bookVars,
                 failures>>

(* A switch that is missing is turned on. *)
EnsureSwitch ==
  /\ GoTo("switch", "begin")
  /\ enabled' = IF enabled["btc5m"] = "missing"
                THEN [enabled EXCEPT !["btc5m"] = "TRUE"] ELSE enabled
  /\ UNCHANGED <<stored, stats, traded, shares, sideVars, timeVars, bookVars,
                 failures>>

(* Where Redis fails, the bot goes on with what it has: at first nothing. *)
InitializeFails ==
  /\ pc \in {"load", "switch"}
  /\ pc' = "begin"
  /\ Fails
  /\ remembered' = (remembered /\ pc = "switch")
  /\ UNCHANGED <<enabled, stored, stats, traded, shares, sideVars, timeVars,
                 begun, entries, ledger>>

-----------------------------------------------------------------------------
(* processWindow(): the market and the time to enter it. *)

(* The market is that of the window which is current now. *)
Discover ==
  /\ GoTo("begin", "entry")
  /\ traded' = FALSE
  /\ passed' = FALSE
  /\ entries' = IF begun THEN 0 ELSE entries
  /\ begun' = FALSE
  /\ UNCHANGED <<enabled, stored, stats, shares, sideVars, sec, ledger,
                 remembered, failures>>

(* Without a market the window is skipped; so it is when it is too late. *)
NoMarket ==
  /\ GoTo("begin", "skip")
  /\ UNCHANGED <<enabled, stored, memoryVars, sideVars, timeVars, bookVars,
                 failures>>

Enter ==
  /\ pc = "entry"
  /\ passed \/ sec >= EntryStart
  /\ pc' = IF Open THEN "loop" ELSE "skip"
  /\ UNCHANGED <<enabled, stored, stats, traded, shares, sideVars, timeVars,
                 bookVars, failures>>

-----------------------------------------------------------------------------
(* The scan loop: canTrade(), then the two books. *)

(* A switch counts as on when it reads TRUE; the loop breaks off otherwise, *)
(* also when Redis does not answer.                                         *)
CheckSwitch(key, from, to) ==
  /\ pc = from
  /\ \/ enabled[key] = "TRUE" /\ pc' = to /\ UNCHANGED failures
     \/ enabled[key] # "TRUE" /\ pc' = "close" /\ UNCHANGED failures
     \/ Fails /\ pc' = "close"
  /\ UNCHANGED <<enabled, stored, memoryVars, sideVars, timeVars, bookVars>>

CheckGlobal == Scanning /\ CheckSwitch("global", "loop", "btcSwitch")
CheckBtc == CheckSwitch("btc5m", "btcSwitch", "limits")

LoopEnds ==
  /\ GoTo("loop", "close")
  /\ ~Scanning
  /\ UNCHANGED <<enabled, stored, memoryVars, sideVars, timeVars, bookVars,
                 failures>>

(* Mutant: three partial fills are allowed before the fourth is refused. *)
MorePartials == Reset(stats).partials > MaxPartialFills

(* Mutant: the day's result is compared without its sign. *)
ProfitReached == Reset(stats).profit >= MaxDailyLoss

LossReached == Reset(stats).profit <= -MaxDailyLoss
PartialsReached == Reset(stats).partials >= MaxPartialFills

WithinLimits ==
  /\ GoTo("limits", "scan")
  /\ ~LossReached /\ ~PartialsReached
  /\ stats' = Reset(stats)
  /\ UNCHANGED <<enabled, stored, traded, shares, sideVars, timeVars, bookVars,
                 failures>>

(* The daily loss turns the bot's own switch off; nothing here turns it on *)
(* again.  The partial fills only end this window's loop.                  *)
LimitReached ==
  /\ GoTo("limits", "close")
  /\ LossReached \/ PartialsReached
  /\ stats' = Reset(stats)
  /\ enabled' = IF LossReached THEN [enabled EXCEPT !["btc5m"] = "FALSE"]
                               ELSE enabled
  /\ UNCHANGED <<stored, traded, shares, sideVars, timeVars, bookVars,
                 failures>>

(* If Redis refuses that, the window is given up. *)
LimitFails ==
  /\ GoTo("limits", "next")
  /\ LossReached
  /\ Fails
  /\ stats' = Reset(stats)
  /\ UNCHANGED <<enabled, stored, traded, shares, sideVars, timeVars, bookVars>>

(* scan() finds n chunks that are worth it; getMaxPositionUsdc() can only  *)
(* lower the configured cap.                                               *)
ScanFinds(n) ==
  /\ GoTo("scan", "execute")
  /\ ledger.profit < MaxProfit
  /\ shares' = n
  /\ left' = [o \in Outcomes |-> n]
  /\ filled' = NoChunks /\ result' = NoResult
  /\ bought' = NoChunks /\ clean' = TRUE
  /\ UNCHANGED <<enabled, stored, stats, traded, timeVars, bookVars, failures>>

(* Nothing worth it, or a book that cannot be read: the next scan follows. *)
ScanNothing ==
  /\ GoTo("scan", "loop")
  /\ UNCHANGED <<enabled, stored, memoryVars, sideVars, timeVars, bookVars,
                 failures>>

-----------------------------------------------------------------------------
(* executeDual(): executeOneSide() of both outcomes at once, each one      *)
(* order after the other.                                                  *)

Ordering(o) == pc = "execute" /\ result[o] = "none"

OrderFilled(o) ==
  /\ Ordering(o)
  /\ bought' = [bought EXCEPT ![o] = @ + 1]
  /\ filled' = [filled EXCEPT ![o] = @ + 1]
  /\ left' = [left EXCEPT ![o] = @ - 1]
  /\ result' = [result EXCEPT ![o] = IF left[o] = 1 THEN "success" ELSE @]
  /\ UNCHANGED <<enabled, stored, pc, memoryVars, clean, timeVars, bookVars,
                 failures>>

(* Mutant: a refused chunk leaves the side a success if another was filled.  *)
AnyChunkSucceeds(o) ==
  /\ Ordering(o)
  /\ result' = [result EXCEPT ![o] = IF filled[o] > 0 THEN "success"
                                                     ELSE "failure"]
  /\ UNCHANGED <<enabled, stored, pc, memoryVars, left, filled, bought, clean,
                 timeVars, bookVars, failures>>

(* A refusal ends the side; only all chunks together are a success. *)
OrderKilled(o) ==
  /\ Ordering(o)
  /\ result' = [result EXCEPT ![o] = "failure"]
  /\ UNCHANGED <<enabled, stored, pc, memoryVars, left, filled, bought, clean,
                 timeVars, bookVars, failures>>

(* A request that throws ends the side too, but there a side of several    *)
(* chunks is a success if any of them was filled.  The order may be filled *)
(* all the same.                                                           *)
OrderThrows(o) ==
  /\ Ordering(o)
  /\ Fails
  /\ result' = [result EXCEPT ![o] = IF shares > 1 /\ filled[o] > 0
                                     THEN "success" ELSE "failure"]
  /\ \E late \in {0, 1} : bought' = [bought EXCEPT ![o] = @ + late]
  /\ clean' = FALSE
  /\ UNCHANGED <<enabled, stored, pc, memoryVars, left, filled, timeVars,
                 bookVars>>

-----------------------------------------------------------------------------
(* What comes of it. *)

Executed == pc = "execute" /\ \A o \in Outcomes : result[o] # "none"
Successes == {o \in Outcomes : result[o] = "success"}

(* Neither side: nothing is booked, and the loop goes on. *)
BothFail ==
  /\ Executed /\ Successes = {}
  /\ pc' = "loop"
  /\ DecisionOver
  /\ UNCHANGED <<enabled, stored, stats, traded, timeVars, bookVars, failures>>

(* Both sides: the profit that was computed; one side: what it has cost. *)
Profit ==
  IF Successes = Outcomes
  THEN (Payout - Price["UP"] - Price["DOWN"]) * shares
  ELSE IF "UP" \in Successes THEN -(Price["UP"] * filled["UP"])
                             ELSE -(Price["DOWN"] * filled["DOWN"])

(* recordArbTrade(), up to its first await. *)
RecordArbTrade ==
  /\ Executed /\ Successes # {}
  /\ stats' = Booked(Reset(stats), Profit, Successes # Outcomes)
  /\ ledger' = Booked(ledger, Profit, Successes # Outcomes)
  /\ entries' = entries + 1
  /\ pc' = "persist"
  /\ DecisionOver
  /\ UNCHANGED <<enabled, stored, traded, timeVars, begun, remembered, failures>>

(* persistStats(): an error is logged and forgotten. *)
PersistStats ==
  /\ GoTo("persist", "publish")
  /\ \/ stored' = stats /\ UNCHANGED failures
     \/ Fails /\ UNCHANGED stored
  /\ UNCHANGED <<enabled, memoryVars, sideVars, timeVars, bookVars>>

Publish ==
  /\ GoTo("publish", "loop")
  /\ traded' = TRUE
  /\ UNCHANGED <<enabled, stored, stats, shares, sideVars, timeVars, bookVars,
                 failures>>

(* An error of publish, lpush or ltrim leaves processWindow(). *)
PublishFails ==
  /\ GoTo("publish", "next")
  /\ Fails
  /\ UNCHANGED <<enabled, stored, memoryVars, sideVars, timeVars, bookVars>>

(* recordSkip(), unless traded, and recordWindow() write the figures again; *)
(* either may fail, as may the window's own hash that follows.              *)
CloseWindow ==
  /\ GoTo("close", "next")
  /\ \/ stored' = stats /\ UNCHANGED failures
     \/ Fails /\ stored' \in {stored, stats}
  /\ UNCHANGED <<enabled, memoryVars, sideVars, timeVars, bookVars>>

RecordSkip ==
  /\ GoTo("skip", "next")
  /\ \/ stored' = stats /\ UNCHANGED failures
     \/ Fails /\ UNCHANGED stored
  /\ UNCHANGED <<enabled, memoryVars, sideVars, timeVars, bookVars>>

(* waitForNextWindow(): the window that follows the present one. *)
WaitForNextWindow ==
  /\ GoTo("next", "asleep")
  /\ passed' = FALSE
  /\ UNCHANGED <<enabled, stored, memoryVars, sideVars, sec, bookVars,
                 failures>>

(* Mutant: the loop looks for the first second of a window. *)
WakeUpOnTime ==
  /\ GoTo("asleep", "begin")
  /\ passed /\ sec = 0
  /\ UNCHANGED <<enabled, stored, memoryVars, sideVars, timeVars, bookVars,
                 failures>>

WakeUp ==
  /\ GoTo("asleep", "begin")
  /\ passed
  /\ UNCHANGED <<enabled, stored, memoryVars, sideVars, timeVars, bookVars,
                 failures>>

-----------------------------------------------------------------------------
(* The environment. *)

(* The process ends anywhere; what was not stored is gone. *)
Crash ==
  /\ pc # "down"
  /\ Fails
  /\ pc' = "down"
  /\ remembered' = (remembered /\ (pc = "load" \/ Reset(stored) = Reset(stats)))
  /\ DecisionOver
  /\ UNCHANGED <<enabled, stored, stats, traded, timeVars, begun, entries,
                 ledger>>

Tick ==
  /\ sec + 1 < Window
  /\ sec' = sec + 1
  /\ UNCHANGED <<enabled, stored, pc, memoryVars, sideVars, passed, bookVars,
                 failures>>

(* The next window begins, perhaps a day; on a new day nothing is booked. *)
NextWindow ==
  /\ sec + 1 >= Window
  /\ sec' = 0
  /\ passed' = TRUE /\ begun' = TRUE
  /\ \/ UNCHANGED <<stored, stats, ledger, remembered>>
     \/ /\ stored' = [stored EXCEPT !.today = FALSE]
        /\ stats' = [stats EXCEPT !.today = FALSE]
        /\ ledger' = NoFigures
        /\ remembered' = TRUE
  /\ UNCHANGED <<enabled, pc, traded, shares, sideVars, entries, failures>>

(* The dashboard turns a switch on or off. *)
Toggle(key) ==
  /\ \E value \in {"TRUE", "FALSE"} : enabled' = [enabled EXCEPT ![key] = value]
  /\ UNCHANGED <<stored, pc, memoryVars, sideVars, timeVars, bookVars, failures>>

-----------------------------------------------------------------------------
Bot ==
  \/ Boot \/ LoadStats \/ EnsureSwitch \/ Discover \/ NoMarket \/ Enter
  \/ CheckGlobal \/ CheckBtc \/ LoopEnds \/ WithinLimits \/ LimitReached
  \/ ScanNothing \/ \E n \in Chunks \ {0} : ScanFinds(n)
  \/ \E o \in Outcomes : OrderFilled(o) \/ OrderKilled(o)
  \/ BothFail \/ RecordArbTrade \/ PersistStats \/ Publish
  \/ CloseWindow \/ RecordSkip \/ WaitForNextWindow \/ WakeUp

BoxBotNext ==
  \/ Bot
  \/ InitializeFails \/ LimitFails \/ PublishFails \/ Crash
  \/ \E o \in Outcomes : OrderThrows(o)
  \/ Tick \/ NextWindow
  \/ \E key \in Switches : Toggle(key)

BoxBotSpec == BoxBotInit /\ [][BoxBotNext]_botVars

(* Every request of the bot ends, at the latest with its timeout; its      *)
(* container is started again (unless-stopped); and time passes.           *)
BoxBotFairSpec ==
  BoxBotSpec /\ WF_botVars(Bot) /\ WF_botVars(Tick \/ NextWindow)

-----------------------------------------------------------------------------
(* Properties. *)

TypeInv ==
  /\ enabled \in [Switches -> {"TRUE", "FALSE", "missing"}]
  /\ stored \in Figures /\ stats \in Figures /\ ledger \in Figures
  /\ pc \in {"down", "load", "switch", "begin", "entry", "skip", "loop",
             "btcSwitch", "limits", "scan", "execute", "persist", "publish",
             "close", "next", "asleep"}
  /\ traded \in BOOLEAN /\ clean \in BOOLEAN
  /\ passed \in BOOLEAN /\ begun \in BOOLEAN /\ remembered \in BOOLEAN
  /\ shares \in Chunks
  /\ left \in [Outcomes -> Chunks] /\ filled \in [Outcomes -> Chunks]
  /\ result \in [Outcomes -> {"none", "success", "failure"}]
  /\ bought \in [Outcomes -> Nat]
  /\ sec \in Nat /\ entries \in Nat /\ failures \in Nat

(* What the bot knows of the day: what Redis holds until it has loaded it. *)
Known == Reset(IF pc \in {"down", "load"} THEN stored ELSE stats)

(* What the dearer side costs in full: the most that a partial fill loses. *)
Dearer == IF Price["UP"] > Price["DOWN"] THEN Price["UP"] ELSE Price["DOWN"]
MaxTradeLoss == MaxChunks * Dearer

(* What is remembered is the day's ledger, and a decision is made only     *)
(* within the limits.                                                      *)
LimitInv ==
  /\ ledger.today
  /\ remembered => Known = ledger
  /\ remembered /\ pc \in {"scan", "execute"} =>
       ledger.profit > -MaxDailyLoss /\ ledger.partials < MaxPartialFills
  /\ remembered =>
       /\ ledger.profit > -(MaxDailyLoss + MaxTradeLoss)
       /\ ledger.partials <= MaxPartialFills

(* Each side of the decision in hand: its chunks add up. *)
SideInv ==
  pc = "execute" =>
    \A o \in Outcomes :
      /\ left[o] + filled[o] = shares
      /\ result[o] = "none" => left[o] > 0 /\ bought[o] = filled[o]
      /\ clean => bought[o] = filled[o]
      /\ clean => (result[o] = "success" <=> left[o] = 0)

(* A market is booked once; a window that ends makes room for the next.    *)
EntryInv ==
  /\ entries <= 1
  /\ passed => begun
  /\ pc \in {"load", "switch"} => entries = 0
  /\ pc = "begin" => begun \/ entries = 0
  /\ pc \in {"entry", "btcSwitch", "limits", "scan", "execute"} => entries = 0
  /\ pc = "loop" => traded \/ entries = 0

BoxBotInv == TypeInv /\ LimitInv /\ SideInv /\ EntryInv

(* The day's limits (canTrade()) hold for everything booked on a day, over *)
(* midnight and over restarts: a loss beyond the limit is less than what    *)
(* one side costs, and there are at most three partial fills.  The figures may be *)
(* forgotten when Redis fails and the process ends, and only then.         *)
DailyLimitsHold ==
  remembered =>
    /\ ledger.profit > -(MaxDailyLoss + MaxTradeLoss)
    /\ ledger.partials <= MaxPartialFills

(* While no request throws, executeOneSide() tells each side right: it is  *)
(* a success exactly if all its shares were bought.  So what is booked as  *)
(* a box is one, and what is booked as a partial fill is one whole side.   *)
SidesAreToldRight ==
  Executed /\ clean =>
    \A o \in Outcomes : o \in Successes <=> bought[o] = shares

(* A process books at most one trade in a market, although publishing it   *)
(* may fail, the window's end may pass meanwhile, and the next round may   *)
(* begin early.                                                            *)
OneEntryPerWindow == entries <= 1

(* Whatever fails, the bot comes to its next window. *)
WindowsGoOn == []<>(pc = "begin")

(* index.ts:3, "Buys both UP and DOWN tokens ... for guaranteed profit":   *)
(* when a profit is booked, both sides have been bought.                   *)
GuaranteedProfitIsHedged ==
  Executed /\ Successes = Outcomes =>
    \A o \in Outcomes : bought[o] >= shares
=============================================================================
