---------------------------- MODULE AlphaExecutor ----------------------------
(***************************************************************************)
(* The alpha executor (alpha-executor/src): signals of the crypto and      *)
(* sports generators arrive on a channel; each is sized by Kelly's formula *)
(* and the risk limits, bought in chunks, and recorded as a position.      *)
(*                                                                         *)
(* As in ExecutionEngine every message has a handler of its own, nothing   *)
(* serialises the handlers, and an action is the code between two awaits.  *)
(* All Redis commands of the service go over one connection and a batch of *)
(* commands is answered in order, so a Promise.all of reads is one step.   *)
(*                                                                         *)
(* Money is counted in units of the price of a share.  The code rounds     *)
(* sizes down to whole dollars and then to whole shares, the model to      *)
(* whole units.  Percentages are the code's; amounts are compared after    *)
(* multiplying by 100.                                                     *)
(***************************************************************************)
EXTENDS Integers, FiniteSets

CONSTANTS
  Signals,             \* the signals the generators may publish, each once
  Markets,
  MarketOf,            \* the market of each signal
  SourceOf,            \* the vertical of each market: its signals' source
  StartCost,           \* per market: cost of a position held at first, or 0
  StartExposure,       \* positions:total_exposure at first
  Balances,            \* what safe:balance:usdce may be, whenever it is read
  DailyLosses,         \* what portfolio:daily_loss may be
  LatencyVolumes,      \* what the latency bot's dailyVolume may be
  Phase2Threshold, Phase3Threshold,
  WindowsForPhase2, WindowsForPhase3,
  MaxOrderShares,
  MaxRestarts          \* bound: how often the container is restarted

Sources == {"crypto", "sports"}   \* the two generators of the platform

ASSUME AlphaSignalsAssumption ==
  /\ IsFiniteSet(Signals)
  /\ MarketOf \in [Signals -> Markets]
  /\ SourceOf \in [Markets -> Sources]
ASSUME AlphaNumbersAssumption ==
  /\ StartCost \in [Markets -> Nat]
  /\ Balances \cup DailyLosses \cup LatencyVolumes \subseteq Nat
  /\ {StartExposure, Phase2Threshold, Phase3Threshold, WindowsForPhase2,
      WindowsForPhase3, MaxRestarts} \subseteq Nat
  /\ MaxOrderShares \in Nat \ {0}

VARIABLES
  enabled,             \* Redis: TRADING_ENABLED and ALPHA_TRADING_ENABLED
  exposure,            \* Redis: positions:total_exposure
  peak,                \* Redis: portfolio:peak_capital, 0 when missing
  windows,             \* Redis: alpha:stats totalWindowsTraded
  position,            \* Redis: cost of the open position per market, or 0
  byVertical,          \* Redis: the markets listed under each source
  positionRows,        \* SQLite: signals with a row in positions
  isRunning, up,       \* of the process
  recentSignals,       \* the markets the duplicate filter remembers
  handler,             \* per signal: where its message handler is
  snap,                \* per signal: the portfolio state it has read
  toRead, sum,         \* per signal: progress of getVerticalExposure()
  reserved,            \* per signal: the latency bot's volume it has read
  size, remaining, filled,  \* per signal, in shares
  chunk, order,        \* per signal: the request under way
  bought,              \* per signal: shares the exchange has filled
  restarts

redisVars   == <<exposure, peak, windows, position, byVertical>>
processVars == <<isRunning, up>>
readVars    == <<snap, toRead, sum, reserved>>
tradeVars   == <<size, remaining, filled>>
orderVars   == <<chunk, order, bought>>
vars == <<enabled, redisVars, positionRows, processVars, recentSignals,
          handler, readVars, tradeVars, orderVars, restarts>>

Phases == 1 .. 3
Snapshots == [balance : Nat, exposure : Nat, peak : Nat, dailyLoss : Nat,
              phase : Phases]
NoSnapshot == [balance |-> 0, exposure |-> 0, peak |-> 0, dailyLoss |-> 0,
               phase |-> 1]

HandlerStates == {"unsent", "switches", "portfolio", "validate", "position",
                  "listOpen", "sumOpen", "listVertical", "sumVertical", "caps",
                  "loop", "send", "await", "filled", "open", "expose", "index",
                  "persist", "peak", "raise", "count", "done"}
Recording == {"open", "expose", "index", "persist", "peak", "raise", "count"}
Trading   == {"loop", "send", "await", "filled"} \cup Recording

TypeOK ==
  /\ enabled \in BOOLEAN
  /\ exposure \in Nat
  /\ peak \in Nat
  /\ windows \in Nat
  /\ position \in [Markets -> Nat]
  /\ byVertical \in [Sources -> SUBSET Markets]
  /\ positionRows \in SUBSET Signals
  /\ isRunning \in BOOLEAN
  /\ up \in BOOLEAN
  /\ recentSignals \in SUBSET Markets
  /\ handler \in [Signals -> HandlerStates]
  /\ snap \in [Signals -> Snapshots]
  /\ toRead \in [Signals -> SUBSET Markets]
  /\ sum \in [Signals -> Nat]
  /\ reserved \in [Signals -> Nat]
  /\ size \in [Signals -> Nat]
  /\ remaining \in [Signals -> Nat]
  /\ filled \in [Signals -> Nat]
  /\ chunk \in [Signals -> Nat]
  /\ order \in [Signals -> {"none", "sent", "filled", "refused"}]
  /\ bought \in [Signals -> Nat]
  /\ restarts \in 0 .. MaxRestarts

-----------------------------------------------------------------------------
(* The limits (risk-manager.ts, shared/src/alpha-types.ts).  Percentages.   *)

MaxPerTrade == <<10, 20, 30>>       \* PHASE_CONFIGS, by phase
MaxExposure == <<40, 60, 70>>
MaxDrawdown == <<15, 20, 25>>
VerticalCaps == [crypto |-> 50, sports |-> 40]
PerMarketCap == 30
DailyLossLimit == 10

Lesser(a, b) == IF a < b THEN a ELSE b

DeterminePhase(capital, traded) ==
  IF capital >= Phase3Threshold
    THEN IF traded < WindowsForPhase3 THEN 2 ELSE 3
  ELSE IF capital >= Phase2Threshold /\ traded >= WindowsForPhase2 THEN 2
  ELSE 1

(* Kelly's bet: some fraction of the available capital, at most the phase's *)
(* share of it; confidence, price and liquidity choose it.                  *)
BetSizes(p) ==
  LET available == IF p.balance > p.exposure THEN p.balance - p.exposure ELSE 0
  IN  0 .. (available * MaxPerTrade[p.phase]) \div 100

(* checkDrawdown and checkDailyLoss; a portfolio without a peak has none. *)
LossesAllow(p) ==
  /\ p.peak > 0 => (100 - MaxDrawdown[p.phase]) * p.peak < 100 * p.balance
  /\ 100 * p.dailyLoss <= DailyLossLimit * p.balance

(* checkDailyLossWithUnrealized: half of the open sports exposure is taken  *)
(* as lost.                                                                 *)
UnrealizedAllows(p, open) ==
  100 * p.dailyLoss + 50 * open <= DailyLossLimit * p.balance \/ open = 0

(* checkVerticalExposureCap: what is open already, without this trade. *)
VerticalAllows(p, source, open) == 100 * open < VerticalCaps[source] * p.balance

(* checkExposureCap: a hundredfold of the room the exposure cap leaves. *)
Effective(p, volume) == IF p.balance > volume THEN p.balance - volume ELSE 0
Room(p, volume) == MaxExposure[p.phase] * Effective(p, volume) - 100 * p.exposure

(* Mutant: a trade that is larger than the room is let through as it is. *)
AllowedUnshrunk(p, bet, volume) ==
  LET perTrade == Lesser(bet, (MaxPerTrade[p.phase] * p.balance) \div 100)
  IN  IF 100 * bet > PerMarketCap * p.balance \/ Room(p, volume) <= 0 THEN 0
      ELSE perTrade

(* runAllChecks: the per-market and per-trade caps, then the exposure cap,  *)
(* which may shrink the trade, but not below half the per-trade cap.  0     *)
(* stands for a rejection.                                                  *)
AllowedSize(p, bet, volume) ==
  LET perTrade == Lesser(bet, (MaxPerTrade[p.phase] * p.balance) \div 100)
      room     == Room(p, volume)
      tooSmall == 2 * room < MaxPerTrade[p.phase] * Effective(p, volume)
  IN  IF 100 * bet > PerMarketCap * p.balance \/ room <= 0 THEN 0
      ELSE IF 100 * perTrade <= room THEN perTrade
      ELSE IF tooSmall THEN 0
      ELSE room \div 100

-----------------------------------------------------------------------------
Init ==
  /\ enabled \in BOOLEAN
  /\ exposure = StartExposure
  /\ peak = 0
  /\ windows = 0
  /\ position = StartCost
  /\ byVertical = [v \in Sources |->
                     {m \in Markets : StartCost[m] > 0 /\ SourceOf[m] = v}]
  /\ positionRows = {}
  /\ isRunning = TRUE
  /\ up = TRUE
  /\ recentSignals = {}
  /\ handler = [s \in Signals |-> "unsent"]
  /\ snap = [s \in Signals |-> NoSnapshot]
  /\ toRead = [s \in Signals |-> {}]
  /\ sum = [s \in Signals |-> 0]
  /\ reserved = [s \in Signals |-> 0]
  /\ size = [s \in Signals |-> 0]
  /\ remaining = [s \in Signals |-> 0]
  /\ filled = [s \in Signals |-> 0]
  /\ chunk = [s \in Signals |-> 0]
  /\ order = [s \in Signals |-> "none"]
  /\ bought = [s \in Signals |-> 0]
  /\ restarts = 0

-----------------------------------------------------------------------------
(* The message handler, up to the decision. *)

Advance(s, from, to) ==
  /\ handler[s] = from
  /\ handler' = [handler EXCEPT ![s] = to]

(* A generator publishes; the message is lost when nobody listens and       *)
(* dropped when the service is stopping.                                    *)
Publish(s) ==
  /\ Advance(s, "unsent", IF up /\ isRunning THEN "switches" ELSE "done")
  /\ UNCHANGED <<enabled, redisVars, positionRows, processVars, recentSignals,
                 readVars, tradeVars, orderVars, restarts>>

(* The only look at the switches. *)
CheckSwitches(s) ==
  /\ Advance(s, "switches", IF enabled THEN "portfolio" ELSE "done")
  /\ UNCHANGED <<enabled, redisVars, positionRows, processVars, recentSignals,
                 readVars, tradeVars, orderVars, restarts>>

(* The five reads behind the portfolio state; no peak yet means the balance *)
(* is the peak.                                                             *)
ReadPortfolio(s) ==
  /\ Advance(s, "portfolio", "validate")
  /\ \E b \in Balances, loss \in DailyLosses :
       snap' = [snap EXCEPT ![s] =
                  [balance |-> b, exposure |-> exposure,
                   peak |-> IF peak = 0 THEN b ELSE peak,
                   dailyLoss |-> loss,
                   phase |-> DeterminePhase(b, windows)]]
  /\ UNCHANGED <<enabled, redisVars, positionRows, processVars, recentSignals,
                 toRead, sum, reserved, tradeVars, orderVars, restarts>>

(* validateSignal() may find the signal stale or without edge; isDuplicate()*)
(* asks the filter, which handlers enter only when they have decided.       *)
Validate(s) ==
  /\ \/ /\ MarketOf[s] \notin recentSignals
        /\ Advance(s, "validate", "position")
     \/ Advance(s, "validate", "done")
  /\ UNCHANGED <<enabled, redisVars, positionRows, processVars, recentSignals,
                 readVars, tradeVars, orderVars, restarts>>

(* hasPosition(), the bet's size, and the loss limits that need no more.    *)
(* Only a sports signal goes on to look at the open sports exposure.        *)
CheckPosition(s) ==
  /\ \/ /\ position[MarketOf[s]] = 0
        /\ LossesAllow(snap[s])
        /\ \E bet \in BetSizes(snap[s]) \ {0} : size' = [size EXCEPT ![s] = bet]
        /\ Advance(s, "position", IF SourceOf[MarketOf[s]] = "sports"
                                    THEN "listOpen" ELSE "listVertical")
     \/ /\ Advance(s, "position", "done")
        /\ UNCHANGED size
  /\ UNCHANGED <<enabled, redisVars, positionRows, processVars, recentSignals,
                 readVars, remaining, filled, orderVars, restarts>>

(* getVerticalExposure(): the members of the set ...                        *)
ListVertical(s) ==
  /\ \/ Advance(s, "listOpen", "sumOpen")
     \/ Advance(s, "listVertical", "sumVertical")
  /\ toRead' = [toRead EXCEPT ![s] = byVertical[SourceOf[MarketOf[s]]]]
  /\ sum' = [sum EXCEPT ![s] = 0]
  /\ UNCHANGED <<enabled, redisVars, positionRows, processVars, recentSignals,
                 snap, reserved, tradeVars, orderVars, restarts>>

(* ... and the cost of each position, one read at a time. *)
ReadCost(s) ==
  /\ handler[s] \in {"sumOpen", "sumVertical"}
  /\ \E m \in toRead[s] :
       /\ toRead' = [toRead EXCEPT ![s] = @ \ {m}]
       /\ sum' = [sum EXCEPT ![s] = @ + position[m]]
  /\ UNCHANGED <<enabled, redisVars, positionRows, processVars, recentSignals,
                 handler, snap, reserved, tradeVars, orderVars, restarts>>

CheckUnrealized(s) ==
  /\ toRead[s] = {}
  /\ Advance(s, "sumOpen", IF UnrealizedAllows(snap[s], sum[s])
                             THEN "listVertical" ELSE "done")
  /\ UNCHANGED <<enabled, redisVars, positionRows, processVars, recentSignals,
                 readVars, tradeVars, orderVars, restarts>>

CheckVertical(s) ==
  /\ toRead[s] = {}
  /\ Advance(s, "sumVertical",
             IF VerticalAllows(snap[s], SourceOf[MarketOf[s]], sum[s])
               THEN "caps" ELSE "done")
  /\ UNCHANGED <<enabled, redisVars, positionRows, processVars, recentSignals,
                 readVars, tradeVars, orderVars, restarts>>

(* The rest of runAllChecks(), whose read of the latency bot's volume may   *)
(* fail and then counts as 0; recordSignal(); and the number of shares.     *)
DecideSize(s) ==
  \E volume \in LatencyVolumes \cup {0} :
    LET n == AllowedSize(snap[s], size[s], volume) IN
    /\ Advance(s, "caps", IF n > 0 THEN "loop" ELSE "done")
    /\ reserved' = [reserved EXCEPT ![s] = volume]
    /\ size' = [size EXCEPT ![s] = n]
    /\ remaining' = [remaining EXCEPT ![s] = n]
    /\ recentSignals' = IF n > 0 THEN recentSignals \cup {MarketOf[s]}
                                 ELSE recentSignals
    /\ UNCHANGED <<enabled, redisVars, positionRows, processVars, snap, toRead,
                   sum, filled, orderVars, restarts>>

-----------------------------------------------------------------------------
(* The chunk loop. *)

(* while (remainingShares > 0 && isRunning): the next chunk.  Signing it    *)
(* may throw, which breaks the loop.                                        *)
NextChunk(s) ==
  /\ remaining[s] > 0
  /\ isRunning
  /\ Advance(s, "loop", "send") \/ Advance(s, "loop", "filled")
  /\ chunk' = [chunk EXCEPT ![s] = Lesser(remaining[s], MaxOrderShares)]
  /\ UNCHANGED <<enabled, redisVars, positionRows, processVars, recentSignals,
                 readVars, tradeVars, order, bought, restarts>>

EndLoop(s) ==
  /\ remaining[s] = 0 \/ ~ isRunning
  /\ Advance(s, "loop", "filled")
  /\ UNCHANGED <<enabled, redisVars, positionRows, processVars, recentSignals,
                 readVars, tradeVars, orderVars, restarts>>

(* submitOrder(): once the rate limiter lets it through. *)
SubmitOrder(s) ==
  /\ Advance(s, "send", "await")
  /\ order' = [order EXCEPT ![s] = "sent"]
  /\ UNCHANGED <<enabled, redisVars, positionRows, processVars, recentSignals,
                 readVars, tradeVars, chunk, bought, restarts>>

ChunkFilled(s) ==
  /\ order[s] = "filled"
  /\ Advance(s, "await", "loop")
  /\ filled' = [filled EXCEPT ![s] = @ + chunk[s]]
  /\ remaining' = [remaining EXCEPT ![s] = @ - chunk[s]]
  /\ UNCHANGED <<enabled, redisVars, positionRows, processVars, recentSignals,
                 readVars, size, orderVars, restarts>>

(* Mutant: a chunk that was not answered is tried again. *)
RetryChunk(s) ==
  /\ Advance(s, "await", "loop")
  /\ order' = [order EXCEPT ![s] = "none"]
  /\ UNCHANGED <<enabled, redisVars, positionRows, processVars, recentSignals,
                 readVars, tradeVars, chunk, bought, restarts>>

(* Mutant: a chunk that was not answered counts as filled. *)
CountUnanswered(s) ==
  /\ Advance(s, "await", "filled")
  /\ filled' = [filled EXCEPT ![s] = @ + chunk[s]]
  /\ UNCHANGED <<enabled, redisVars, positionRows, processVars, recentSignals,
                 readVars, size, remaining, orderVars, restarts>>

(* The exchange refuses, the answer is lost, or the client's timeout fires: *)
(* the loop is over, whatever becomes of the order.                         *)
ChunkFails(s) ==
  /\ Advance(s, "await", "filled")
  /\ UNCHANGED <<enabled, redisVars, positionRows, processVars, recentSignals,
                 readVars, tradeVars, orderVars, restarts>>

-----------------------------------------------------------------------------
(* Recording the trade. *)

ShareCount(s) ==
  /\ Advance(s, "filled", IF filled[s] > 0 THEN "open" ELSE "done")
  /\ UNCHANGED <<enabled, redisVars, positionRows, processVars, recentSignals,
                 readVars, tradeVars, orderVars, restarts>>

(* openPosition(): SET, INCRBYFLOAT, SADD. *)
SetPosition(s) ==
  /\ Advance(s, "open", "expose")
  /\ position' = [position EXCEPT ![MarketOf[s]] = filled[s]]
  /\ UNCHANGED <<enabled, exposure, peak, windows, byVertical, positionRows,
                 processVars, recentSignals, readVars, tradeVars, orderVars,
                 restarts>>

(* Mutant: the size that was decided on, not what was filled, is exposed. *)
ExposeDecidedSize(s) ==
  /\ Advance(s, "expose", "index")
  /\ exposure' = exposure + size[s]
  /\ UNCHANGED <<enabled, peak, windows, position, byVertical, positionRows,
                 processVars, recentSignals, readVars, tradeVars, orderVars,
                 restarts>>

AddExposure(s) ==
  /\ Advance(s, "expose", "index")
  /\ exposure' = exposure + filled[s]
  /\ UNCHANGED <<enabled, peak, windows, position, byVertical, positionRows,
                 processVars, recentSignals, readVars, tradeVars, orderVars,
                 restarts>>

AddToVertical(s) ==
  /\ Advance(s, "index", "persist")
  /\ byVertical' = [byVertical EXCEPT ![SourceOf[MarketOf[s]]] = @ \cup {MarketOf[s]}]
  /\ UNCHANGED <<enabled, exposure, peak, windows, position, positionRows,
                 processVars, recentSignals, readVars, tradeVars, orderVars,
                 restarts>>

(* recordPosition(); an error of the database is logged and forgotten. *)
PersistPosition(s) ==
  /\ Advance(s, "persist", "peak")
  /\ \/ positionRows' = positionRows \cup {s}
     \/ UNCHANGED positionRows
  /\ UNCHANGED <<enabled, redisVars, processVars, recentSignals, readVars,
                 tradeVars, orderVars, restarts>>

(* updatePeakCapital(): reads the peak ... *)
ReadPeak(s) ==
  /\ Advance(s, "peak", IF snap[s].balance > peak THEN "raise" ELSE "count")
  /\ UNCHANGED <<enabled, redisVars, positionRows, processVars, recentSignals,
                 readVars, tradeVars, orderVars, restarts>>

(* ... and replaces it by a balance that was greater then. *)
SetPeak(s) ==
  /\ Advance(s, "raise", "count")
  /\ peak' = snap[s].balance
  /\ UNCHANGED <<enabled, exposure, windows, position, byVertical,
                 positionRows, processVars, recentSignals, readVars, tradeVars,
                 orderVars, restarts>>

CountWindow(s) ==
  /\ Advance(s, "count", "done")
  /\ windows' = windows + 1
  /\ UNCHANGED <<enabled, exposure, peak, position, byVertical, positionRows,
                 processVars, recentSignals, readVars, tradeVars, orderVars,
                 restarts>>

(* A Redis command throws: the handler's catch ends it where it stands.     *)
RedisFails(s) ==
  /\ handler[s] \in {"switches", "portfolio", "position", "listOpen",
                     "sumOpen", "listVertical", "sumVertical", "open",
                     "expose", "index", "peak", "raise", "count"}
  /\ handler' = [handler EXCEPT ![s] = "done"]
  /\ UNCHANGED <<enabled, redisVars, positionRows, processVars, recentSignals,
                 readVars, tradeVars, orderVars, restarts>>

-----------------------------------------------------------------------------
(* The environment. *)

(* The exchange fills the chunk or kills it. *)
ExchangeHandles(s) ==
  /\ order[s] = "sent"
  /\ \/ /\ order' = [order EXCEPT ![s] = "filled"]
        /\ bought' = [bought EXCEPT ![s] = @ + chunk[s]]
     \/ /\ order' = [order EXCEPT ![s] = "refused"]
        /\ UNCHANGED bought
  /\ UNCHANGED <<enabled, redisVars, positionRows, processVars, recentSignals,
                 handler, readVars, tradeVars, chunk, restarts>>

OperatorFlipsSwitch ==
  /\ enabled' = ~ enabled
  /\ UNCHANGED <<redisVars, positionRows, processVars, recentSignals, handler,
                 readVars, tradeVars, orderVars, restarts>>

(* An entry of the filter is older than DEDUP_WINDOW_MS: pruned, or deleted *)
(* when it is next looked at.                                               *)
ForgetSignal(m) ==
  /\ m \in recentSignals
  /\ recentSignals' = recentSignals \ {m}
  /\ UNCHANGED <<enabled, redisVars, positionRows, processVars, handler,
                 readVars, tradeVars, orderVars, restarts>>

(* shutdown() on SIGINT or SIGTERM; the exit that follows is Crash. *)
Stop ==
  /\ isRunning
  /\ isRunning' = FALSE
  /\ UNCHANGED <<enabled, redisVars, positionRows, up, recentSignals, handler,
                 readVars, tradeVars, orderVars, restarts>>

Crash ==
  /\ up
  /\ up' = FALSE
  /\ isRunning' = FALSE
  /\ recentSignals' = {}
  /\ handler' = [s \in Signals |->
                   IF handler[s] = "unsent" THEN "unsent" ELSE "done"]
  /\ UNCHANGED <<enabled, redisVars, positionRows, readVars, tradeVars,
                 orderVars, restarts>>

Restart ==
  /\ ~ up
  /\ restarts < MaxRestarts
  /\ restarts' = restarts + 1
  /\ up' = TRUE
  /\ isRunning' = TRUE
  /\ UNCHANGED <<enabled, redisVars, positionRows, recentSignals, handler,
                 readVars, tradeVars, orderVars>>

-----------------------------------------------------------------------------
Decide(s) ==
  \/ CheckSwitches(s) \/ ReadPortfolio(s) \/ Validate(s) \/ CheckPosition(s)
  \/ ListVertical(s) \/ ReadCost(s) \/ CheckUnrealized(s) \/ CheckVertical(s)
  \/ DecideSize(s)

Trade(s) ==
  \/ NextChunk(s) \/ EndLoop(s) \/ SubmitOrder(s) \/ ChunkFilled(s)
  \/ ChunkFails(s)

Record(s) ==
  \/ ShareCount(s) \/ SetPosition(s) \/ AddExposure(s) \/ AddToVertical(s)
  \/ PersistPosition(s) \/ ReadPeak(s) \/ SetPeak(s) \/ CountWindow(s)

HandlerStep(s) == Decide(s) \/ Trade(s) \/ Record(s) \/ RedisFails(s)

Environment ==
  \/ OperatorFlipsSwitch \/ Stop \/ Crash \/ Restart
  \/ \E m \in Markets : ForgetSignal(m)
  \/ \E s \in Signals : Publish(s) \/ ExchangeHandles(s)

Next == (\E s \in Signals : HandlerStep(s)) \/ Environment

Spec == Init /\ [][Next]_vars

-----------------------------------------------------------------------------
(* Properties *)

(* The trade of s is no larger than the per-trade cap of the phase and      *)
(* balance it was decided on, in chunks or not, and however its requests    *)
(* end (checkPerTradeCap, and the chunk loop).                              *)
TradeWithinCap ==
  \A s \in Signals :
    100 * bought[s] <= MaxPerTrade[snap[s].phase] * snap[s].balance

(* The shares that f gives to the signals of S, told apart, so that their   *)
(* number is a sum over S.                                                  *)
SharesIn(f, S) == UNION {{s} \X (1 .. f[s]) : s \in S}

(* positions:total_exposure lies between what the database holds and what   *)
(* was really bought: recording may stop half-way or be overtaken, but no   *)
(* purchase is counted twice and none that the database shows is missing.   *)
ExposureReconciles ==
  /\ exposure >= StartExposure + Cardinality(SharesIn(filled, positionRows))
  /\ exposure <= StartExposure + Cardinality(SharesIn(bought, Signals))

(* The most that may be exposed, a hundredfold, by what s has read. *)
CapOf(s) == MaxExposure[snap[s].phase] * Effective(snap[s], reserved[s])

(* A handler whose portfolio still was what it had read when it counts its  *)
(* trade keeps the exposure within the phase's cap: only trades that        *)
(* overlap can push the exposure over it (checkExposureCap, openPosition).  *)
CapHeldUnlessOverlapped ==
  [][\A s \in Signals :
       AddExposure(s) /\ exposure = snap[s].exposure
         => 100 * exposure' <= CapOf(s)]_vars

(* Why these hold.  Where a handler stands tells what its request and its   *)
(* shares have come to: what is bought, what is still to be bought and what *)
(* is on order never exceed the size decided on ...                         *)
SharesOf(s) ==
  /\ filled[s] <= bought[s]
  /\ handler[s] \notin Trading \cup {"done"}
       => bought[s] = 0 /\ filled[s] = 0 /\ order[s] = "none"
  /\ handler[s] \in {"loop", "send", "await"}
       => filled[s] + remaining[s] = size[s]
  /\ handler[s] \in {"loop", "send"}
       => order[s] # "sent" /\ bought[s] = filled[s]
  /\ handler[s] \in {"send", "await"} => chunk[s] <= remaining[s]
  /\ handler[s] = "await"
       => bought[s] = filled[s] + (IF order[s] = "filled" THEN chunk[s] ELSE 0)
  /\ bought[s] > 0 => order[s] # "none" /\ bought[s] <= size[s]
  /\ order[s] = "sent" => bought[s] + chunk[s] <= size[s]

(* ... that size keeps the caps of the portfolio it was decided on ...      *)
CapsOf(s) ==
  handler[s] \in Trading \/ order[s] # "none" =>
    /\ 100 * size[s] <= MaxPerTrade[snap[s].phase] * snap[s].balance
    /\ 100 * (snap[s].exposure + size[s]) <= CapOf(s)

(* ... and a row is written for a trade that bought something and is over.  *)
RowOf(s) ==
  /\ handler[s] \in Recording => filled[s] > 0
  /\ s \in positionRows =>
       filled[s] > 0 /\ handler[s] \in {"peak", "raise", "count", "done"}

ShareInv == \A s \in Signals : SharesOf(s)
CapInv   == \A s \in Signals : CapsOf(s)
RowInv   == \A s \in Signals : RowOf(s)

(* ... and between openPosition's INCRBYFLOAT and the end of a handler its  *)
(* trade is counted for certain; after the end it may have been or not.     *)
AfterExposing == {"index", "persist", "peak", "raise", "count"}
Exposed == positionRows \cup {s \in Signals : handler[s] \in AfterExposing}
MayBeExposed == {s \in Signals : handler[s] \in AfterExposing \cup {"done"}}

ExposureInv ==
  /\ exposure >= StartExposure + Cardinality(SharesIn(filled, Exposed))
  /\ exposure <= StartExposure + Cardinality(SharesIn(bought, MayBeExposed))

IInv == TypeOK /\ ShareInv /\ CapInv /\ RowInv /\ ExposureInv

(* The executor implements the abstract book: a signal is one trade of some *)
(* shares, booked when the database has its position.                       *)
Book == INSTANCE TradeBook WITH
  Trades <- Signals,
  booked <- [s \in Signals |-> IF s \in positionRows THEN filled[s] ELSE 0]

ImplementsTradeBook == Book!Spec
=============================================================================
