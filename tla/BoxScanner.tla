------------------------------ MODULE BoxScanner ------------------------------
(***************************************************************************)
(* The signal core (signal-core/src) on top of the ingestion service: a    *)
(* scanner walks over the registered markets, reads the best ask of both   *)
(* outcomes from Redis, one command at a time, and publishes a signal when *)
(* the two together cost less than a complete box is worth.                *)
(*                                                                         *)
(* Prices, the value of a box and the buffer are in the same unit.         *)
(***************************************************************************)
EXTENDS BookFeed, FiniteSets, FiniteSetsExt

CONSTANTS
  BoxValue,                \* 1.0: what a YES and a NO share pay together
  Buffer,                  \* arbitrage_buffer
  MinEdge,                 \* min_edge_usd
  MaxPositionSize          \* max_position_size

ASSUME ScannerAssumption ==
  /\ {BoxValue, Buffer, MinEdge, MaxPositionSize} \subseteq Nat
  /\ Buffer <= BoxValue

VARIABLES
  scanner,                 \* where run() and check_arbitrage() are
  marketPairs,             \* the scanner's cache of the registered markets
  toScan,                  \* markets left of the scan under way
  market,                  \* the market in hand: a set of at most one
  ask,                     \* per outcome: price and size as read
  calm                     \* history variable: since the first of these reads
                           \* the market in hand was in sync and unchanged

scanVars == <<scanner, marketPairs, toScan, market, ask>>
vars == <<feedVars, scanVars, calm>>

ScannerStates == {"down", "select", "scan", "yesPrice", "yesSize", "noPrice",
                  "noSize", "decide", "publish"}
Asks == [price : Nat, size : Nat]
NoAsk == [price |-> 0, size |-> 0]

ScannerTypeOK ==
  /\ scanner \in ScannerStates
  /\ marketPairs \in SUBSET Markets
  /\ toScan \in SUBSET Markets
  /\ market \in {{m} : m \in Markets} \cup {{}}
  /\ ask \in [Outcomes -> Asks]
  /\ calm \in BOOLEAN

-----------------------------------------------------------------------------
(* check_arbitrage(): is a box of these two asks worth a signal?  (The       *)
(* least order size is registered as 0 and never in the way.)               *)

(* Mutant: the buffer is forgotten. *)
WorthWithoutBuffer(yes, no) ==
  LET size == Min({yes.size, no.size, MaxPositionSize})
  IN  /\ yes.price + no.price < BoxValue
      /\ (BoxValue - yes.price - no.price) * size >= MinEdge

Worth(yes, no) ==
  LET size == Min({yes.size, no.size, MaxPositionSize})
  IN  /\ yes.price + no.price + Buffer < BoxValue
      /\ (BoxValue - yes.price - no.price) * size >= MinEdge

Calm(m) == InSync(<<m, "YES">>) /\ InSync(<<m, "NO">>)

-----------------------------------------------------------------------------
ScannerInit ==
  /\ scanner = "down"
  /\ marketPairs = {}
  /\ toScan = {}
  /\ market = {}
  /\ ask = [o \in Outcomes |-> NoAsk]
  /\ calm = FALSE

Drop ==
  /\ market' = {}
  /\ ask' = [o \in Outcomes |-> NoAsk]
  /\ calm' = FALSE

(* main() and the first refresh; with trading disabled the container exits. *)
StartScanner ==
  /\ scanner = "down"
  /\ enabled
  /\ scanner' = "select"
  /\ marketPairs' = pairs
  /\ UNCHANGED <<feedVars, toScan, market, ask, calm>>

(* market_refresh_ticker; a refresh that fails leaves the cache as it is. *)
RefreshMarketPairs ==
  /\ scanner = "select"
  /\ marketPairs' = pairs
  /\ UNCHANGED <<feedVars, scanner, toScan, market, ask, calm>>

(* scan_ticker.  The kill-switch branch only delays the loop by a second:   *)
(* it is no step of its own.                                                *)
ScanAllMarkets ==
  /\ scanner = "select"
  /\ scanner' = "scan"
  /\ toScan' = marketPairs
  /\ UNCHANGED <<feedVars, marketPairs, market, ask, calm>>

NextMarket(m) ==
  /\ scanner = "scan"
  /\ m \in toScan
  /\ toScan' = toScan \ {m}
  /\ market' = {m}
  /\ calm' = Calm(m)
  /\ scanner' = "yesPrice"
  /\ UNCHANGED <<feedVars, marketPairs, ask>>

EndScan ==
  /\ scanner = "scan"
  /\ toScan = {}
  /\ scanner' = "select"
  /\ UNCHANGED <<feedVars, marketPairs, toScan, market, ask, calm>>

(* get_best_ask(): ZRANGE 0 0 of the levels; without a level there is no    *)
(* box, and what the code still reads of the other outcome changes nothing  *)
(* ...                                                                      *)
ReadPrice(o, at, next) ==
  \E m \in market :
    /\ scanner = at
    /\ \/ /\ zset[<<m, o>>] # {}
          /\ ask' = [ask EXCEPT ![o].price = Min(zset[<<m, o>>])]
          /\ scanner' = next
          /\ UNCHANGED <<market, calm>>
       \/ /\ zset[<<m, o>>] = {}
          /\ scanner' = "scan"
          /\ Drop
    /\ UNCHANGED <<feedVars, marketPairs, toScan>>

(* ... and HGET of the size at that price, 0 when it is missing. *)
ReadSize(o, at, next) ==
  \E m \in market :
    /\ scanner = at
    /\ ask' = [ask EXCEPT ![o].size = sizes[<<m, o>>][ask[o].price]]
    /\ scanner' = next
    /\ UNCHANGED <<feedVars, marketPairs, toScan, market, calm>>

ReadYesPrice == ReadPrice("YES", "yesPrice", "yesSize")
ReadYesSize  == ReadSize("YES", "yesSize", "noPrice")
ReadNoPrice  == ReadPrice("NO", "noPrice", "noSize")
ReadNoSize   == ReadSize("NO", "noSize", "decide")

(* Mutant: a size of one is taken for none. *)
DecideOffByOne ==
  /\ scanner = "decide"
  /\ \/ /\ \A o \in Outcomes : ask[o].size > 1
        /\ Worth(ask["YES"], ask["NO"])
        /\ scanner' = "publish"
        /\ UNCHANGED <<market, ask, calm>>
     \/ /\ \/ \E o \in Outcomes : ask[o].size <= 1
           \/ ~ Worth(ask["YES"], ask["NO"])
        /\ scanner' = "scan"
        /\ Drop
  /\ UNCHANGED <<feedVars, marketPairs, toScan>>

Decide ==
  /\ scanner = "decide"
  /\ \/ /\ \A o \in Outcomes : ask[o].size > 0
        /\ Worth(ask["YES"], ask["NO"])
        /\ scanner' = "publish"
        /\ UNCHANGED <<market, ask, calm>>
     \/ /\ \/ \E o \in Outcomes : ask[o].size = 0
           \/ ~ Worth(ask["YES"], ask["NO"])
        /\ scanner' = "scan"
        /\ Drop
  /\ UNCHANGED <<feedVars, marketPairs, toScan>>

PublishSignal ==
  /\ scanner = "publish"
  /\ scanner' = "scan"
  /\ Drop
  /\ UNCHANGED <<feedVars, marketPairs, toScan>>

(* A command of Redis fails: the market is left out of this scan. *)
CheckFails ==
  /\ Disturb
  /\ scanner \in {"yesPrice", "yesSize", "noPrice", "noSize", "publish"}
  /\ scanner' = "scan"
  /\ Drop
  /\ UNCHANGED <<enabled, storeVars, session, attempts, subscribed, timerVars,
                 shutdown, exchangeVars, linkVars, marketPairs, toScan>>

(* A shutdown or a crash. *)
ScannerStops ==
  /\ Disturb
  /\ scanner # "down"
  /\ scanner' = "down"
  /\ marketPairs' = {}
  /\ toScan' = {}
  /\ Drop
  /\ UNCHANGED <<enabled, storeVars, session, attempts, subscribed, timerVars,
                 shutdown, exchangeVars, linkVars>>

-----------------------------------------------------------------------------
ScannerStep ==
  \/ ScanAllMarkets \/ EndScan \/ \E m \in Markets : NextMarket(m)
  \/ ReadYesPrice \/ ReadYesSize \/ ReadNoPrice \/ ReadNoSize
  \/ Decide \/ PublishSignal

(* A step of the feed, and what it does to the market in hand. *)
FeedStep ==
  /\ FeedNext
  /\ UNCHANGED scanVars
  /\ calm' = (/\ calm
              /\ \A m \in market : Calm(m)'
              /\ \A m \in market, o \in Outcomes :
                   book'[<<m, o>>] = book[<<m, o>>])

Next ==
  \/ FeedStep
  \/ StartScanner \/ RefreshMarketPairs \/ ScannerStep \/ CheckFails
  \/ ScannerStops

Init == FeedInit /\ ScannerInit

Spec == Init /\ [][Next]_vars

(* The scanner goes on whatever happens, and so does the feed. *)
FairSpec == Spec /\ WF_vars(ScannerStep) /\ FeedFairness

-----------------------------------------------------------------------------
(* Properties *)

BestAsk(t) ==
  LET p == Min(LevelsOf(book[t])) IN [price |-> p, size |-> book[t][p]]

(* A complete box can be bought of the exchange, for less than it is worth  *)
(* and by the buffer.                                                       *)
BoxOffered(m) ==
  \E p \in LevelsOf(book[<<m, "YES">>]), q \in LevelsOf(book[<<m, "NO">>]) :
    p + q + Buffer < BoxValue

(* A signal whose market was in sync and unchanged since the scanner turned *)
(* to it tells the truth: its prices and sizes are the exchange's best, and *)
(* the box is offered.  Only what is under way, or changes meanwhile, can   *)
(* make a signal wrong; no level of the past can.                           *)
CalmSignalsAreTrue ==
  scanner = "publish" /\ calm =>
    \A m \in market :
      /\ \A o \in Outcomes : ask[o] = BestAsk(<<m, o>>)
      /\ BoxOffered(m)

(* Why: while the market in hand is calm, what has been read of it so far   *)
(* is still what Redis holds.                                               *)
PriceRead ==
  [YES |-> {"yesSize", "noPrice", "noSize", "decide", "publish"},
   NO  |-> {"noSize", "decide", "publish"}]
SizeRead ==
  [YES |-> {"noPrice", "noSize", "decide", "publish"},
   NO  |-> {"decide", "publish"}]

ReadingInv ==
  /\ market = {} <=> scanner \in {"down", "select", "scan"}
  /\ calm => \A m \in market : Calm(m)
  /\ calm => \A m \in market, o \in Outcomes :
       scanner \in PriceRead[o] =>
         zset[<<m, o>>] # {} /\ ask[o].price = Min(zset[<<m, o>>])
  /\ calm => \A m \in market, o \in Outcomes :
       scanner \in SizeRead[o] => ask[o].size = sizes[<<m, o>>][ask[o].price]

DecisionInv ==
  /\ \A o \in Outcomes : scanner \in PriceRead[o] => ask[o].price \in Prices
  /\ scanner = "publish" => Worth(ask["YES"], ask["NO"])

ScannerInv == ScannerTypeOK /\ ReadingInv /\ DecisionInv

(* A box that stays offered in a market that stays in sync is signalled     *)
(* again and again.                                                         *)
BoxIsSignalled ==
  \A m \in Markets :
    <>[](/\ scanner # "down" /\ m \in marketPairs /\ Calm(m)
         /\ Worth(BestAsk(<<m, "YES">>), BestAsk(<<m, "NO">>)))
      => []<>(scanner = "publish" /\ market = {m})
=============================================================================
