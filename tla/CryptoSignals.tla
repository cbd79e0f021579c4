----------------------------- MODULE CryptoSignals -----------------------------
(***************************************************************************)
(* The crypto signal service (crypto-signals/src) on top of its price feed.*)
(* A loop looks at the prices again and again.  It notes every symbol's    *)
(* price when a five-minute window is new; later in the window it looks up *)
(* the window's markets, and for a symbol whose price has moved asks for   *)
(* the order book of that side and publishes a signal.                     *)
(*                                                                         *)
(* Time goes in ticks.  A round of the loop that waits for no answer is    *)
(* much shorter than a tick, and a request is answered, or given up, in    *)
(* one.  The feeds of the other services are here without their services.  *)
(***************************************************************************)
EXTENDS PriceFeed

CONSTANTS
  Symbols,                   \* binanceSymbols
  Prices,                    \* the prices there may be
  Window,                    \* ticks of a window
  EntryStart, EntryEnd,      \* entryStartSec, entryEndSec
  LongLeft,                  \* createSignal(): what is left when there is time
  LongTtl, ShortTtl          \* its ttlMs then, and otherwise

(* The answers a round may wait for, and what is left to use a signal in. *)
MostAnswers == 2 * Cardinality(Symbols)

ASSUME CryptoSignalsAssumption ==
  /\ IsFiniteSet(Symbols) /\ Prices \subseteq Nat \ {0}
  /\ {Window, EntryStart, EntryEnd, LongLeft, LongTtl, ShortTtl} \subseteq Nat
  /\ EntryEnd <= Window
  /\ LongTtl + MostAnswers <= LongLeft
  /\ EntryEnd + MostAnswers + ShortTtl <= Window + 1

VARIABLES
  seen,                  \* symbolState: the current price of a symbol, or 0
  opens,                 \* its windowOpenPrices for the window in memory, or 0
  pc,                    \* where the loop of main() is
  todo,                  \* symbols left of this round
  elapsed,               \* nowSec of this round, in the window
  signal,                \* the signal in hand
  sec, passed,           \* time: ticks into the window; memory is of another
  ticked,                \* time: the tick that the step may take is over
  calm,                  \* history: the service has not failed in this window
  prompt                 \* history: opens are prices of the first tick of theirs

roundVars == <<opens, pc, todo, elapsed, signal>>
timeVars  == <<sec, passed, ticked>>
pastVars  == <<calm, prompt>>
cryptoVars == <<feedVars, seen, roundVars, timeVars, pastVars>>

NoSignal == [at |-> 0, ttl |-> 0]
NoPrices == [s \in Symbols |-> 0]

Service == "combined" \in setup

-----------------------------------------------------------------------------
(* Helpers. *)

GoTo(from, to) == pc = from /\ pc' = to

Now == IF passed THEN Window + sec ELSE sec

(* getDirection(): there is none without both prices or for a small move. *)
Moved(s) == opens[s] # 0 /\ seen[s] # 0 /\ seen[s] # opens[s]

Ttl(left) == IF left >= LongLeft THEN LongTtl ELSE ShortTtl

(* Mutant: the end of the entry window belongs to it. *)
EntryWindowClosed == EntryStart .. EntryEnd

(* isInEntryWindow() *)
EntryWindow == EntryStart .. (EntryEnd - 1)

(* The step that waited has its answer. *)
Answered == ticked' = FALSE /\ UNCHANGED <<sec, passed>>

RoundOver == todo' = {} /\ elapsed' = 0 /\ signal' = NoSignal

CryptoInit ==
  /\ PriceFeedInit
  /\ seen = NoPrices /\ opens = NoPrices
  /\ pc = "off" /\ todo = {} /\ elapsed = 0 /\ signal = NoSignal
  /\ sec = 0 /\ passed = TRUE /\ ticked = FALSE
  /\ calm = FALSE /\ prompt = FALSE

-----------------------------------------------------------------------------
(* The loop of main(). *)

(* A switch is off, or Redis does not answer. *)
Idle ==
  /\ GoTo("wait", "wait")
  /\ Fault /\ calm' = FALSE
  /\ Answered
  /\ UNCHANGED <<setup, phase, linkVars, seen, opens, todo, elapsed, signal,
                 prompt>>

(* Mutant: a symbol's price is noted once, not once in a window. *)
NotedOnce == IF passed /\ opens = NoPrices THEN seen ELSE opens

(* recordWindowOpen() for every symbol when the window is new.  It is done *)
(* with for this window even if a symbol has no price yet.                 *)
Noted == IF passed THEN seen ELSE opens

(* Mutant: the prices are noted when the entry window is reached. *)
LookLate(entry) ==
  /\ GoTo("wait", IF entry THEN "discover" ELSE "wait")
  /\ entry <=> sec \in EntryWindow
  /\ opens' = IF entry THEN Noted ELSE opens
  /\ prompt' = IF passed THEN sec = 0 ELSE prompt
  /\ elapsed' = IF entry THEN sec ELSE elapsed
  /\ passed' = (passed /\ ~entry) /\ ticked' = FALSE
  /\ UNCHANGED <<feedVars, seen, todo, signal, sec, calm>>

Look(entry) ==
  /\ GoTo("wait", IF entry THEN "discover" ELSE "wait")
  /\ entry <=> sec \in EntryWindow
  /\ opens' = Noted
  /\ prompt' = IF passed THEN sec = 0 ELSE prompt
  /\ elapsed' = IF entry THEN sec ELSE elapsed
  /\ passed' = FALSE /\ ticked' = FALSE
  /\ UNCHANGED <<feedVars, seen, todo, signal, sec, calm>>

(* discoverMarkets(): the markets that are known or that Gamma answers     *)
(* with, in any order.                                                     *)
Discover(found) ==
  /\ GoTo("discover", "next")
  /\ todo' = found
  /\ Answered
  /\ UNCHANGED <<feedVars, seen, opens, elapsed, signal, pastVars>>

(* The price of s has moved: the book of that side is asked for. *)
ReadDirection(s) ==
  /\ GoTo("next", "book")
  /\ s \in todo /\ Moved(s)
  /\ todo' = todo \ {s}
  /\ UNCHANGED <<feedVars, seen, opens, elapsed, signal, timeVars, pastVars>>

NoDirection(s) ==
  /\ GoTo("next", "next")
  /\ s \in todo /\ ~Moved(s)
  /\ todo' = todo \ {s}
  /\ UNCHANGED <<feedVars, seen, opens, elapsed, signal, timeVars, pastVars>>

RoundEnds ==
  /\ GoTo("next", "wait")
  /\ todo = {}
  /\ RoundOver
  /\ UNCHANGED <<feedVars, seen, opens, timeVars, pastVars>>

(* No book, no ask, or shouldEmitSignal() sees no edge at the first ask. *)
NoEdge ==
  /\ GoTo("book", "next")
  /\ signal' = NoSignal
  /\ Answered
  /\ UNCHANGED <<feedVars, seen, opens, todo, elapsed, pastVars>>

(* createSignal() *)
CreateSignal ==
  /\ GoTo("book", "publish")
  /\ signal' = [signal EXCEPT !.at = Now, !.ttl = Ttl(Window - elapsed)]
  /\ Answered
  /\ UNCHANGED <<feedVars, seen, opens, todo, elapsed, pastVars>>

PublishSignal ==
  /\ GoTo("publish", "next")
  /\ signal' = NoSignal
  /\ Answered
  /\ UNCHANGED <<feedVars, seen, opens, todo, elapsed, pastVars>>

(* An error ends the round; what is left of it is looked at in the next.   *)
PublishFails ==
  /\ GoTo("publish", "wait")
  /\ Fault
  /\ RoundOver
  /\ Answered
  /\ UNCHANGED <<setup, phase, linkVars, seen, opens, pastVars>>

-----------------------------------------------------------------------------
(* The process and its feed. *)

(* main() has its first price and begins its loop. *)
Begin ==
  /\ GoTo("off", "wait")
  /\ Service /\ phase = "running"
  /\ UNCHANGED <<feedVars, seen, opens, todo, elapsed, signal, timeVars,
                 pastVars>>

(* A process that ends takes all of this with it. *)
Carried ==
  /\ IF phase' = "down"
     THEN /\ seen' = NoPrices /\ opens' = NoPrices
          /\ pc' = "off" /\ RoundOver
          /\ passed' = TRUE /\ ticked' = FALSE /\ prompt' = FALSE
          /\ calm' = FALSE /\ UNCHANGED sec
     ELSE UNCHANGED <<seen, roundVars, timeVars, pastVars>>

Link == LinkNext /\ Carried

(* The exchange quotes p for s, and the open connections tell it. *)
Quote(s, p) ==
  /\ Service
  /\ Message("combined")
  /\ seen' = [seen EXCEPT ![s] = p]
  /\ UNCHANGED <<roundVars, timeVars, pastVars>>

(* The feeds of the services that are not here. *)
OtherPrice(f) ==
  /\ ~Service
  /\ Message(f)
  /\ UNCHANGED <<seen, roundVars, timeVars, pastVars>>

(* The tick that a step may take passes, and perhaps the window with it. *)
Tick ==
  /\ pc # "off"
  /\ ~ticked /\ ticked' = TRUE
  /\ IF sec + 1 < Window
     THEN sec' = sec + 1 /\ UNCHANGED <<passed, calm>>
     ELSE /\ sec' = 0 /\ passed' = TRUE
          /\ calm' = (pc = "wait")
  /\ UNCHANGED <<feedVars, seen, roundVars, prompt>>

-----------------------------------------------------------------------------
RoundNext ==
  \/ Idle
  \/ \E entry \in BOOLEAN : Look(entry)
  \/ \E found \in SUBSET Symbols : Discover(found)
  \/ \E s \in todo : ReadDirection(s) \/ NoDirection(s)
  \/ RoundEnds \/ NoEdge \/ CreateSignal \/ PublishSignal \/ PublishFails
  \/ Begin

CryptoNext ==
  \/ RoundNext \/ Link
  \/ \E s \in Symbols, p \in Prices : Quote(s, p)
  \/ \E f \in setup : OtherPrice(f)
  \/ Tick

CryptoSpec == CryptoInit /\ [][CryptoNext]_cryptoVars

(* Timers fire, a process is started again, sockets open or close in the   *)
(* end, open connections go on delivering, and the loop and the clock run. *)
FairSpec ==
  /\ CryptoSpec
  /\ WF_cryptoVars(LinkGoesOn /\ Carried)
  /\ \A f \in Feeds : WF_cryptoVars(OtherPrice(f))
  /\ \A s \in Symbols : WF_cryptoVars(\E p \in Prices : Quote(s, p))
  /\ WF_cryptoVars(RoundNext) /\ WF_cryptoVars(Tick)

-----------------------------------------------------------------------------
(* Properties. *)

CryptoTypeOK ==
  /\ opens \in [Symbols -> Prices \cup {0}]
  /\ todo \subseteq Symbols
  /\ pc \in {"off", "wait", "discover", "next", "book", "publish"}
  /\ elapsed \in 0 .. Window /\ sec \in 0 .. Window
  /\ passed \in BOOLEAN /\ ticked \in BOOLEAN

(* createSignal(): the time that is left is taken when a round begins, the *)
(* signal is made after several answers; if none takes more than a tick,   *)
(* what is published has outlived its ttlMs when its window closes.        *)
SignalsExpireInWindow ==
  pc = "publish" => signal.at + signal.ttl <= Window

(* recordWindowOpen(): a signal compares with a price of the first tick of  *)
(* its window, unless the service was down or did not look then.  (This is  *)
(* about the time: the price may be that of a feed that has gone silent.)   *)
OpensAreEarly == calm /\ pc \in {"book", "publish"} => prompt

(* scheduleReconnect(): a feed that was started always has a socket or a   *)
(* timer that will open one, and a feed of the latency bot never two: a    *)
(* second chain of them would go on for good.                              *)
FeedsKeepOneChain ==
  \A f \in setup :
    LET chains == Cardinality(Ids \ InState(f, {"closed"})) + timers[f] IN
    phase # "down" =>
      /\ chains >= 1
      /\ f \in Plain => chains = 1

(* resetHeartbeat(), scheduleReconnect(): whatever has happened to its     *)
(* sockets, every feed is healthy again once exchanges work.               *)
PricesComeBack == []<>(\A f \in setup : Healthy(f))

(* recordedWindowOpens: a symbol that had no price when a window was new   *)
(* is silent all through it, and has one in a later window.                *)
OpensComeBack ==
  Service => []<>(\A s \in Symbols : opens[s] # 0)
=============================================================================
