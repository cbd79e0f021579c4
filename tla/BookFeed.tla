------------------------------- MODULE BookFeed -------------------------------
(***************************************************************************)
(* The ingestion service (ingestion/src): one WebSocket session after the  *)
(* other feeds the exchange's order books into Redis, where the scanner    *)
(* reads them.                                                             *)
(*                                                                         *)
(* Only the ask side is modelled; bids take the same way through the same  *)
(* code and nobody reads them.  A book is the size at each price, 0 for a  *)
(* price that has no level.  A message that carries several changes is     *)
(* that many messages here: the code applies them one after the other.     *)
(***************************************************************************)
EXTENDS Naturals, Sequences

CONSTANTS
  Markets,
  Prices,
  MaxSize,
  StartBook,               \* the exchange's book of every token at first
  HeartbeatTimeout,        \* heartbeat_timeout_secs, in ticks
  CheckInterval,           \* ticks between two periodic branches of select!
  MaxReconnectAttempts,
  MaxChanges,              \* bound: how often the exchange changes a book
  MaxNoise,                \* bound: other messages, link failures, crashes
  MaxWire                  \* bound: messages under way at a time

Outcomes == {"YES", "NO"}
Tokens == Markets \X Outcomes
Books == [Prices -> 0 .. MaxSize]

ASSUME FeedAssumption ==
  /\ Prices \subseteq Nat
  /\ MaxSize \in Nat
  /\ StartBook \in Books
  /\ HeartbeatTimeout \in Nat \ {0}
  /\ CheckInterval \in Nat \ {0}
  /\ {MaxReconnectAttempts, MaxChanges, MaxNoise, MaxWire} \subseteq Nat

VARIABLES
  enabled,                 \* Redis: TRADING_ENABLED
  pairs,                   \* Redis: markets:active
  zset,                    \* Redis: ob:<token>:asks, the prices of levels
  sizes,                   \* Redis: ob:<token>:asks:sizes, 0 when missing
  session,                 \* where run() and connect_and_run() are
  attempts,                \* reconnect_attempts
  subscribed,              \* the markets this session has fetched
  heartbeat,               \* ticks left of the timeout on the next message
  untilCheck,              \* ticks left until the next periodic branch
  shutdown,                \* the broadcast: "none", "sent", "received"
  listed,                  \* exchange: the markets with an order book
  book,                    \* exchange: the books
  link,                    \* the connection as the exchange sees it
  announced,               \* tokens whose snapshot has been sent on it
  wire,                    \* what has been sent on it and not been applied
  changes, noise           \* counters for the bounds

storeVars    == <<pairs, zset, sizes>>
timerVars    == <<heartbeat, untilCheck>>
exchangeVars == <<listed, book, changes>>
linkVars     == <<link, announced, wire>>
feedVars == <<enabled, storeVars, session, attempts, subscribed,
              timerVars, shutdown, exchangeVars, linkVars, noise>>

(* "change" is one entry of a price_changes message and "snapshot" a whole  *)
(* book: each gives sizes of some prices.  "bad" carries a number that does *)
(* not parse; "other" is whatever the code ignores or only logs.            *)
Levels == UNION {[P -> 0 .. MaxSize] : P \in SUBSET Prices}
NoLevels == [p \in {} |-> 0]
Messages == [kind : {"change", "snapshot", "bad", "other"}, token : Tokens, levels : Levels]

TypeOK ==
  /\ enabled \in BOOLEAN
  /\ pairs \in SUBSET Markets
  /\ zset \in [Tokens -> SUBSET Prices]
  /\ sizes \in [Tokens -> Books]
  /\ session \in {"down", "gate", "waiting", "fetch", "connect", "read", "write"}
  /\ attempts \in Nat
  /\ subscribed \in SUBSET Markets
  /\ heartbeat \in 0 .. HeartbeatTimeout
  /\ untilCheck \in 0 .. CheckInterval
  /\ shutdown \in {"none", "sent", "received"}
  /\ listed \in SUBSET Markets
  /\ book \in [Tokens -> Books]
  /\ link \in {"none", "open", "silent", "closed"}
  /\ announced \in SUBSET Tokens
  /\ wire \in Seq(Messages)
  /\ changes \in Nat
  /\ noise \in Nat

-----------------------------------------------------------------------------
(* Helpers *)

LevelsOf(levels) == {p \in DOMAIN levels : levels[p] > 0}

(* A book after the sizes in levels have been put in. *)
Put(b, levels) == [p \in Prices |-> IF p \in DOMAIN levels THEN levels[p] ELSE b[p]]

(* m gives the size of t's asks at p. *)
Mentions(m, t, p) == m.token = t /\ p \in DOMAIN m.levels

(* The select! loop starts over: its timeout on the next message does, too. *)
Rearm == heartbeat' = HeartbeatTimeout

(* connect_and_run() is over, and with it the connection. *)
Disconnect ==
  /\ link' = "none"
  /\ announced' = {}
  /\ wire' = <<>>
  /\ subscribed' = {}
  /\ heartbeat' = HeartbeatTimeout
  /\ untilCheck' = 0

(* ... with Ok: the loop goes on at once and counts from 0 again ... *)
Closes ==
  /\ Disconnect
  /\ attempts' = 0
  /\ session' = "gate"

(* ... or with an error: after a delay, or never again. *)
Fails ==
  /\ Disconnect
  /\ IF attempts + 1 >= MaxReconnectAttempts
       THEN session' = "down" /\ attempts' = 0
       ELSE session' = "waiting" /\ attempts' = attempts + 1

-----------------------------------------------------------------------------
FeedInit ==
  /\ enabled \in BOOLEAN
  /\ pairs = {}
  /\ zset = [t \in Tokens |-> {}]
  /\ sizes = [t \in Tokens |-> [p \in Prices |-> 0]]
  /\ session = "down"
  /\ attempts = 0
  /\ subscribed = {}
  /\ heartbeat = HeartbeatTimeout
  /\ untilCheck = 0
  /\ shutdown = "none"
  /\ listed = Markets
  /\ book = [t \in Tokens |-> StartBook]
  /\ link = "none"
  /\ announced = {}
  /\ wire = <<>>
  /\ changes = 0
  /\ noise = 0

-----------------------------------------------------------------------------
(* The loop of run() *)

(* main(): a container that finds trading disabled exits, and is started    *)
(* again.                                                                   *)
Boot ==
  /\ session = "down"
  /\ enabled
  /\ session' = "gate"
  /\ shutdown' = "none"
  /\ UNCHANGED <<enabled, storeVars, attempts, subscribed, timerVars,
                 exchangeVars, linkVars, noise>>

(* try_recv() finds the shutdown signal. *)
GateShutdown ==
  /\ session = "gate"
  /\ shutdown = "sent"
  /\ session' = "down"
  /\ attempts' = 0
  /\ UNCHANGED <<enabled, storeVars, subscribed, timerVars, shutdown,
                 exchangeVars, linkVars, noise>>

GateOpens ==
  /\ session = "gate"
  /\ shutdown # "sent"
  /\ enabled
  /\ session' = "fetch"
  /\ UNCHANGED <<enabled, storeVars, attempts, subscribed, timerVars,
                 shutdown, exchangeVars, linkVars, noise>>

(* The switch is off: look again in five seconds.  After an error of Redis  *)
(* it is one second, so reading may fail like this at any time.             *)
GateWaits ==
  /\ session = "gate"
  /\ shutdown # "sent"
  /\ session' = "waiting"
  /\ UNCHANGED <<enabled, storeVars, attempts, subscribed, timerVars,
                 shutdown, exchangeVars, linkVars, noise>>

(* Mutant: only the sleep after an error ends. *)
WakeUpAfterError ==
  /\ session = "waiting"
  /\ attempts > 0
  /\ session' = "gate"
  /\ UNCHANGED <<enabled, storeVars, attempts, subscribed, timerVars,
                 shutdown, exchangeVars, linkVars, noise>>

(* Mutant: only the sleep before the gate ends; after an error none does. *)
WakeUpAtGate ==
  /\ session = "waiting"
  /\ attempts = 0
  /\ session' = "gate"
  /\ UNCHANGED <<enabled, storeVars, attempts, subscribed, timerVars,
                 shutdown, exchangeVars, linkVars, noise>>

(* The sleep, of whatever length, is over. *)
WakeUp ==
  /\ session = "waiting"
  /\ session' = "gate"
  /\ UNCHANGED <<enabled, storeVars, attempts, subscribed, timerVars,
                 shutdown, exchangeVars, linkVars, noise>>

-----------------------------------------------------------------------------
(* connect_and_run() *)

FetchMarkets ==
  /\ session = "fetch"
  /\ listed # {}
  /\ subscribed' = listed
  /\ session' = "connect"
  /\ UNCHANGED <<enabled, storeVars, attempts, timerVars, shutdown,
                 exchangeVars, linkVars, noise>>

(* No market is listed: wait, and return Ok. *)
NothingListed ==
  /\ session = "fetch"
  /\ listed = {}
  /\ session' = "waiting"
  /\ attempts' = 0
  /\ UNCHANGED <<enabled, storeVars, subscribed, timerVars, shutdown,
                 exchangeVars, linkVars, noise>>

(* register_market_pair(); an error is logged and the market left out. *)
Register(m) ==
  /\ session = "connect"
  /\ m \in subscribed \ pairs
  /\ pairs' = pairs \cup {m}
  /\ UNCHANGED <<enabled, zset, sizes, session, attempts, subscribed,
                 timerVars, shutdown, exchangeVars, linkVars, noise>>

(* connect_async() and the subscription. *)
Connect ==
  /\ session = "connect"
  /\ session' = "read"
  /\ link' = "open"
  /\ UNCHANGED <<enabled, storeVars, attempts, subscribed, timerVars,
                 shutdown, exchangeVars, announced, wire, noise>>

(* Mutant: the levels of a snapshot are added to those that are stored. *)
MergeSnapshot ==
  /\ session = "read"
  /\ wire # <<>>
  /\ Head(wire).kind = "snapshot"
  /\ LET t == Head(wire).token
         levels == Head(wire).levels
     IN  /\ zset' = [zset EXCEPT ![t] = @ \cup LevelsOf(levels)]
         /\ sizes' = [sizes EXCEPT ![t] = Put(@, levels)]
  /\ wire' = Tail(wire)
  /\ Rearm
  /\ UNCHANGED <<enabled, pairs, session, attempts, subscribed,
                 untilCheck, shutdown, exchangeVars, link, announced, noise>>

(* handle_book_snapshot(): apply_snapshot_atomic() is one transaction. *)
ApplySnapshot ==
  /\ session = "read"
  /\ wire # <<>>
  /\ Head(wire).kind = "snapshot"
  /\ LET t == Head(wire).token
         levels == Head(wire).levels
     IN  /\ zset' = [zset EXCEPT ![t] = LevelsOf(levels)]
         /\ sizes' = [sizes EXCEPT ![t] = levels]
  /\ wire' = Tail(wire)
  /\ Rearm
  /\ UNCHANGED <<enabled, pairs, session, attempts, subscribed,
                 untilCheck, shutdown, exchangeVars, link, announced, noise>>

(* handle_price_changes(): update_price_level() is a pipeline of two        *)
(* commands, ZADD or ZREM ...                                               *)
UpdateLevel ==
  /\ session = "read"
  /\ wire # <<>>
  /\ Head(wire).kind = "change"
  /\ LET levels == Head(wire).levels
     IN  zset' = [zset EXCEPT ![Head(wire).token] =
                    (@ \ DOMAIN levels) \cup LevelsOf(levels)]
  /\ session' = "write"
  /\ UNCHANGED <<enabled, pairs, sizes, attempts, subscribed, timerVars,
                 shutdown, exchangeVars, linkVars, noise>>

(* ... and HSET or HDEL of its size. *)
UpdateSize ==
  /\ session = "write"
  /\ sizes' = [sizes EXCEPT ![Head(wire).token] = Put(@, Head(wire).levels)]
  /\ wire' = Tail(wire)
  /\ session' = "read"
  /\ Rearm
  /\ UNCHANGED <<enabled, pairs, zset, attempts, subscribed, untilCheck,
                 shutdown, exchangeVars, link, announced, noise>>

(* Pings, confirmations, messages that do not parse. *)
IgnoreMessage ==
  /\ session = "read"
  /\ wire # <<>>
  /\ Head(wire).kind = "other"
  /\ wire' = Tail(wire)
  /\ Rearm
  /\ UNCHANGED <<enabled, storeVars, session, attempts, subscribed,
                 untilCheck, shutdown, exchangeVars, link, announced, noise>>

(* A number that does not parse ends the session (in a change; a level of a *)
(* snapshot is skipped).                                                    *)
RejectMessage ==
  /\ session = "read"
  /\ wire # <<>>
  /\ Head(wire).kind = "bad"
  /\ Fails
  /\ UNCHANGED <<enabled, storeVars, shutdown, exchangeVars, noise>>

(* kill_switch_interval: the session goes on only if the switch is read,    *)
(* and on.  (The branch that writes statistics starts the loop over, too.)  *)
CheckSwitch ==
  /\ session = "read"
  /\ untilCheck = 0
  /\ \/ /\ enabled
        /\ untilCheck' = CheckInterval
        /\ Rearm
        /\ UNCHANGED <<session, attempts, subscribed, linkVars>>
     \/ Closes
  /\ UNCHANGED <<enabled, storeVars, shutdown, exchangeVars, noise>>

(* timeout(heartbeat_timeout, read.next()) has expired. *)
HeartbeatExpires ==
  /\ session = "read"
  /\ heartbeat = 0
  /\ Fails
  /\ UNCHANGED <<enabled, storeVars, shutdown, exchangeVars, noise>>

(* The exchange has closed the stream, and all of it is read. *)
StreamEnds ==
  /\ session = "read"
  /\ link = "closed"
  /\ wire = <<>>
  /\ Closes
  /\ UNCHANGED <<enabled, storeVars, shutdown, exchangeVars, noise>>

(* shutdown_rx.recv() takes the signal off the channel, and the loop of     *)
(* run() will not find it there.                                            *)
ReceiveShutdown ==
  /\ session = "read"
  /\ shutdown = "sent"
  /\ shutdown' = "received"
  /\ Closes
  /\ UNCHANGED <<enabled, storeVars, exchangeVars, noise>>

-----------------------------------------------------------------------------
(* The environment.  Time passes only while nothing periodic is due. *)

Tick ==
  /\ session = "read"
  /\ heartbeat > 0
  /\ untilCheck > 0
  /\ heartbeat' = heartbeat - 1
  /\ untilCheck' = untilCheck - 1
  /\ UNCHANGED <<enabled, storeVars, session, attempts, subscribed,
                 shutdown, exchangeVars, linkVars, noise>>

(* A trade or a quote changes the book of t, and who has its snapshot is    *)
(* told.                                                                    *)
BookChanges(t) ==
  /\ changes < MaxChanges
  /\ link = "open" /\ t \in announced => Len(wire) < MaxWire
  /\ changes' = changes + 1
  /\ \E p \in Prices, n \in 0 .. MaxSize :
       /\ n # book[t][p]
       /\ book' = [book EXCEPT ![t][p] = n]
       /\ wire' = IF link = "open" /\ t \in announced
                    THEN Append(wire, [kind |-> "change", token |-> t,
                                       levels |-> [q \in {p} |-> n]])
                    ELSE wire
  /\ UNCHANGED <<enabled, storeVars, session, attempts, subscribed,
                 timerVars, shutdown, listed, link, announced, noise>>

SendSnapshot(t) ==
  /\ link = "open"
  /\ t[1] \in subscribed
  /\ t \notin announced
  /\ Len(wire) < MaxWire
  /\ announced' = announced \cup {t}
  /\ wire' = Append(wire, [kind |-> "snapshot", token |-> t, levels |-> book[t]])
  /\ UNCHANGED <<enabled, storeVars, session, attempts, subscribed,
                 timerVars, shutdown, exchangeVars, link, noise>>

Disturb == noise < MaxNoise /\ noise' = noise + 1

SendNoise ==
  /\ Disturb
  /\ link = "open"
  /\ Len(wire) < MaxWire
  /\ \E kind \in {"bad", "other"}, t \in Tokens :
       wire' = Append(wire, [kind |-> kind, token |-> t, levels |-> NoLevels])
  /\ UNCHANGED <<enabled, storeVars, session, attempts, subscribed,
                 timerVars, shutdown, exchangeVars, link, announced>>

(* The exchange closes the stream, or nothing comes through any more. *)
LinkBreaks ==
  /\ Disturb
  /\ link = "open"
  /\ link' \in {"silent", "closed"}
  /\ UNCHANGED <<enabled, storeVars, session, attempts, subscribed,
                 timerVars, shutdown, exchangeVars, announced, wire>>

(* Fetching, connecting, reading or a command of Redis fails; a pipeline    *)
(* may have been carried out in part.                                       *)
SessionFails ==
  /\ Disturb
  /\ session \in {"fetch", "connect", "read", "write"}
  /\ Fails
  /\ UNCHANGED <<enabled, storeVars, shutdown, exchangeVars>>

Crash ==
  /\ Disturb
  /\ session # "down"
  /\ session' = "down"
  /\ attempts' = 0
  /\ Disconnect
  /\ UNCHANGED <<enabled, storeVars, shutdown, exchangeVars>>

(* Ctrl-C; only the first one is listened for. *)
Shutdown ==
  /\ Disturb
  /\ session # "down"
  /\ shutdown = "none"
  /\ shutdown' = "sent"
  /\ UNCHANGED <<enabled, storeVars, session, attempts, subscribed,
                 timerVars, exchangeVars, linkVars>>

(* The exchange lists or delists a market. *)
Relist(m) ==
  /\ Disturb
  /\ listed' = IF m \in listed THEN listed \ {m} ELSE listed \cup {m}
  /\ UNCHANGED <<enabled, storeVars, session, attempts, subscribed,
                 timerVars, shutdown, book, changes, linkVars>>

OperatorFlipsSwitch ==
  /\ enabled' = ~ enabled
  /\ UNCHANGED <<storeVars, session, attempts, subscribed, timerVars,
                 shutdown, exchangeVars, linkVars, noise>>

-----------------------------------------------------------------------------
ReadMessage ==
  \/ ApplySnapshot \/ UpdateLevel \/ IgnoreMessage \/ RejectMessage

SessionStep ==
  \/ GateShutdown \/ GateWaits \/ WakeUp \/ NothingListed
  \/ \E m \in Markets : Register(m)
  \/ ReadMessage \/ UpdateSize \/ CheckSwitch \/ HeartbeatExpires
  \/ StreamEnds \/ ReceiveShutdown

Exchange ==
  \/ \E t \in Tokens : BookChanges(t) \/ SendSnapshot(t)
  \/ \E m \in Markets : Relist(m)
  \/ SendNoise \/ LinkBreaks

FeedNext ==
  \/ SessionStep \/ Boot \/ GateOpens \/ FetchMarkets \/ Connect
  \/ Tick \/ Exchange
  \/ SessionFails \/ Crash \/ Shutdown \/ OperatorFlipsSwitch

FeedSpec == FeedInit /\ [][FeedNext]_feedVars

(* The service runs whatever is ready, timers fire, and a failed container  *)
(* is started again.  Reading the switch, fetching and connecting may fail, *)
(* but not for ever.                                                        *)
FeedFairness ==
  /\ WF_feedVars(SessionStep)
  /\ WF_feedVars(CheckSwitch)
  /\ WF_feedVars(HeartbeatExpires)
  /\ WF_feedVars(Boot)
  /\ WF_feedVars(Tick)
  /\ SF_feedVars(GateOpens)
  /\ SF_feedVars(FetchMarkets)
  /\ SF_feedVars(Connect)

FeedFairSpec == FeedSpec /\ FeedFairness

-----------------------------------------------------------------------------
(* Properties *)

(* Nothing about t is under way: the exchange has sent its snapshot and all *)
(* that followed is applied.                                                *)
InSync(t) ==
  /\ link = "open"
  /\ t \in announced
  /\ \A i \in 1 .. Len(wire) : wire[i].token # t \/ wire[i].levels = NoLevels

(* What Redis holds of a token that is in sync is the exchange's book: no   *)
(* level of an earlier session is left, none is missing and every size is   *)
(* the right one, whatever was half-written when an earlier session ended   *)
(* (apply_snapshot_atomic, update_price_level).                             *)
CacheIsBook ==
  \A t \in Tokens : InSync(t) => /\ zset[t] = LevelsOf(book[t])
                                 /\ sizes[t] = book[t]

(* Why: whenever a session is on, the last word on a price is right, be it  *)
(* still under way or in Redis.                                             *)
LastMention(i, t, p) ==
  /\ Mentions(wire[i], t, p)
  /\ \A j \in i + 1 .. Len(wire) : ~ Mentions(wire[j], t, p)

WireInv ==
  link = "open" =>
    \A t \in announced, p \in Prices, i \in 1 .. Len(wire) :
      LastMention(i, t, p) => wire[i].levels[p] = book[t][p]

StoreInv ==
  link = "open" =>
    \A t \in announced, p \in Prices :
      (\A i \in 1 .. Len(wire) : ~ Mentions(wire[i], t, p))
        => /\ p \in zset[t] <=> book[t][p] > 0
           /\ sizes[t][p] = book[t][p]

SessionInv ==
  /\ link # "none" <=> session \in {"read", "write"}
  /\ link = "none" => wire = <<>> /\ announced = {}
  /\ \A i \in 1 .. Len(wire) :
       /\ wire[i].kind = "snapshot" => DOMAIN wire[i].levels = Prices
       /\ wire[i].kind \in {"bad", "other"} => wire[i].levels = NoLevels
  /\ session = "write" =>
       /\ wire # <<>>
       /\ \A p \in DOMAIN Head(wire).levels :
            p \in zset[Head(wire).token] <=> Head(wire).levels[p] > 0

FeedInv == TypeOK /\ SessionInv /\ WireInv /\ StoreInv

(* However sessions end, while trading is enabled and markets are listed    *)
(* the service comes back to reading (run(), and the container's restart).  *)
FeedComesBack ==
  <>[](enabled /\ listed # {}) => []<>(session = "read")

-----------------------------------------------------------------------------
(* A statement of a document that the code does not keep, checked by a run  *)
(* that expects a violation.                                                *)

(* .github/copilot-instructions 2.md:38, "Heartbeat: Force reconnect after  *)
(* 60s silence": while trading is enabled, a connection that has gone       *)
(* silent is given up.                                                      *)
SilenceIsNoticed ==
  <>[]enabled => (link = "silent" ~> link # "silent")
=============================================================================
