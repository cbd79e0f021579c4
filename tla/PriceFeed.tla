------------------------------- MODULE PriceFeed -------------------------------
(***************************************************************************)
(* The price feeds of the services that watch exchanges.  A feed keeps a   *)
(* web socket open: a heartbeat timer terminates a silent one, and a timer *)
(* opens another when one has closed.  It is written in three ways:        *)
(*   - binance, coinbase: the latency bot's, plain callbacks;              *)
(*   - ticker: the momentum bot's, and                                     *)
(*   - combined: that of crypto-signals, both with a promise that the      *)
(*     caller awaits, be it main() or the timer, and that fails after ten  *)
(*     seconds.  The timer then schedules a further attempt.               *)
(*                                                                         *)
(* A delay is any time.  Failures of the exchanges and requests that take  *)
(* too long are the faults of the model.                                   *)
(***************************************************************************)
EXTENDS Integers, FiniteSets

CONSTANTS
  Setups,                \* what a service may listen to: sets of feeds
  MaxSockets,            \* bound: sockets of one feed at a time
  MaxFaults              \* bound: faults, per setup

Plain == {"binance", "coinbase"}
Promised == {"ticker", "combined"}
Feeds == Plain \cup Promised

ASSUME PriceFeedAssumption ==
  /\ Setups \subseteq SUBSET Feeds
  /\ MaxSockets \in Nat /\ MaxSockets >= 1
  /\ MaxFaults \in [Setups -> Nat]

VARIABLES
  setup,                 \* the feeds of the service at hand
  phase,                 \* its main(): down, awaits the first price, running
  socket,                \* per feed its sockets, and who awaits their promise
  newest,                \* this.ws
  timers,                \* how many reconnect timers are running
  beat,                  \* heartbeatTimer is running
  connected,             \* isConnected
  fresh,                 \* the last price is not too old for isHealthy()
  faults                 \* counter for the bound

linkVars == <<socket, newest, timers, beat, connected, fresh>>
feedVars == <<setup, phase, linkVars, faults>>

Ids == 1 .. MaxSockets
(* A socket is closed, connecting, open, mute or closing; its promise is   *)
(* awaited by nobody, main() or the timer.                                 *)
NoSocket == [state |-> "closed", caller |-> "nobody"]

-----------------------------------------------------------------------------
(* Helpers. *)

Fault == faults < MaxFaults[setup] /\ faults' = faults + 1

InState(f, states) == {i \in Ids : socket[f][i].state \in states}
Free(f) == {i \in Ids : socket[f][i] = NoSocket}

(* An open connection delivers prices; a mute one is open but does not. *)
Delivers(f) == InState(f, {"open"}) # {}

Healthy(f) == connected[f] /\ fresh[f]

AllClosed == [f \in Feeds |-> [i \in Ids |-> NoSocket]]
Nowhere == [f \in Feeds |-> FALSE]

(* Nothing of a process is left when it ends. *)
NoLinks ==
  /\ socket' = AllClosed /\ newest' = [f \in Feeds |-> 1]
  /\ timers' = [f \in Feeds |-> 0]
  /\ beat' = Nowhere /\ connected' = Nowhere /\ fresh' = Nowhere

Exit == phase' = "down" /\ NoLinks

(* this.ws = new WebSocket(...) *)
NewSocket(f, caller) ==
  LET i == CHOOSE n \in Free(f) : \A o \in Free(f) : n <= o IN
  /\ socket' = [socket EXCEPT
                  ![f][i] = [state |-> "connecting", caller |-> caller]]
  /\ newest' = [newest EXCEPT ![f] = i]

PriceFeedInit ==
  /\ setup \in Setups
  /\ phase = "down"
  /\ socket = AllClosed /\ newest = [f \in Feeds |-> 1]
  /\ timers = [f \in Feeds |-> 0]
  /\ beat = Nowhere /\ connected = Nowhere /\ fresh = Nowhere
  /\ faults = 0

-----------------------------------------------------------------------------
(* Starting and stopping. *)

(* main() awaits connect(), for both exchanges at once if there are two. *)
Connect ==
  /\ phase = "down" /\ phase' = "starting"
  /\ socket' = [f \in Feeds |-> [i \in Ids |->
                  IF f \in setup /\ i = 1
                  THEN [state |-> "connecting", caller |-> "main"]
                  ELSE NoSocket]]
  /\ UNCHANGED <<setup, newest, timers, beat, connected, fresh, faults>>

(* connect() rejects after ten or fifteen seconds, and the process exits:  *)
(* only the first sockets could have resolved it.                          *)
FirstPriceTimeout ==
  /\ phase = "starting"
  /\ IF \E f \in setup : \E i \in InState(f, {"connecting", "open"}) :
          socket[f][i].caller = "main"
     THEN Fault ELSE UNCHANGED faults
  /\ Exit
  /\ UNCHANGED setup

(* The service is told to stop, disconnects and exits; or it is killed. *)
Disconnect ==
  /\ phase # "down"
  /\ Fault
  /\ Exit
  /\ UNCHANGED setup

-----------------------------------------------------------------------------
(* What a socket meets. *)

(* Mutant: only a message starts the heartbeat. *)
OpensUnwatched(f, i) ==
  /\ socket[f][i].state = "connecting"
  /\ socket' = [socket EXCEPT ![f][i].state = "open"]
  /\ connected' = [connected EXCEPT ![f] = TRUE]
  /\ UNCHANGED <<setup, phase, newest, timers, beat, fresh, faults>>

(* 'open': the heartbeat starts. *)
Opens(f, i) ==
  /\ socket[f][i].state = "connecting"
  /\ socket' = [socket EXCEPT ![f][i].state = "open"]
  /\ connected' = [connected EXCEPT ![f] = TRUE]
  /\ beat' = [beat EXCEPT ![f] = TRUE]
  /\ UNCHANGED <<setup, phase, newest, timers, fresh, faults>>

(* 'message', on every open connection of the feed: a price. *)
Message(f) ==
  /\ Delivers(f)
  /\ phase' = IF \E i \in InState(f, {"open"}) : socket[f][i].caller = "main"
              THEN "running" ELSE phase
  /\ socket' = [socket EXCEPT ![f] = [i \in Ids |->
                  IF @[i].state = "open" THEN [@[i] EXCEPT !.caller = "nobody"]
                                         ELSE @[i]]]
  /\ fresh' = [fresh EXCEPT ![f] = TRUE]
  /\ beat' = [beat EXCEPT ![f] = TRUE]
  /\ UNCHANGED <<setup, newest, timers, connected, faults>>

(* The exchange refuses the connection or hangs up. *)
HangsUp(f, i) ==
  /\ i \in InState(f, {"connecting", "open", "mute"})
  /\ Fault
  /\ socket' = [socket EXCEPT ![f][i].state = "closing"]
  /\ UNCHANGED <<setup, phase, newest, timers, beat, connected, fresh>>

(* The connection breaks and neither end is told. *)
FallsSilent(f, i) ==
  /\ socket[f][i].state = "open"
  /\ Fault
  /\ socket' = [socket EXCEPT ![f][i].state = "mute"]
  /\ UNCHANGED <<setup, phase, newest, timers, beat, connected, fresh>>

(* The last price is five seconds old. *)
GoesStale(f) ==
  /\ fresh[f] /\ ~Delivers(f)
  /\ fresh' = [fresh EXCEPT ![f] = FALSE]
  /\ UNCHANGED <<setup, phase, socket, newest, timers, beat, connected, faults>>

-----------------------------------------------------------------------------
(* The close handlers.  Whichever socket it is that has closed, isConnected *)
(* and the heartbeat are those of the feed.                                 *)

Closed(f, i, caller, n) ==
  /\ socket' = [socket EXCEPT ![f][i] = [state |-> "closed", caller |-> caller]]
  /\ timers' = [timers EXCEPT ![f] = @ + n]
  /\ connected' = [connected EXCEPT ![f] = FALSE]
  /\ beat' = [beat EXCEPT ![f] = FALSE]
  /\ UNCHANGED <<newest, fresh, phase>>

PlainCloses(f, i) ==
  /\ f \in Plain /\ socket[f][i].state = "closing"
  /\ Closed(f, i, "nobody", 1)
  /\ UNCHANGED <<setup, faults>>

(* The promise is left to its timeout. *)
TickerCloses(f, i) ==
  /\ f = "ticker" /\ socket[f][i].state = "closing"
  /\ Closed(f, i, socket[f][i].caller, 1)
  /\ UNCHANGED <<setup, faults>>

(* The promise is rejected: main() ends the process, and the timer         *)
(* schedules an attempt besides the handler's own.                         *)
CombinedCloses(f, i) ==
  /\ f = "combined" /\ socket[f][i].state = "closing"
  /\ IF socket[f][i].caller = "main" THEN Exit
     ELSE Closed(f, i, "nobody", IF socket[f][i].caller = "timer" THEN 2 ELSE 1)
  /\ UNCHANGED <<setup, faults>>

(* The promise of an attempt without a price fails after ten seconds; the  *)
(* socket is left as it is.                                                *)
AttemptTimeout(f, i) ==
  /\ socket[f][i].caller = "timer"
  /\ IF i \in InState(f, {"connecting", "open"}) THEN Fault
                                                 ELSE UNCHANGED faults
  /\ socket' = [socket EXCEPT ![f][i].caller = "nobody"]
  /\ timers' = [timers EXCEPT ![f] = @ + 1]
  /\ UNCHANGED <<setup, phase, newest, beat, connected, fresh>>

-----------------------------------------------------------------------------
(* The timers. *)

Reconnect(f, caller) ==
  /\ timers[f] > 0 /\ Free(f) # {}
  /\ timers' = [timers EXCEPT ![f] = @ - 1]
  /\ NewSocket(f, caller)
  /\ UNCHANGED <<setup, phase, beat, connected, fresh, faults>>

PlainReconnects(f) == f \in Plain /\ Reconnect(f, "nobody")
TickerReconnects(f) == f = "ticker" /\ Reconnect(f, "timer")
CombinedReconnects(f) == f = "combined" /\ Reconnect(f, "timer")

Terminated(f) ==
  IF newest[f] \in InState(f, {"connecting", "mute"})
  THEN [socket EXCEPT ![f][newest[f]].state = "closing"]
  ELSE socket

(* Mutant: the heartbeat timer schedules an attempt itself. *)
HeartbeatReconnects(f) ==
  /\ beat[f] /\ ~Delivers(f)
  /\ beat' = [beat EXCEPT ![f] = FALSE]
  /\ socket' = Terminated(f)
  /\ timers' = [timers EXCEPT ![f] = @ + 1]
  /\ UNCHANGED <<setup, phase, newest, connected, fresh, faults>>

(* Thirty seconds without a message: this.ws.terminate(). *)
Heartbeat(f) ==
  /\ beat[f] /\ ~Delivers(f)
  /\ beat' = [beat EXCEPT ![f] = FALSE]
  /\ socket' = Terminated(f)
  /\ UNCHANGED <<setup, phase, newest, timers, connected, fresh, faults>>

-----------------------------------------------------------------------------
SocketEnds(f, i) ==
  PlainCloses(f, i) \/ TickerCloses(f, i) \/ CombinedCloses(f, i)

FeedReconnects(f) ==
  PlainReconnects(f) \/ TickerReconnects(f) \/ CombinedReconnects(f)

(* The steps that need no fault. *)
LinkGoesOn ==
  \/ Connect
  \/ FirstPriceTimeout /\ UNCHANGED faults
  \/ \E f \in setup : FeedReconnects(f) \/ Heartbeat(f) \/ GoesStale(f)
  \/ \E f \in setup, i \in Ids :
       \/ Opens(f, i) \/ SocketEnds(f, i)
       \/ AttemptTimeout(f, i) /\ UNCHANGED faults

(* Every step but a message, which the services do something with. *)
LinkNext ==
  \/ Connect \/ FirstPriceTimeout \/ Disconnect
  \/ \E f \in setup : GoesStale(f) \/ FeedReconnects(f) \/ Heartbeat(f)
  \/ \E f \in setup, i \in Ids :
       \/ Opens(f, i) \/ HangsUp(f, i) \/ FallsSilent(f, i)
       \/ SocketEnds(f, i) \/ AttemptTimeout(f, i)

=============================================================================
