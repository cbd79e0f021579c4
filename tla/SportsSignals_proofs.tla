-------------------------- MODULE SportsSignals_proofs --------------------------
(***************************************************************************)
(* Theorems about HistoryStore and SportsSignals, which writes to it: for  *)
(* any leagues' games, teams, markets and titles, any prices and chances,  *)
(* and any bounds.                                                         *)
(*                                                                         *)
(* The argument: the history lacks a row only for a call that is made next *)
(* or for a fault (StoreInv).  What is known of a market was found by its  *)
(* title (KnownInv), and the numbers at hand passed the checks of the      *)
(* generator (QuoteInv).                                                   *)
(***************************************************************************)
EXTENDS SportsSignals, TLAPS

-----------------------------------------------------------------------------
(* The history *)

Calls == {"none", "trades", "days", "positions", "signals"}

StoreTypeOK ==
  /\ rows \in [Tables -> Int]
  /\ done \in Nat /\ faults \in Nat
  /\ call \in Calls
  /\ writer \in {"sports", "latency", "alpha"}

(* Each service makes its own calls only. *)
CallInv ==
  /\ writer = "sports" => call \in {"none", "signals"}
  /\ writer = "latency" => call \in {"none", "trades", "days"}
  /\ writer = "alpha" => call \in {"none", "positions", "trades"}
  /\ hadTables => schema

StoreInv == StoreTypeOK /\ CallInv /\ HistoryFollows

(* What HistoryFollows says of one table that the service writes. *)
RowsFollow(t, n, late) ==
  rows[t] <= n - late /\ n - late - faults <= rows[t]

RowsFit ==
  hadTables => \A t \in TablesOf :
                 RowsFollow(t, done, IF t \in Awaited THEN 1 ELSE 0)

LEMMA FollowTables == StoreTypeOK => (HistoryFollows <=> RowsFit)
<1> SUFFICES ASSUME StoreTypeOK PROVE HistoryFollows <=> RowsFit
  OBVIOUS
<1>1. \A t \in TablesOf : rows[t] \in Int
  BY DEF StoreTypeOK, TablesOf, Tables
<1> QED BY <1>1 DEF StoreTypeOK, HistoryFollows, RowsFit, RowsFollow

LEMMA StoreInit == HistoryInit => StoreInv
<1> SUFFICES ASSUME HistoryInit PROVE StoreInv
  OBVIOUS
<1>1. StoreTypeOK /\ CallInv
  BY HistoryStoreAssumption
     DEF HistoryInit, StoreTypeOK, CallInv, Calls, Tables
<1>2. HistoryFollows
  BY <1>1, FollowTables
     DEF HistoryInit, RowsFit, RowsFollow, TablesOf, Awaited, StoreTypeOK, Tables
<1> QED BY <1>1, <1>2 DEF StoreInv

(* A call: the row is there, or one more fault; and it is no longer due. *)
LEMMA RecordStep ==
  ASSUME StoreInv, NEW t \in Tables, call = t,
         Record(t), call' \in Calls
  PROVE  /\ StoreTypeOK'
         /\ writer' = writer /\ hadTables' = hadTables /\ done' = done
         /\ hadTables => schema'
         /\ hadTables =>
              \A u \in Tables :
                IF u = t
                THEN /\ rows'[u] <= rows[u] + 1
                     /\ rows[u] + 1 - (faults' - faults) <= rows'[u]
                ELSE rows'[u] = rows[u] /\ faults <= faults'
<1> USE DEF StoreInv, StoreTypeOK, CallInv, Record
<1>1. CASE Written(t)
  BY <1>1 DEF Written, Tables
<1>2. CASE NotWritten
  BY <1>2 DEF NotWritten, Fault, Tables
<1>3. CASE NoTables
  BY <1>3 DEF NoTables, Tables
<1> QED BY <1>1, <1>2, <1>3

LEMMA CallStep ==
  ASSUME StoreInv, NEW t \in Tables, call = t, t \in TablesOf, Record(t),
         call' = IF t = "trades" /\ writer = "latency" THEN "days"
                 ELSE IF t = "positions" THEN "trades" ELSE "none"
  PROVE  StoreInv'
<1>1. call' \in Calls
  BY DEF Calls
<1>2. /\ StoreTypeOK'
      /\ writer' = writer /\ hadTables' = hadTables /\ done' = done
      /\ hadTables => schema'
      /\ hadTables =>
           \A u \in Tables :
             IF u = t
             THEN /\ rows'[u] <= rows[u] + 1
                  /\ rows[u] + 1 - (faults' - faults) <= rows'[u]
             ELSE rows'[u] = rows[u] /\ faults <= faults'
  BY <1>1, RecordStep
<1>3. CallInv'
  BY <1>2 DEF StoreInv, StoreTypeOK, CallInv, Tables, TablesOf
<1>4. hadTables => \A u \in TablesOf :
        RowsFollow(u, done, IF u \in Awaited THEN 1 ELSE 0)
  BY FollowTables DEF StoreInv, RowsFit
<1>5. TablesOf' = TablesOf /\ TablesOf \subseteq Tables
  BY <1>2 DEF TablesOf, Tables
<1>6. t \in Awaited /\ Awaited' = Awaited \ {t}
  BY <1>2 DEF Awaited, TablesOf, StoreInv, StoreTypeOK, CallInv, Tables
<1>7. ASSUME hadTables, NEW u \in TablesOf
      PROVE  RowsFollow(u, done, IF u \in Awaited THEN 1 ELSE 0)'
  <2>1. /\ rows[u] \in Int /\ rows'[u] \in Int /\ faults \in Nat
        /\ faults' \in Nat /\ done \in Nat
    BY <1>2, <1>5 DEF StoreInv, StoreTypeOK
  <2>2. RowsFollow(u, done, IF u \in Awaited THEN 1 ELSE 0)
    BY <1>4, <1>7
  <2>3. CASE u = t
    BY <1>2, <1>5, <1>6, <1>7, <2>1, <2>2, <2>3 DEF RowsFollow
  <2>4. CASE u # t
    BY <1>2, <1>5, <1>6, <1>7, <2>1, <2>2, <2>4 DEF RowsFollow
  <2> QED BY <2>3, <2>4
<1>8. StoreTypeOK' => (HistoryFollows' <=> RowsFit')
  BY FollowTables, PTL
<1> QED BY <1>2, <1>3, <1>5, <1>7, <1>8 DEF StoreInv, RowsFit

(* Work that is done but not yet recorded, or that a fault lost.           *)
LEMMA WorkStep ==
  ASSUME StoreInv, call = "none", done' \in {done, done + 1}, faults' \in Nat,
         UNCHANGED <<writer, hadTables, rows>>, schema => schema',
         \/ call' # "none" /\ done' = done + 1 /\ faults' = faults
         \/ call' = "none" /\ done' = done /\ faults <= faults'
         \/ call' = "none" /\ faults' = faults + 1,
         CallInv', call' \in Calls,
         writer = "latency" => call' \in {"none", "trades"},
         writer = "alpha" => call' \in {"none", "positions"}
  PROVE  StoreInv'
<1>1. StoreTypeOK'
  BY DEF StoreInv, StoreTypeOK
<1>2. hadTables => \A u \in TablesOf : RowsFollow(u, done, 0)
  BY FollowTables DEF StoreInv, RowsFit, Awaited
<1>3. TablesOf' = TablesOf /\ TablesOf \subseteq Tables
  BY DEF TablesOf, Tables
<1>4. Awaited' = IF call' = "none" THEN {} ELSE TablesOf
  BY <1>3 DEF Awaited, TablesOf, CallInv, Calls, StoreInv, StoreTypeOK
<1>5. ASSUME hadTables, NEW u \in TablesOf
      PROVE  RowsFollow(u, done, IF u \in Awaited THEN 1 ELSE 0)'
  <2>1. rows[u] \in Int /\ rows' = rows /\ faults \in Nat /\ done \in Nat
    BY <1>3 DEF StoreInv, StoreTypeOK
  <2>2. RowsFollow(u, done, 0)
    BY <1>2, <1>5
  <2> QED BY <1>4, <2>1, <2>2 DEF RowsFollow
<1>6. StoreTypeOK' => (HistoryFollows' <=> RowsFit')
  BY FollowTables, PTL
<1> QED BY <1>1, <1>3, <1>5, <1>6 DEF StoreInv, RowsFit

(* The end of the process, with or without a call under way. *)
LEMMA EndStep ==
  ASSUME StoreInv, ProcessEnds
  PROVE  StoreInv'
<1> USE DEF ProcessEnds, Fault
<1>1. StoreTypeOK' /\ CallInv'
  BY DEF StoreInv, StoreTypeOK, CallInv, Calls
<1>2. hadTables => \A u \in TablesOf :
        RowsFollow(u, done, IF u \in Awaited THEN 1 ELSE 0)
  BY FollowTables DEF StoreInv, RowsFit
<1>3. TablesOf' = TablesOf /\ TablesOf \subseteq Tables /\ Awaited' = {}
  BY DEF TablesOf, Tables, Awaited
<1>4. ASSUME hadTables, NEW u \in TablesOf
      PROVE  RowsFollow(u, done, IF u \in Awaited THEN 1 ELSE 0)'
  <2>1. /\ rows[u] \in Int /\ rows' = rows /\ faults \in Nat /\ done \in Nat
        /\ done' = done /\ faults' = faults + 1
    BY <1>3 DEF StoreInv, StoreTypeOK
  <2>2. RowsFollow(u, done, IF u \in Awaited THEN 1 ELSE 0)
    BY <1>2, <1>4
  <2> QED BY <1>3, <2>1, <2>2 DEF RowsFollow
<1>5. StoreTypeOK' => (HistoryFollows' <=> RowsFit')
  BY FollowTables, PTL
<1> QED BY <1>1, <1>3, <1>4, <1>5 DEF StoreInv, RowsFit

(* The services that have no module of their own here. *)
LEMMA HistoryStep == StoreInv /\ HistoryNext => StoreInv'
<1> SUFFICES ASSUME StoreInv, HistoryNext PROVE StoreInv'
  OBVIOUS
<1>1. CASE WindowEnds
  BY <1>1, WorkStep DEF WindowEnds, Work, StoreInv, StoreTypeOK, CallInv, Calls
<1>2. CASE OrderFilled
  BY <1>2, WorkStep DEF OrderFilled, Work, StoreInv, StoreTypeOK, CallInv, Calls
<1>3. CASE RecordTrade
  <2>1. /\ call = "trades" /\ Record("trades") /\ "trades" \in Tables
        /\ "trades" \in TablesOf
        /\ call' = IF writer = "latency" THEN "days" ELSE "none"
    BY <1>3 DEF RecordTrade, Tables, TablesOf, StoreInv, StoreTypeOK, CallInv
  <2> QED BY <2>1, CallStep
<1>4. CASE UpdateDailyStats
  <2>1. /\ call = "days" /\ Record("days") /\ "days" \in Tables
        /\ "days" \in TablesOf /\ call' = "none"
    BY <1>4 DEF UpdateDailyStats, Tables, TablesOf, StoreInv, StoreTypeOK,
                CallInv
  <2> QED BY <2>1, CallStep
<1>5. CASE RecordPosition
  <2>1. /\ call = "positions" /\ Record("positions") /\ "positions" \in Tables
        /\ "positions" \in TablesOf /\ call' = "trades"
    BY <1>5 DEF RecordPosition, Tables, TablesOf, StoreInv, StoreTypeOK,
                CallInv
  <2> QED BY <2>1, CallStep
<1>6. CASE OthersInit
  <2>1. UNCHANGED <<writer, hadTables, rows, done, call, faults>> /\ schema'
    BY <1>6 DEF OthersInit
  <2>2. StoreTypeOK' /\ CallInv'
    BY <2>1 DEF StoreInv, StoreTypeOK, CallInv
  <2>3. HistoryFollows'
    BY <2>1 DEF StoreInv, HistoryFollows, TablesOf, Awaited
  <2> QED BY <2>2, <2>3 DEF StoreInv
<1> QED BY <1>1, <1>2, <1>3, <1>4, <1>5, <1>6 DEF HistoryNext

-----------------------------------------------------------------------------
(* The loop *)

Quoting == {"book", "publish", "record"}

(* The call under way, and the numbers at hand. *)
PlaceInv ==
  /\ SportsTypeOK
  /\ writer # "sports" => pc = "top"
  /\ writer = "sports" => (pc = "record" <=> call = "signals")

Quotes == [market : Markets \cup {"none"}, side : Directions, home : 0 .. 99,
           left : Nat, ask : 0 .. 99]

QuoteInv ==
  /\ quote \in Quotes
  /\ yesAsk \in Nat
  /\ pc \notin Quoting => yesAsk = 0
  /\ yesAsk > 0 => /\ quote.side = "NO"
                   /\ quote.home - yesAsk >= MinEdge[league]
  /\ pc \in {"publish", "record"} => Edge(quote.ask) >= MinEdge[league]

(* What the actions of the loop do to the store: a fault at most. *)
LEMMA FaultStep ==
  ASSUME StoreInv, UNCHANGED <<tableVars, done>>, call = "none",
         faults' \in {faults, faults + 1}
  PROVE  StoreInv'
<1>1. faults' \in Nat /\ CallInv' /\ call' \in Calls
  BY DEF StoreInv, StoreTypeOK, CallInv, Calls, tableVars
<1> QED BY <1>1, WorkStep DEF tableVars, StoreInv, StoreTypeOK

LEMMA StoreStep ==
  StoreInv /\ PlaceInv /\ [SportsNext]_sportsVars => StoreInv'
<1> SUFFICES ASSUME StoreInv, PlaceInv, [SportsNext]_sportsVars
             PROVE  StoreInv'
  OBVIOUS
<1>a. pc \notin {"top", "record"} => call = "none"
  BY DEF PlaceInv, SportsTypeOK, StoreInv, StoreTypeOK, CallInv
<1>b. pc = "top" /\ writer = "sports" => call = "none"
  BY DEF PlaceInv, SportsTypeOK, StoreInv, StoreTypeOK, CallInv
<1> USE DEF GoTo, Fault, storeVars, tableVars
<1>1. CASE Idle
  BY <1>a, <1>b, <1>1, FaultStep DEF Idle
<1>2. CASE RoundEnds
  BY <1>a, <1>b, <1>2, FaultStep DEF RoundEnds
<1>3. CASE LeagueDone
  BY <1>a, <1>b, <1>3, FaultStep DEF LeagueDone
<1>4. CASE \E leagues \in SUBSET Leagues : ReadSwitches(leagues)
  BY <1>a, <1>b, <1>4, FaultStep DEF ReadSwitches
<1>5. CASE \E l \in Leagues : ScanLeague(l)
  BY <1>a, <1>b, <1>5, FaultStep DEF ScanLeague
<1>6. CASE \E b \in [GamesOf(league) -> Standings], slow \in BOOLEAN :
                 FetchScoreboard(b, slow)
  BY <1>a, <1>b, <1>6, FaultStep DEF FetchScoreboard
<1>7. CASE \E found \in SUBSET Listed[league] : Discover(found)
  BY <1>a, <1>b, <1>7, FaultStep DEF Discover
<1>8. CASE \E m \in todo : \E home \in Chances, left \in Lefts :
                 EvaluateMarket(m, home, left)
  BY <1>a, <1>b, <1>8, FaultStep DEF EvaluateMarket
<1>9. CASE \E m \in todo : NoLiveGame(m)
  BY <1>a, <1>b, <1>9, FaultStep DEF NoLiveGame
<1>10. CASE NoSignal
  BY <1>a, <1>b, <1>10, FaultStep DEF NoSignal
<1>11. CASE Publish
  <2>1. /\ pc = "publish" /\ done' = done + 1 /\ call' = "signals"
        /\ UNCHANGED <<writer, schema, hadTables, rows, faults>>
    BY <1>11 DEF Publish
  <2>2. writer = "sports" /\ call = "none"
    BY <1>a, <2>1 DEF PlaceInv
  <2>3. CallInv' /\ call' \in Calls
    BY <2>1, <2>2 DEF StoreInv, CallInv, Calls
  <2> QED BY <2>1, <2>2, <2>3, WorkStep DEF StoreInv, StoreTypeOK
<1>12. CASE RecordSignal
  <2>1. pc = "record" /\ Record("signals") /\ call' = "none"
    BY <1>12 DEF RecordSignal
  <2>2. writer = "sports" /\ call = "signals"
    BY <2>1 DEF PlaceInv
  <2>3. "signals" \in Tables /\ "signals" \in TablesOf
    BY <2>2 DEF Tables, TablesOf
  <2> QED BY <2>1, <2>2, <2>3, CallStep
<1>13. CASE \E ask \in Asks : CreateSignal(ask)
  BY <1>a, <1>b, <1>13, FaultStep DEF CreateSignal
<1>14. CASE \E sent \in BOOLEAN : PublishFails(sent)
  <2>1. /\ pc = "publish" /\ done' \in {done, done + 1}
        /\ faults' = faults + 1
        /\ UNCHANGED tableVars
    BY <1>14 DEF PublishFails
  <2>2. call = "none" /\ call' = "none"
    BY <1>a, <2>1
  <2>3. CallInv' /\ call' \in Calls
    BY <2>1, <2>2 DEF StoreInv, CallInv, Calls
  <2> QED BY <2>1, <2>2, <2>3, WorkStep DEF StoreInv, StoreTypeOK
<1>15. CASE Crash
  BY <1>15, EndStep DEF Crash
<1>16. CASE Others
  BY <1>16, HistoryStep DEF Others
<1>17. CASE UNCHANGED sportsVars
  BY <1>17 DEF sportsVars, StoreInv, StoreTypeOK, CallInv, HistoryFollows,
              TablesOf, Awaited
<1> QED
  BY <1>1, <1>2, <1>3, <1>4, <1>5, <1>6, <1>7, <1>8, <1>9,
     <1>10, <1>11, <1>12, <1>13, <1>14, <1>15, <1>16, <1>17
  DEF SportsNext, Round

LEMMA PlaceStep ==
  StoreInv /\ PlaceInv /\ [SportsNext]_sportsVars => PlaceInv'
<1> SUFFICES ASSUME StoreInv, PlaceInv, [SportsNext]_sportsVars
             PROVE  PlaceInv'
  OBVIOUS
<1>a. StaleAge \in Nat
  BY SportsSignalsAssumption
<1>b. age' \in age .. StaleAge + 1 => age' \in 0 .. StaleAge + 1
  BY <1>a DEF PlaceInv, SportsTypeOK
<1>c. pc \notin {"top", "record"} => call = "none" /\ writer = "sports"
  BY DEF PlaceInv, SportsTypeOK, StoreInv, StoreTypeOK, CallInv
<1>d. \A l \in Leagues : Listed[l] \subseteq Markets
  BY DEF Markets
<1>e. 0 \in 0 .. StaleAge + 1
  BY <1>a
<1>f. StoreInv'
  BY StoreStep
<1> USE DEF GoTo, storeVars, tableVars, scanVars, marketVars, PlaceInv,
            SportsTypeOK, Waits, ScanOver, RoundOver
<1>1. CASE Idle
  BY <1>b, <1>c, <1>d, <1>e, <1>1 DEF Idle, Leagues
<1>2. CASE RoundEnds
  BY <1>b, <1>c, <1>d, <1>e, <1>2 DEF RoundEnds, Leagues
<1>3. CASE LeagueDone
  BY <1>b, <1>c, <1>d, <1>e, <1>3 DEF LeagueDone
<1>4. CASE \E leagues \in SUBSET Leagues : ReadSwitches(leagues)
  BY <1>b, <1>c, <1>d, <1>e, <1>4 DEF ReadSwitches
<1>5. CASE \E l \in Leagues : ScanLeague(l)
  BY <1>b, <1>c, <1>d, <1>e, <1>5 DEF ScanLeague, Leagues
<1>6. CASE \E b \in [GamesOf(league) -> Standings], slow \in BOOLEAN :
                 FetchScoreboard(b, slow)
  BY <1>b, <1>c, <1>d, <1>e, <1>6 DEF FetchScoreboard, Fault
<1>7. CASE \E found \in SUBSET Listed[league] : Discover(found)
  BY <1>b, <1>c, <1>d, <1>e, <1>7 DEF Discover
<1>8. CASE \E m \in todo : \E home \in Chances, left \in Lefts :
                 EvaluateMarket(m, home, left)
  BY <1>b, <1>c, <1>d, <1>e, <1>8 DEF EvaluateMarket
<1>9. CASE \E m \in todo : NoLiveGame(m)
  BY <1>b, <1>c, <1>d, <1>e, <1>9 DEF NoLiveGame
<1>10. CASE NoSignal
  BY <1>b, <1>c, <1>d, <1>e, <1>10 DEF NoSignal, NextSide
<1>11. CASE Publish
  BY <1>b, <1>c, <1>d, <1>e, <1>11 DEF Publish
<1>12. CASE RecordSignal
  BY <1>b, <1>c, <1>d, <1>e, <1>12 DEF RecordSignal, NextSide, Record
<1>13. CASE \E ask \in Asks : CreateSignal(ask)
  BY <1>b, <1>c, <1>d, <1>e, <1>13 DEF CreateSignal
<1>14. CASE \E sent \in BOOLEAN : PublishFails(sent)
  BY <1>b, <1>c, <1>d, <1>e, <1>14 DEF PublishFails, Leagues
<1>15. CASE Crash
  BY <1>b, <1>c, <1>d, <1>e, <1>15 DEF Crash, ProcessEnds, LongAgo, NoMarkets, Leagues
<1>16. CASE Others
  BY <1>16 DEF Others, HistoryNext, WindowEnds, OrderFilled, Work, RecordTrade,
               UpdateDailyStats, RecordPosition, Record, OthersInit, StoreInv,
               StoreTypeOK, CallInv
<1>17. CASE UNCHANGED sportsVars
  BY <1>17 DEF sportsVars
<1> QED
  BY <1>1, <1>2, <1>3, <1>4, <1>5, <1>6, <1>7, <1>8, <1>9,
     <1>10, <1>11, <1>12, <1>13, <1>14, <1>15, <1>16, <1>17
  DEF SportsNext, Round

(* A quote with another ask, or on the other side. *)
LEMMA AskReplaced ==
  ASSUME NEW q \in Quotes, NEW ask \in 0 .. 99, NEW r,
         r = [q EXCEPT !.ask = ask]
  PROVE  /\ r \in Quotes
         /\ r.side = q.side /\ r.home = q.home /\ r.market = q.market
<1> DEFINE M == Markets \cup {"none"}
<1>1. Quotes = [market : M, side : Directions, home : 0 .. 99, left : Nat,
                ask : 0 .. 99]
  BY DEF Quotes
<1> HIDE DEF M
<1> QED BY <1>1

LEMMA SideReplaced ==
  ASSUME NEW q \in Quotes, NEW r,
         r = [q EXCEPT !.side = "NO", !.ask = 0]
  PROVE  /\ r \in Quotes
         /\ r.side = "NO" /\ r.home = q.home /\ r.market = q.market
<1> DEFINE M == Markets \cup {"none"}
           p == [q EXCEPT !.side = "NO"]
<1>1. Quotes = [market : M, side : Directions, home : 0 .. 99, left : Nat,
                ask : 0 .. 99]
  BY DEF Quotes
<1>2. "NO" \in Directions
  BY DEF Directions
<1> HIDE DEF M
<1>3. /\ p \in Quotes
      /\ p.side = "NO" /\ p.home = q.home /\ p.market = q.market
  BY <1>1, <1>2
<1>4. r = [p EXCEPT !.ask = 0]
  BY Zenon
<1>5. 0 \in 0 .. 99
  OBVIOUS
<1> HIDE DEF p
<1>6. /\ r \in Quotes
      /\ r.side = p.side /\ r.home = p.home /\ r.market = p.market
  <2>1. ASSUME NEW q1 \in Quotes, q1 = p
        PROVE  /\ r \in Quotes
               /\ r.side = q1.side /\ r.home = q1.home /\ r.market = q1.market
    <3>1. r = [q1 EXCEPT !.ask = 0]
      BY <1>4, <2>1, Zenon
    <3> QED BY <1>5, <3>1, AskReplaced, Zenon
  <2> QED BY <1>3, <2>1, Zenon
<1> QED BY <1>3, <1>6, Zenon

LEMMA QuoteStep ==
  PlaceInv /\ QuoteInv /\ [SportsNext]_sportsVars => QuoteInv'
<1> SUFFICES ASSUME PlaceInv, QuoteInv, [SportsNext]_sportsVars
             PROVE  QuoteInv'
  OBVIOUS
<1>a. /\ MinEdge \in [Leagues -> Nat] /\ StaleAge \in Nat
      /\ Chances \subseteq 1 .. 99 /\ Asks \subseteq 1 .. 99
      /\ Lefts \subseteq Nat
  BY SportsSignalsAssumption
<1>b. league \in Leagues
  BY DEF PlaceInv, SportsTypeOK
<1>c. NoQuote \in Quotes
  BY DEF NoQuote, Quotes, Directions
<1>d. ASSUME quote' = NoQuote, yesAsk' = 0, pc' \notin {"publish", "record"}
      PROVE  QuoteInv'
  BY <1>c, <1>d DEF QuoteInv
<1>e. ASSUME UNCHANGED <<quote, yesAsk>>, UNCHANGED league \/ yesAsk = 0,
             pc \notin Quoting, pc' \notin Quoting
      PROVE  QuoteInv'
  BY <1>e DEF QuoteInv, Quoting
<1> USE DEF GoTo, scanVars, QuoteInv
<1>1. CASE Idle
  BY <1>d, <1>1 DEF Idle, RoundOver, ScanOver
<1>2. CASE RoundEnds
  BY <1>d, <1>2 DEF RoundEnds, RoundOver, ScanOver
<1>3. CASE LeagueDone
  BY <1>d, <1>3 DEF LeagueDone, ScanOver
<1>4. CASE \E leagues \in SUBSET Leagues : ReadSwitches(leagues)
  BY <1>e, <1>4 DEF ReadSwitches, Quoting
<1>5. CASE \E l \in Leagues : ScanLeague(l)
  BY <1>e, <1>5 DEF ScanLeague, Quoting
<1>6. CASE \E b \in [GamesOf(league) -> Standings], slow \in BOOLEAN :
                 FetchScoreboard(b, slow)
  BY <1>e, <1>6 DEF FetchScoreboard, Quoting
<1>7. CASE \E found \in SUBSET Listed[league] : Discover(found)
  BY <1>e, <1>7 DEF Discover, Quoting
<1>8. CASE \E m \in todo : \E home \in Chances, left \in Lefts :
                 EvaluateMarket(m, home, left)
  <2>1. PICK m \in todo, home \in Chances, left \in Lefts :
          EvaluateMarket(m, home, left)
    BY <1>8
  <2>2. m \in Markets
    BY DEF PlaceInv, SportsTypeOK
  <2> QED BY <1>a, <2>1, <2>2 DEF EvaluateMarket, Quotes, Directions, Quoting
<1>9. CASE \E m \in todo : NoLiveGame(m)
  BY <1>e, <1>9 DEF NoLiveGame, Quoting
<1>10. CASE NoSignal
  <2>1. CASE quote.side = "YES"
    <3>1. pc' = "book" /\ yesAsk' = 0 /\ quote' = [quote EXCEPT !.side = "NO", !.ask = 0]
      BY <1>10, <2>1 DEF NoSignal, NextSide
    <3>2. quote' \in Quotes
      BY <3>1, SideReplaced, Zenon DEF QuoteInv
    <3> QED BY <3>1, <3>2 DEF Quoting
  <2>2. CASE quote.side # "YES"
    BY <1>10, <1>d, <2>2 DEF NoSignal, NextSide
  <2> QED BY <2>1, <2>2
<1>11. CASE Publish
  BY <1>11 DEF Publish, Edge, Confidence, Quoting
<1>12. CASE RecordSignal
  <2>1. CASE quote.side = "YES"
    <3>1. /\ pc' = "book" /\ yesAsk' = quote.ask /\ UNCHANGED league
          /\ quote' = [quote EXCEPT !.side = "NO", !.ask = 0]
          /\ pc = "record"
      BY <1>12, <2>1 DEF RecordSignal, NextSide
    <3>2. quote.home - quote.ask >= MinEdge[league]
      BY <2>1, <3>1 DEF Edge, Confidence
    <3>3. quote' \in Quotes
      BY <3>1, SideReplaced, Zenon DEF QuoteInv
    <3>4. quote'.side = "NO" /\ quote'.home = quote.home
      BY <3>1, SideReplaced, Zenon DEF QuoteInv
    <3>5. yesAsk' \in Nat
      BY <3>1 DEF Quotes
    <3> QED BY <3>1, <3>2, <3>3, <3>4, <3>5 DEF Quoting
  <2>2. CASE quote.side # "YES"
    BY <1>12, <1>d, <2>2 DEF RecordSignal, NextSide
  <2> QED BY <2>1, <2>2
<1>13. CASE \E ask \in Asks : CreateSignal(ask)
  <2>1. PICK ask \in Asks : CreateSignal(ask)
    BY <1>13
  <2>2. /\ quote' = [quote EXCEPT !.ask = ask] /\ ask \in 1 .. 99
        /\ UNCHANGED <<league, yesAsk>> /\ pc' = "publish" /\ pc = "book"
        /\ Edge(ask) >= MinEdge[league]
        /\ league = "NCAAM" => age' <= StaleAge
    BY <1>a, <2>1 DEF CreateSignal, ShouldEmit
  <2>3. Edge(quote.ask)' >= MinEdge[league]'
    BY <2>2 DEF Edge, Confidence
  <2>4. ask \in 0 .. 99
    BY <2>2
  <2>5. quote' \in Quotes /\ quote'.side = quote.side
        /\ quote'.home = quote.home
    BY <2>2, <2>4, AskReplaced, Zenon DEF QuoteInv
  <2> QED BY <2>2, <2>3, <2>5 DEF Quoting
<1>14. CASE \E sent \in BOOLEAN : PublishFails(sent)
  BY <1>d, <1>14 DEF PublishFails, RoundOver, ScanOver
<1>15. CASE Crash
  BY <1>d, <1>15 DEF Crash, ScanOver
<1>16. CASE Others
  BY <1>16 DEF Others, Edge, Confidence
<1>17. CASE UNCHANGED sportsVars
  BY <1>17 DEF sportsVars, Edge, Confidence
<1> QED
  BY <1>1, <1>2, <1>3, <1>4, <1>5, <1>6, <1>7, <1>8, <1>9,
     <1>10, <1>11, <1>12, <1>13, <1>14, <1>15, <1>16, <1>17
  DEF SportsNext, Round

-----------------------------------------------------------------------------
(* What is known of the markets *)

Recognised(m, info) ==
  \E l \in Leagues :
    m \in Listed[l] /\ \E g \in GamesOf(l) : Fits(l, m, g)
                                             /\ info = MarketInfo(l, m, g)

KnownInv ==
  /\ \A m \in Markets : cache[m] = Unknown \/ Recognised(m, cache[m])
  /\ \A l \in Leagues : \A m \in active[l] : cache[m] # Unknown
  /\ \A m \in todo : cache[m] # Unknown
  /\ pc \in Quoting => /\ quote.market \in Markets
                       /\ cache[quote.market] # Unknown

LEMMA NotUnknown == \A m, info : Recognised(m, info) => info # Unknown
BY DEF Recognised, MarketInfo, Unknown

LEMMA MatchedFits ==
  ASSUME NEW l \in Leagues, NEW m, NEW b, NEW g \in MatchedGames(l, m, b)
  PROVE  g \in GamesOf(l) /\ Fits(l, m, g)
BY DEF MatchedGames, GamesOf

LEMMA KnownStep ==
  PlaceInv /\ QuoteInv /\ KnownInv /\ [SportsNext]_sportsVars
    => KnownInv'
<1> SUFFICES ASSUME PlaceInv, QuoteInv, KnownInv, [SportsNext]_sportsVars
             PROVE  KnownInv'
  OBVIOUS
<1>a. ASSUME UNCHANGED <<cache, active>>, todo' \subseteq todo,
             pc' \notin Quoting \/ (pc \in Quoting /\ quote'.market = quote.market)
      PROVE  KnownInv'
  BY <1>a DEF KnownInv
<1> USE DEF GoTo, scanVars, marketVars
<1>1. CASE Idle
  BY <1>a, <1>1 DEF Idle, RoundOver, ScanOver, Quoting
<1>2. CASE RoundEnds
  BY <1>a, <1>2 DEF RoundEnds, RoundOver, ScanOver, Quoting
<1>3. CASE LeagueDone
  BY <1>a, <1>3 DEF LeagueDone, ScanOver, Quoting
<1>4. CASE \E leagues \in SUBSET Leagues : ReadSwitches(leagues)
  BY <1>a, <1>4 DEF ReadSwitches, Quoting
<1>5. CASE \E l \in Leagues : ScanLeague(l)
  BY <1>a, <1>5 DEF ScanLeague, Quoting
<1>6. CASE \E b \in [GamesOf(league) -> Standings], slow \in BOOLEAN :
                 FetchScoreboard(b, slow)
  <2>1. UNCHANGED <<cache, active>> /\ todo' \in {{}, todo, active[league]}
        /\ pc' \notin Quoting
    BY <1>6 DEF FetchScoreboard, Quoting
  <2>2. \A m \in todo' : cache[m] # Unknown
    BY <2>1 DEF KnownInv, PlaceInv, SportsTypeOK
  <2> QED BY <2>1, <2>2 DEF KnownInv
<1>7. CASE \E found \in SUBSET Listed[league] : Discover(found)
  <2>1. PICK found \in SUBSET Listed[league] : Discover(found)
    BY <1>7
  <2>2. league \in Leagues /\ active \in [Leagues -> SUBSET Markets]
        /\ found \subseteq Markets
    BY DEF PlaceInv, SportsTypeOK, Markets
  <2>3. ASSUME NEW m \in found
        PROVE  Recognised(m, MarketInfo(league, m, CHOOSE g \in
                                 MatchedGames(league, m, board) : TRUE))
    <3>1. m \in Listed[league] /\ MatchedGames(league, m, board) # {}
      BY <2>1 DEF Discover, Matched
    <3>2. (CHOOSE g \in MatchedGames(league, m, board) : TRUE)
            \in MatchedGames(league, m, board)
      BY <3>1
    <3> QED BY <2>2, <3>1, <3>2, MatchedFits DEF Recognised
  <2>4. \A m \in Markets : /\ cache'[m] = Unknown \/ Recognised(m, cache'[m])
                           /\ cache[m] # Unknown => cache'[m] # Unknown
                           /\ m \in found => cache'[m] # Unknown
    BY <2>1, <2>3, NotUnknown DEF Discover, KnownInv
  <2>5. /\ active' = [active EXCEPT ![league] = found] /\ todo' = found
        /\ pc' = "market"
    BY <2>1 DEF Discover
  <2> QED BY <2>2, <2>4, <2>5 DEF KnownInv, Recognised, Quoting
<1>8. CASE \E m \in todo : \E home \in Chances, left \in Lefts :
                 EvaluateMarket(m, home, left)
  <2>1. PICK m \in todo, home \in Chances, left \in Lefts :
          EvaluateMarket(m, home, left)
    BY <1>8
  <2>2. m \in Markets
    BY DEF PlaceInv, SportsTypeOK
  <2> QED BY <2>1, <2>2 DEF EvaluateMarket, KnownInv, Recognised
<1>9. CASE \E m \in todo : NoLiveGame(m)
  BY <1>a, <1>9 DEF NoLiveGame, Quoting
<1>10. CASE NoSignal
  <2>1. /\ UNCHANGED <<cache, active, todo>> /\ pc \in Quoting
        /\ \/ pc' = "market"
           \/ quote' = [quote EXCEPT !.side = "NO", !.ask = 0]
    BY <1>10 DEF NoSignal, NextSide, Quoting
  <2>2. pc' \notin Quoting \/ quote'.market = quote.market
    <3>1. ASSUME quote' = [quote EXCEPT !.side = "NO", !.ask = 0]
          PROVE  quote'.market = quote.market
      BY <3>1, SideReplaced, Zenon DEF QuoteInv
    <3>2. "market" \notin Quoting
      BY DEF Quoting
    <3> QED BY <2>1, <3>1, <3>2, Zenon
  <2> QED BY <1>a, <2>1, <2>2
<1>11. CASE Publish
  BY <1>a, <1>11 DEF Publish, Quoting, QuoteInv
<1>12. CASE RecordSignal
  <2>1. /\ UNCHANGED <<cache, active, todo>> /\ pc \in Quoting
        /\ \/ pc' = "market"
           \/ quote' = [quote EXCEPT !.side = "NO", !.ask = 0]
    BY <1>12 DEF RecordSignal, NextSide, Quoting
  <2>2. pc' \notin Quoting \/ quote'.market = quote.market
    <3>1. ASSUME quote' = [quote EXCEPT !.side = "NO", !.ask = 0]
          PROVE  quote'.market = quote.market
      BY <3>1, SideReplaced, Zenon DEF QuoteInv
    <3>2. "market" \notin Quoting
      BY DEF Quoting
    <3> QED BY <2>1, <3>1, <3>2, Zenon
  <2> QED BY <1>a, <2>1, <2>2
<1>13. CASE \E ask \in Asks : CreateSignal(ask)
  BY <1>a, <1>13 DEF CreateSignal, Quoting, QuoteInv
<1>14. CASE \E sent \in BOOLEAN : PublishFails(sent)
  BY <1>a, <1>14 DEF PublishFails, RoundOver, ScanOver, Quoting
<1>15. CASE Crash
  BY <1>15 DEF Crash, ScanOver, NoMarkets, NothingKnown, KnownInv, Recognised,
              Quoting
<1>16. CASE Others
  BY <1>16 DEF Others, KnownInv, Recognised
<1>17. CASE UNCHANGED sportsVars
  BY <1>17 DEF sportsVars, KnownInv, Recognised
<1> QED
  BY <1>1, <1>2, <1>3, <1>4, <1>5, <1>6, <1>7, <1>8, <1>9,
     <1>10, <1>11, <1>12, <1>13, <1>14, <1>15, <1>16, <1>17
  DEF SportsNext, Round

-----------------------------------------------------------------------------
(* The theorems *)

SportsInv == StoreInv /\ PlaceInv /\ QuoteInv /\ KnownInv

LEMMA SportsStart == SportsInit => SportsInv
<1> SUFFICES ASSUME SportsInit PROVE SportsInv
  OBVIOUS
<1>1. StoreInv
  BY StoreInit DEF SportsInit
<1>2. PlaceInv
  BY SportsSignalsAssumption
     DEF SportsInit, HistoryInit, PlaceInv, SportsTypeOK, Leagues, LongAgo,
         NoMarkets
<1>3. QuoteInv
  <2>1. pc = "top" /\ quote = NoQuote /\ yesAsk = 0
    BY DEF SportsInit
  <2> QED BY <2>1 DEF QuoteInv, NoQuote, Quotes, Directions, Quoting
<1>4. KnownInv
  BY DEF SportsInit, KnownInv, NothingKnown, NoMarkets, Quoting
<1> QED BY <1>1, <1>2, <1>3, <1>4 DEF SportsInv

LEMMA SportsStep == SportsInv /\ [SportsNext]_sportsVars => SportsInv'
BY StoreStep, PlaceStep, QuoteStep, KnownStep DEF SportsInv

LEMMA SportsSafe == SportsSpec => []SportsInv
BY SportsStart, SportsStep, PTL DEF SportsSpec

(* main(): each variable of the service keeps its type; markets known and   *)
(* scanned are Gamma's.                                                     *)
THEOREM SportsTypes == SportsSpec => []SportsTypeOK
<1>1. SportsInv => SportsTypeOK
  BY DEF SportsInv, PlaceInv
<1> QED BY <1>1, SportsSafe, PTL

(* recordSignal(), recordTrade(), updateDailyStats(), recordPosition(): for *)
(* any amount of work and any number of faults, no table that was there     *)
(* has a row too many, or lacks more rows than there were faults.           *)
THEOREM HistoryIsFollowed == SportsSpec => []HistoryFollows
<1>1. SportsInv => HistoryFollows
  BY DEF SportsInv, StoreInv
<1> QED BY <1>1, SportsSafe, PTL

(* main(): whatever the chances, the asks and the leagues' edges, signals   *)
(* for both sides of a market made from the same scores leave both edges.   *)
THEOREM EdgesAdd == SportsSpec => []OppositeSignalsAreCheap
<1>1. SportsInv => OppositeSignalsAreCheap
  <2> SUFFICES ASSUME SportsInv, pc = "publish", yesAsk > 0
               PROVE  yesAsk + quote.ask <= 100 - 2 * MinEdge[league]
    BY DEF OppositeSignalsAreCheap
  <2>1. MinEdge[league] \in Nat
    BY SportsSignalsAssumption DEF SportsInv, PlaceInv, SportsTypeOK
  <2>2. /\ quote.side = "NO" /\ quote.home - yesAsk >= MinEdge[league]
        /\ Edge(quote.ask) >= MinEdge[league]
        /\ quote.home \in 0 .. 99 /\ quote.ask \in 0 .. 99 /\ yesAsk \in Nat
    BY DEF SportsInv, QuoteInv, Quotes
  <2>3. (100 - quote.home) - quote.ask >= MinEdge[league]
    BY <2>2 DEF Edge, Confidence
  <2>4. \A e \in Nat, h, a, b \in Int :
          h - a >= e /\ (100 - h) - b >= e => a + b <= 100 - 2 * e
    OBVIOUS
  <2>5. quote.home \in Int /\ quote.ask \in Int /\ yesAsk \in Int
    BY <2>2
  <2> QED BY <2>1, <2>2, <2>3, <2>4, <2>5, Zenon
<1> QED BY <1>1, SportsSafe, PTL

(* A title whose first name is clear, of a game it fits: whether its first  *)
(* team is at home is told by where that name stands.                       *)
LEMMA ClearSides ==
  ASSUME NEW l \in Leagues, NEW m, NEW g \in GamesOf(l), Fits(l, m, g),
         Clear(l, Title[m][1])
  PROVE  IF Team1IsHome(l, Title[m][1], g)
         THEN Means[Title[m][1]] = Home[g]
         ELSE Means[Title[m][1]] = Away[g]
<1> DEFINE n == Title[m][1]
<1>1. Home[g] # Away[g]
  BY SportsSignalsAssumption DEF Games
<1>2. /\ \A t \in {Home[g], Away[g]} :
           <<n, t>> \in Naming(l) \cup Alike => Means[n] = t
      /\ Means[n] = Home[g] => <<n, Home[g]>> \in Naming(l)
  BY DEF Clear
<1>3. Means[n] = Home[g] \/ Means[n] = Away[g]
  <2>1. CASE l = "NBA"
    <3>1. \A t : FindTeam(n) = {t} => Means[n] = t
      BY DEF FindTeam
    <3>2. \/ FindTeam(n) = {Home[g]} \/ <<n, Home[g]>> \in PartOf
          \/ FindTeam(n) = {Away[g]} \/ <<n, Away[g]>> \in PartOf
      BY <2>1 DEF Fits, MatchTeams
    <3> QED BY <1>2, <3>1, <3>2 DEF Naming
  <2>2. CASE l # "NBA"
    BY <1>2, <2>2 DEF Fits, MatchNcaaTeams, Naming
  <2> QED BY <2>1, <2>2
<1>4. Team1IsHome(l, n, g) <=> <<n, Home[g]>> \in Naming(l)
  BY DEF Team1IsHome, Naming, Leagues
<1> QED BY <1>1, <1>2, <1>3, <1>4

(* discoverMarkets(), discoverNcaaMarkets(): for any leagues, teams and     *)
(* titles, and whenever a market was found, a signal is for the token of    *)
(* the team whose chance it was made with, if the title's first name is     *)
(* clear.                                                                   *)
THEOREM RightSides == SportsSpec => []SidesAreRight
<1>1. SportsInv => SidesAreRight
  <2> DEFINE m == quote.market
             first == Title[m][1]
  <2> SUFFICES ASSUME SportsInv, pc = "publish", Clear(LeagueOf(m), first)
               PROVE  LET game == cache[m].game
                          token == IF quote.side = "YES" THEN cache[m].yes
                                                         ELSE cache[m].no
                          team == IF quote.side = "YES" THEN Home[game]
                                                        ELSE Away[game]
                          other == IF quote.side = "YES" THEN Away[game]
                                                         ELSE Home[game]
                      IN Means[first] = (IF token = 1 THEN team ELSE other)
    BY DEF SidesAreRight
  <2>1. m \in Markets /\ cache[m] # Unknown
    BY DEF SportsInv, KnownInv, Quoting
  <2>2. Recognised(m, cache[m])
    BY <2>1 DEF SportsInv, KnownInv
  <2>3. PICK l \in Leagues : /\ m \in Listed[l]
                             /\ \E g \in GamesOf(l) :
                                  /\ Fits(l, m, g)
                                  /\ cache[m] = MarketInfo(l, m, g)
    BY <2>2 DEF Recognised
  <2>4. PICK g \in GamesOf(l) : Fits(l, m, g) /\ cache[m] = MarketInfo(l, m, g)
    BY <2>3
  <2>5. LeagueOf(m) = l
    BY <2>3, SportsSignalsAssumption DEF LeagueOf, Leagues
  <2> HIDE DEF m, first
  <2>6. IF Team1IsHome(l, Title[m][1], g)
        THEN Means[Title[m][1]] = Home[g]
        ELSE Means[Title[m][1]] = Away[g]
    BY <2>4, <2>5, ClearSides DEF first
  <2> QED BY <2>4, <2>6 DEF MarketInfo, first
<1> QED BY <1>1, SportsSafe, PTL
=============================================================================
