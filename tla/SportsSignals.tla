---------------------------- MODULE SportsSignals ----------------------------
(***************************************************************************)
(* The sports signal service (sports-signals/src).  A loop reads the       *)
(* scoreboard of each league that is switched on, from time to time asks   *)
(* Gamma for the league's markets and which game each is about, and for    *)
(* every market of a live game compares the chance to win of both teams    *)
(* with the asks of their tokens.  Signals go to the executor and into the *)
(* history.                                                                *)
(*                                                                         *)
(* A chance is any number of Chances: the formulas of the two models are   *)
(* left out, and so is the clock of a game but for the time that is left.  *)
(* Prices, chances and edges are in percent, times in minutes.             *)
(***************************************************************************)
EXTENDS HistoryStore

CONSTANTS
  Schedule,              \* per league its games in the order of ESPN's answer
  Home, Away,            \* the teams of a game
  Listed,                \* per league the markets at Gamma
  Title,                 \* of a market, the names of two teams
  Means,                 \* the team that a name stands for
  Known,                 \* names that findTeam() knows
  KnownTeams,            \* teams it knows by ESPN's name
  PartOf,                \* <<name, team>>: the name is part of ESPN's
  Alike,                 \* <<name, team>>: it has the first word of ESPN's
  SchoolIn,              \* <<name, team>>: its school's name is part of ESPN's
  MinEntry, MaxEntry, MinEdge,      \* per league
  GameTime, MinLeft,     \* of an NCAA game, and minTimeRemainingSec
  Chances, Lefts, Asks,  \* what scores and books may show
  StaleAge               \* scoreStaleMs, in steps of a score's age

Leagues == {"NBA", "NCAAM"}
Directions == {"YES", "NO"}
Markets == UNION {Listed[l] : l \in Leagues}
GamesOf(l) == {Schedule[l][n] : n \in DOMAIN Schedule[l]}
Games == UNION {GamesOf(l) : l \in Leagues}
Standings == {"absent", "later", "live"}

ASSUME SportsSignalsAssumption ==
  /\ \A g \in Games : Home[g] # Away[g]
  /\ Listed["NBA"] \cap Listed["NCAAM"] = {}
  /\ Chances \subseteq 1 .. 99 /\ Asks \subseteq 1 .. 99 /\ Lefts \subseteq Nat
  /\ MinEntry \in [Leagues -> Nat] /\ MaxEntry \in [Leagues -> Nat]
  /\ MinEdge \in [Leagues -> Nat]
  /\ GameTime \in Nat /\ MinLeft \in Nat /\ MinLeft < GameTime
  /\ StaleAge \in Nat

VARIABLES
  pc,                    \* where main() is
  on,                    \* leagues of this round that are left to scan
  league,                \* the league at hand
  board,                 \* its scoreboard
  age,                   \* how old the board is: 0 .. StaleAge + 1
  due,                   \* per league: rounds since its last discovery, 0 .. 2
  active,                \* nbaActiveMarkets, ncaaActiveMarkets
  cache,                 \* per market what is known of it, for good
  todo,                  \* markets of this scan that are left
  quote,                 \* the market, side and numbers at hand
  yesAsk                 \* history: ask of this scan's YES signal, or 0

scanVars == <<on, league, board, age, todo, quote, yesAsk>>
marketVars == <<due, active, cache>>
tableVars == <<writer, handle, schema, hadTables, rows, call>>
sportsVars == <<storeVars, pc, scanVars, marketVars>>

NoQuote == [market |-> "none", side |-> "YES", home |-> 0, left |-> 0,
            ask |-> 0]
NoBoard == [g \in Games |-> "absent"]
Unknown == [game |-> "none", yes |-> 0, no |-> 0]

-----------------------------------------------------------------------------
(* Which game a market is about. *)

FindTeam(n) == IF n \in Known THEN {Means[n]} ELSE {}

(* matchTeamsToGame(): by the teams that are known, or by parts of names;  *)
(* a game of a team that findTeam() does not know by ESPN's name is left   *)
(* out.                                                                    *)
MatchTeams(n1, n2, g) ==
  LET fits(a, b) == \/ FindTeam(a) = {Home[g]} /\ FindTeam(b) = {Away[g]}
                    \/ <<a, Home[g]>> \in PartOf /\ <<b, Away[g]>> \in PartOf
  IN {Home[g], Away[g]} \subseteq KnownTeams /\ (fits(n1, n2) \/ fits(n2, n1))

(* matchNcaaTeamsToGame() *)
MatchNcaaTeams(n1, n2, g) ==
  LET fits(a, b) == {<<a, Home[g]>>, <<b, Away[g]>>} \subseteq PartOf \cup Alike
  IN fits(n1, n2) \/ fits(n2, n1)

Fits(l, m, g) == IF l = "NBA" THEN MatchTeams(Title[m][1], Title[m][2], g)
                              ELSE MatchNcaaTeams(Title[m][1], Title[m][2], g)

(* The first game of the board that fits the title; or none. *)
MatchedGames(l, m, b) ==
  LET fitting == {n \in DOMAIN Schedule[l] :
                    b[Schedule[l][n]] # "absent" /\ Fits(l, m, Schedule[l][n])}
  IN {Schedule[l][n] : n \in {i \in fitting : \A k \in fitting : i <= k}}

(* Mutant: the first token is taken to be the home team's. *)
FirstIsHome(l, n, g) == TRUE

(* Mutant: both leagues ask for the whole name. *)
NameIsPart(l, n, g) == <<n, Home[g]>> \in PartOf

(* Is the first team of the title the home team?  Its name is looked for   *)
(* in ESPN's, whatever else findTeam() knows the team by; matchNcaaTeam()  *)
(* looks for the name of its school, too.                                  *)
Team1IsHome(l, n, g) ==
  <<n, Home[g]>> \in PartOf \/ (l = "NCAAM" /\ <<n, Home[g]>> \in SchoolIn)

(* discoverMarkets(), discoverNcaaMarkets(): what is found out about m. *)
MarketInfo(l, m, g) ==
  IF Team1IsHome(l, Title[m][1], g) THEN [game |-> g, yes |-> 1, no |-> 2]
                                    ELSE [game |-> g, yes |-> 2, no |-> 1]

Matched(l, b) == {m \in Listed[l] : MatchedGames(l, m, b) # {}}

-----------------------------------------------------------------------------
(* When a price is worth a signal. *)

(* Mutant: both sides are given the home team's chance. *)
HomeConfidence(side, home) == home

Confidence(side, home) == IF side = "YES" THEN home ELSE 100 - home

(* calculateRequiredEdge(): from 5 at the start to 15 at MinLeft.  It is   *)
(* compared without the division.                                          *)
EnoughEdge(edge, left) ==
  LET range == GameTime - MinLeft
      elapsed == IF GameTime - left < 0 THEN 0
                 ELSE IF GameTime - left > range THEN range
                 ELSE GameTime - left
  IN (edge - 5) * range * range >= 10 * elapsed * elapsed

(* shouldEmitSignal() of the two generators. *)
ShouldEmit(l, edge, ask, left, old) ==
  /\ ask \in MinEntry[l] .. MaxEntry[l]
  /\ edge >= MinEdge[l]
  /\ l = "NCAAM" => /\ left >= MinLeft
                    /\ old <= StaleAge
                    /\ EnoughEdge(edge, left)

-----------------------------------------------------------------------------
(* Helpers. *)

GoTo(from, to) == writer = "sports" /\ pc = from /\ pc' = to

(* However long an answer takes, the board is older by then. *)
Waits == age' \in age .. StaleAge + 1

ScanOver ==
  /\ board' = NoBoard /\ age' = 0 /\ todo' = {}
  /\ quote' = NoQuote /\ yesAsk' = 0

RoundOver ==
  /\ ScanOver /\ on' = {} /\ league' = "NBA"
  /\ due' = [l \in Leagues |-> IF due[l] < 2 THEN due[l] + 1 ELSE 2]

LongAgo == [l \in Leagues |-> 2]
NoMarkets == [l \in Leagues |-> {}]
NothingKnown == [m \in Markets |-> Unknown]

SportsInit ==
  /\ HistoryInit
  /\ pc = "top" /\ on = {} /\ league = "NBA"
  /\ board = NoBoard /\ age = 0 /\ todo = {}
  /\ quote = NoQuote /\ yesAsk = 0
  /\ due = LongAgo /\ active = NoMarkets /\ cache = NothingKnown

-----------------------------------------------------------------------------
(* The loop of main(). *)

(* The master switch is off, or Redis does not answer. *)
Idle ==
  /\ GoTo("top", "top")
  /\ Fault
  /\ RoundOver
  /\ UNCHANGED <<tableVars, done, active, cache>>

(* The switches are read together; one that is off is a fault here. *)
ReadSwitches(leagues) ==
  /\ GoTo("top", "scan")
  /\ IF leagues = Leagues THEN UNCHANGED faults ELSE Fault
  /\ on' = leagues
  /\ UNCHANGED <<tableVars, done, league, board, age, todo, quote, yesAsk,
                 marketVars>>

(* The NBA comes first. *)
ScanLeague(l) ==
  /\ GoTo("scan", "board")
  /\ l \in on /\ (l = "NCAAM" => "NBA" \notin on)
  /\ league' = l /\ on' = on \ {l}
  /\ UNCHANGED <<storeVars, board, age, todo, quote, yesAsk, marketVars>>

RoundEnds ==
  /\ GoTo("scan", "top")
  /\ on = {}
  /\ RoundOver
  /\ UNCHANGED <<storeVars, active, cache>>

(* Mutant: markets are asked for while none is known. *)
DueWhenEmpty(l, slow) == active[l] = {}

(* now - lastDiscovery > scanIntervalMs: never in the next round if that   *)
(* comes fast, always in the one after it.                                 *)
DiscoveryDue(l, slow) == due[l] = 2 \/ (due[l] = 1 /\ slow)

(* fetchNbaScoreboard(), fetchNcaaScoreboard(): an error is no games.  A   *)
(* game that is not live is a fault here.                                  *)
FetchScoreboard(b, slow) ==
  /\ pc = "board"
  /\ IF \A g \in GamesOf(league) : b[g] = "live" THEN UNCHANGED faults
                                                 ELSE Fault
  /\ board' = [g \in Games |-> IF g \in GamesOf(league) THEN b[g] ELSE "absent"]
  /\ age' = 0
  /\ \/ /\ \A g \in GamesOf(league) : b[g] # "live"
        /\ pc' = "market" /\ todo' = {}
     \/ /\ \E g \in GamesOf(league) : b[g] = "live"
        /\ IF DiscoveryDue(league, slow)
           THEN pc' = "discover" /\ UNCHANGED todo
           ELSE pc' = "market" /\ todo' = active[league]
  /\ UNCHANGED <<tableVars, done, on, league, quote, yesAsk, marketVars>>

(* All of the league's markets that fit a game, or, after an error, some.  *)
(* What was found out about a market earlier stays.                        *)
Discover(found) ==
  /\ pc = "discover" /\ pc' = "market"
  /\ found \subseteq Matched(league, board)
  /\ IF found = Matched(league, board) THEN UNCHANGED faults ELSE Fault
  /\ active' = [active EXCEPT ![league] = found]
  /\ cache' = [m \in Markets |->
                 IF m \in found /\ cache[m] = Unknown
                 THEN MarketInfo(league, m,
                                 CHOOSE g \in MatchedGames(league, m, board) :
                                   TRUE)
                 ELSE cache[m]]
  /\ due' = [due EXCEPT ![league] = 0]
  /\ todo' = found
  /\ Waits
  /\ UNCHANGED <<tableVars, done, on, league, board, quote, yesAsk>>

(* A market of a live game: first its YES side. *)
EvaluateMarket(m, home, left) ==
  /\ pc = "market" /\ pc' = "book"
  /\ m \in todo /\ board[cache[m].game] = "live"
  /\ todo' = todo \ {m}
  /\ quote' = [market |-> m, side |-> "YES", home |-> home, left |-> left,
               ask |-> 0]
  /\ UNCHANGED <<storeVars, on, league, board, age, yesAsk, marketVars>>

NoLiveGame(m) ==
  /\ pc = "market" /\ pc' = "market"
  /\ m \in todo /\ board[cache[m].game] # "live"
  /\ todo' = todo \ {m}
  /\ UNCHANGED <<storeVars, on, league, board, age, quote, yesAsk, marketVars>>

LeagueDone ==
  /\ pc = "market" /\ pc' = "scan"
  /\ todo = {}
  /\ ScanOver
  /\ UNCHANGED <<storeVars, on, league, marketVars>>

-----------------------------------------------------------------------------
(* evaluateAndEmitNba(), evaluateAndEmitNcaa(). *)

(* The other side of the market, or the next market. *)
NextSide(emitted) ==
  IF quote.side = "YES"
  THEN /\ pc' = "book" /\ yesAsk' = emitted
       /\ quote' = [quote EXCEPT !.side = "NO", !.ask = 0]
  ELSE /\ pc' = "market" /\ yesAsk' = 0
       /\ quote' = NoQuote

Edge(ask) == Confidence(quote.side, quote.home) - ask

(* No book, no ask, or an ask that is not worth it. *)
NoSignal ==
  /\ pc = "book"
  /\ Waits
  /\ NextSide(0)
  /\ UNCHANGED <<storeVars, on, league, board, todo, marketVars>>

CreateSignal(ask) ==
  /\ pc = "book" /\ pc' = "publish"
  /\ done < MaxRows
  /\ Waits
  /\ ShouldEmit(league, Edge(ask), ask, quote.left, age')
  /\ quote' = [quote EXCEPT !.ask = ask]
  /\ UNCHANGED <<storeVars, on, league, board, todo, yesAsk, marketVars>>

Publish ==
  /\ pc = "publish" /\ pc' = "record"
  /\ call' = "signals" /\ done' = done + 1
  /\ Waits
  /\ UNCHANGED <<writer, handle, schema, hadTables, rows, faults, on, league,
                 board, todo, quote, yesAsk, marketVars>>

(* Redis fails; the signal may have got through all the same.  The round   *)
(* ends, and the leagues that are left wait for the next.                  *)
PublishFails(sent) ==
  /\ pc = "publish" /\ pc' = "top"
  /\ Fault
  /\ done' = IF sent THEN done + 1 ELSE done
  /\ RoundOver
  /\ UNCHANGED <<tableVars, active, cache>>

RecordSignal ==
  /\ pc = "record"
  /\ call' = "none" /\ Record("signals")
  /\ NextSide(quote.ask)
  /\ UNCHANGED <<on, league, board, age, todo, marketVars>>

(* The process is killed, at any point, and started again. *)
Crash ==
  /\ ProcessEnds
  /\ pc' = "top" /\ on' = {} /\ league' = "NBA"
  /\ ScanOver
  /\ due' = LongAgo /\ active' = NoMarkets /\ cache' = NothingKnown

-----------------------------------------------------------------------------
Round ==
  \/ Idle \/ RoundEnds \/ LeagueDone
  \/ \E leagues \in SUBSET Leagues : ReadSwitches(leagues)
  \/ \E l \in Leagues : ScanLeague(l)
  \/ \E b \in [GamesOf(league) -> Standings], slow \in BOOLEAN :
       FetchScoreboard(b, slow)
  \/ \E found \in SUBSET Listed[league] : Discover(found)
  \/ \E m \in todo :
       \/ \E home \in Chances, left \in Lefts : EvaluateMarket(m, home, left)
       \/ NoLiveGame(m)
  \/ NoSignal \/ Publish \/ RecordSignal
  \/ \E ask \in Asks : CreateSignal(ask)
  \/ \E sent \in BOOLEAN : PublishFails(sent)

Others == HistoryNext /\ UNCHANGED <<pc, scanVars, marketVars>>

SportsNext == Round \/ Crash \/ Others

SportsSpec == SportsInit /\ [][SportsNext]_sportsVars

(* Requests are answered or time out, and the loop goes on. *)
FairSpec == SportsSpec /\ WF_sportsVars(Round)

-----------------------------------------------------------------------------
(* Properties. *)

SportsTypeOK ==
  /\ pc \in {"top", "scan", "board", "discover", "market", "book", "publish",
             "record"}
  /\ on \subseteq Leagues /\ league \in Leagues
  /\ age \in 0 .. StaleAge + 1
  /\ due \in [Leagues -> 0 .. 2]
  /\ active \in [Leagues -> SUBSET Markets]
  /\ todo \subseteq Markets

(* main(), the two calls per market: both sides are judged by the same     *)
(* scores, so that signals for both leave an edge each.  Whoever buys on   *)
(* both has paid less than the market pays.                                *)
OppositeSignalsAreCheap ==
  pc = "publish" /\ yesAsk > 0 =>
    yesAsk + quote.ask <= 100 - 2 * MinEdge[league]

(* How the league takes a name for a team, but for findTeam(). *)
Naming(l) == IF l = "NBA" THEN PartOf ELSE PartOf \cup SchoolIn

(* matchTeamsToGame(), matchNcaaTeamsToGame(), team1IsHome: a name is taken *)
(* for no team but its own, and names a home team as ESPN does.            *)
Clear(l, n) ==
  \A g \in GamesOf(l) :
    /\ \A t \in {Home[g], Away[g]} :
         <<n, t>> \in Naming(l) \cup Alike => Means[n] = t
    /\ Means[n] = Home[g] => <<n, Home[g]>> \in Naming(l)

LeagueOf(m) == IF m \in Listed["NBA"] THEN "NBA" ELSE "NCAAM"

(* "Determine which token is home-wins (YES) vs away-wins (NO)": a signal  *)
(* is for the token of the team whose chance it was made with, at whatever *)
(* time the market was found and however its second team is called, unless *)
(* the title's first name is a nickname of the home team or one that the   *)
(* league's matching takes for another team.                               *)
SidesAreRight ==
  LET m == quote.market
      first == Title[m][1]
      game == cache[m].game
      token == IF quote.side = "YES" THEN cache[m].yes ELSE cache[m].no
      team == IF quote.side = "YES" THEN Home[game] ELSE Away[game]
      other == IF quote.side = "YES" THEN Away[game] ELSE Home[game]
  IN pc = "publish" /\ Clear(LeagueOf(m), first) =>
       Means[first] = (IF token = 1 THEN team ELSE other)

(* Whatever has failed, every market of a live game is looked at again and *)
(* again: a discovery that found some of them is made good by a later one. *)
LiveGamesAreLookedAt ==
  writer = "sports" =>
    \A m \in Markets : []<>(pc = "book" /\ quote.market = m)
=============================================================================
