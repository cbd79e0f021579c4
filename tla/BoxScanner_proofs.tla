--------------------------- MODULE BoxScanner_proofs ---------------------------
(***************************************************************************)
(* Theorems about BookFeed and about BoxScanner, which is composed with    *)
(* it: for every set of markets and prices, any timers, any bounds and any *)
(* size of box, buffer and edge.                                           *)
(*                                                                         *)
(* BookFeed: FeedInv is inductive.  Of all that is said about a price of a *)
(* token, in Redis and on the wire, the last word is the exchange's.  A    *)
(* message moves from the wire to Redis without changing that, and a       *)
(* snapshot replaces whatever an earlier session has left.                 *)
(*                                                                         *)
(* BoxScanner: FeedInv says that Redis holds the exchange's book of a      *)
(* token in sync.  While the market in hand is in sync and unchanged, the  *)
(* four commands of check_arbitrage() thus read one and the same book      *)
(* (ReadingInv).                                                           *)
(***************************************************************************)
EXTENDS BoxScanner, TLAPS, WellFoundedInduction

-----------------------------------------------------------------------------
(* The data *)

LEMMA BooksAreLevels == Books \subseteq Levels
BY DEF Books, Levels

LEMMA OneChangeIsLevels ==
  ASSUME NEW p \in Prices, NEW n \in 0 .. MaxSize
  PROVE  [q \in {p} |-> n] \in Levels
<1>1. [q \in {p} |-> n] \in [{p} -> 0 .. MaxSize]
  OBVIOUS
<1> QED
  BY <1>1 DEF Levels

LEMMA NoLevelsIsLevels == NoLevels \in Levels
<1>1. NoLevels \in [{} -> 0 .. MaxSize]
  BY DEF NoLevels
<1> QED
  BY <1>1 DEF Levels

LEMMA LevelsType ==
  ASSUME NEW levels \in Levels
  PROVE  /\ DOMAIN levels \subseteq Prices
         /\ \A p \in DOMAIN levels : levels[p] \in 0 .. MaxSize
         /\ LevelsOf(levels) \subseteq Prices
         /\ DOMAIN levels = Prices => levels \in Books
<1>1. PICK P \in SUBSET Prices : levels \in [P -> 0 .. MaxSize]
  BY DEF Levels
<1> QED
  BY <1>1 DEF LevelsOf, Books

LEMMA PutType ==
  ASSUME NEW b \in Books, NEW levels \in Levels
  PROVE  Put(b, levels) \in Books
BY LevelsType DEF Put, Books

LEMMA TailFacts ==
  ASSUME NEW s \in Seq(Messages), s # <<>>
  PROVE  /\ Head(s) = s[1]
         /\ Head(s) \in Messages
         /\ Tail(s) \in Seq(Messages)
         /\ Len(s) \in Nat \ {0}
         /\ Len(Tail(s)) = Len(s) - 1
         /\ \A i \in 1 .. Len(s) - 1 : Tail(s)[i] = s[i + 1]
OBVIOUS

LEMMA AppendFacts ==
  ASSUME NEW s \in Seq(Messages), NEW m \in Messages
  PROVE  /\ Append(s, m) \in Seq(Messages)
         /\ Len(s) \in Nat
         /\ Len(Append(s, m)) = Len(s) + 1
         /\ Append(s, m)[Len(s) + 1] = m
         /\ \A i \in 1 .. Len(s) : Append(s, m)[i] = s[i]
OBVIOUS

-----------------------------------------------------------------------------
LEMMA FeedTypeInit == FeedInit => TypeOK
BY FeedAssumption
DEF FeedInit, TypeOK, Books

LEMMA FeedTypeStep == TypeOK /\ SessionInv /\ [FeedNext]_feedVars => TypeOK'
<1> SUFFICES ASSUME TypeOK, SessionInv, [FeedNext]_feedVars
             PROVE  TypeOK'
  OBVIOUS
<1> USE FeedAssumption
<1>1. ASSUME Disconnect
      PROVE  /\ link' \in {"none", "open", "silent", "closed"}
             /\ announced' \in SUBSET Tokens
             /\ wire' \in Seq(Messages)
             /\ subscribed' \in SUBSET Markets
             /\ heartbeat' \in 0 .. HeartbeatTimeout
             /\ untilCheck' \in 0 .. CheckInterval
  BY <1>1 DEF Disconnect
<1>2. ASSUME Closes, UNCHANGED <<enabled, storeVars, exchangeVars, noise>>,
             shutdown' \in {"none", "sent", "received"}
      PROVE  TypeOK'
  BY <1>1, <1>2 DEF Closes, TypeOK, storeVars, exchangeVars
<1>3. ASSUME Fails, UNCHANGED <<enabled, storeVars, shutdown, exchangeVars>>,
             noise' \in Nat
      PROVE  TypeOK'
  BY <1>1, <1>3 DEF Fails, TypeOK, storeVars, exchangeVars
<1>4. CASE Boot \/ GateShutdown \/ GateOpens \/ GateWaits \/ WakeUp
  BY <1>4
  DEF Boot, GateShutdown, GateOpens, GateWaits, WakeUp, TypeOK, storeVars,
      timerVars, exchangeVars, linkVars
<1>5. CASE FetchMarkets \/ NothingListed \/ Connect
  BY <1>5
  DEF FetchMarkets, NothingListed, Connect, TypeOK, storeVars, timerVars,
      exchangeVars, linkVars
<1>6. ASSUME NEW m \in Markets, Register(m)
      PROVE  TypeOK'
  BY <1>6 DEF Register, TypeOK, timerVars, exchangeVars, linkVars
<1>7. CASE ApplySnapshot
  <2> DEFINE m == Head(wire)
  <2>1. m \in Messages /\ Tail(wire) \in Seq(Messages) /\ m = wire[1] /\ 1 \in 1 .. Len(wire)
    BY <1>7, TailFacts DEF ApplySnapshot, TypeOK
  <2>2. m.token \in Tokens /\ m.levels \in Levels /\ DOMAIN m.levels = Prices
    BY <1>7, <2>1 DEF ApplySnapshot, SessionInv, Messages
  <2>3. m.levels \in Books /\ LevelsOf(m.levels) \subseteq Prices
    BY <2>2, LevelsType
  <2> QED
    BY <1>7, <2>1, <2>2, <2>3
    DEF ApplySnapshot, TypeOK, Rearm, exchangeVars
<1>8. CASE UpdateLevel
  <2> DEFINE m == Head(wire)
  <2>1. m \in Messages
    BY <1>8, TailFacts DEF UpdateLevel, TypeOK
  <2>2. m.token \in Tokens /\ m.levels \in Levels
    BY <2>1 DEF Messages
  <2>3. LevelsOf(m.levels) \subseteq Prices
    BY <2>2, LevelsType
  <2> QED
    BY <1>8, <2>2, <2>3
    DEF UpdateLevel, TypeOK, timerVars, exchangeVars, linkVars
<1>9. CASE UpdateSize
  <2> DEFINE m == Head(wire)
  <2>1. m \in Messages /\ Tail(wire) \in Seq(Messages)
    BY <1>9, TailFacts DEF UpdateSize, TypeOK, SessionInv
  <2>2. m.token \in Tokens /\ m.levels \in Levels
    BY <2>1 DEF Messages
  <2>3. Put(sizes[m.token], m.levels) \in Books
    BY <2>2, PutType DEF TypeOK
  <2> QED
    BY <1>9, <2>1, <2>2, <2>3
    DEF UpdateSize, TypeOK, Rearm, exchangeVars
<1>10. CASE IgnoreMessage
  BY <1>10, TailFacts DEF IgnoreMessage, TypeOK, Rearm, storeVars, exchangeVars
<1>11. CASE RejectMessage \/ HeartbeatExpires
  BY <1>3, <1>11 DEF RejectMessage, HeartbeatExpires, TypeOK
<1>12. CASE SessionFails
  BY <1>3, <1>12 DEF SessionFails, Disturb, TypeOK
<1>13. CASE CheckSwitch
  <2>1. CASE Closes
    BY <1>2, <1>13, <2>1 DEF CheckSwitch, TypeOK
  <2>2. CASE ~ Closes
    BY <1>13, <2>2
    DEF CheckSwitch, TypeOK, Rearm, storeVars, exchangeVars, linkVars
  <2> QED
    BY <2>1, <2>2
<1>14. CASE StreamEnds \/ ReceiveShutdown
  BY <1>2, <1>14 DEF StreamEnds, ReceiveShutdown, TypeOK
<1>15. CASE Tick
  <2>1. heartbeat - 1 \in 0 .. HeartbeatTimeout /\ untilCheck - 1 \in 0 .. CheckInterval
    BY <1>15 DEF Tick, TypeOK
  <2> QED
    BY <1>15, <2>1 DEF Tick, TypeOK, storeVars, exchangeVars, linkVars
<1>16. ASSUME NEW t \in Tokens, BookChanges(t)
       PROVE  TypeOK'
  <2>1. PICK p \in Prices, n \in 0 .. MaxSize :
          /\ book' = [book EXCEPT ![t][p] = n]
          /\ wire' = IF link = "open" /\ t \in announced
                       THEN Append(wire, [kind |-> "change", token |-> t,
                                          levels |-> [q \in {p} |-> n]])
                       ELSE wire
    BY <1>16 DEF BookChanges
  <2>2. [kind |-> "change", token |-> t, levels |-> [q \in {p} |-> n]] \in Messages
    BY OneChangeIsLevels DEF Messages
  <2>3. wire' \in Seq(Messages)
    BY <2>1, <2>2, AppendFacts DEF TypeOK
  <2>4. book' \in [Tokens -> Books]
    BY <2>1 DEF TypeOK, Books
  <2> QED
    BY <1>16, <2>3, <2>4 DEF BookChanges, TypeOK, storeVars, timerVars
<1>17. ASSUME NEW t \in Tokens, SendSnapshot(t)
       PROVE  TypeOK'
  <2>1. [kind |-> "snapshot", token |-> t, levels |-> book[t]] \in Messages
    BY BooksAreLevels DEF TypeOK, Messages
  <2>2. wire' \in Seq(Messages)
    BY <1>17, <2>1, AppendFacts DEF SendSnapshot, TypeOK
  <2> QED
    BY <1>17, <2>2
    DEF SendSnapshot, TypeOK, storeVars, timerVars, exchangeVars
<1>18. CASE SendNoise
  <2>1. PICK kind \in {"bad", "other"}, t \in Tokens :
          wire' = Append(wire, [kind |-> kind, token |-> t, levels |-> NoLevels])
    BY <1>18 DEF SendNoise
  <2>2. [kind |-> kind, token |-> t, levels |-> NoLevels] \in Messages
    BY NoLevelsIsLevels DEF Messages
  <2>3. wire' \in Seq(Messages)
    BY <2>1, <2>2, AppendFacts DEF TypeOK
  <2> QED
    BY <1>18, <2>3
    DEF SendNoise, Disturb, TypeOK, storeVars, timerVars, exchangeVars
<1>19. CASE LinkBreaks
  BY <1>19
  DEF LinkBreaks, Disturb, TypeOK, storeVars, timerVars, exchangeVars
<1>23. CASE Shutdown
  BY <1>23
  DEF Shutdown, Disturb, TypeOK, storeVars, timerVars, exchangeVars, linkVars
<1>24. CASE OperatorFlipsSwitch
  BY <1>24
  DEF OperatorFlipsSwitch, TypeOK, storeVars, timerVars, exchangeVars, linkVars
<1>20. ASSUME NEW m \in Markets, Relist(m)
       PROVE  TypeOK'
  BY <1>20 DEF Relist, Disturb, TypeOK, storeVars, timerVars, linkVars
<1>21. CASE Crash
  BY <1>1, <1>21
  DEF Crash, Disturb, TypeOK, storeVars, exchangeVars
<1>22. CASE UNCHANGED feedVars
  BY <1>22
  DEF feedVars, TypeOK, storeVars, timerVars, exchangeVars, linkVars
<1> QED
  BY <1>4, <1>5, <1>6, <1>7, <1>8, <1>9, <1>10, <1>11, <1>12, <1>13, <1>14,
     <1>15, <1>16, <1>17, <1>18, <1>19, <1>20, <1>21, <1>22,
     <1>23, <1>24
  DEF FeedNext, SessionStep, ReadMessage, Exchange

-----------------------------------------------------------------------------
(* Where the session is, and what its connection carries *)

LEMMA SessionInit == FeedInit => SessionInv
BY DEF FeedInit, SessionInv

LEMMA SessionStepInv ==
  TypeOK /\ SessionInv /\ [FeedNext]_feedVars => SessionInv'
<1> SUFFICES ASSUME TypeOK, SessionInv, [FeedNext]_feedVars
             PROVE  SessionInv'
  OBVIOUS
<1> USE FeedAssumption
<1>1. ASSUME Disconnect, session' \notin {"read", "write"}
      PROVE  SessionInv'
  BY <1>1 DEF Disconnect, SessionInv
<1>2. CASE UNCHANGED <<link, announced, wire>> /\ session' = session
           /\ UNCHANGED zset
  BY <1>2 DEF SessionInv
<1>3. CASE \/ Boot \/ GateShutdown \/ GateOpens \/ GateWaits \/ WakeUp
           \/ FetchMarkets \/ NothingListed
  BY <1>3
  DEF Boot, GateShutdown, GateOpens, GateWaits, WakeUp, FetchMarkets,
      NothingListed, SessionInv, linkVars, storeVars
<1>4. CASE Connect
  BY <1>4 DEF Connect, SessionInv, storeVars
<1>5. ASSUME session = "read", wire # <<>>, wire' = Tail(wire),
             session' = "read", UNCHANGED <<link, announced>>
      PROVE  SessionInv'
  BY <1>5, TailFacts DEF SessionInv, TypeOK
<1>6. CASE ApplySnapshot \/ IgnoreMessage
  BY <1>5, <1>6 DEF ApplySnapshot, IgnoreMessage
<1>7. CASE UpdateLevel
  <2> DEFINE m == Head(wire)
  <2>1. m \in Messages
    BY <1>7, TailFacts DEF UpdateLevel, TypeOK
  <2>2. m.token \in Tokens
    BY <2>1 DEF Messages
  <2>3. zset'[m.token] = (zset[m.token] \ DOMAIN m.levels) \cup LevelsOf(m.levels)
    BY <1>7, <2>2 DEF UpdateLevel, TypeOK
  <2>4. \A p \in DOMAIN m.levels : p \in zset'[m.token] <=> m.levels[p] > 0
    BY <2>3 DEF LevelsOf
  <2> QED
    BY <1>7, <2>4 DEF UpdateLevel, SessionInv, linkVars
<1>8. CASE UpdateSize
  BY <1>8, TailFacts DEF UpdateSize, SessionInv, TypeOK
<1>9. CASE RejectMessage \/ HeartbeatExpires \/ SessionFails
  <2>1. Fails
    BY <1>9 DEF RejectMessage, HeartbeatExpires, SessionFails
  <2> QED
    BY <1>1, <2>1 DEF Fails
<1>10. CASE CheckSwitch
  <2>1. CASE Closes
    BY <1>1, <2>1 DEF Closes
  <2>2. CASE ~ Closes
    BY <1>2, <1>10, <2>2 DEF CheckSwitch, linkVars, storeVars
  <2> QED
    BY <2>1, <2>2
<1>11. CASE StreamEnds \/ ReceiveShutdown
  BY <1>1, <1>11 DEF StreamEnds, ReceiveShutdown, Closes
<1>12. CASE Crash
  BY <1>1, <1>12 DEF Crash
<1>13. ASSUME link # "none", UNCHANGED <<link, session, zset>>,
              NEW m \in Messages, wire' = Append(wire, m),
              m.kind = "snapshot" => DOMAIN m.levels = Prices,
              m.kind \in {"bad", "other"} => m.levels = NoLevels
       PROVE  SessionInv'
  <2>1. \A i \in 1 .. Len(wire') : i \in 1 .. Len(wire) \/ wire'[i] = m
    BY <1>13, AppendFacts DEF TypeOK
  <2>2. wire # <<>> => wire' # <<>> /\ Head(wire') = Head(wire)
    BY <1>13, AppendFacts, TailFacts DEF TypeOK
  <2>3. \A i \in 1 .. Len(wire) : wire'[i] = wire[i]
    BY <1>13, AppendFacts DEF TypeOK
  <2> QED
    BY <1>13, <2>1, <2>2, <2>3 DEF SessionInv
<1>14. ASSUME NEW t \in Tokens, BookChanges(t)
       PROVE  SessionInv'
  <2>1. PICK p \in Prices, n \in 0 .. MaxSize :
          wire' = IF link = "open" /\ t \in announced
                    THEN Append(wire, [kind |-> "change", token |-> t,
                                       levels |-> [q \in {p} |-> n]])
                    ELSE wire
    BY <1>14 DEF BookChanges
  <2>2. [kind |-> "change", token |-> t, levels |-> [q \in {p} |-> n]] \in Messages
    BY OneChangeIsLevels DEF Messages
  <2>3. CASE link = "open" /\ t \in announced
    BY <1>13, <1>14, <2>1, <2>2, <2>3 DEF BookChanges, storeVars
  <2>4. CASE ~ (link = "open" /\ t \in announced)
    BY <1>2, <1>14, <2>1, <2>4 DEF BookChanges, storeVars
  <2> QED
    BY <2>3, <2>4
<1>15. ASSUME NEW t \in Tokens, SendSnapshot(t)
       PROVE  SessionInv'
  <2> DEFINE m == [kind |-> "snapshot", token |-> t, levels |-> book[t]]
  <2>1. m \in Messages /\ DOMAIN m.levels = Prices
    BY BooksAreLevels DEF TypeOK, Messages, Books
  <2>2. /\ link = "open" /\ wire' = Append(wire, m)
        /\ UNCHANGED <<link, session, zset>>
    BY <1>15 DEF SendSnapshot, storeVars
  <2>3. m.kind = "snapshot"
    OBVIOUS
  <2> HIDE DEF m
  <2> QED
    BY <1>13, <2>1, <2>2, <2>3
<1>16. CASE SendNoise
  <2>1. PICK kind \in {"bad", "other"}, t \in Tokens :
          wire' = Append(wire, [kind |-> kind, token |-> t, levels |-> NoLevels])
    BY <1>16 DEF SendNoise
  <2> DEFINE m == [kind |-> kind, token |-> t, levels |-> NoLevels]
  <2>2. m \in Messages /\ m.levels = NoLevels /\ m.kind # "snapshot"
    BY NoLevelsIsLevels DEF Messages
  <2>3. link = "open" /\ UNCHANGED <<link, session, zset>>
    BY <1>16 DEF SendNoise, storeVars
  <2>4. wire' = Append(wire, m)
    BY <2>1
  <2> HIDE DEF m
  <2> QED
    BY <1>13, <2>2, <2>3, <2>4
<1>17. CASE LinkBreaks
  BY <1>17 DEF LinkBreaks, SessionInv, storeVars
<1>18. CASE Tick \/ Shutdown \/ OperatorFlipsSwitch
  BY <1>2, <1>18
  DEF Tick, Shutdown, OperatorFlipsSwitch, linkVars, storeVars
<1>19. ASSUME NEW m \in Markets, Register(m) \/ Relist(m)
       PROVE  SessionInv'
  BY <1>2, <1>19 DEF Register, Relist, linkVars, storeVars
<1>20. CASE UNCHANGED feedVars
  BY <1>2, <1>20 DEF feedVars, linkVars, storeVars
<1> QED
  BY <1>3, <1>4, <1>6, <1>7, <1>8, <1>9, <1>10, <1>11, <1>12, <1>14, <1>15,
     <1>16, <1>17, <1>18, <1>19, <1>20
  DEF FeedNext, SessionStep, ReadMessage, Exchange

-----------------------------------------------------------------------------
(* The last word on a price *)

LastWordInv == WireInv /\ StoreInv

(* A message leaves the wire, and what it says is stored. *)
LEMMA Pop ==
  ASSUME TypeOK, LastWordInv, TypeOK',
         wire # <<>>, wire' = Tail(wire),
         UNCHANGED <<book, link, announced>>,
         \A t \in Tokens, p \in Prices :
           Mentions(Head(wire), t, p) =>
             /\ p \in zset'[t] <=> Head(wire).levels[p] > 0
             /\ sizes'[t][p] = Head(wire).levels[p],
         \A t \in Tokens, p \in Prices :
           ~ Mentions(Head(wire), t, p) =>
             /\ p \in zset'[t] <=> p \in zset[t]
             /\ sizes'[t][p] = sizes[t][p]
  PROVE  LastWordInv'
<1>1. /\ Len(wire) \in Nat \ {0}
      /\ Head(wire) = wire[1]
      /\ Len(wire') = Len(wire) - 1
      /\ \A i \in 1 .. Len(wire) - 1 : wire'[i] = wire[i + 1]
  BY TailFacts DEF TypeOK
<1>2. ASSUME NEW t \in Tokens, NEW p \in Prices, NEW i \in 1 .. Len(wire')
      PROVE  LastMention(i, t, p)' => LastMention(i + 1, t, p)
  <2>1. ASSUME NEW j \in (i + 1) + 1 .. Len(wire)
        PROVE  j - 1 \in i + 1 .. Len(wire') /\ wire[j] = wire'[j - 1]
    BY <1>1
  <2> QED
    BY <1>1, <2>1 DEF LastMention, Mentions
<1>3. WireInv'
  BY <1>1, <1>2 DEF WireInv, LastWordInv, TypeOK
<1>4. ASSUME link = "open", NEW t \in announced, NEW p \in Prices,
             \A i \in 1 .. Len(wire') : ~ Mentions(wire'[i], t, p)
      PROVE  (p \in zset'[t] <=> book'[t][p] > 0) /\ sizes'[t][p] = book'[t][p]
  <2>0. t \in Tokens
    BY DEF TypeOK
  <2>1. ASSUME NEW i \in 2 .. Len(wire)
        PROVE  ~ Mentions(wire[i], t, p)
    <3>1. i - 1 \in 1 .. Len(wire') /\ wire'[i - 1] = wire[i]
      BY <1>1
    <3> QED
      BY <1>4, <3>1
  <2>2. CASE Mentions(Head(wire), t, p)
    <3>1. LastMention(1, t, p)
      BY <1>1, <2>1, <2>2 DEF LastMention
    <3>2. wire[1].levels[p] = book[t][p]
      BY <1>1, <1>4, <3>1 DEF LastWordInv, WireInv
    <3> QED
      BY <1>1, <2>0, <2>2, <3>2
  <2>3. CASE ~ Mentions(Head(wire), t, p)
    <3>1. \A i \in 1 .. Len(wire) : ~ Mentions(wire[i], t, p)
      BY <1>1, <2>1, <2>3
    <3>2. (p \in zset[t] <=> book[t][p] > 0) /\ sizes[t][p] = book[t][p]
      BY <1>4, <3>1 DEF LastWordInv, StoreInv
    <3> QED
      BY <2>0, <2>3, <3>2
  <2> QED
    BY <2>2, <2>3
<1>5. StoreInv'
  BY <1>4 DEF StoreInv
<1> QED
  BY <1>3, <1>5 DEF LastWordInv

(* A message enters the wire and says how the book is. *)
LEMMA Push ==
  ASSUME TypeOK, LastWordInv, NEW m \in Messages,
         wire' = Append(wire, m),
         UNCHANGED <<zset, sizes, link>>,
         \A t \in announced', p \in Prices :
           Mentions(m, t, p) => m.levels[p] = book'[t][p],
         \A t \in announced', p \in Prices :
           ~ Mentions(m, t, p) => t \in announced /\ book'[t][p] = book[t][p]
  PROVE  LastWordInv'
<1>1. /\ Len(wire) \in Nat
      /\ Len(wire') = Len(wire) + 1
      /\ wire'[Len(wire')] = m
      /\ \A i \in 1 .. Len(wire) : wire'[i] = wire[i]
  BY AppendFacts DEF TypeOK
<1>2. ASSUME link = "open", NEW t \in announced', NEW p \in Prices,
             NEW i \in 1 .. Len(wire'), LastMention(i, t, p)'
      PROVE  wire'[i].levels[p] = book'[t][p]
  <2>1. CASE i = Len(wire')
    BY <1>1, <1>2, <2>1 DEF LastMention
  <2>2. CASE i # Len(wire')
    <3>1. i \in 1 .. Len(wire) /\ Len(wire') \in i + 1 .. Len(wire')
      BY <1>1, <2>2
    <3>2. ~ Mentions(m, t, p)
      BY <1>1, <1>2, <3>1 DEF LastMention
    <3>3. LastMention(i, t, p)
      BY <1>1, <1>2, <3>1 DEF LastMention
    <3> QED
      BY <1>1, <1>2, <3>1, <3>2, <3>3 DEF LastWordInv, WireInv
  <2> QED
    BY <2>1, <2>2
<1>3. ASSUME link = "open", NEW t \in announced', NEW p \in Prices,
             \A i \in 1 .. Len(wire') : ~ Mentions(wire'[i], t, p)
      PROVE  (p \in zset'[t] <=> book'[t][p] > 0) /\ sizes'[t][p] = book'[t][p]
  <2>1. ~ Mentions(m, t, p)
    BY <1>1, <1>3
  <2>2. \A i \in 1 .. Len(wire) : ~ Mentions(wire[i], t, p)
    BY <1>1, <1>3
  <2> QED
    BY <1>3, <2>1, <2>2 DEF LastWordInv, StoreInv
<1> QED
  BY <1>2, <1>3 DEF LastWordInv, WireInv, StoreInv

LEMMA LastWordInit == FeedInit => LastWordInv
BY DEF FeedInit, LastWordInv, WireInv, StoreInv

LEMMA LastWordStep ==
  TypeOK /\ SessionInv /\ LastWordInv /\ TypeOK' /\ [FeedNext]_feedVars
    => LastWordInv'
<1> SUFFICES ASSUME TypeOK, SessionInv, LastWordInv, TypeOK', [FeedNext]_feedVars
             PROVE  LastWordInv'
  OBVIOUS
<1>1. CASE link' # "open"
  BY <1>1 DEF LastWordInv, WireInv, StoreInv
<1>2. CASE UNCHANGED <<zset, sizes, book, link, announced, wire>>
  BY <1>2 DEF LastWordInv, WireInv, StoreInv, LastMention
<1>3. CASE Disconnect
  BY <1>1, <1>3 DEF Disconnect
<1>4. CASE \/ Boot \/ GateShutdown \/ GateOpens \/ GateWaits \/ WakeUp
           \/ FetchMarkets \/ NothingListed
  BY <1>2, <1>4
  DEF Boot, GateShutdown, GateOpens, GateWaits, WakeUp, FetchMarkets,
      NothingListed, storeVars, exchangeVars, linkVars
<1>5. CASE Connect
  BY <1>5 DEF Connect, SessionInv, LastWordInv, WireInv, StoreInv
<1>6. CASE ApplySnapshot
  <2> DEFINE m == Head(wire)
  <2>1. m \in Messages /\ m = wire[1] /\ 1 \in 1 .. Len(wire)
    BY <1>6, TailFacts DEF ApplySnapshot, TypeOK
  <2>2. m.token \in Tokens /\ m.levels \in Levels /\ DOMAIN m.levels = Prices
    BY <1>6, <2>1 DEF ApplySnapshot, SessionInv, Messages
  <2>3. /\ zset' = [zset EXCEPT ![m.token] = LevelsOf(m.levels)]
        /\ sizes' = [sizes EXCEPT ![m.token] = m.levels]
    BY <1>6 DEF ApplySnapshot
  <2>4. ASSUME NEW t \in Tokens, NEW p \in Prices, Mentions(m, t, p)
        PROVE  (p \in zset'[t] <=> m.levels[p] > 0) /\ sizes'[t][p] = m.levels[p]
    BY <2>2, <2>3, <2>4 DEF Mentions, TypeOK, LevelsOf
  <2>5. ASSUME NEW t \in Tokens, NEW p \in Prices, ~ Mentions(m, t, p)
        PROVE  (p \in zset'[t] <=> p \in zset[t]) /\ sizes'[t][p] = sizes[t][p]
    BY <2>2, <2>3, <2>5 DEF Mentions, TypeOK
  <2> QED
    BY <1>6, <2>4, <2>5, Pop DEF ApplySnapshot, exchangeVars
<1>7. CASE UpdateLevel
  <2> DEFINE m == Head(wire)
  <2>1. m \in Messages /\ m = wire[1] /\ Len(wire) \in Nat \ {0}
    BY <1>7, TailFacts DEF UpdateLevel, TypeOK
  <2>2. m.token \in Tokens /\ m.levels \in Levels
    BY <2>1 DEF Messages
  <2>3. zset' = [zset EXCEPT ![m.token] = (@ \ DOMAIN m.levels) \cup LevelsOf(m.levels)]
    BY <1>7 DEF UpdateLevel
  <2>4. ASSUME NEW t \in Tokens, NEW p \in Prices, ~ Mentions(m, t, p)
        PROVE  p \in zset'[t] <=> p \in zset[t]
    BY <2>2, <2>3, <2>4 DEF Mentions, TypeOK, LevelsOf
  <2>5. UNCHANGED <<sizes, book, link, announced, wire>>
    BY <1>7 DEF UpdateLevel, exchangeVars, linkVars
  <2>6. WireInv'
    BY <2>5 DEF LastWordInv, WireInv, LastMention
  <2>7. ASSUME link = "open", NEW t \in announced, NEW p \in Prices,
               \A i \in 1 .. Len(wire) : ~ Mentions(wire[i], t, p)
        PROVE  (p \in zset'[t] <=> book[t][p] > 0) /\ sizes[t][p] = book[t][p]
    <3>1. ~ Mentions(m, t, p) /\ t \in Tokens
      BY <2>1, <2>7 DEF TypeOK
    <3> QED
      BY <2>4, <2>7, <3>1 DEF LastWordInv, StoreInv
  <2>8. StoreInv'
    BY <2>5, <2>7 DEF StoreInv
  <2> QED
    BY <2>6, <2>8 DEF LastWordInv
<1>8. CASE UpdateSize
  <2> DEFINE m == Head(wire)
  <2>1. wire # <<>> /\ m \in Messages
    BY <1>8, TailFacts DEF UpdateSize, TypeOK, SessionInv
  <2>2. m.token \in Tokens /\ m.levels \in Levels
    BY <2>1 DEF Messages
  <2>3. sizes' = [sizes EXCEPT ![m.token] = Put(@, m.levels)] /\ zset' = zset
    BY <1>8 DEF UpdateSize
  <2>4. ASSUME NEW t \in Tokens, NEW p \in Prices, Mentions(m, t, p)
        PROVE  (p \in zset'[t] <=> m.levels[p] > 0) /\ sizes'[t][p] = m.levels[p]
    BY <1>8, <2>2, <2>3, <2>4 DEF UpdateSize, SessionInv, Mentions, Put, TypeOK
  <2>5. ASSUME NEW t \in Tokens, NEW p \in Prices, ~ Mentions(m, t, p)
        PROVE  (p \in zset'[t] <=> p \in zset[t]) /\ sizes'[t][p] = sizes[t][p]
    BY <2>2, <2>3, <2>5 DEF Mentions, Put, TypeOK
  <2> QED
    BY <1>8, <2>1, <2>4, <2>5, Pop DEF UpdateSize, exchangeVars
<1>9. CASE IgnoreMessage
  <2> DEFINE m == Head(wire)
  <2>1. m = wire[1] /\ 1 \in 1 .. Len(wire)
    BY <1>9, TailFacts DEF IgnoreMessage, TypeOK
  <2>2. m.levels = NoLevels
    BY <1>9, <2>1 DEF IgnoreMessage, SessionInv
  <2>3. \A t \in Tokens, p \in Prices : ~ Mentions(m, t, p)
    BY <2>2 DEF Mentions, NoLevels
  <2> QED
    BY <1>9, <2>3, Pop DEF IgnoreMessage, storeVars, exchangeVars
<1>10. CASE RejectMessage \/ HeartbeatExpires \/ SessionFails \/ Crash
            \/ StreamEnds \/ ReceiveShutdown
  BY <1>3, <1>10
  DEF RejectMessage, HeartbeatExpires, SessionFails, Crash, StreamEnds,
      ReceiveShutdown, Fails, Closes
<1>11. CASE CheckSwitch
  BY <1>2, <1>3, <1>11
  DEF CheckSwitch, Closes, storeVars, exchangeVars, linkVars
<1>12. ASSUME NEW t \in Tokens, BookChanges(t)
       PROVE  LastWordInv'
  <2>1. PICK p \in Prices, n \in 0 .. MaxSize :
          /\ book' = [book EXCEPT ![t][p] = n]
          /\ wire' = IF link = "open" /\ t \in announced
                       THEN Append(wire, [kind |-> "change", token |-> t,
                                          levels |-> [q \in {p} |-> n]])
                       ELSE wire
    BY <1>12 DEF BookChanges
  <2> DEFINE m == [kind |-> "change", token |-> t, levels |-> [q \in {p} |-> n]]
  <2>2. m \in Messages
    BY OneChangeIsLevels DEF Messages
  <2>3. \A u \in Tokens, q \in Prices : Mentions(m, u, q) <=> u = t /\ q = p
    BY DEF Mentions
  <2>4. m.levels[p] = n
    OBVIOUS
  <2>5. \A u \in Tokens, q \in Prices :
          book'[u][q] = IF u = t /\ q = p THEN n ELSE book[u][q]
    BY <2>1 DEF TypeOK, Books
  <2>6. UNCHANGED <<zset, sizes, link, announced>>
    BY <1>12 DEF BookChanges, storeVars
  <2>7. CASE link = "open" /\ t \in announced
    <3>1. wire' = Append(wire, m)
      BY <2>1, <2>7
    <3> HIDE DEF m
    <3> QED
      BY <2>2, <2>3, <2>4, <2>5, <2>6, <3>1, Push DEF TypeOK
  <2>8. CASE link = "open" /\ t \notin announced
    <3>1. \A u \in announced, q \in Prices : book'[u][q] = book[u][q]
      BY <2>5, <2>8 DEF TypeOK
    <3>2. wire' = wire
      BY <2>1, <2>8
    <3> QED
      BY <2>6, <3>1, <3>2 DEF LastWordInv, WireInv, StoreInv, LastMention
  <2>9. CASE link # "open"
    BY <1>1, <2>6, <2>9
  <2> QED
    BY <2>7, <2>8, <2>9
<1>13. ASSUME NEW t \in Tokens, SendSnapshot(t)
       PROVE  LastWordInv'
  <2> DEFINE m == [kind |-> "snapshot", token |-> t, levels |-> book[t]]
  <2>1. m \in Messages /\ DOMAIN book[t] = Prices
    BY BooksAreLevels DEF TypeOK, Messages, Books
  <2>2. \A u \in Tokens, q \in Prices : Mentions(m, u, q) <=> u = t
    BY <2>1 DEF Mentions
  <2>3. m.levels = book[t]
    OBVIOUS
  <2>4. /\ wire' = Append(wire, m)
        /\ announced' = announced \cup {t}
        /\ UNCHANGED <<zset, sizes, link, book>>
    BY <1>13 DEF SendSnapshot, storeVars, exchangeVars
  <2> HIDE DEF m
  <2> QED
    BY <2>1, <2>2, <2>3, <2>4, Push DEF TypeOK
<1>14. CASE SendNoise
  <2>1. PICK kind \in {"bad", "other"}, t \in Tokens :
          wire' = Append(wire, [kind |-> kind, token |-> t, levels |-> NoLevels])
    BY <1>14 DEF SendNoise
  <2> DEFINE m == [kind |-> kind, token |-> t, levels |-> NoLevels]
  <2>2. m \in Messages
    BY NoLevelsIsLevels DEF Messages
  <2>3. \A u \in Tokens, q \in Prices : ~ Mentions(m, u, q)
    BY DEF Mentions, NoLevels
  <2>4. wire' = Append(wire, m) /\ UNCHANGED <<zset, sizes, link, book, announced>>
    BY <1>14, <2>1 DEF SendNoise, storeVars, exchangeVars
  <2> HIDE DEF m
  <2> QED
    BY <2>2, <2>3, <2>4, Push DEF TypeOK
<1>15. CASE LinkBreaks
  BY <1>1, <1>15 DEF LinkBreaks
<1>16. CASE Tick \/ Shutdown \/ OperatorFlipsSwitch
  BY <1>2, <1>16
  DEF Tick, Shutdown, OperatorFlipsSwitch, storeVars, exchangeVars, linkVars
<1>17. ASSUME NEW x \in Markets, Register(x) \/ Relist(x)
       PROVE  LastWordInv'
  BY <1>2, <1>17 DEF Register, Relist, storeVars, exchangeVars, linkVars
<1>18. CASE UNCHANGED feedVars
  BY <1>2, <1>18 DEF feedVars, storeVars, exchangeVars, linkVars
<1> QED
  BY <1>4, <1>5, <1>6, <1>7, <1>8, <1>9, <1>10, <1>11, <1>12, <1>13, <1>14,
     <1>15, <1>16, <1>17, <1>18
  DEF FeedNext, SessionStep, ReadMessage, Exchange

-----------------------------------------------------------------------------
LEMMA FeedInvInit == FeedInit => FeedInv
BY FeedTypeInit, SessionInit, LastWordInit DEF FeedInv, LastWordInv

LEMMA FeedInvStep == FeedInv /\ [FeedNext]_feedVars => FeedInv'
BY FeedTypeStep, SessionStepInv, LastWordStep DEF FeedInv, LastWordInv

(* The feed's inductive invariant holds in every state. *)
THEOREM FeedInvHolds == FeedSpec => []FeedInv
<1>1. FeedInit => FeedInv
  BY FeedInvInit
<1>2. FeedInv /\ [FeedNext]_feedVars => FeedInv'
  BY FeedInvStep
<1> QED
  BY <1>1, <1>2, PTL DEF FeedSpec

LEMMA InvIsBook == FeedInv => CacheIsBook
<1> SUFFICES ASSUME FeedInv, NEW t \in Tokens, InSync(t)
             PROVE  zset[t] = LevelsOf(book[t]) /\ sizes[t] = book[t]
  BY DEF CacheIsBook
<1>1. TypeOK /\ StoreInv /\ link = "open" /\ t \in announced
  BY DEF FeedInv, InSync
<1>2. \A p \in Prices, i \in 1 .. Len(wire) : ~ Mentions(wire[i], t, p)
  BY DEF InSync, Mentions, NoLevels
<1>3. \A p \in Prices : (p \in zset[t] <=> book[t][p] > 0) /\ sizes[t][p] = book[t][p]
  BY <1>1, <1>2 DEF StoreInv
<1>4. zset[t] \subseteq Prices /\ sizes[t] \in Books /\ book[t] \in Books
  BY <1>1 DEF TypeOK
<1> QED
  BY <1>3, <1>4 DEF Books, LevelsOf

(* What Redis holds of a token in sync is the exchange's book, however many *)
(* sessions have ended half-way before.                                     *)
THEOREM CacheHolds == FeedSpec => []CacheIsBook
BY FeedInvHolds, InvIsBook, PTL

-----------------------------------------------------------------------------
(* Min is the least element of any set of natural numbers. *)

LessRel == {ss \in Nat \X Nat : ss[1] < ss[2]}

LEMMA LessIsWellFounded == IsWellFoundedOn(LessRel, Nat)
BY Zenon, NatLessThanWellFounded DEF OpToRel, LessRel

LEMMA MinIsLeast ==
  ASSUME NEW S \in SUBSET Nat, S # {}
  PROVE  Min(S) \in S /\ \A n \in S : Min(S) <= n
<1>1. PICK x \in S : \A y \in S : ~ (<<y, x>> \in LessRel)
  BY LessIsWellFounded, WFMin
<1>2. ASSUME NEW y \in S
      PROVE  x <= y
  <2>1. x \in Nat /\ y \in Nat /\ <<y, x>> \in Nat \X Nat
    OBVIOUS
  <2>2. ~ (y < x)
    BY <1>1, <2>1 DEF LessRel
  <2> QED
    BY <2>1, <2>2
<1> QED
  BY <1>2 DEF Min

(* The best price of a token in Redis is one of its prices. *)
LEMMA BestPrice ==
  ASSUME TypeOK, NEW t \in Tokens, zset[t] # {}
  PROVE  /\ Min(zset[t]) \in zset[t]
         /\ Min(zset[t]) \in Prices
         /\ Min(zset[t]) \in Nat
<1>1. zset[t] \in SUBSET Prices /\ zset[t] \in SUBSET Nat
  BY FeedAssumption DEF TypeOK
<1> QED
  BY <1>1, MinIsLeast

-----------------------------------------------------------------------------
LEMMA ScannerInvInit == ScannerInit => ScannerInv
<1> SUFFICES ASSUME ScannerInit
             PROVE  ScannerInv
  OBVIOUS
<1>1. ScannerTypeOK
  BY DEF ScannerInit, ScannerTypeOK, ScannerStates, Asks, NoAsk
<1>2. ReadingInv /\ DecisionInv
  BY DEF ScannerInit, ReadingInv, DecisionInv, PriceRead, SizeRead, Outcomes
<1> QED
  BY <1>1, <1>2 DEF ScannerInv

LEMMA Dropped ==
  ASSUME Drop, scanner' \in {"down", "scan"},
         marketPairs' \in SUBSET Markets, toScan' \in SUBSET Markets
  PROVE  ScannerInv'
<1>1. ScannerTypeOK'
  BY DEF Drop, ScannerTypeOK, ScannerStates, Asks, NoAsk
<1>2. ReadingInv' /\ DecisionInv'
  BY DEF Drop, ReadingInv, DecisionInv, PriceRead, SizeRead, Outcomes
<1> QED
  BY <1>1, <1>2 DEF ScannerInv

(* The market in hand is a market, and its tokens are tokens. *)
LEMMA InHand ==
  ASSUME ScannerTypeOK, NEW m \in market
  PROVE  m \in Markets /\ market = {m} /\ \A o \in Outcomes : <<m, o>> \in Tokens
BY DEF ScannerTypeOK, Tokens

(* The feed moves, and the market in hand stays in sync and unchanged. *)
LEMMA FeedStepInv ==
  FeedInv /\ FeedInv' /\ ScannerInv /\ FeedStep => ScannerInv'
<1> SUFFICES ASSUME FeedInv, FeedInv', ScannerInv, FeedStep
             PROVE  ScannerInv'
  OBVIOUS
<1>1. UNCHANGED <<scanner, marketPairs, toScan, market, ask>> /\ calm' \in BOOLEAN
  BY DEF FeedStep, scanVars
<1>2. ScannerTypeOK' /\ DecisionInv'
  BY <1>1 DEF ScannerInv, ScannerTypeOK, DecisionInv
<1>3. ASSUME calm', NEW m \in market
      PROVE  /\ calm
             /\ Calm(m)'
             /\ \A o \in Outcomes : /\ zset'[<<m, o>>] = zset[<<m, o>>]
                                    /\ sizes'[<<m, o>>] = sizes[<<m, o>>]
  <2>1. calm /\ Calm(m)' /\ \A o \in Outcomes : book'[<<m, o>>] = book[<<m, o>>]
    BY <1>3 DEF FeedStep
  <2>2. Calm(m)
    BY <2>1 DEF ScannerInv, ReadingInv
  <2>3. CacheIsBook /\ CacheIsBook'
    BY InvIsBook, PTL
  <2>4. ASSUME NEW o \in Outcomes
        PROVE  zset'[<<m, o>>] = zset[<<m, o>>] /\ sizes'[<<m, o>>] = sizes[<<m, o>>]
    <3>1. <<m, o>> \in Tokens
      BY InHand DEF ScannerInv
    <3>2. InSync(<<m, o>>) /\ InSync(<<m, o>>)'
      BY <2>1, <2>2 DEF Calm, Outcomes
    <3>3. zset[<<m, o>>] = LevelsOf(book[<<m, o>>]) /\ sizes[<<m, o>>] = book[<<m, o>>]
      BY <2>3, <3>1, <3>2 DEF CacheIsBook
    <3>4. zset'[<<m, o>>] = LevelsOf(book'[<<m, o>>]) /\ sizes'[<<m, o>>] = book'[<<m, o>>]
      BY <2>3, <3>1, <3>2 DEF CacheIsBook
    <3> QED
      BY <2>1, <3>3, <3>4
  <2> QED
    BY <2>1, <2>4
<1>4. ReadingInv'
  BY <1>1, <1>3 DEF ScannerInv, ReadingInv, ScannerTypeOK
<1> QED
  BY <1>2, <1>4 DEF ScannerInv

(* get_best_ask(), its first command ... *)
LEMMA ReadPriceInv ==
  ASSUME FeedInv, ScannerInv, NEW o \in Outcomes, NEW at, NEW next,
         ReadPrice(o, at, next),
         \/ o = "YES" /\ at = "yesPrice" /\ next = "yesSize"
         \/ o = "NO" /\ at = "noPrice" /\ next = "noSize"
  PROVE  ScannerInv'
<1>1. PICK m \in market :
        /\ scanner = at
        /\ \/ /\ zset[<<m, o>>] # {}
              /\ ask' = [ask EXCEPT ![o].price = Min(zset[<<m, o>>])]
              /\ scanner' = next
              /\ UNCHANGED <<market, calm>>
           \/ /\ zset[<<m, o>>] = {}
              /\ scanner' = "scan"
              /\ Drop
        /\ UNCHANGED <<feedVars, marketPairs, toScan>>
  BY DEF ReadPrice
<1>2. m \in Markets /\ market = {m} /\ <<m, o>> \in Tokens
  BY InHand DEF ScannerInv
<1>3. CASE zset[<<m, o>>] = {}
  BY <1>1, <1>3, Dropped DEF ScannerInv, ScannerTypeOK
<1>4. CASE zset[<<m, o>>] # {}
  <2>1. Min(zset[<<m, o>>]) \in Prices /\ Min(zset[<<m, o>>]) \in Nat
    BY <1>2, <1>4, BestPrice DEF FeedInv
  <2>2. /\ ask' = [ask EXCEPT ![o].price = Min(zset[<<m, o>>])]
        /\ scanner' = next
        /\ UNCHANGED <<market, calm, marketPairs, toScan>>
    BY <1>1, <1>4
  <2>3. UNCHANGED <<zset, sizes>> /\ \A x \in Markets : Calm(x)' <=> Calm(x)
    BY <1>1 DEF feedVars, storeVars, linkVars, Calm, InSync
  <2>4. ask \in [Outcomes -> Asks]
    BY DEF ScannerInv, ScannerTypeOK
  <2>5. /\ ask' \in [Outcomes -> Asks]
        /\ ask'[o].price = Min(zset[<<m, o>>])
        /\ \A u \in Outcomes : ask'[u].size = ask[u].size
        /\ \A u \in Outcomes \ {o} : ask'[u] = ask[u]
    BY <2>1, <2>2, <2>4 DEF Asks
  <2>6. ScannerTypeOK'
    BY <2>2, <2>5 DEF ScannerInv, ScannerTypeOK, ScannerStates
  <2>7. DecisionInv'
    BY <1>1, <2>1, <2>2, <2>5
    DEF ScannerInv, DecisionInv, PriceRead, Outcomes
  <2>8. /\ market' = {} <=> scanner' \in {"down", "select", "scan"}
        /\ calm' => \A x \in market' : Calm(x)'
    BY <1>1, <1>2, <2>2, <2>3 DEF ScannerInv, ReadingInv
  <2>9. calm' => \A x \in market', u \in Outcomes :
          scanner' \in PriceRead[u] =>
            zset'[<<x, u>>] # {} /\ ask'[u].price = Min(zset'[<<x, u>>])
    BY <1>1, <1>2, <1>4, <2>2, <2>3, <2>5
    DEF ScannerInv, ReadingInv, PriceRead, Outcomes
  <2>10. calm' => \A x \in market', u \in Outcomes :
           scanner' \in SizeRead[u] => ask'[u].size = sizes'[<<x, u>>][ask'[u].price]
    BY <1>1, <1>2, <2>2, <2>3, <2>5
    DEF ScannerInv, ReadingInv, SizeRead, Outcomes
  <2> QED
    BY <2>6, <2>7, <2>8, <2>9, <2>10 DEF ScannerInv, ReadingInv
<1> QED
  BY <1>3, <1>4

(* ... and its second. *)
LEMMA ReadSizeInv ==
  ASSUME FeedInv, ScannerInv, NEW o \in Outcomes, NEW at, NEW next,
         ReadSize(o, at, next),
         \/ o = "YES" /\ at = "yesSize" /\ next = "noPrice"
         \/ o = "NO" /\ at = "noSize" /\ next = "decide"
  PROVE  ScannerInv'
<1>1. PICK m \in market :
        /\ scanner = at
        /\ ask' = [ask EXCEPT ![o].size = sizes[<<m, o>>][ask[o].price]]
        /\ scanner' = next
        /\ UNCHANGED <<feedVars, marketPairs, toScan, market, calm>>
  BY DEF ReadSize
<1>2. m \in Markets /\ market = {m} /\ <<m, o>> \in Tokens
  BY InHand DEF ScannerInv
<1>3. ask[o].price \in Prices
  <2>1. scanner \in PriceRead[o]
    <3>1. CASE o = "YES"
      BY <1>1, <3>1 DEF PriceRead
    <3>2. CASE o = "NO"
      BY <1>1, <3>2 DEF PriceRead
    <3> QED
      BY <3>1, <3>2 DEF Outcomes
  <2> QED
    BY <2>1 DEF ScannerInv, DecisionInv
<1>4. sizes[<<m, o>>][ask[o].price] \in Nat
  <2>1. sizes[<<m, o>>] \in [Prices -> 0 .. MaxSize]
    BY <1>2 DEF FeedInv, TypeOK, Books
  <2>2. sizes[<<m, o>>][ask[o].price] \in 0 .. MaxSize
    BY <1>3, <2>1
  <2> QED
    BY <2>2, FeedAssumption
<1>5. ask \in [Outcomes -> Asks]
  BY DEF ScannerInv, ScannerTypeOK
<1>6. /\ ask' \in [Outcomes -> Asks]
      /\ ask'[o].size = sizes[<<m, o>>][ask[o].price]
      /\ \A u \in Outcomes : ask'[u].price = ask[u].price
      /\ \A u \in Outcomes \ {o} : ask'[u] = ask[u]
  BY <1>1, <1>4, <1>5 DEF Asks
<1>7. UNCHANGED <<zset, sizes>> /\ \A x \in Markets : Calm(x)' <=> Calm(x)
  BY <1>1 DEF feedVars, storeVars, linkVars, Calm, InSync
<1>8. ScannerTypeOK'
  BY <1>1, <1>6 DEF ScannerInv, ScannerTypeOK, ScannerStates
<1>9. DecisionInv'
  BY <1>1, <1>3, <1>6 DEF ScannerInv, DecisionInv, PriceRead, Outcomes
<1>10. /\ market' = {} <=> scanner' \in {"down", "select", "scan"}
       /\ calm' => \A x \in market' : Calm(x)'
  BY <1>1, <1>2, <1>7 DEF ScannerInv, ReadingInv
<1>11. calm' => \A x \in market', u \in Outcomes :
         scanner' \in PriceRead[u] =>
           zset'[<<x, u>>] # {} /\ ask'[u].price = Min(zset'[<<x, u>>])
  BY <1>1, <1>2, <1>6, <1>7 DEF ScannerInv, ReadingInv, PriceRead, Outcomes
<1>12. calm' => \A x \in market', u \in Outcomes :
         scanner' \in SizeRead[u] => ask'[u].size = sizes'[<<x, u>>][ask'[u].price]
  BY <1>1, <1>2, <1>6, <1>7 DEF ScannerInv, ReadingInv, SizeRead, Outcomes
<1> QED
  BY <1>8, <1>9, <1>10, <1>11, <1>12 DEF ScannerInv, ReadingInv

LEMMA ScannerInvStep ==
  FeedInv /\ FeedInv' /\ ScannerInv /\ [Next]_vars => ScannerInv'
<1> SUFFICES ASSUME FeedInv, FeedInv', ScannerInv, [Next]_vars
             PROVE  ScannerInv'
  OBVIOUS
<1> USE DEF ScannerInv
<1>1. /\ ScannerTypeOK
      /\ marketPairs \in SUBSET Markets
      /\ toScan \in SUBSET Markets
      /\ pairs \in SUBSET Markets
  BY DEF ScannerTypeOK, FeedInv, TypeOK
<1>2. CASE FeedStep
  BY <1>2, FeedStepInv
<1>3. CASE StartScanner \/ RefreshMarketPairs \/ ScanAllMarkets \/ EndScan
  <2>1. /\ UNCHANGED <<feedVars, market, ask, calm>>
        /\ scanner \in {"down", "select", "scan"}
        /\ scanner' \in {"down", "select", "scan"}
        /\ marketPairs' \in SUBSET Markets
        /\ toScan' \in SUBSET Markets
    BY <1>1, <1>3 DEF StartScanner, RefreshMarketPairs, ScanAllMarkets, EndScan
  <2>2. ScannerTypeOK'
    BY <1>1, <2>1 DEF ScannerTypeOK, ScannerStates
  <2>3. market = {} /\ market' = {}
    BY <2>1 DEF ReadingInv
  <2>4. ReadingInv' /\ DecisionInv'
    BY <2>1, <2>3 DEF ReadingInv, DecisionInv, PriceRead, Outcomes
  <2> QED
    BY <2>2, <2>4
<1>4. ASSUME NEW m \in Markets, NextMarket(m)
      PROVE  ScannerInv'
  <2>1. /\ market' = {m} /\ calm' = Calm(m) /\ scanner' = "yesPrice"
        /\ toScan' \in SUBSET Markets
        /\ UNCHANGED <<feedVars, marketPairs, ask>>
    BY <1>1, <1>4 DEF NextMarket
  <2>2. Calm(m) \in BOOLEAN /\ (Calm(m)' <=> Calm(m))
    BY <2>1 DEF Calm, InSync, feedVars, linkVars
  <2>3. ScannerTypeOK'
    BY <1>1, <2>1, <2>2 DEF ScannerTypeOK, ScannerStates
  <2>4. ReadingInv'
    BY <2>1, <2>2 DEF ReadingInv, PriceRead, SizeRead, Outcomes
  <2>5. DecisionInv'
    BY <2>1 DEF DecisionInv, PriceRead, Outcomes
  <2> QED
    BY <2>3, <2>4, <2>5
<1>5. CASE ReadYesPrice \/ ReadNoPrice
  BY <1>5, ReadPriceInv DEF ReadYesPrice, ReadNoPrice, Outcomes
<1>6. CASE ReadYesSize \/ ReadNoSize
  BY <1>6, ReadSizeInv DEF ReadYesSize, ReadNoSize, Outcomes
<1>7. CASE Decide
  <2>1. CASE scanner' = "publish"
    <3>1. /\ scanner = "decide"
          /\ Worth(ask["YES"], ask["NO"])
          /\ UNCHANGED <<market, ask, calm, feedVars, marketPairs, toScan>>
      BY <1>7, <2>1 DEF Decide
    <3>2. ScannerTypeOK'
      BY <1>1, <2>1, <3>1 DEF ScannerTypeOK, ScannerStates
    <3>3. UNCHANGED <<zset, sizes>> /\ \A x \in Markets : Calm(x)' <=> Calm(x)
      BY <3>1 DEF feedVars, storeVars, linkVars, Calm, InSync
    <3>4. \A x \in market : x \in Markets
      BY <1>1, InHand
    <3>5. ReadingInv'
      BY <2>1, <3>1, <3>3, <3>4 DEF ReadingInv, PriceRead, SizeRead, Outcomes
    <3>6. DecisionInv'
      BY <2>1, <3>1 DEF DecisionInv, PriceRead, Outcomes
    <3> QED
      BY <3>2, <3>5, <3>6
  <2>2. CASE scanner' # "publish"
    BY <1>1, <1>7, <2>2, Dropped DEF Decide
  <2> QED
    BY <2>1, <2>2
<1>8. CASE PublishSignal \/ CheckFails \/ ScannerStops
  BY <1>1, <1>8, Dropped DEF PublishSignal, CheckFails, ScannerStops
<1>9. CASE UNCHANGED vars
  <2>1. UNCHANGED <<feedVars, scanner, marketPairs, toScan, market, ask, calm>>
    BY <1>9 DEF vars, scanVars
  <2>2. UNCHANGED <<zset, sizes>> /\ \A x \in Markets : Calm(x)' <=> Calm(x)
    BY <2>1 DEF feedVars, storeVars, linkVars, Calm, InSync
  <2>3. \A x \in market : x \in Markets
    BY <1>1, InHand
  <2> QED
    BY <2>1, <2>2, <2>3 DEF ScannerTypeOK, ReadingInv, DecisionInv
<1> QED
  BY <1>2, <1>3, <1>4, <1>5, <1>6, <1>7, <1>8, <1>9 DEF Next, ScannerStep

(* A step of the composition is a step of the feed, or leaves it alone, or  *)
(* counts one disturbance.                                                  *)
LEMMA FeedOfComposition == FeedInv /\ [Next]_vars => FeedInv'
<1> SUFFICES ASSUME FeedInv, [Next]_vars
             PROVE  FeedInv'
  OBVIOUS
<1>1. CASE [FeedNext]_feedVars
  BY <1>1, FeedInvStep
<1>2. CASE CheckFails \/ ScannerStops
  <2>1. /\ UNCHANGED <<enabled, storeVars, session, attempts, subscribed,
                       timerVars, shutdown, exchangeVars, linkVars>>
        /\ noise' = noise + 1
    BY <1>2 DEF CheckFails, ScannerStops, Disturb
  <2>2. TypeOK'
    BY <2>1
    DEF FeedInv, TypeOK, storeVars, timerVars, exchangeVars, linkVars
  <2>3. SessionInv' /\ WireInv' /\ StoreInv'
    BY <2>1
    DEF FeedInv, SessionInv, WireInv, StoreInv, LastMention, storeVars,
        exchangeVars, linkVars
  <2> QED
    BY <2>2, <2>3 DEF FeedInv
<1>3. CASE StartScanner \/ RefreshMarketPairs \/ ScannerStep
  BY <1>1, <1>3
  DEF StartScanner, RefreshMarketPairs, ScannerStep, ScanAllMarkets, EndScan,
      NextMarket, ReadYesPrice, ReadYesSize, ReadNoPrice, ReadNoSize,
      ReadPrice, ReadSize, Decide, PublishSignal
<1> QED
  BY <1>1, <1>2, <1>3 DEF Next, FeedStep, vars

(* The inductive invariant of feed and scanner holds in every state. *)
THEOREM ScannerInvHolds == Spec => [](FeedInv /\ ScannerInv)
<1>1. Init => FeedInv /\ ScannerInv
  BY FeedInvInit, ScannerInvInit DEF Init
<1>2. FeedInv /\ ScannerInv /\ [Next]_vars => (FeedInv /\ ScannerInv)'
  BY FeedOfComposition, ScannerInvStep
<1> QED
  BY <1>1, <1>2, PTL DEF Spec

LEMMA InvIsTrue == FeedInv /\ ScannerInv => CalmSignalsAreTrue
<1> SUFFICES ASSUME FeedInv, ScannerInv, scanner = "publish", calm,
                    NEW m \in market
             PROVE  /\ \A o \in Outcomes : ask[o] = BestAsk(<<m, o>>)
                    /\ BoxOffered(m)
  BY DEF CalmSignalsAreTrue
<1>1. Calm(m) /\ m \in Markets /\ \A o \in Outcomes : <<m, o>> \in Tokens
  BY InHand DEF ScannerInv, ReadingInv
<1>2. ASSUME NEW o \in Outcomes
      PROVE  ask[o] = BestAsk(<<m, o>>) /\ ask[o].price \in LevelsOf(book[<<m, o>>])
  <2>1. zset[<<m, o>>] = LevelsOf(book[<<m, o>>]) /\ sizes[<<m, o>>] = book[<<m, o>>]
    BY <1>1, InvIsBook DEF CacheIsBook, Calm, Outcomes
  <2>2. zset[<<m, o>>] # {} /\ ask[o].price = Min(zset[<<m, o>>])
    BY DEF ScannerInv, ReadingInv, PriceRead, Outcomes
  <2>3. ask[o].size = sizes[<<m, o>>][ask[o].price]
    BY DEF ScannerInv, ReadingInv, SizeRead, Outcomes
  <2>4. ask[o] = [price |-> ask[o].price, size |-> ask[o].size]
    BY DEF ScannerInv, ScannerTypeOK, Asks
  <2>5. ask[o].price \in LevelsOf(book[<<m, o>>])
    BY <1>1, <2>1, <2>2, BestPrice DEF FeedInv
  <2> QED
    BY <2>1, <2>2, <2>3, <2>4, <2>5 DEF BestAsk
<1>3. ask["YES"].price + ask["NO"].price + Buffer < BoxValue
  BY DEF ScannerInv, DecisionInv, Worth
<1> QED
  BY <1>2, <1>3 DEF BoxOffered, Outcomes

(* A signal about a market in sync and unchanged since the scanner turned   *)
(* to it names the exchange's best asks, and the box is offered.            *)
THEOREM CalmSignalsHold == Spec => []CalmSignalsAreTrue
BY ScannerInvHolds, InvIsTrue, PTL
=============================================================================
