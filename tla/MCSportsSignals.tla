---------------------------- MODULE MCSportsSignals ----------------------------
(***************************************************************************)
(* A small instance of SportsSignals for TLC: an NBA game and an NCAA      *)
(* game, each with two markets.                                            *)
(***************************************************************************)
EXTENDS SportsSignals, TLC

CONSTANTS thunder, lakers, michigan, duke,       \* teams, and names for them
          okc,                                   \* the first one's nickname
          blue,                                  \* "Michigan Blue", say
          state                                  \* Michigan State, another school

MCSchedule == [NBA |-> <<"okc-lal">>, NCAAM |-> <<"mich-duke">>]
MCHome == "okc-lal" :> thunder @@ "mich-duke" :> michigan
MCAway == "okc-lal" :> lakers @@ "mich-duke" :> duke

(* Titles with a nickname, and one that is about another game. *)
MCListed == [NBA |-> {"away first", "nickname"},
             NCAAM |-> {"home first", "other game"}]
MCTitle == "away first" :> <<lakers, okc>> @@ "nickname" :> <<okc, lakers>>
           @@ "home first" :> <<blue, duke>> @@ "other game" :> <<state, duke>>
MCMeans == [n \in {thunder, lakers, michigan, duke, okc, blue,
                     state} |->
              IF n = okc THEN thunder ELSE IF n = blue THEN michigan ELSE n]
MCPartOf == {<<n, n>> : n \in {thunder, lakers, michigan, duke}}
MCAlike == {<<blue, michigan>>, <<state, michigan>>}
MCSchoolIn == MCPartOf \cup {<<blue, michigan>>}

MCMinEntry == [l \in Leagues |-> 10]
MCMaxEntry == [NBA |-> 95, NCAAM |-> 90]
MCMinEdge == [l \in Leagues |-> 5]
=============================================================================
