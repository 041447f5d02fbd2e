---------------------------- MODULE ChessRanking ----------------------------
(***************************************************************************)
(* What chessSystem.c computes from games and player totals: the totals of *)
(* a player, the winner of a tournament, the printed order of levels and   *)
(* the statistics of a tournament.                                         *)
(*                                                                         *)
(* A game has a player and a deleted mark on each side, and its result is  *)
(* the side that won, or "draw".  A collection of games is a function.     *)
(***************************************************************************)
EXTENDS Integers, Sequences, FiniteSets, SequencesExt, FiniteSetsExt, Functions

Sides == {"first", "second"}

OtherSide(side) == IF side = "first" THEN "second" ELSE "first"

NoRecord == [wins |-> 0, loses |-> 0, draws |-> 0, total_game_time |-> 0]

(* The domain of key in the order of its values, which are different.      *)
ByKey(key) ==
  [i \in 1 .. Cardinality(DOMAIN key) |->
     CHOOSE x \in DOMAIN key :
       Cardinality({y \in DOMAIN key : key[y] < key[x]}) = i - 1]

Plus(r, s) == [field \in DOMAIN r |-> r[field] + s[field]]

Minus(r, s) == [field \in DOMAIN r |-> r[field] - s[field]]

PlayedBy(p, games) == {id \in DOMAIN games : \E side \in Sides : games[id].player[side] = p}

(* What updatePlayerScore adds up to, game by game.                        *)
Tally(p, games) ==
  LET played == PlayedBy(p, games)
      draws  == {id \in played : games[id].game_result = "draw"}
      wins   == {id \in played \ draws : games[id].player[games[id].game_result] = p}
  IN  [wins  |-> Cardinality(wins),
       loses |-> Cardinality(played) - Cardinality(wins) - Cardinality(draws),
       draws |-> Cardinality(draws),
       total_game_time |-> MapThenSumSet(LAMBDA id : games[id].game_time, played)]

-----------------------------------------------------------------------------
(* The histogram of chessEndTournament: a column for every player who is   *)
(* not marked as deleted, in the order in which the games name them; its   *)
(* length is twice the number of games, and the rest of it is 0.           *)
CountedFor(p, games) ==
  {id \in DOMAIN games : \E side \in Sides : /\ games[id].player[side] = p
                                             /\ ~ games[id].deleted[side]}

Counted(games) ==
  UNION {{games[id].player[side] : side \in {s \in Sides : ~ games[id].deleted[s]}} :
           id \in DOMAIN games}

FirstPlace(p, games) ==
  LET id == Min(CountedFor(p, games))
  IN  2 * id + (IF games[id].player["second"] = p THEN 1 ELSE 0)

Column(p, games) ==
  LET t == Tally(p, Restrict(games, CountedFor(p, games)))
  IN  [id |-> p, points |-> 2 * t.wins + t.draws, loses |-> t.loses, wins |-> t.wins]

Histogram(games) ==
  LET ids == ByKey([p \in Counted(games) |-> FirstPlace(p, games)])
  IN  [i \in 1 .. 2 * Cardinality(DOMAIN games) |->
         IF i <= Len(ids) THEN Column(ids[i], games)
         ELSE [id |-> 0, points |-> 0, loses |-> 0, wins |-> 0]]

(* Mutation: among equal points the one with more losses is preferred.     *)
nextBestMoreLoses(best, column, i, leader) ==
  IF \/ column.points > best.points
     \/ column.points = best.points /\ column.loses > best.loses
  THEN [index |-> i, points |-> column.points, loses |-> column.loses, wins |-> column.wins]
  ELSE best

(* One step of checkWinner's loop: best is what it remembers of the column *)
(* it prefers, leader that column.  A column that is preferred for its     *)
(* losses leaves the remembered wins as they were.                         *)
nextBest(best, column, i, leader) ==
  LET all == [index |-> i, points |-> column.points, loses |-> column.loses,
              wins |-> column.wins]
  IN  CASE column.points > best.points -> all
        [] column.points = best.points /\ column.loses < best.loses ->
             [best EXCEPT !.index = i, !.loses = column.loses]
        [] /\ column.points = best.points
           /\ column.loses = best.loses
           /\ \/ column.wins > best.wins
              \/ column.wins = best.wins /\ column.id < leader.id -> all
        [] OTHER -> best

checkWinner(columns) ==
  LET best[i \in 0 .. Len(columns)] ==
        IF i = 0 THEN [index |-> 1, points |-> 0, loses |-> 0, wins |-> 0]
        ELSE nextBest(best[i - 1], columns[i], i, columns[best[i - 1].index])
  IN  columns[best[Len(columns)].index].id

-----------------------------------------------------------------------------
(* A level is a quotient; the totals of a player who was removed and came  *)
(* back may be negative.                                                   *)
GamesPlayed(record) == record.wins + record.loses + record.draws

Level(record) ==
  LET sum  == 6 * record.wins - 10 * record.loses + 2 * record.draws
      sign == IF GamesPlayed(record) < 0 THEN -1 ELSE 1
  IN  [num |-> sign * sum, den |-> sign * GamesPlayed(record)]

Less(a, b) == a.num * b.den < b.num * a.den

SameLevel(a, b) == a.num * b.den = b.num * a.den

(* chessSavePlayersLevels: the listed players, by identifier, who have     *)
(* played.                                                                 *)
Levels(players) ==
  LET ids == ByKey([p \in {q \in DOMAIN players : GamesPlayed(players[q]) # 0} |-> p])
  IN  [i \in 1 .. Len(ids) |-> [id |-> ids[i], level |-> Level(players[ids[i]])]]

(* Mutation: the search for the next level starts from 0 at once.          *)
indexOfSmallClosesNumberFromZero(levels, number) ==
  LET smaller == {i \in DOMAIN levels : /\ Less(levels[i].level, number)
                                        /\ levels[i].level.num > 0}
      closest == {i \in smaller : \A j \in smaller :
                                    ~ Less(levels[i].level, levels[j].level)}
  IN  IF closest = {} THEN 1 ELSE Min(closest)

indexOfSmallClosesNumber(levels, number) ==
  LET smaller == {i \in DOMAIN levels : Less(levels[i].level, number)}
      closest == {i \in smaller : \A j \in smaller :
                                    ~ Less(levels[i].level, levels[j].level)}
  IN  Min(closest)

(* printLevelsToFile: all players with the current level, by identifier,   *)
(* then those with the next smaller one.                                   *)
Printed(levels) ==
  LET n == Len(levels)
      top == Min({i \in 1 .. n : \A j \in 1 .. n :
                                   ~ Less(levels[i].level, levels[j].level)})
      having(number) ==
        ByKey([i \in {j \in 1 .. n : SameLevel(levels[j].level, number)} |-> i])
      loop[k \in 0 .. n] ==
        IF k = 0 THEN [lines |-> << >>, index |-> top]
        ELSE IF Len(loop[k - 1].lines) >= n THEN loop[k - 1]
        ELSE LET number == levels[loop[k - 1].index].level
                 lines  == loop[k - 1].lines \o having(number)
             IN  [lines |-> lines,
                  index |-> IF Len(lines) < n
                            THEN indexOfSmallClosesNumber(levels, number) ELSE 1]
  IN  IF n = 0 THEN << >> ELSE [k \in 1 .. Len(loop[n].lines) |-> levels[loop[n].lines[k]]]

-----------------------------------------------------------------------------
(* longestGameTimeAndAverage: the first game is taken off the count only   *)
(* if it is longer than 0; otherwise the loop reads one game too many.     *)
GamesRead(games) ==
  LET first == Min(DOMAIN games)
  IN  Cardinality(DOMAIN games) + (IF games[first].game_time > 0 THEN 0 ELSE 1)

StatisticsFault(games) == GamesRead(games) > Cardinality(DOMAIN games)
=============================================================================
