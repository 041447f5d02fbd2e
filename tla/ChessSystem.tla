----------------------------- MODULE ChessSystem -----------------------------
(***************************************************************************)
(* The chess tournament system (chessSystem.c): a table of tournaments,    *)
(* each with its games, and a table of players with their totals.  The two *)
(* tables are kept apart: an operation that adds, awards or removes games  *)
(* has to change both.  A table is a function from the identifiers in it.  *)
(*                                                                         *)
(* A call that is refused changes nothing and is left out: the conditions  *)
(* under which a call is accepted are the guards of its action.            *)
(***************************************************************************)
EXTENDS ChessRanking

CONSTANTS TournamentIds,  \* identifiers given to chessAddTournament
          MaxGamesArgs,   \* its max_games_per_player arguments
          Pairings,       \* pairs of players given to chessAddGame
          Results,        \* its winner arguments
          PlayTimes,      \* its play_time arguments
          MaxGames,       \* bound: games that exist at a time
          MaxRemoved      \* bound: different players that are ever removed

ASSUME ChessAssumption ==
  /\ TournamentIds \subseteq Nat \ {0}
  /\ MaxGamesArgs \subseteq Nat \ {0}
  /\ Pairings \subseteq (Nat \ {0}) \X (Nat \ {0})
  /\ \A pair \in Pairings : pair[1] # pair[2]
  /\ Results \subseteq Sides \cup {"draw"}
  /\ PlayTimes \subseteq Nat
  /\ MaxGames \in Nat
  /\ MaxRemoved \in Nat

PlayerIds == {pair[1] : pair \in Pairings} \cup {pair[2] : pair \in Pairings}

GameIds == 1 .. MaxGames

VARIABLES
  chess_tournament_table,
  players_list,
  status,    \* the process: running, or segfault
  removed,   \* history: identifiers chessRemovePlayer took out at some time
  returned   \* history: those of them that were listed again later

history == <<removed, returned>>
vars    == <<chess_tournament_table, players_list, status, history>>

Init ==
  /\ chess_tournament_table = << >>
  /\ players_list = << >>
  /\ status = "running"
  /\ removed = {}
  /\ returned = {}

Tournaments == DOMAIN chess_tournament_table

Listed == DOMAIN players_list

GamesIn(t) == chess_tournament_table[t].games

(* Every game that exists, by its tournament and its identifier.           *)
AllGames ==
  [x \in UNION {{t} \X DOMAIN GamesIn(t) : t \in Tournaments} |-> GamesIn(x[1])[x[2]]]

(* mapPut and mapRemove.                                                   *)
Put(table, key, data) ==
  [k \in DOMAIN table \cup {key} |-> IF k = key THEN data ELSE table[k]]

Removed(table, key) == Restrict(table, DOMAIN table \ {key})

-----------------------------------------------------------------------------
chessAddTournament(t, max_games) ==
  /\ status = "running"
  /\ t \notin Tournaments
  /\ chess_tournament_table' =
       Put(chess_tournament_table, t,
           [max_games_per_player |-> max_games, games |-> << >>, winner_id |-> 0,
            in_progress |-> TRUE, number_of_players |-> 0])
  /\ UNCHANGED <<players_list, status, history>>

(* A game of a removed player may be played again, and is not counted.     *)
checkAlreadyExistGame(games, p, q) ==
  \E id \in DOMAIN games :
    /\ Range(games[id].player) = {p, q}
    /\ TRUE \notin Range(games[id].deleted)

getPlayerNumberOfGames(games, p) == Cardinality(CountedFor(p, games))

(* Mutation: a player's last game may exceed the maximum.                  *)
exceededByOne(tournament, p) ==
  getPlayerNumberOfGames(tournament.games, p) > tournament.max_games_per_player

exceeded(tournament, p) ==
  getPlayerNumberOfGames(tournament.games, p) >= tournament.max_games_per_player

(* Mutation: games are numbered in each tournament on its own.             *)
generateGameIdIn(t) ==
  CHOOSE id \in 1 .. MaxGames + 1 :
    id \notin DOMAIN GamesIn(t) /\ \A smaller \in 1 .. id - 1 : smaller \in DOMAIN GamesIn(t)

UsedIds == UNION {DOMAIN GamesIn(t) : t \in Tournaments}

(* Mutation: the numbers of removed games are not given again.             *)
generateGameIdAboveAll(t) == Max(UsedIds \cup {0}) + 1

(* The first number that no game of any tournament has.                    *)
generateGameId(t) ==
  CHOOSE id \in 1 .. MaxGames + 1 :
    id \notin UsedIds /\ \A smaller \in 1 .. id - 1 : smaller \in UsedIds

(* Mutation: every game brings two players to its tournament.              *)
newPlayersAlwaysTwo(games, p, q) == 2

(* updateTournamentPlayers: those for whom it is the first game.           *)
newPlayers(games, p, q) ==
  Cardinality({player \in {p, q} : getPlayerNumberOfGames(games, player) = 1})

(* addPlayer and updatePlayerScore, for one of the players of a new game.  *)
Credited(players, p, game) ==
  LET record == IF p \in DOMAIN players THEN players[p] ELSE NoRecord
  IN  Put(players, p, Plus(record, Tally(p, <<game>>)))

chessAddGame(t, p, q, winner, play_time) ==
  LET tournament == chess_tournament_table[t]
      game  == [player |-> [first |-> p, second |-> q], game_result |-> winner,
                game_time |-> play_time, deleted |-> [first |-> FALSE, second |-> FALSE]]
      games == Put(tournament.games, generateGameId(t), game)
  IN  /\ status = "running"
      /\ t \in Tournaments
      /\ tournament.in_progress
      /\ ~ checkAlreadyExistGame(tournament.games, p, q)
      /\ ~ exceeded(tournament, p) /\ ~ exceeded(tournament, q)
      /\ Cardinality(DOMAIN AllGames) < MaxGames
      /\ chess_tournament_table' =
           [chess_tournament_table EXCEPT
              ![t].games = games,
              ![t].number_of_players = @ + newPlayers(games, p, q)]
      /\ players_list' = Credited(Credited(players_list, p, game), q, game)
      /\ returned' = returned \cup (removed \cap {p, q})
      /\ UNCHANGED <<status, removed>>

(* Mutation: the tournament goes, what it gave to the players stays.       *)
removeTournamentOnly(t) ==
  /\ status = "running"
  /\ t \in Tournaments
  /\ chess_tournament_table' = Removed(chess_tournament_table, t)
  /\ UNCHANGED <<players_list, status, history>>

(* What its games gave is taken from whoever has their players' ids now.   *)
chessRemoveTournament(t) ==
  /\ status = "running"
  /\ t \in Tournaments
  /\ players_list' = [p \in Listed |-> Minus(players_list[p], Tally(p, GamesIn(t)))]
  /\ chess_tournament_table' = Removed(chess_tournament_table, t)
  /\ UNCHANGED <<status, history>>

SideOf(p, game) == CHOOSE side \in Sides : game.player[side] = p

(* Mutation: the game is marked and keeps its result.                      *)
withoutPlayerMarked(p, game) == [game EXCEPT !.deleted[SideOf(p, game)] = TRUE]

(* A game in progress after one of its players is removed: the opponent    *)
(* wins, if that player is still listed.                                   *)
withoutPlayer(p, game) ==
  LET opponent == OtherSide(SideOf(p, game))
  IN  [game EXCEPT
         !.deleted[SideOf(p, game)] = TRUE,
         !.game_result = IF game.player[opponent] \in Listed THEN opponent ELSE @]

(* Mutation: ended tournaments are changed as well.                        *)
concernsAny(p, t, id) == id \in PlayedBy(p, GamesIn(t))

(* The games that removing p changes.                                      *)
concerns(p, t, id) == chess_tournament_table[t].in_progress /\ id \in PlayedBy(p, GamesIn(t))

chessRemovePlayer(p) ==
  LET before == Restrict(AllGames, {x \in DOMAIN AllGames : concerns(p, x[1], x[2])})
      after  == [x \in DOMAIN before |-> withoutPlayer(p, before[x])]
  IN  /\ status = "running"
      /\ p \in Listed
      /\ Cardinality(removed \cup {p}) <= MaxRemoved
      /\ chess_tournament_table' =
           [t \in Tournaments |->
              [chess_tournament_table[t] EXCEPT
                 !.games = [id \in DOMAIN @ |->
                              IF <<t, id>> \in DOMAIN after THEN after[<<t, id>>] ELSE @[id]]]]
      /\ players_list' =
           [q \in Listed \ {p} |->
              Plus(Minus(players_list[q], Tally(q, before)), Tally(q, after))]
      /\ removed' = removed \cup {p}
      /\ UNCHANGED <<status, returned>>

chessEndTournament(t) ==
  /\ status = "running"
  /\ t \in Tournaments
  /\ chess_tournament_table[t].in_progress
  /\ DOMAIN GamesIn(t) # {}
  /\ chess_tournament_table' =
       [chess_tournament_table EXCEPT ![t].winner_id = checkWinner(Histogram(GamesIn(t))),
                                      ![t].in_progress = FALSE]
  /\ UNCHANGED <<players_list, status, history>>

Ended == {t \in Tournaments : ~ chess_tournament_table[t].in_progress}

(* The tournaments are only read, but the reading may run past their games.*)
chessSaveTournamentStatistics ==
  /\ status = "running"
  /\ Ended # {}
  /\ status' = IF \E t \in Ended : StatisticsFault(GamesIn(t)) THEN "segfault" ELSE status
  /\ UNCHANGED <<chess_tournament_table, players_list, history>>

Next ==
  \/ \E t \in TournamentIds, max_games \in MaxGamesArgs : chessAddTournament(t, max_games)
  \/ \E t \in TournamentIds, pair \in Pairings, winner \in Results,
        play_time \in PlayTimes : chessAddGame(t, pair[1], pair[2], winner, play_time)
  \/ \E t \in TournamentIds : chessRemoveTournament(t) \/ chessEndTournament(t)
  \/ \E p \in PlayerIds : chessRemovePlayer(p)
  \/ chessSaveTournamentStatistics

Spec == Init /\ [][Next]_vars

-----------------------------------------------------------------------------
Games == [player : [Sides -> PlayerIds], game_result : Sides \cup {"draw"},
          game_time : PlayTimes, deleted : [Sides -> BOOLEAN]]

(* The types of the variables.                                             *)
TypeOK ==
  /\ Tournaments \subseteq TournamentIds
  /\ \A t \in Tournaments :
       LET tournament == chess_tournament_table[t]
       IN  /\ tournament.max_games_per_player \in MaxGamesArgs
           /\ DOMAIN tournament.games \subseteq GameIds
           /\ \A id \in DOMAIN tournament.games : tournament.games[id] \in Games
           /\ tournament.winner_id \in PlayerIds \cup {0}
           /\ tournament.in_progress \in BOOLEAN
           /\ tournament.number_of_players \in Nat
  /\ Listed \subseteq PlayerIds
  /\ \A p \in Listed : players_list[p] \in [DOMAIN NoRecord -> Int]
  /\ status \in {"running", "segfault"}
  /\ returned \subseteq removed \cap PlayerIds

(* A player's wins, losses, draws and time are those of the games that     *)
(* exist, whatever was added, awarded, ended or removed in between; except *)
(* for players who were removed and came back: they meet their old games.  *)
RecordsMatchGames ==
  \A p \in Listed \ returned : players_list[p] = Tally(p, AllGames)

(* No two games have the same identifier, even in different tournaments.   *)
GameIdsUnique ==
  \A s, t \in Tournaments : s # t => DOMAIN GamesIn(s) \cap DOMAIN GamesIn(t) = {}

(* Nobody plays more than the maximum in a tournament, and no two play     *)
(* each other twice, not counting games of a player who was removed.       *)
QuotaRespected ==
  \A t \in Tournaments :
    LET games == GamesIn(t)
        valid == {id \in DOMAIN games : TRUE \notin Range(games[id].deleted)}
    IN  /\ \A p \in PlayerIds :
             getPlayerNumberOfGames(games, p) <= chess_tournament_table[t].max_games_per_player
        /\ \A i, j \in valid : Range(games[i].player) = Range(games[j].player) => i = j

(* Both at once: what an addition of a game is refused for never happens.  *)
GamesLegal == GameIdsUnique /\ QuotaRespected

(* The number of players that a tournament's statistics print is that of   *)
(* the players in its games, unless one of them left and came back.        *)
PlayersCounted ==
  \A t \in Tournaments :
    LET players == UNION {Range(GamesIn(t)[id].player) : id \in DOMAIN GamesIn(t)}
    IN  players \cap returned = {} =>
          chess_tournament_table[t].number_of_players = Cardinality(players)

(* From the comment on chessRemovePlayer: in a game of a running           *)
(* tournament whose player was removed the opponent is the winner; and     *)
(* everybody else who plays in a running tournament is listed.             *)
OpponentWins ==
  \A t \in Tournaments \ Ended : \A id \in DOMAIN GamesIn(t), side \in Sides :
    LET game == GamesIn(t)[id]
    IN  /\ game.deleted[side] /\ ~ game.deleted[OtherSide(side)] =>
             game.game_result = OtherSide(side)
        /\ ~ game.deleted[side] => game.player[side] \in Listed

(* The winner of an ended tournament has the highest score and, among      *)
(* those, the fewest losses; nobody wins only if all players were removed. *)
WinnerIsBest ==
  \A t \in Ended :
    LET winner == chess_tournament_table[t].winner_id
        games  == GamesIn(t)
    IN  /\ winner \in Counted(games) \cup {0}
        /\ \A p \in Counted(games) :
             LET w == Column(winner, games)
                 c == Column(p, games)
             IN  winner # 0 /\ (w.points > c.points \/ (w.points = c.points /\ w.loses <= c.loses))

(* The tie rules in the comments of checkWinner: highest score, fewest     *)
(* losses, most wins, smallest identifier.                                 *)
TiesAreBroken ==
  \A t \in Ended : \A p \in Counted(GamesIn(t)) :
    LET w == Column(chess_tournament_table[t].winner_id, GamesIn(t))
        c == Column(p, GamesIn(t))
    IN  w.points = c.points /\ w.loses = c.loses =>
          w.wins > c.wins \/ (w.wins = c.wins /\ w.id <= c.id)

(* An ended tournament never changes again, whoever is removed: its games, *)
(* results and winner stay until it is removed itself.                     *)
EndedIsFinal ==
  [][\A t \in Ended : t \in DOMAIN chess_tournament_table' =>
       chess_tournament_table'[t] = chess_tournament_table[t]]_vars

(* The printed levels are in falling order, equal ones by identifier, and  *)
(* every listed player with games is printed exactly once.                 *)
LevelsInOrder ==
  LET levels  == Levels(players_list)
      printed == Printed(levels)
  IN  /\ ToSet(printed) = ToSet(levels)
      /\ \A i, j \in DOMAIN printed : i < j =>
           \/ Less(printed[j].level, printed[i].level)
           \/ SameLevel(printed[j].level, printed[i].level) /\ printed[i].id < printed[j].id

(* Any accepted series of calls can be followed by saving the statistics.  *)
StatisticsNeverFault == status = "running"
=============================================================================
