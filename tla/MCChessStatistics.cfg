SPECIFICATION Spec
CONSTANTS
  TournamentIds = {1}
  MaxGamesArgs = {2}
  Pairings <- ChainPairings
  Results = {"first", "draw"}
  PlayTimes = {0, 2}
  MaxGames = 2
  MaxRemoved = 1
INVARIANT StatisticsNeverFault
