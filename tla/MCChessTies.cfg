SPECIFICATION Spec
CONSTANTS
  TournamentIds = {1}
  MaxGamesArgs = {2}
  Pairings <- TiePairings
  Results = {"first", "draw"}
  PlayTimes = {2}
  MaxGames = 4
  MaxRemoved = 0
INVARIANT TiesAreBroken
