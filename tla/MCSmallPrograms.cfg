SPECIFICATION ProgramsSpec
CONSTANTS
  TournamentIds = {1, 2}
  MaxGamesArgs = {1, 2}
  Pairings <- ChainPairings
  Results = {"first", "draw"}
  PlayTimes = {2}
  MaxGames = 3
  MaxRemoved = 1
  EMPTY = EMPTY
VIEW UpToSymmetry
CHECK_DEADLOCK FALSE
INVARIANTS
  TypeOK
  RecordsMatchGames
  GamesLegal
  PlayersCounted
  OpponentWins
  WinnerIsBest
  LevelsInOrder
  CharactersFit
  MovesDecide
  SnakesStayWhole
  ProductIsRight
  RunsAreCounted
  RequestsAreAnswered
PROPERTIES
  EndedIsFinal
  OnlyEnemiesAreHurt
  ImplementsInstructionSet
