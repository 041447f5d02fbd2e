SPECIFICATION SmashSpec
CONSTANTS
  Pids = {p1, p2, p3}
  NoProcess = none
  NoTimer = NoTimer
  Delays = {1}
SYMMETRY PidSymmetry
CONSTRAINT WithinBounds
CHECK_DEADLOCK FALSE
INVARIANTS
  ListInOrder
  JobKeepsItsId
  ForegroundIsNotListed
  NoJobLost
  WaitCanEnd
  StreamsAreRight
  NobodyWaitsForever
