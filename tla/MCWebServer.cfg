SPECIFICATION Spec
CONSTANTS
  Threads = {w1, w2, w3}
  Main = main
  Free = free
  Fds = {4, 5, 6, 7}
  QueueSizes = {2, 3}
  Policies = {"block", "dt", "dh", "random", "bf"}
  MaxConns = 4
  MaxSilent = 0
  MaxResets = 1
SYMMETRY WorkerSymmetry
CHECK_DEADLOCK FALSE
INVARIANTS
  TypeOK
  LockDiscipline
  CapacityBound
  SocketOwnership
  EveryJobHasItsEntry
  NoLostWakeup
