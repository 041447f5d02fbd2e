SPECIFICATION FairSpec
CONSTANTS
  Threads = {w1, w2}
  Main = main
  Free = free
  Fds = {4, 5, 6}
  QueueSizes = {1, 2}
  Policies = {"block", "dt", "dh", "random"}
  MaxConns = 3
  MaxSilent = 1
  MaxResets = 0
CHECK_DEADLOCK FALSE
PROPERTIES
  EveryRequestResolved
  MainReturnsToAccept
  ImplementsContract
