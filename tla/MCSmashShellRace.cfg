SPECIFICATION Spec
CONSTANTS
  Pids = {p1, p2, p3}
  NoProcess = none
  NoTimer = NoTimer
  Delays = {1}
SYMMETRY PidSymmetry
CHECK_DEADLOCK FALSE
INVARIANT JobIdNeverChanges
