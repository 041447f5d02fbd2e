SPECIFICATION Spec
CONSTANTS
  Sizes = {1, 4}
  MMAP_MIN_SIZE = 30
  MaxBreak = 14
  PageEnd = 20
  MmapPlaces = {100}
  MaxCalls = 5
CHECK_DEADLOCK FALSE
INVARIANT BlocksAreApart
