SPECIFICATION Spec
CONSTANTS
  Keys = {1, 2, 3, 4, 5, 6, 7}
  Trees = {t1}
  NULL = NULL
INVARIANT Balanced
