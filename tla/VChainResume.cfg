CONSTANTS
  a = a
  b = b
  c = c
  Units <- MCUnits
  Guarded <- MCGuarded
  MaxRuns = 2
SPECIFICATION Spec
INVARIANT CompletedOnce
CHECK_DEADLOCK FALSE
