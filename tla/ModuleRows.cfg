CONSTANTS
  a = a
  b = b
  c = c
  Units <- MCUnits
  Guarded <- MCGuarded
  MaxRuns = 2
SPECIFICATION FairSpec
INVARIANTS TypeOK ApprovedFirst RaceSafeRows RowsTellTheAnswer SettledOnce
PROPERTIES UnitsEnd
CHECK_DEADLOCK FALSE
