SPECIFICATION Spec
CONSTANTS
  m1 = m1
  m2 = m2
  r1 = r1
  r2 = r2
  Run = {r1, r2}
  Module = {m1, m2}
  Limit <- MCLimit
  Window = 2
  Stale = 3
  Interval = 2
  MaxEntries = 1
  MaxCount = 3
  MaxClock = 6
  MaxRuns = 2
  PNode = {1, 2, 3, 4}
  Succ <- MCSucc
  Eager = {1, 2}
  Modular = {1, 2, 3}
  MaxSuccessors = 2
  MaxVersion = 2
  Nonce = {1, 2, 3}
  Stamp <- Stamps
  Verifier = {v1, v2}
  Idle = Idle
  MaxAge = 3
  MaxSkew = 1
  SweepAbove = 1
  HardCap = 2
  MaxDelay = 2
  Horizon = 14
INVARIANTS TypeOK WindowBound FreshModule FreshRemembered AdmittedOnce
CHECK_DEADLOCK FALSE
