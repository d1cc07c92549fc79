SPECIFICATION Spec
CONSTANTS
  Keys = {k1}
  Callers = {c1, c2}
  Burst <- MCBurst
  Refill = 2
  MaxKeys = 1
  SweepEvery = 2
  ForcedEvery = 1
  MaxDelay = 1
  MaxTime = 12
  Watched = {k1}
  k1 = k1
  k2 = k2
  k3 = k3
  Parts = {"targets"}
INVARIANTS
  WithinAllowanceAndDelay
CHECK_DEADLOCK FALSE
