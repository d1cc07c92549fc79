SPECIFICATION Spec
CONSTANTS
  Keys = {k1, k2, k3}
  Callers = {c1}
  Burst <- MCBurst
  Refill = 2
  MaxKeys = 2
  SweepEvery = 2
  ForcedEvery = 1
  MaxDelay = 0
  MaxTime = 7
  Watched = {k1}
  k1 = k1
  k2 = k2
  k3 = k3
  Parts = {"attempts", "clients", "targets"}
INVARIANTS
  BucketsTypeOK
  HeldAsStated
PROPERTIES
  KeepsContract
SYMMETRY Symmetry
CHECK_DEADLOCK FALSE
