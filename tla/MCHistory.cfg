SPECIFICATION HistorySpec
CONSTANTS
  Procs = {daemon, command}
  Writers = {d1, d2, c1}
  Proc <- MCProc
  Mortal = {command}
  Keep <- MCKeep
  LockWait = 1
  LockStale = 2
  RenameMayFail = TRUE
  WriteMayFail = TRUE
  MaxPuts = 4
  Nobody = Nobody
  daemon = daemon
  command = command
  other = other
  d1 = d1
  d2 = d2
  c1 = c1
  o1 = o1
INVARIANTS
  HistoryTypeOK
  OneWriterAtATime
  LossIsBounded
PROPERTIES
  PutEnds
CHECK_DEADLOCK FALSE
