SPECIFICATION HistorySpec
CONSTANTS
  Procs = {daemon, command, other}
  Writers = {d1, c1, o1}
  Proc <- MCProc
  Mortal = {command}
  Keep <- MCKeep
  LockWait = 1
  LockStale = 2
  RenameMayFail = FALSE
  WriteMayFail = FALSE
  MaxPuts = 3
  Nobody = Nobody
  daemon = daemon
  command = command
  other = other
  d1 = d1
  d2 = d2
  c1 = c1
  o1 = o1
INVARIANTS
  OneWriterAtATime
CHECK_DEADLOCK FALSE
