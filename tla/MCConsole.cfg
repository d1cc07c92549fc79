SPECIFICATION ConsoleSpec
CONSTANTS
  Limit = 2
  Names = {n1, n2}
  DomainBound = 1
  MaxReports = 4
  MaxKeys = 2
  MaxDay = 1
  MaxFolders = 3
  Absent = Absent
  NoVaultKey = NoVaultKey
  FlagSets <- MCFlagSets
  MaxStarts = 2
  Handlers = {h1, h2}
  Passwords = {p1, p2}
  Tokens = {t1, t2, t3}
  Keys = {k1, k2}
  SessionLife = 2
  MaxSessions = 2
  MaxTime = 3
  MaxSeals = 2
  NoKey = NoKey
  NoToken = NoToken
  Free = Free
  Parts = {"gate", "installation", "startup"}
INVARIANTS
  ConsoleTypeOK
  OldPasswordSessionsEnd
  KeyIsTheFiles
  SlotIsNotOrphaned
  NothingIsLost
  ServesAsItWasTold
PROPERTIES
  OldestGoesFirst
  OldestGo
SYMMETRY Symmetry
CHECK_DEADLOCK FALSE
