SPECIFICATION Spec
CONSTANTS
  Conns = {c1, c2}
  Requests <- MCRequests
  MaxConnections = 2
  MaxConcurrent = 1
  MaxConcurrentProofs = 1
  ReadBurst = 1
  Burst = 1
  ProofBurst = 1
  TargetBurst = 1
  MaxRequests = 2
  NoRequest = NoRequest
INVARIANTS
  TypeOK
  EverySlotIsHeld
  FiguresAreTheAnswers
  ContactIsPermitted
PROPERTIES
  RequestsEnd
CHECK_DEADLOCK FALSE
