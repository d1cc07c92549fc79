SPECIFICATION Spec
CONSTANTS
  Machines = {m1, m2}
  TLS13 = "tls13"
  Older = {"tls12"}
  Suites13 = {"aes", "null"}
  Suites = {"gcm", "rc4"}
  Go13 = {"aes"}
  Default = {"gcm"}
  Questions = {"ssl3"}
  Grade <- MCGrade
  NoMachine = NoMachine
  Hosts = {"www", "other", "listed"}
  First = "www"
  Listed = {"listed"}
  Domains = {"www", "site", "other", "listed"}
  Above <- MCAbove
  MaxRedirects = 2
  Proofs <- MCProofs
  MaxChanges = 1
  Nobody = Nobody
  Addresses <- MCAddresses
  Limit = 2
  MaxAnswer = 4
  Certs <- MCCerts
  Roots <- MCRoots
  Stores <- MCStores
  Lifetime <- MCLifetime
  Warning = 1
  MaxChainLength = 2
  Typed <- MCTyped
  AllowedPorts = {"443", "8443"}
  DefaultPort = "443"
  AllowAnyPort = FALSE
  AllowIPTargets = FALSE
  ScanTimes = {0, 3, 5, 7}
  Reports <- MCReports
  Staplings <- MCStaplings
  CaaAnswers = {"failed", "incomplete", "records"}
  Receipts <- MCReceipts
  Now = 3
  Never = 9
  Skew = 1
  MaxPoints = 2
  Places = 3
  Asking = TRUE
  Parts = {"web"}
INVARIANTS
  StrongWasFollowed
CHECK_DEADLOCK FALSE
