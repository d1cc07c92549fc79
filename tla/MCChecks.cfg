SPECIFICATION ChecksSpec
CONSTANTS
  Machines = {m1, m2}
  TLS13 = "tls13"
  Older = {"tls12"}
  Suites13 = {"aes", "null"}
  Suites = {"gcm", "rc4"}
  Go13 = {"aes"}
  Default = {"gcm"}
  Questions = {"ssl3"}
  Grade <- MCGrade
  NoMachine = NoMachine
  Hosts = {"www", "other", "listed"}
  First = "www"
  Listed = {"listed"}
  Domains = {"www", "site", "other", "listed"}
  Above <- MCAbove
  MaxRedirects = 2
  Proofs <- MCProofs
  MaxChanges = 1
  Nobody = Nobody
  Addresses <- MCAddresses
  Limit = 2
  MaxAnswer = 4
  Certs <- MCCerts
  Roots <- MCRoots
  Stores <- MCStores
  Lifetime <- MCLifetime
  Warning = 1
  MaxChainLength = 2
  Typed <- MCTyped
  AllowedPorts = {"443", "8443"}
  DefaultPort = "443"
  AllowAnyPort = FALSE
  AllowIPTargets = FALSE
  ScanTimes = {0, 3, 5, 7}
  Reports <- MCReports
  Staplings <- MCStaplings
  CaaAnswers = {"failed", "incomplete", "records"}
  Receipts <- MCReceipts
  Now = 3
  Never = 9
  Skew = 1
  MaxPoints = 2
  Places = 3
  Asking = TRUE
  Bytes = {0, 1, 2, 64, 192}
  MessageLength = 5
  MaxLabel = 2
  MaxName = 5
  MaxPointers = 2
  Configurations <- MCConfigurations
  Dialable = {"r1", "r2"}
  MaxResolvers = 2
  MaxQueries = 2
  MaxChain = 2
  AskedNames <- MCAskedNames
  Unencodable = {""}
  Aliases = {"x", "y", "z"}
  Zones = {"set", "alias", "long", "loop", "malformed", "nothing", "absent", "stray"}
  SmtpLines <- MCSmtpLines
  MaxLines = 2
  MaxSent = 5
  ServerChains <- MCServerChains
  NoChain = NoChain
  SpfDomains = {"own", "a", "b", "c"}
  Root = "own"
  SpfZones <- MCSpfZones
  MaxLookups = 4
  MaxVoid = 1
  MaxDepth = 4
  MaxTerms = 3
  PolicyLines <- MCPolicyLines
  MaxBody = 5
  MaxNames = 1
  TlsaRecords <- MCTlsaRecords
  MaxTlsa = 2
  Leaf = "leaf"
  Certificates = {"ca"}
  Selectors <- MCSelectors
  MaxSelectors = 2
  Targets <- MCTargets
  SpfWalks <- MCSpfWalks
  DmarcRecords <- MCDmarcRecords
  MxAnswers <- MCMxAnswers
  Policies <- MCPolicies
  TlsaOutcomes <- MCTlsaOutcomes
  Conversations <- MCConversations
  DkimAnswers <- MCDkimAnswers
  MaxExchangers = 2
  ReadsPolicy = TRUE
  ReadsExchangers = TRUE
  MaxFailures = 1
  Parts = {"tls", "web", "dial", "scan", "revocation", "name", "lookup", "conversation", "spf", "policy file", "dane", "mail"}
INVARIANTS
  ChecksTypeOK
  ProbeTellsTheTruth
  NobodyIsLedAstray
  GivesUpForAReason
  VerdictIsOfTheFindings
  RevocationIsTheAuthoritys
  RepliesAreReadRight
  ResultIsOneSentence
  WalkIsBounded
  FailedLookupsAddNothing
  PolicyReadsOneWay
  BindingIsTheRecords
  FailureNeverCondemns
  OnlyNamedAreContacted
CHECK_DEADLOCK FALSE
