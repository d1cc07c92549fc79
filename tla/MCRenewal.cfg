SPECIFICATION Spec
CONSTANTS
  Checks = {tls, web}
  Tls = tls
  Codes = {busy}
  Recorded = {tls, odd}
  Scans = {s1, s2}
  DayLength = 2
  PublishEvery = 1
  FirstFiles <- MCFirstFiles
  MaxTime = 2
  MaxCount = 2
  Nowhere = Nowhere
  odd = odd
  Handshakes = {h1, h2}
  MaxVersion = 3
  Parts = {"certificate"}
PROPERTIES
  RenewalIsServed
CHECK_DEADLOCK FALSE
