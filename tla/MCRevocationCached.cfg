SPECIFICATION FairSpec
CONSTANTS
  s1 = s1  s2 = s2  n1 = n1  n2 = n2  r1 = r1
  Enforcer = Enforcer  NoCaller = NoCaller
  Sessions = {s1}
  Serials = {n1}
  SerialOf <- OneCert
  Readers = {r1}
  LocalSerials = {}
  Caching = TRUE
  MaxEpoch = 2
PROPERTIES RevokedStaysOut
CHECK_DEADLOCK FALSE
