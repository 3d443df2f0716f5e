SPECIFICATION Spec
CONSTANTS
  s1 = s1  s2 = s2  n1 = n1  n2 = n2  r1 = r1
  Enforcer = Enforcer  NoCaller = NoCaller
  Sessions = {s1, s2}
  Serials = {n1, n2}
  SerialOf <- TwoCerts
  Readers = {r1}
  LocalSerials = {n1}
  Caching = TRUE
  MaxEpoch = 2
INVARIANTS OnlyRevokedAreClosed
CHECK_DEADLOCK FALSE
