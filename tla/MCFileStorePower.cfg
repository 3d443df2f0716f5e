SPECIFICATION PowerSpec
CONSTANTS
  c1 = c1  n1 = n1  n2 = n2  n3 = n3  a1 = a1  a2 = a2  a3 = a3
  NoSerial = NoSerial  NoCluster = NoCluster  Opener = Opener
  KIDs = {1, 2, 3, 4}
  Serials = {n1, n2, n3}
  ClusterIDs = {c1}
  MaxRecords = 0
  Callers = {a1, a2, a3}
  OpsOf <- ThreeOps
  InitFiles <- Files
  Now = 1
INVARIANTS MemoryIsFile AcknowledgedIsDurable
PROPERTIES NeverReinitialised
CHECK_DEADLOCK FALSE
