SPECIFICATION Spec
CONSTANTS
  s1 = s1  s2 = s2  s3 = s3  c1 = c1  i1 = i1  i2 = i2  n1 = n1  n2 = n2
  NoSession = NoSession  NoInstance = NoInstance  NoSerial = NoSerial
  Sessions = {s1, s2, s3}
  Clusters = {c1}
  Revokers = {r1}
  ClusterOf <- PodCluster
  InstanceOf <- PodInstance
  SerialOf <- PodSerial
  GenerationOf <- PodGeneration
  Grace = 1
  MaxTime = 2
  MaxFacts <- PodFacts
  MaxEdits = 0
INVARIANTS SlotsHoldTheirOwn NoOrphanedSession ClosedIsQuiescent
PROPERTIES LeavesForAReason 
CHECK_DEADLOCK FALSE
