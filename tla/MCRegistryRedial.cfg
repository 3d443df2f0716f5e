SPECIFICATION FairSpec
CONSTANTS
  s1 = s1  s2 = s2  s3 = s3  c1 = c1  i1 = i1  i2 = i2  n1 = n1  n2 = n2
  NoSession = NoSession  NoInstance = NoInstance  NoSerial = NoSerial
  Sessions = {s1, s2}
  Clusters = {c1}
  Revokers = {}
  ClusterOf <- RedialCluster
  InstanceOf <- RedialInstance
  SerialOf <- RedialSerial
  GenerationOf <- RedialGeneration
  Grace = 0
  MaxTime = 0
  MaxFacts <- RedialFacts
  MaxEdits = 1
PROPERTIES LabelsConverge EndingsComplete
CHECK_DEADLOCK FALSE
