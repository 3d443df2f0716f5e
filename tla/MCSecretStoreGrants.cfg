SPECIFICATION Spec
CONSTANTS
  c1 = c1  n1 = n1  n2 = n2  n3 = n3  a1 = a1  a2 = a2  b1 = b1  h1 = h1  h2 = h2
  NoSerial = NoSerial  NoCluster = NoCluster
  KIDs = {1, 2, 4}
  Serials = {n1, n2, n3}
  ClusterIDs = {c1}
  MaxRecords = 0
  Callers = {a1, a2, b1}
  Replicas = {h1, h2}
  ReplicaOf <- On
  OpsOf <- GrantOps
  InitServers <- GrantServers
  Now = 1
  MaxAttempts = 2
INVARIANTS TypeOK BurnedOnce RedemptionsCounted RevocationsStick UsedIsFinal
CHECK_DEADLOCK FALSE
