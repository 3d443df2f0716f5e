SPECIFICATION Spec
CONSTANTS
  Off = Off
  NoCluster = NoCluster  NoSerial = NoSerial  None = None  BadCSR = BadCSR  Absent = Absent
  Short = Short  NoRoot = NoRoot  Never = Never  NoCopy = NoCopy
  Parts = {"document", "redeem", "renew", "revoked", "keys", "verify", "class", "latency",
           "tokens", "bootstrap", "partial", "files", "rotation", "lifecycle", "proxy",
           "guard", "fanout", "slow", "alerts", "encode", "plan", "window", "listing",
           "measured", "sections"}

     
PROPERTIES
    BudgetIsShared  
CHECK_DEADLOCK FALSE
