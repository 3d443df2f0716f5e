SPECIFICATION HubFairSpec
CONSTANTS
  Off = Off
  None = None  Absent = Absent  Restored = Restored  Short = Short  NoRoot = NoRoot
  Never = Never  NoCopy = NoCopy
  Parts = {"proxy", "fanout", "alerts", "verify", "cafiles", "rotation", "process"}
PROPERTIES
  WhatBeginsEnds StoreIsFollowed
CHECK_DEADLOCK FALSE
