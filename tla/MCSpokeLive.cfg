SPECIFICATION SpokeFairSpec
CONSTANTS
  Off = Off
  None = None  Absent = Absent  Restored = Restored  Short = Short  NoRoot = NoRoot
  Never = Never  NoCopy = NoCopy
  Parts = {"listener", "body", "handshake", "coverage", "identity", "idfiles", "facts"}
PROPERTIES
  WhatBeginsEnds AbandonedIsReclaimed 
CHECK_DEADLOCK FALSE
