SPECIFICATION Spec
CONSTANTS
  Off = Off
  None = None
  Parts = {"listener", "capped", "body", "rude", "handshake", "dialing", "coverage",
           "identity", "unsaved", "foreign", "files", "facts", "tight"}
INVARIANTS
  DialingIsPaced
PROPERTIES
  TunnelIsAccountedFor  
CHECK_DEADLOCK FALSE
