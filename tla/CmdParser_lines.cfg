SPECIFICATION Spec
CONSTANTS
  NULL = NULL
  MAX_SSID_ENTRIES = 20
  KEY_LEN_MAX = 64
  IsCc3235 = TRUE
  MaxOptions = 3
INVARIANTS TypeOK AcceptedInRange OnlyPingLeaks AcceptedComplete
