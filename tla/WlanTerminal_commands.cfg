SPECIFICATION FairSpec
CONSTANTS
  SemMax = 1
  EventMax = 2
  MaxCommands = 3
  MaxScanTrails = 2
INVARIANTS TypeOK RoleSound BitFollowsLink PingMarked
PROPERTY PingReturns
CHECK_DEADLOCK FALSE
