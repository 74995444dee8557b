SPECIFICATION FairSpec
CONSTANTS
  Roles = {"STA", "AP"}
  Typed = {0, 5, 36, 231}
  UintRange = 770
  UsPerMs = 10
  MsPerSec = 10
  MAX_AMOUNT = 5
  MAX_DELAY = 1
  MIN_FRAME_SIZE = 5
  MAX_FRAME_SIZE = 6
  DefaultAmount = 2
  DefaultDuration = 20
  MaxSockets = 2
INVARIANTS TypeOK RadioParametersInRange RadioSound ReceivesForPeriod
PROPERTY TaskReturns
