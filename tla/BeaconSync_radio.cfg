SPECIFICATION Spec
CONSTANTS
  Gateways = {g1}
  NoAddr = noAddr
  SemMax = 2
  EventMax = 3
  MaxDrops = 2
  TimeoutsRace = TRUE
  NumReadings = 2
  SendInterval = 2
  TsPerMs = 1
  TsMod = 5
  Unset = unset
  TsfResets = TRUE
INVARIANTS TypeOK LinkStatus RadioExclusive ReadingsDistinct
PROPERTY SuccessMeansLeased
