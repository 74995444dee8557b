SPECIFICATION Spec
CONSTANTS
  Gateways = {g1}
  NoAddr = noAddr
  SemMax = 1
  EventMax = 1
  MaxDrops = 0
  TimeoutsRace = FALSE
  NumReadings = 2
  SendInterval = 2
  TsPerMs = 1
  TsMod = 5
  Unset = unset
  TsfResets = FALSE
INVARIANT CountedMeansSent
