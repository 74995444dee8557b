SPECIFICATION FairSpec
CONSTANTS
  Gateways = {g1}
  NoAddr = noAddr
  SemMax = 1
  EventMax = 2
  MaxDrops = 1
  TimeoutsRace = FALSE
  NumReadings = 3
  SendInterval = 3
  TsPerMs = 1
  TsMod = 8
  Unset = unset
  TsfResets = FALSE
INVARIANT RingInOrder
PROPERTIES RecordsWindow UploadEnds
