SPECIFICATION ApFairSpec
CONSTANTS
  Gateways = {g1}
  NoAddr = noAddr
  SemMax = 2
  EventMax = 3
  MaxDrops = 0
  TimeoutsRace = TRUE
PROPERTY DisconnectWaitEnds
