SPECIFICATION ApSpec
CONSTANTS
  Gateways = {g1}
  NoAddr = noAddr
  SemMax = 2
  EventMax = 3
  MaxDrops = 1
  TimeoutsRace = FALSE
PROPERTY PendsOnThisConnection
