SPECIFICATION Spec
CONSTANTS
  Capacity = 3
  Timestamps = {0, 1, 2}
  Unset = unset
  MaxClock = 7
INVARIANTS TypeOK LastReadings
PROPERTY RecordsRecent
