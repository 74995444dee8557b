SPECIFICATION FairSpec
CONSTANTS
  Boards = {b1, b2, b3}
  BoardCount = 3
  Restarts = FALSE
  Silence = TRUE
  MaxThreads = 3
  MaxSends = 3
INVARIANTS TypeOK RoundSound
PROPERTIES ServesRounds ExitReturns RoundStuckForCause
