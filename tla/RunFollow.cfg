SPECIFICATION FairSpec
CONSTANTS
  Backlog = 1
  Wire = 1
  Channel = 1
  PingSlots = 1
  MaxBreaks = 2
  MaxContent = 2
  MaxAsks = 1
  RestMayFail = TRUE
  MayGoMute = TRUE
  StoreMayFail = TRUE
INVARIANTS LeavesAfterTurn ErrorReported
PROPERTIES RunEnds
CHECK_DEADLOCK FALSE
