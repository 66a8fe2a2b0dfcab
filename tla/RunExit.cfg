SPECIFICATION Spec
CONSTANTS
  Backlog = 2
  Wire = 1
  Channel = 1
  PingSlots = 1
  MaxBreaks = 0
  MaxContent = 1
  MaxAsks = 0
  RestMayFail = FALSE
  MayGoMute = FALSE
  StoreMayFail = FALSE
INVARIANT CleanTurnExitsZero
CHECK_DEADLOCK FALSE
