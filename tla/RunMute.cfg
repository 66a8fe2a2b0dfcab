SPECIFICATION FairSpec
CONSTANTS
  Backlog = 2
  Wire = 1
  Channel = 1
  PingSlots = 1
  MaxBreaks = 0
  MaxContent = 1
  MaxAsks = 1
  RestMayFail = FALSE
  MayGoMute = TRUE
  StoreMayFail = FALSE
PROPERTY TimeoutBoundsRun
CHECK_DEADLOCK FALSE
