SPECIFICATION FairSpec
CONSTANTS
  Backlog = 2
  Wire = 1
  Channel = 1
  PingSlots = 1
  MaxBreaks = 1
  MaxContent = 1
  MaxAsks = 0
  RestMayFail = FALSE
  MayGoMute = FALSE
  StoreMayFail = FALSE
PROPERTY LostIdleEndsRun
CHECK_DEADLOCK FALSE
