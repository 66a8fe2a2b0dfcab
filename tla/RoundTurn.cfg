SPECIFICATION FairSpec
CONSTANTS
  k1 = k1
  Key = {k1}
  MaxRounds = 2
  MaxAttempts = 2
  Settings <- AnySetting
INVARIANTS RoundsSettle HistoryIsStored NoSilentLoop AbortStopsTools
PROPERTIES FinalIsFinal AbortEndsTurn
CHECK_DEADLOCK FALSE
