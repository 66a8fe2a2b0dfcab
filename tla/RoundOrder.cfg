SPECIFICATION Spec
CONSTANTS
  k1 = k1
  Key = {k1}
  MaxRounds = 2
  MaxAttempts = 2
  Settings <- OnlyWordy
INVARIANT EarliestFirst
CHECK_DEADLOCK FALSE
