SPECIFICATION MCFairSpec
CONSTANTS
  Parts = {"shell", "app"}
  UserCmd = {u1}
  TurnCmd = {c1}
  NoCmd = NoCmd
  MaxLines = 1
  Forks = {u1}
  Endings = {"line", "partial", "exits", "eats"}
  Session = {s1, s2}
  First = {s1}
  Ask = {a1}
  None = None
  Opener <- MCOpener
  MaxEvents = 2
  MaxFlight = 2
  MaxMoves = 2
INVARIANTS KilledStaysSilent AsksAreParked
PROPERTIES ShellSettles OutageEnds
CHECK_DEADLOCK FALSE
