SPECIFICATION Spec
CONSTANTS
  t1 = t1
  t2 = t2
  s1 = s1
  Session = {s1}
  Turn = {t1, t2}
  SessionOf <- OneSession
  Aborter = {a1}
  Scenarios <- ClientsOrExit
  NoTurn = NoTurn
INVARIANTS FlagMatchesTurn StatusAlternates NoStuckBusy ErrorsSurface AbortSettles ShutdownDrains TitleStaysCancellable
SYMMETRY Sends
CHECK_DEADLOCK FALSE
