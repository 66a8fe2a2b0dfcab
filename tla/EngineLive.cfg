SPECIFICATION FairSpec
CONSTANTS
  t1 = t1
  t2 = t2
  s1 = s1
  Session = {s1}
  Turn = {t1, t2}
  SessionOf <- OneSession
  Aborter = {}
  Scenarios <- DeleteOnly
  NoTurn = NoTurn
PROPERTIES AbortedTurnEnds DeletedSessionEnds
CHECK_DEADLOCK FALSE
