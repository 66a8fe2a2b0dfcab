SPECIFICATION FairSpec
CONSTANTS
  r1 = r1
  r2 = r2
  t1 = t1
  t2 = t2
  s1 = s1
  edit = edit
  fileA = fileA
  fileB = fileB
  p1 = p1
  p2 = p2
  Req <- TwoAsks
  Replier = {p1}
  Thread = {t1, t2}
  ThreadOf <- OwnThreads
  SessionOf <- OneSession
  PermOf <- EditBoth
  Resource <- Files
  ResourcesOf <- AskedFiles
  AlwaysOf <- AskedFiles
  RuleFor <- AskRules
  DbMayFail = TRUE
PROPERTIES SweepIsComplete CallersReturn
CHECK_DEADLOCK FALSE
