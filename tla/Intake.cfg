SPECIFICATION OneSpec
CONSTANTS
  p1 = p1
  p2 = p2
  p3 = p3
  x1 = x1
  x2 = x2
  pr = pr
  nightly = nightly
  f1 = f1
  f2 = f2
  Requests = {r1, r2, r3}
  Pushes = {p1, p2, p3}
  Exts = {x1, x2}
  Ext <- ExtOf
  MaxOpen = 1
  Handlers = 2
  MaxSends = 2
  Callers = {h1, h2}
  MaxFailures = 2
  MaxWrong = 4
  MaxChanges = 1
  MaxSessions = 1
  Lanes = {pr, nightly}
  Inputs <- InputsOf
  Gates <- SomeGates
  Low = {f1, f2}
  MaxNew = 1
  Settings <- SomeSettings
CHECK_DEADLOCK FALSE
INVARIANTS OneRunPerExternalId OverrunIsBounded TriesAreBounded SessionsAreCurrent PostsAreFew GreenMeansPassed
