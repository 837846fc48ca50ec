SPECIFICATION FairSpec
CONSTANTS
  app1 = app1
  app2 = app2
  x1 = x1
  x2 = x2
  Ctxs = {x1, x2}
  SharedModes = {TRUE}
  Events = {"in", "reset", "ask"}
  MaxFaults = 1
  MaxAsk = 2
  MaxTrouble = 2
  Clients = {app1, app2}
  Owner <- OneEach
INVARIANTS AnswerMatches
PROPERTIES RequestEnds
CHECK_DEADLOCK FALSE
