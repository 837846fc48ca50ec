SPECIFICATION Spec
CONSTANTS
  app1 = app1
  app2 = app2
  x1 = x1
  x2 = x2
  Ctxs = {x1, x2}
  SharedModes = {FALSE, TRUE}
  MaxFaults = 1
  Clients = {app1, app2}
  Owner <- OneEach
  MaxAsk = 1
  MaxTrouble = 2
  Events <- AllEvents
INVARIANTS
  OneFocused
  ContextsAgree
