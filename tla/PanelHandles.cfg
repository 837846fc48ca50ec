SPECIFICATION FairSpec
CONSTANTS
  Fds = {1}
  Types = {"FrontEnd"}
  Contexts = {0, 32768}
  Uuids = {"e1"}
  HelperUuids <- NoHelpers
  HelperOptions <- NoOptions
  Screens = {0}
  Factories = {}
  Resident = TRUE
  MaxRef = 1
PROPERTIES ContextsIndependent
CHECK_DEADLOCK FALSE
