SPECIFICATION FairSpec
CONSTANTS
  Kinds = {"FrontEnd", "Helper", "PanelController"}
  Resident = FALSE
  Signals = TRUE
INVARIANTS SharedSafe NoDeadlock
PROPERTIES ExitCompletes
CHECK_DEADLOCK FALSE
