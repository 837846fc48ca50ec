SPECIFICATION FairSpec
CONSTANTS
  Kinds = {"FrontEnd", "PanelController"}
  Resident = TRUE
  Signals = FALSE
PROPERTIES IgnoredHarmless
CHECK_DEADLOCK FALSE
