SPECIFICATION FairSpec
CONSTANTS
  Fds = {1,2}
  Types = {"FrontEnd", "Helper", "PanelController"}
  Contexts = {0,32768}
  Uuids = {"e1"}
  HelperUuids <- OneHelper
  HelperOptions <- AllOptions
  Screens = {0,1}
  Factories = {"f"}
  Resident = FALSE
  MaxRef = 2
INVARIANTS FocusLive NoOrphanContexts ScreenInSync DeliveryOK HelperBijection
PROPERTIES RegistrationOwned StopTerminates
CHECK_DEADLOCK FALSE
