SPECIFICATION FairSpec
CONSTANTS
  Fds = {3, 4, 5}
  External = {5}
  Limits <- SmallLimits
  SCIM_SOCKET_SERVER_MAX_CLIENTS = 2
  MaxBacklog = 1
  Signals = TRUE
INVARIANTS
  NoLeak
  ReceiveFresh
PROPERTIES
  Promises
  ShutdownReturns
  HungUpIsClosed
CHECK_DEADLOCK FALSE
