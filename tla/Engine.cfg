SPECIFICATION Spec
CONSTANTS
  Insts = {"a", "b"}
  MaxSiid = 7
  MaxConn = 2
  Plans <- PlansChecked
INVARIANTS ReplyMatches RightInstance PeersExact
PROPERTY CallReturns
CHECK_DEADLOCK FALSE
