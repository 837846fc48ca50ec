SPECIFICATION Spec
CONSTANTS
  Uuids = {e1, e2}
  MaxIc = 2
  MaxDepth <- DepthChecked
  SharedModes = {FALSE, TRUE}
INVARIANTS FocusedLive RefsPaid  Settles
SYMMETRY UuidSymmetry
CHECK_DEADLOCK FALSE
