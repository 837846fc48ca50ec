SPECIFICATION Spec
CONSTANTS
  Uuids = {e1, e2}
  Langs = {"l1"}
  MaxIcid = 2
  MaxSiid = 2
  MaxWire = 0
INVARIANTS InstancesOwned Directed PanelAgrees
PROPERTIES NothingRefused
SYMMETRY UuidSymmetry
CHECK_DEADLOCK FALSE
