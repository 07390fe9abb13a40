SPECIFICATION Spec
CONSTANTS
  Clients = {c1, c2}
  nodeID <- OneMachine
  Expires = 2
  NoOne = NoOne
INVARIANTS
  Exclusion
CHECK_DEADLOCK FALSE
