\* TryLock starts no watchdog, and UnLock waits for one: clients may block.
SPECIFICATION Spec
CONSTANTS
  Clients = {c1, c2}
  nodeID <- OwnMachines
  Expires = 2
  NoOne = NoOne
INVARIANTS
  TypeOK
  Exclusion
PROPERTIES
  KeyFreed
  UnLockReturns
CHECK_DEADLOCK FALSE
