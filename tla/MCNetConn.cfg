\* A connection that is closed stays closed.
CONSTANTS
  Needs = {1, 2}
  Writes = {0, 1, 2}
  Capacity = 1
  MaxIn = 2
  MaxOut = 3
  Uses <- MCUses
SPECIFICATION Spec
INVARIANTS
  TypeOK
  Honest
  Kept
CHECK_DEADLOCK FALSE
PROPERTY NobodyStranded
