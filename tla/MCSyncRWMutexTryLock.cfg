SPECIFICATION Spec
CONSTANTS
  Goroutines = {g1, g2}
  MaxReaders = 5
INVARIANTS
  TryLockExcludes
CHECK_DEADLOCK FALSE
