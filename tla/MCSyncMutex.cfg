SPECIFICATION Spec
CONSTANTS
  Goroutines = {g1, g2, g3}
  MaxSpin = 1
INVARIANTS
  TypeOK
  MutualExclusion
  OneWakeup
  WordConsistent
  NoLostWakeup
PROPERTIES
  NoBarging
  StarvingServed
  ImplementsLock
