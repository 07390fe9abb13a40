\* The lock has no Unlock: everybody may end up waiting for a writer.
SPECIFICATION Spec
CONSTANTS
  Goroutines = {g1, g2, g3, g4}
  MaxReaders = 5
INVARIANTS
  TypeOK
  WriterExcludes
  ReadersCounted
  WriterOwed
PROPERTIES
  WriterAdmitted
CHECK_DEADLOCK FALSE
