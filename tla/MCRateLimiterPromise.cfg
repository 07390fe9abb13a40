SPECIFICATION Spec
CONSTANTS
  Callers = {c1, c2}
  WindowsSize = 7
  SubWindows = 3
  Permits = 2
  MaxElapsed = 15
INVARIANTS
  PromisedRate
