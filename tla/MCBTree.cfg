\* The program may end by a panic.
CONSTANTS
  t1 = t1
  t2 = t2
  Trees = {t1, t2}
  First = t1
  MaxKey = 8
  MaxCommon = 4
  Items <- MCItems
  None = None
  Nobody = Nobody
  Nil = Nil
  Panicked = Panicked
  degree = 2
  FreeSize = 2
  MaxAlone = 8
  MaxShared = 7
  Common <- MCCommon
  Pivots <- MCPivots
SPECIFICATION Spec
INVARIANTS
  TypeOK
  Shape
  Owned
  Reads
PROPERTY Implements
VIEW MCView
CHECK_DEADLOCK FALSE
