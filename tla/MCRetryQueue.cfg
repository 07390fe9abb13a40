SPECIFICATION Spec
CONSTANTS
  t1 = t1
  t2 = t2
  t3 = t3
  Tasks = {t1, t2, t3}
  Workers = {w1, w2}
  Priority <- MCPriority
  Retries = 2
  Base = 3
  MaxSleep = 10
  Width = 6
  NoTask = NoTask
  NoWorker = NoWorker
INVARIANTS
  TypeOK
  OneToken
  NoSendBlocks
  TasksKept
PROPERTIES
  AllSucceed
