\* cancel_task() waits under _mutex for a unit a worker has taken.
CONSTANTS
  a = a
  b = b
  c = c
  Tasks = {a, b}
  NoTask = NoTask
  Permanent = {}
  Restartable = {}
  PoolSize = 1
  Policies = {"LAZY"}
  Modes = {"CLOSE"}
  Subjects <- SubjectOfTwo
  Killable = FALSE
  MaxWorkers = 1
  MaxWindups = 0
SPECIFICATION FairSpec
CHECK_DEADLOCK FALSE
PROPERTY CancelReturns
