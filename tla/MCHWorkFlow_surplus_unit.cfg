\* INTERRUPT leaves a unit in the semaphore, which ends a worker after start().
CONSTANTS
  a = a
  b = b
  c = c
  Tasks = {a, b}
  NoTask = NoTask
  Permanent = {}
  Restartable = {}
  PoolSize = 1
  Policies = {"LAZY"}
  Modes = {"INTERRUPT", "CLOSE"}
  Subjects = {}
  Killable = FALSE
  MaxWorkers = 1
  MaxWindups = 2
SPECIFICATION Spec
CHECK_DEADLOCK FALSE
INVARIANT ClosedIsDrained
