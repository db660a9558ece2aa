\* cancel_task() and _isKilled_ against lazy tasks, one of them restartable.
CONSTANTS
  a = a
  b = b
  c = c
  Tasks = {a, b, c}
  NoTask = NoTask
  Permanent = {}
  Restartable = {c}
  PoolSize = 2
  Policies = {"LAZY"}
  Modes = {"INTERRUPT", "CLOSE"}
  Subjects <- SubjectOfTwo
  Killable = TRUE
  MaxWorkers = 2
  MaxWindups = 1
SPECIFICATION Spec
\* The flow may come to rest, and cancel_task() may block it.
CHECK_DEADLOCK FALSE
INVARIANTS
  TasksAreAccountedFor
  NothingIsAbandoned
