\* async_stop() comes between pop_task() and the assignment of _task.
CONSTANTS
  a = a
  b = b
  c = c
  Tasks = {a, b}
  NoTask = NoTask
  Permanent = {a, b}
  Restartable = {}
  PoolSize = 1
  Policies = {"LAZY"}
  Modes = {"ABORT", "INTERRUPT"}
  Subjects = {}
  Killable = FALSE
  MaxWorkers = 1
  MaxWindups = 1
SPECIFICATION FairSpec
CHECK_DEADLOCK FALSE
PROPERTY WindupReturns
