\* Every mode but INTERRUPT: nothing that was accepted is left.
CONSTANTS
  a = a
  b = b
  c = c
  Tasks = {a, b}
  NoTask = NoTask
  Permanent = {}
  Restartable = {}
  PoolSize = 1
  Policies <- AllPolicies
  Modes = {"ABORT", "SUSPEND", "CLOSE"}
  Subjects = {}
  Killable = FALSE
  MaxWorkers = 2
  MaxWindups = 2
SPECIFICATION FairSpec
\* The flow may come to rest.
CHECK_DEADLOCK FALSE
INVARIANT ClosedIsDrained
PROPERTIES
  TasksFinish
  WindupReturns
