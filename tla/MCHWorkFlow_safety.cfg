\* Every policy and mode; two workers, three tasks, two wind-ups and the destructor.
CONSTANTS
  a = a
  b = b
  c = c
  Tasks = {a, b, c}
  NoTask = NoTask
  Permanent = {}
  Restartable = {c}
  PoolSize = 1
  Policies <- AllPolicies
  Modes <- AllModes
  Subjects = {}
  Killable = FALSE
  MaxWorkers = 2
  MaxWindups = 2
SPECIFICATION Spec
\* The flow may come to rest.
CHECK_DEADLOCK FALSE
INVARIANTS
  NoWorkerOutlivesWindup
  TasksAreAccountedFor
PROPERTY WorkersAreStable
