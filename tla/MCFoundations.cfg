\* The semaphore with three threads, two calls each, any mix of wait, signal and
\* reset; the other parts with the values here and in MCFoundations.  No symmetry, because
\* of the liveness properties.
CONSTANTS
  Threads = {t1, t2, t3}
  Nobody = Nobody
  InitialCount = 0
  ResetValues = {0, 2}
  MaxCalls = 2
  Blocks = {1, 2, 3}
  Cells = 3
  Objects = {o1, o2}
  Holders = {p1, p2}
  Observers = {w1}
  CacheKeys = {1, 2, 3, 4}
  FetchedWith <- FetchedBefore
  MaxEntries = 2
  Bytes = {1, 2}
  RingSize = 4
  MaxProvided = 4
  Inputs <- StreamInputs
  IOSize = 2
  Everything = 9
  MaxWritten = 4
  Keys = {"k1", "k2", "k3", "k4"}
  HashOf <- HashesCollide
  Sizes = {6}
  MaxStore = 4
SPECIFICATION FoundationsSpec
\* Threads that have made all their calls, or sleep, rest for good.
CHECK_DEADLOCK FALSE
INVARIANTS
  TypesOK
  ConditionUsedByOwner
  NoLostWakeup
  ValuesAreKept
  MemoryIsAccountedFor
  ContentsAreKept
  AlgorithmsAreRight
  GrammarsAreObeyed
PROPERTIES
  ImplementsSemaphore
  WaitersGoOn
  MessagesEnd
