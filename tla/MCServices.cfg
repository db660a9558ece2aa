\* A thread object with up to four incarnations, pthread_create failing or not.
CONSTANTS
  CreateMayFail = TRUE
  MaxSpawns = 4
  Threads = {"main", "other"}
  Main = "main"
\* HThreadPool, HAsyncCaller and HScheduledAsyncCaller.
  Singletons = {"pool", "caller", "scheduler"}
  LifeTime <- LifeTimes
  Uses <- UsedBy
  MaxGets = 2
  Calls = {"c1", "c2"}
  Second = 2
  Delays = {1, 3}
  Moments = {2, 4}
  Horizon = 5
\* 2 and 28 are SIGINT and SIGWINCH, on either side of SIGURG.
  OwnSignals = {2}
  LateSignals = {28}
  URG = 23
  Registrants = {"user"}
  MaxHandlers = 2
  MaxRaised = 1
  a = a
  Streams = {a, b}
  Event = e
  MaxMessages <- MessagesOf
  MaxChanges = 2
  MaxProcesses = 2
  MaxStops = 2
\* A function and a destructor inside it, or a function that it calls.
  Exceptions = {"x"}
  Chains = {2}
  MaxFrames = 2
  MaxNesting = 3
  MaxVariables = 1
  Writers = {"t1", "t2"}
  Targets = {"f"}
  MaxStreamCalls = 2
  Getters = {"u1", "u2"}
  Owner = "u1"
  MaxCalls = 2
  Lockers = {"r1", "r2"}
  MaxGuards = 2
  MaxLocks = 2
  LocalUsers = {"main", "t1", "t2"}
  MaxVisits = 1
SPECIFICATION ServicesSpec
\* A destroyed object, a process that ended and a loop that was stopped rest.
CHECK_DEADLOCK FALSE
INVARIANTS
  TypesOK
  ChildIsJoined
  SignalsAreMatched
  UsedOutlivesUser
  DestroyedAfterUse
  CalledOnTime
  RegistrationsAreCurrent
  ChildIsAccountedFor
  ProgramIsInOrder
PROPERTIES
  FinishRequestIsKept
  CallsAreInOrder
  ImplementsReadWriteLock
  EventsAreHandled
  StopsAreServed
  FailuresAreFinal
