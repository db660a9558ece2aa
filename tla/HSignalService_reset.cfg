\* stop() resets SIGINT between sigwait() and the look-up of its handlers.
CONSTANTS
  Own = {2}
  Late = {}
  URG = 23
  Users = {user}
  MaxHandlers = 1
  MaxRaised = 1
SPECIFICATION Spec
CHECK_DEADLOCK FALSE
INVARIANT HandlerIsThere
