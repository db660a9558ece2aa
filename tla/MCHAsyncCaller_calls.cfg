\* Two runners, three calls, the pool interrupted and restarted, then stopped.
CONSTANTS
  a = a
  b = b
  c = c
  Cores = 2
  Calls = {a, b, c}
  NoCall = NoCall
  Priority <- TwoPriorities
  MaxInterrupts = 2
SPECIFICATION FairSpec
\* A stopped pool rests, and so does one whose windup() hangs.
CHECK_DEADLOCK FALSE
INVARIANTS
  UnitsAreExact
  EveryCallHasOnePlace
  NoStaleRequest
PROPERTIES
  StartsInOrder
  CallsAreDone
  KilledPoolStops
