\* windup( INTERRUPT ) with one runner taking the unit meant for another.
CONSTANTS
  a = a
  b = b
  c = c
  Cores = 2
  Calls = {a, b, c}
  NoCall = NoCall
  Priority <- TwoPriorities
  MaxInterrupts = 1
SPECIFICATION FairSpec
\* A stopped pool rests.
CHECK_DEADLOCK FALSE
PROPERTY WindupReturns
