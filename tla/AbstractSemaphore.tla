------------------------- MODULE AbstractSemaphore -------------------------
(***************************************************************************)
(* What yaal::hcore::HSemaphore promises to its users: a counter, and      *)
(* three operations that take effect in one step somewhere between their   *)
(* call and their return.  No mutex, no condition variable and no wake-up  *)
(* is visible here; HSemaphore.tla shows how hthread.cxx builds this.      *)
(***************************************************************************)
EXTENDS Naturals

CONSTANTS
  Threads,        \* the threads that share the semaphore
  InitialCount,   \* the argument of the constructor
  ResetValues     \* the arguments given to reset()

VARIABLES
  count,          \* the value of the semaphore
  pending         \* the operation of each thread that has yet to take effect

avars == <<count, pending>>

AInit ==
  /\ count = InitialCount
  /\ pending = [t \in Threads |-> "none"]

Enter(t, operation) ==
  /\ pending[t] = "none"
  /\ pending' = [pending EXCEPT ![t] = operation]
  /\ UNCHANGED count

TakeEffect(t, operation) ==
  /\ pending[t] = operation
  /\ pending' = [pending EXCEPT ![t] = "none"]

Pass(t) == TakeEffect(t, "wait") /\ count > 0 /\ count' = count - 1

Post(t) == TakeEffect(t, "signal") /\ count' = count + 1

Set(t)  == TakeEffect(t, "reset") /\ count' \in ResetValues

ANext ==
  \E t \in Threads:
    \/ \E o \in {"wait", "signal", "reset"}: Enter(t, o)
    \/ Pass(t) \/ Post(t) \/ Set(t)

ASpec == AInit /\ [][ANext]_avars
=============================================================================
