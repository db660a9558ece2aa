---------------------------- MODULE HSemaphore ------------------------------
(***************************************************************************)
(* HSemaphore of src/hcore/hthread.cxx together with the HMutex, HLock and *)
(* HCondition it is made of.  A thread inside one of the three operations  *)
(* is at one of the program points of stage:                               *)
(*                                                                         *)
(*   lock    in pthread_mutex_lock, or woken in pthread_cond_timedwait and *)
(*           re-acquiring the mutex                                        *)
(*   own     has the pthread mutex, _owner is not set yet                  *)
(*   body    has the mutex and is recorded in _owner                       *)
(*   asleep  blocked in pthread_cond_timedwait, mutex released             *)
(*   notify  about to call HCondition::signal() or broadcast()             *)
(*   disown  about to clear _owner                                         *)
(*   unlock  about to call pthread_mutex_unlock                            *)
(***************************************************************************)
EXTENDS Naturals, FiniteSets

CONSTANTS
  Threads,        \* the threads that share the semaphore
  Nobody,         \* HThread::INVALID: the mutex has no owner
  InitialCount,   \* the argument of the constructor
  ResetValues,    \* the arguments given to reset()
  MaxCalls        \* bound: the number of calls one thread makes

ASSUME ThreadsAssumption == IsFiniteSet(Threads)
ASSUME NobodyAssumption == Nobody \notin Threads
ASSUME ValuesAssumption == InitialCount \in Nat /\ ResetValues \subseteq Nat
ASSUME CallsAssumption  == MaxCalls \in Nat

VARIABLES
  count,          \* HSemaphore::_count
  mutex,          \* the thread that holds the pthread mutex
  owner,          \* HMutex::_owner
  call,           \* the operation each thread is in
  stage,          \* where in the operation each thread is
  calls           \* how many calls each thread has made (bounded by MaxCalls)

vars == <<count, mutex, owner, call, stage, calls>>

Operations == {"none", "wait", "signal", "reset"}
Stages     == {"idle", "lock", "own", "body", "asleep", "notify", "disown", "unlock"}

Init ==
  /\ count = InitialCount
  /\ mutex = Nobody
  /\ owner = Nobody
  /\ call  = [t \in Threads |-> "none"]
  /\ stage = [t \in Threads |-> "idle"]
  /\ calls = [t \in Threads |-> 0]

Asleep == {t \in Threads: stage[t] = "asleep"}

Move(t, from, to) ==
  /\ stage[t] = from
  /\ stage' = [stage EXCEPT ![t] = to]

-----------------------------------------------------------------------------
(* HMutex *)

(* HMutex::lock(): the pthread call, then the assignment of _owner.  The    *)
(* return of pthread_cond_timedwait followed by reown() has the same shape. *)
Lock(t) ==
  /\ Move(t, "lock", "own")
  /\ mutex = Nobody
  /\ mutex' = t
  /\ UNCHANGED <<count, owner, call, calls>>

OwnIfUnset(t) ==
  /\ Move(t, "own", "body")
  /\ owner' = IF owner = Nobody THEN t ELSE owner
  /\ UNCHANGED <<count, mutex, call, calls>>

Own(t) ==
  /\ Move(t, "own", "body")
  /\ owner' = t
  /\ UNCHANGED <<count, mutex, call, calls>>

(* HMutex::unlock(): _owner is cleared before the mutex is released. *)
Disown(t) ==
  /\ Move(t, "disown", "unlock")
  /\ owner' = Nobody
  /\ UNCHANGED <<count, mutex, call, calls>>

Unlock(t) ==
  /\ Move(t, "unlock", "idle")
  /\ mutex' = Nobody
  /\ call' = [call EXCEPT ![t] = "none"]
  /\ UNCHANGED <<count, owner, calls>>

-----------------------------------------------------------------------------
(* HCondition *)

(* do_wait(): pthread_cond_timedwait releases the mutex and sleeps in one   *)
(* step; _owner keeps the name of the sleeper.                              *)
Sleep(t) ==
  /\ Move(t, "body", "asleep")
  /\ mutex' = Nobody
  /\ UNCHANGED <<count, owner, call, calls>>

(* The sleep ends without a signal: time-out, EINTR or a spurious wake-up. *)
WakeUnsignalled(t) ==
  /\ Move(t, "asleep", "lock")
  /\ UNCHANGED <<count, mutex, owner, call, calls>>

(* signal() releases one sleeper if there is one. *)
SignalOne(t) ==
  /\ stage[t] = "notify"
  /\ \/ /\ Asleep = {}
        /\ stage' = [stage EXCEPT ![t] = "disown"]
     \/ \E s \in Asleep:
          stage' = [stage EXCEPT ![t] = "disown", ![s] = "lock"]
  /\ UNCHANGED <<count, mutex, owner, call, calls>>

(* broadcast() releases every sleeper. *)
Broadcast(t) ==
  /\ stage[t] = "notify"
  /\ stage' = [s \in Threads |-> IF s = t THEN "disown"
                                 ELSE IF s \in Asleep THEN "lock"
                                 ELSE stage[s]]
  /\ UNCHANGED <<count, mutex, owner, call, calls>>

-----------------------------------------------------------------------------
(* HSemaphore *)

Begin(t, operation) ==
  /\ calls[t] < MaxCalls
  /\ Move(t, "idle", "lock")
  /\ call' = [call EXCEPT ![t] = operation]
  /\ calls' = [calls EXCEPT ![t] = @ + 1]
  /\ UNCHANGED <<count, mutex, owner>>

(* wait(): the loop test under the mutex. *)
WaitSleep(t) ==
  /\ call[t] = "wait"
  /\ count = 0
  /\ Sleep(t)

WaitTakeUnchecked(t) ==
  /\ call[t] = "wait"
  /\ Move(t, "body", "disown")
  /\ count' = count - 1
  /\ UNCHANGED <<mutex, owner, call, calls>>

WaitTake(t) ==
  /\ call[t] = "wait"
  /\ count # 0
  /\ Move(t, "body", "disown")
  /\ count' = count - 1
  /\ UNCHANGED <<mutex, owner, call, calls>>

(* signal() *)
SignalCountNotifyingFirst(t) ==
  /\ call[t] = "signal"
  /\ Move(t, "body", IF count = 0 THEN "notify" ELSE "disown")
  /\ count' = count + 1
  /\ UNCHANGED <<mutex, owner, call, calls>>

SignalCount(t) ==
  /\ call[t] = "signal"
  /\ Move(t, "body", "notify")
  /\ count' = count + 1
  /\ UNCHANGED <<mutex, owner, call, calls>>

SignalNotify(t) ==
  /\ call[t] = "signal"
  /\ SignalOne(t)

(* reset(): waiters are woken only when there is something to take. *)
ResetCount(t, value) ==
  /\ call[t] = "reset"
  /\ Move(t, "body", IF value > 0 THEN "notify" ELSE "disown")
  /\ count' = value
  /\ UNCHANGED <<mutex, owner, call, calls>>

ResetNotify(t) ==
  /\ call[t] = "reset"
  /\ Broadcast(t)

-----------------------------------------------------------------------------
(* What a thread does once it is inside a call, and the whole system. *)
Continue(t) ==
  \/ Lock(t) \/ Own(t) \/ Disown(t) \/ Unlock(t)
  \/ WaitSleep(t) \/ WaitTake(t)
  \/ SignalCount(t) \/ SignalNotify(t)
  \/ \E v \in ResetValues: ResetCount(t, v)
  \/ ResetNotify(t)

Step(t) ==
  \/ \E o \in {"wait", "signal", "reset"}: Begin(t, o)
  \/ Continue(t)
  \/ WakeUnsignalled(t)

Next == \E t \in Threads: Step(t)

Spec == Init /\ [][Next]_vars

(* A thread inside a call that can move does so; nothing obliges a thread   *)
(* to make a call, nor a sleeper to wake without a signal.                  *)
Fairness == \A t \in Threads: WF_vars(Continue(t))

-----------------------------------------------------------------------------
TypeOK ==
  /\ count \in Nat
  /\ mutex \in Threads \cup {Nobody}
  /\ owner \in Threads \cup {Nobody}
  /\ call  \in [Threads -> Operations]
  /\ stage \in [Threads -> Stages]
  /\ calls \in [Threads -> 0 .. MaxCalls]

(* M_ASSERT( _mutex.is_owned() ) in HCondition::do_wait(), signal() and     *)
(* broadcast() never fails, although a sleeper leaves _owner behind and     *)
(* other threads overwrite it before the sleeper runs again.                *)
ConditionUsedByOwner ==
  \A t \in Threads: stage[t] \in {"body", "notify", "disown"} => owner = t

(* A unit that can be taken while somebody sleeps is matched by a thread    *)
(* that is awake in wait() or about to be woken: signal() for every unit,   *)
(* one sleeper per signal, loses no wake-up even when a thread that did not *)
(* sleep takes the unit first.                                              *)
Awake        == {t \in Threads: call[t] = "wait" /\ stage[t] \in {"lock", "own", "body"}}
Signalling   == {t \in Threads: call[t] = "signal" /\ stage[t] = "notify"}
Broadcasting == {t \in Threads: call[t] = "reset" /\ stage[t] = "notify"}

NoLostWakeup ==
  \/ Asleep = {}
  \/ Broadcasting # {}
  \/ count <= Cardinality(Awake) + Cardinality(Signalling)

(* HSemaphore implements the counter its users see: every operation takes   *)
(* effect in one step, between its call and its return, and wait() only     *)
(* when there is a unit to take.                                            *)
Abstract == INSTANCE AbstractSemaphore WITH
  pending <- [t \in Threads |-> IF stage[t] \in {"lock", "own", "body", "asleep"}
                                THEN call[t] ELSE "none"]
ImplementsSemaphore == Abstract!ASpec

(* Threads in wait() that have not taken a unit yet. *)
Waiting == {t \in Threads: call[t] = "wait" /\ stage[t] \notin {"disown", "unlock"}}

(* A positive semaphore does not leave its waiters blocked: units are       *)
(* taken until none or nobody is left.                                      *)
UnitsAreTaken == (count > 0 /\ Waiting # {}) ~> (count = 0 \/ Waiting = {})
=============================================================================
