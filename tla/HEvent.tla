------------------------------- MODULE HEvent -------------------------------
(***************************************************************************)
(* HEvent of src/hcore/hthread.cxx.  The thread that makes the object      *)
(* keeps _mutex for the life of the object and lends it to signal() only   *)
(* while it sleeps in wait().                                              *)
(***************************************************************************)
EXTENDS Naturals, FiniteSets

CONSTANTS
  Signallers,    \* threads that call signal()
  MaxSignals     \* bound: calls of signal() by one thread

NoThread == "no thread"
Waiter == "waiter"

VARIABLES
  eventMutex,    \* who has _mutex
  signaled,      \* _signaled
  waiter,        \* where the owner is: at work, in the loop of wait(), asleep
  signaller,     \* where each signalling thread is in signal()
  signals        \* calls of signal() so far (bounded by MaxSignals)

eventVars == <<eventMutex, signaled, waiter, signaller, signals>>

Init ==
  /\ eventMutex = Waiter
  /\ signaled = FALSE
  /\ waiter = "working"
  /\ signaller = [s \in Signallers |-> "idle"]
  /\ signals = [s \in Signallers |-> 0]

Wait ==
  /\ waiter = "working"
  /\ waiter' = "test"
  /\ UNCHANGED <<eventMutex, signaled, signaller, signals>>

(* while ( ! _signaled ) _condition.wait_for() *)
Sleep ==
  /\ waiter = "test" /\ ~signaled
  /\ waiter' = "asleep"
  /\ eventMutex' = NoThread
  /\ UNCHANGED <<signaled, signaller, signals>>

WakeUnsignalled ==
  /\ waiter = "asleep"
  /\ waiter' = "woken"
  /\ UNCHANGED <<eventMutex, signaled, signaller, signals>>

Relock ==
  /\ waiter = "woken" /\ eventMutex = NoThread
  /\ waiter' = "test"
  /\ eventMutex' = Waiter
  /\ UNCHANGED <<signaled, signaller, signals>>

Consume ==
  /\ waiter = "test" /\ signaled
  /\ waiter' = "working"
  /\ signaled' = FALSE
  /\ UNCHANGED <<eventMutex, signaller, signals>>

Signal(s) ==
  /\ signaller[s] = "idle" /\ signals[s] < MaxSignals
  /\ signaller' = [signaller EXCEPT ![s] = "lock"]
  /\ signals' = [signals EXCEPT ![s] = @ + 1]
  /\ UNCHANGED <<eventMutex, signaled, waiter>>

Set(s) ==
  /\ signaller[s] = "lock" /\ eventMutex = NoThread
  /\ eventMutex' = s
  /\ signaled' = TRUE
  /\ signaller' = [signaller EXCEPT ![s] = "notify"]
  /\ UNCHANGED <<waiter, signals>>

(* Mutated form: the mutex is given back, and nobody is told. *)
NotifyNobody(s) ==
  /\ signaller[s] = "notify"
  /\ eventMutex' = NoThread
  /\ signaller' = [signaller EXCEPT ![s] = "idle"]
  /\ UNCHANGED <<waiter, signaled, signals>>

Notify(s) ==
  /\ signaller[s] = "notify"
  /\ waiter' = IF waiter = "asleep" THEN "woken" ELSE waiter
  /\ eventMutex' = NoThread
  /\ signaller' = [signaller EXCEPT ![s] = "idle"]
  /\ UNCHANGED <<signaled, signals>>

Next ==
  \/ Wait \/ Sleep \/ WakeUnsignalled \/ Relock \/ Consume
  \/ \E s \in Signallers: Signal(s) \/ Set(s) \/ Notify(s)

(* Everybody inside a call who can move does so, and the owner keeps coming *)
(* back to wait().                                                          *)
Promptness ==
  /\ WF_eventVars(Sleep) /\ WF_eventVars(Consume)
  /\ SF_eventVars(Relock)
  /\ \A s \in Signallers: SF_eventVars(Set(s)) /\ WF_eventVars(Notify(s))

Fairness == Promptness /\ WF_eventVars(Wait)

Spec == Init /\ [][Next]_eventVars

-----------------------------------------------------------------------------
TypeOK ==
  /\ eventMutex \in Signallers \cup {NoThread, Waiter}
  /\ signaled \in BOOLEAN
  /\ waiter \in {"working", "test", "asleep", "woken"}
  /\ signaller \in [Signallers -> {"idle", "lock", "notify"}]

(* NoThread sleeps on a signal: the flag is set under the mutex, so the owner *)
(* either sees it before it sleeps or is about to be notified.              *)
NoSignalIsSlept ==
  waiter = "asleep" /\ signaled => \E s \in Signallers: signaller[s] = "notify"

(* signal() blocks while the owner is not in wait(), but not for ever, and  *)
(* what it signals is consumed by a wait().                                 *)
SignalIsConsumed ==
  \A s \in Signallers: signaller[s] = "lock" ~> (signaller[s] = "idle" /\ ~signaled)
=============================================================================
