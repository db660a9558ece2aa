--------------------------- MODULE HSignalService ---------------------------
(***************************************************************************)
(* HSignalService of src/tools/signals.cxx: run(), a task of the thread    *)
(* pool that waits for signals of the process and calls their handlers,    *)
(* with threads that register and flush handlers and the one that winds    *)
(* the pool up and calls stop().  Signals are their numbers.  Those the    *)
(* constructor registers are blocked in all threads, since they are        *)
(* created later and inherit the mask; a signal registered later is        *)
(* blocked in the registering thread only, and when it comes while run()   *)
(* is not waiting for it another thread swallows it in the empty handler.  *)
(***************************************************************************)
EXTENDS Naturals, Sequences, FiniteSets, FiniteSetsExt, SequencesExt

CONSTANTS
  Own,           \* signals the constructor registers handlers for
  Late,          \* signals the application registers handlers for later
  URG,           \* SIGURG, which makes run() look at _catch and _loop again
  Users,         \* threads of the application, owners of their handlers
  MaxHandlers,   \* bound: handlers of one signal
  MaxRaised      \* bound: how often one signal comes

Nobody  == "nobody"
Service == "service"
Winder  == "winder"
Library == "library"      \* the owner of the handlers of the constructor
Signals == Own \cup Late

VARIABLES
  registered,    \* _handlers: for each signal the owners, newest first
  catch,         \* _catch
  waitSet,       \* the set that run() is in sigwait() with
  service,       \* where run() is
  got,           \* the signal that run() got from sigwait(), URG at first
  nextHandler,   \* which of its handlers is called next
  signalMutex,   \* who has _mutex
  pending,       \* signals pending for the process
  looping,       \* _loop
  winder,        \* where stop() is
  toReset,       \* the signals stop() has still to reset
  raised,        \* how often each signal came (bounded by MaxRaised)
  kickTaken      \* whether reset_signal() took the SIGURG meant for run()

serviceVars == <<registered, catch, waitSet, service, got, nextHandler, signalMutex,
  pending, looping, winder, toReset, raised, kickTaken>>

Init ==
  /\ registered = [s \in Signals |-> IF s \in Own THEN <<Library>> ELSE <<>>]
  /\ catch = Own \cup {URG}
  /\ waitSet = {}
  /\ service = "top" /\ got = URG /\ nextHandler = 1
  /\ signalMutex = Nobody
  /\ pending = {URG}
  /\ looping = TRUE
  /\ winder = "idle" /\ toReset = {}
  /\ raised = [s \in Signals |-> 0]
  /\ kickTaken = FALSE

-----------------------------------------------------------------------------
Raise(s) ==
  /\ s \in catch
  /\ raised[s] < MaxRaised
  /\ raised' = [raised EXCEPT ![s] = @ + 1]
  /\ \/ s \in Own \cup waitSet /\ pending' = pending \cup {s}
     \/ s \notin Own /\ UNCHANGED pending
  /\ UNCHANGED <<registered, catch, waitSet, service, got, nextHandler, signalMutex,
                 looping, winder, toReset, kickTaken>>

(* register_handler(): under the mutex; the first handler of a signal puts  *)
(* it into _catch, and SIGURG is sent before the mutex is released.         *)
RegisterSilently(u, s) ==
  /\ signalMutex = Nobody
  /\ Len(registered[s]) < MaxHandlers
  /\ registered' = [registered EXCEPT ![s] = <<u>> \o @]
  /\ catch' = catch \cup {s}
  /\ UNCHANGED <<waitSet, service, got, nextHandler, signalMutex, pending, looping,
                 winder, toReset, raised, kickTaken>>

Register(u, s) ==
  /\ signalMutex = Nobody
  /\ Len(registered[s]) < MaxHandlers
  /\ registered' = [registered EXCEPT ![s] = <<u>> \o @]
  /\ IF registered[s] = <<>>
     THEN catch' = catch \cup {s} /\ signalMutex' = u
     ELSE UNCHANGED <<catch, signalMutex>>
  /\ UNCHANGED <<waitSet, service, got, nextHandler, pending, looping, winder, toReset,
                 raised, kickTaken>>

RegisterKick(u) ==
  /\ signalMutex = u
  /\ pending' = pending \cup {URG}
  /\ signalMutex' = Nobody
  /\ UNCHANGED <<registered, catch, waitSet, service, got, nextHandler, looping, winder,
                 toReset, raised, kickTaken>>

(* flush_handlers(): signal by signal.  For the last handler of a signal it *)
(* calls reset_signal(), which locks the mutex again and throws, so that    *)
(* handler and those of the signals after it stay.                          *)
Without(q, u) ==
  LET kept    == {i \in DOMAIN q: q[i] # u}
      rank(i) == Cardinality({j \in kept: j <= i})
  IN  [n \in 1 .. Cardinality(kept) |-> q[CHOOSE i \in kept: rank(i) = n]]

Flush(u) ==
  /\ signalMutex = Nobody
  /\ \E s \in Signals: u \in ToSet(registered[s])
  /\ LET only == {s \in Signals: ToSet(registered[s]) = {u}}
     IN registered' = [s \in Signals |->
          IF \A t \in only: s < t THEN Without(registered[s], u)
          ELSE IF s \in only /\ \A t \in only: s <= t THEN <<u>>
          ELSE registered[s]]
  /\ UNCHANGED <<catch, waitSet, service, got, nextHandler, signalMutex, pending,
                 looping, winder, toReset, raised, kickTaken>>

-----------------------------------------------------------------------------
(* run(): sigwait() takes the set as it is when it is called. *)
Wait ==
  /\ service = "top"
  /\ IF looping THEN service' = "sigwait" /\ waitSet' = catch
                ELSE service' = "returned" /\ UNCHANGED waitSet
  /\ UNCHANGED <<registered, catch, got, nextHandler, signalMutex, pending, looping,
                 winder, toReset, raised, kickTaken>>

(* The test of _loop comes before sigwait() is entered: a stop() between    *)
(* them is noticed through SIGURG only.                                     *)
Got ==
  /\ service = "sigwait"
  /\ \E s \in pending \cap waitSet: got' = s /\ pending' = pending \ {s}
  /\ service' = "lock" /\ waitSet' = {} /\ nextHandler' = 1
  /\ UNCHANGED <<registered, catch, signalMutex, looping, winder, toReset, raised, kickTaken>>

LockHandlers ==
  /\ service = "lock" /\ signalMutex = Nobody
  /\ signalMutex' = Service
  /\ service' = "call"
  /\ UNCHANGED <<registered, catch, waitSet, got, nextHandler, pending, looping, winder,
                 toReset, raised, kickTaken>>

HandlersOfGot == IF got = URG THEN <<>> ELSE registered[got]

(* call_handler(): a handler that returns a positive value has consumed the *)
(* signal; the library's return a negative one, or zero to ignore it.       *)
CallHandler ==
  /\ service = "call"
  /\ nextHandler <= Len(HandlersOfGot)
  /\ \/ /\ HandlersOfGot[nextHandler] # Library                  \* consumed
        /\ service' = "top" /\ signalMutex' = Nobody
        /\ UNCHANGED <<nextHandler, looping>>
     \/ /\ nextHandler' = nextHandler + 1                        \* passed on
        /\ UNCHANGED <<service, signalMutex, looping>>
     \/ /\ HandlersOfGot[nextHandler] = Library                  \* schedule_exit()
        /\ looping' = FALSE
        /\ nextHandler' = nextHandler + 1
        /\ UNCHANGED <<service, signalMutex>>
  /\ UNCHANGED <<registered, catch, waitSet, got, pending, winder, toReset, raised, kickTaken>>

(* The end of the handlers; M_ENSURE when there was none. *)
EndHandlers ==
  /\ service = "call"
  /\ nextHandler > Len(HandlersOfGot)
  /\ service' = IF got # URG /\ HandlersOfGot = <<>> THEN "failed" ELSE "top"
  /\ signalMutex' = Nobody
  /\ UNCHANGED <<registered, catch, waitSet, got, nextHandler, pending, looping, winder,
                 toReset, raised, kickTaken>>

-----------------------------------------------------------------------------
(* stop(), which takes the mutex only in reset_signal(). *)
StopKick ==
  /\ winder = "idle"
  /\ looping
  /\ looping' = FALSE
  /\ pending' = pending \cup {URG}
  /\ toReset' = {s \in Signals: registered[s] # <<>>}
  /\ winder' = "reset"
  /\ UNCHANGED <<registered, catch, waitSet, service, got, nextHandler, signalMutex,
                 raised, kickTaken>>

(* reset_signal(): a signal that is pending is taken by a sigwait() for all *)
(* that are pending, which gives the one of the smallest number.            *)
ResetSignal ==
  /\ winder = "reset" /\ toReset # {}
  /\ signalMutex = Nobody
  /\ LET s == Min(toReset)
     IN /\ toReset' = toReset \ {s}
        /\ registered' = [registered EXCEPT ![s] = <<>>]
        /\ catch' = catch \ {s}
        /\ IF s \in pending
           THEN /\ pending' = (pending \ {Min(pending)}) \ {s}
                /\ kickTaken' = (kickTaken \/ Min(pending) = URG)
           ELSE UNCHANGED <<pending, kickTaken>>
  /\ UNCHANGED <<waitSet, service, got, nextHandler, signalMutex, looping, winder, raised>>

StopReturn ==
  /\ winder = "reset" /\ toReset = {}
  /\ winder' = "done"
  /\ UNCHANGED <<registered, catch, waitSet, service, got, nextHandler, signalMutex,
                 pending, looping, toReset, raised, kickTaken>>

RunService == Wait \/ Got \/ LockHandlers \/ CallHandler \/ EndHandlers

Next ==
  \/ \E s \in Signals: Raise(s)
  \/ \E u \in Users: \/ \E s \in Signals: Register(u, s)
                     \/ RegisterKick(u) \/ Flush(u)
  \/ RunService
  \/ StopKick \/ ResetSignal \/ StopReturn

Spec == Init /\ [][Next]_serviceVars

Promptness ==
  /\ SF_serviceVars(Got) /\ SF_serviceVars(LockHandlers)
  /\ WF_serviceVars(CallHandler \/ EndHandlers)
  /\ \A u \in Users: WF_serviceVars(RegisterKick(u))
  /\ SF_serviceVars(ResetSignal) /\ WF_serviceVars(StopReturn)

Fairness == Promptness /\ WF_serviceVars(Wait)

-----------------------------------------------------------------------------
TypeOK ==
  /\ registered \in [Signals -> Seq(Users \cup {Library})]
  /\ catch \subseteq Signals \cup {URG} /\ waitSet \subseteq Signals \cup {URG}
  /\ pending \subseteq Signals \cup {URG} /\ got \in Signals \cup {URG}
  /\ service \in {"top", "sigwait", "lock", "call", "returned", "failed"}
  /\ signalMutex \in Users \cup {Nobody, Service}
  /\ looping \in BOOLEAN /\ winder \in {"idle", "reset", "done"}

(* The service waits for a signal exactly while the signal has handlers.    *)
CatchHasHandlers == \A s \in Signals: s \in catch <=> registered[s] # <<>>

(* sigwait() looks at a copy of _catch: the service gets to know of every   *)
(* signal that is registered while it waits for others.                     *)
NewSignalIsWaitedFor == \A s \in Signals: s \in catch ~> s \in waitSet \/ ~looping

(* A signal that the library registers is handled, and none is lost between *)
(* two calls of sigwait().                                                  *)
OwnSignalIsHandled == \A s \in Own: s \in pending ~> (got = s /\ service = "call") \/ ~looping

(* M_ENSURE( ( sigNo_ == SIGURG ) || ( sigNo_ == SIGPIPE ) ): the service   *)
(* gets no signal without a handler.                                        *)
HandlerIsThere == service # "failed"

(* stop() ends run(), unless reset_signal() took the SIGURG that run() was  *)
(* to wake up by, which it can for a signal of a greater number only.       *)
ServiceStops ==
  winder = "reset" ~> service \in {"returned", "failed"} \/ kickTaken
=============================================================================
