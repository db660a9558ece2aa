------------------------------ MODULE Services -------------------------------
(***************************************************************************)
(* Threads, the means by which they wait for each other and share objects, *)
(* and the services of the library that run on them.  The thread pool is   *)
(* HWorkFlow, with a model of its own; the parts here share no state, so a *)
(* behaviour is one of a single part, its subject, while the others rest.  *)
(***************************************************************************)
EXTENDS HThread, Sequences, FiniteSets

CONSTANTS
  Threads, Main,                            \* threads of the process
  Singletons, LifeTime, Uses, MaxGets,
  Calls, Second, Delays, Moments, Horizon,
  OwnSignals, LateSignals, URG, Registrants, MaxHandlers, MaxRaised,
  Streams, Event, MaxMessages, MaxChanges,
  MaxProcesses, MaxStops,
  Exceptions, Chains, MaxFrames, MaxNesting, MaxVariables,
  Writers, Targets, MaxStreamCalls,
  Getters, Owner, MaxCalls,
  Lockers, MaxGuards, MaxLocks,
  LocalUsers, MaxVisits

(* Whom a singleton uses is destroyed after it: life_time() of HThreadPool  *)
(* is 30, of HAsyncCaller 10, of HScheduledAsyncCaller 0.                   *)
ASSUME SingletonAssumption ==
  /\ LifeTime \in [Singletons -> Nat] /\ Uses \in [Singletons -> SUBSET Singletons]
  /\ \A s \in Singletons: \A used \in Uses[s]: LifeTime[s] < LifeTime[used]

(* Signals are their numbers, of which sigwait() gives the smallest.         *)
ASSUME SignalsAssumption ==
  OwnSignals \cup LateSignals \cup {URG} \subseteq Nat /\ URG \notin OwnSignals \cup LateSignals

(* The names of nobody and nothing are none of somebody or something.       *)
ASSUME NamesAssumption ==
  /\ Main \in Threads \cap LocalUsers
  /\ "nobody" \notin Threads \cup Writers \cup LocalUsers \cup Registrants
  /\ {"service", "library"} \cap Registrants = {}
  /\ {"no thread", "worker"} \cap Getters = {}
  /\ {"self", "no stream"} \cap Targets = {}
  /\ Event \notin Streams

ASSUME ClockAssumption ==
  /\ Second \in Nat \ {0} /\ Horizon \in Nat
  /\ Delays \subseteq Nat /\ Moments \subseteq Nat

ASSUME ProgramAssumption == "none" \notin Exceptions /\ Chains \subseteq Nat

ASSUME BoundsAssumption ==
  /\ MaxVisits \in Nat
  /\ MaxCalls \in Nat                            \* of each user of a future
  /\ MaxGuards \in Nat /\ MaxLocks \in Nat       \* of each user of a read/write lock

ASSUME StreamsAssumption ==
  IsFiniteSet(Streams) /\ MaxMessages \in [Streams \cup {Event} -> Nat]

VARIABLES
  subject,
  instances, classMutex, tracker, destructors, exitHandlers, exiting, stack, gets,
  clock, scheduled, wanted, handed, runner, wakeAt, loop,
  registered, catch, waitSet, service, got, nextHandler, signalMutex, pending,
  looping, winder, toReset, raised, kickTaken,
  phase, index, active, ioHandlers, refs, valid, added, dropped, revents, running,
  inbox, buffered, sent, intended, changes,
  process, change, pid, type, step, alarm, processSpawns, stops,
  frames, control, state, result, failing, unhandled,
  streamHolder, depth, within, calling, guards, streamRef, existing, written, readBy, width,
  referred, streamCalls,
  worker, user, holder, finished, value, seen, calls, destroyed,
  lockInfo, readers, writers, doing, reads, writes, locks,
  at, tlsMutex, own, locals, objects, toVisit, visits, ill

singletonVars == <<instances, classMutex, tracker, destructors, exitHandlers, exiting,
  stack, gets>>
schedulerVars == <<clock, scheduled, wanted, handed, runner, wakeAt, loop>>
serviceVars == <<registered, catch, waitSet, service, got, nextHandler, signalMutex,
  pending, looping, winder, toReset, raised, kickTaken>>
dispatcherVars == <<phase, index, active, ioHandlers, refs, valid, added, dropped,
  revents, running, inbox, buffered, sent, intended, changes>>
processVars == <<process, change, pid, type, step, alarm, processSpawns, stops>>
programVars == <<frames, control, state, result, failing, unhandled>>
sharedVars == <<streamHolder, depth, within, calling, guards, streamRef, existing, written,
  readBy, width, referred, streamCalls>>
futureVars == <<worker, user, holder, finished, value, seen, calls, destroyed>>
lockVars == <<lockInfo, readers, writers, doing, reads, writes, locks>>
tlsVars == <<at, tlsMutex, own, locals, objects, toVisit, visits, ill>>

(* The instances of modules of proofs are instances of the component with    *)
(* what is proved about it, for the proofs about the services.               *)
Singleton == INSTANCE HSingleton WITH handlers <- exitHandlers
Scheduler == INSTANCE HScheduledAsyncCaller WITH queue <- scheduled
Signals   == INSTANCE HSignalService WITH
               Own <- OwnSignals, Late <- LateSignals, Users <- Registrants
EventLoop == INSTANCE HIODispatcherProofs WITH Reregister <- FALSE, handlers <- ioHandlers
Process   == INSTANCE HPipedChild WITH
               AlarmMayBeEarly <- FALSE, MaxSpawns <- MaxProcesses, spawns <- processSpawns
Program   == INSTANCE HuginnProofs WITH IllUses <- {}, thrown <- failing, raised <- unhandled
SharedStream  == INSTANCE HSynchronizedStream WITH Assigns <- FALSE
Future        == INSTANCE HFuture WITH Users <- Getters
ReadWriteLock == INSTANCE HReadWriteLock WITH Threads <- Lockers
TLS           == INSTANCE HTLS WITH
               Users <- LocalUsers, EndsMeet <- FALSE, NoUser <- "nobody", instances <- locals

(* Everything but the variables of one part rests.                          *)
Waiting  == <<vars, futureVars, lockVars>>
Sharing  == <<sharedVars, tlsVars, singletonVars>>
Serving  == <<schedulerVars, serviceVars, dispatcherVars>>
Programs == <<processVars, programVars>>

Subjects == {"thread", "singletons", "scheduled calls", "signals", "event loop", "process",
             "program", "shared stream", "future", "read/write lock", "thread local"}

ServicesInit ==
  /\ subject \in Subjects
  /\ Init
  /\ Singleton!Init /\ Scheduler!Init /\ Signals!Init /\ EventLoop!Init /\ Process!Init
  /\ Program!Init /\ SharedStream!Init /\ Future!Init /\ ReadWriteLock!Init /\ TLS!Init
  /\ subject # "shared stream" => streamRef = SharedStream!Self

ServicesNext ==
  /\ UNCHANGED subject
  /\ \/ /\ subject = "thread" /\ Next
        /\ UNCHANGED <<futureVars, lockVars, Sharing, Serving, Programs>>
     \/ /\ subject = "future" /\ Future!Next
        /\ UNCHANGED <<vars, lockVars, Sharing, Serving, Programs>>
     \/ /\ subject = "read/write lock" /\ ReadWriteLock!Next
        /\ UNCHANGED <<vars, futureVars, Sharing, Serving, Programs>>
     \/ /\ subject = "shared stream" /\ SharedStream!Next
        /\ UNCHANGED <<tlsVars, singletonVars, Waiting, Serving, Programs>>
     \/ /\ subject = "thread local" /\ TLS!Next
        /\ UNCHANGED <<sharedVars, singletonVars, Waiting, Serving, Programs>>
     \/ /\ subject = "singletons" /\ Singleton!Next
        /\ UNCHANGED <<sharedVars, tlsVars, Waiting, Serving, Programs>>
     \/ /\ subject = "scheduled calls" /\ Scheduler!Next
        /\ UNCHANGED <<serviceVars, dispatcherVars, Waiting, Sharing, Programs>>
     \/ /\ subject = "signals" /\ Signals!Next
        /\ UNCHANGED <<schedulerVars, dispatcherVars, Waiting, Sharing, Programs>>
     \/ /\ subject = "event loop" /\ EventLoop!Next
        /\ UNCHANGED <<schedulerVars, serviceVars, Waiting, Sharing, Programs>>
     \/ /\ subject = "process" /\ Process!Next
        /\ UNCHANGED <<programVars, Waiting, Sharing, Serving>>
     \/ /\ subject = "program" /\ Program!Next
        /\ UNCHANGED <<processVars, Waiting, Sharing, Serving>>

servicesVars == <<subject, Waiting, Sharing, Serving, Programs>>

ServicesSpec ==
  /\ ServicesInit /\ [][ServicesNext]_servicesVars
  /\ Fairness
  /\ Signals!Promptness /\ WF_serviceVars(subject = "signals" /\ Signals!Wait)
  /\ WF_dispatcherVars(subject = "event loop" /\ EventLoop!Run)
  /\ Process!Fairness
  /\ Future!Promptness /\ SF_futureVars(subject = "future" /\ Future!ExecuteLock)
  /\ ReadWriteLock!Fairness

-----------------------------------------------------------------------------
(* The variables of every part keep their types. *)
TypesOK ==
  /\ TypeOK
  /\ Singleton!TypeOK /\ Scheduler!TypeOK /\ Signals!TypeOK /\ EventLoop!TypeOK
  /\ Process!TypeOK /\ Program!TypeOK /\ SharedStream!TypeOK
  /\ Future!TypeOK /\ ReadWriteLock!TypeOK /\ TLS!TypeOK

(* A singleton is constructed by one thread, each exit handler finds a       *)
(* destructor, and no destructor uses what is destroyed.  Nor does a call of *)
(* a stream that threads share, or one that goes through the objects of all  *)
(* threads; every lock of the stream is given back, and every object         *)
(* destroyed.                                                                *)
UsedOutlivesUser ==
  /\ SharedStream!StreamIsThere /\ SharedStream!LocksAreCounted
  /\ TLS!ObjectsExist /\ TLS!ObjectsAreOwned
  /\ Singleton!UsedOutlivesUser /\ Singleton!ConstructedOnce
  /\ Singleton!HandlersHaveDestructors

(* A future is destroyed when nobody uses it any more, and what get() gives  *)
(* was computed.                                                             *)
DestroyedAfterUse == Future!DestroyedAfterUse /\ Future!ValueIsThere

(* A scheduled call is made no earlier than in the second of its moment, and *)
(* while run() is not stopped it is less than a second late.                 *)
CalledOnTime == Scheduler!NotBeforeItsSecond /\ Scheduler!LateByLessThanASecond

(* What the loops look at is what was registered, although both loops work   *)
(* on copies.                                                                *)
RegistrationsAreCurrent ==
  Signals!CatchHasHandlers /\ EventLoop!RefsAreCurrent /\ EventLoop!ChangesTakeEffect

(* A stream that was unregistered from the event loop is not called any      *)
(* more, and no call of another thread comes between those that are made     *)
(* under the lock of a shared stream.                                        *)
CallsAreInOrder == EventLoop!DroppedIsNotCalled /\ SharedStream!GuardedCallsStayTogether

(* The read/write lock with nested guards excludes as the plain one does: a  *)
(* thread whose first guard is a write guard is alone, and one that has read *)
(* guards meets none that is, whatever it nests in them.                     *)
ImplementsReadWriteLock == ReadWriteLock!ImplementsReadWriteLock

(* Signals and messages reach their handlers, guards are granted to those    *)
(* who ask for them, and HFuture::get() returns.                             *)
EventsAreHandled ==
  /\ Signals!OwnSignalIsHandled /\ EventLoop!MessagesAreServed
  /\ subject = "signals" => Signals!NewSignalIsWaitedFor
  /\ ReadWriteLock!LocksAreGranted /\ Future!GetReturns

(* A request to stop ends a thread, the signal service, the event loop and a *)
(* child process.                                                            *)
StopsAreServed ==
  FinishReturns /\ Signals!ServiceStops /\ EventLoop!StopIsServed /\ Process!FinishReturns

(* Programs in Huginn: exceptions, jumps and calls go where the statements   *)
(* they are in say, and variables are where the compiler has placed them.    *)
ProgramIsInOrder ==
  /\ Program!ExceptionIsKept /\ Program!JumpsAreObeyed
  /\ Program!VariablesAreInPlace /\ Program!FramesAreCalls

(* What made a program fail, or exit, is not undone by its destructors.      *)
FailuresAreFinal == Program!FailuresAreFinal

(* A child process gets signals only before it was waited for, and is waited *)
(* for unless finish() found it stopped, which it takes for the end.         *)
ChildIsAccountedFor == Process!SignalsReachTheChild /\ Process!NoChildIsLeft
=============================================================================
