---------------------------- MODULE HAsyncCaller ----------------------------
(***************************************************************************)
(* HAsyncCaller of src/tools/hasynccaller.cxx: calls in order of priority, *)
(* executed by as many permanent tasks of HThreadPool as there are cores.  *)
(* Each task, here a runner, is the eager task of a worker of its own; the *)
(* part of HWorkFlow that ends and restarts such workers is modelled with  *)
(* it, because the two stop requests meet: the pool stops each worker, the *)
(* caller only counts how many runners have to leave.                      *)
(***************************************************************************)
EXTENDS Integers, SequencesExt, FiniteSets

CONSTANTS
  Cores,          \* the number of runners
  Calls,          \* the calls that are registered, each at most once
  NoCall,
  Priority,       \* the priority each call is registered with
  MaxInterrupts   \* bound: the number of windup( INTERRUPT ) of the pool

ASSUME CoresAssumption == Cores \in Nat \ {0} /\ MaxInterrupts \in Nat
ASSUME CallsAssumption == NoCall \notin Calls /\ Priority \in [Calls -> Int]

VARIABLES
  queue,          \* _queue, in the order of iteration
  stopRequests,   \* _stopRequests
  semaphore,      \* the value of _semaphore
  pc,             \* program point of each runner
  current,        \* the local c of run()
  wstate,         \* HWorker::_state of the worker of each runner
  isKilled,       \* _isKilled_
  cpc,            \* program point of the thread that winds the pool up
  next,           \* its loop counter
  interrupts,     \* number of windup( INTERRUPT ) so far
  arrivals,       \* history: the calls registered, in that order
  done            \* history: the calls that have returned

runners == <<pc, current, wstate>>
control == <<isKilled, cpc, next, interrupts>>
vars    == <<queue, stopRequests, semaphore, runners, control, arrivals, done>>

Runners == 1 .. Cores
Points  == {"run", "wait", "woken", "call", "returned", "left"}
registered == Range(arrivals)

Init ==
  /\ queue = <<>> /\ stopRequests = 0 /\ semaphore = 0
  /\ pc      = [r \in Runners |-> "run"]
  /\ current = [r \in Runners |-> NoCall]
  /\ wstate  = [r \in Runners |-> "RUNNING"]
  /\ isKilled = FALSE /\ cpc = "idle" /\ next = 1 /\ interrupts = 0
  /\ arrivals = <<>> /\ done = {}

-----------------------------------------------------------------------------
(* HMultiMap keeps equal keys in the order of insertion. *)
PlaceBeforeEquals(c) == 1 + Cardinality({i \in DOMAIN queue: Priority[queue[i]] < Priority[c]})
PlaceOf(c) == 1 + Cardinality({i \in DOMAIN queue: Priority[queue[i]] <= Priority[c]})

RegisterCallSignallingIfEmpty(c) ==
  /\ c \notin registered
  /\ arrivals' = Append(arrivals, c)
  /\ queue' = InsertAt(queue, PlaceOf(c), c)
  /\ semaphore' = IF queue = <<>> THEN semaphore + 1 ELSE semaphore
  /\ UNCHANGED <<stopRequests, runners, control, done>>

RegisterCall(c) ==
  /\ c \notin registered
  /\ arrivals' = Append(arrivals, c)
  /\ queue' = InsertAt(queue, PlaceOf(c), c)
  /\ semaphore' = semaphore + 1
  /\ UNCHANGED <<stopRequests, runners, control, done>>

-----------------------------------------------------------------------------
(* run() *)

Runner(r, from, to) ==
  /\ pc[r] = from
  /\ pc' = [pc EXCEPT ![r] = to]
  /\ UNCHANGED <<wstate, control, arrivals>>

RunLoop(r) ==
  /\ Runner(r, "run", IF isKilled THEN "returned" ELSE "wait")
  /\ UNCHANGED <<queue, stopRequests, semaphore, current, done>>

RunWait(r) ==
  /\ semaphore > 0
  /\ Runner(r, "wait", "woken")
  /\ semaphore' = semaphore - 1
  /\ UNCHANGED <<queue, stopRequests, current, done>>

RunStop(r) ==
  /\ stopRequests > 0
  /\ Runner(r, "woken", "returned")
  /\ stopRequests' = stopRequests - 1
  /\ UNCHANGED <<queue, semaphore, current, done>>

RunPopKeeping(r) ==
  /\ stopRequests = 0
  /\ queue # <<>>
  /\ Runner(r, "woken", "call")
  /\ current' = [current EXCEPT ![r] = Head(queue)]
  /\ UNCHANGED <<queue, stopRequests, semaphore, done>>

(* _queue.begin() is used without a check: UnitsAreExact says it is there. *)
RunPop(r) ==
  /\ stopRequests = 0
  /\ queue # <<>>
  /\ Runner(r, "woken", "call")
  /\ current' = [current EXCEPT ![r] = Head(queue)]
  /\ queue' = Tail(queue)
  /\ UNCHANGED <<stopRequests, semaphore, done>>

CallReturns(r) ==
  /\ Runner(r, "call", "run")
  /\ done' = done \cup {current[r]}
  /\ current' = [current EXCEPT ![r] = NoCall]
  /\ UNCHANGED <<queue, stopRequests, semaphore>>

(* HWorker::run() after the task has returned: want_restart() says yes, so  *)
(* a worker that is not being stopped calls run() again.                    *)
WorkerGoesOn(r) ==
  /\ Runner(r, "returned", IF wstate[r] = "RUNNING" /\ ~ isKilled THEN "run" ELSE "left")
  /\ UNCHANGED <<queue, stopRequests, semaphore, current, done>>

-----------------------------------------------------------------------------
(* The pool *)

Controller(from, to) ==
  /\ cpc = from
  /\ cpc' = to
  /\ UNCHANGED <<queue, current, arrivals, done>>

Interrupt ==
  /\ ~ isKilled
  /\ interrupts < MaxInterrupts
  /\ Controller("idle", "INTERRUPTING")
  /\ interrupts' = interrupts + 1
  /\ next' = 1
  /\ UNCHANGED <<stopRequests, semaphore, pc, wstate, isKilled>>

(* HThreadPool::stop() *)
StopPool ==
  /\ ~ isKilled
  /\ Controller("idle", "ABORTING")
  /\ isKilled' = TRUE
  /\ next' = 1
  /\ UNCHANGED <<stopRequests, semaphore, pc, wstate, interrupts>>

(* HWorker::async_stop() with stop(), for the next worker *)
StopRunnerSilently ==
  \E s \in {"INTERRUPTING", "ABORTING"}:
    /\ Controller(s, IF next = Cores THEN "join" ELSE s)
    /\ wstate' = [wstate EXCEPT ![next] = s]
    /\ stopRequests' = stopRequests + 1
    /\ next' = next + 1
    /\ UNCHANGED <<semaphore, pc, isKilled, interrupts>>

StopRunner ==
  \E s \in {"INTERRUPTING", "ABORTING"}:
    /\ Controller(s, IF next = Cores THEN "join" ELSE s)
    /\ wstate' = [wstate EXCEPT ![next] = s]
    /\ stopRequests' = stopRequests + 1
    /\ semaphore' = semaphore + 1
    /\ next' = next + 1
    /\ UNCHANGED <<pc, isKilled, interrupts>>

JoinAtOnce ==
  /\ Controller("join", "stopped")
  /\ UNCHANGED <<stopRequests, semaphore, pc, wstate, isKilled, next, interrupts>>

Join ==
  /\ \A r \in Runners: pc[r] = "left"
  /\ Controller("join", "stopped")
  /\ UNCHANGED <<stopRequests, semaphore, pc, wstate, isKilled, next, interrupts>>

(* start() after windup( INTERRUPT ): the workers still have their task. *)
Start ==
  /\ ~ isKilled
  /\ Controller("stopped", "idle")
  /\ pc' = [r \in Runners |-> "run"]
  /\ wstate' = [r \in Runners |-> "RUNNING"]
  /\ UNCHANGED <<stopRequests, semaphore, isKilled, next, interrupts>>

-----------------------------------------------------------------------------
Run(r) ==
  \/ RunLoop(r) \/ RunStop(r) \/ RunPop(r) \/ CallReturns(r) \/ WorkerGoesOn(r)

Next ==
  \/ \E c \in Calls: RegisterCall(c)
  \/ \E r \in Runners: Run(r) \/ RunWait(r)
  \/ Interrupt \/ StopPool \/ Start
  \/ StopRunner \/ Join

Spec == Init /\ [][Next]_vars

(* Runners run, calls return, the semaphore lets some waiter pass, and the  *)
(* thread in windup() goes on; start() and stop() are not owed.             *)
FairSpec ==
  /\ Spec
  /\ \A r \in Runners: WF_vars(Run(r))
  /\ WF_vars(\E r \in Runners: RunWait(r))
  /\ WF_vars(StopRunner \/ Join)

-----------------------------------------------------------------------------
TypeOK ==
  /\ queue \in Seq(Calls) /\ stopRequests \in Nat /\ semaphore \in Nat
  /\ pc \in [Runners -> Points]
  /\ current \in [Runners -> Calls \cup {NoCall}]
  /\ wstate \in [Runners -> {"RUNNING", "INTERRUPTING", "ABORTING"}]
  /\ isKilled \in BOOLEAN
  /\ cpc \in {"idle", "INTERRUPTING", "ABORTING", "join", "stopped"}
  /\ next \in 1 .. Cores + 1 /\ interrupts \in Nat
  /\ arrivals \in Seq(Calls) /\ done \subseteq Calls

(* Every unit stands for one queued call or one request to stop, so that a  *)
(* runner past the semaphore finds one of them and _queue.begin() is never  *)
(* the end of an empty map; and no unit is missing for a call.              *)
Woken == {r \in Runners: pc[r] = "woken"}
UnitsAreExact == semaphore + Cardinality(Woken) = Len(queue) + stopRequests

(* A registered call is in the queue, with one runner, or has returned:     *)
(* neither a stop nor a restart of the pool loses or repeats it.            *)
Running == {current[r]: r \in Runners} \ {NoCall}
EveryCallHasOnePlace ==
  /\ IsInjective(queue)
  /\ \A q, r \in Runners: current[q] = current[r] /\ current[q] # NoCall => q = r
  /\ registered = Range(queue) \cup Running \cup done
  /\ Range(queue) \cap (Running \cup done) = {}
  /\ Running \cap done = {}

(* A restarted pool has no request to stop left over from the last one. *)
NoStaleRequest == cpc = "idle" => stopRequests = 0

(* A call starts only when every call left in the queue has a larger       *)
(* priority value, or the same one and was registered later: whatever is    *)
(* registered in the meantime comes after the calls of its own priority.    *)
Before(c, d) == \E i, j \in DOMAIN arrivals: i < j /\ arrivals[i] = c /\ arrivals[j] = d
IsOwedBefore(c, d) == Priority[c] < Priority[d] \/ (Priority[c] = Priority[d] /\ Before(c, d))
StartsInOrder ==
  [][\A c \in Calls: c \in Range(queue) /\ c \notin Range(queue')
       => \A d \in Range(queue'): IsOwedBefore(c, d)]_vars

(* A registered call is executed unless the pool is wound up. *)
CallsAreDone ==
  \A c \in Calls: c \in registered ~> c \in done \/ cpc # "idle"

(* HThreadPool::stop() ends every runner, whatever it is doing. *)
KilledPoolStops == isKilled ~> cpc = "stopped"

(* "Interrupt currently running tasks" (hworkflow.hxx:48): windup() returns *)
(* although the runners are permanent tasks.                                *)
WindupReturns == cpc # "idle" ~> cpc \in {"idle", "stopped"}
=============================================================================
