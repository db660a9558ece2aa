----------------------------- MODULE HWorkFlow ------------------------------
(***************************************************************************)
(* HWorkFlow of src/tools/hworkflow.cxx: a thread pool with a task queue,  *)
(* a semaphore that counts queued tasks, worker threads that are never     *)
(* removed, and a life cycle                                               *)
(*                                                                         *)
(*   RUNNING -> ABORTING | INTERRUPTING | STOPPING | CLOSING               *)
(*           -> STOPPED | CLOSED -> RUNNING                                *)
(*                                                                         *)
(* Any number of threads call schedule_task(); one thread calls            *)
(* cancel_task(); one, the controller, calls start(), schedule_windup(),   *)
(* join() and the destructor.                                              *)
(*                                                                         *)
(* Granularity.  What runs under _mutex is one step, because nothing in    *)
(* it waits, except in cancel_task(), which waits for the semaphore while  *)
(* it holds _mutex: MutexFree is false between its steps.  What a worker   *)
(* does under its own mutex is one step too: nobody takes another lock or  *)
(* waits there.  The semaphore is the atomic counter of AbstractSemaphore, *)
(* which HSemaphore is proved to implement.  HThread::spawn() and finish() *)
(* are steps; HThread.tla has their hand-shake.                            *)
(***************************************************************************)
EXTENDS Integers, SequencesExt, FiniteSets

CONSTANTS
  Tasks,          \* the calls that are scheduled, each at most once
  NoTask,         \* an empty task_t
  Permanent,      \* the tasks whose call returns only after asyncStop
  Restartable,    \* the tasks whose wantRestart may say yes
  PoolSize,       \* argument of the constructor
  Policies,       \* the scheduling policies in use
  Modes,          \* the wind-up modes in use
  Subjects,       \* the arguments of cancel_task: the tasks of one object
  Killable,       \* may _isKilled_ be set (a signal, HThreadPool::stop)?
  MaxWorkers,     \* bound: the number of workers ever made
  MaxWindups      \* bound: the number of wind-ups

ASSUME NoTaskAssumption == NoTask \notin Tasks
ASSUME TasksAssumption ==
  /\ Permanent \subseteq Tasks
  /\ Restartable \subseteq Tasks
  /\ Subjects \subseteq SUBSET Tasks
ASSUME SizesAssumption ==
  /\ PoolSize \in Nat \ {0}
  /\ MaxWorkers \in Nat
  /\ MaxWindups \in Nat
ASSUME ModesAssumption ==
  /\ Modes \subseteq {"ABORT", "INTERRUPT", "SUSPEND", "CLOSE"}
  /\ Policies \subseteq {"LAZY", "EAGER"}
  /\ Killable \in BOOLEAN

VARIABLES
  (* HWorkFlow *)
  state,          \* _state
  poolSize,       \* _workerPoolSize
  busy,           \* _busyWorkers
  workers,        \* the length of _workers
  tasks,          \* _tasks
  semaphore,      \* the value of _semaphore
  (* HWorker and its thread, for each element of _workers *)
  pc,             \* program point of run()
  task,           \* _task
  popped,         \* the local t of run() that holds what pop_task() returned
  hasTask,        \* _hasTask
  wstate,         \* HWorker::_state
  (* the controller *)
  cpc,            \* program point
  mode,           \* the mode of the current or last wind-up
  next,           \* loop counter
  destroying,     \* is the destructor running?
  windups,        \* number of wind-ups so far (bounded by MaxWindups)
  (* the thread in cancel_task() *)
  kpc,            \* program point
  subject,        \* its argument
  knext,          \* loop counter
  (* the tasks and the program around *)
  isKilled,       \* _isKilled_
  asked,          \* the tasks that were asked to stop and have not returned since
  muted,          \* the tasks whose asyncStop was reset by cancel_task()
  (* history *)
  submitted,      \* the tasks that were accepted
  done,           \* the tasks whose call returned for the last time
  dropped         \* the tasks removed from the queue unexecuted

flow    == <<state, poolSize, busy, workers, tasks>>
threads == <<pc, task, popped, hasTask, wstate>>
control == <<cpc, mode, next, destroying, windups>>
cancel  == <<kpc, subject, knext>>
outside == <<isKilled, asked, muted>>
history == <<submitted, done, dropped>>
vars    == <<flow, semaphore, threads, control, cancel, outside, history>>

Workers == 1 .. MaxWorkers
States  == {"RUNNING", "STOPPING", "INTERRUPTING", "STOPPED", "ABORTING", "CLOSING", "CLOSED"}
Winding == {"ABORTING", "INTERRUPTING", "STOPPING", "CLOSING"}
Points  == {"off", "start", "loop", "pop", "wait", "woken", "assign", "call",
            "after", "leave", "exited"}

Init ==
  /\ state = "RUNNING" /\ poolSize = PoolSize /\ busy = 0 /\ workers = 0
  /\ tasks = <<>> /\ semaphore = 0
  /\ pc      = [w \in Workers |-> "off"]
  /\ task    = [w \in Workers |-> NoTask]
  /\ popped  = [w \in Workers |-> NoTask]
  /\ hasTask = [w \in Workers |-> FALSE]
  /\ wstate  = [w \in Workers |-> "STOPPED"]
  /\ cpc = "idle" /\ mode = "CLOSE" /\ next = 0 /\ destroying = FALSE /\ windups = 0
  /\ kpc = "idle" /\ subject = {} /\ knext = 0
  /\ isKilled = FALSE /\ asked = {} /\ muted = {}
  /\ submitted = {} /\ done = {} /\ dropped = {}

MutexFree == kpc = "idle"

-----------------------------------------------------------------------------
(* schedule_task() *)

(* HWorker::spawn( t ) for a worker that is then put at the end of _workers. *)
SpawnWorker(t) ==
  /\ workers < MaxWorkers
  /\ workers' = workers + 1
  /\ busy'    = busy + 1
  /\ pc'      = [pc EXCEPT ![workers + 1] = "start"]
  /\ task'    = [task EXCEPT ![workers + 1] = t]
  /\ wstate'  = [wstate EXCEPT ![workers + 1] = "RUNNING"]
  /\ UNCHANGED <<popped, hasTask>>

EnqueueSignallingIfEmpty(t) ==
  /\ tasks' = Append(tasks, t)
  /\ semaphore' = IF tasks = <<>> THEN semaphore + 1 ELSE semaphore

Enqueue(t) ==
  /\ tasks' = Append(tasks, t)
  /\ semaphore' = semaphore + 1

Submit(t) ==
  /\ t \notin submitted
  /\ submitted' = submitted \cup {t}
  /\ MutexFree
  /\ ~ destroying
  /\ UNCHANGED <<state, control, cancel, outside, done, dropped>>

AllBusy == busy + Len(tasks) >= workers

NeedsWorkerInAnyState == workers < poolSize /\ AllBusy
NeedsWorker == state = "RUNNING" /\ workers < poolSize /\ AllBusy

AddTaskLazy(t) ==
  /\ Submit(t)
  /\ state \notin {"ABORTING", "CLOSING", "CLOSED"}
  /\ Enqueue(t)
  /\ \/ NeedsWorker /\ SpawnWorker(NoTask)
     \/ ~ NeedsWorker /\ UNCHANGED <<busy, workers, threads>>
  /\ UNCHANGED poolSize

AddTaskEager(t) ==
  /\ Submit(t)
  /\ state = "RUNNING"
  /\ \/ /\ AllBusy
        /\ SpawnWorker(t)
        /\ poolSize' = poolSize + 1
        /\ UNCHANGED <<tasks, semaphore>>
     \/ /\ ~ AllBusy
        /\ Enqueue(t)
        /\ UNCHANGED <<poolSize, busy, workers, threads>>

-----------------------------------------------------------------------------
(* HWorker::run() *)

Worker(w, from, to) ==
  /\ pc[w] = from
  /\ pc' = [pc EXCEPT ![w] = to]
  /\ UNCHANGED <<control, cancel, isKilled, muted, submitted, dropped>>

RunStart(w) ==
  /\ Worker(w, "start", "loop")
  /\ UNCHANGED <<flow, semaphore, task, popped, hasTask, wstate, asked, done>>

RunLoop(w) ==
  /\ Worker(w, "loop", IF isKilled THEN "leave"
                       ELSE IF task[w] = NoTask THEN "pop" ELSE "call")
  /\ UNCHANGED <<flow, semaphore, task, popped, hasTask, wstate, asked, done>>

(* pop_task() up to the semaphore *)
PopBegin(w) ==
  /\ MutexFree
  /\ Worker(w, "pop", "wait")
  /\ busy' = busy - 1
  /\ UNCHANGED <<state, poolSize, workers, tasks, semaphore>>
  /\ UNCHANGED <<task, popped, hasTask, wstate, asked, done>>

PopWait(w) ==
  /\ semaphore > 0
  /\ Worker(w, "wait", "woken")
  /\ semaphore' = semaphore - 1
  /\ UNCHANGED <<flow, task, popped, hasTask, wstate, asked, done>>

(* the rest of pop_task(), whose result may be an empty task_t *)
MayPopUnlessClosing == tasks # <<>> /\ state \in {"RUNNING", "STOPPING"}
MayPop == tasks # <<>> /\ state \in {"RUNNING", "STOPPING", "CLOSING"}

PopEndKeeping(w) ==
  /\ MutexFree
  /\ Worker(w, "woken", "assign")
  /\ popped' = [popped EXCEPT ![w] = IF MayPop THEN Head(tasks) ELSE NoTask]
  /\ busy' = IF MayPop THEN busy + 1 ELSE busy
  /\ UNCHANGED <<state, poolSize, workers, tasks, semaphore>>
  /\ UNCHANGED <<task, hasTask, wstate, asked, done>>

PopEnd(w) ==
  /\ MutexFree
  /\ Worker(w, "woken", "assign")
  /\ \/ /\ MayPop
        /\ popped' = [popped EXCEPT ![w] = Head(tasks)]
        /\ tasks' = Tail(tasks)
        /\ busy' = busy + 1
     \/ /\ ~ MayPop
        /\ UNCHANGED <<popped, tasks, busy>>
  /\ UNCHANGED <<state, poolSize, workers, semaphore>>
  /\ UNCHANGED <<task, hasTask, wstate, asked, done>>

RunAssign(w) ==
  /\ \/ /\ popped[w] # NoTask
        /\ Worker(w, "assign", "call")
        /\ task' = [task EXCEPT ![w] = popped[w]]
        /\ hasTask' = [hasTask EXCEPT ![w] = TRUE]
        /\ popped' = [popped EXCEPT ![w] = NoTask]
     \/ /\ popped[w] = NoTask
        /\ Worker(w, "assign", "leave")
        /\ UNCHANGED <<task, hasTask, popped>>
  /\ UNCHANGED <<flow, semaphore, wstate, asked, done>>

(* The call of the task returns; a request to stop is used up by it. *)
CallReturns(w) ==
  /\ task[w] \in Permanent => task[w] \in asked
  /\ Worker(w, "call", "after")
  /\ asked' = asked \ {task[w]}
  /\ UNCHANGED <<flow, semaphore, task, popped, hasTask, wstate, done>>

Retire(w) ==
  /\ task' = [task EXCEPT ![w] = NoTask]
  /\ hasTask' = [hasTask EXCEPT ![w] = FALSE]
  /\ done' = done \cup {task[w]}

(* The rest of the loop body: keep or drop the task, go on or leave. *)
RunAfter(w) ==
  /\ Worker(w, "after", IF wstate[w] = "RUNNING" THEN "loop" ELSE "leave")
  /\ \/ Retire(w)
     \/ /\ wstate[w] # "ABORTING"
        /\ task[w] \in Restartable
        /\ UNCHANGED <<task, hasTask, done>>
  /\ UNCHANGED <<flow, semaphore, popped, wstate, asked>>

RunLeave(w) ==
  /\ Worker(w, "leave", "exited")
  /\ UNCHANGED <<flow, semaphore, task, popped, hasTask, wstate, asked, done>>

-----------------------------------------------------------------------------
(* start() *)

(* Workers are made for the tasks that wait, then all of them are spawned.  *)
(* Only the ones just made are counted as busy.                             *)
StartedWorkers ==
  LET wanted == IF poolSize < Len(tasks) THEN poolSize ELSE Len(tasks)
  IN  IF workers < wanted THEN wanted ELSE workers

Restart ==
  /\ MutexFree
  /\ StartedWorkers <= MaxWorkers
  /\ state' = "RUNNING"
  /\ workers' = StartedWorkers
  /\ busy' = busy + (StartedWorkers - workers)
  /\ pc' = [w \in Workers |-> IF w <= StartedWorkers THEN "start" ELSE pc[w]]
  /\ wstate' = [w \in Workers |-> IF w <= StartedWorkers THEN "RUNNING" ELSE wstate[w]]
  /\ UNCHANGED <<poolSize, tasks, semaphore, task, popped, hasTask>>
  /\ UNCHANGED <<cpc, mode, next, windups, cancel, outside, history>>

Start ==
  /\ cpc = "idle"
  /\ state \in {"STOPPED", "CLOSED"}
  /\ ~ destroying
  /\ Restart
  /\ UNCHANGED destroying

-----------------------------------------------------------------------------
(* schedule_windup() and join() *)

StateOf(m) ==
  CASE m = "ABORT"     -> "ABORTING"
    [] m = "INTERRUPT" -> "INTERRUPTING"
    [] m = "SUSPEND"   -> "STOPPING"
    [] m = "CLOSE"     -> "CLOSING"

Controller(from, to) ==
  /\ cpc = from
  /\ cpc' = to
  /\ UNCHANGED <<poolSize, busy, workers, cancel, isKilled, muted, destroying, submitted, done>>

ScheduleWindup(m) ==
  /\ MutexFree
  /\ state = "RUNNING"
  /\ Controller("idle", "signal")
  /\ state' = StateOf(m)
  /\ mode' = m
  /\ next' = 1
  /\ windups' = windups + 1
  /\ UNCHANGED <<tasks, semaphore, threads, asked, dropped>>

Windup(m) ==
  /\ ~ destroying
  /\ windups < MaxWindups
  /\ ScheduleWindup(m)

(* One signal for each worker, without _mutex. *)
SignalWorker ==
  /\ Controller("signal", "signal")
  /\ next <= workers
  /\ semaphore' = semaphore + 1
  /\ next' = next + 1
  /\ UNCHANGED <<state, tasks, mode, windups, threads, asked, dropped>>

SignalEndEarly ==
  /\ Controller("signal", IF mode \in {"ABORT", "INTERRUPT"} THEN "stop" ELSE "join")
  /\ next >= workers
  /\ next' = 1
  /\ UNCHANGED <<state, tasks, semaphore, mode, windups, threads, asked, dropped>>

SignalEnd ==
  /\ Controller("signal", IF mode \in {"ABORT", "INTERRUPT"} THEN "stop" ELSE "join")
  /\ next > workers
  /\ next' = 1
  /\ UNCHANGED <<state, tasks, semaphore, mode, windups, threads, asked, dropped>>

(* HWorker::async_stop(), without _mutex *)
AsyncStop ==
  /\ Controller("stop", "stop")
  /\ next <= workers
  /\ wstate' = [wstate EXCEPT ![next] = state]
  /\ asked' = asked \cup ({task[next]} \ (muted \cup {NoTask}))
  /\ next' = next + 1
  /\ UNCHANGED <<state, tasks, semaphore, mode, windups, dropped>>
  /\ UNCHANGED <<pc, task, popped, hasTask>>

AsyncStopEnd ==
  /\ Controller("stop", "join")
  /\ next > workers
  /\ next' = 1
  /\ UNCHANGED <<state, tasks, semaphore, mode, windups, threads, asked, dropped>>

FinishWorkerDetached ==
  /\ Controller("join", "join")
  /\ next <= workers
  /\ wstate' = [wstate EXCEPT ![next] = "STOPPED"]
  /\ next' = next + 1
  /\ UNCHANGED <<state, tasks, semaphore, mode, windups, asked, dropped>>
  /\ UNCHANGED <<pc, task, popped, hasTask>>

(* HWorker::finish() returns when the thread of the worker has ended. *)
FinishWorker ==
  /\ Controller("join", "join")
  /\ next <= workers
  /\ pc[next] = "exited"
  /\ pc' = [pc EXCEPT ![next] = "off"]
  /\ wstate' = [wstate EXCEPT ![next] = "STOPPED"]
  /\ next' = next + 1
  /\ UNCHANGED <<state, tasks, semaphore, mode, windups, asked, dropped>>
  /\ UNCHANGED <<task, popped, hasTask>>

JoinEnd ==
  /\ Controller("join", "idle")
  /\ next > workers
  /\ MutexFree
  /\ \/ /\ state = "ABORTING"
        /\ semaphore' = 0
        /\ tasks' = <<>>
        /\ dropped' = dropped \cup Range(tasks)
     \/ /\ state # "ABORTING"
        /\ UNCHANGED <<semaphore, tasks, dropped>>
  /\ state' = IF state \in {"INTERRUPTING", "STOPPING"} THEN "STOPPED" ELSE "CLOSED"
  /\ UNCHANGED <<mode, next, windups, threads, asked>>

-----------------------------------------------------------------------------
(* ~HWorkFlow(): nobody schedules or cancels any more. *)

StartIsRequiredByQueue == state = "STOPPED" /\ tasks # <<>>
StartIsRequired ==
  state = "STOPPED" /\ (tasks # <<>> \/ \E w \in 1 .. workers: hasTask[w])

Destroy ==
  /\ ~ destroying
  /\ cpc = "idle"
  /\ destroying' = TRUE
  /\ \/ /\ StartIsRequired
        /\ Restart
     \/ /\ MutexFree
        /\ ~ StartIsRequired
        /\ UNCHANGED <<flow, semaphore, threads, cpc, mode, next, windups>>
        /\ UNCHANGED <<cancel, outside, history>>

DestroyWindup == destroying /\ ScheduleWindup("CLOSE")

-----------------------------------------------------------------------------
(* cancel_task(): _mutex is held from CancelBegin to CancelEnd. *)

Canceller(from, to) ==
  /\ kpc = from
  /\ kpc' = to
  /\ UNCHANGED <<state, poolSize, busy, workers, threads, control, isKilled, asked>>
  /\ UNCHANGED <<submitted, done>>

CancelBegin(s) ==
  /\ ~ destroying
  /\ Canceller("idle", "scan")
  /\ subject' = s
  /\ knext' = 1
  /\ UNCHANGED <<tasks, semaphore, muted, dropped>>

(* The queue is searched from the front. *)
OfSubject == {i \in 1 .. Len(tasks): tasks[i] \in subject}

CancelErase ==
  /\ Canceller("scan", "wait")
  /\ \E i \in OfSubject:
       /\ \A j \in OfSubject: i <= j
       /\ tasks' = RemoveAt(tasks, i)
       /\ dropped' = dropped \cup {tasks[i]}
  /\ UNCHANGED <<semaphore, subject, knext, muted>>

CancelWait ==
  /\ semaphore > 0
  /\ Canceller("wait", "scan")
  /\ semaphore' = semaphore - 1
  /\ UNCHANGED <<tasks, subject, knext, muted, dropped>>

CancelScanned ==
  /\ Canceller("scan", "workers")
  /\ OfSubject = {}
  /\ UNCHANGED <<tasks, semaphore, subject, knext, muted, dropped>>

(* HWorker::cancel_task(): only the means to stop the task is dropped. *)
CancelWorker ==
  /\ Canceller("workers", "workers")
  /\ knext <= workers
  /\ muted' = muted \cup ({task[knext]} \cap subject)
  /\ knext' = knext + 1
  /\ UNCHANGED <<tasks, semaphore, subject, dropped>>

CancelEnd ==
  /\ Canceller("workers", "idle")
  /\ knext > workers
  /\ UNCHANGED <<tasks, semaphore, subject, knext, muted, dropped>>

-----------------------------------------------------------------------------
(* The program around *)
Kill ==
  /\ Killable
  /\ ~ isKilled
  /\ isKilled' = TRUE
  /\ UNCHANGED <<flow, semaphore, threads, control, cancel, asked, muted, history>>

-----------------------------------------------------------------------------
Schedule ==
  \E t \in Tasks: \/ "LAZY" \in Policies /\ AddTaskLazy(t)
                  \/ "EAGER" \in Policies /\ AddTaskEager(t)

RunWorker(w) ==
  \/ RunStart(w) \/ RunLoop(w) \/ PopBegin(w) \/ PopEnd(w) \/ RunAssign(w)
  \/ CallReturns(w) \/ RunAfter(w) \/ RunLeave(w)

RunController ==
  \/ SignalWorker \/ SignalEnd \/ AsyncStop \/ AsyncStopEnd \/ FinishWorker \/ JoinEnd
  \/ DestroyWindup

RunCanceller == CancelErase \/ CancelWait \/ CancelScanned \/ CancelWorker \/ CancelEnd

Next ==
  \/ Schedule
  \/ \E w \in Workers: RunWorker(w) \/ PopWait(w)
  \/ Start \/ (\E m \in Modes: Windup(m)) \/ Destroy
  \/ RunController
  \/ \E s \in Subjects: CancelBegin(s)
  \/ RunCanceller
  \/ Kill

Spec == Init /\ [][Next]_vars

(* Threads inside the library run.  The semaphore lets some waiter pass, it *)
(* does not say which; calls of the public functions are not owed.          *)
FairSpec ==
  /\ Spec
  /\ \A w \in Workers: WF_vars(RunWorker(w))
  /\ WF_vars(\E w \in Workers: PopWait(w))
  /\ WF_vars(RunController)
  /\ WF_vars(RunCanceller)

-----------------------------------------------------------------------------
TypeOK ==
  /\ state \in States /\ poolSize \in Nat /\ busy \in Int
  /\ workers \in 0 .. MaxWorkers /\ tasks \in Seq(Tasks) /\ semaphore \in Nat
  /\ pc \in [Workers -> Points]
  /\ task \in [Workers -> Tasks \cup {NoTask}]
  /\ popped \in [Workers -> Tasks \cup {NoTask}]
  /\ hasTask \in [Workers -> BOOLEAN]
  /\ wstate \in [Workers -> States]
  /\ cpc \in {"idle", "signal", "stop", "join"}
  /\ mode \in {"ABORT", "INTERRUPT", "SUSPEND", "CLOSE"}
  /\ next \in 0 .. MaxWorkers + 1 /\ destroying \in BOOLEAN /\ windups \in Nat
  /\ kpc \in {"idle", "scan", "wait", "workers"}
  /\ subject \subseteq Tasks /\ knext \in 0 .. MaxWorkers + 1
  /\ isKilled \in BOOLEAN /\ asked \subseteq Tasks /\ muted \subseteq Tasks
  /\ submitted \subseteq Tasks /\ done \subseteq Tasks /\ dropped \subseteq Tasks

(* "When this method return all threads are joined" (hworkflow.hxx:120):    *)
(* outside RUNNING and a wind-up no worker thread is left, so that the      *)
(* assertions on _state in pop_task() never fail and start() may spawn      *)
(* every worker again.                                                      *)
NoWorkerOutlivesWindup ==
  state \in {"STOPPED", "CLOSED"} =>
    \A w \in Workers: pc[w] = "off" /\ wstate[w] = "STOPPED"

(* An accepted task is in exactly one place: once in the queue, in the      *)
(* hands of one worker, finished or dropped.  No task is lost between       *)
(* pop_task() and _task, run by two workers, or run after it was dropped.   *)
Held(w) == {task[w], popped[w]} \ {NoTask}

EveryTaskHasOnePlace ==
  LET Queue == Range(tasks)
      Hands == UNION {Held(w): w \in Workers}
  IN  /\ IsInjective(tasks)
      /\ \A v, w \in Workers: v # w => Held(v) \cap Held(w) = {}
      /\ \A w \in Workers: task[w] = NoTask \/ popped[w] = NoTask
      /\ submitted = Queue \cup Hands \cup done \cup dropped
      /\ Queue \cap (Hands \cup done \cup dropped) = {}
      /\ Hands \cap (done \cup dropped) = {}
      /\ done \cap dropped = {}

(* The semaphore has a unit for every queued task and, in a wind-up, one    *)
(* more for every worker that still has to leave: nobody that must wake up  *)
(* is left waiting.  Units in flight are those of workers past the          *)
(* semaphore but not yet at the queue, and the signals still to be sent.    *)
Woken   == {w \in Workers: pc[w] = "woken"}
Staying == {w \in 1 .. workers: pc[w] \notin {"assign", "leave", "exited", "off"}
                                \/ popped[w] # NoTask}
Unsent  == IF cpc = "signal" THEN workers + 1 - next ELSE 0
Erasing == IF kpc = "wait" THEN 1 ELSE 0

UnitsCoverNeeds ==
  semaphore + Cardinality(Woken) + Unsent >=
    Len(tasks) + Erasing + (IF state \in Winding THEN Cardinality(Staying) ELSE 0)

(* The assertion at the head of schedule_task(), with what it stands for:   *)
(* a worker that waits for the semaphore is not busy.                       *)
Idle == {w \in Workers: pc[w] \in {"wait", "woken"}}
BusyIsBounded == busy + Cardinality(Idle) <= workers

(* What a wind-up counts on: the tasks are all somewhere, there are units   *)
(* enough for everybody who has to wake up, and as many workers as are said *)
(* to be busy.                                                              *)
TasksAreAccountedFor == EveryTaskHasOnePlace /\ UnitsCoverNeeds /\ BusyIsBounded

(* CLOSE: "Finish currently running tasks normally" and the destructor:     *)
(* "All scheduled tasks that not yet started are bound to start and then    *)
(* finish naturally" (hworkflow.hxx:50, 84).                                *)
ClosedIsDrained ==
  state = "CLOSED" /\ mode = "CLOSE" => submitted \subseteq done \cup dropped

(* schedule_windup() and join() go through _workers without _mutex: the     *)
(* list does not change while they do.                                      *)
WorkersAreStable == [][cpc # "idle" => workers' = workers]_vars

(* The destructor restarts a stopped flow when there is work left: when it  *)
(* does not, no queued task and no task that wants a restart is abandoned.  *)
NothingIsAbandoned ==
  destroying /\ state = "STOPPED" =>
    tasks = <<>> /\ \A w \in Workers: Held(w) = {}

(* A call that waits under _mutex stops every other user of the flow:       *)
(* cancel_task() returns.                                                   *)
CancelReturns == kpc # "idle" ~> kpc = "idle"

(* "Finish currently running tasks normally": from any point, an accepted   *)
(* task is finished without any other call, unless ABORT drops it or the    *)
(* flow is stopped first; and if so, then again after start().              *)
TasksFinish ==
  \A t \in Tasks: t \in submitted ~> t \in done \cup dropped \/ state = "STOPPED"

(* windup() returns.  "If you windup with SUSPEND or CLOSE mode and have    *)
(* permanently running task then your program will hang" (hworkflow.hxx:117) *)
(* is the only exception; a task that is restarted for ever is such a task. *)
WindupReturns ==
  cpc # "idle" /\ (Permanent \cup Restartable = {} \/ mode \in {"ABORT", "INTERRUPT"})
    ~> cpc = "idle"
=============================================================================
