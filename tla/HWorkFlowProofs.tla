-------------------------- MODULE HWorkFlowProofs ---------------------------
(***************************************************************************)
(* Proofs about HWorkFlow for any number of tasks, workers, wind-ups and   *)
(* restarts.                                                               *)
(***************************************************************************)
EXTENDS HWorkFlow, FiniteSetTheorems, SequenceTheorems, TLAPS

(* A worker that calls has something to call. *)
CallsATask == \A w \in Workers: pc[w] \in {"call", "after"} => task[w] # NoTask

(* Positions past the end of _workers have no thread and no task. *)
UnusedIsOff ==
  \A w \in Workers: w > workers => pc[w] = "off" /\ wstate[w] = "STOPPED"

(* _state says whether the controller is winding up. *)
WindingIsControlled ==
  /\ state \in Winding <=> cpc # "idle"
  /\ cpc # "idle" => next \in 1 .. workers + 1

(* The part of the list that join() has gone through is finished. *)
JoinedIsOff ==
  cpc = "join" =>
    \A w \in Workers: w < next => pc[w] = "off" /\ wstate[w] = "STOPPED"

ThreadInv ==
  /\ CallsATask
  /\ UnusedIsOff
  /\ WindingIsControlled
  /\ JoinedIsOff
  /\ NoWorkerOutlivesWindup

LEMMA RemoveAtKeepsType ==
  ASSUME NEW s \in Seq(Tasks), NEW i \in 1 .. Len(s)
  PROVE  RemoveAt(s, i) \in Seq(Tasks)
<1>1. SubSeq(s, 1, i - 1) \in Seq(Tasks)
  OBVIOUS
<1>2. SubSeq(s, i + 1, Len(s)) \in Seq(Tasks)
  OBVIOUS
<1> QED
  BY <1>1, <1>2 DEF RemoveAt

LEMMA InitType == Init => TypeOK
<1> SUFFICES ASSUME Init PROVE TypeOK
  OBVIOUS
<1>1. /\ hasTask \in [Workers -> BOOLEAN] /\ destroying \in BOOLEAN
      /\ isKilled \in BOOLEAN
  BY Zenon DEF Init
<1>2. /\ state \in States /\ poolSize \in Nat /\ busy \in Int
      /\ workers \in 0 .. MaxWorkers /\ tasks \in Seq(Tasks) /\ semaphore \in Nat
      /\ pc \in [Workers -> Points] /\ wstate \in [Workers -> States]
  BY SizesAssumption DEF Init, States, Points
<1>3. /\ task \in [Workers -> Tasks \cup {NoTask}]
      /\ popped \in [Workers -> Tasks \cup {NoTask}]
  BY DEF Init
<1>4. /\ cpc \in {"idle", "signal", "stop", "join"}
      /\ mode \in {"ABORT", "INTERRUPT", "SUSPEND", "CLOSE"}
      /\ next \in 0 .. MaxWorkers + 1 /\ windups \in Nat
      /\ kpc \in {"idle", "scan", "wait", "workers"}
      /\ subject \subseteq Tasks /\ knext \in 0 .. MaxWorkers + 1
  BY SizesAssumption DEF Init
<1>5. /\ asked \subseteq Tasks /\ muted \subseteq Tasks /\ submitted \subseteq Tasks
      /\ done \subseteq Tasks /\ dropped \subseteq Tasks
  BY DEF Init
<1> QED
  BY <1>1, <1>2, <1>3, <1>4, <1>5, Zenon DEF TypeOK

(* One step for each action; booleans apart from the rest where they change. *)
LEMMA WorkerType ==
  ASSUME TypeOK, CallsATask, NEW w \in Workers, RunWorker(w) \/ PopWait(w)
  PROVE  TypeOK'
<1> USE DEF TypeOK, Worker, flow, control, cancel
<1>1. CASE RunStart(w)
  BY <1>1 DEF RunStart, Points
<1>2. CASE RunLoop(w)
  BY <1>2 DEF RunLoop, Points
<1>3. CASE PopBegin(w)
  BY <1>3 DEF PopBegin, Points
<1>4. CASE PopWait(w)
  BY <1>4 DEF PopWait, Points
<1>5. CASE PopEnd(w)
  <2>1. tasks # <<>> => Head(tasks) \in Tasks /\ Tail(tasks) \in Seq(Tasks)
    OBVIOUS
  <2>2. popped' \in [Workers -> Tasks \cup {NoTask}]
    BY <1>5, <2>1 DEF PopEnd, MayPop
  <2>4. tasks' \in Seq(Tasks)
    BY <1>5, <2>1 DEF PopEnd, MayPop
  <2>5. busy' \in Int
    BY <1>5 DEF PopEnd
  <2>3. pc' \in [Workers -> Points]
    BY <1>5 DEF PopEnd, Points
  <2> QED
    BY <1>5, <2>2, <2>3, <2>4, <2>5 DEF PopEnd
<1>6. CASE RunAssign(w)
  BY ZenonT(60), <1>6 DEF RunAssign, Points
<1>7. CASE CallReturns(w)
  BY <1>7 DEF CallReturns, Points
<1>8. CASE RunAfter(w)
  BY <1>8 DEF RunAfter, Retire, Points, CallsATask
<1>9. CASE RunLeave(w)
  BY <1>9 DEF RunLeave, Points
<1> QED
  BY <1>1, <1>2, <1>3, <1>4, <1>5, <1>6, <1>7, <1>8, <1>9 DEF RunWorker

LEMMA CallerType ==
  ASSUME TypeOK, Schedule \/ Start \/ Destroy \/ Kill
  PROVE  TypeOK'
<1> USE SizesAssumption DEF TypeOK, flow, threads, control, cancel, outside, history
<1>1. CASE Schedule
  <2> PICK t \in Tasks: AddTaskLazy(t) \/ AddTaskEager(t)
    BY <1>1 DEF Schedule
  <2>1. Submit(t)
    BY DEF AddTaskLazy, AddTaskEager
  <2>2. \/ Enqueue(t) /\ SpawnWorker(NoTask) /\ UNCHANGED poolSize
        \/ Enqueue(t) /\ UNCHANGED <<poolSize, busy, workers, threads>>
        \/ SpawnWorker(t) /\ poolSize' = poolSize + 1 /\ UNCHANGED <<tasks, semaphore>>
    BY DEF AddTaskLazy, AddTaskEager
  <2>3. Enqueue(t) => tasks' \in Seq(Tasks) /\ semaphore' \in Nat
    BY DEF Enqueue
  <2>4. ASSUME NEW x \in Tasks \cup {NoTask}, SpawnWorker(x)
        PROVE  /\ workers' \in 0 .. MaxWorkers /\ busy' \in Int
               /\ pc' \in [Workers -> Points]
               /\ task' \in [Workers -> Tasks \cup {NoTask}]
               /\ wstate' \in [Workers -> States]
               /\ UNCHANGED <<popped, hasTask>>
    BY <2>4 DEF SpawnWorker, Points, States, Workers
  <2> QED
    BY <2>1, <2>2, <2>3, <2>4 DEF Submit
<1>2. ASSUME Restart PROVE TypeOK' \/ destroying' \notin BOOLEAN
  <2>1. StartedWorkers \in 0 .. MaxWorkers
    BY <1>2 DEF Restart, StartedWorkers
  <2>2. /\ pc' \in [Workers -> Points] /\ wstate' \in [Workers -> States]
        /\ state' \in States /\ busy' \in Int
    BY <1>2, <2>1 DEF Restart, Points, States
  <2> QED
    BY <1>2, <2>1, <2>2 DEF Restart
<1>3. CASE Start
  <2>1. destroying' \in BOOLEAN
    BY <1>3, Zenon DEF Start
  <2> QED
    BY <1>2, <1>3, <2>1 DEF Start
<1>4. CASE Destroy
  <2>1. destroying' \in BOOLEAN
    BY <1>4, Zenon DEF Destroy
  <2> QED
    BY <1>2, <1>4, <2>1 DEF Destroy
<1>5. CASE Kill
  <2>1. isKilled' \in BOOLEAN
    BY <1>5, Zenon DEF Kill
  <2> QED
    BY <1>5, <2>1 DEF Kill
<1> QED
  BY <1>1, <1>3, <1>4, <1>5

LEMMA ControllerType ==
  ASSUME TypeOK, WindingIsControlled, RunController \/ \E m \in Modes: Windup(m)
  PROVE  TypeOK'
<1> USE SizesAssumption, ModesAssumption DEF TypeOK, threads, cancel, Controller
<1>1. ASSUME NEW m \in {"ABORT", "INTERRUPT", "SUSPEND", "CLOSE"}, ScheduleWindup(m)
      PROVE  TypeOK'
  <2>1. StateOf(m) \in States
    BY DEF StateOf, States
  <2> QED
    BY <1>1, <2>1 DEF ScheduleWindup
<1> DEFINE Positions == cpc # "idle" => next \in Nat \ {0}
<1>p. Positions
  BY DEF WindingIsControlled
<1>2. CASE SignalWorker
  <2>1. semaphore' \in Nat /\ next' \in 0 .. MaxWorkers + 1
    BY <1>2 DEF SignalWorker
  <2> QED
    BY <1>2, <2>1 DEF SignalWorker
<1>3. CASE SignalEnd
  BY <1>3 DEF SignalEnd
<1>4. CASE AsyncStop
  <2>1. /\ wstate' \in [Workers -> States] /\ asked' \subseteq Tasks
        /\ next' \in 0 .. MaxWorkers + 1
    <3>1. next \in Workers
      BY <1>4, <1>p DEF AsyncStop, Workers
    <3>2. wstate' \in [Workers -> States]
      BY <1>4 DEF AsyncStop
    <3>3. asked' \subseteq Tasks
      BY <1>4, <3>1 DEF AsyncStop
    <3> QED
      BY <1>4, <3>2, <3>3 DEF AsyncStop
  <2> QED
    BY <1>4, <2>1 DEF AsyncStop
<1>5. CASE AsyncStopEnd
  BY <1>5 DEF AsyncStopEnd
<1>6. CASE FinishWorker
  <2>1. /\ wstate' \in [Workers -> States] /\ pc' \in [Workers -> Points]
        /\ next' \in 0 .. MaxWorkers + 1
    <3>1. wstate' \in [Workers -> States] /\ pc' \in [Workers -> Points]
      BY <1>6 DEF FinishWorker, Points, States
    <3> QED
      BY <1>6, <3>1 DEF FinishWorker
  <2> QED
    BY <1>6, <2>1 DEF FinishWorker
<1>7. CASE JoinEnd
  <2>1. Range(tasks) \subseteq Tasks
    BY DEF Range
  <2>2. /\ tasks' \in Seq(Tasks) /\ semaphore' \in Nat /\ dropped' \subseteq Tasks
    <3>1. <<>> \in Seq(Tasks) /\ tasks \in Seq(Tasks)
      OBVIOUS
    <3>2. tasks' = <<>> \/ tasks' = tasks
      BY <1>7 DEF JoinEnd
    <3>3. semaphore' = 0 \/ semaphore' = semaphore
      BY <1>7 DEF JoinEnd
    <3>4. dropped' = dropped \cup Range(tasks) \/ dropped' = dropped
      BY <1>7 DEF JoinEnd
    <3>5. tasks' \in Seq(Tasks)
      BY <3>1, <3>2, Zenon
    <3>6. semaphore' \in Nat
      BY <3>3
    <3>7. dropped' \subseteq Tasks
      BY <2>1, <3>4
    <3> QED
      BY <3>5, <3>6, <3>7
  <2>3. state' \in States
    BY <1>7 DEF JoinEnd, States
  <2> QED
    BY <1>7, <2>2, <2>3 DEF JoinEnd
<1> QED
  BY <1>1, <1>2, <1>3, <1>4, <1>5, <1>6, <1>7
     DEF RunController, DestroyWindup, Windup

LEMMA CancellerType ==
  ASSUME TypeOK, RunCanceller \/ \E s \in Subjects: CancelBegin(s)
  PROVE  TypeOK'
<1> USE SizesAssumption, TasksAssumption DEF TypeOK, threads, control, Canceller
<1>1. ASSUME NEW s \in Subjects, CancelBegin(s) PROVE TypeOK'
  BY <1>1 DEF CancelBegin
<1>2. CASE CancelErase
  <2> PICK i \in OfSubject: /\ tasks' = RemoveAt(tasks, i)
                            /\ dropped' = dropped \cup {tasks[i]}
    BY <1>2 DEF CancelErase
  <2>1. tasks' \in Seq(Tasks) /\ dropped' \subseteq Tasks
    BY RemoveAtKeepsType DEF OfSubject
  <2> QED
    BY <1>2, <2>1 DEF CancelErase
<1>3. CASE CancelWait
  BY <1>3 DEF CancelWait
<1>4. CASE CancelScanned
  BY <1>4 DEF CancelScanned
<1>5. CASE CancelWorker
  BY <1>5 DEF CancelWorker
<1>6. CASE CancelEnd
  BY <1>6 DEF CancelEnd
<1> QED
  BY <1>1, <1>2, <1>3, <1>4, <1>5, <1>6 DEF RunCanceller

LEMMA NextType ==
  ASSUME TypeOK, CallsATask, WindingIsControlled, [Next]_vars
  PROVE  TypeOK'
<1>1. CASE UNCHANGED vars
  BY <1>1 DEF vars, flow, threads, control, cancel, outside, history, TypeOK
<1> QED
  BY <1>1, WorkerType, CallerType, ControllerType, CancellerType
     DEF Next

-----------------------------------------------------------------------------
LEMMA InitThread == Init => ThreadInv
BY DEF Init, ThreadInv, CallsATask, UnusedIsOff, WindingIsControlled, JoinedIsOff,
       NoWorkerOutlivesWindup, Winding, Workers

(* Steps of worker w: the others stay as they are, and w is not "off", so   *)
(* its position is in use and join() has not passed it.                     *)
LEMMA WorkerThread ==
  ASSUME TypeOK, ThreadInv, NEW w \in Workers, RunWorker(w) \/ PopWait(w)
  PROVE  ThreadInv'
<1> USE DEF TypeOK, ThreadInv
<1>1. PICK from \in Points \ {"off"}, to \in Points \ {"off"}: Worker(w, from, to)
  BY DEF RunWorker, RunStart, RunLoop, PopBegin, PopWait, PopEnd, RunAssign,
         CallReturns, RunAfter, RunLeave, Points
<1>2. UNCHANGED <<state, workers, wstate>>
  BY DEF RunWorker, RunStart, RunLoop, PopBegin, PopWait, PopEnd, RunAssign,
         CallReturns, RunAfter, RunLeave, flow
<1>3. /\ UnusedIsOff' /\ WindingIsControlled' /\ JoinedIsOff'
      /\ NoWorkerOutlivesWindup'
  BY <1>1, <1>2 DEF Worker, control, UnusedIsOff, WindingIsControlled, JoinedIsOff,
                    NoWorkerOutlivesWindup
<1>4. CallsATask'
  BY DEF CallsATask, Worker, RunWorker, RunStart, RunLoop, PopBegin, PopWait, PopEnd,
         RunAssign, CallReturns, RunAfter, Retire, RunLeave, flow
<1> QED
  BY <1>3, <1>4

(* Workers are added and spawned only outside a wind-up. *)
LEMMA CallerThread ==
  ASSUME TypeOK, ThreadInv, Schedule \/ Start \/ Destroy \/ Kill
  PROVE  ThreadInv'
<1> USE SizesAssumption DEF TypeOK, ThreadInv
<1>1. CASE Schedule
  <2> PICK t \in Tasks: AddTaskLazy(t) \/ AddTaskEager(t)
    BY <1>1 DEF Schedule
  <2>1. UNCHANGED <<state, cpc, next>>
    BY DEF AddTaskLazy, AddTaskEager, Submit, control
  <2>2. CASE UNCHANGED <<workers, threads>>
    BY <2>1, <2>2 DEF threads, CallsATask, UnusedIsOff, WindingIsControlled, JoinedIsOff,
                      NoWorkerOutlivesWindup
  <2>3. ASSUME NEW x, SpawnWorker(x), state = "RUNNING" PROVE ThreadInv'
    <3>1. cpc = "idle"
      BY <2>3 DEF WindingIsControlled, Winding
    <3>2. CallsATask'
      BY <2>3 DEF SpawnWorker, CallsATask, Workers
    <3>3. UnusedIsOff'
      BY <2>3 DEF SpawnWorker, UnusedIsOff, Workers
    <3> QED
      BY <2>1, <2>3, <3>1, <3>2, <3>3
         DEF WindingIsControlled, JoinedIsOff, NoWorkerOutlivesWindup, Winding
  <2> QED
    BY <2>2, <2>3 DEF AddTaskLazy, AddTaskEager, NeedsWorker
<1>2. ASSUME Restart, cpc = "idle" PROVE ThreadInv'
  <2>1. StartedWorkers \in workers .. MaxWorkers
    BY <1>2 DEF Restart, StartedWorkers
  <2>2. CallsATask'
    BY <1>2 DEF Restart, CallsATask
  <2>3. UnusedIsOff'
    BY <1>2, <2>1 DEF Restart, UnusedIsOff, Workers
  <2> QED
    BY <1>2, <2>2, <2>3
       DEF Restart, WindingIsControlled, JoinedIsOff, NoWorkerOutlivesWindup, Winding
<1>3. CASE Start
  BY <1>2, <1>3 DEF Start
<1>4. CASE Destroy
  <2>1. CASE StartIsRequired
    BY <1>2, <1>4, <2>1 DEF Destroy
  <2>2. CASE ~ StartIsRequired
    BY <1>4, <2>2 DEF Destroy, flow, threads, CallsATask, UnusedIsOff, WindingIsControlled,
                      JoinedIsOff, NoWorkerOutlivesWindup
  <2> QED
    BY <2>1, <2>2
<1>5. CASE Kill
  BY <1>5 DEF Kill, flow, threads, control, CallsATask, UnusedIsOff, WindingIsControlled,
              JoinedIsOff, NoWorkerOutlivesWindup
<1> QED
  BY <1>1, <1>3, <1>4, <1>5

LEMMA ControllerThread ==
  ASSUME TypeOK, ThreadInv, RunController \/ \E m \in Modes: Windup(m)
  PROVE  ThreadInv'
<1> USE SizesAssumption, ModesAssumption DEF TypeOK, ThreadInv, Controller
<1>1. ASSUME NEW m \in {"ABORT", "INTERRUPT", "SUSPEND", "CLOSE"}, ScheduleWindup(m)
      PROVE  ThreadInv'
  <2>1. StateOf(m) \in Winding
    BY DEF StateOf, Winding
  <2>2. /\ CallsATask' /\ UnusedIsOff'
    BY <1>1 DEF ScheduleWindup, threads, CallsATask, UnusedIsOff
  <2> QED
    BY <1>1, <2>1, <2>2 DEF ScheduleWindup, WindingIsControlled, JoinedIsOff,
                            NoWorkerOutlivesWindup, Winding
<1>2. CASE SignalWorker
  BY <1>2 DEF SignalWorker, threads, CallsATask, UnusedIsOff, WindingIsControlled,
              JoinedIsOff, NoWorkerOutlivesWindup, Winding
<1>3. CASE SignalEnd
  BY <1>3 DEF SignalEnd, threads, CallsATask, UnusedIsOff, WindingIsControlled,
              JoinedIsOff, NoWorkerOutlivesWindup, Winding, Workers
<1>4. CASE AsyncStop
  <2>1. state \in Winding
    BY <1>4 DEF AsyncStop, WindingIsControlled
  <2> QED
    BY <1>4, <2>1 DEF AsyncStop, CallsATask, UnusedIsOff, WindingIsControlled,
                      JoinedIsOff, NoWorkerOutlivesWindup, Winding
<1>5. CASE AsyncStopEnd
  BY <1>5 DEF AsyncStopEnd, threads, CallsATask, UnusedIsOff, WindingIsControlled,
              JoinedIsOff, NoWorkerOutlivesWindup, Winding, Workers
<1>6. CASE FinishWorker
  <2>1. CallsATask'
    BY <1>6 DEF FinishWorker, CallsATask
  <2>2. UnusedIsOff'
    BY <1>6 DEF FinishWorker, UnusedIsOff
  <2>3. JoinedIsOff'
    BY <1>6 DEF FinishWorker, JoinedIsOff, WindingIsControlled, Workers
  <2>4. WindingIsControlled' /\ NoWorkerOutlivesWindup'
    BY <1>6 DEF FinishWorker, WindingIsControlled, NoWorkerOutlivesWindup, Winding
  <2> QED
    BY <2>1, <2>2, <2>3, <2>4
<1>7. CASE JoinEnd
  <2>1. \A v \in Workers: pc[v] = "off" /\ wstate[v] = "STOPPED"
    BY <1>7 DEF JoinEnd, JoinedIsOff, UnusedIsOff, Workers
  <2> QED
    BY <1>7, <2>1 DEF JoinEnd, threads, CallsATask, UnusedIsOff, WindingIsControlled,
                      JoinedIsOff, NoWorkerOutlivesWindup, Winding
<1> QED
  BY <1>1, <1>2, <1>3, <1>4, <1>5, <1>6, <1>7
     DEF RunController, DestroyWindup, Windup

LEMMA CancellerThread ==
  ASSUME TypeOK, ThreadInv, RunCanceller \/ \E s \in Subjects: CancelBegin(s)
  PROVE  ThreadInv'
<1>1. UNCHANGED <<state, workers, threads, control>>
  BY DEF RunCanceller, CancelBegin, CancelErase, CancelWait, CancelScanned,
         CancelWorker, CancelEnd, Canceller
<1> QED
  BY <1>1 DEF ThreadInv, threads, control, CallsATask, UnusedIsOff, WindingIsControlled,
              JoinedIsOff, NoWorkerOutlivesWindup

LEMMA NextThread ==
  ASSUME TypeOK, ThreadInv, [Next]_vars
  PROVE  TypeOK' /\ ThreadInv'
<1>1. TypeOK'
  BY NextType DEF ThreadInv
<1>2. CASE UNCHANGED vars
  BY <1>1, <1>2 DEF vars, flow, threads, control, ThreadInv, CallsATask, UnusedIsOff,
                    WindingIsControlled, JoinedIsOff, NoWorkerOutlivesWindup
<1> QED
  BY <1>1, <1>2, WorkerThread, CallerThread, ControllerThread, CancellerThread DEF Next

-----------------------------------------------------------------------------
(* The variables keep their types; in particular the semaphore and the      *)
(* positions in _workers never leave their ranges.                          *)
THEOREM TypeCorrect == Spec => []TypeOK
<1>1. Init => TypeOK /\ ThreadInv
  BY InitType, InitThread
<1>2. TypeOK /\ ThreadInv /\ [Next]_vars => (TypeOK /\ ThreadInv)'
  BY NextThread
<1> QED
  BY <1>1, <1>2, PTL DEF Spec

(* When a wind-up is over, no worker thread is left. *)
THEOREM AllThreadsAreJoined == Spec => []NoWorkerOutlivesWindup
<1>1. Init => TypeOK /\ ThreadInv
  BY InitType, InitThread
<1>2. TypeOK /\ ThreadInv /\ [Next]_vars => (TypeOK /\ ThreadInv)'
  BY NextThread
<1>3. ThreadInv => NoWorkerOutlivesWindup
  BY DEF ThreadInv
<1> QED
  BY <1>1, <1>2, <1>3, PTL DEF Spec

(* schedule_windup() and join() may go through _workers without _mutex. *)
THEOREM ListIsStable == Spec => WorkersAreStable
<1>1. Init => TypeOK /\ ThreadInv
  BY InitType, InitThread
<1>2. TypeOK /\ ThreadInv /\ [Next]_vars => (TypeOK /\ ThreadInv)'
  BY NextThread
<1>3. ThreadInv /\ [Next]_vars => [cpc # "idle" => workers' = workers]_vars
  <2> SUFFICES ASSUME ThreadInv, Next, cpc # "idle" PROVE workers' = workers
    BY DEF vars
  <2>1. state \in Winding
    BY DEF ThreadInv, WindingIsControlled
  <2>2. CASE Schedule
    BY <2>1, <2>2 DEF Schedule, AddTaskLazy, AddTaskEager, NeedsWorker, Winding
  <2>3. CASE \E w \in Workers: RunWorker(w) \/ PopWait(w)
    BY <2>3 DEF RunWorker, RunStart, RunLoop, PopBegin, PopWait, PopEnd, RunAssign,
                CallReturns, RunAfter, RunLeave, flow
  <2>4. CASE Start \/ Destroy \/ Kill
    BY <2>4 DEF Start, Destroy, Kill, flow
  <2>5. CASE RunController \/ \E m \in Modes: Windup(m)
    BY <2>5 DEF RunController, DestroyWindup, Windup, ScheduleWindup, SignalWorker,
                SignalEnd, AsyncStop, AsyncStopEnd, FinishWorker, JoinEnd, Controller
  <2>6. CASE RunCanceller \/ \E s \in Subjects: CancelBegin(s)
    BY <2>6 DEF RunCanceller, CancelBegin, CancelErase, CancelWait, CancelScanned,
                CancelWorker, CancelEnd, Canceller
  <2> QED
    BY <2>2, <2>3, <2>4, <2>5, <2>6 DEF Next
<1> QED
  BY <1>1, <1>2, <1>3, PTL DEF Spec, WorkersAreStable

-----------------------------------------------------------------------------
(* The places of a task.  pop_task() is entered with empty hands, its       *)
(* result is held until it is assigned, and an element that was never made  *)
(* holds nothing.                                                           *)
Hands == UNION {Held(w): w \in Workers}

PopHoldsNone    == \A w \in Workers: pc[w] \in {"pop", "wait", "woken", "assign"} => task[w] = NoTask
OnlyAssignHolds == \A w \in Workers: pc[w] # "assign" => popped[w] = NoTask
UnusedHoldsNone == \A w \in Workers: w > workers => task[w] = NoTask

HandsInv == PopHoldsNone /\ OnlyAssignHolds /\ UnusedHoldsNone

OnePlace ==
  /\ IsInjective(tasks)
  /\ \A v, w \in Workers: v # w => Held(v) \cap Held(w) = {}
  /\ submitted = Range(tasks) \cup Hands \cup done \cup dropped
  /\ Range(tasks) \cap (Hands \cup done \cup dropped) = {}
  /\ Hands \cap (done \cup dropped) = {}
  /\ done \cap dropped = {}

LEMMA OnePlaceIsEnough == HandsInv /\ OnePlace => EveryTaskHasOnePlace
<1> SUFFICES ASSUME HandsInv, OnePlace PROVE EveryTaskHasOnePlace
  OBVIOUS
<1>1. \A w \in Workers: task[w] = NoTask \/ popped[w] = NoTask
  BY DEF HandsInv, PopHoldsNone, OnlyAssignHolds
<1> QED
  BY <1>1 DEF OnePlace, EveryTaskHasOnePlace, Hands

(* What the operations on the queue do to its set of tasks. *)
LEMMA AppendRange ==
  ASSUME NEW s \in Seq(Tasks), NEW t \in Tasks
  PROVE  /\ Range(Append(s, t)) = Range(s) \cup {t}
         /\ IsInjective(s) /\ t \notin Range(s) => IsInjective(Append(s, t))
<1>1. /\ DOMAIN s = 1 .. Len(s) /\ Len(s) \in Nat
      /\ DOMAIN Append(s, t) = 1 .. Len(s) + 1
      /\ Append(s, t)[Len(s) + 1] = t
      /\ \A j \in 1 .. Len(s): Append(s, t)[j] = s[j]
  OBVIOUS
<1>2. Range(Append(s, t)) = Range(s) \cup {t}
  <2>1. t \in Range(Append(s, t))
    BY <1>1 DEF Range
  <2>2. Range(s) \subseteq Range(Append(s, t))
    BY <1>1 DEF Range
  <2>3. Range(Append(s, t)) \subseteq Range(s) \cup {t}
    BY <1>1 DEF Range
  <2> QED
    BY <2>1, <2>2, <2>3
<1>3. ASSUME IsInjective(s), t \notin Range(s) PROVE IsInjective(Append(s, t))
  <2>1. \A x \in 1 .. Len(s): s[x] # t
    BY <1>1, <1>3 DEF Range
  <2>2. \A x, y \in 1 .. Len(s): s[x] = s[y] => x = y
    BY <1>1, <1>3 DEF IsInjective
  <2>3. ASSUME NEW x \in 1 .. Len(s) + 1, NEW y \in 1 .. Len(s) + 1,
               Append(s, t)[x] = Append(s, t)[y]
        PROVE  x = y
    BY <1>1, <2>1, <2>2, <2>3
  <2> QED
    BY <1>1, <2>3 DEF IsInjective
<1> QED
  BY <1>2, <1>3

LEMMA TailRange ==
  ASSUME NEW s \in Seq(Tasks), s # <<>>, IsInjective(s)
  PROVE  /\ Head(s) \in Range(s) /\ Head(s) \in Tasks
         /\ Range(Tail(s)) = Range(s) \ {Head(s)}
         /\ IsInjective(Tail(s))
<1>1. Len(s) \in Nat /\ Len(s) >= 1 /\ DOMAIN s = 1 .. Len(s) /\ Head(s) = s[1]
  OBVIOUS
<1>2. /\ DOMAIN Tail(s) = 1 .. Len(s) - 1
      /\ \A j \in 1 .. Len(s) - 1: Tail(s)[j] = s[j + 1]
  OBVIOUS
<1>3. \A x, y \in 1 .. Len(s): s[x] = s[y] => x = y
  BY <1>1 DEF IsInjective
<1>4. Head(s) \in Range(s) /\ Head(s) \in Tasks
  BY <1>1 DEF Range
<1>5. Range(Tail(s)) \subseteq Range(s) \ {Head(s)}
  BY <1>1, <1>2, <1>3 DEF Range
<1>6. ASSUME NEW j \in 1 .. Len(s), s[j] # Head(s) PROVE s[j] \in Range(Tail(s))
  <2>1. j - 1 \in 1 .. Len(s) - 1 /\ Tail(s)[j - 1] = s[j]
    BY <1>1, <1>2, <1>6
  <2> QED
    BY <1>2, <2>1 DEF Range
<1>7. Range(s) \ {Head(s)} \subseteq Range(Tail(s))
  BY <1>1, <1>6 DEF Range
<1>8. IsInjective(Tail(s))
  BY <1>1, <1>2, <1>3 DEF IsInjective
<1> QED
  BY <1>4, <1>5, <1>7, <1>8

LEMMA RemoveAtRange ==
  ASSUME NEW s \in Seq(Tasks), NEW i \in 1 .. Len(s), IsInjective(s)
  PROVE  /\ Range(RemoveAt(s, i)) = Range(s) \ {s[i]}
         /\ IsInjective(RemoveAt(s, i))
         /\ Len(RemoveAt(s, i)) = Len(s) - 1
<1> DEFINE a == SubSeq(s, 1, i - 1)
           b == SubSeq(s, i + 1, Len(s))
           r == RemoveAt(s, i)
<1>1. /\ a \in Seq(Tasks) /\ Len(a) = i - 1
      /\ \A j \in 1 .. i - 1: a[j] = s[j]
  OBVIOUS
<1>2. /\ b \in Seq(Tasks) /\ Len(b) = Len(s) - i
      /\ \A j \in 1 .. Len(s) - i: b[j] = s[i + 1 + j - 1]
  OBVIOUS
<1>3. r = a \o b
  BY DEF RemoveAt
<1> HIDE DEF a, b, r
<1>4. /\ Len(s) \in Nat /\ DOMAIN s = 1 .. Len(s)
      /\ Len(r) = Len(s) - 1 /\ DOMAIN r = 1 .. Len(s) - 1
      /\ \A j \in 1 .. Len(s) - 1: r[j] = IF j < i THEN a[j] ELSE b[j - (i - 1)]
  <2>1. Len(s) \in Nat /\ DOMAIN s = 1 .. Len(s)
    OBVIOUS
  <2>2. Len(a) + Len(b) = Len(s) - 1
    BY <1>1, <1>2, <2>1
  <2>3. /\ Len(a \o b) = Len(a) + Len(b) /\ a \o b \in Seq(Tasks)
        /\ \A j \in 1 .. Len(a) + Len(b): (a \o b)[j] = IF j <= Len(a) THEN a[j] ELSE b[j - Len(a)]
    <3>1. a \in Seq(Tasks) /\ b \in Seq(Tasks)
      BY <1>1, <1>2
    <3> QED
      BY <3>1, ConcatProperties, Zenon
  <2>4. \A j \in 1 .. Len(s) - 1: j <= Len(a) <=> j < i
    BY <1>1, <2>1
  <2>5. r \in Seq(Tasks) /\ Len(r) = Len(s) - 1
    BY <1>3, <2>2, <2>3, Zenon
  <2>6. DOMAIN r = 1 .. Len(s) - 1
    BY <2>5
  <2>7. ASSUME NEW j \in 1 .. Len(s) - 1 PROVE r[j] = IF j < i THEN a[j] ELSE b[j - (i - 1)]
    <3>1. r[j] = IF j <= Len(a) THEN a[j] ELSE b[j - Len(a)]
      BY <1>3, <2>2, <2>3, <2>7, Zenon
    <3>2. Len(a) = i - 1 /\ (j <= Len(a) <=> j < i)
      BY <1>1, <2>4, <2>7
    <3> QED
      BY <3>1, <3>2, Zenon
  <2> QED
    BY <2>1, <2>5, <2>6, <2>7, Zenon
<1>5. \A j \in 1 .. Len(s) - 1: r[j] = IF j < i THEN s[j] ELSE s[j + 1]
  <2> TAKE j \in 1 .. Len(s) - 1
  <2>1. CASE j < i
    BY <1>1, <1>4, <2>1
  <2>2. CASE j >= i
    <3>1. j - (i - 1) \in 1 .. Len(s) - i /\ i + 1 + (j - (i - 1)) - 1 = j + 1
      BY <1>4, <2>2
    <3>2. b[j - (i - 1)] = s[j + 1]
      BY <1>2, <3>1
    <3>3. ~ (j < i)
      BY <2>2
    <3> QED
      BY <1>4, <3>2, <3>3
  <2> QED
    BY <2>1, <2>2
<1>6. \A x, y \in 1 .. Len(s): s[x] = s[y] => x = y
  BY <1>4 DEF IsInjective
<1>7. IsInjective(r)
  <2> SUFFICES ASSUME NEW x \in 1 .. Len(s) - 1, NEW y \in 1 .. Len(s) - 1, r[x] = r[y]
               PROVE  x = y
    BY <1>4 DEF IsInjective
  <2> QED
    BY <1>4, <1>5, <1>6
<1>8. ASSUME NEW j \in 1 .. Len(s) - 1 PROVE r[j] \in Range(s) \ {s[i]}
  <2>1. CASE j < i
    <3>1. j \in 1 .. Len(s) /\ r[j] = s[j] /\ j # i
      BY <1>4, <1>5, <2>1
    <3> QED
      BY <1>4, <1>6, <3>1 DEF Range
  <2>2. CASE ~ (j < i)
    <3>1. j + 1 \in 1 .. Len(s) /\ r[j] = s[j + 1] /\ j + 1 # i
      BY <1>4, <1>5, <2>2
    <3> QED
      BY <1>4, <1>6, <3>1 DEF Range
  <2> QED
    BY <2>1, <2>2
<1>9. ASSUME NEW j \in 1 .. Len(s), j # i PROVE s[j] \in Range(r)
  <2>1. CASE j < i
    <3>1. j \in 1 .. Len(s) - 1 /\ r[j] = s[j]
      BY <1>4, <1>5, <2>1
    <3> QED
      BY <1>4, <3>1 DEF Range
  <2>2. CASE j > i
    <3>1. j - 1 \in 1 .. Len(s) - 1 /\ r[j - 1] = s[j]
      BY <1>4, <1>5, <2>2
    <3> QED
      BY <1>4, <3>1 DEF Range
  <2> QED
    BY <1>9, <2>1, <2>2
<1>10. Range(r) = Range(s) \ {s[i]}
  <2>1. Range(r) \subseteq Range(s) \ {s[i]}
    BY <1>4, <1>8 DEF Range
  <2>2. Range(s) \ {s[i]} \subseteq Range(r)
    BY <1>4, <1>9 DEF Range
  <2> QED
    BY <2>1, <2>2
<1> QED
  BY <1>4, <1>7, <1>10 DEF r

(* Hands that stay as they are, take a task, and put it down. *)
LEMMA HandsKept ==
  ASSUME \A v \in Workers: Held(v)' = Held(v)
  PROVE  Hands' = Hands
BY DEF Hands

LEMMA HandsTake ==
  ASSUME NEW w \in Workers, NEW t, Held(w) = {}, Held(w)' = {t},
         \A v \in Workers: v # w => Held(v)' = Held(v)
  PROVE  Hands' = Hands \cup {t}
BY DEF Hands

LEMMA HandsPutDown ==
  ASSUME OnePlace, NEW w \in Workers, NEW t, Held(w) = {t}, Held(w)' = {},
         \A v \in Workers: v # w => Held(v)' = Held(v)
  PROVE  Hands' = Hands \ {t} /\ t \in Hands
<1>1. \A v \in Workers: v # w => t \notin Held(v)
  BY DEF OnePlace
<1> QED
  BY <1>1 DEF Hands

(* A step that moves no task. *)
LEMMA QuietStep ==
  ASSUME OnePlace, UNCHANGED <<tasks, submitted, done, dropped>>,
         \A v \in Workers: Held(v)' = Held(v)
  PROVE  OnePlace'
<1>1. Hands' = Hands
  BY HandsKept
<1> QED
  BY <1>1 DEF OnePlace

LEMMA WorkerHands ==
  ASSUME TypeOK, ThreadInv, HandsInv, NEW w \in Workers, RunWorker(w) \/ PopWait(w)
  PROVE  HandsInv'
<1> USE DEF TypeOK, Worker, HandsInv
<1>1. workers' = workers
  BY DEF RunWorker, RunStart, RunLoop, PopBegin, PopWait, PopEnd, RunAssign, CallReturns,
         RunAfter, RunLeave, flow
<1>2. PopHoldsNone'
  BY NoTaskAssumption
     DEF PopHoldsNone, RunWorker, RunStart, RunLoop, PopBegin, PopWait, PopEnd, RunAssign,
         CallReturns, RunAfter, Retire, RunLeave
<1>3. OnlyAssignHolds'
  BY DEF OnlyAssignHolds, RunWorker, RunStart, RunLoop, PopBegin, PopWait, PopEnd, RunAssign,
         CallReturns, RunAfter, RunLeave
<1>4. UnusedHoldsNone'
  <2>1. w <= workers
    <3>1. pc[w] # "off"
      BY DEF RunWorker, RunStart, RunLoop, PopBegin, PopWait, PopEnd, RunAssign, CallReturns,
             RunAfter, RunLeave
    <3> QED
      BY <3>1 DEF ThreadInv, UnusedIsOff, Workers
  <2>2. \A v \in Workers: v # w => task'[v] = task[v]
    BY DEF RunWorker, RunStart, RunLoop, PopBegin, PopWait, PopEnd, RunAssign, CallReturns,
           RunAfter, Retire, RunLeave
  <2> QED
    BY <1>1, <2>1, <2>2 DEF UnusedHoldsNone, Workers
<1> QED
  BY <1>2, <1>3, <1>4

LEMMA WorkerPlace ==
  ASSUME TypeOK, ThreadInv, HandsInv, OnePlace, NEW w \in Workers, RunWorker(w) \/ PopWait(w)
  PROVE  OnePlace'
<1>1. UNCHANGED <<submitted, dropped>>
  BY DEF RunWorker, RunStart, RunLoop, PopBegin, PopWait, PopEnd, RunAssign, CallReturns,
         RunAfter, RunLeave, Worker
<1>2. CASE RunStart(w) \/ RunLoop(w) \/ PopBegin(w) \/ PopWait(w) \/ CallReturns(w)
           \/ RunLeave(w)
  <2>1. UNCHANGED <<tasks, done, task, popped>>
    BY <1>2 DEF RunStart, RunLoop, PopBegin, PopWait, CallReturns, RunLeave, flow
  <2> QED
    BY <1>1, <2>1, QuietStep DEF Held
<1>3. CASE PopEnd(w)
  <2>1. UNCHANGED <<task, done>> /\ pc[w] = "woken"
    BY <1>3 DEF PopEnd, Worker
  <2>2. CASE ~ MayPop
    <3>1. UNCHANGED <<tasks, popped>>
      BY <1>3, <2>2 DEF PopEnd
    <3> QED
      BY <1>1, <2>1, <3>1, QuietStep DEF Held
  <2>3. CASE MayPop
    <3> DEFINE h == Head(tasks)
    <3>1. tasks # <<>> /\ tasks' = Tail(tasks) /\ popped' = [popped EXCEPT ![w] = h]
      BY <1>3, <2>3 DEF PopEnd, MayPop
    <3>2. /\ h \in Range(tasks) /\ h \in Tasks /\ IsInjective(tasks')
          /\ Range(tasks') = Range(tasks) \ {h}
      BY <3>1, TailRange DEF TypeOK, OnePlace
    <3> HIDE DEF h
    <3>3. Held(w) = {} /\ Held(w)' = {h}
      BY <2>1, <3>1, <3>2, NoTaskAssumption
         DEF TypeOK, Held, HandsInv, PopHoldsNone, OnlyAssignHolds
    <3>4. \A v \in Workers: v # w => Held(v)' = Held(v)
      BY <2>1, <3>1 DEF TypeOK, Held
    <3>5. Hands' = Hands \cup {h}
      BY <3>3, <3>4, HandsTake
    <3>6. \A v \in Workers: h \notin Held(v)
      BY <3>2 DEF OnePlace, Hands
    <3>7. \A u, v \in Workers: u # v => Held(u)' \cap Held(v)' = {}
      <4> SUFFICES ASSUME NEW u \in Workers, NEW v \in Workers, u # v
                   PROVE  Held(u)' \cap Held(v)' = {}
        OBVIOUS
      <4>1. CASE u # w /\ v # w
        BY <3>4, <4>1 DEF OnePlace
      <4>2. CASE u = w \/ v = w
        BY <3>3, <3>4, <3>6, <4>2
      <4> QED
        BY <4>1, <4>2
    <3>8. h \in submitted /\ h \notin Hands /\ h \notin done /\ h \notin dropped
      BY <3>2 DEF OnePlace
    <3> QED
      BY <1>1, <2>1, <3>2, <3>5, <3>7, <3>8 DEF OnePlace
  <2> QED
    BY <2>2, <2>3
<1>4. CASE RunAssign(w)
  <2>1. UNCHANGED <<tasks, done>> /\ pc[w] = "assign"
    BY <1>4 DEF RunAssign, flow, Worker
  <2>2. task[w] = NoTask
    BY <2>1 DEF HandsInv, PopHoldsNone
  <2>3. \A v \in Workers: Held(v)' = Held(v)
    BY <1>4, <2>2 DEF RunAssign, Held, TypeOK
  <2> QED
    BY <1>1, <2>1, <2>3, QuietStep
<1>5. CASE RunAfter(w)
  <2>1. UNCHANGED <<tasks, popped>> /\ pc[w] = "after"
    BY <1>5 DEF RunAfter, flow, Worker
  <2>2. CASE UNCHANGED <<task, done>>
    BY <1>1, <2>1, <2>2, QuietStep DEF Held
  <2>3. CASE Retire(w)
    <3> DEFINE t == task[w]
    <3>1. t # NoTask /\ popped[w] = NoTask
      BY <2>1 DEF ThreadInv, CallsATask, HandsInv, OnlyAssignHolds
    <3>2. task' = [task EXCEPT ![w] = NoTask] /\ done' = done \cup {t}
      BY <2>3 DEF Retire
    <3>3. Held(w) = {t} /\ Held(w)' = {}
      BY <2>1, <3>1, <3>2 DEF Held, TypeOK
    <3>4. \A v \in Workers: v # w => Held(v)' = Held(v)
      BY <2>1, <3>2 DEF Held, TypeOK
    <3> HIDE DEF t
    <3>5. Hands' = Hands \ {t} /\ t \in Hands
      BY <3>3, <3>4, HandsPutDown
    <3>6. \A u, v \in Workers: u # v => Held(u)' \cap Held(v)' = {}
      BY <3>3, <3>4 DEF OnePlace
    <3> QED
      BY <1>1, <2>1, <3>2, <3>5, <3>6 DEF OnePlace
  <2> QED
    BY <1>5, <2>2, <2>3 DEF RunAfter
<1> QED
  BY <1>2, <1>3, <1>4, <1>5 DEF RunWorker

LEMMA SchedulePlace ==
  ASSUME TypeOK, ThreadInv, HandsInv, OnePlace, Schedule
  PROVE  HandsInv' /\ OnePlace'
<1> USE SizesAssumption, NoTaskAssumption DEF TypeOK
<1> PICK t \in Tasks: AddTaskLazy(t) \/ AddTaskEager(t)
  BY DEF Schedule
<1>1. /\ t \notin submitted /\ submitted' = submitted \cup {t}
      /\ UNCHANGED <<done, dropped>>
  BY DEF AddTaskLazy, AddTaskEager, Submit
<1>2. t \notin Range(tasks) /\ t \notin Hands /\ t \notin done /\ t \notin dropped
  BY <1>1 DEF OnePlace
<1> PICK w \in Nat: w = workers + 1
  OBVIOUS
<1>3. ASSUME NEW x \in Tasks \cup {NoTask}, SpawnWorker(x)
      PROVE  /\ HandsInv'
             /\ w \in Workers /\ Held(w) = {} /\ Held(w)' = {x} \ {NoTask}
             /\ \A v \in Workers: v # w => Held(v)' = Held(v)
  <2>1. w \in Workers /\ w > workers /\ workers' = workers + 1
    BY <1>3 DEF SpawnWorker, Workers
  <2>2. task[w] = NoTask /\ popped[w] = NoTask /\ popped' = popped
    BY <1>3, <2>1
       DEF SpawnWorker, HandsInv, UnusedHoldsNone, OnlyAssignHolds, ThreadInv, UnusedIsOff
  <2>3. pc' = [pc EXCEPT ![w] = "start"] /\ task' = [task EXCEPT ![w] = x]
    BY <1>3 DEF SpawnWorker
  <2>4. PopHoldsNone' /\ OnlyAssignHolds'
    BY <2>1, <2>2, <2>3 DEF HandsInv, PopHoldsNone, OnlyAssignHolds
  <2>5. UnusedHoldsNone'
    <3>1. \A v \in Workers: v > workers' => v # w /\ v > workers
      BY <2>1 DEF Workers
    <3> QED
      BY <2>1, <2>3, <3>1 DEF HandsInv, UnusedHoldsNone
  <2>6. Held(w) = {} /\ Held(w)' = {x} \ {NoTask}
    BY <2>1, <2>2, <2>3 DEF Held
  <2>7. \A v \in Workers: v # w => Held(v)' = Held(v)
    BY <2>2, <2>3 DEF Held
  <2> QED
    BY <2>1, <2>4, <2>5, <2>6, <2>7 DEF HandsInv
<1>4. Enqueue(t) => /\ Range(tasks') = Range(tasks) \cup {t}
                    /\ IsInjective(tasks')
  BY <1>2, AppendRange DEF Enqueue, OnePlace
<1>5. CASE Enqueue(t) /\ (UNCHANGED <<workers, threads>> \/ SpawnWorker(NoTask))
  <2>1. HandsInv' /\ \A v \in Workers: Held(v)' = Held(v)
    <3>1. CASE UNCHANGED <<workers, threads>>
      BY <1>5, <3>1 DEF threads, Held, HandsInv, PopHoldsNone, OnlyAssignHolds, UnusedHoldsNone
    <3>2. CASE SpawnWorker(NoTask)
      BY <1>3, <3>2
    <3> QED
      BY <1>5, <3>1, <3>2
  <2>2. Hands' = Hands
    BY <2>1, HandsKept
  <2> QED
    BY <1>1, <1>2, <1>4, <1>5, <2>1, <2>2 DEF OnePlace
<1>6. CASE SpawnWorker(t) /\ UNCHANGED tasks
  <2>1. /\ HandsInv' /\ w \in Workers /\ Held(w) = {} /\ Held(w)' = {t}
        /\ \A v \in Workers: v # w => Held(v)' = Held(v)
    BY <1>3, <1>6, NoTaskAssumption
  <2>2. Hands' = Hands \cup {t}
    BY <2>1, HandsTake
  <2>3. \A v \in Workers: t \notin Held(v)
    BY <1>2 DEF Hands
  <2>4. \A u, v \in Workers: u # v => Held(u)' \cap Held(v)' = {}
    <3> SUFFICES ASSUME NEW u \in Workers, NEW v \in Workers, u # v
                 PROVE  Held(u)' \cap Held(v)' = {}
      OBVIOUS
    <3>1. CASE u # w /\ v # w
      BY <2>1, <3>1 DEF OnePlace
    <3>2. CASE u = w \/ v = w
      BY <2>1, <2>3, <3>2
    <3> QED
      BY <3>1, <3>2
  <2> QED
    BY <1>1, <1>2, <1>6, <2>1, <2>2, <2>4 DEF OnePlace
<1>7. \/ Enqueue(t) /\ SpawnWorker(NoTask)
      \/ Enqueue(t) /\ UNCHANGED <<workers, threads>>
      \/ SpawnWorker(t) /\ UNCHANGED tasks
  BY DEF AddTaskLazy, AddTaskEager
<1> QED
  BY <1>5, <1>6, <1>7

LEMMA RestartPlace ==
  ASSUME TypeOK, ThreadInv, HandsInv, OnePlace, Restart, cpc = "idle",
         state \in {"STOPPED", "CLOSED"}
  PROVE  HandsInv' /\ OnePlace'
<1> USE SizesAssumption DEF TypeOK
<1>1. UNCHANGED <<tasks, task, popped, submitted, done, dropped>>
  BY DEF Restart, history
<1>2. \A w \in Workers: pc[w] = "off" /\ popped[w] = NoTask
  BY DEF ThreadInv, NoWorkerOutlivesWindup, HandsInv, OnlyAssignHolds
<1>3. StartedWorkers >= workers /\ workers' = StartedWorkers /\ StartedWorkers \in Nat
  BY DEF Restart, StartedWorkers
<1>4. \A w \in Workers: pc'[w] \in {"start", "off"}
  BY <1>2 DEF Restart
<1>5. HandsInv'
  <2>1. PopHoldsNone' /\ OnlyAssignHolds'
    BY <1>1, <1>2, <1>4 DEF PopHoldsNone, OnlyAssignHolds
  <2>2. UnusedHoldsNone'
    BY <1>1, <1>3 DEF HandsInv, UnusedHoldsNone, Workers
  <2> QED
    BY <2>1, <2>2 DEF HandsInv
<1> QED
  BY <1>1, <1>5, QuietStep DEF Held

LEMMA ControllerPlace ==
  ASSUME TypeOK, ThreadInv, HandsInv, OnePlace, RunController \/ \E m \in Modes: Windup(m)
  PROVE  HandsInv' /\ OnePlace'
<1>1. UNCHANGED <<workers, task, popped, submitted, done>>
  BY DEF RunController, SignalWorker, SignalEnd, AsyncStop, AsyncStopEnd, FinishWorker, JoinEnd,
         DestroyWindup, Windup, ScheduleWindup, Controller, threads
<1>2. \A w \in Workers: pc'[w] = pc[w] \/ (pc'[w] = "off" /\ pc[w] = "exited")
  <2>1. CASE FinishWorker
    BY <2>1 DEF FinishWorker, TypeOK
  <2>2. CASE ~ FinishWorker
    <3>1. pc' = pc
      BY <2>2 DEF RunController, SignalWorker, SignalEnd, AsyncStop, AsyncStopEnd, JoinEnd,
                  DestroyWindup, Windup, ScheduleWindup, threads
    <3> QED
      BY <3>1
  <2> QED
    BY <2>1, <2>2
<1>3. HandsInv'
  BY <1>1, <1>2 DEF HandsInv, PopHoldsNone, OnlyAssignHolds, UnusedHoldsNone
<1>4. CASE UNCHANGED <<tasks, dropped>>
  BY <1>1, <1>3, <1>4, QuietStep DEF Held
<1>5. CASE tasks' = <<>> /\ dropped' = dropped \cup Range(tasks)
  <2>1. DOMAIN tasks' = {}
    BY <1>5
  <2>2. IsInjective(tasks') /\ Range(tasks') = {}
    BY <2>1 DEF IsInjective, Range
  <2>3. \A v \in Workers: Held(v)' = Held(v)
    BY <1>1 DEF Held
  <2>4. Hands' = Hands
    BY <2>3, HandsKept
  <2> QED
    BY <1>1, <1>3, <1>5, <2>2, <2>3, <2>4 DEF OnePlace
<1>6. \/ UNCHANGED <<tasks, dropped>>
      \/ tasks' = <<>> /\ dropped' = dropped \cup Range(tasks)
  <2>1. CASE JoinEnd
    BY <2>1 DEF JoinEnd
  <2>2. CASE ~ JoinEnd
    BY <2>2 DEF RunController, SignalWorker, SignalEnd, AsyncStop, AsyncStopEnd, FinishWorker,
                DestroyWindup, Windup, ScheduleWindup
  <2> QED
    BY <2>1, <2>2
<1> QED
  BY <1>4, <1>5, <1>6

LEMMA CancellerPlace ==
  ASSUME TypeOK, HandsInv, OnePlace, RunCanceller \/ \E s \in Subjects: CancelBegin(s)
  PROVE  HandsInv' /\ OnePlace'
<1>1. UNCHANGED <<workers, pc, task, popped, submitted, done>>
  BY DEF RunCanceller, CancelErase, CancelWait, CancelScanned, CancelWorker, CancelEnd,
         CancelBegin, Canceller, threads
<1>2. HandsInv'
  BY <1>1 DEF HandsInv, PopHoldsNone, OnlyAssignHolds, UnusedHoldsNone
<1>3. CASE UNCHANGED <<tasks, dropped>>
  BY <1>1, <1>2, <1>3, QuietStep DEF Held
<1>4. CASE CancelErase
  <2> PICK i \in OfSubject: /\ tasks' = RemoveAt(tasks, i)
                            /\ dropped' = dropped \cup {tasks[i]}
    BY <1>4 DEF CancelErase
  <2>1. i \in 1 .. Len(tasks) /\ tasks \in Seq(Tasks) /\ IsInjective(tasks)
    BY DEF OfSubject, TypeOK, OnePlace
  <2>2. Range(tasks') = Range(tasks) \ {tasks[i]} /\ IsInjective(tasks')
    BY <2>1, RemoveAtRange
  <2>3. tasks[i] \in Range(tasks)
    BY <2>1 DEF Range
  <2>4. \A v \in Workers: Held(v)' = Held(v)
    BY <1>1 DEF Held
  <2>5. Hands' = Hands
    BY <2>4, HandsKept
  <2> QED
    BY <1>1, <1>2, <2>2, <2>3, <2>4, <2>5 DEF OnePlace
<1>5. CancelErase \/ UNCHANGED <<tasks, dropped>>
  BY DEF RunCanceller, CancelWait, CancelScanned, CancelWorker, CancelEnd, CancelBegin
<1> QED
  BY <1>3, <1>4, <1>5

LEMMA NextPlace ==
  ASSUME TypeOK, ThreadInv, HandsInv, OnePlace, [Next]_vars
  PROVE  HandsInv' /\ OnePlace'
<1>1. ASSUME UNCHANGED <<workers, tasks, threads, history>> PROVE HandsInv' /\ OnePlace'
  BY <1>1, QuietStep DEF threads, history, Held, HandsInv, PopHoldsNone, OnlyAssignHolds,
                         UnusedHoldsNone
<1>2. CASE UNCHANGED vars
  BY <1>1, <1>2 DEF vars, flow
<1>3. CASE Start
  BY <1>3, RestartPlace DEF Start
<1>4. CASE Destroy
  <2>1. CASE StartIsRequired
    BY <1>4, <2>1, RestartPlace DEF Destroy, StartIsRequired
  <2>2. CASE ~ StartIsRequired
    BY <1>1, <1>4, <2>2 DEF Destroy, flow
  <2> QED
    BY <2>1, <2>2
<1>5. CASE Kill
  BY <1>1, <1>5 DEF Kill, flow
<1> QED
  BY <1>2, <1>3, <1>4, <1>5, WorkerHands, WorkerPlace, SchedulePlace, ControllerPlace,
     CancellerPlace DEF Next

LEMMA InitPlace == Init => HandsInv /\ OnePlace
<1> SUFFICES ASSUME Init PROVE HandsInv /\ OnePlace
  OBVIOUS
<1>1. HandsInv
  BY DEF Init, HandsInv, PopHoldsNone, OnlyAssignHolds, UnusedHoldsNone
<1>2. \A v \in Workers: Held(v) = {}
  BY DEF Init, Held
<1>3. Hands = {}
  BY <1>2 DEF Hands
<1>4. DOMAIN tasks = {}
  BY DEF Init
<1>5. IsInjective(tasks) /\ Range(tasks) = {}
  BY <1>4 DEF IsInjective, Range
<1> QED
  BY <1>1, <1>2, <1>3, <1>5 DEF Init, OnePlace

-----------------------------------------------------------------------------
(* The counters.  A step of a worker does one of five things to them. *)
LEMMA SetsAreFinite ==
  /\ IsFiniteSet(Idle) /\ Cardinality(Idle) \in Nat
  /\ IsFiniteSet(Woken) /\ Cardinality(Woken) \in Nat
  /\ TypeOK => IsFiniteSet(Staying) /\ Cardinality(Staying) \in Nat
             /\ Cardinality(Staying) <= workers
<1>1. IsFiniteSet(Workers)
  BY SizesAssumption, FS_Interval DEF Workers
<1>2. Idle \subseteq Workers /\ Woken \subseteq Workers
  BY DEF Idle, Woken
<1>3. ASSUME TypeOK
      PROVE  /\ IsFiniteSet(Staying) /\ Cardinality(Staying) \in Nat
             /\ Cardinality(Staying) <= workers
  <2>1. workers \in Nat
    BY <1>3 DEF TypeOK
  <2>2. IsFiniteSet(1 .. workers) /\ Cardinality(1 .. workers) = workers
    <3>1. IsFiniteSet(1 .. workers)
          /\ Cardinality(1 .. workers) = IF 1 > workers THEN 0 ELSE workers - 1 + 1
      BY <2>1, FS_Interval
    <3> QED
      BY <2>1, <3>1
  <2>3. Staying \subseteq 1 .. workers
    BY DEF Staying
  <2> QED
    BY <2>2, <2>3, FS_Subset, FS_CardinalityType
<1> QED
  BY <1>1, <1>2, <1>3, FS_Subset, FS_CardinalityType

LEMMA WorkerIsUsed ==
  ASSUME TypeOK, ThreadInv, NEW w \in Workers, pc[w] # "off"
  PROVE  w \in 1 .. workers
BY DEF TypeOK, ThreadInv, UnusedIsOff, Workers

Uncounted(w) ==
  /\ UNCHANGED <<busy, tasks, semaphore>> /\ Idle' = Idle /\ Woken' = Woken
  /\ \/ Staying' = Staying
     \/ pc'[w] = "leave" /\ pc[w] \in {"loop", "after"} /\ Staying' = Staying \ {w}

BecomesIdle(w) ==
  /\ UNCHANGED <<tasks, semaphore>> /\ busy' = busy - 1
  /\ w \notin Idle /\ Idle' = Idle \cup {w} /\ Woken' = Woken /\ Staying' = Staying

TakesUnit(w) ==
  /\ UNCHANGED <<busy, tasks>> /\ semaphore > 0 /\ semaphore' = semaphore - 1
  /\ Idle' = Idle /\ w \notin Woken /\ Woken' = Woken \cup {w} /\ Staying' = Staying

TakesTask(w) ==
  /\ MayPop /\ busy' = busy + 1 /\ semaphore' = semaphore /\ tasks' = Tail(tasks)
  /\ w \in Idle /\ Idle' = Idle \ {w} /\ w \in Woken /\ Woken' = Woken \ {w}
  /\ Staying' = Staying

FindsNone(w) ==
  /\ ~ MayPop /\ MutexFree /\ UNCHANGED <<busy, tasks, semaphore>>
  /\ w \in Idle /\ Idle' = Idle \ {w} /\ w \in Woken /\ Woken' = Woken \ {w}
  /\ w \in Staying /\ Staying' = Staying \ {w}

LEMMA WorkerCounts ==
  ASSUME TypeOK, ThreadInv, HandsInv, NEW w \in Workers, RunWorker(w) \/ PopWait(w)
  PROVE  Uncounted(w) \/ BecomesIdle(w) \/ TakesUnit(w) \/ TakesTask(w) \/ FindsNone(w)
<1> USE DEF TypeOK, Worker, Idle, Woken, flow
<1>0. w \in 1 .. workers /\ workers' = workers /\ 1 .. workers \subseteq Workers
  <2>1. pc[w] # "off"
    BY DEF RunWorker, RunStart, RunLoop, PopBegin, PopWait, PopEnd, RunAssign, CallReturns,
           RunAfter, RunLeave
  <2>2. workers' = workers
    BY DEF RunWorker, RunStart, RunLoop, PopBegin, PopWait, PopEnd, RunAssign, CallReturns,
           RunAfter, RunLeave
  <2>3. 1 .. workers \subseteq Workers
    BY SizesAssumption DEF Workers
  <2> QED
    BY <2>1, <2>2, <2>3, WorkerIsUsed
<1>1. CASE RunStart(w) \/ CallReturns(w) \/ RunLeave(w)
  <2>1. popped' = popped /\ \A v \in Workers: v # w => pc'[v] = pc[v]
    BY <1>1 DEF RunStart, CallReturns, RunLeave
  <2>2. {pc[w], pc'[w]} \cap {"assign", "leave", "exited", "off"} = {}
        \/ {pc[w], pc'[w]} \subseteq {"assign", "leave", "exited", "off"}
    BY <1>1 DEF RunStart, CallReturns, RunLeave
  <2>3. Staying' = Staying
    BY <1>0, <2>1, <2>2 DEF Staying
  <2> QED
    BY <1>1, <2>3 DEF RunStart, CallReturns, RunLeave, Uncounted
<1>2. CASE RunLoop(w)
  <2>1. CASE isKilled
    <3>1. Staying' = Staying \ {w}
      BY <1>0, <1>2, <2>1 DEF RunLoop, Staying, Workers, HandsInv, OnlyAssignHolds
    <3> QED
      BY <1>2, <2>1, <3>1 DEF RunLoop, Uncounted
  <2>2. CASE ~ isKilled
    <3>1. Staying' = Staying
      BY <1>0, <1>2, <2>2 DEF RunLoop, Staying, Workers
    <3> QED
      BY <1>2, <2>2, <3>1 DEF RunLoop, Uncounted
  <2> QED
    BY <2>1, <2>2
<1>3. CASE RunAfter(w)
  <2>1. CASE wstate[w] # "RUNNING"
    <3>1. Staying' = Staying \ {w}
      BY <1>0, <1>3, <2>1 DEF RunAfter, Staying, Workers, HandsInv, OnlyAssignHolds
    <3> QED
      BY <1>3, <2>1, <3>1 DEF RunAfter, Uncounted
  <2>2. CASE wstate[w] = "RUNNING"
    <3>1. Staying' = Staying
      BY <1>0, <1>3, <2>2 DEF RunAfter, Staying, Workers
    <3> QED
      BY <1>3, <2>2, <3>1 DEF RunAfter, Uncounted
  <2> QED
    BY <2>1, <2>2
<1>4. CASE RunAssign(w)
  <2>1. Staying' = Staying
    <3>1. \A v \in Workers: v # w => pc'[v] = pc[v] /\ popped'[v] = popped[v]
      BY <1>4 DEF RunAssign
    <3>2. popped[w] # NoTask => w \in Staying /\ pc'[w] = "call"
      BY <1>0, <1>4 DEF RunAssign, Staying
    <3>3. popped[w] = NoTask => w \notin Staying /\ pc'[w] = "leave" /\ popped'[w] = NoTask
      BY <1>0, <1>4 DEF RunAssign, Staying
    <3> QED
      BY <1>0, <3>1, <3>2, <3>3 DEF Staying
  <2> QED
    BY <1>4, <2>1 DEF RunAssign, Uncounted
<1>5. CASE PopBegin(w)
  <2>1. Staying' = Staying
    BY <1>0, <1>5 DEF PopBegin, Staying, Workers
  <2> QED
    BY <1>5, <2>1 DEF PopBegin, BecomesIdle
<1>6. CASE PopWait(w)
  <2>1. Staying' = Staying
    BY <1>0, <1>6 DEF PopWait, Staying, Workers
  <2> QED
    BY <1>6, <2>1 DEF PopWait, TakesUnit
<1>7. CASE PopEnd(w)
  <2>0. w \in Staying /\ popped[w] = NoTask
    BY <1>0, <1>7 DEF PopEnd, Staying, HandsInv, OnlyAssignHolds
  <2>1. CASE MayPop
    <3>1. Head(tasks) # NoTask
      BY <2>1, NoTaskAssumption DEF MayPop
    <3>2. popped'[w] # NoTask
      BY <1>7, <2>1, <3>1 DEF PopEnd
    <3>3. \A v \in Workers: v # w => pc'[v] = pc[v] /\ popped'[v] = popped[v]
      BY <1>7 DEF PopEnd
    <3>4. Staying' = Staying
      BY <1>0, <2>0, <3>2, <3>3 DEF Staying
    <3> QED
      BY <1>7, <2>1, <3>4 DEF PopEnd, TakesTask
  <2>2. CASE ~ MayPop
    <3>1. Staying' = Staying \ {w}
      BY <1>0, <1>7, <2>0, <2>2 DEF PopEnd, Staying
    <3> QED
      BY <1>7, <2>0, <2>2, <3>1 DEF PopEnd, FindsNone
  <2> QED
    BY <2>1, <2>2
<1> QED
  BY <1>1, <1>2, <1>3, <1>4, <1>5, <1>6, <1>7 DEF RunWorker

(* The units that workers have to be left with while a wind-up goes on. *)
Leaving == IF state \in Winding THEN Cardinality(Staying) ELSE 0

CountInv == BusyIsBounded /\ UnitsCoverNeeds

LEMMA WorkerCountInv ==
  ASSUME TypeOK, ThreadInv, HandsInv, CountInv, NEW w \in Workers, RunWorker(w) \/ PopWait(w)
  PROVE  CountInv'
<1>1. UNCHANGED <<state, workers, cpc, next, kpc>>
  BY DEF RunWorker, RunStart, RunLoop, PopBegin, PopWait, PopEnd, RunAssign, CallReturns,
         RunAfter, RunLeave, Worker, flow, control, cancel
<1>2. Unsent' = Unsent /\ Erasing' = Erasing /\ Unsent \in Int /\ Erasing \in {0, 1}
  BY <1>1 DEF Unsent, Erasing, TypeOK
<1>3. TypeOK'
  BY WorkerType DEF ThreadInv
<1>4. /\ IsFiniteSet(Idle) /\ IsFiniteSet(Woken) /\ IsFiniteSet(Staying)
      /\ Cardinality(Idle) \in Nat /\ Cardinality(Woken) \in Nat /\ Cardinality(Staying) \in Nat
  BY SetsAreFinite
<1>5. /\ busy \in Int /\ workers \in Nat /\ semaphore \in Nat /\ Len(tasks) \in Nat
      /\ busy' \in Int /\ semaphore' \in Nat
  BY <1>3 DEF TypeOK
<1>6. /\ busy + Cardinality(Idle) <= workers
      /\ semaphore + Cardinality(Woken) + Unsent >= Len(tasks) + Erasing + Leaving
  BY DEF CountInv, BusyIsBounded, UnitsCoverNeeds, Leaving
<1>7. SUFFICES /\ busy' + Cardinality(Idle') <= workers
               /\ semaphore' + Cardinality(Woken') + Unsent >= Len(tasks') + Erasing + Leaving'
  BY <1>1, <1>2 DEF CountInv, BusyIsBounded, UnitsCoverNeeds, Leaving
<1>8. CASE Uncounted(w)
  <2>1. Cardinality(Staying') <= Cardinality(Staying) /\ Cardinality(Staying') \in Nat
    BY <1>4, <1>8, FS_RemoveElement, FS_Subset, FS_CardinalityType DEF Uncounted
  <2>2. Leaving' <= Leaving /\ Leaving' \in Nat /\ Leaving \in Nat
    BY <1>1, <1>4, <2>1 DEF Leaving
  <2>3. UNCHANGED <<busy, tasks, semaphore>> /\ Idle' = Idle /\ Woken' = Woken
    BY <1>8 DEF Uncounted
  <2> QED
    BY <1>2, <1>4, <1>5, <1>6, <2>2, <2>3
<1>9. CASE BecomesIdle(w)
  <2>1. Cardinality(Idle') = Cardinality(Idle) + 1
    BY <1>4, <1>9, FS_AddElement DEF BecomesIdle
  <2>2. Leaving' = Leaving
    BY <1>1, <1>9 DEF BecomesIdle, Leaving
  <2> QED
    BY <1>4, <1>5, <1>6, <1>9, <2>1, <2>2 DEF BecomesIdle
<1>10. CASE TakesUnit(w)
  <2>1. Cardinality(Woken') = Cardinality(Woken) + 1
    BY <1>4, <1>10, FS_AddElement DEF TakesUnit
  <2>2. Leaving' = Leaving /\ Leaving \in Nat
    BY <1>1, <1>4, <1>10 DEF TakesUnit, Leaving
  <2> QED
    BY <1>2, <1>4, <1>5, <1>6, <1>10, <2>1, <2>2 DEF TakesUnit
<1>11. CASE TakesTask(w)
  <2>1. /\ Cardinality(Idle') = Cardinality(Idle) - 1
        /\ Cardinality(Woken') = Cardinality(Woken) - 1
    BY <1>4, <1>11, FS_RemoveElement DEF TakesTask
  <2>2. Leaving' = Leaving /\ Leaving \in Nat
    BY <1>1, <1>4, <1>11 DEF TakesTask, Leaving
  <2>3. Len(tasks') = Len(tasks) - 1
    BY <1>11 DEF TakesTask, MayPop, TypeOK
  <2>4. busy' = busy + 1 /\ semaphore' = semaphore
    BY <1>11 DEF TakesTask
  <2> QED
    BY SMTT(40), <1>2, <1>4, <1>5, <1>6, <2>1, <2>2, <2>3, <2>4
<1>12. CASE FindsNone(w)
  <2>1. /\ Cardinality(Idle') = Cardinality(Idle) - 1
        /\ Cardinality(Woken') = Cardinality(Woken) - 1
        /\ Cardinality(Staying') = Cardinality(Staying) - 1
    BY <1>4, <1>12, FS_RemoveElement DEF FindsNone
  <2>2. UNCHANGED <<busy, tasks, semaphore>>
    BY <1>12 DEF FindsNone
  <2>3. CASE state \in Winding
    <3>1. Leaving' = Leaving - 1 /\ Leaving \in Nat
      BY <1>1, <1>4, <2>1, <2>3 DEF Leaving
    <3> QED
      BY SMTT(40), <1>2, <1>4, <1>5, <1>6, <2>1, <2>2, <3>1
  <2>4. CASE state \notin Winding
    <3>1. pc[w] # "off"
      BY <1>12 DEF FindsNone, Idle
    <3>2. state = "RUNNING"
      BY <2>4, <3>1 DEF ThreadInv, NoWorkerOutlivesWindup, TypeOK, States, Winding
    <3>3. Len(tasks) = 0 /\ Erasing = 0
      BY <1>12, <3>2 DEF FindsNone, MayPop, MutexFree, Erasing
    <3>4. Unsent = 0
      BY <2>4 DEF Unsent, ThreadInv, WindingIsControlled
    <3>5. Leaving' = 0
      BY <1>1, <2>4 DEF Leaving
    <3>6. Cardinality(Woken') \in Nat
      BY <1>4, <1>12, FS_RemoveElement, FS_CardinalityType DEF FindsNone
    <3>7. Len(tasks') = 0
      BY <2>2, <3>3
    <3> QED
      BY <1>4, <1>5, <1>6, <2>1, <2>2, <3>3, <3>4, <3>5, <3>6, <3>7
  <2> QED
    BY <2>3, <2>4
<1> QED
  BY <1>8, <1>9, <1>10, <1>11, <1>12, WorkerCounts

LEMMA ScheduleCountInv ==
  ASSUME TypeOK, ThreadInv, CountInv, Schedule
  PROVE  CountInv'
<1> USE SizesAssumption DEF TypeOK
<1> PICK t \in Tasks: AddTaskLazy(t) \/ AddTaskEager(t)
  BY DEF Schedule
<1>1. UNCHANGED <<state, cpc, next, kpc>>
  BY DEF AddTaskLazy, AddTaskEager, Submit, control, cancel
<1>2. ASSUME NEW x, SpawnWorker(x), state = "RUNNING"
      PROVE  /\ Idle' = Idle /\ Woken' = Woken /\ busy' = busy + 1 /\ workers' = workers + 1
             /\ Unsent' = Unsent /\ Leaving' = Leaving
  <2>1. PICK w \in Workers: w = workers + 1
    BY <1>2 DEF SpawnWorker, Workers
  <2>2. pc[w] = "off" /\ pc' = [pc EXCEPT ![w] = "start"]
    BY <1>2, <2>1 DEF SpawnWorker, ThreadInv, UnusedIsOff
  <2>3. Idle' = Idle /\ Woken' = Woken
    BY <2>2 DEF Idle, Woken
  <2>4. state \notin Winding /\ cpc = "idle"
    BY <1>2 DEF ThreadInv, WindingIsControlled, Winding
  <2> QED
    BY <1>1, <1>2, <2>3, <2>4 DEF SpawnWorker, Unsent, Leaving
<1>3. Enqueue(t) => semaphore' = semaphore + 1 /\ Len(tasks') = Len(tasks) + 1
  BY DEF Enqueue
<1>4. UNCHANGED <<busy, workers, threads>> =>
        /\ Idle' = Idle /\ Woken' = Woken /\ Unsent' = Unsent /\ Leaving' = Leaving
  BY <1>1 DEF threads, Idle, Woken, Unsent, Leaving, Staying
<1>5. /\ Cardinality(Idle) \in Nat /\ Cardinality(Woken) \in Nat /\ Cardinality(Staying) \in Nat
  BY SetsAreFinite
<1>6. Unsent \in Int /\ Leaving \in Nat /\ Erasing \in Nat /\ Erasing' = Erasing
  BY <1>1, <1>5 DEF Unsent, Leaving, Erasing
<1>7. /\ busy + Cardinality(Idle) <= workers
      /\ semaphore + Cardinality(Woken) + Unsent >= Len(tasks) + Erasing + Leaving
  BY DEF CountInv, BusyIsBounded, UnitsCoverNeeds, Leaving
<1>8. SUFFICES /\ busy' + Cardinality(Idle') <= workers'
               /\ semaphore' + Cardinality(Woken') + Unsent' >= Len(tasks') + Erasing' + Leaving'
  BY DEF CountInv, BusyIsBounded, UnitsCoverNeeds, Leaving
<1>9. /\ Idle' = Idle /\ Woken' = Woken /\ Unsent' = Unsent /\ Leaving' = Leaving
      /\ \/ busy' = busy + 1 /\ workers' = workers + 1
         \/ busy' = busy /\ workers' = workers
      /\ \/ semaphore' = semaphore + 1 /\ Len(tasks') = Len(tasks) + 1
         \/ semaphore' = semaphore /\ tasks' = tasks
  <2>1. CASE AddTaskLazy(t)
    BY <1>2, <1>3, <1>4, <2>1 DEF AddTaskLazy, NeedsWorker
  <2>2. CASE AddTaskEager(t)
    BY <1>2, <1>3, <1>4, <2>2 DEF AddTaskEager
  <2> QED
    BY <2>1, <2>2
<1>10. busy \in Int /\ workers \in Nat /\ semaphore \in Nat /\ Len(tasks) \in Nat
  OBVIOUS
<1>11. busy' + Cardinality(Idle') <= workers'
  <2>1. Cardinality(Idle') = Cardinality(Idle)
    BY <1>9
  <2> QED
    BY <1>5, <1>7, <1>9, <1>10, <2>1
<1>12. semaphore' + Cardinality(Woken') + Unsent' >= Len(tasks') + Erasing' + Leaving'
  <2>1. /\ Cardinality(Woken') = Cardinality(Woken) /\ Unsent' = Unsent /\ Leaving' = Leaving
        /\ Erasing' = Erasing
    BY <1>6, <1>9
  <2>2. CASE semaphore' = semaphore + 1 /\ Len(tasks') = Len(tasks) + 1
    BY SMTT(40), <1>5, <1>6, <1>7, <1>10, <2>1, <2>2
  <2>3. CASE semaphore' = semaphore /\ tasks' = tasks
    BY <1>7, <2>1, <2>3
  <2> QED
    BY <1>9, <2>2, <2>3
<1> QED
  BY <1>11, <1>12

LEMMA RestartCountInv ==
  ASSUME TypeOK, ThreadInv, CountInv, Restart, cpc = "idle", state \in {"STOPPED", "CLOSED"}
  PROVE  CountInv'
<1> USE SizesAssumption DEF TypeOK
<1>1. \A w \in Workers: pc[w] = "off" /\ pc'[w] \in {"start", "off"}
  BY DEF ThreadInv, NoWorkerOutlivesWindup, Restart
<1>2. Idle = {} /\ Woken = {} /\ Idle' = {} /\ Woken' = {}
  BY <1>1 DEF Idle, Woken
<1>3. UNCHANGED <<tasks, semaphore, cpc, kpc>> /\ state' = "RUNNING"
  BY DEF Restart, cancel
<1>4. Unsent = 0 /\ Unsent' = 0 /\ Leaving = 0 /\ Leaving' = 0 /\ Erasing' = Erasing
  BY <1>3 DEF Unsent, Leaving, Winding, Erasing
<1>5. Cardinality({}) = 0
  BY FS_EmptySet
<1>6. /\ busy <= workers /\ busy \in Int /\ workers \in Int
      /\ semaphore >= Len(tasks) + Erasing
  <2>1. semaphore \in Nat /\ Len(tasks) \in Nat /\ busy \in Int /\ workers \in Int
        /\ Erasing \in Nat
    BY DEF Erasing
  <2>2. /\ busy + 0 <= workers
        /\ semaphore + 0 + 0 >= Len(tasks) + Erasing + 0
    BY <1>2, <1>4, <1>5 DEF CountInv, BusyIsBounded, UnitsCoverNeeds, Leaving
  <2> QED
    BY <2>1, <2>2
<1>7. BusyIsBounded'
  <2>1. StartedWorkers \in Int
    BY DEF StartedWorkers
  <2>2. busy' = busy + (StartedWorkers - workers) /\ workers' = StartedWorkers
    BY DEF Restart
  <2>3. busy' + 0 <= workers'
    BY <1>6, <2>1, <2>2
  <2> QED
    BY <1>2, <1>5, <2>3 DEF BusyIsBounded
<1>8. UnitsCoverNeeds'
  <2>1. semaphore \in Nat /\ Len(tasks) \in Nat /\ Erasing \in Nat
    BY DEF Erasing
  <2>2. semaphore + 0 + 0 >= Len(tasks) + Erasing + 0
    BY <1>6, <2>1
  <2> QED
    BY <1>2, <1>3, <1>4, <1>5, <2>2 DEF UnitsCoverNeeds, Leaving
<1> QED
  BY <1>7, <1>8 DEF CountInv

LEMMA ControllerCountInv ==
  ASSUME TypeOK, ThreadInv, HandsInv, CountInv, RunController \/ \E m \in Modes: Windup(m)
  PROVE  CountInv'
<1> USE SizesAssumption, ModesAssumption DEF TypeOK
<1>1. UNCHANGED <<busy, workers, kpc>>
  BY DEF RunController, SignalWorker, SignalEnd, AsyncStop, AsyncStopEnd, FinishWorker, JoinEnd,
         DestroyWindup, Windup, ScheduleWindup, Controller, cancel
<1>2. /\ Idle' = Idle /\ Woken' = Woken /\ Staying' = Staying
  <2>1. popped' = popped
    BY DEF RunController, SignalWorker, SignalEnd, AsyncStop, AsyncStopEnd, FinishWorker, JoinEnd,
           DestroyWindup, Windup, ScheduleWindup, threads
  <2>2. CASE FinishWorker
    <3>1. \A v \in Workers: pc'[v] = pc[v] \/ (pc'[v] = "off" /\ pc[v] = "exited")
      BY <2>2 DEF FinishWorker
    <3>2. 1 .. workers \subseteq Workers
      BY DEF Workers
    <3> QED
      BY <1>1, <2>1, <3>1, <3>2 DEF Idle, Woken, Staying
  <2>3. CASE ~ FinishWorker
    <3>1. pc' = pc
      BY <2>3 DEF RunController, SignalWorker, SignalEnd, AsyncStop, AsyncStopEnd, JoinEnd,
                  DestroyWindup, Windup, ScheduleWindup, threads
    <3> QED
      BY <1>1, <2>1, <3>1 DEF Idle, Woken, Staying
  <2> QED
    BY <2>2, <2>3
<1>3. BusyIsBounded'
  BY <1>1, <1>2 DEF CountInv, BusyIsBounded
<1>4. /\ Cardinality(Woken) \in Nat /\ Cardinality(Staying) \in Nat
      /\ Cardinality(Staying) <= workers
  BY SetsAreFinite
<1>5. Erasing' = Erasing /\ Erasing \in Nat /\ Unsent \in Int /\ Leaving \in Nat
  BY <1>1, <1>4 DEF Erasing, Unsent, Leaving
<1>6. semaphore + Cardinality(Woken) + Unsent >= Len(tasks) + Erasing + Leaving
  BY DEF CountInv, UnitsCoverNeeds, Leaving
<1>7. SUFFICES semaphore' + Cardinality(Woken) + Unsent' >= Len(tasks') + Erasing + Leaving'
  BY <1>2, <1>3, <1>5 DEF CountInv, UnitsCoverNeeds, Leaving
<1>8. semaphore \in Nat /\ Len(tasks) \in Nat /\ workers \in Nat
  OBVIOUS
<1>9. ASSUME NEW m \in {"ABORT", "INTERRUPT", "SUSPEND", "CLOSE"}, ScheduleWindup(m)
      PROVE  semaphore' + Cardinality(Woken) + Unsent' >= Len(tasks') + Erasing + Leaving'
  <2>1. state \notin Winding /\ cpc = "idle" /\ UNCHANGED <<tasks, semaphore>>
    BY <1>9 DEF ScheduleWindup, Controller, Winding
  <2>2. Unsent = 0 /\ Leaving = 0
    BY <2>1 DEF Unsent, Leaving
  <2>3. Unsent' = workers
    BY <1>1, <1>9 DEF ScheduleWindup, Controller, Unsent
  <2>4. Leaving' <= workers /\ Leaving' \in Nat
    BY <1>2, <1>4 DEF Leaving
  <2> QED
    BY <1>4, <1>5, <1>6, <1>8, <2>1, <2>2, <2>3, <2>4
<1>10. CASE SignalWorker
  <2>1. /\ semaphore' = semaphore + 1 /\ tasks' = tasks /\ Unsent' = Unsent - 1
        /\ Leaving' = Leaving
    BY <1>1, <1>2, <1>10 DEF SignalWorker, Controller, Unsent, Leaving
  <2> QED
    BY <1>4, <1>5, <1>6, <1>8, <2>1
<1>11. CASE SignalEnd
  <2>1. /\ semaphore' = semaphore /\ tasks' = tasks /\ Leaving' = Leaving
    BY <1>2, <1>11 DEF SignalEnd, Leaving
  <2>2. Unsent = 0 /\ Unsent' = 0
    BY <1>11 DEF SignalEnd, Controller, Unsent, ThreadInv, WindingIsControlled
  <2> QED
    BY <1>6, <2>1, <2>2
<1>12. CASE AsyncStop \/ AsyncStopEnd \/ FinishWorker
  <2>1. /\ semaphore' = semaphore /\ tasks' = tasks /\ Leaving' = Leaving
    BY <1>2, <1>12 DEF AsyncStop, AsyncStopEnd, FinishWorker, Leaving
  <2>2. Unsent = 0 /\ Unsent' = 0
    BY <1>12 DEF AsyncStop, AsyncStopEnd, FinishWorker, Controller, Unsent
  <2> QED
    BY <1>6, <2>1, <2>2
<1>13. CASE JoinEnd
  <2>1. Unsent = 0 /\ Unsent' = 0 /\ Erasing = 0
    BY <1>13 DEF JoinEnd, Controller, Unsent, MutexFree, Erasing
  <2>2. Leaving' = 0
    BY <1>13 DEF JoinEnd, Leaving, Winding
  <2>3. \/ semaphore' = semaphore /\ tasks' = tasks
        \/ semaphore' = 0 /\ tasks' = <<>>
    BY <1>13 DEF JoinEnd
  <2>4. CASE semaphore' = semaphore /\ tasks' = tasks
    BY <1>4, <1>5, <1>6, <1>8, <2>1, <2>2, <2>4
  <2>5. CASE semaphore' = 0 /\ tasks' = <<>>
    <3>1. Len(tasks') = 0
      BY <2>5
    <3> QED
      BY <1>4, <2>1, <2>2, <2>5, <3>1
  <2> QED
    BY <2>3, <2>4, <2>5
<1> QED
  BY <1>9, <1>10, <1>11, <1>12, <1>13 DEF RunController, DestroyWindup, Windup

LEMMA CancellerCountInv ==
  ASSUME TypeOK, OnePlace, CountInv, RunCanceller \/ \E s \in Subjects: CancelBegin(s)
  PROVE  CountInv'
<1>1. UNCHANGED <<state, busy, workers, pc, popped, cpc, next>>
  BY DEF RunCanceller, CancelErase, CancelWait, CancelScanned, CancelWorker, CancelEnd,
         CancelBegin, Canceller, threads, control
<1>2. /\ Idle' = Idle /\ Woken' = Woken /\ Staying' = Staying /\ Unsent' = Unsent
      /\ Leaving' = Leaving
  BY <1>1 DEF Idle, Woken, Staying, Unsent, Leaving
<1>3. Cardinality(Woken) \in Nat /\ Cardinality(Staying) \in Nat
  BY SetsAreFinite
<1>4. Unsent \in Int /\ Leaving \in Nat /\ semaphore \in Nat /\ Len(tasks) \in Nat
  BY <1>3 DEF Unsent, Leaving, TypeOK
<1>5. semaphore + Cardinality(Woken) + Unsent >= Len(tasks) + Erasing + Leaving
  BY DEF CountInv, UnitsCoverNeeds, Leaving
<1>6. SUFFICES semaphore' + Cardinality(Woken) + Unsent >= Len(tasks') + Erasing' + Leaving
  BY <1>1, <1>2 DEF CountInv, BusyIsBounded, UnitsCoverNeeds, Leaving
<1>7. CASE CancelErase
  <2>1. Erasing = 0 /\ Erasing' = 1 /\ semaphore' = semaphore
    BY <1>7 DEF CancelErase, Canceller, Erasing
  <2>2. PICK i \in OfSubject: tasks' = RemoveAt(tasks, i)
    BY <1>7 DEF CancelErase
  <2>3. Len(tasks') = Len(tasks) - 1
    BY <2>2, RemoveAtRange DEF OfSubject, TypeOK, OnePlace
  <2> QED
    BY <1>3, <1>4, <1>5, <2>1, <2>3
<1>8. CASE CancelWait
  <2>1. Erasing = 1 /\ Erasing' = 0 /\ semaphore' = semaphore - 1 /\ tasks' = tasks
    BY <1>8 DEF CancelWait, Canceller, Erasing
  <2> QED
    BY <1>3, <1>4, <1>5, <2>1
<1>9. CASE CancelScanned \/ CancelWorker \/ CancelEnd \/ \E s \in Subjects: CancelBegin(s)
  <2>1. Erasing = 0 /\ Erasing' = 0 /\ UNCHANGED <<tasks, semaphore>>
    BY <1>9 DEF CancelScanned, CancelWorker, CancelEnd, CancelBegin, Canceller, Erasing
  <2> QED
    BY <1>5, <2>1
<1> QED
  BY <1>7, <1>8, <1>9 DEF RunCanceller

(* What all the proofs below rest on. *)
FlowInv == TypeOK /\ ThreadInv /\ HandsInv /\ OnePlace /\ CountInv

LEMMA NextCountInv ==
  ASSUME TypeOK, ThreadInv, HandsInv, OnePlace, CountInv, [Next]_vars
  PROVE  CountInv'
<1>1. ASSUME UNCHANGED <<flow, semaphore, threads, cpc, next, kpc>> PROVE CountInv'
  BY <1>1 DEF flow, threads, CountInv, BusyIsBounded, UnitsCoverNeeds, Idle, Woken, Staying,
              Unsent, Erasing
<1>2. CASE UNCHANGED vars
  BY <1>1, <1>2 DEF vars, control, cancel
<1>3. CASE Start
  BY <1>3, RestartCountInv DEF Start
<1>4. CASE Destroy
  <2>1. CASE StartIsRequired
    BY <1>4, <2>1, RestartCountInv DEF Destroy, StartIsRequired
  <2>2. CASE ~ StartIsRequired
    BY <1>1, <1>4, <2>2 DEF Destroy, cancel
  <2> QED
    BY <2>1, <2>2
<1>5. CASE Kill
  BY <1>1, <1>5 DEF Kill, control, cancel
<1> QED
  BY <1>2, <1>3, <1>4, <1>5, WorkerCountInv, ScheduleCountInv, ControllerCountInv,
     CancellerCountInv DEF Next

LEMMA InitFlow == Init => FlowInv
<1> SUFFICES ASSUME Init PROVE FlowInv
  OBVIOUS
<1>1. Idle = {} /\ Woken = {} /\ Unsent = 0 /\ Erasing = 0 /\ state \notin Winding
  BY DEF Init, Idle, Woken, Unsent, Erasing, Winding
<1>2. CountInv
  BY <1>1, FS_EmptySet DEF Init, CountInv, BusyIsBounded, UnitsCoverNeeds
<1> QED
  BY <1>2, InitType, InitThread, InitPlace DEF FlowInv

LEMMA NextFlow == FlowInv /\ [Next]_vars => FlowInv'
BY NextThread, NextPlace, NextCountInv DEF FlowInv

(* No accepted task is lost, repeated or run after it was dropped; nobody   *)
(* who has to wake up is left without a unit; the assertion at the head of  *)
(* schedule_task() holds: whatever the modes, policies, kills and restarts. *)
THEOREM TasksAccounted == Spec => []TasksAreAccountedFor
<1>1. FlowInv => TasksAreAccountedFor
  BY OnePlaceIsEnough DEF FlowInv, CountInv, TasksAreAccountedFor
<1> QED
  BY InitFlow, NextFlow, <1>1, PTL DEF Spec

-----------------------------------------------------------------------------
(* A calm flow: nobody sets _isKilled_ and no wind-up interrupts.  There    *)
(* the units are exact, and this is what keeps every worker in place until  *)
(* the queue is empty.                                                      *)
Calm == ~ Killable /\ "INTERRUPT" \notin Modes

ModesAreCalm ==
  /\ ~ isKilled /\ mode # "INTERRUPT" /\ state # "INTERRUPTING"
  /\ cpc # "idle" => state = StateOf(mode)
  /\ cpc = "stop" => mode = "ABORT"

StopsAreAborts ==
  \A w \in Workers: pc[w] # "off" /\ wstate[w] # "RUNNING" =>
    wstate[w] = "ABORTING" /\ state = "ABORTING"

LeaversHoldNone == \A w \in Workers: pc[w] \in {"leave", "exited", "off"} => task[w] = NoTask

CalmInv == ModesAreCalm /\ StopsAreAborts /\ LeaversHoldNone

AllStay == state = "RUNNING" => \A w \in 1 .. workers: w \in Staying

LeftIsEmpty ==
  state = "CLOSING" /\ (\E w \in 1 .. workers: w \notin Staying) => tasks = <<>>

QueueHasWorkers ==
  /\ poolSize > 0
  /\ workers = 0 => busy = 0
  /\ state \in {"RUNNING", "CLOSING"} /\ tasks # <<>> => workers > 0

UnitsAreExact ==
  state # "ABORTING" =>
    semaphore + Cardinality(Woken) + Unsent = Len(tasks) + Erasing + Leaving

Drained == state = "CLOSED" /\ mode = "CLOSE" => tasks = <<>>

DrainInv == AllStay /\ LeftIsEmpty /\ QueueHasWorkers /\ UnitsAreExact /\ Drained

LEMMA StateOfMode ==
  /\ StateOf("ABORT") = "ABORTING" /\ StateOf("INTERRUPT") = "INTERRUPTING"
  /\ StateOf("SUSPEND") = "STOPPING" /\ StateOf("CLOSE") = "CLOSING"
BY DEF StateOf

LEMMA CalmWorker ==
  ASSUME TypeOK, ThreadInv, HandsInv, CalmInv, NEW w \in Workers, RunWorker(w) \/ PopWait(w)
  PROVE  CalmInv'
<1> USE DEF TypeOK, Worker, CalmInv
<1>1. UNCHANGED <<state, control, isKilled, wstate>>
  BY DEF RunWorker, RunStart, RunLoop, PopBegin, PopWait, PopEnd, RunAssign, CallReturns,
         RunAfter, RunLeave, flow
<1>2. ModesAreCalm'
  BY <1>1 DEF ModesAreCalm, control, StateOf
<1>3. pc[w] # "off" /\ \A v \in Workers: v # w => pc'[v] = pc[v] /\ task'[v] = task[v]
  BY DEF RunWorker, RunStart, RunLoop, PopBegin, PopWait, PopEnd, RunAssign, CallReturns,
         RunAfter, Retire, RunLeave
<1>4. StopsAreAborts'
  BY <1>1, <1>3 DEF StopsAreAborts
<1>5. pc'[w] \in {"leave", "exited", "off"} => task'[w] = NoTask
  <2>1. CASE RunLoop(w)
    BY <2>1 DEF RunLoop, ModesAreCalm
  <2>2. CASE RunAssign(w)
    BY <2>2 DEF RunAssign, HandsInv, PopHoldsNone
  <2>3. CASE RunAfter(w)
    <3>1. CASE wstate[w] = "RUNNING"
      BY <2>3, <3>1 DEF RunAfter
    <3>2. CASE wstate[w] # "RUNNING"
      <4>1. wstate[w] = "ABORTING"
        BY <1>3, <3>2 DEF StopsAreAborts
      <4> QED
        BY <2>3, <4>1 DEF RunAfter, Retire
    <3> QED
      BY <3>1, <3>2
  <2>4. CASE RunLeave(w)
    BY <2>4 DEF RunLeave, LeaversHoldNone
  <2>5. CASE RunStart(w) \/ PopBegin(w) \/ PopWait(w) \/ PopEnd(w) \/ CallReturns(w)
    BY <2>5 DEF RunStart, PopBegin, PopWait, PopEnd, CallReturns
  <2> QED
    BY <2>1, <2>2, <2>3, <2>4, <2>5 DEF RunWorker
<1>6. LeaversHoldNone'
  BY <1>3, <1>5 DEF LeaversHoldNone
<1> QED
  BY <1>2, <1>4, <1>6

LEMMA CalmSchedule ==
  ASSUME TypeOK, ThreadInv, HandsInv, CalmInv, Schedule
  PROVE  CalmInv'
<1> USE SizesAssumption DEF TypeOK, CalmInv
<1> PICK t \in Tasks: AddTaskLazy(t) \/ AddTaskEager(t)
  BY DEF Schedule
<1>1. UNCHANGED <<state, control, isKilled>>
  BY DEF AddTaskLazy, AddTaskEager, Submit, outside
<1>2. ModesAreCalm'
  BY <1>1 DEF ModesAreCalm, control, StateOf
<1>3. CASE UNCHANGED threads
  BY <1>1, <1>2, <1>3 DEF threads, StopsAreAborts, LeaversHoldNone
<1>4. ASSUME NEW x, SpawnWorker(x) PROVE CalmInv'
  <2>1. PICK w \in Workers: w = workers + 1
    BY <1>4 DEF SpawnWorker, Workers
  <2>2. /\ pc' = [pc EXCEPT ![w] = "start"] /\ task' = [task EXCEPT ![w] = x]
        /\ wstate' = [wstate EXCEPT ![w] = "RUNNING"]
    BY <1>4, <2>1 DEF SpawnWorker
  <2> QED
    BY <1>1, <1>2, <2>2 DEF StopsAreAborts, LeaversHoldNone
<1> QED
  BY <1>3, <1>4 DEF AddTaskLazy, AddTaskEager

LEMMA CalmRestart ==
  ASSUME TypeOK, ThreadInv, CalmInv, Restart, cpc = "idle", state \in {"STOPPED", "CLOSED"}
  PROVE  CalmInv'
<1> USE DEF TypeOK, CalmInv
<1>1. /\ state' = "RUNNING" /\ UNCHANGED <<cpc, mode, isKilled, task>>
  BY DEF Restart, outside
<1>2. ModesAreCalm'
  BY <1>1 DEF ModesAreCalm
<1>3. \A w \in Workers: (pc'[w] = "start" /\ wstate'[w] = "RUNNING")
                        \/ (pc'[w] = "off" /\ pc[w] = "off")
  BY DEF Restart, ThreadInv, NoWorkerOutlivesWindup
<1> QED
  BY <1>1, <1>2, <1>3 DEF StopsAreAborts, LeaversHoldNone

LEMMA CalmController ==
  ASSUME Calm, TypeOK, ThreadInv, CalmInv, RunController \/ \E m \in Modes: Windup(m)
  PROVE  CalmInv'
<1> USE ModesAssumption, StateOfMode DEF TypeOK, CalmInv, Controller
<1>1. isKilled' = isKilled /\ task' = task
  BY DEF RunController, SignalWorker, SignalEnd, AsyncStop, AsyncStopEnd, FinishWorker, JoinEnd,
         DestroyWindup, Windup, ScheduleWindup, threads
<1>2. ASSUME NEW m \in {"ABORT", "SUSPEND", "CLOSE"}, ScheduleWindup(m) PROVE CalmInv'
  <2>1. ModesAreCalm'
    BY <1>1, <1>2 DEF ScheduleWindup, ModesAreCalm
  <2>2. StopsAreAborts'
    BY <1>2 DEF ScheduleWindup, threads, StopsAreAborts
  <2>3. LeaversHoldNone'
    BY <1>2 DEF ScheduleWindup, threads, LeaversHoldNone
  <2> QED
    BY <2>1, <2>2, <2>3
<1>3. CASE SignalWorker \/ SignalEnd \/ AsyncStopEnd
  <2>1. UNCHANGED <<state, mode, threads>>
    BY <1>3 DEF SignalWorker, SignalEnd, AsyncStopEnd
  <2>2. cpc # "idle" /\ (cpc' = "stop" => cpc = "stop" \/ mode \in {"ABORT", "INTERRUPT"})
    BY <1>3 DEF SignalWorker, SignalEnd, AsyncStopEnd
  <2>3. ModesAreCalm'
    BY <1>1, <2>1, <2>2 DEF ModesAreCalm
  <2> QED
    BY <2>1, <2>3 DEF threads, StopsAreAborts, LeaversHoldNone
<1>4. CASE AsyncStop
  <2>1. UNCHANGED <<state, mode, cpc, pc>> /\ cpc = "stop" /\ wstate' = [wstate EXCEPT ![next] = state]
    BY <1>4 DEF AsyncStop
  <2>2. state = "ABORTING"
    BY <2>1 DEF ModesAreCalm
  <2>3. ModesAreCalm'
    BY <1>1, <2>1 DEF ModesAreCalm
  <2> QED
    BY <1>1, <2>1, <2>2, <2>3 DEF StopsAreAborts, LeaversHoldNone
<1>5. CASE FinishWorker
  <2>1. UNCHANGED <<state, mode, cpc>>
    BY <1>5 DEF FinishWorker
  <2>2. ModesAreCalm'
    BY <1>1, <2>1 DEF ModesAreCalm
  <2>3. StopsAreAborts'
    BY <1>5, <2>1 DEF FinishWorker, StopsAreAborts
  <2>4. LeaversHoldNone'
    BY <1>1, <1>5 DEF FinishWorker, LeaversHoldNone
  <2> QED
    BY <2>2, <2>3, <2>4
<1>6. CASE JoinEnd
  <2>1. \A v \in Workers: pc[v] = "off"
    BY <1>6 DEF JoinEnd, ThreadInv, JoinedIsOff, UnusedIsOff, Workers
  <2>2. ModesAreCalm'
    BY <1>1, <1>6 DEF JoinEnd, ModesAreCalm
  <2> QED
    BY <1>1, <1>6, <2>1, <2>2 DEF JoinEnd, threads, StopsAreAborts, LeaversHoldNone
<1> QED
  BY <1>2, <1>3, <1>4, <1>5, <1>6 DEF RunController, DestroyWindup, Windup, Calm

LEMMA NextCalm ==
  ASSUME Calm, FlowInv, CalmInv, [Next]_vars
  PROVE  CalmInv'
<1> USE DEF FlowInv
<1>1. ASSUME UNCHANGED <<state, mode, cpc, isKilled, threads>> PROVE CalmInv'
  BY <1>1 DEF threads, CalmInv, ModesAreCalm, StopsAreAborts, LeaversHoldNone, StateOf
<1>2. CASE UNCHANGED vars
  BY <1>1, <1>2 DEF vars, flow, control, outside
<1>3. CASE Start
  BY <1>3, CalmRestart DEF Start
<1>4. CASE Destroy
  <2>1. CASE StartIsRequired
    BY <1>4, <2>1, CalmRestart DEF Destroy, StartIsRequired
  <2>2. CASE ~ StartIsRequired
    BY <1>1, <1>4, <2>2 DEF Destroy, flow, outside
  <2> QED
    BY <2>1, <2>2
<1>5. CASE Kill
  BY <1>5 DEF Kill, Calm
<1>6. CASE RunCanceller \/ \E s \in Subjects: CancelBegin(s)
  <2>1. UNCHANGED <<state, threads, control, isKilled>>
    BY <1>6 DEF RunCanceller, CancelErase, CancelWait, CancelScanned, CancelWorker, CancelEnd,
                CancelBegin, Canceller
  <2> QED
    BY <1>1, <2>1 DEF control
<1> QED
  BY <1>2, <1>3, <1>4, <1>5, <1>6, CalmWorker, CalmSchedule, CalmController DEF Next

LEMMA InitCalm == Calm /\ Init => CalmInv
BY DEF Calm, Init, CalmInv, ModesAreCalm, StopsAreAborts, LeaversHoldNone

(* In a calm flow a worker leaves for want of a task, or in an ABORT. *)
LEMMA CalmLeaver ==
  ASSUME TypeOK, CalmInv, NEW w \in Workers, RunWorker(w) \/ PopWait(w),
         pc'[w] = "leave", pc[w] \in {"loop", "after"}
  PROVE  state = "ABORTING"
<1>1. CASE RunLoop(w)
  BY <1>1 DEF RunLoop, Worker, CalmInv, ModesAreCalm, TypeOK
<1>2. CASE RunAfter(w)
  BY <1>2 DEF RunAfter, Worker, CalmInv, StopsAreAborts, TypeOK
<1> QED
  BY <1>1, <1>2 DEF RunWorker, RunStart, PopBegin, PopWait, PopEnd, RunAssign, CallReturns,
                    RunLeave, Worker, TypeOK

LEMMA DrainWorker ==
  ASSUME FlowInv, CalmInv, DrainInv, NEW w \in Workers, RunWorker(w) \/ PopWait(w)
  PROVE  DrainInv'
<1> USE DEF FlowInv
<1>1. UNCHANGED <<state, poolSize, workers, mode, cpc, next, kpc>> /\ pc[w] # "off"
  BY DEF RunWorker, RunStart, RunLoop, PopBegin, PopWait, PopEnd, RunAssign, CallReturns,
         RunAfter, RunLeave, Worker, flow, control, cancel
<1>2. w \in 1 .. workers /\ state \notin {"STOPPED", "CLOSED"}
  BY <1>1, WorkerIsUsed DEF ThreadInv, NoWorkerOutlivesWindup
<1>3. Unsent' = Unsent /\ Erasing' = Erasing /\ Unsent \in Int /\ Erasing \in {0, 1}
  BY <1>1 DEF Unsent, Erasing, TypeOK
<1>4. /\ IsFiniteSet(Idle) /\ IsFiniteSet(Woken) /\ IsFiniteSet(Staying)
      /\ Cardinality(Idle) \in Nat /\ Cardinality(Woken) \in Nat /\ Cardinality(Staying) \in Nat
  BY SetsAreFinite
<1>5. semaphore \in Nat /\ Len(tasks) \in Nat /\ tasks \in Seq(Tasks)
  BY DEF TypeOK
<1>6. CASE tasks' = tasks /\ Staying' = Staying
  <2>1. AllStay' /\ LeftIsEmpty' /\ QueueHasWorkers' /\ Drained'
    BY <1>1, <1>2, <1>6
       DEF DrainInv, AllStay, LeftIsEmpty, QueueHasWorkers, Drained, TypeOK
  <2>2. Leaving' = Leaving /\ Leaving \in Nat
    BY <1>1, <1>4, <1>6 DEF Leaving
  <2>3. semaphore' + Cardinality(Woken') = semaphore + Cardinality(Woken)
        => UnitsAreExact'
    <3> SUFFICES ASSUME semaphore' + Cardinality(Woken') = semaphore + Cardinality(Woken)
                 PROVE  UnitsAreExact'
      OBVIOUS
    <3> QED
      BY <1>1, <1>3, <1>6, <2>2 DEF DrainInv, UnitsAreExact
  <2>4. semaphore' + Cardinality(Woken') = semaphore + Cardinality(Woken)
    <3>1. CASE Uncounted(w) \/ BecomesIdle(w)
      BY <3>1 DEF Uncounted, BecomesIdle
    <3>2. CASE TakesUnit(w)
      <4>1. Cardinality(Woken') = Cardinality(Woken) + 1
        BY <1>4, <3>2, FS_AddElement DEF TakesUnit
      <4> QED
        BY <1>4, <1>5, <3>2, <4>1 DEF TakesUnit
    <3>3. CASE TakesTask(w)
      <4>1. Len(Tail(tasks)) = Len(tasks) - 1
        BY <1>5, <3>3 DEF TakesTask, MayPop
      <4>2. Tail(tasks) = tasks
        BY <1>6, <3>3 DEF TakesTask
      <4>3. Len(tasks) = Len(tasks) - 1
        BY <4>1, <4>2
      <4> QED
        BY <1>5, <4>3
    <3>4. CASE FindsNone(w)
      BY <1>6, <3>4 DEF FindsNone
    <3> QED
      BY <3>1, <3>2, <3>3, <3>4, WorkerCounts
  <2> QED
    BY <2>1, <2>3, <2>4 DEF DrainInv
<1>7. CASE state = "ABORTING"
  <2>1. AllStay' /\ LeftIsEmpty' /\ UnitsAreExact' /\ Drained'
    BY <1>1, <1>7 DEF AllStay, LeftIsEmpty, UnitsAreExact, Drained
  <2>2. QueueHasWorkers'
    BY <1>1, <1>2, <1>7 DEF DrainInv, QueueHasWorkers, TypeOK
  <2> QED
    BY <2>1, <2>2 DEF DrainInv
<1>8. CASE TakesTask(w)
  <2>1. tasks # <<>> /\ tasks' = Tail(tasks) /\ Staying' = Staying /\ semaphore' = semaphore
    BY <1>8 DEF TakesTask, MayPop
  <2>2. Len(tasks') = Len(tasks) - 1
    BY <1>5, <2>1
  <2>3. Cardinality(Woken') = Cardinality(Woken) - 1
    BY <1>4, <1>8, FS_RemoveElement DEF TakesTask
  <2>4. Leaving' = Leaving /\ Leaving \in Nat
    BY <1>1, <1>4, <2>1 DEF Leaving
  <2>5. UnitsAreExact'
    <3> SUFFICES ASSUME state # "ABORTING"
                 PROVE  semaphore' + Cardinality(Woken') + Unsent' = Len(tasks') + Erasing' + Leaving'
      BY <1>1 DEF UnitsAreExact
    <3>1. semaphore + Cardinality(Woken) + Unsent = Len(tasks) + Erasing + Leaving
      BY DEF DrainInv, UnitsAreExact
    <3> QED
      BY <1>3, <1>4, <1>5, <2>1, <2>2, <2>3, <2>4, <3>1
  <2>6. AllStay' /\ LeftIsEmpty' /\ QueueHasWorkers' /\ Drained'
    BY <1>1, <1>2, <2>1
       DEF DrainInv, AllStay, LeftIsEmpty, QueueHasWorkers, Drained, TypeOK
  <2> QED
    BY <2>5, <2>6 DEF DrainInv
<1>9. CASE FindsNone(w) /\ state # "ABORTING"
  <2>1. /\ UNCHANGED <<tasks, semaphore>> /\ w \in Woken /\ w \in Staying
        /\ Woken' = Woken \ {w} /\ Staying' = Staying \ {w}
    BY <1>9 DEF FindsNone
  <2>2. tasks = <<>> /\ Erasing = 0
    BY <1>2, <1>9 DEF FindsNone, MayPop, MutexFree, Erasing, CalmInv, ModesAreCalm, TypeOK,
                      States
  <2>3. semaphore + Cardinality(Woken) + Unsent = Len(tasks) + Erasing + Leaving
    BY <1>9 DEF DrainInv, UnitsAreExact
  <2>4. /\ Cardinality(Woken') = Cardinality(Woken) - 1 /\ Cardinality(Woken') \in Nat
        /\ Cardinality(Staying') = Cardinality(Staying) - 1
    BY <1>4, <2>1, FS_RemoveElement, FS_CardinalityType
  <2>5. state # "RUNNING"
    <3> SUFFICES ASSUME state = "RUNNING" PROVE FALSE
      OBVIOUS
    <3>1. Unsent = 0 /\ Leaving = 0
      BY DEF Unsent, Leaving, ThreadInv, WindingIsControlled, Winding
    <3>2. Len(tasks) = 0
      BY <2>2
    <3> QED
      BY <1>4, <1>5, <2>2, <2>3, <2>4, <3>1, <3>2
  <2>6. state \in Winding
    BY <1>2, <2>5 DEF TypeOK, States, Winding
  <2>7. Leaving' = Leaving - 1 /\ Leaving \in Nat
    BY <1>1, <1>4, <2>4, <2>6 DEF Leaving
  <2>8. UnitsAreExact'
    <3>1. semaphore' + Cardinality(Woken') + Unsent' = Len(tasks') + Erasing' + Leaving'
      BY SMTT(40), <1>3, <1>4, <1>5, <2>1, <2>3, <2>4, <2>7
    <3> QED
      BY <3>1 DEF UnitsAreExact
  <2>9. AllStay' /\ LeftIsEmpty' /\ QueueHasWorkers' /\ Drained'
    BY <1>1, <1>2, <2>1, <2>2, <2>5
       DEF DrainInv, AllStay, LeftIsEmpty, QueueHasWorkers, Drained, TypeOK
  <2> QED
    BY <2>8, <2>9 DEF DrainInv
<1>10. CASE Uncounted(w)
  <2>1. CASE Staying' = Staying
    BY <1>6, <1>10, <2>1 DEF Uncounted
  <2>2. CASE Staying' # Staying
    <3>1. state = "ABORTING"
      BY <1>10, <2>2, CalmLeaver DEF Uncounted
    <3> QED
      BY <1>7, <3>1
  <2> QED
    BY <2>1, <2>2
<1>11. CASE BecomesIdle(w) \/ TakesUnit(w)
  BY <1>6, <1>11 DEF BecomesIdle, TakesUnit
<1> QED
  BY <1>7, <1>8, <1>9, <1>10, <1>11, WorkerCounts

LEMMA DrainSchedule ==
  ASSUME FlowInv, CalmInv, DrainInv, Schedule
  PROVE  DrainInv'
<1> USE SizesAssumption DEF FlowInv, TypeOK
<1> PICK t \in Tasks: AddTaskLazy(t) \/ AddTaskEager(t)
  BY DEF Schedule
<1>1. UNCHANGED <<state, mode, cpc, next, kpc>>
  BY DEF AddTaskLazy, AddTaskEager, Submit, control, cancel
<1>2. ASSUME NEW x \in Tasks \cup {NoTask}, SpawnWorker(x), state = "RUNNING"
      PROVE  /\ AllStay' /\ Woken' = Woken /\ Unsent' = Unsent /\ Leaving' = Leaving
             /\ workers' = workers + 1
  <2>1. PICK w \in Workers: w = workers + 1
    BY <1>2 DEF SpawnWorker, Workers
  <2>2. pc[w] = "off" /\ pc' = [pc EXCEPT ![w] = "start"] /\ popped' = popped
    BY <1>2, <2>1 DEF SpawnWorker, ThreadInv, UnusedIsOff
  <2>3. Woken' = Woken
    BY <2>2 DEF Woken
  <2>4. state \notin Winding /\ cpc = "idle"
    BY <1>2 DEF ThreadInv, WindingIsControlled, Winding
  <2>5. workers' = workers + 1
    BY <1>2 DEF SpawnWorker
  <2>6. AllStay'
    <3> SUFFICES ASSUME NEW v \in 1 .. workers + 1 PROVE v \in Staying'
      BY <2>5 DEF AllStay
    <3>1. CASE v = w
      BY <2>1, <2>2, <2>5, <3>1 DEF Staying
    <3>2. CASE v # w
      <4>1. v \in 1 .. workers /\ v \in Workers
        BY <2>1, <3>2 DEF Workers
      <4>2. v \in Staying
        BY <1>2, <4>1 DEF DrainInv, AllStay
      <4>3. pc'[v] = pc[v] /\ popped'[v] = popped[v]
        BY <2>2, <3>2, <4>1
      <4> QED
        BY <2>5, <4>2, <4>3 DEF Staying
    <3> QED
      BY <3>1, <3>2
  <2> QED
    BY <1>1, <2>3, <2>4, <2>5, <2>6 DEF Unsent, Leaving
<1>3. Enqueue(t) => /\ semaphore' = semaphore + 1 /\ Len(tasks') = Len(tasks) + 1
                    /\ tasks' # <<>>
  BY DEF Enqueue
<1>4. ASSUME UNCHANGED <<workers, threads>>
      PROVE  /\ Woken' = Woken /\ Staying' = Staying /\ Unsent' = Unsent /\ Leaving' = Leaving
             /\ AllStay'
  BY <1>1, <1>4 DEF threads, Woken, Unsent, Leaving, Staying, DrainInv, AllStay
<1>5. AllStay' /\ Woken' = Woken /\ Unsent' = Unsent /\ Leaving' = Leaving
  BY <1>2, <1>4 DEF AddTaskLazy, AddTaskEager, NeedsWorker
<1>6. \/ semaphore' = semaphore + 1 /\ Len(tasks') = Len(tasks) + 1
      \/ semaphore' = semaphore /\ tasks' = tasks
  BY <1>3 DEF AddTaskLazy, AddTaskEager
<1>7. UnitsAreExact'
  <2> SUFFICES ASSUME state # "ABORTING"
               PROVE  semaphore' + Cardinality(Woken') + Unsent' = Len(tasks') + Erasing' + Leaving'
    BY <1>1 DEF UnitsAreExact
  <2>1. semaphore + Cardinality(Woken) + Unsent = Len(tasks) + Erasing + Leaving
    BY DEF DrainInv, UnitsAreExact
  <2>2. /\ Cardinality(Woken) \in Nat /\ Cardinality(Staying) \in Nat
    BY SetsAreFinite
  <2>3. /\ Unsent \in Int /\ Leaving \in Nat /\ Erasing \in Nat /\ Erasing' = Erasing
        /\ semaphore \in Nat /\ Len(tasks) \in Nat
    BY <1>1, <2>2 DEF Unsent, Leaving, Erasing
  <2>4. Cardinality(Woken') = Cardinality(Woken) /\ Unsent' = Unsent /\ Leaving' = Leaving
    BY <1>5
  <2>5. CASE semaphore' = semaphore + 1 /\ Len(tasks') = Len(tasks) + 1
    BY <2>1, <2>2, <2>3, <2>4, <2>5
  <2>6. CASE semaphore' = semaphore /\ tasks' = tasks
    BY <2>1, <2>3, <2>4, <2>6
  <2> QED
    BY <1>6, <2>5, <2>6
<1>8. state \notin {"CLOSING", "CLOSED"}
  BY DEF AddTaskLazy, AddTaskEager
<1>9. LeftIsEmpty' /\ Drained'
  BY <1>1, <1>8 DEF LeftIsEmpty, Drained
<1>10. QueueHasWorkers'
  <2>1. poolSize' > 0
    BY DEF AddTaskLazy, AddTaskEager, DrainInv, QueueHasWorkers
  <2>2. CASE \E x \in Tasks \cup {NoTask}: SpawnWorker(x) /\ state = "RUNNING"
    <3>1. workers' > 0
      BY <1>2, <2>2
    <3> QED
      BY <2>1, <3>1 DEF QueueHasWorkers
  <2>3. CASE UNCHANGED <<busy, workers>> /\ (state = "RUNNING" => workers > 0)
    BY <1>1, <1>8, <2>1, <2>3 DEF QueueHasWorkers, DrainInv
  <2>4. state = "RUNNING" /\ ~ (\E x \in Tasks \cup {NoTask}: SpawnWorker(x)) => workers > 0
    <3> SUFFICES ASSUME state = "RUNNING", ~ (\E x \in Tasks \cup {NoTask}: SpawnWorker(x)),
                        workers = 0
                 PROVE  FALSE
      OBVIOUS
    <3>1. busy = 0 /\ poolSize > 0
      BY DEF DrainInv, QueueHasWorkers
    <3>2. AllBusy /\ workers < poolSize
      BY <3>1 DEF AllBusy
    <3> QED
      BY <3>2 DEF AddTaskLazy, AddTaskEager, NeedsWorker
  <2>5. \/ \E x \in Tasks \cup {NoTask}: SpawnWorker(x) /\ state = "RUNNING"
        \/ UNCHANGED <<busy, workers>> /\ ~ (\E x \in Tasks \cup {NoTask}: SpawnWorker(x))
    <3>1. ASSUME UNCHANGED <<busy, workers>>, NEW x, SpawnWorker(x) PROVE FALSE
      BY <3>1 DEF SpawnWorker
    <3> QED
      BY <3>1 DEF AddTaskLazy, AddTaskEager, NeedsWorker
  <2> QED
    BY <2>2, <2>3, <2>4, <2>5
<1> QED
  BY <1>5, <1>7, <1>9, <1>10 DEF DrainInv

LEMMA DrainRestart ==
  ASSUME FlowInv, CalmInv, DrainInv, Restart, cpc = "idle", state \in {"STOPPED", "CLOSED"}
  PROVE  DrainInv'
<1> USE SizesAssumption DEF FlowInv, TypeOK
<1>1. \A w \in Workers: pc[w] = "off" /\ popped[w] = NoTask
  BY DEF ThreadInv, NoWorkerOutlivesWindup, HandsInv, OnlyAssignHolds
<1>2. /\ UNCHANGED <<tasks, semaphore, cpc, kpc, poolSize, popped>> /\ state' = "RUNNING"
      /\ workers' = StartedWorkers
  BY DEF Restart, cancel
<1>3. StartedWorkers \in workers .. MaxWorkers /\ StartedWorkers \in Nat
  BY DEF Restart, StartedWorkers
<1>4. \A w \in 1 .. StartedWorkers: w \in Workers /\ pc'[w] = "start"
  BY <1>3 DEF Restart, Workers
<1>5. AllStay'
  BY <1>2, <1>4 DEF AllStay, Staying
<1>6. LeftIsEmpty' /\ Drained'
  BY <1>2 DEF LeftIsEmpty, Drained
<1>7. Woken = {} /\ Woken' = {}
  <2>1. \A w \in Workers: pc'[w] \in {"start", "off"}
    BY <1>1 DEF Restart
  <2> QED
    BY <1>1, <2>1 DEF Woken
<1>8. Unsent = 0 /\ Unsent' = 0 /\ Leaving = 0 /\ Leaving' = 0 /\ Erasing' = Erasing
  BY <1>2 DEF Unsent, Leaving, Winding, Erasing
<1>9. UnitsAreExact'
  <2>1. semaphore + Cardinality(Woken) + Unsent = Len(tasks) + Erasing + Leaving
    BY DEF DrainInv, UnitsAreExact
  <2>2. semaphore' + Cardinality(Woken') + Unsent' = Len(tasks') + Erasing' + Leaving'
    BY <1>2, <1>7, <1>8, <2>1
  <2> QED
    BY <2>2 DEF UnitsAreExact
<1>10. QueueHasWorkers'
  <2>1. poolSize' > 0
    BY <1>2 DEF DrainInv, QueueHasWorkers
  <2>2. workers' = 0 => busy' = 0
    <3> SUFFICES ASSUME StartedWorkers = 0 PROVE busy' = 0
      BY <1>2
    <3>1. workers = 0
      BY <1>3
    <3>2. busy = 0
      BY <3>1 DEF DrainInv, QueueHasWorkers
    <3>3. busy' = busy + (StartedWorkers - workers)
      BY DEF Restart
    <3> QED
      BY <3>1, <3>2, <3>3
  <2>3. tasks' # <<>> => workers' > 0
    <3> SUFFICES ASSUME tasks # <<>> PROVE StartedWorkers > 0
      BY <1>2
    <3>1. Len(tasks) > 0 /\ poolSize > 0
      BY DEF DrainInv, QueueHasWorkers
    <3> QED
      BY <3>1 DEF StartedWorkers
  <2> QED
    BY <2>1, <2>2, <2>3 DEF QueueHasWorkers
<1> QED
  BY <1>5, <1>6, <1>9, <1>10 DEF DrainInv

(* The controller changes program points of workers that have ended, only. *)
LEMMA ControllerSets ==
  ASSUME TypeOK, RunController \/ \E m \in Modes: Windup(m)
  PROVE  /\ UNCHANGED <<busy, workers, kpc, poolSize, popped>>
         /\ Woken' = Woken /\ Staying' = Staying
<1> USE SizesAssumption DEF TypeOK
<1>1. UNCHANGED <<busy, workers, kpc, poolSize, popped>>
  BY DEF RunController, SignalWorker, SignalEnd, AsyncStop, AsyncStopEnd, FinishWorker, JoinEnd,
         DestroyWindup, Windup, ScheduleWindup, Controller, cancel, threads
<1>2. /\ Woken' = Woken /\ Staying' = Staying
  <2>1. CASE FinishWorker
    <3>1. \A v \in Workers: pc'[v] = pc[v] \/ (pc'[v] = "off" /\ pc[v] = "exited")
      BY <2>1 DEF FinishWorker
    <3>2. 1 .. workers \subseteq Workers
      BY DEF Workers
    <3> QED
      BY <1>1, <3>1, <3>2 DEF Woken, Staying
  <2>2. CASE ~ FinishWorker
    <3>1. pc' = pc
      BY <2>2 DEF RunController, SignalWorker, SignalEnd, AsyncStop, AsyncStopEnd, JoinEnd,
                  DestroyWindup, Windup, ScheduleWindup, threads
    <3> QED
      BY <1>1, <3>1 DEF Woken, Staying
  <2> QED
    BY <2>1, <2>2
<1> QED
  BY <1>1, <1>2

LEMMA DrainSignals ==
  ASSUME FlowInv, DrainInv,
         SignalWorker \/ SignalEnd \/ AsyncStop \/ AsyncStopEnd \/ FinishWorker
  PROVE  DrainInv'
<1>1. /\ UNCHANGED <<busy, workers, kpc, poolSize, popped>>
      /\ Woken' = Woken /\ Staying' = Staying
  BY ControllerSets DEF FlowInv, RunController
<1>2. /\ Cardinality(Woken) \in Nat /\ Cardinality(Staying) \in Nat
  BY SetsAreFinite DEF FlowInv
<1>3. /\ Erasing' = Erasing /\ Erasing \in Nat /\ Unsent \in Int /\ semaphore \in Nat
      /\ Len(tasks) \in Nat /\ Leaving \in Nat
  BY <1>1, <1>2 DEF Erasing, Unsent, Leaving, FlowInv, TypeOK
<1>4. UNCHANGED <<state, mode, tasks>>
  BY DEF SignalWorker, SignalEnd, AsyncStop, AsyncStopEnd, FinishWorker
<1>5. AllStay' /\ LeftIsEmpty' /\ QueueHasWorkers' /\ Drained' /\ Leaving' = Leaving
  BY <1>1, <1>4 DEF DrainInv, AllStay, LeftIsEmpty, QueueHasWorkers, Drained, Leaving
<1>6. \/ semaphore' = semaphore + 1 /\ Unsent' = Unsent - 1
      \/ semaphore' = semaphore /\ Unsent' = Unsent
  <2>1. CASE SignalWorker
    BY <1>1, <2>1 DEF SignalWorker, Controller, Unsent, FlowInv, TypeOK
  <2>2. CASE SignalEnd
    <3>1. Unsent = 0 /\ Unsent' = 0 /\ semaphore' = semaphore
      BY <2>2 DEF SignalEnd, Controller, Unsent, FlowInv, TypeOK, ThreadInv, WindingIsControlled
    <3> QED
      BY <3>1
  <2>3. CASE AsyncStop \/ AsyncStopEnd \/ FinishWorker
    BY <2>3 DEF AsyncStop, AsyncStopEnd, FinishWorker, Controller, Unsent
  <2> QED
    BY <2>1, <2>2, <2>3
<1>7. UnitsAreExact'
  <2> SUFFICES ASSUME state # "ABORTING"
               PROVE  semaphore' + Cardinality(Woken') + Unsent' = Len(tasks') + Erasing' + Leaving'
    BY <1>4 DEF UnitsAreExact
  <2>1. semaphore + Cardinality(Woken) + Unsent = Len(tasks) + Erasing + Leaving
    BY DEF DrainInv, UnitsAreExact
  <2>2. Cardinality(Woken') = Cardinality(Woken) /\ Len(tasks') = Len(tasks)
    BY <1>1, <1>4
  <2> QED
    BY <1>2, <1>3, <1>5, <1>6, <2>1, <2>2
<1> QED
  BY <1>5, <1>7 DEF DrainInv

LEMMA DrainController ==
  ASSUME Calm, FlowInv, CalmInv, DrainInv, RunController \/ \E m \in Modes: Windup(m)
  PROVE  DrainInv'
<1> USE SizesAssumption, ModesAssumption, StateOfMode DEF FlowInv, TypeOK
<1>1. UNCHANGED <<busy, workers, kpc, poolSize, popped>>
  BY ControllerSets
<1>2. /\ Woken' = Woken /\ Staying' = Staying
  BY ControllerSets
<1>3. /\ Cardinality(Woken) \in Nat /\ Cardinality(Staying) \in Nat /\ Erasing' = Erasing
      /\ Erasing \in Nat /\ Unsent \in Int /\ semaphore \in Nat /\ Len(tasks) \in Nat
  <2>1. Cardinality(Woken) \in Nat /\ Cardinality(Staying) \in Nat
    BY SetsAreFinite
  <2> QED
    BY <1>1, <2>1 DEF Erasing, Unsent
<1>4. ASSUME NEW m \in {"ABORT", "SUSPEND", "CLOSE"}, ScheduleWindup(m) PROVE DrainInv'
  <2>1. /\ state = "RUNNING" /\ cpc = "idle" /\ UNCHANGED <<tasks, semaphore>>
        /\ state' \in {"ABORTING", "STOPPING", "CLOSING"} /\ cpc' = "signal" /\ next' = 1
    BY <1>4 DEF ScheduleWindup, Controller
  <2>2. AllStay' /\ Drained'
    BY <2>1 DEF AllStay, Drained
  <2>3. \A w \in 1 .. workers: w \in Staying
    BY <2>1 DEF DrainInv, AllStay
  <2>4. LeftIsEmpty'
    BY <1>1, <1>2, <2>3 DEF LeftIsEmpty
  <2>5. QueueHasWorkers'
    BY <1>1, <2>1 DEF DrainInv, QueueHasWorkers
  <2>6. Staying = 1 .. workers
    BY <2>3 DEF Staying
  <2>7. Cardinality(Staying) = workers
    <3>1. workers \in Nat
      OBVIOUS
    <3>2. Cardinality(1 .. workers) = IF 1 > workers THEN 0 ELSE workers - 1 + 1
      BY <3>1, FS_Interval
    <3> QED
      BY <2>6, <3>1, <3>2
  <2>8. Unsent = 0 /\ Leaving = 0 /\ Unsent' = workers /\ Leaving' = workers
    BY <1>1, <1>2, <2>1, <2>7 DEF Unsent, Leaving, Winding
  <2>9. UnitsAreExact'
    <3>1. semaphore + Cardinality(Woken) + Unsent = Len(tasks) + Erasing + Leaving
      BY <2>1 DEF DrainInv, UnitsAreExact
    <3>2. semaphore' + Cardinality(Woken') + Unsent' = Len(tasks') + Erasing' + Leaving'
      BY <1>2, <1>3, <2>1, <2>8, <3>1
    <3> QED
      BY <3>2 DEF UnitsAreExact
  <2> QED
    BY <2>2, <2>4, <2>5, <2>9 DEF DrainInv
<1>5. CASE SignalWorker \/ SignalEnd \/ AsyncStop \/ AsyncStopEnd \/ FinishWorker
  BY <1>5, DrainSignals
<1>6. CASE JoinEnd
  <2>1. /\ cpc = "join" /\ cpc' = "idle" /\ kpc = "idle" /\ mode' = mode
        /\ state' \in {"STOPPED", "CLOSED"}
    BY <1>6 DEF JoinEnd, Controller, MutexFree
  <2>2. \A v \in Workers: pc[v] = "off" /\ popped[v] = NoTask
    BY <1>6 DEF JoinEnd, Controller, ThreadInv, JoinedIsOff, UnusedIsOff, Workers, HandsInv,
                OnlyAssignHolds
  <2>3. Staying = {} /\ Woken = {}
    <3>1. 1 .. workers \subseteq Workers
      BY DEF Workers
    <3> QED
      BY <2>2, <3>1 DEF Staying, Woken
  <2>4. AllStay' /\ LeftIsEmpty'
    BY <2>1 DEF AllStay, LeftIsEmpty
  <2>5. QueueHasWorkers'
    BY <1>1, <2>1 DEF DrainInv, QueueHasWorkers
  <2>6. Unsent = 0 /\ Unsent' = 0 /\ Erasing = 0 /\ Leaving' = 0
    BY <2>1 DEF Unsent, Erasing, Leaving, Winding
  <2>7. CASE state = "ABORTING"
    <3>1. tasks' = <<>> /\ semaphore' = 0
      BY <1>6, <2>7 DEF JoinEnd
    <3>2. UnitsAreExact'
      <4>1. semaphore' + Cardinality(Woken') + Unsent' = Len(tasks') + Erasing' + Leaving'
        BY <1>2, <1>3, <2>3, <2>6, <3>1, FS_EmptySet
      <4> QED
        BY <4>1 DEF UnitsAreExact
    <3> QED
      BY <2>4, <2>5, <3>1, <3>2 DEF DrainInv, Drained
  <2>8. CASE state # "ABORTING"
    <3>1. UNCHANGED <<tasks, semaphore>>
      BY <1>6, <2>8 DEF JoinEnd
    <3>2. Leaving = 0
      BY <2>3, FS_EmptySet DEF Leaving
    <3>3. semaphore + Cardinality(Woken) + Unsent = Len(tasks) + Erasing + Leaving
      BY <2>8 DEF DrainInv, UnitsAreExact
    <3>4. UnitsAreExact'
      <4>1. semaphore' + Cardinality(Woken') + Unsent' = Len(tasks') + Erasing' + Leaving'
        BY <1>2, <1>3, <2>6, <3>1, <3>2, <3>3
      <4> QED
        BY <4>1 DEF UnitsAreExact
    <3>5. Drained'
      <4> SUFFICES ASSUME state' = "CLOSED", mode = "CLOSE" PROVE tasks = <<>>
        BY <2>1, <3>1 DEF Drained
      <4>1. state = "CLOSING"
        BY <2>1 DEF CalmInv, ModesAreCalm
      <4>2. CASE workers > 0
        <5>1. 1 \in 1 .. workers
          BY <4>2
        <5> QED
          BY <2>3, <4>1, <5>1 DEF DrainInv, LeftIsEmpty
      <4>3. CASE ~ (workers > 0)
        BY <4>1, <4>3 DEF DrainInv, QueueHasWorkers
      <4> QED
        BY <4>2, <4>3
    <3> QED
      BY <2>4, <2>5, <3>4, <3>5 DEF DrainInv
  <2> QED
    BY <2>7, <2>8
<1>7. DestroyWindup => ScheduleWindup("CLOSE")
  BY DEF DestroyWindup
<1>8. ASSUME NEW m \in Modes, Windup(m) PROVE m \in {"ABORT", "SUSPEND", "CLOSE"} /\ ScheduleWindup(m)
  BY <1>8 DEF Windup, Calm
<1> QED
  BY <1>4, <1>5, <1>6, <1>7, <1>8 DEF RunController

LEMMA DrainCanceller ==
  ASSUME FlowInv, DrainInv, RunCanceller \/ \E s \in Subjects: CancelBegin(s)
  PROVE  DrainInv'
<1> USE DEF FlowInv
<1>1. UNCHANGED <<state, poolSize, busy, workers, pc, popped, cpc, mode, next>>
  BY DEF RunCanceller, CancelErase, CancelWait, CancelScanned, CancelWorker, CancelEnd,
         CancelBegin, Canceller, threads, control
<1>2. /\ Woken' = Woken /\ Staying' = Staying /\ Unsent' = Unsent /\ Leaving' = Leaving
  BY <1>1 DEF Woken, Staying, Unsent, Leaving
<1>3. Cardinality(Woken) \in Nat /\ Cardinality(Staying) \in Nat
  BY SetsAreFinite
<1>4. Unsent \in Int /\ Leaving \in Nat /\ semaphore \in Nat /\ Len(tasks) \in Nat
  BY <1>3 DEF Unsent, Leaving, TypeOK
<1>5. CASE CancelErase
  <2>1. Erasing = 0 /\ Erasing' = 1 /\ semaphore' = semaphore
    BY <1>5 DEF CancelErase, Canceller, Erasing
  <2>2. PICK i \in OfSubject: tasks' = RemoveAt(tasks, i)
    BY <1>5 DEF CancelErase
  <2>3. Len(tasks') = Len(tasks) - 1
    BY <2>2, RemoveAtRange DEF OfSubject, TypeOK, OnePlace
  <2>4. tasks # <<>>
    BY <2>2 DEF OfSubject
  <2>5. AllStay' /\ LeftIsEmpty' /\ QueueHasWorkers' /\ Drained'
    BY <1>1, <1>2, <2>4 DEF DrainInv, AllStay, LeftIsEmpty, QueueHasWorkers, Drained
  <2>6. UnitsAreExact'
    BY <1>1, <1>2, <1>3, <1>4, <2>1, <2>3 DEF DrainInv, UnitsAreExact
  <2> QED
    BY <2>5, <2>6 DEF DrainInv
<1>6. CASE ~ CancelErase
  <2>1. tasks' = tasks
    BY <1>6 DEF RunCanceller, CancelWait, CancelScanned, CancelWorker, CancelEnd, CancelBegin
  <2>2. AllStay' /\ LeftIsEmpty' /\ QueueHasWorkers' /\ Drained'
    BY <1>1, <1>2, <2>1 DEF DrainInv, AllStay, LeftIsEmpty, QueueHasWorkers, Drained
  <2>3. CASE CancelWait
    <3>1. Erasing = 1 /\ Erasing' = 0 /\ semaphore' = semaphore - 1
      BY <2>3 DEF CancelWait, Canceller, Erasing
    <3>2. UnitsAreExact'
      BY <1>1, <1>2, <1>3, <1>4, <2>1, <3>1 DEF DrainInv, UnitsAreExact
    <3> QED
      BY <2>2, <3>2 DEF DrainInv
  <2>4. CASE ~ CancelWait
    <3>1. Erasing' = Erasing /\ semaphore' = semaphore
      BY <1>6, <2>4 DEF RunCanceller, CancelScanned, CancelWorker, CancelEnd, CancelBegin,
                        Canceller, Erasing
    <3>2. UnitsAreExact'
      BY <1>1, <1>2, <2>1, <3>1 DEF DrainInv, UnitsAreExact
    <3> QED
      BY <2>2, <3>2 DEF DrainInv
  <2> QED
    BY <2>3, <2>4
<1> QED
  BY <1>5, <1>6

LEMMA NextDrain ==
  ASSUME Calm, FlowInv, CalmInv, DrainInv, [Next]_vars
  PROVE  DrainInv'
<1>1. ASSUME UNCHANGED <<flow, semaphore, threads, cpc, mode, next, kpc>> PROVE DrainInv'
  <2>1. /\ Staying' = Staying /\ Woken' = Woken /\ Unsent' = Unsent /\ Erasing' = Erasing
        /\ Leaving' = Leaving
    BY <1>1 DEF flow, threads, Staying, Woken, Unsent, Erasing, Leaving
  <2> QED
    BY <1>1, <2>1 DEF flow, DrainInv, AllStay, LeftIsEmpty, QueueHasWorkers, UnitsAreExact,
                      Drained
<1>2. CASE UNCHANGED vars
  BY <1>1, <1>2 DEF vars, control, cancel
<1>3. CASE Start
  BY <1>3, DrainRestart DEF Start
<1>4. CASE Destroy
  <2>1. CASE StartIsRequired
    BY <1>4, <2>1, DrainRestart DEF Destroy, StartIsRequired
  <2>2. CASE ~ StartIsRequired
    BY <1>1, <1>4, <2>2 DEF Destroy, cancel
  <2> QED
    BY <2>1, <2>2
<1>5. CASE Kill
  BY <1>5 DEF Kill, Calm
<1> QED
  BY <1>2, <1>3, <1>4, <1>5, DrainWorker, DrainSchedule, DrainController, DrainCanceller
     DEF Next

LEMMA InitDrain == Init => DrainInv
<1> SUFFICES ASSUME Init PROVE DrainInv
  OBVIOUS
<1>1. Woken = {} /\ Unsent = 0 /\ Erasing = 0 /\ Leaving = 0
  BY DEF Init, Woken, Unsent, Erasing, Leaving, Winding
<1>2. Len(tasks) = 0 /\ semaphore = 0
  BY DEF Init
<1>3. UnitsAreExact
  BY <1>1, <1>2, FS_EmptySet DEF UnitsAreExact
<1> QED
  BY <1>3, SizesAssumption DEF Init, DrainInv, AllStay, LeftIsEmpty, QueueHasWorkers, Drained

(* A flow that nobody kills or interrupts has executed or dropped every     *)
(* accepted task when it is closed: after any number of suspensions, aborts *)
(* and restarts, with tasks cancelled in the meantime.                      *)
THEOREM CalmFlowIsDrained == Calm => (Spec => []ClosedIsDrained)
<1> SUFFICES ASSUME Calm PROVE Spec => []ClosedIsDrained
  OBVIOUS
<1>1. Init => FlowInv /\ CalmInv /\ DrainInv
  BY InitFlow, InitCalm, InitDrain
<1>2. FlowInv /\ CalmInv /\ DrainInv /\ [Next]_vars => (FlowInv /\ CalmInv /\ DrainInv)'
  BY NextFlow, NextCalm, NextDrain
<1>3. FlowInv /\ CalmInv /\ DrainInv => ClosedIsDrained
  <2> SUFFICES ASSUME FlowInv, CalmInv, DrainInv, state = "CLOSED", mode = "CLOSE"
               PROVE  submitted \subseteq done \cup dropped
    BY DEF ClosedIsDrained
  <2>1. tasks = <<>>
    BY DEF DrainInv, Drained
  <2>2. Range(tasks) = {}
    BY <2>1 DEF Range
  <2>3. \A w \in Workers: Held(w) = {}
    BY DEF FlowInv, ThreadInv, NoWorkerOutlivesWindup, HandsInv, OnlyAssignHolds, CalmInv,
           LeaversHoldNone, Held
  <2>4. Hands = {}
    BY <2>3 DEF Hands
  <2> QED
    BY <2>2, <2>4 DEF FlowInv, OnePlace
<1> QED
  BY <1>1, <1>2, <1>3, PTL DEF Spec

-----------------------------------------------------------------------------
(* The destructor looks at _hasTask, which only the assignment after        *)
(* pop_task() sets: a worker spawned with a task does not have it set, so   *)
(* what follows is about flows that schedule with LAZY.                     *)
Lazy == "EAGER" \notin Policies

HasTaskIsSet == \A w \in Workers: task[w] # NoTask => hasTask[w]

DestroyInv ==
  destroying =>
    /\ MutexFree
    /\ cpc # "idle" => state = "CLOSING"
    /\ state = "STOPPED" => tasks = <<>> /\ \A w \in 1 .. workers: ~ hasTask[w]

LEMMA NextHasTask ==
  ASSUME Lazy, TypeOK, UnusedHoldsNone, HasTaskIsSet, [Next]_vars
  PROVE  HasTaskIsSet'
<1> USE DEF TypeOK, HasTaskIsSet
<1>1. CASE UNCHANGED vars
  BY <1>1 DEF vars, threads
<1>2. CASE Schedule
  <2> PICK t \in Tasks: AddTaskLazy(t)
    BY <1>2 DEF Schedule, Lazy
  <2>1. SpawnWorker(NoTask) \/ UNCHANGED threads
    BY DEF AddTaskLazy
  <2> QED
    BY <2>1 DEF SpawnWorker, threads, Workers
<1>3. ASSUME NEW w \in Workers, RunWorker(w) \/ PopWait(w) PROVE HasTaskIsSet'
  BY <1>3 DEF RunWorker, RunStart, RunLoop, PopBegin, PopWait, PopEnd, RunAssign,
              CallReturns, RunAfter, Retire, RunLeave, Worker
<1>4. CASE Start \/ Destroy
  BY <1>4 DEF Start, Destroy, Restart, threads
<1>5. CASE (\E m \in Modes: Windup(m)) \/ RunController
  BY <1>5 DEF Windup, ScheduleWindup, DestroyWindup, RunController, SignalWorker, SignalEnd,
              AsyncStop, AsyncStopEnd, FinishWorker, JoinEnd, threads
<1>6. CASE (\E s \in Subjects: CancelBegin(s)) \/ RunCanceller
  BY <1>6 DEF CancelBegin, RunCanceller, CancelErase, CancelWait, CancelScanned, CancelWorker,
              CancelEnd, Canceller, threads
<1>7. CASE Kill
  BY <1>7 DEF Kill, threads
<1> QED
  BY <1>1, <1>2, <1>3, <1>4, <1>5, <1>6, <1>7 DEF Next

LEMMA NextDestroy ==
  ASSUME TypeOK, ThreadInv, DestroyInv, [Next]_vars
  PROVE  DestroyInv'
<1> USE DEF TypeOK, DestroyInv, MutexFree
<1>1. CASE UNCHANGED vars
  BY <1>1 DEF vars, flow, threads, control, cancel
<1>2. CASE Schedule
  BY <1>2 DEF Schedule, AddTaskLazy, AddTaskEager, Submit, control
<1>3. ASSUME NEW w \in Workers, RunWorker(w) \/ PopWait(w) PROVE DestroyInv'
  <2>1. state # "STOPPED"
    BY <1>3 DEF ThreadInv, NoWorkerOutlivesWindup, RunWorker, RunStart, RunLoop, PopBegin,
                PopWait, PopEnd, RunAssign, CallReturns, RunAfter, RunLeave, Worker
  <2>2. UNCHANGED <<state, destroying, cpc, kpc>>
    BY <1>3 DEF RunWorker, RunStart, RunLoop, PopBegin, PopWait, PopEnd, RunAssign,
                CallReturns, RunAfter, RunLeave, Worker, flow, control, cancel
  <2> QED
    BY <2>1, <2>2
<1>4. CASE Start
  BY <1>4 DEF Start
<1>5. CASE Destroy
  <2>1. cpc = "idle" /\ cpc' = "idle" /\ kpc = "idle" /\ kpc' = "idle"
    BY <1>5 DEF Destroy, Restart, cancel
  <2>2. CASE StartIsRequired /\ Restart
    BY <2>1, <2>2 DEF Restart
  <2>3. CASE ~ StartIsRequired /\ UNCHANGED <<flow, threads>>
    <3>1. state = "STOPPED" => tasks = <<>> /\ \A w \in 1 .. workers: ~ hasTask[w]
      BY <2>3 DEF StartIsRequired
    <3> QED
      BY <2>1, <2>3, <3>1 DEF flow, threads
  <2> QED
    BY <1>5, <2>2, <2>3 DEF Destroy
<1>6. CASE \E m \in Modes: Windup(m)
  BY <1>6 DEF Windup, ScheduleWindup, Controller
<1>7. CASE RunController
  <2> SUFFICES ASSUME destroying PROVE DestroyInv'
    BY <1>7 DEF RunController, SignalWorker, SignalEnd, AsyncStop, AsyncStopEnd, FinishWorker,
                JoinEnd, DestroyWindup, ScheduleWindup, Controller
  <2>1. kpc' = "idle" /\ workers' = workers
    BY <1>7 DEF RunController, SignalWorker, SignalEnd, AsyncStop, AsyncStopEnd, FinishWorker,
                JoinEnd, DestroyWindup, ScheduleWindup, Controller, cancel
  <2>2. state' \in {"CLOSING", "CLOSED"} /\ (cpc' # "idle" => state' = "CLOSING")
    BY <1>7 DEF RunController, SignalWorker, SignalEnd, AsyncStop, AsyncStopEnd, FinishWorker,
                JoinEnd, DestroyWindup, ScheduleWindup, Controller, StateOf
  <2> QED
    BY <2>1, <2>2
<1>8. CASE (\E s \in Subjects: CancelBegin(s)) \/ RunCanceller
  BY <1>8 DEF CancelBegin, RunCanceller, CancelErase, CancelWait, CancelScanned, CancelWorker,
              CancelEnd, Canceller, control
<1>9. CASE Kill
  BY <1>9 DEF Kill, flow, threads, control, cancel
<1> QED
  BY <1>1, <1>2, <1>3, <1>4, <1>5, <1>6, <1>7, <1>8, <1>9 DEF Next

(* A lazy flow that is destroyed while it is stopped, after any wind-up and *)
(* with tasks cancelled and threads killed, leaves no queued task and no    *)
(* task that asked for a restart behind.                                    *)
THEOREM LazyFlowAbandonsNothing == Lazy => (Spec => []NothingIsAbandoned)
<1> SUFFICES ASSUME Lazy PROVE Spec => []NothingIsAbandoned
  OBVIOUS
<1> DEFINE Inv == FlowInv /\ HasTaskIsSet /\ DestroyInv
<1>1. Init => Inv
  BY InitFlow DEF Init, HasTaskIsSet, DestroyInv
<1>2. Inv /\ [Next]_vars => Inv'
  <2> SUFFICES ASSUME Inv, [Next]_vars PROVE Inv'
    OBVIOUS
  <2>1. TypeOK /\ ThreadInv /\ UnusedHoldsNone
    BY DEF FlowInv, HandsInv
  <2>2. HasTaskIsSet'
    BY <2>1, NextHasTask
  <2>3. DestroyInv'
    BY <2>1, NextDestroy
  <2> QED
    BY NextFlow, <2>2, <2>3
<1>3. Inv => NothingIsAbandoned
  <2> SUFFICES ASSUME Inv, destroying, state = "STOPPED"
               PROVE  tasks = <<>> /\ \A w \in Workers: Held(w) = {}
    BY DEF NothingIsAbandoned
  <2>1. tasks = <<>> /\ \A w \in 1 .. workers: ~ hasTask[w]
    BY DEF DestroyInv
  <2>2. ASSUME NEW w \in Workers PROVE task[w] = NoTask /\ popped[w] = NoTask
    <3>1. task[w] = NoTask
      BY <2>1 DEF HasTaskIsSet, FlowInv, HandsInv, UnusedHoldsNone, TypeOK, Workers
    <3>2. popped[w] = NoTask
      BY DEF FlowInv, ThreadInv, NoWorkerOutlivesWindup, HandsInv, OnlyAssignHolds
    <3> QED
      BY <3>1, <3>2
  <2> QED
    BY <2>1, <2>2 DEF Held
<1> QED
  BY <1>1, <1>2, <1>3, PTL DEF Spec

=============================================================================
