------------------------------ MODULE HThread -------------------------------
(***************************************************************************)
(* HThread of src/hcore/hthread.cxx: the hand-shake between the thread     *)
(* that owns an HThread object (spawn, finish, the destructor), the        *)
(* operating-system thread that runs control(), and other threads that     *)
(* call schedule_finish().                                                 *)
(*                                                                         *)
(* The semaphore is the counter of AbstractSemaphore.  The recursive mutex *)
(* is held over several steps only by the owner, at the program points in  *)
(* Locked: spawn() waits for the child and finish() joins it inside.       *)
(***************************************************************************)
EXTENDS Naturals

CONSTANTS
  CreateMayFail,  \* may pthread_create fail?
  MaxSpawns       \* bound: how often spawn() starts a thread

ASSUME CreateAssumption == CreateMayFail \in BOOLEAN
ASSUME SpawnsAssumption == MaxSpawns \in Nat

VARIABLES
  status,         \* HThread::_status
  semaphore,      \* the value of HThread::_semaphore
  stacked,        \* HThread::_exceptionInfo._stacked
  owner,          \* program point of the owner
  child,          \* program point of the operating-system thread
  polls,          \* does _call return only when is_alive() says no?
  thrown,         \* what the last call of the owner threw
  spawns          \* number of calls of pthread_create (bounded by MaxSpawns)

vars == <<status, semaphore, stacked, owner, child, polls, thrown, spawns>>

Statuses == {"DEAD", "SPAWNING", "ALIVE", "ZOMBIE"}
Owners   == {"idle", "spawning", "finishing", "joining",
             "destroyFinishing", "destroyJoining", "destroyed"}
Children == {"none", "created", "announce", "calling", "returned", "bury",
             "leaving", "over"}
Thrown   == {"nothing", "alreadyRunning", "notCreated", "notRunning", "stacked"}

Init ==
  /\ status = "DEAD"
  /\ semaphore = 0
  /\ stacked = FALSE
  /\ owner = "idle"
  /\ child = "none"
  /\ polls = FALSE
  /\ thrown = "nothing"
  /\ spawns = 0

Locked == owner \in {"spawning", "joining", "destroyJoining"}

-----------------------------------------------------------------------------
(* The owner *)

SpawnRefused ==
  /\ owner = "idle"
  /\ status # "DEAD"
  /\ thrown' = "alreadyRunning"
  /\ UNCHANGED <<status, semaphore, stacked, owner, child, polls, spawns>>

(* spawn(): the status changes before pthread_create is tried. *)
SpawnFails ==
  /\ CreateMayFail
  /\ owner = "idle"
  /\ status = "DEAD"
  /\ spawns < MaxSpawns
  /\ status' = "SPAWNING"
  /\ thrown' = "notCreated"
  /\ spawns' = spawns + 1
  /\ UNCHANGED <<semaphore, stacked, owner, child, polls>>

SpawnUnlocked ==
  /\ owner = "idle"
  /\ status = "DEAD"
  /\ spawns < MaxSpawns
  /\ status' = "SPAWNING"
  /\ owner' = "idle"
  /\ child' = "created"
  /\ polls' \in BOOLEAN
  /\ thrown' = "nothing"
  /\ spawns' = spawns + 1
  /\ UNCHANGED <<semaphore, stacked>>

Spawn ==
  /\ owner = "idle"
  /\ status = "DEAD"
  /\ spawns < MaxSpawns
  /\ status' = "SPAWNING"
  /\ owner' = "spawning"
  /\ child' = "created"
  /\ polls' \in BOOLEAN
  /\ thrown' = "nothing"
  /\ spawns' = spawns + 1
  /\ UNCHANGED <<semaphore, stacked>>

(* ... and returns when the child has announced itself. *)
SpawnReturn ==
  /\ owner = "spawning"
  /\ semaphore > 0
  /\ semaphore' = semaphore - 1
  /\ owner' = "idle"
  /\ UNCHANGED <<status, stacked, child, polls, thrown, spawns>>

FinishRefused ==
  /\ owner = "idle"
  /\ status = "DEAD"
  /\ thrown' = "notRunning"
  /\ UNCHANGED <<status, semaphore, stacked, owner, child, polls, spawns>>

(* finish() up to its wait: schedule_finish() under the recursive mutex. *)
Finish ==
  /\ owner = "idle"
  /\ status # "DEAD"
  /\ status' = "ZOMBIE"
  /\ owner' = "finishing"
  /\ thrown' = "nothing"
  /\ UNCHANGED <<semaphore, stacked, child, polls, spawns>>

(* _semaphore.wait(); lock.lock() *)
FinishWaitUnchecked ==
  /\ owner \in {"finishing", "destroyFinishing"}
  /\ semaphore' = semaphore - 1
  /\ owner' = IF owner = "finishing" THEN "joining" ELSE "destroyJoining"
  /\ UNCHANGED <<status, stacked, child, polls, thrown, spawns>>

FinishWait ==
  /\ owner \in {"finishing", "destroyFinishing"}
  /\ semaphore > 0
  /\ semaphore' = semaphore - 1
  /\ owner' = IF owner = "finishing" THEN "joining" ELSE "destroyJoining"
  /\ UNCHANGED <<status, stacked, child, polls, thrown, spawns>>

(* pthread_join() and the rest of finish(); a destructor goes on to its end  *)
(* whether or not finish() throws, and destroys the semaphore.              *)
FinishDetach ==
  /\ owner \in {"joining", "destroyJoining"}
  /\ status' = "DEAD"
  /\ child' = IF child = "over" THEN "none" ELSE child
  /\ thrown' = IF stacked THEN "stacked" ELSE "nothing"
  /\ owner' = IF owner = "joining" THEN "idle" ELSE "destroyed"
  /\ UNCHANGED <<semaphore, stacked, polls, spawns>>

FinishJoin ==
  /\ owner \in {"joining", "destroyJoining"}
  /\ child = "over"
  /\ status' = "DEAD"
  /\ child' = "none"
  /\ thrown' = IF stacked THEN "stacked" ELSE "nothing"
  /\ owner' = IF owner = "joining" THEN "idle" ELSE "destroyed"
  /\ UNCHANGED <<semaphore, stacked, polls, spawns>>

(* ~HThread(): a thread that is not DEAD is finished first. *)
Destroy ==
  /\ owner = "idle"
  /\ IF status = "DEAD"
     THEN /\ owner' = "destroyed"
          /\ UNCHANGED status
     ELSE /\ owner' = "destroyFinishing"
          /\ status' = "ZOMBIE"
  /\ thrown' = "nothing"
  /\ UNCHANGED <<semaphore, stacked, child, polls, spawns>>

-----------------------------------------------------------------------------
(* The operating-system thread: control() runs without the mutex. *)

Control(from, to) ==
  /\ child = from
  /\ child' = to
  /\ UNCHANGED <<owner, polls, thrown, spawns>>

SetAlive ==
  /\ Control("created", "announce")
  /\ status' = "ALIVE"
  /\ UNCHANGED <<semaphore, stacked>>

Announce ==
  /\ Control("announce", "calling")
  /\ semaphore' = semaphore + 1
  /\ UNCHANGED <<status, stacked>>

(* _call() returns; one that polls is_alive() needs the mutex to be free    *)
(* and the status not to be ALIVE.  It may have called stack_exception().   *)
CallReturns ==
  /\ Control("calling", "returned")
  /\ polls => ~ Locked /\ status # "ALIVE"
  /\ stacked' \in {stacked, TRUE}
  /\ UNCHANGED <<status, semaphore>>

SetZombie ==
  /\ Control("returned", "bury")
  /\ status' = "ZOMBIE"
  /\ UNCHANGED <<semaphore, stacked>>

Bury ==
  /\ Control("bury", "leaving")
  /\ semaphore' = semaphore + 1
  /\ UNCHANGED <<status, stacked>>

(* The unit is there before signal() is done with the semaphore; only the   *)
(* end of the thread, which pthread_join() waits for, is past both.         *)
Leave ==
  /\ Control("leaving", "over")
  /\ UNCHANGED <<status, semaphore, stacked>>

-----------------------------------------------------------------------------
(* Any other thread asks this one to finish. *)
ScheduleFinish ==
  /\ ~ Locked
  /\ owner # "destroyed"
  /\ status # "DEAD"
  /\ status' = "ZOMBIE"
  /\ UNCHANGED <<semaphore, stacked, owner, child, polls, thrown, spawns>>

-----------------------------------------------------------------------------
OwnerReturns == SpawnReturn \/ FinishWait \/ FinishJoin
OwnerCalls   == SpawnRefused \/ SpawnFails \/ Spawn \/ FinishRefused \/ Finish \/ Destroy
ChildRuns    == SetAlive \/ Announce \/ CallReturns \/ SetZombie \/ Bury \/ Leave

Next == OwnerCalls \/ OwnerReturns \/ ChildRuns \/ ScheduleFinish

Spec == Init /\ [][Next]_vars

(* Started threads run, a call that is not told to go on for ever returns,  *)
(* and the owner leaves a wait that is satisfied.                           *)
Fairness == WF_vars(ChildRuns) /\ WF_vars(OwnerReturns)

-----------------------------------------------------------------------------
TypeOK ==
  /\ status \in Statuses
  /\ semaphore \in Nat
  /\ stacked \in BOOLEAN
  /\ owner \in Owners
  /\ child \in Children
  /\ polls \in BOOLEAN
  /\ thrown \in Thrown
  /\ spawns \in 0 .. MaxSpawns

(* The operating-system thread never outlives its incarnation: when the     *)
(* object can be spawned again or is gone, no child is left to touch        *)
(* _status, _id or _semaphore.                                              *)
ChildIsJoined ==
  status = "DEAD" \/ owner = "destroyed" => child = "none"

(* The two signals of control() meet exactly the waits of spawn() and       *)
(* finish(): an object that is DEAD holds no unit that would let the next   *)
(* spawn() return before its thread is ALIVE.                               *)
SignalsAreMatched == status = "DEAD" => semaphore = 0

(* A request to finish is never overwritten by the start of the thread: from *)
(* ZOMBIE the only way is DEAD.                                             *)
FinishRequestIsKept ==
  [][status = "ZOMBIE" => status' \in {"ZOMBIE", "DEAD"}]_vars

(* finish() blocks only on a thread that exists.                            *)
(* hthread.cxx:111 promises to throw "thread is not running" otherwise.     *)
FinishWaitsForAThread ==
  owner \in {"finishing", "destroyFinishing"} => child # "none"

(* finish() and the destructor return, whatever the call of the thread      *)
(* does, as long as there is a thread and it heeds is_alive().              *)
FinishReturns ==
  owner \in {"finishing", "destroyFinishing"} /\ child # "none"
    ~> owner \in {"idle", "destroyed"}
=============================================================================
