------------------------------ MODULE HFuture -------------------------------
(***************************************************************************)
(* HFuture of src/tools/hfuture.hxx: a call that a worker of the thread    *)
(* pool makes under the mutex of the future, and the threads that ask for  *)
(* its value.  The object belongs to Owner, which destroys it once it has  *)
(* seen the value and no other thread uses it.  The call returns: an       *)
(* exception that leaves a thread of the pool ends the process             *)
(* (HThread::SPAWN).                                                       *)
(***************************************************************************)
EXTENDS Naturals, FiniteSets

CONSTANTS
  Users,        \* threads that call get() and is_ready()
  Owner,        \* the one that destroys the object
  MaxCalls      \* bound: calls each user makes

NoThread == "no thread"
Worker == "worker"

VARIABLES
  worker,       \* where execute() is, from the queue of the pool to its end
  user,         \* where each user is in get() or is_ready()
  holder,       \* who has _mutex
  finished,     \* _finished
  value,        \* whether _return is assigned
  seen,         \* users that were given the value, or told that it is there
  calls,        \* calls each user has made (bounded by MaxCalls)
  destroyed     \* ~HFuture() has run

futureVars == <<worker, user, holder, finished, value, seen, calls, destroyed>>

Init ==
  /\ worker = "queued"
  /\ user = [u \in Users |-> "idle"]
  /\ holder = NoThread
  /\ finished = FALSE /\ value = FALSE
  /\ seen = {}
  /\ calls = [u \in Users |-> 0]
  /\ destroyed = FALSE

Sleepers == {u \in Users: user[u] = "asleep"}

WorkerBecomes(from, to) == worker = from /\ worker' = to

(* execute() *)
ExecuteLock ==
  /\ WorkerBecomes("queued", "call")
  /\ holder = NoThread
  /\ holder' = Worker
  /\ UNCHANGED <<user, finished, value, seen, calls, destroyed>>

ExecuteCall ==
  /\ WorkerBecomes("call", "broadcast")
  /\ value' = TRUE
  /\ finished' = TRUE
  /\ UNCHANGED <<user, holder, seen, calls, destroyed>>

SignalOne ==
  /\ WorkerBecomes("broadcast", "unlock")
  /\ IF Sleepers = {} THEN UNCHANGED user
     ELSE \E u \in Sleepers: user' = [user EXCEPT ![u] = "lock"]
  /\ UNCHANGED <<holder, finished, value, seen, calls, destroyed>>

ExecuteBroadcast ==
  /\ WorkerBecomes("broadcast", "unlock")
  /\ user' = [u \in Users |-> IF u \in Sleepers THEN "lock" ELSE user[u]]
  /\ UNCHANGED <<holder, finished, value, seen, calls, destroyed>>

ExecuteUnlock ==
  /\ WorkerBecomes("unlock", "done")
  /\ holder' = NoThread
  /\ UNCHANGED <<user, finished, value, seen, calls, destroyed>>

(* get() *)
Get(u) ==
  /\ user[u] = "idle" /\ ~destroyed
  /\ calls[u] < MaxCalls
  /\ calls' = [calls EXCEPT ![u] = @ + 1]
  /\ user' = [user EXCEPT ![u] = "lock"]
  /\ UNCHANGED <<worker, holder, finished, value, seen, destroyed>>

GetLock(u) ==
  /\ user[u] = "lock" /\ holder = NoThread
  /\ holder' = u
  /\ user' = [user EXCEPT ![u] = "test"]
  /\ UNCHANGED <<worker, finished, value, seen, calls, destroyed>>

GetSleep(u) ==
  /\ user[u] = "test" /\ ~finished
  /\ holder' = NoThread
  /\ user' = [user EXCEPT ![u] = "asleep"]
  /\ UNCHANGED <<worker, finished, value, seen, calls, destroyed>>

GetReturn(u) ==
  /\ user[u] = "test" /\ finished
  /\ seen' = seen \cup {u}
  /\ holder' = NoThread
  /\ user' = [user EXCEPT ![u] = "idle"]
  /\ UNCHANGED <<worker, finished, value, calls, destroyed>>

(* A spurious wake-up of the condition variable. *)
WakeUnsignalled(u) ==
  /\ user[u] = "asleep"
  /\ user' = [user EXCEPT ![u] = "lock"]
  /\ UNCHANGED <<worker, holder, finished, value, seen, calls, destroyed>>

(* is_ready(): a lock that is not waited for; busy means not ready. *)
IsReadyUnlocked(u) ==
  /\ user[u] = "idle" /\ ~destroyed
  /\ calls[u] < MaxCalls
  /\ calls' = [calls EXCEPT ![u] = @ + 1]
  /\ seen' = IF finished THEN seen \cup {u} ELSE seen
  /\ UNCHANGED <<worker, user, holder, finished, value, destroyed>>

IsReady(u) ==
  /\ user[u] = "idle" /\ ~destroyed
  /\ calls[u] < MaxCalls
  /\ calls' = [calls EXCEPT ![u] = @ + 1]
  /\ seen' = IF holder = NoThread /\ finished THEN seen \cup {u} ELSE seen
  /\ UNCHANGED <<worker, user, holder, finished, value, destroyed>>

Destroy ==
  /\ ~destroyed
  /\ Owner \in seen
  /\ \A u \in Users: user[u] = "idle"
  /\ destroyed' = TRUE
  /\ UNCHANGED <<worker, user, holder, finished, value, seen, calls>>

Execute == ExecuteCall \/ ExecuteBroadcast \/ ExecuteUnlock
Continue(u) == GetLock(u) \/ GetSleep(u) \/ GetReturn(u)

Next ==
  \/ ExecuteLock \/ Execute
  \/ \E u \in Users: Get(u) \/ Continue(u) \/ WakeUnsignalled(u) \/ IsReady(u)
  \/ Destroy

(* The call ends, and a thread inside get() that can move does so.  The     *)
(* pool runs what was scheduled, and the mutex does not pass the worker     *)
(* over for ever in favour of threads that wake up only to sleep again.     *)
Promptness == WF_futureVars(Execute) /\ \A u \in Users: WF_futureVars(Continue(u))

Fairness == Promptness /\ SF_futureVars(ExecuteLock)

Spec == Init /\ [][Next]_futureVars

-----------------------------------------------------------------------------
TypeOK ==
  /\ worker \in {"queued", "call", "broadcast", "unlock", "done"}
  /\ user \in [Users -> {"idle", "lock", "test", "asleep"}]
  /\ holder \in Users \cup {NoThread, Worker}
  /\ finished \in BOOLEAN /\ value \in BOOLEAN /\ destroyed \in BOOLEAN
  /\ seen \subseteq Users
  /\ calls \in [Users -> 0 .. MaxCalls]

(* An owner that waits for the value, by get() or by is_ready(), may        *)
(* destroy the future at once: the worker does not touch it any more,       *)
(* neither for the notification nor for the mutex.                          *)
DestroyedAfterUse == destroyed => worker = "done"

(* Who was told that the value is there reads an assigned value. *)
ValueIsThere == seen # {} => value

(* get() returns: the notification is not lost, neither on a thread that    *)
(* is about to sleep nor on the second of two that sleep.                   *)
GetReturns == \A u \in Users: user[u] # "idle" ~> user[u] = "idle"
=============================================================================
