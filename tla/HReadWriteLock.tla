--------------------------- MODULE HReadWriteLock ---------------------------
(***************************************************************************)
(* HReadWriteLock of src/hcore/hthread.cxx with its two guards.  The class *)
(* makes the pthread lock recursive: _lockInfo counts the guards of every  *)
(* thread, and the pthread lock is touched by the first and the last of    *)
(* them only.  The look-up in _lockInfo, under _mutex, and what follows it *)
(* outside _mutex are separate steps.                                      *)
(***************************************************************************)
EXTENDS Naturals, FiniteSets

CONSTANTS
  Threads,
  MaxGuards,   \* bound: guards one thread holds at a time
  MaxLocks     \* bound: guards one thread takes in all

VARIABLES
  lockInfo,    \* _lockInfo: the threads with an entry, _count and _firstLockRead
  readers,     \* threads that hold the pthread lock for reading
  writers,     \* threads that hold it for writing
  doing,       \* where each thread is in an operation
  reads,       \* read guards each thread holds
  writes,      \* write guards each thread holds
  locks        \* guards each thread has taken (bounded by MaxLocks)

vars == <<lockInfo, readers, writers, doing, reads, writes, locks>>

NoEntry == [entry |-> FALSE, count |-> 0, firstLockRead |-> FALSE]
Entry(count, firstLockRead) == [entry |-> TRUE, count |-> count, firstLockRead |-> firstLockRead]

Init ==
  /\ lockInfo = [t \in Threads |-> NoEntry]
  /\ readers = {} /\ writers = {}
  /\ doing  = [t \in Threads |-> "idle"]
  /\ reads  = [t \in Threads |-> 0]
  /\ writes = [t \in Threads |-> 0]
  /\ locks  = [t \in Threads |-> 0]

Become(t, what) == doing' = [doing EXCEPT ![t] = what]

(* lockInfo = &_lockInfo[ id ]: makes the entry where there is none. *)
Find(t, operation) ==
  /\ doing[t] = "idle"
  /\ reads[t] + writes[t] < MaxGuards
  /\ locks[t] < MaxLocks
  /\ Become(t, operation)
  /\ locks' = [locks EXCEPT ![t] = @ + 1]
  /\ lockInfo' = [lockInfo EXCEPT ![t] = IF @.entry THEN @ ELSE Entry(0, FALSE)]
  /\ UNCHANGED <<readers, writers, reads, writes>>

(* The rest of lock_read(): the entry is the thread's own, so the           *)
(* assignments around pthread_rwlock_rdlock are part of the step.           *)
LockReadIgnoringWriter(t) ==
  /\ doing[t] = "lock_read"
  /\ readers' = IF lockInfo[t].count = 0 THEN readers \cup {t} ELSE readers
  /\ lockInfo' = [lockInfo EXCEPT ![t] = Entry(@.count + 1, @.firstLockRead \/ @.count = 0)]
  /\ reads' = [reads EXCEPT ![t] = @ + 1]
  /\ Become(t, "idle")
  /\ UNCHANGED <<writers, writes, locks>>

LockRead(t) ==
  /\ doing[t] = "lock_read"
  /\ lockInfo[t].count = 0 => writers = {}
  /\ readers' = IF lockInfo[t].count = 0 THEN readers \cup {t} ELSE readers
  /\ lockInfo' = [lockInfo EXCEPT ![t] = Entry(@.count + 1, @.firstLockRead \/ @.count = 0)]
  /\ reads' = [reads EXCEPT ![t] = @ + 1]
  /\ Become(t, "idle")
  /\ UNCHANGED <<writers, writes, locks>>

(* The rest of lock_write().  M_ASSERT( ! lockInfo->_firstLockRead ) is not *)
(* there in a release build: a thread that has a read lock just counts its  *)
(* write guard.                                                             *)
LockWrite(t) ==
  /\ doing[t] = "lock_write"
  /\ lockInfo[t].count = 0 => readers = {} /\ writers = {}
  /\ writers' = IF lockInfo[t].count = 0 THEN writers \cup {t} ELSE writers
  /\ lockInfo' = [lockInfo EXCEPT ![t] = Entry(@.count + 1, @.firstLockRead)]
  /\ writes' = [writes EXCEPT ![t] = @ + 1]
  /\ Become(t, "idle")
  /\ UNCHANGED <<readers, reads, locks>>

(* unlock() up to the end of the scope of _mutex.  Guards are given back in *)
(* any order and unlock() is not told of which kind the guard is.           *)
CountOff(t) ==
  /\ doing[t] = "idle"
  /\ lockInfo[t].entry
  /\ \/ reads[t] > 0 /\ reads' = [reads EXCEPT ![t] = @ - 1] /\ UNCHANGED writes
     \/ writes[t] > 0 /\ writes' = [writes EXCEPT ![t] = @ - 1] /\ UNCHANGED reads
  /\ Become(t, IF lockInfo[t].count = 1 THEN "release" ELSE "idle")
  /\ lockInfo' = [lockInfo EXCEPT ![t] = IF @.count = 1 THEN NoEntry
                                         ELSE Entry(@.count - 1, @.firstLockRead)]
  /\ UNCHANGED <<readers, writers, locks>>

(* if ( last ) pthread_rwlock_unlock(), when the entry is gone already. *)
Release(t) ==
  /\ doing[t] = "release"
  /\ readers' = readers \ {t}
  /\ writers' = writers \ {t}
  /\ Become(t, "idle")
  /\ UNCHANGED <<lockInfo, reads, writes, locks>>

Continue(t) == LockRead(t) \/ LockWrite(t) \/ CountOff(t) \/ Release(t)

Next == \E t \in Threads: Find(t, "lock_read") \/ Find(t, "lock_write") \/ Continue(t)

Spec == Init /\ [][Next]_vars

(* A guard is an automatic object: its thread reaches the end of its scope. *)
Fairness == \A t \in Threads: WF_vars(Continue(t))

-----------------------------------------------------------------------------
TypeOK ==
  /\ lockInfo \in [Threads -> [entry: BOOLEAN, count: 0 .. MaxGuards, firstLockRead: BOOLEAN]]
  /\ readers \subseteq Threads /\ writers \subseteq Threads
  /\ doing \in [Threads -> {"idle", "lock_read", "lock_write", "release"}]
  /\ reads \in [Threads -> Nat] /\ writes \in [Threads -> Nat]
  /\ locks \in [Threads -> 0 .. MaxLocks]

(* A thread has a pthread lock, of the kind of its first guard, exactly     *)
(* while it has guards or is about to release it, although the entry that   *)
(* counts them is erased first; and _firstLockRead tells which kind.        *)
EntriesMatchLock ==
  \A t \in Threads:
    /\ lockInfo[t].count = reads[t] + writes[t]
    /\ lockInfo[t].count > 0 \/ doing[t] = "release" <=> t \in readers \cup writers
    /\ lockInfo[t].count > 0 => (lockInfo[t].firstLockRead <=> t \in readers)
    /\ ~(t \in readers /\ t \in writers)

(* The recursive lock implements the lock its users believe in: a thread    *)
(* that took a write guard first is alone until it gave back all its        *)
(* guards; _firstLockRead and _count tell which threads that are.           *)
Alone == {t \in Threads: lockInfo[t].count > 0 /\ ~lockInfo[t].firstLockRead}
Promise == INSTANCE AbstractReadWriteLock WITH alone <- Alone
ImplementsReadWriteLock == Promise!Spec

(* Every call returns: no order of nested guards, upgrades and last guards  *)
(* leaves the pthread lock held with nobody to release it.                  *)
LocksAreGranted == \A t \in Threads: doing[t] # "idle" ~> doing[t] = "idle"
=============================================================================
