-------------------------------- MODULE HTLS ---------------------------------
(***************************************************************************)
(* HTLS of src/hcore/htls.hxx: an object per thread, made at first use and *)
(* destroyed at the end of the thread or with the HTLS, and a set of them  *)
(* all under a mutex, for those who go through it.                         *)
(* An object is called like the thread it was made for.                    *)
(***************************************************************************)
EXTENDS Naturals, FiniteSets

CONSTANTS
  Users,         \* threads that use the HTLS
  Main,          \* the one that destroys it
  EndsMeet,      \* whether threads may end while the HTLS is destroyed
  NoUser,        \* the owner of a free mutex
  MaxVisits      \* bound: how often a thread goes through all objects

VARIABLES
  at,            \* what each thread is doing
  tlsMutex,      \* the owner of _mutex
  own,           \* threads whose value of _key is set
  instances,     \* _instances
  objects,       \* objects that exist
  toVisit,       \* what the owner of acquire() has still to look at
  visits,        \* how often each thread went through all (bounded by MaxVisits)
  ill            \* whether an object was used that did not exist

tlsVars == <<at, tlsMutex, own, instances, objects, toVisit, visits, ill>>

Init ==
  /\ at = [t \in Users |-> "running"]
  /\ tlsMutex = NoUser
  /\ own = {} /\ instances = {} /\ objects = {}
  /\ toVisit = {} /\ visits = [t \in Users |-> 0]
  /\ ill = FALSE

Goes(t, from, to) == at[t] = from /\ at' = [at EXCEPT ![t] = to]
Ended == at[Main] \in {"destroying", "gone"}

Lock(t) == tlsMutex = NoUser /\ tlsMutex' = t
Unlock(t) == tlsMutex = t /\ tlsMutex' = NoUser

(* operator->: the own object, which needs no lock. *)
Use(t) ==
  /\ at[t] = "running" /\ t \in own /\ ~ Ended
  /\ ill' = (ill \/ t \notin objects)
  /\ UNCHANGED <<at, tlsMutex, own, instances, objects, toVisit, visits>>

(* Or construct(). *)
ConstructLock(t) ==
  /\ Goes(t, "running", "constructing") /\ t \notin own /\ ~ Ended
  /\ Lock(t)
  /\ UNCHANGED <<own, instances, objects, toVisit, visits, ill>>

Construct(t) ==
  /\ Goes(t, "constructing", "running")
  /\ objects' = objects \cup {t}
  /\ instances' = instances \cup {t}
  /\ own' = own \cup {t}
  /\ Unlock(t)
  /\ UNCHANGED <<toVisit, visits, ill>>

(* The thread ends: its value is cleared, and destruct() called with it.   *)
ThreadEnds(t) ==
  /\ t # Main
  /\ Goes(t, "running", IF t \in own THEN "destructing" ELSE "gone")
  /\ EndsMeet \/ at[Main] # "destroying"
  /\ own' = own \ {t}
  /\ ill' = (ill \/ (t \in own /\ t \notin objects))
  /\ UNCHANGED <<tlsMutex, instances, objects, toVisit, visits>>

DestructLock(t) ==
  /\ Goes(t, "destructing", "erasing") /\ Lock(t)
  /\ UNCHANGED <<own, instances, objects, toVisit, visits, ill>>

Destruct(t) ==
  /\ Goes(t, "erasing", "gone")
  /\ instances' = instances \ {t}
  /\ ill' = (ill \/ t \notin objects)
  /\ objects' = objects \ {t}
  /\ Unlock(t)
  /\ UNCHANGED <<own, toVisit, visits>>

(* acquire(), and begin() to end() under the lock that it returns.         *)
Acquire(t) ==
  /\ Goes(t, "running", "visiting") /\ ~ Ended
  /\ visits[t] < MaxVisits /\ visits' = [visits EXCEPT ![t] = @ + 1]
  /\ Lock(t)
  /\ toVisit' = instances
  /\ UNCHANGED <<own, instances, objects, ill>>

Visit(t) ==
  /\ at[t] = "visiting"
  /\ \E o \in toVisit:
       /\ toVisit' = toVisit \ {o}
       /\ ill' = (ill \/ o \notin objects)
  /\ UNCHANGED <<at, tlsMutex, own, instances, objects, visits>>

Leave(t) ==
  /\ Goes(t, "visiting", "running") /\ toVisit = {}
  /\ Unlock(t)
  /\ UNCHANGED <<own, instances, objects, toVisit, visits, ill>>

(* ~HTLS(): nobody else works with it, but threads that did may still run. *)
DestroyLock ==
  /\ Goes(Main, "running", "destroying")
  /\ \A t \in Users \ {Main}: at[t] \in {"running", "gone"} \/ EndsMeet
  /\ Lock(Main)
  /\ UNCHANGED <<own, instances, objects, toVisit, visits, ill>>

Destroy ==
  /\ Goes(Main, "destroying", "gone")
  /\ ill' = (ill \/ ~ (instances \subseteq objects))
  /\ objects' = objects \ instances
  /\ instances' = {}
  /\ own' = {}
  /\ Unlock(Main)
  /\ UNCHANGED <<toVisit, visits>>

Next ==
  \/ \E t \in Users:
       \/ Use(t) \/ ConstructLock(t) \/ Construct(t)
       \/ ThreadEnds(t) \/ DestructLock(t) \/ Destruct(t)
       \/ Acquire(t) \/ Visit(t) \/ Leave(t)
  \/ DestroyLock \/ Destroy

Spec == Init /\ [][Next]_tlsVars

-----------------------------------------------------------------------------
TypeOK ==
  /\ at \in [Users -> {"running", "constructing", "destructing", "erasing", "visiting",
                       "destroying", "gone"}]
  /\ tlsMutex \in Users \cup {NoUser}
  /\ own \subseteq Users /\ instances \subseteq Users /\ objects \subseteq Users
  /\ toVisit \subseteq Users /\ visits \in [Users -> 0 .. MaxVisits]
  /\ ill \in BOOLEAN

(* No object is used, visited or destroyed when it does not exist: threads *)
(* that make theirs or end wait for those who go through all of them.      *)
ObjectsExist == ~ ill

(* Each object belongs to a thread that has not ended, and is in the set;  *)
(* when the HTLS is gone there is none.                                    *)
ObjectsAreOwned ==
  /\ objects = instances
  /\ own \subseteq objects
  /\ objects \subseteq own \cup {t \in Users: at[t] \in {"destructing", "erasing"}}
  /\ at[Main] = "gone" => objects = {}
=============================================================================
