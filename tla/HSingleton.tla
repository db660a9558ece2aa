----------------------------- MODULE HSingleton -----------------------------
(***************************************************************************)
(* HSingleton of src/hcore/hsingleton.hxx and HLifeTimeTracker of          *)
(* src/hcore/hsingleton.cxx: singletons made by the first thread that asks *)
(* for them, registered for destruction before they are constructed, and   *)
(* destroyed by the exit handlers of the process, the smallest life time   *)
(* first.  A thread keeps a stack of the calls of get_instance() it is in, *)
(* since constructors and destructors call it for the singletons they use. *)
(***************************************************************************)
EXTENDS Integers, Sequences, FiniteSets

CONSTANTS
  Singletons,
  LifeTime,      \* life_time() of each
  Uses,          \* the singletons its constructor and its destructor use
  Threads,
  Main,          \* the thread that calls exit()
  MaxGets        \* bound: singletons one thread asks for and does not find

Nobody == "nobody"

VARIABLES
  instances,     \* the singletons whose _instance is set
  classMutex,    \* who has the static mutex of get_instance(), for each class
  tracker,       \* who has HLifeTimeTracker::_mutex
  destructors,   \* _destructors: singletons by life time, then as registered
  handlers,      \* exit handlers still to be called
  exiting,       \* Main is in exit()
  stack,         \* what each thread is doing, the innermost call first
  gets           \* singletons each thread has asked for (bounded by MaxGets)

singletonVars == <<instances, classMutex, tracker, destructors, handlers, exiting, stack, gets>>

Init ==
  /\ instances = {}
  /\ classMutex = [s \in Singletons |-> Nobody]
  /\ tracker = Nobody
  /\ destructors = <<>>
  /\ handlers = 0
  /\ exiting = FALSE
  /\ stack = [t \in Threads |-> <<>>]
  /\ gets = [t \in Threads |-> 0]

At(t, point) == stack[t] # <<>> /\ Head(stack[t]).at = point
Subject(t)   == Head(stack[t]).of
Enter(t, s, point) == stack' = [stack EXCEPT ![t] = <<[of |-> s, at |-> point]>> \o @]
Proceed(t, point)  == stack' = [stack EXCEPT ![t] = <<[of |-> Head(@).of, at |-> point]>> \o Tail(@)]
Leave(t)           == stack' = [stack EXCEPT ![t] = Tail(@)]

-----------------------------------------------------------------------------
(* get_instance(): the test outside the mutex. *)
Get(t, s) ==
  /\ stack[t] = <<>>
  /\ t = Main => ~exiting
  /\ s \notin instances
  /\ gets[t] < MaxGets
  /\ gets' = [gets EXCEPT ![t] = @ + 1]
  /\ Enter(t, s, "lock")
  /\ UNCHANGED <<instances, classMutex, tracker, destructors, handlers, exiting>>

(* The lock, and the test under it. *)
Lock(t) ==
  /\ At(t, "lock")
  /\ classMutex[Subject(t)] = Nobody
  /\ IF Subject(t) \in instances
     THEN Leave(t) /\ UNCHANGED classMutex
     ELSE Proceed(t, "register") /\ classMutex' = [classMutex EXCEPT ![Subject(t)] = t]
  /\ UNCHANGED <<instances, tracker, destructors, handlers, exiting, gets>>

InsertAfter(q, i, x) == SubSeq(q, 1, i) \o <<x>> \o SubSeq(q, i + 1, Len(q))

(* register_destructor(), before the constructor runs: push_back() of a     *)
(* multi-map puts the newest after the others of its life time.             *)
RegisterOnTop(t) ==
  /\ At(t, "register")
  /\ tracker = Nobody
  /\ destructors' = <<Subject(t)>> \o destructors
  /\ handlers' = handlers + 1
  /\ Proceed(t, "construct")
  /\ UNCHANGED <<instances, classMutex, tracker, exiting, gets>>

Register(t) ==
  /\ At(t, "register")
  /\ tracker = Nobody
  /\ \E i \in 0 .. Len(destructors):
       /\ \A j \in DOMAIN destructors:
            j <= i <=> LifeTime[destructors[j]] <= LifeTime[Subject(t)]
       /\ destructors' = InsertAfter(destructors, i, Subject(t))
  /\ handlers' = handlers + 1
  /\ Proceed(t, "construct")
  /\ UNCHANGED <<instances, classMutex, tracker, exiting, gets>>

(* A constructor or a destructor asks for a singleton that is not there. *)
UseMissing(t) ==
  /\ At(t, "construct") \/ (At(t, "destruct") /\ Subject(t) \in instances)
  /\ \E n \in Uses[Subject(t)] \ instances: Enter(t, n, "lock")
  /\ UNCHANGED <<instances, classMutex, tracker, destructors, handlers, exiting, gets>>

Construct(t) ==
  /\ At(t, "construct")
  /\ Uses[Subject(t)] \subseteq instances
  /\ instances' = instances \cup {Subject(t)}
  /\ classMutex' = [classMutex EXCEPT ![Subject(t)] = Nobody]
  /\ Leave(t)
  /\ UNCHANGED <<tracker, destructors, handlers, exiting, gets>>

-----------------------------------------------------------------------------
Exit ==
  /\ ~exiting
  /\ stack[Main] = <<>>
  /\ exiting' = TRUE
  /\ UNCHANGED <<instances, classMutex, tracker, destructors, handlers, stack, gets>>

(* do_destruct(), once for every registration: _mutex is kept while the     *)
(* object is destroyed.                                                     *)
DestructFirst ==
  /\ exiting /\ stack[Main] = <<>>
  /\ handlers > 0
  /\ tracker = Nobody
  /\ destructors # <<>>
  /\ tracker' = Main
  /\ handlers' = handlers - 1
  /\ destructors' = Tail(destructors)
  /\ Enter(Main, Head(destructors), "destruct")
  /\ UNCHANGED <<instances, classMutex, exiting, gets>>

(* HDestructor::destruct(): what is registered may not be constructed yet. *)
Destruct ==
  /\ At(Main, "destruct")
  /\ Subject(Main) \in instances => Uses[Subject(Main)] \subseteq instances
  /\ instances' = instances \ {Subject(Main)}
  /\ tracker' = Nobody
  /\ Leave(Main)
  /\ UNCHANGED <<classMutex, destructors, handlers, exiting, gets>>

Continue(t) == Lock(t) \/ Register(t) \/ UseMissing(t) \/ Construct(t)

Next ==
  \/ \E t \in Threads: \/ \E s \in Singletons: Get(t, s)
                       \/ Continue(t)
  \/ Exit \/ DestructFirst \/ Destruct

Spec == Init /\ [][Next]_singletonVars

-----------------------------------------------------------------------------
TypeOK ==
  /\ instances \subseteq Singletons
  /\ classMutex \in [Singletons -> Threads \cup {Nobody}]
  /\ tracker \in {Main, Nobody}
  /\ destructors \in Seq(Singletons)
  /\ handlers \in Nat /\ exiting \in BOOLEAN
  /\ stack \in [Threads -> Seq([of: Singletons, at: {"lock", "register", "construct", "destruct"}])]

(* M_ASSERT( ! _instance ) in create_instance(): whoever constructs a       *)
(* singleton is the only one to do so, and it is not there yet.             *)
ConstructedOnce ==
  \A t \in Threads: At(t, "register") \/ At(t, "construct") =>
    /\ Subject(t) \notin instances
    /\ classMutex[Subject(t)] = t

(* M_ASSERT( it != _destructors.end() ): an exit handler finds a destructor.*)
HandlersHaveDestructors == handlers = Len(destructors)

(* The singletons that a destructor uses are still there, although those    *)
(* that use others are registered before them, or after when the others     *)
(* exist already: the destructor would make them again and wait for the     *)
(* mutex of the tracker that its own thread holds.                          *)
UsedOutlivesUser ==
  At(Main, "destruct") /\ Subject(Main) \in instances => Uses[Subject(Main)] \subseteq instances
=============================================================================
