--------------------------- MODULE ServicesProofs ---------------------------
(***************************************************************************)
(* What Services says of its parts holds for every value of its constants: *)
(* each part has an inductive invariant of its own, and the composition    *)
(* takes no step of a part that is no step of its specification.           *)
(***************************************************************************)
EXTENDS Services, SequenceTheorems, FiniteSetTheorems, TLAPS

-----------------------------------------------------------------------------
(* Threads, for any number of incarnations, with and without failures of    *)
(* pthread_create.                                                          *)

(* The units that the child has signalled and nobody has consumed yet are   *)
(* known from the two program points.                                       *)
Units(owners, children, n) ==
  owner \in owners /\ child \in children => semaphore = n

TokenInv ==
  /\ Units({"spawning"}, {"created", "announce"}, 0)
  /\ Units({"spawning"}, {"calling", "returned", "bury"}, 1)
  /\ Units({"spawning"}, {"leaving", "over"}, 2)
  /\ Units({"idle", "finishing", "destroyFinishing"}, Children \ {"leaving", "over"}, 0)
  /\ Units({"idle", "finishing", "destroyFinishing"}, {"leaving", "over"}, 1)
  /\ Units({"joining", "destroyJoining", "destroyed"}, Children, 0)

(* Where the child can be, given where the owner is and what _status says.  *)
ChildInv ==
  /\ owner = "spawning" => child # "none"
  /\ child \in {"created", "announce"} => owner = "spawning"
  /\ owner \in {"joining", "destroyJoining"} => child \in {"leaving", "over"}
  /\ owner = "destroyed" => child = "none"
  /\ status = "DEAD" => child = "none"
  /\ child = "created" => status = "SPAWNING"
  /\ child \in {"bury", "leaving", "over"} => status = "ZOMBIE"

Inv == TypeOK /\ TokenInv /\ ChildInv

LEMMA InitInv == Init => Inv
<1> SUFFICES ASSUME Init PROVE Inv
  OBVIOUS
<1>1. stacked \in BOOLEAN /\ polls \in BOOLEAN
  BY Zenon DEF Init
<1>2. /\ status \in Statuses /\ semaphore \in Nat /\ owner \in Owners
      /\ child \in Children /\ thrown \in Thrown /\ spawns \in 0 .. MaxSpawns
  BY SpawnsAssumption DEF Init, Statuses, Owners, Children, Thrown
<1>3. TokenInv /\ ChildInv
  BY DEF Init, TokenInv, ChildInv, Units, Children
<1> QED
  BY <1>1, <1>2, <1>3, Zenon DEF Inv, TypeOK

LEMMA NextInv == Inv /\ [Next]_vars => Inv'
<1> SUFFICES ASSUME Inv, [Next]_vars PROVE Inv'
  OBVIOUS
<1> USE SpawnsAssumption
        DEF Inv, TypeOK, TokenInv, ChildInv, Units, Statuses, Owners, Children, Thrown
<1>1. CASE SpawnRefused
  BY <1>1 DEF SpawnRefused
<1>2. CASE SpawnFails
  BY <1>2 DEF SpawnFails
<1>3. CASE Spawn
  <2> HIDE DEF Inv, TypeOK
  <2>1. stacked' \in BOOLEAN /\ polls' \in BOOLEAN
    BY <1>3, Zenon DEF Spawn, Inv, TypeOK
  <2>2. /\ status' \in Statuses /\ semaphore' \in Nat /\ owner' \in Owners
        /\ child' \in Children /\ thrown' \in Thrown /\ spawns' \in 0 .. MaxSpawns
    BY <1>3 DEF Spawn, Inv, TypeOK
  <2>3. TokenInv' /\ ChildInv'
    BY <1>3 DEF Spawn, Inv, TypeOK
  <2> QED
    BY <2>1, <2>2, <2>3, Zenon DEF Inv, TypeOK
<1>4. CASE SpawnReturn
  BY <1>4 DEF SpawnReturn
<1>5. CASE FinishRefused
  BY <1>5 DEF FinishRefused
<1>6. CASE Finish
  BY <1>6 DEF Finish
<1>7. CASE FinishWait
  BY <1>7 DEF FinishWait
<1>8. CASE FinishJoin
  BY <1>8 DEF FinishJoin
<1>9. CASE Destroy
  BY <1>9 DEF Destroy
<1>10. CASE SetAlive
  BY <1>10 DEF SetAlive, Control
<1>11. CASE Announce
  BY <1>11 DEF Announce, Control
<1>12. CASE CallReturns
  BY <1>12 DEF CallReturns, Control
<1>13. CASE SetZombie
  BY <1>13 DEF SetZombie, Control
<1>14. CASE Bury
  BY <1>14 DEF Bury, Control
<1>15. CASE Leave
  BY <1>15 DEF Leave, Control
<1>16. CASE ScheduleFinish
  BY <1>16 DEF ScheduleFinish, Locked
<1>17. CASE UNCHANGED vars
  BY <1>17 DEF vars
<1> QED
  BY <1>1, <1>2, <1>3, <1>4, <1>5, <1>6, <1>7, <1>8, <1>9, <1>10, <1>11, <1>12,
     <1>13, <1>14, <1>15, <1>16, <1>17 DEF Next, OwnerCalls, OwnerReturns, ChildRuns

(* The types of the variables, in every reachable state. *)
THEOREM ThreadTypes == Spec => []TypeOK
<1>1. Inv => TypeOK
  BY DEF Inv
<1> QED
  BY InitInv, NextInv, <1>1, PTL DEF Spec

(* No child is left to touch an HThread that is DEAD or destroyed. *)
THEOREM ChildNeverOutlivesObject == Spec => []ChildIsJoined
<1>1. Inv => ChildIsJoined
  BY DEF Inv, ChildInv, ChildIsJoined
<1> QED
  BY InitInv, NextInv, <1>1, PTL DEF Spec

(* No unit of the semaphore is carried over to the next incarnation. *)
THEOREM NoUnitIsLeft == Spec => []SignalsAreMatched
<1>1. Inv => SignalsAreMatched
  BY DEF Inv, TypeOK, Owners, Children, ChildInv, TokenInv, Units, SignalsAreMatched
<1> QED
  BY InitInv, NextInv, <1>1, PTL DEF Spec

(* A request to finish that was accepted stays until the thread is joined. *)
THEOREM RequestIsKept == Spec => FinishRequestIsKept
<1>1. Inv /\ [Next]_vars => [status = "ZOMBIE" => status' \in {"ZOMBIE", "DEAD"}]_vars
  BY DEF Inv, ChildInv, Next, OwnerCalls, OwnerReturns, ChildRuns, vars,
         SpawnRefused, SpawnFails, Spawn, SpawnReturn, FinishRefused, Finish,
         FinishWait, FinishJoin, Destroy, Control, SetAlive, Announce,
         CallReturns, SetZombie, Bury, Leave, ScheduleFinish
<1> QED
  BY InitInv, NextInv, <1>1, PTL DEF Spec, FinishRequestIsKept

(* When pthread_create never fails, finish() never waits without a thread. *)
THEOREM FinishHasAThread == ~ CreateMayFail => (Spec => []FinishWaitsForAThread)
<1> SUFFICES ASSUME ~ CreateMayFail PROVE Spec => []FinishWaitsForAThread
  OBVIOUS
<1> DEFINE J == child = "none" => owner \in {"idle", "destroyed"} /\ status = "DEAD"
<1>1. Init => J
  BY DEF Init
<1>2. Inv /\ J /\ [Next]_vars => J'
  BY CreateAssumption
     DEF Inv, ChildInv, Next, OwnerCalls, OwnerReturns, ChildRuns, vars,
         SpawnRefused, SpawnFails, Spawn, SpawnReturn, FinishRefused, Finish,
         FinishWait, FinishJoin, Destroy, Control, SetAlive, Announce,
         CallReturns, SetZombie, Bury, Leave, ScheduleFinish
<1>3. J => FinishWaitsForAThread
  BY DEF FinishWaitsForAThread
<1> HIDE DEF J
<1> QED
  BY InitInv, NextInv, <1>1, <1>2, <1>3, PTL DEF Spec

-----------------------------------------------------------------------------
(* Singletons. *)

(* Main is a thread, and none is called nobody.                             *)
LEMMA MainIsAThread == Main \in Threads /\ Singleton!Nobody \notin Threads
BY NamesAssumption DEF Singleton!Nobody

(* What a stack of get() calls of a thread holds.                           *)
Stages == {"lock", "register", "construct", "destruct"}
StackFrames == [of: Singletons, at: Stages]

(* s has a destructor, Main is executing one, and that of which singleton.  *)
IsRegistered(s) == \E i \in DOMAIN destructors: destructors[i] = s
Holds(c) == c.at \in {"register", "construct"}
Destructing == stack[Main] # <<>> /\ stack[Main][1].at = "destruct"
Destructed == stack[Main][1].of

(* The calls of a thread: who registers or constructs a singleton has its   *)
(* mutex, and only once; a destructor is all that Main executes.            *)
StackInv(t) ==
  \A i \in DOMAIN stack[t]:
    /\ Holds(stack[t][i]) =>
         /\ classMutex[stack[t][i].of] = t
         /\ stack[t][i].of \notin instances
         /\ \A j \in DOMAIN stack[t]: Holds(stack[t][j]) /\ stack[t][j].of = stack[t][i].of => i = j
    /\ stack[t][i].at = "destruct" => t = Main /\ Len(stack[t]) = 1
ConstructorsInv == \A t \in Threads: StackInv(t)
(* The destructors are in the order of their life times, those called came  *)
(* before all that are left, and there is an exit handler for each.         *)
DestructorsInv ==
  /\ \A i, j \in DOMAIN destructors: i <= j => LifeTime[destructors[i]] <= LifeTime[destructors[j]]
  /\ Destructing => \A i \in DOMAIN destructors: LifeTime[Destructed] <= LifeTime[destructors[i]]
  /\ exitHandlers = Len(destructors)
  /\ Destructing <=> tracker = Main
(* Nothing that a singleton with a destructor uses is destroyed.            *)
UsesInv ==
  \A s \in instances:
    IsRegistered(s) \/ (Destructing /\ Destructed = s) => Uses[s] \subseteq instances
SingletonInv == Singleton!TypeOK /\ ConstructorsInv /\ DestructorsInv /\ UsesInv

LEMMA TwoOrMore == \A n \in Nat \ {0}: n # 1 => n \in Nat /\ n >= 2
OBVIOUS

(* What HSingleton makes of a stack.                                        *)
LEMMA PushFacts ==
  ASSUME NEW S, NEW q \in Seq(S), NEW x \in S
  PROVE  /\ <<x>> \o q \in Seq(S)
         /\ Len(<<x>> \o q) = Len(q) + 1
         /\ (<<x>> \o q)[1] = x
         /\ \A i \in 2 .. Len(q) + 1: (<<x>> \o q)[i] = q[i - 1]
OBVIOUS

LEMMA PopFacts ==
  ASSUME NEW S, NEW q \in Seq(S), q # <<>>
  PROVE  /\ Tail(q) \in Seq(S)
         /\ Head(q) = q[1] /\ q[1] \in S
         /\ Len(Tail(q)) = Len(q) - 1 /\ Len(q) \in Nat \ {0}
         /\ \A i \in 1 .. Len(q) - 1: Tail(q)[i] = q[i + 1]
OBVIOUS

LEMMA ReplaceFacts ==
  ASSUME NEW S, NEW q \in Seq(S), q # <<>>, NEW x \in S
  PROVE  /\ <<x>> \o Tail(q) \in Seq(S)
         /\ Len(<<x>> \o Tail(q)) = Len(q) /\ Len(q) \in Nat \ {0}
         /\ (<<x>> \o Tail(q))[1] = x
         /\ \A i \in 2 .. Len(q): (<<x>> \o Tail(q))[i] = q[i]
BY PopFacts, PushFacts

(* Where the elements are after register_destructor() inserted one.         *)
LEMMA InsertFacts ==
  ASSUME NEW S, NEW q \in Seq(S), NEW n \in 0 .. Len(q), NEW x \in S
  PROVE  /\ Singleton!InsertAfter(q, n, x) \in Seq(S)
         /\ Len(Singleton!InsertAfter(q, n, x)) = Len(q) + 1
         /\ \A i \in 1 .. n: Singleton!InsertAfter(q, n, x)[i] = q[i]
         /\ Singleton!InsertAfter(q, n, x)[n + 1] = x
         /\ \A i \in n + 2 .. Len(q) + 1: Singleton!InsertAfter(q, n, x)[i] = q[i - 1]
<1> DEFINE l == SubSeq(q, 1, n)  r == SubSeq(q, n + 1, Len(q))
<1>1. Len(q) \in Nat /\ \A i \in 1 .. Len(q): q[i] \in S
  OBVIOUS
<1>2. l \in Seq(S) /\ Len(l) = n /\ \A i \in 1 .. n: l[i] = q[i]
  BY <1>1, SubSeqProperties
<1>3. r \in Seq(S) /\ Len(r) = Len(q) - n /\ \A i \in 1 .. Len(q) - n: r[i] = q[n + i]
  <2>1. \A i \in n + 1 .. Len(q): q[i] \in S
    BY <1>1
  <2>2. /\ r \in Seq(S) /\ Len(r) = IF n + 1 <= Len(q) THEN Len(q) - (n + 1) + 1 ELSE 0
        /\ \A i \in 1 .. Len(q) - (n + 1) + 1: r[i] = q[n + 1 + i - 1]
    BY <2>1, <1>1, SubSeqProperties
  <2> QED  BY <2>2, <1>1
<1> HIDE DEF l, r
<1>4. /\ l \o <<x>> \in Seq(S) /\ Len(l \o <<x>>) = n + 1
      /\ (l \o <<x>>)[n + 1] = x /\ \A i \in 1 .. n: (l \o <<x>>)[i] = q[i]
  <2>1. <<x>> \in Seq(S) /\ Len(<<x>>) = 1 /\ <<x>>[1] = x
    OBVIOUS
  <2>2. /\ l \o <<x>> \in Seq(S) /\ Len(l \o <<x>>) = n + 1
        /\ \A i \in 1 .. n + 1: (l \o <<x>>)[i] = IF i <= n THEN l[i] ELSE <<x>>[i - n]
    BY <1>2, <2>1, ConcatProperties
  <2>3. n + 1 \in 1 .. n + 1 /\ ~(n + 1 <= n) /\ n + 1 - n = 1
        /\ \A i \in 1 .. n: i \in 1 .. n + 1 /\ i <= n
    BY <1>1
  <2> QED  BY <1>2, <2>1, <2>2, <2>3
<1> DEFINE b == l \o <<x>>
<1> HIDE DEF b
<1>5. /\ b \o r \in Seq(S) /\ Len(b \o r) = Len(q) + 1
      /\ \A i \in 1 .. Len(q) + 1: (b \o r)[i] = IF i <= n + 1 THEN b[i] ELSE r[i - (n + 1)]
  BY <1>1, <1>3, <1>4, ConcatProperties DEF b
<1>6. Singleton!InsertAfter(q, n, x) = b \o r
  BY Zenon DEF b, l, r, Singleton!InsertAfter
<1>7. \A i \in 1 .. n: (b \o r)[i] = q[i]
  BY <1>1, <1>4, <1>5 DEF b
<1>8. (b \o r)[n + 1] = x
  BY <1>1, <1>4, <1>5 DEF b
<1>9. \A i \in n + 2 .. Len(q) + 1: (b \o r)[i] = q[i - 1]
  <2> TAKE i \in n + 2 .. Len(q) + 1
  <2>1. (b \o r)[i] = r[i - (n + 1)] /\ i - (n + 1) \in 1 .. Len(q) - n
    BY <1>1, <1>5
  <2>2. r[i - (n + 1)] = q[n + (i - (n + 1))]
    BY <2>1, <1>3
  <2>3. n + (i - (n + 1)) = i - 1
    BY <1>1
  <2> QED  BY <2>1, <2>2, <2>3
<1> QED  BY <1>5, <1>6, <1>7, <1>8, <1>9

(* The stack of a thread after get() is called, goes on and returns.        *)
LEMMA EnterFacts ==
  ASSUME Singleton!TypeOK, NEW t \in Threads, NEW s \in Singletons, NEW point \in Stages,
         Singleton!Enter(t, s, point)
  PROVE  /\ stack' \in [Threads -> Seq(StackFrames)]
         /\ \A u \in Threads \ {t}: stack'[u] = stack[u]
         /\ Len(stack[t]) \in Nat /\ Len(stack'[t]) = Len(stack[t]) + 1
         /\ stack'[t][1] = [of |-> s, at |-> point]
         /\ \A i \in 2 .. Len(stack[t]) + 1: stack'[t][i] = stack[t][i - 1]
<1> DEFINE top == [of |-> s, at |-> point]
<1>1. stack \in [Threads -> Seq(StackFrames)] /\ stack[t] \in Seq(StackFrames)
  BY DEF Singleton!TypeOK, StackFrames, Stages
<1>2. top \in StackFrames
  BY DEF StackFrames
<1> HIDE DEF top
<1>3. stack' = [stack EXCEPT ![t] = <<top>> \o @]
  BY DEF Singleton!Enter, top
<1>4. stack'[t] = <<top>> \o stack[t] /\ Len(stack[t]) \in Nat
  BY <1>1, <1>3
<1>5. <<top>> \o stack[t] \in Seq(StackFrames)
  BY <1>1, <1>2, PushFacts
<1>6. stack' \in [Threads -> Seq(StackFrames)] /\ \A u \in Threads \ {t}: stack'[u] = stack[u]
  BY <1>1, <1>3, <1>5
<1> QED  BY <1>1, <1>2, <1>4, <1>6, PushFacts DEF top

LEMMA ProceedFacts ==
  ASSUME Singleton!TypeOK, NEW t \in Threads, stack[t] # <<>>, NEW point \in Stages, Singleton!Proceed(t, point)
  PROVE  /\ stack' \in [Threads -> Seq(StackFrames)]
         /\ \A u \in Threads \ {t}: stack'[u] = stack[u]
         /\ Len(stack[t]) \in Nat \ {0} /\ Len(stack'[t]) = Len(stack[t])
         /\ stack'[t][1] = [of |-> stack[t][1].of, at |-> point]
         /\ \A i \in 2 .. Len(stack[t]): stack'[t][i] = stack[t][i]
<1> DEFINE top == [of |-> stack[t][1].of, at |-> point]
<1>1. stack \in [Threads -> Seq(StackFrames)] /\ stack[t] \in Seq(StackFrames)
  BY DEF Singleton!TypeOK, StackFrames, Stages
<1>2. stack[t][1] \in StackFrames /\ Head(stack[t]) = stack[t][1]
  BY <1>1, PopFacts
<1>3. top \in StackFrames
  BY <1>2 DEF StackFrames
<1>4. stack' = [stack EXCEPT ![t] = <<top>> \o Tail(@)]
  BY <1>2 DEF Singleton!Proceed
<1> HIDE DEF top
<1>5. stack'[t] = <<top>> \o Tail(stack[t])
  BY <1>1, <1>4
<1>6. <<top>> \o Tail(stack[t]) \in Seq(StackFrames)
  BY <1>1, <1>3, ReplaceFacts
<1>7. stack' \in [Threads -> Seq(StackFrames)] /\ \A u \in Threads \ {t}: stack'[u] = stack[u]
  BY <1>1, <1>4, <1>6
<1> QED  BY <1>1, <1>3, <1>5, <1>7, ReplaceFacts DEF top

LEMMA LeaveFacts ==
  ASSUME Singleton!TypeOK, NEW t \in Threads, stack[t] # <<>>, Singleton!Leave(t)
  PROVE  /\ stack' \in [Threads -> Seq(StackFrames)]
         /\ \A u \in Threads \ {t}: stack'[u] = stack[u]
         /\ Len(stack[t]) \in Nat \ {0} /\ Len(stack'[t]) = Len(stack[t]) - 1
         /\ \A i \in 1 .. Len(stack[t]) - 1: stack'[t][i] = stack[t][i + 1]
<1>1. stack \in [Threads -> Seq(StackFrames)] /\ stack[t] \in Seq(StackFrames)
  BY DEF Singleton!TypeOK, StackFrames, Stages
<1>2. Tail(stack[t]) \in Seq(StackFrames)
  BY <1>1, PopFacts
<1>3. stack'[t] = Tail(stack[t])
  BY <1>1 DEF Singleton!Leave
<1>4. stack' \in [Threads -> Seq(StackFrames)] /\ \A u \in Threads \ {t}: stack'[u] = stack[u]
  BY <1>1, <1>2 DEF Singleton!Leave
<1> QED  BY <1>1, <1>3, <1>4, PopFacts

(* The innermost call of a thread.                                          *)
LEMMA AtFacts ==
  ASSUME Singleton!TypeOK, NEW t \in Threads, NEW point, Singleton!At(t, point)
  PROVE  /\ stack[t] # <<>> /\ Len(stack[t]) \in Nat \ {0} /\ DOMAIN stack[t] = 1 .. Len(stack[t])
         /\ stack[t][1].at = point /\ Singleton!Subject(t) = stack[t][1].of
         /\ Singleton!Subject(t) \in Singletons
<1>1. stack[t] \in Seq(StackFrames)
  BY DEF Singleton!TypeOK, StackFrames, Stages
<1>2. stack[t] # <<>>
  BY DEF Singleton!At
<1>3. Head(stack[t]) = stack[t][1] /\ stack[t][1] \in StackFrames /\ Len(stack[t]) \in Nat \ {0}
  BY <1>1, <1>2, PopFacts
<1> QED  BY <1>1, <1>2, <1>3 DEF Singleton!At, Singleton!Subject, StackFrames

LEMMA StacksAreSequences ==
  ASSUME Singleton!TypeOK, NEW t \in Threads
  PROVE  Len(stack[t]) \in Nat /\ DOMAIN stack[t] = 1 .. Len(stack[t]) /\ (stack[t] = <<>> <=> Len(stack[t]) = 0)
BY DEF Singleton!TypeOK

LEMMA ElementsAreFrames ==
  ASSUME Singleton!TypeOK, NEW t \in Threads
  PROVE  \A i \in DOMAIN stack[t]: stack[t][i] \in StackFrames /\ stack[t][i].of \in Singletons
<1>1. stack[t] \in Seq(StackFrames)
  BY DEF Singleton!TypeOK, StackFrames, Stages
<1>2. \A i \in DOMAIN stack[t]: stack[t][i] \in StackFrames
  BY <1>1
<1> QED  BY <1>2 DEF StackFrames

(* What a thread destroys is unchanged by the other threads, and by Main     *)
(* while it is not destroying and does not begin to.                         *)
LEMMA OthersDoNotDestroy ==
  ASSUME SingletonInv, Singleton!TypeOK', NEW t \in Threads,
         \A u \in Threads \ {t}: stack'[u] = stack[u],
         t = Main => ~Destructing /\ ~Destructing'
  PROVE  (Destructing' <=> Destructing) /\ (Destructing => Destructed' = Destructed)
BY MainIsAThread DEF Destructing, Destructed

(* One step each of the invariant.                                          *)
LEMMA GetKeeps ==
  ASSUME SingletonInv, NEW t \in Threads, NEW s \in Singletons, Singleton!Get(t, s)
  PROVE  SingletonInv'
<1> USE DEF Singleton!Get
<1>1. "lock" \in Stages /\ Singleton!TypeOK
  BY DEF SingletonInv, Stages
<1>2. /\ stack' \in [Threads -> Seq(StackFrames)] /\ \A u \in Threads \ {t}: stack'[u] = stack[u]
      /\ Len(stack'[t]) = 1 /\ stack'[t][1] = [of |-> s, at |-> "lock"]
  <2>1. Singleton!Enter(t, s, "lock") /\ Len(stack[t]) = 0
    OBVIOUS
  <2> HIDE DEF Singleton!Get
  <2>2. /\ stack' \in [Threads -> Seq(StackFrames)] /\ \A u \in Threads \ {t}: stack'[u] = stack[u]
        /\ Len(stack'[t]) = Len(stack[t]) + 1 /\ stack'[t][1] = [of |-> s, at |-> "lock"]
    BY <1>1, <2>1, EnterFacts
  <2> QED  BY <2>1, <2>2
<1>3. Singleton!TypeOK'
  BY <1>1, <1>2 DEF Singleton!TypeOK, StackFrames, Stages
<1>4. ConstructorsInv'
  <2> SUFFICES ASSUME NEW u \in Threads PROVE StackInv(u)'
    BY DEF ConstructorsInv
  <2>1. CASE u = t
    BY <1>2, <1>3, <2>1, StacksAreSequences DEF StackInv, Holds, Singleton!TypeOK
  <2>2. CASE u # t
    <3>1. stack'[u] = stack[u] /\ UNCHANGED <<instances, classMutex>> /\ StackInv(u)
      BY <1>2, <2>2 DEF SingletonInv, ConstructorsInv
    <3> QED  BY <3>1 DEF StackInv, Holds
  <2> QED  BY <2>1, <2>2
<1>5. t = Main => ~Destructing /\ ~Destructing'
  BY <1>2 DEF Destructing
<1>6. (Destructing' <=> Destructing) /\ (Destructing => Destructed' = Destructed)
  BY <1>2, <1>3, <1>5, OthersDoNotDestroy
<1> QED  BY <1>3, <1>4, <1>6 DEF SingletonInv, DestructorsInv, UsesInv, IsRegistered

LEMMA SingletonLockKeeps ==
  ASSUME SingletonInv, NEW t \in Threads, Singleton!Lock(t)
  PROVE  SingletonInv'
<1> DEFINE s == Singleton!Subject(t)
<1>1. /\ Singleton!TypeOK /\ stack[t] # <<>> /\ Len(stack[t]) \in Nat \ {0}
      /\ DOMAIN stack[t] = 1 .. Len(stack[t])
      /\ stack[t][1].at = "lock" /\ s = stack[t][1].of /\ s \in Singletons
  BY AtFacts DEF SingletonInv, Singleton!Lock
<1>2. \A i \in DOMAIN stack[t]: stack[t][i].at # "destruct"
  BY <1>1 DEF SingletonInv, ConstructorsInv, StackInv
<1>3. classMutex[s] = Singleton!Nobody /\ classMutex \in [Singletons -> Threads \cup {Singleton!Nobody}]
  BY <1>1 DEF Singleton!Lock, Singleton!TypeOK
<1>4. \A u \in Threads: \A i \in DOMAIN stack[u]: Holds(stack[u][i]) => stack[u][i].of # s
  BY <1>3, MainIsAThread DEF SingletonInv, ConstructorsInv, StackInv
<1> HIDE DEF s
<1>5. CASE s \in instances
  <2>1. Singleton!Leave(t) /\ UNCHANGED classMutex
    BY <1>5 DEF Singleton!Lock, s
  <2>2. /\ stack' \in [Threads -> Seq(StackFrames)] /\ \A u \in Threads \ {t}: stack'[u] = stack[u]
        /\ Len(stack'[t]) = Len(stack[t]) - 1
        /\ \A i \in 1 .. Len(stack[t]) - 1: stack'[t][i] = stack[t][i + 1]
    BY <1>1, <2>1, LeaveFacts
  <2>3. Singleton!TypeOK'
    BY <1>1, <2>1, <2>2 DEF Singleton!TypeOK, StackFrames, Stages, Singleton!Lock
  <2>4. DOMAIN stack'[t] = 1 .. Len(stack[t]) - 1
    BY <2>2
  <2>5. ConstructorsInv'
    <3> SUFFICES ASSUME NEW u \in Threads PROVE StackInv(u)'
      BY DEF ConstructorsInv
    <3>1. CASE u = t
      <4> SUFFICES ASSUME NEW i \in 1 .. Len(stack[t]) - 1
                   PROVE  /\ Holds(stack'[t][i]) =>
                               /\ classMutex'[stack'[t][i].of] = t
                               /\ stack'[t][i].of \notin instances'
                               /\ \A j \in DOMAIN stack'[t]:
                                    Holds(stack'[t][j]) /\ stack'[t][j].of = stack'[t][i].of => i = j
                          /\ stack'[t][i].at # "destruct"
        BY <2>4, <3>1 DEF StackInv, Holds
      <4>1. i + 1 \in DOMAIN stack[t] /\ stack'[t][i] = stack[t][i + 1]
        BY <1>1, <2>2
      <4>2. \A j \in DOMAIN stack'[t]: j + 1 \in DOMAIN stack[t] /\ stack'[t][j] = stack[t][j + 1]
                                       /\ (i + 1 = j + 1 => i = j)
        BY <1>1, <2>2, <2>4
      <4>3. StackInv(t) /\ UNCHANGED instances
        BY DEF SingletonInv, ConstructorsInv, Singleton!Lock
      <4> QED  BY <1>2, <2>1, <4>1, <4>2, <4>3 DEF StackInv
    <3>2. CASE u # t
      <4>1. stack'[u] = stack[u] /\ UNCHANGED <<instances, classMutex>> /\ StackInv(u)
        BY <2>1, <2>2, <3>2 DEF SingletonInv, ConstructorsInv, Singleton!Lock
      <4> QED  BY <4>1 DEF StackInv, Holds
    <3> QED  BY <3>1, <3>2
  <2>6. t = Main => ~Destructing /\ ~Destructing'
    <3>1. CASE Len(stack[t]) = 1
      <4>1. stack'[t] = <<>>
        BY <2>2, <3>1
      <4> QED  BY <1>1, <4>1 DEF Destructing
    <3>2. CASE Len(stack[t]) # 1
      <4>1. stack'[t][1] = stack[t][2] /\ 2 \in DOMAIN stack[t]
        <5>1. Len(stack[t]) \in Nat /\ Len(stack[t]) >= 2
          BY <1>1, <3>2, TwoOrMore
        <5> QED  BY <1>1, <2>2, <5>1
      <4> QED  BY <1>1, <1>2, <4>1 DEF Destructing
    <3> QED  BY <3>1, <3>2
  <2>7. (Destructing' <=> Destructing) /\ (Destructing => Destructed' = Destructed)
    BY <2>2, <2>3, <2>6, OthersDoNotDestroy
  <2> QED  BY <2>3, <2>5, <2>7
              DEF SingletonInv, DestructorsInv, UsesInv, IsRegistered, Singleton!Lock
<1>6. CASE s \notin instances
  <2>1. Singleton!Proceed(t, "register") /\ classMutex' = [classMutex EXCEPT ![s] = t]
    BY <1>6 DEF Singleton!Lock, s
  <2>2. /\ stack' \in [Threads -> Seq(StackFrames)] /\ \A u \in Threads \ {t}: stack'[u] = stack[u]
        /\ Len(stack'[t]) = Len(stack[t])
        /\ stack'[t][1] = [of |-> s, at |-> "register"]
        /\ \A i \in 2 .. Len(stack[t]): stack'[t][i] = stack[t][i]
    BY <1>1, <2>1, ProceedFacts DEF Stages
  <2>3. Singleton!TypeOK'
    BY <1>1, <1>3, <2>1, <2>2 DEF Singleton!TypeOK, StackFrames, Stages, Singleton!Lock
  <2>4. DOMAIN stack'[t] = DOMAIN stack[t]
    BY <1>1, <2>2
  <2>5. /\ classMutex'[s] = t /\ s \notin instances' /\ instances' = instances
        /\ \A r \in Singletons \ {s}: classMutex'[r] = classMutex[r]
    BY <1>1, <1>3, <1>6, <2>1 DEF Singleton!Lock
  <2>6. \A u \in Threads: \A i \in DOMAIN stack[u]: stack[u][i].of \in Singletons
    BY <1>1, ElementsAreFrames
  <2>7. ConstructorsInv'
    <3> SUFFICES ASSUME NEW u \in Threads PROVE StackInv(u)'
      BY DEF ConstructorsInv
    <3>1. CASE u = t
      <4>1. \A i \in DOMAIN stack[t]: i # 1 => stack'[t][i] = stack[t][i] /\ (Holds(stack'[t][i]) => stack'[t][i].of # s)
        BY <1>1, <1>4, <2>2
      <4> QED  BY <1>1, <1>2, <2>2, <2>4, <2>5, <2>6, <3>1, <4>1
                  DEF SingletonInv, ConstructorsInv, StackInv, Holds
    <3>2. CASE u # t
      <4>1. stack'[u] = stack[u] /\ StackInv(u) /\ UNCHANGED instances
        BY <2>2, <2>5, <3>2 DEF SingletonInv, ConstructorsInv
      <4>2. \A i \in DOMAIN stack[u]: Holds(stack[u][i]) => classMutex'[stack[u][i].of] = classMutex[stack[u][i].of]
        BY <1>4, <2>5, <2>6
      <4> QED  BY <4>1, <4>2 DEF StackInv, Holds
    <3> QED  BY <3>1, <3>2
  <2>8. t = Main => ~Destructing /\ ~Destructing'
    BY <1>1, <2>2 DEF Destructing
  <2>9. (Destructing' <=> Destructing) /\ (Destructing => Destructed' = Destructed)
    BY <2>2, <2>3, <2>8, OthersDoNotDestroy
  <2> QED  BY <2>3, <2>7, <2>9
              DEF SingletonInv, DestructorsInv, UsesInv, IsRegistered, Singleton!Lock
<1> QED  BY <1>5, <1>6

LEMMA SingletonRegisterKeeps ==
  ASSUME SingletonInv, NEW t \in Threads, Singleton!Register(t)
  PROVE  SingletonInv'
<1> DEFINE s == Singleton!Subject(t)
<1>1. /\ Singleton!TypeOK /\ stack[t] # <<>> /\ Len(stack[t]) \in Nat \ {0}
      /\ DOMAIN stack[t] = 1 .. Len(stack[t])
      /\ stack[t][1].at = "register" /\ s = stack[t][1].of /\ s \in Singletons
  BY AtFacts DEF SingletonInv, Singleton!Register
<1>2. ~Destructing /\ Singleton!Proceed(t, "construct") /\ UNCHANGED <<instances, classMutex, tracker, exiting, gets>>
  BY MainIsAThread DEF SingletonInv, DestructorsInv, Singleton!Register
<1>3. s \notin instances
  BY <1>1 DEF SingletonInv, ConstructorsInv, StackInv, Holds
<1>4. PICK n \in 0 .. Len(destructors):
         /\ \A j \in DOMAIN destructors: j <= n <=> LifeTime[destructors[j]] <= LifeTime[s]
         /\ destructors' = Singleton!InsertAfter(destructors, n, s)
  BY DEF Singleton!Register
<1>5. destructors \in Seq(Singletons) /\ Len(destructors) \in Nat /\ DOMAIN destructors = 1 .. Len(destructors)
  BY <1>1 DEF Singleton!TypeOK
<1> HIDE DEF s
<1>6. /\ destructors' \in Seq(Singletons) /\ Len(destructors') = Len(destructors) + 1
      /\ \A i \in 1 .. n: destructors'[i] = destructors[i]
      /\ destructors'[n + 1] = s
      /\ \A i \in n + 2 .. Len(destructors) + 1: destructors'[i] = destructors[i - 1]
  <2>1. /\ Singleton!InsertAfter(destructors, n, s) \in Seq(Singletons)
        /\ Len(Singleton!InsertAfter(destructors, n, s)) = Len(destructors) + 1
        /\ \A i \in 1 .. n: Singleton!InsertAfter(destructors, n, s)[i] = destructors[i]
        /\ Singleton!InsertAfter(destructors, n, s)[n + 1] = s
        /\ \A i \in n + 2 .. Len(destructors) + 1: Singleton!InsertAfter(destructors, n, s)[i] = destructors[i - 1]
    <3>1. n \in 0 .. Len(destructors) /\ s \in Singletons /\ destructors \in Seq(Singletons)
      BY <1>1, <1>4, <1>5
    <3>2. Singleton!InsertAfter(destructors, n, s) \in Seq(Singletons)
      BY <3>1, InsertFacts
    <3>3. Len(Singleton!InsertAfter(destructors, n, s)) = Len(destructors) + 1
      BY <3>1, InsertFacts
    <3>4. \A i \in 1 .. n: Singleton!InsertAfter(destructors, n, s)[i] = destructors[i]
      BY <3>1, InsertFacts
    <3>5. Singleton!InsertAfter(destructors, n, s)[n + 1] = s
      BY <3>1, InsertFacts
    <3>6. \A i \in n + 2 .. Len(destructors) + 1: Singleton!InsertAfter(destructors, n, s)[i] = destructors[i - 1]
      BY <3>1, InsertFacts
    <3> QED  BY <3>2, <3>3, <3>4, <3>5, <3>6
  <2> QED  BY <1>4, <2>1
<1>7. DOMAIN destructors' = 1 .. Len(destructors) + 1
  BY <1>6
<1>8. /\ stack' \in [Threads -> Seq(StackFrames)] /\ \A u \in Threads \ {t}: stack'[u] = stack[u]
      /\ Len(stack'[t]) = Len(stack[t])
      /\ stack'[t][1] = [of |-> s, at |-> "construct"]
      /\ \A i \in 2 .. Len(stack[t]): stack'[t][i] = stack[t][i]
  BY <1>1, <1>2, ProceedFacts DEF Stages, s
<1>9. Singleton!TypeOK'
  <2>1. exitHandlers' \in Nat
    BY <1>1 DEF Singleton!TypeOK, Singleton!Register
  <2> QED  BY <1>1, <1>2, <1>6, <1>8, <2>1 DEF Singleton!TypeOK, StackFrames, Stages
<1>10. ConstructorsInv'
  <2> SUFFICES ASSUME NEW u \in Threads PROVE StackInv(u)'
    BY DEF ConstructorsInv
  <2>1. StackInv(u)
    BY DEF SingletonInv, ConstructorsInv
  <2>2. CASE u = t
    <3>1. DOMAIN stack'[t] = DOMAIN stack[t]
      BY <1>1, <1>8
    <3>2. \A i \in DOMAIN stack[t]: /\ Holds(stack'[t][i]) <=> Holds(stack[t][i])
                                    /\ stack'[t][i].of = stack[t][i].of
                                    /\ stack'[t][i].at = "destruct" <=> stack[t][i].at = "destruct"
      <4> TAKE i \in DOMAIN stack[t]
      <4>1. CASE i = 1
        BY <1>1, <1>8, <4>1 DEF Holds
      <4>2. CASE i # 1
        BY <1>1, <1>8, <4>2 DEF Holds
      <4> QED  BY <4>1, <4>2
    <3> QED  BY <1>2, <1>8, <2>1, <2>2, <3>1, <3>2 DEF StackInv, Holds
  <2>3. CASE u # t
    BY <1>2, <1>8, <2>1, <2>3 DEF StackInv, Holds
  <2> QED  BY <2>2, <2>3
<1>11. ~Destructing' /\ tracker' # Main
  <2>1. t = Main => ~Destructing'
    BY <1>1, <1>8 DEF Destructing
  <2>2. (Destructing' <=> Destructing)
    BY <1>2, <1>8, <1>9, <2>1, OthersDoNotDestroy
  <2> QED  BY <1>2, <2>2 DEF SingletonInv, DestructorsInv
<1>12. DestructorsInv'
  <2>1. exitHandlers' = Len(destructors')
    BY <1>6 DEF SingletonInv, DestructorsInv, Singleton!Register
  <2>2. ASSUME NEW i \in DOMAIN destructors', NEW j \in DOMAIN destructors', i <= j
        PROVE  LifeTime[destructors'[i]] <= LifeTime[destructors'[j]]
    <3>1. \A k \in DOMAIN destructors: LifeTime[destructors[k]] \in Nat
      BY <1>5, SingletonAssumption
    <3>2. LifeTime[s] \in Nat
      BY <1>1, SingletonAssumption
    <3>3. CASE i <= n
      <4>1. i \in DOMAIN destructors /\ destructors'[i] = destructors[i]
        BY <1>5, <1>6, <1>7, <3>3
      <4>2. LifeTime[destructors[i]] <= LifeTime[s]
        BY <1>4, <3>3, <4>1
      <4>3. CASE j <= n
        BY <1>5, <1>6, <1>7, <2>2, <4>1, <4>3 DEF SingletonInv, DestructorsInv
      <4>4. CASE j = n + 1
        BY <1>6, <4>1, <4>2, <4>4
      <4>5. CASE j > n + 1
        <5>1. j - 1 \in DOMAIN destructors /\ destructors'[j] = destructors[j - 1] /\ ~(j - 1 <= n)
          BY <1>5, <1>6, <1>7, <4>5
        <5>2. ~(LifeTime[destructors[j - 1]] <= LifeTime[s])
          BY <1>4, <5>1
        <5> QED  BY <3>1, <3>2, <4>1, <4>2, <5>1, <5>2
      <4> QED  BY <1>7, <4>3, <4>4, <4>5
    <3>4. CASE i = n + 1
      <4>1. CASE j = n + 1
        BY <1>6, <3>2, <3>4, <4>1
      <4>2. CASE j > n + 1
        <5>1. j - 1 \in DOMAIN destructors /\ destructors'[j] = destructors[j - 1] /\ ~(j - 1 <= n)
          BY <1>5, <1>6, <1>7, <4>2
        <5>2. ~(LifeTime[destructors[j - 1]] <= LifeTime[s])
          BY <1>4, <5>1
        <5> QED  BY <1>6, <3>1, <3>2, <3>4, <5>1, <5>2
      <4> QED  BY <1>7, <2>2, <3>4, <4>1, <4>2
    <3>5. CASE i > n + 1
      <4>1. /\ i - 1 \in DOMAIN destructors /\ destructors'[i] = destructors[i - 1]
            /\ j - 1 \in DOMAIN destructors /\ destructors'[j] = destructors[j - 1]
            /\ i - 1 <= j - 1
        BY <1>5, <1>6, <1>7, <2>2, <3>5
      <4> QED  BY <4>1 DEF SingletonInv, DestructorsInv
    <3> QED  BY <1>7, <3>3, <3>4, <3>5
  <2> QED  BY <1>11, <2>1, <2>2 DEF DestructorsInv
<1>13. UsesInv'
  <2>1. \A r \in instances: IsRegistered(r)' => IsRegistered(r)
    <3> SUFFICES ASSUME NEW r \in instances, NEW i \in DOMAIN destructors', destructors'[i] = r
                 PROVE  \E k \in DOMAIN destructors: destructors[k] = r
      BY DEF IsRegistered
    <3>1. i # n + 1
      BY <1>3, <1>6
    <3>2. CASE i <= n
      BY <1>5, <1>6, <1>7, <3>2
    <3>3. CASE i > n + 1
      <4>1. i - 1 \in DOMAIN destructors /\ destructors'[i] = destructors[i - 1]
        BY <1>5, <1>6, <1>7, <3>3
      <4> QED  BY <4>1
    <3> QED  BY <1>7, <3>1, <3>2, <3>3
  <2> QED  BY <1>2, <1>11, <2>1 DEF SingletonInv, UsesInv
<1> QED  BY <1>9, <1>10, <1>12, <1>13 DEF SingletonInv

LEMMA UseMissingKeeps ==
  ASSUME SingletonInv, NEW t \in Threads, Singleton!UseMissing(t)
  PROVE  SingletonInv'
<1> DEFINE s == Singleton!Subject(t)
<1>1. /\ Singleton!TypeOK /\ stack[t] # <<>> /\ Len(stack[t]) \in Nat \ {0}
      /\ DOMAIN stack[t] = 1 .. Len(stack[t])
      /\ stack[t][1].at \in {"construct", "destruct"}
      /\ s = stack[t][1].of /\ s \in Singletons
  BY AtFacts DEF SingletonInv, Singleton!UseMissing
<1>2. PICK n \in Uses[s] \ instances: Singleton!Enter(t, n, "lock")
  BY DEF Singleton!UseMissing
<1>3. UNCHANGED <<instances, classMutex, tracker, destructors, exitHandlers, exiting, gets>>
  BY DEF Singleton!UseMissing
<1>4. stack[t][1].at # "destruct"
  <2> SUFFICES ASSUME stack[t][1].at = "destruct" PROVE FALSE
    OBVIOUS
  <2>1. s \in instances
    BY <1>1 DEF Singleton!UseMissing, Singleton!At
  <2>2. t = Main
    BY <1>1 DEF SingletonInv, ConstructorsInv, StackInv
  <2>3. Destructing /\ Destructed = s
    BY <1>1, <2>2 DEF Destructing, Destructed
  <2> QED  BY <1>2, <2>1, <2>3 DEF SingletonInv, UsesInv
<1>5. n \in Singletons
  BY <1>1, <1>2, SingletonAssumption
<1> HIDE DEF s
<1>6. \A i \in DOMAIN stack[t]: stack[t][i].at # "destruct"
  BY <1>1, <1>4 DEF SingletonInv, ConstructorsInv, StackInv
<1>7. /\ stack' \in [Threads -> Seq(StackFrames)] /\ \A u \in Threads \ {t}: stack'[u] = stack[u]
      /\ Len(stack'[t]) = Len(stack[t]) + 1
      /\ stack'[t][1] = [of |-> n, at |-> "lock"]
      /\ \A i \in 2 .. Len(stack[t]) + 1: stack'[t][i] = stack[t][i - 1]
  BY <1>1, <1>2, <1>5, EnterFacts DEF Stages
<1>8. Singleton!TypeOK'
  BY <1>1, <1>3, <1>7 DEF Singleton!TypeOK, StackFrames, Stages
<1>9. ConstructorsInv'
  <2> SUFFICES ASSUME NEW u \in Threads PROVE StackInv(u)'
    BY DEF ConstructorsInv
  <2>1. StackInv(u)
    BY DEF SingletonInv, ConstructorsInv
  <2>2. CASE u = t
    <3>1. DOMAIN stack'[t] = 1 .. Len(stack[t]) + 1
      BY <1>7
    <3>2. ~Holds(stack'[t][1]) /\ stack'[t][1].at # "destruct"
      BY <1>7 DEF Holds
    <3>3. \A i \in DOMAIN stack'[t]: i # 1 => i - 1 \in DOMAIN stack[t] /\ stack'[t][i] = stack[t][i - 1]
      BY <1>1, <1>7, <3>1
    <3>4. \A i, j \in DOMAIN stack'[t]: i - 1 = j - 1 => i = j
      BY <1>1, <3>1
    <3> QED  BY <1>3, <1>6, <2>1, <2>2, <3>2, <3>3, <3>4 DEF StackInv, Holds
  <2>3. CASE u # t
    BY <1>3, <1>7, <2>1, <2>3 DEF StackInv, Holds
  <2> QED  BY <2>2, <2>3
<1>10. t = Main => ~Destructing /\ ~Destructing'
  BY <1>4, <1>7 DEF Destructing
<1>11. (Destructing' <=> Destructing) /\ (Destructing => Destructed' = Destructed)
  BY <1>7, <1>8, <1>10, OthersDoNotDestroy
<1> QED  BY <1>3, <1>8, <1>9, <1>11 DEF SingletonInv, DestructorsInv, UsesInv, IsRegistered

LEMMA SingletonConstructKeeps ==
  ASSUME SingletonInv, NEW t \in Threads, Singleton!Construct(t)
  PROVE  SingletonInv'
<1> DEFINE s == Singleton!Subject(t)
<1>1. /\ Singleton!TypeOK /\ stack[t] # <<>> /\ Len(stack[t]) \in Nat \ {0}
      /\ DOMAIN stack[t] = 1 .. Len(stack[t])
      /\ stack[t][1].at = "construct" /\ s = stack[t][1].of /\ s \in Singletons
  BY AtFacts DEF SingletonInv, Singleton!Construct
<1>2. /\ Uses[s] \subseteq instances /\ instances' = instances \cup {s}
      /\ classMutex' = [classMutex EXCEPT ![s] = Singleton!Nobody]
      /\ Singleton!Leave(t) /\ UNCHANGED <<tracker, destructors, exitHandlers, exiting, gets>>
  BY DEF Singleton!Construct
<1> HIDE DEF s
<1>3. \A i \in DOMAIN stack[t]: stack[t][i].at # "destruct"
  BY <1>1 DEF SingletonInv, ConstructorsInv, StackInv
<1>4. 1 \in DOMAIN stack[t] /\ StackInv(t)
  BY <1>1 DEF SingletonInv, ConstructorsInv
<1>5. classMutex[s] = t /\ \A i \in DOMAIN stack[t]: Holds(stack[t][i]) /\ stack[t][i].of = s => i = 1
  BY <1>1, <1>4 DEF StackInv, Holds
<1>6. \A u \in Threads: \A i \in DOMAIN stack[u]: stack[u][i].of \in Singletons
  BY <1>1, ElementsAreFrames
<1>7. /\ stack' \in [Threads -> Seq(StackFrames)] /\ \A u \in Threads \ {t}: stack'[u] = stack[u]
      /\ Len(stack'[t]) = Len(stack[t]) - 1
      /\ \A i \in 1 .. Len(stack[t]) - 1: stack'[t][i] = stack[t][i + 1]
  BY <1>1, <1>2, LeaveFacts
<1>8. Singleton!TypeOK'
  BY <1>1, <1>2, <1>7 DEF Singleton!TypeOK, StackFrames, Stages
<1>9. \A r \in Singletons \ {s}: classMutex'[r] = classMutex[r] /\ (r \in instances' <=> r \in instances)
  BY <1>1, <1>2 DEF Singleton!TypeOK
<1>10. ConstructorsInv'
  <2> SUFFICES ASSUME NEW u \in Threads PROVE StackInv(u)'
    BY DEF ConstructorsInv
  <2>1. StackInv(u)
    BY DEF SingletonInv, ConstructorsInv
  <2>2. CASE u = t
    <3>1. DOMAIN stack'[t] = 1 .. Len(stack[t]) - 1
      BY <1>1, <1>7
    <3>2. \A i \in DOMAIN stack'[t]:
            /\ i + 1 \in DOMAIN stack[t] /\ i + 1 # 1 /\ stack'[t][i] = stack[t][i + 1]
            /\ \A j \in DOMAIN stack'[t]: i + 1 = j + 1 => i = j
      BY <1>1, <1>7, <3>1
    <3>3. \A i \in DOMAIN stack'[t]: Holds(stack'[t][i]) => stack'[t][i].of \in Singletons \ {s}
      BY <1>5, <1>6, <3>2
    <3> QED  BY <1>3, <1>9, <2>1, <2>2, <3>2, <3>3 DEF StackInv, Holds
  <2>3. CASE u # t
    <3>1. \A i \in DOMAIN stack[u]: Holds(stack[u][i]) => stack[u][i].of \in Singletons \ {s}
      BY <1>5, <1>6, <2>1, <2>3 DEF StackInv
    <3> QED  BY <1>7, <1>9, <2>1, <2>3, <3>1 DEF StackInv, Holds
  <2> QED  BY <2>2, <2>3
<1>11. t = Main => ~Destructing /\ ~Destructing'
  <2>1. CASE Len(stack[t]) = 1
    <3>1. stack'[t] = <<>>
      BY <1>7, <2>1
    <3> QED  BY <1>1, <3>1 DEF Destructing
  <2>2. CASE Len(stack[t]) # 1
    <3>1. Len(stack[t]) \in Nat /\ Len(stack[t]) >= 2
      BY <1>1, <2>2, TwoOrMore
    <3>2. stack'[t][1] = stack[t][2] /\ 2 \in DOMAIN stack[t]
      BY <1>1, <1>7, <3>1
    <3> QED  BY <1>1, <1>3, <3>2 DEF Destructing
  <2> QED  BY <2>1, <2>2
<1>12. (Destructing' <=> Destructing) /\ (Destructing => Destructed' = Destructed)
  BY <1>7, <1>8, <1>11, OthersDoNotDestroy
<1>13. DestructorsInv'
  BY <1>2, <1>12 DEF SingletonInv, DestructorsInv
<1>14. UsesInv'
  BY <1>2, <1>12 DEF SingletonInv, UsesInv, IsRegistered
<1> QED  BY <1>8, <1>10, <1>13, <1>14 DEF SingletonInv

LEMMA DestructFirstKeeps ==
  ASSUME SingletonInv, Singleton!DestructFirst
  PROVE  SingletonInv'
<1> DEFINE s == Head(destructors)
<1>1. /\ stack[Main] = <<>> /\ exitHandlers > 0 /\ tracker = Singleton!Nobody /\ destructors # <<>>
      /\ tracker' = Main /\ exitHandlers' = exitHandlers - 1 /\ destructors' = Tail(destructors)
      /\ Singleton!Enter(Main, s, "destruct") /\ UNCHANGED <<instances, classMutex, exiting, gets>>
  BY DEF Singleton!DestructFirst
<1>2. Singleton!TypeOK /\ Main \in Threads /\ exitHandlers \in Nat /\ destructors \in Seq(Singletons)
  BY MainIsAThread DEF SingletonInv, Singleton!TypeOK
<1>3. /\ destructors' \in Seq(Singletons) /\ s = destructors[1] /\ s \in Singletons
      /\ Len(destructors') = Len(destructors) - 1 /\ Len(destructors) \in Nat \ {0}
      /\ \A i \in 1 .. Len(destructors) - 1: destructors'[i] = destructors[i + 1]
  BY <1>1, <1>2, PopFacts
<1> HIDE DEF s
<1>4. Len(stack[Main]) = 0
  BY <1>1
<1>5. /\ stack' \in [Threads -> Seq(StackFrames)] /\ \A u \in Threads \ {Main}: stack'[u] = stack[u]
      /\ Len(stack'[Main]) = Len(stack[Main]) + 1
      /\ stack'[Main][1] = [of |-> s, at |-> "destruct"]
  BY <1>1, <1>2, <1>3, EnterFacts DEF Stages
<1>6. Singleton!TypeOK'
  <2>1. exitHandlers' \in Nat
    BY <1>1, <1>2
  <2> QED  BY <1>1, <1>2, <1>3, <1>5, <2>1 DEF Singleton!TypeOK, StackFrames, Stages
<1>7. ConstructorsInv'
  <2> SUFFICES ASSUME NEW u \in Threads PROVE StackInv(u)'
    BY DEF ConstructorsInv
  <2>1. StackInv(u)
    BY DEF SingletonInv, ConstructorsInv
  <2>2. CASE u = Main
    <3>1. Len(stack'[Main]) = 1 /\ DOMAIN stack'[Main] = 1 .. 1
      BY <1>2, <1>4, <1>5
    <3>2. \A i \in DOMAIN stack'[Main]: i = 1
      BY <3>1
    <3>3. ~Holds(stack'[Main][1])
      BY <1>5 DEF Holds
    <3> QED  BY <2>2, <3>1, <3>2, <3>3 DEF StackInv, Holds
  <2>3. CASE u # Main
    BY <1>1, <1>5, <2>1, <2>3 DEF StackInv, Holds
  <2> QED  BY <2>2, <2>3
<1>8. Destructing' /\ Destructed' = s
  <2>1. stack'[Main] # <<>>
    BY <1>4, <1>5
  <2> QED  BY <1>5, <2>1 DEF Destructing, Destructed
<1>9. \A i \in DOMAIN destructors': i + 1 \in DOMAIN destructors /\ destructors'[i] = destructors[i + 1]
  BY <1>2, <1>3
<1>10. DestructorsInv'
  <2>1. exitHandlers' = Len(destructors')
    BY <1>1, <1>2, <1>3 DEF SingletonInv, DestructorsInv
  <2>2. \A i, j \in DOMAIN destructors': i <= j => i + 1 <= j + 1
    BY <1>3
  <2>3. \A i \in DOMAIN destructors': 1 \in DOMAIN destructors /\ 1 <= i + 1
    BY <1>2, <1>3
  <2> QED  BY <1>1, <1>3, <1>8, <1>9, <2>1, <2>2, <2>3 DEF SingletonInv, DestructorsInv
<1>11. UsesInv'
  <2>1. IsRegistered(s) /\ \A r \in instances: IsRegistered(r)' => IsRegistered(r)
    BY <1>2, <1>3, <1>9 DEF IsRegistered
  <2> QED  BY <1>1, <1>8, <2>1 DEF SingletonInv, UsesInv
<1> QED  BY <1>6, <1>7, <1>10, <1>11 DEF SingletonInv

LEMMA DestructKeeps ==
  ASSUME SingletonInv, Singleton!Destruct
  PROVE  SingletonInv'
<1> DEFINE s == Singleton!Subject(Main)
<1>1. /\ Singleton!TypeOK /\ Main \in Threads
      /\ stack[Main] # <<>> /\ Len(stack[Main]) \in Nat \ {0}
      /\ DOMAIN stack[Main] = 1 .. Len(stack[Main])
      /\ stack[Main][1].at = "destruct" /\ s = stack[Main][1].of /\ s \in Singletons
  BY AtFacts, MainIsAThread DEF SingletonInv, Singleton!Destruct
<1>2. /\ instances' = instances \ {s} /\ tracker' = Singleton!Nobody /\ Singleton!Leave(Main)
      /\ UNCHANGED <<classMutex, destructors, exitHandlers, exiting, gets>>
  BY DEF Singleton!Destruct
<1> HIDE DEF s
<1>3. Len(stack[Main]) = 1
  BY <1>1 DEF SingletonInv, ConstructorsInv, StackInv
<1>4. Destructing /\ Destructed = s
  BY <1>1 DEF Destructing, Destructed
<1>5. /\ stack' \in [Threads -> Seq(StackFrames)] /\ \A u \in Threads \ {Main}: stack'[u] = stack[u]
      /\ Len(stack'[Main]) = Len(stack[Main]) - 1
  BY <1>1, <1>2, LeaveFacts
<1>6. stack'[Main] = <<>> /\ DOMAIN stack'[Main] = {}
  BY <1>1, <1>3, <1>5
<1>7. Singleton!TypeOK'
  BY <1>1, <1>2, <1>5 DEF Singleton!TypeOK, StackFrames, Stages
<1>8. ConstructorsInv'
  <2> SUFFICES ASSUME NEW u \in Threads PROVE StackInv(u)'
    BY DEF ConstructorsInv
  <2>1. StackInv(u)
    BY DEF SingletonInv, ConstructorsInv
  <2>2. CASE u = Main
    BY <1>6, <2>2 DEF StackInv
  <2>3. CASE u # Main
    BY <1>2, <1>5, <2>1, <2>3 DEF StackInv, Holds
  <2> QED  BY <2>2, <2>3
<1>9. ~Destructing' /\ tracker' # Main
  BY <1>2, <1>6, MainIsAThread DEF Destructing
<1>10. DestructorsInv'
  BY <1>2, <1>9 DEF SingletonInv, DestructorsInv
<1>11. UsesInv'
  <2> SUFFICES ASSUME NEW r \in instances \ {s}, IsRegistered(r)
               PROVE  Uses[r] \subseteq instances \ {s}
    BY <1>2, <1>9 DEF UsesInv, IsRegistered
  <2>1. r \in Singletons /\ LifeTime[s] \in Nat /\ LifeTime[r] \in Nat
    BY <1>1, SingletonAssumption DEF Singleton!TypeOK
  <2>2. LifeTime[s] <= LifeTime[r]
    BY <1>4 DEF SingletonInv, DestructorsInv, IsRegistered
  <2>3. s \notin Uses[r]
    BY <1>1, <2>1, <2>2, SingletonAssumption
  <2> QED  BY <2>3 DEF SingletonInv, UsesInv
<1> QED  BY <1>7, <1>8, <1>10, <1>11 DEF SingletonInv

LEMMA ExitKeeps ==
  ASSUME SingletonInv, Singleton!Exit
  PROVE  SingletonInv'
BY ZenonT(60) DEF Singleton!Exit, SingletonInv, Singleton!TypeOK, ConstructorsInv, StackInv, Holds,
       DestructorsInv, UsesInv, IsRegistered, Destructing, Destructed

LEMMA SingletonInitInv == Singleton!Init => SingletonInv
<1> SUFFICES ASSUME Singleton!Init PROVE SingletonInv
  OBVIOUS
<1>1. Singleton!TypeOK
  <2>1. <<>> \in Seq(Singletons) /\ <<>> \in Seq(StackFrames)
    BY EmptySeq
  <2>2. stack \in [Threads -> Seq(StackFrames)]
    BY <2>1 DEF Singleton!Init
  <2> QED  BY <2>1, <2>2 DEF Singleton!Init, Singleton!TypeOK, StackFrames, Stages
<1>2. ConstructorsInv /\ ~Destructing
  BY MainIsAThread DEF Singleton!Init, ConstructorsInv, StackInv, Destructing
<1>3. Len(destructors) = 0 /\ DOMAIN destructors = {} /\ tracker # Main
  BY MainIsAThread DEF Singleton!Init
<1> QED  BY <1>1, <1>2, <1>3 DEF Singleton!Init, SingletonInv, DestructorsInv, UsesInv, IsRegistered

(* The invariant holds in all behaviours of HSingleton.                     *)
THEOREM SingletonsAreSafe == Singleton!Spec => []SingletonInv
<1>1. SingletonInv /\ [Singleton!Next]_(Singleton!singletonVars) => SingletonInv'
  <2> SUFFICES ASSUME SingletonInv, [Singleton!Next]_(Singleton!singletonVars) PROVE SingletonInv'
    OBVIOUS
  <2>1. CASE UNCHANGED Singleton!singletonVars
    <3>1. UNCHANGED <<instances, classMutex, tracker, destructors, exitHandlers, exiting, stack, gets>>
      BY <2>1 DEF Singleton!singletonVars
    <3>2. Singleton!TypeOK' /\ ConstructorsInv'
      BY ZenonT(60), <3>1 DEF SingletonInv, Singleton!TypeOK, ConstructorsInv, StackInv, Holds
    <3>3. DestructorsInv' /\ UsesInv'
      BY <3>1 DEF SingletonInv, DestructorsInv, UsesInv, IsRegistered, Destructing, Destructed
    <3> QED  BY <3>2, <3>3 DEF SingletonInv
  <2>2. CASE Singleton!Next
    BY <2>2, GetKeeps, SingletonLockKeeps, SingletonRegisterKeeps, UseMissingKeeps,
       SingletonConstructKeeps, DestructFirstKeeps, DestructKeeps, ExitKeeps
       DEF Singleton!Next, Singleton!Continue
  <2> QED  BY <2>1, <2>2
<1> QED  BY <1>1, SingletonInitInv, PTL DEF Singleton!Spec

(* A singleton is constructed by one thread, each exit handler finds a      *)
(* destructor, and no destructor uses what is destroyed: the life times     *)
(* order the destructors, whichever threads register them when.             *)
THEOREM SingletonsCorrect == Singleton!Spec =>
  [](Singleton!UsedOutlivesUser /\ Singleton!ConstructedOnce /\ Singleton!HandlersHaveDestructors)
<1>1. SingletonInv => Singleton!UsedOutlivesUser
  <2> SUFFICES ASSUME SingletonInv, Singleton!At(Main, "destruct"), Singleton!Subject(Main) \in instances
               PROVE  Uses[Singleton!Subject(Main)] \subseteq instances
    BY DEF Singleton!UsedOutlivesUser
  <2>1. Destructing /\ Destructed = Singleton!Subject(Main)
    BY AtFacts, MainIsAThread DEF SingletonInv, Destructing, Destructed
  <2> QED  BY <2>1 DEF SingletonInv, UsesInv
<1>2. SingletonInv => Singleton!ConstructedOnce
  <2> SUFFICES ASSUME SingletonInv, NEW t \in Threads, Singleton!At(t, "register") \/ Singleton!At(t, "construct")
               PROVE  Singleton!Subject(t) \notin instances /\ classMutex[Singleton!Subject(t)] = t
    BY DEF Singleton!ConstructedOnce
  <2>1. 1 \in DOMAIN stack[t] /\ Holds(stack[t][1]) /\ Singleton!Subject(t) = stack[t][1].of
    BY AtFacts DEF SingletonInv, Holds
  <2> QED  BY <2>1 DEF SingletonInv, ConstructorsInv, StackInv
<1>3. SingletonInv => Singleton!HandlersHaveDestructors
  BY DEF SingletonInv, DestructorsInv, Singleton!HandlersHaveDestructors
<1> QED  BY <1>1, <1>2, <1>3, SingletonsAreSafe, PTL

-----------------------------------------------------------------------------
(* Scheduled calls. *)

(* Moments are numbers.                                                     *)
ClockInv ==
  /\ wanted \in [DOMAIN wanted -> Int] /\ handed \in [DOMAIN handed -> Int]
  /\ wakeAt \in Int
(* A call in the queue is keyed by the second it was wanted in, or it is    *)
(* late already.                                                            *)
QueueInv ==
  \A q \in scheduled:
    /\ q.call \in DOMAIN wanted /\ q.key <= wanted[q.call]
    /\ wanted[q.call] < q.key + Second \/ wanted[q.call] <= clock
(* A sleep ends less than a second after the key of the first call.         *)
SleepInv ==
  /\ runner = "asleep" /\ loop =>
       \A q \in scheduled: wakeAt # Scheduler!Never /\ clock <= wakeAt /\ wakeAt < q.key + Second
  /\ runner = "returned" => ~loop
SchedulerInv ==
  /\ Scheduler!TypeOK /\ ClockInv /\ QueueInv /\ SleepInv
  /\ Scheduler!NotBeforeItsSecond /\ Scheduler!LateByLessThanASecond

(* A moment without its fraction of a second. *)
LEMMA Parts ==
  ASSUME NEW n \in Int, NEW q \in Int, NEW r \in 0 .. Second - 1, n = q * Second + r
  PROVE  n - r \in Int /\ n - r <= n /\ n < (n - r) + Second /\ n - r = q * Second
BY ClockAssumption

LEMMA WholeFacts ==
  ASSUME NEW n \in Int
  PROVE  /\ Scheduler!Whole(n) \in Int /\ Scheduler!Whole(n) <= n
         /\ n < Scheduler!Whole(n) + Second
         /\ \E q \in Int: Scheduler!Whole(n) = q * Second
<1>1. n \div Second \in Int
  BY ClockAssumption
<1>2. n % Second \in 0 .. Second - 1
  BY ClockAssumption
<1>3. n = (n \div Second) * Second + (n % Second)
  BY ClockAssumption
<1> QED
  BY <1>1, <1>2, <1>3, Parts, Zenon DEF Scheduler!Whole

(* HTime::now() is the clock in whole seconds.                              *)
LEMMA NowFacts ==
  ASSUME Scheduler!TypeOK
  PROVE  /\ clock \in Nat /\ Second \in Nat \ {0}
         /\ Scheduler!Now \in Int /\ Scheduler!Now <= clock /\ clock < Scheduler!Now + Second
<1>1. clock \in Nat /\ Second \in Nat \ {0}
  BY ClockAssumption DEF Scheduler!TypeOK
<1> QED  BY <1>1, WholeFacts DEF Scheduler!Now

(* A whole second that is less than a second before a moment is not before  *)
(* the second of that moment.                                               *)
LEMMA MultiplesAreApart ==
  ASSUME NEW j \in Int, NEW k \in Int, j * Second < k * Second + Second
  PROVE  j * Second <= k * Second
<1>1. Second \in Nat \ {0}
  BY ClockAssumption
<1>2. (j - k) * Second < Second
  <2>1. (j - k) * Second = j * Second - k * Second
    BY <1>1
  <2> QED  BY <1>1, <2>1
<1>3. j - k <= 0
  <2>1. SUFFICES ASSUME j - k >= 1 PROVE FALSE
    OBVIOUS
  <2>2. (j - k) * Second >= Second
    BY <1>1, <2>1
  <2> QED  BY <1>1, <1>2, <2>2
<1> QED  BY <1>1, <1>3

LEMMA SecondOfAMoment ==
  ASSUME Scheduler!TypeOK, NEW w \in Int,
         w < Scheduler!Now + Second \/ w <= clock
  PROVE  Scheduler!Whole(w) <= clock
<1>1. /\ clock \in Nat /\ Second \in Nat \ {0}
      /\ Scheduler!Now \in Int /\ Scheduler!Now <= clock
  BY NowFacts
<1>2. Scheduler!Whole(w) \in Int /\ Scheduler!Whole(w) <= w
  BY WholeFacts
<1>3. CASE w <= clock
  BY <1>1, <1>2, <1>3
<1>4. CASE w < Scheduler!Now + Second
  <2>1. PICK j \in Int: Scheduler!Whole(w) = j * Second
    BY WholeFacts
  <2>2. PICK k \in Int: Scheduler!Now = k * Second
    <3>1. clock \in Int
      BY <1>1
    <3> QED  BY <3>1, WholeFacts, Zenon DEF Scheduler!Now
  <2>3. j * Second < k * Second + Second
    BY <1>1, <1>2, <1>4, <2>1, <2>2
  <2>4. j * Second <= k * Second
    BY <2>3, MultiplesAreApart
  <2> QED  BY <1>1, <1>2, <2>1, <2>2, <2>4
<1> QED  BY <1>3, <1>4

LEMMA SchedulerInitInv == Scheduler!Init => SchedulerInv
BY ClockAssumption
   DEF Scheduler!Init, SchedulerInv, Scheduler!TypeOK, ClockInv, QueueInv, SleepInv,
       Scheduler!NotBeforeItsSecond, Scheduler!LateByLessThanASecond, Scheduler!Never

(* What the invariant says of one call in the queue.                        *)
LEMMA QueueFacts ==
  ASSUME SchedulerInv, NEW q \in scheduled
  PROVE  /\ q.key \in Int /\ q.call \in Calls /\ q.call \in DOMAIN wanted /\ wanted[q.call] \in Int
         /\ q.key <= wanted[q.call]
         /\ wanted[q.call] < q.key + Second \/ wanted[q.call] <= clock
BY DEF SchedulerInv, Scheduler!TypeOK, ClockInv, QueueInv

(* Every form of call_at() and call_in() that signals run().                *)
LEMMA ScheduleKeeps ==
  ASSUME SchedulerInv, NEW c \in Calls, NEW key \in Int, NEW moment \in Int,
         Scheduler!Schedule(c, key, moment), Scheduler!Signal,
         key <= moment, moment < key + Second
  PROVE  SchedulerInv'
<1>1. /\ c \notin DOMAIN wanted /\ scheduled' = scheduled \cup {[call |-> c, key |-> key]}
      /\ UNCHANGED <<clock, handed, wakeAt, loop>>
      /\ DOMAIN wanted' = DOMAIN wanted \cup {c}
      /\ \A d \in DOMAIN wanted: wanted'[d] = wanted[d]
      /\ wanted'[c] = IF moment < clock THEN clock ELSE moment
      /\ runner' = IF runner = "asleep" THEN "loop" ELSE runner
  BY DEF Scheduler!Schedule, Scheduler!Signal
<1>2. clock \in Nat /\ Second \in Nat \ {0} /\ wanted'[c] \in Int /\ clock <= wanted'[c]
  BY <1>1, NowFacts DEF SchedulerInv
<1>3. Scheduler!TypeOK'
  BY <1>1 DEF SchedulerInv, Scheduler!TypeOK
<1>4. ClockInv'
  <2>1. wanted' = [d \in DOMAIN wanted' |-> wanted'[d]]
    BY DEF Scheduler!Schedule
  <2> QED  BY <1>1, <1>2, <2>1 DEF SchedulerInv, ClockInv
<1>5. QueueInv'
  <2> SUFFICES ASSUME NEW q \in scheduled'
               PROVE  /\ q.call \in DOMAIN wanted' /\ q.key <= wanted'[q.call]
                      /\ wanted'[q.call] < q.key + Second \/ wanted'[q.call] <= clock'
    BY DEF QueueInv
  <2>1. CASE q \in scheduled
    BY <1>1, <2>1, QueueFacts
  <2>2. CASE q = [call |-> c, key |-> key]
    BY <1>1, <1>2, <2>2
  <2> QED  BY <1>1, <2>1, <2>2
<1>6. SleepInv' /\ Scheduler!NotBeforeItsSecond'
  BY <1>1 DEF SchedulerInv, Scheduler!TypeOK, SleepInv, Scheduler!NotBeforeItsSecond
<1>7. Scheduler!LateByLessThanASecond'
  BY <1>1, <1>2, QueueFacts DEF SchedulerInv, Scheduler!LateByLessThanASecond
<1> QED  BY <1>3, <1>4, <1>5, <1>6, <1>7 DEF SchedulerInv

LEMMA RoundKeeps ==
  ASSUME SchedulerInv, Scheduler!Round
  PROVE  SchedulerInv'
<1>1. /\ runner = "loop" /\ loop /\ scheduled' = scheduled \ Scheduler!Due /\ runner' = "asleep"
      /\ UNCHANGED <<clock, wanted, loop>>
  BY DEF Scheduler!Round
<1>2. /\ clock \in Nat /\ Second \in Nat \ {0} /\ Scheduler!Now \in Int
      /\ Scheduler!Now <= clock /\ clock < Scheduler!Now + Second
  BY NowFacts DEF SchedulerInv
<1>3. /\ DOMAIN handed' = DOMAIN handed \cup {q.call: q \in Scheduler!Due}
      /\ \A c \in DOMAIN handed': handed'[c] = IF c \in DOMAIN handed THEN handed[c] ELSE clock
      /\ handed' = [c \in DOMAIN handed' |-> handed'[c]]
  BY DEF Scheduler!Round, Scheduler!HandOver
<1>4. \A q \in scheduled': q \in scheduled /\ q.key \in Int /\ Scheduler!Now < q.key
  BY <1>1, <1>2, QueueFacts DEF Scheduler!Due
<1>5. \A q \in scheduled': wakeAt' # Scheduler!Never /\ clock <= wakeAt' /\ wakeAt' < q.key + Second
  <2> SUFFICES ASSUME NEW q \in scheduled'
               PROVE wakeAt' # Scheduler!Never /\ clock <= wakeAt' /\ wakeAt' < q.key + Second
    OBVIOUS
  <2>1. PICK first \in scheduled':
          /\ \A other \in scheduled': first.key <= other.key
          /\ wakeAt' = clock + (first.key - Scheduler!Now)
    BY DEF Scheduler!Round
  <2>2. first.key <= q.key /\ first.key \in Int /\ q.key \in Int /\ Scheduler!Now < first.key
    BY <1>4, <2>1
  <2> QED  BY <1>2, <2>1, <2>2 DEF Scheduler!Never
<1>6. wakeAt' \in Int
  BY <1>2, <1>4 DEF Scheduler!Round, Scheduler!Never
<1>7. \A q \in Scheduler!Due: q \in scheduled /\ q.key \in Int /\ q.key <= clock /\ q.call \in DOMAIN wanted
                    /\ wanted[q.call] \in Int
                    /\ clock >= Scheduler!Whole(wanted[q.call])
  <2> SUFFICES ASSUME NEW q \in Scheduler!Due
               PROVE  /\ q \in scheduled /\ q.key \in Int /\ q.key <= clock
                      /\ q.call \in DOMAIN wanted /\ wanted[q.call] \in Int
                      /\ clock >= Scheduler!Whole(wanted[q.call])
    OBVIOUS
  <2>1. q \in scheduled /\ q.key <= Scheduler!Now
    BY DEF Scheduler!Due
  <2>2. /\ q.key \in Int /\ q.call \in DOMAIN wanted /\ wanted[q.call] \in Int
        /\ wanted[q.call] < q.key + Second \/ wanted[q.call] <= clock
    BY <2>1, QueueFacts
  <2>3. Scheduler!Whole(wanted[q.call]) <= clock
    BY <1>2, <2>1, <2>2, SecondOfAMoment DEF SchedulerInv
  <2>4. Scheduler!Whole(wanted[q.call]) \in Int
    BY <2>2, WholeFacts
  <2> QED  BY <1>2, <2>1, <2>2, <2>3, <2>4
<1>8. Scheduler!TypeOK'
  BY <1>1, <1>3, <1>7 DEF SchedulerInv, Scheduler!TypeOK
<1>9. ClockInv'
  BY <1>1, <1>2, <1>3, <1>6 DEF SchedulerInv, ClockInv
<1>10. QueueInv' /\ SleepInv' /\ Scheduler!LateByLessThanASecond'
  BY <1>1, <1>5 DEF SchedulerInv, QueueInv, SleepInv, Scheduler!LateByLessThanASecond
<1>11. Scheduler!NotBeforeItsSecond'
  BY <1>1, <1>3, <1>7 DEF SchedulerInv, Scheduler!NotBeforeItsSecond
<1> QED  BY <1>8, <1>9, <1>10, <1>11 DEF SchedulerInv

LEMMA SchedulerNextInv == SchedulerInv /\ [Scheduler!Next]_(Scheduler!schedulerVars) => SchedulerInv'
<1> SUFFICES ASSUME SchedulerInv, [Scheduler!Next]_(Scheduler!schedulerVars) PROVE SchedulerInv'
  OBVIOUS
<1>1. /\ clock \in Nat /\ Second \in Nat \ {0} /\ Scheduler!Now \in Int
      /\ Scheduler!Now <= clock /\ clock < Scheduler!Now + Second
  BY NowFacts DEF SchedulerInv
<1>2. ASSUME NEW c \in Calls, NEW m \in Moments, Scheduler!CallAt(c, m) PROVE SchedulerInv'
  <2>1. m \in Int /\ m <= m /\ m < m + Second
    BY <1>1, ClockAssumption
  <2> QED  BY <1>2, <2>1, ScheduleKeeps DEF Scheduler!CallAt
<1>3. ASSUME NEW c \in Calls, NEW d \in Delays, Scheduler!CallIn(c, d) PROVE SchedulerInv'
  <2>1. /\ Scheduler!Now + d \in Int /\ clock + d \in Int
        /\ Scheduler!Now + d <= clock + d /\ clock + d < Scheduler!Now + d + Second
    BY <1>1, ClockAssumption
  <2> QED  BY <1>3, <2>1, ScheduleKeeps DEF Scheduler!CallIn
<1>4. ASSUME NEW cs \in SUBSET Calls, Scheduler!Flush(cs) PROVE SchedulerInv'
  BY <1>4
     DEF Scheduler!Flush, SchedulerInv, Scheduler!TypeOK, ClockInv, QueueInv, SleepInv,
         Scheduler!NotBeforeItsSecond, Scheduler!LateByLessThanASecond
<1>5. ASSUME Scheduler!Stop PROVE SchedulerInv'
  BY <1>5
     DEF Scheduler!Stop, Scheduler!Signal, SchedulerInv, Scheduler!TypeOK, ClockInv, QueueInv,
         SleepInv, Scheduler!NotBeforeItsSecond, Scheduler!LateByLessThanASecond
<1>6. ASSUME Scheduler!Return \/ Scheduler!Restart \/ Scheduler!WakeInTime \/ Scheduler!WakeUnsignalled
      PROVE SchedulerInv'
  BY <1>6
     DEF Scheduler!Return, Scheduler!Restart, Scheduler!WakeInTime, Scheduler!WakeUnsignalled,
         SchedulerInv, Scheduler!TypeOK, ClockInv, QueueInv, SleepInv,
         Scheduler!NotBeforeItsSecond, Scheduler!LateByLessThanASecond
<1>7. ASSUME Scheduler!Tick PROVE SchedulerInv'
  <2>1. /\ clock < Horizon /\ runner # "loop" /\ clock' = clock + 1
        /\ runner = "asleep" => wakeAt = Scheduler!Never \/ clock < wakeAt
        /\ UNCHANGED <<scheduled, wanted, handed, runner, wakeAt, loop>>
    BY <1>7 DEF Scheduler!Tick
  <2>2. Scheduler!TypeOK' /\ ClockInv' /\ Scheduler!NotBeforeItsSecond'
    BY <1>1, <2>1, ClockAssumption
       DEF SchedulerInv, Scheduler!TypeOK, ClockInv, Scheduler!NotBeforeItsSecond
  <2>3. QueueInv'
    BY <1>1, <2>1, QueueFacts DEF QueueInv
  <2>4. SleepInv'
    BY <1>1, <2>1 DEF SchedulerInv, SleepInv, ClockInv
  <2>5. Scheduler!LateByLessThanASecond'
    <3> SUFFICES ASSUME loop, NEW q \in scheduled PROVE clock + 1 < wanted[q.call] + Second
      BY <2>1 DEF Scheduler!LateByLessThanASecond
    <3>1. runner = "asleep"
      BY <2>1 DEF SchedulerInv, Scheduler!TypeOK, SleepInv
    <3>2. wakeAt \in Int /\ wakeAt < q.key + Second /\ clock < wakeAt
      BY <2>1, <3>1 DEF SchedulerInv, SleepInv, ClockInv
    <3> QED  BY <1>1, <3>2, QueueFacts
  <2> QED  BY <2>2, <2>3, <2>4, <2>5 DEF SchedulerInv
<1>8. CASE UNCHANGED Scheduler!schedulerVars
  BY <1>8
     DEF Scheduler!schedulerVars, SchedulerInv, Scheduler!TypeOK, ClockInv, QueueInv, SleepInv,
         Scheduler!NotBeforeItsSecond, Scheduler!LateByLessThanASecond
<1> QED  BY RoundKeeps, <1>2, <1>3, <1>4, <1>5, <1>6, <1>7, <1>8 DEF Scheduler!Next

(* A scheduled call is not handed over before the second of its moment, and *)
(* it is late by less than a second while run() is not stopped, whatever    *)
(* the delays.                                                              *)
THEOREM SchedulerSafe == Scheduler!Spec => []SchedulerInv
BY SchedulerInitInv, SchedulerNextInv, PTL DEF Scheduler!Spec

-----------------------------------------------------------------------------
(* Signals. *)

(* What is assumed of the signals.                                          *)
LEMMA SignalsAreNumbers ==
  OwnSignals \cup LateSignals \subseteq Nat /\ URG \notin OwnSignals \cup LateSignals
BY SignalsAssumption

(* Cardinality of FiniteSets, which HSignalService extends by itself. *)
LEMMA SameCardinality == \A S: Signals!Cardinality(S) = Cardinality(S)
BY DEF Signals!Cardinality, Cardinality

(* The elements of a finite set of numbers are ranked without gaps.         *)
LEMMA RankIsOnto ==
  ASSUME NEW K, IsFiniteSet(K), K \subseteq Nat, NEW n \in 1 .. Cardinality(K)
  PROVE  \E i \in K: Cardinality({j \in K: j <= i}) = n
<1> DEFINE below(i) == {j \in K: j <= i}
           rank == [i \in K |-> Cardinality(below(i))]
           k == Cardinality(K)
<1>1. k \in Nat
  BY FS_CardinalityType
<1>2. ASSUME NEW i \in K PROVE IsFiniteSet(below(i)) /\ Cardinality(below(i)) \in 1 .. k
  <2>1. below(i) \in SUBSET K /\ {i} \in SUBSET below(i)
    OBVIOUS
  <2>2. IsFiniteSet(below(i)) /\ Cardinality(below(i)) <= k
    BY <2>1, FS_Subset
  <2>3. Cardinality({i}) = 1
    BY FS_Singleton
  <2>4. 1 <= Cardinality(below(i))
    BY <2>1, <2>2, <2>3, FS_Subset
  <2>5. Cardinality(below(i)) \in Nat
    BY <2>2, FS_CardinalityType
  <2> QED  BY <1>1, <2>2, <2>4, <2>5
<1>3. rank \in [K -> 1 .. k]
  BY <1>2
<1>4. ASSUME NEW i \in K, NEW j \in K, i < j PROVE rank[i] # rank[j]
  <2>1. below(i) \in SUBSET below(j) /\ j \in below(j) /\ j \notin below(i)
    <3>1. i \in Nat /\ j \in Nat /\ i < j
      BY <1>4
    <3>2. \A m \in K: m <= i => m <= j
      BY <3>1
    <3>3. j <= j /\ ~(j <= i)
      BY <3>1
    <3>4. j \in below(j) /\ j \notin below(i)
      BY <3>3
    <3>5. \A m \in below(i): m \in below(j)
      BY <3>2
    <3> HIDE DEF below
    <3> QED  BY <3>4, <3>5
  <2>2. below(i) # below(j)
    BY <2>1
  <2> QED  BY <1>2, <2>1, <2>2, FS_Subset
<1>5. \A i, j \in K: rank[i] = rank[j] => i = j
  BY <1>4
<1> DEFINE T == {rank[i]: i \in K}
<1>6. rank \in Bijection(K, T)
  BY <1>3, <1>5 DEF Bijection, Injection, Surjection, IsInjective
<1>7. IsFiniteSet(T) /\ Cardinality(T) = k
  BY <1>6, FS_Bijection DEF ExistsBijection
<1>8. T \in SUBSET (1 .. k)
  BY <1>3
<1>9. IsFiniteSet(1 .. k) /\ Cardinality(1 .. k) = k
  BY <1>1, FS_Interval
<1>10. T = 1 .. k
  BY <1>7, <1>8, <1>9, FS_Subset
<1> QED  BY <1>10

(* flush_handlers() leaves nothing of a list exactly when all of it         *)
(* belongs to the owner.                                                    *)
LEMMA WithoutFacts ==
  ASSUME NEW S, NEW q \in Seq(S), NEW u
  PROVE  /\ Signals!Without(q, u) \in Seq(S)
         /\ Signals!Without(q, u) = <<>> <=> \A i \in DOMAIN q: q[i] = u
<1> DEFINE kept == {i \in DOMAIN q: q[i] # u}
           k == Signals!Cardinality(kept)
           rank(i) == Signals!Cardinality({j \in kept: j <= i})
           place(n) == CHOOSE i \in kept: rank(i) = n
<1>1. IsFiniteSet(kept) /\ kept \subseteq Nat /\ DOMAIN q = 1 .. Len(q) /\ Len(q) \in Nat
  <2>1. DOMAIN q = 1 .. Len(q) /\ Len(q) \in Nat
    BY LenProperties
  <2>2. IsFiniteSet(1 .. Len(q)) /\ kept \in SUBSET (1 .. Len(q))
    BY <2>1, FS_Interval
  <2>3. IsFiniteSet(kept)
    BY <2>2, FS_Subset
  <2> QED  BY <2>1, <2>2, <2>3
<1>2. k \in Nat /\ (k = 0 <=> kept = {})
  BY <1>1, SameCardinality, FS_CardinalityType, FS_EmptySet
<1>3. ASSUME NEW n \in 1 .. k PROVE place(n) \in kept
  BY <1>1, SameCardinality, RankIsOnto
<1>4. Signals!Without(q, u) = [n \in 1 .. k |-> q[place(n)]]
  BY DEF Signals!Without
<1>5. \A n \in 1 .. k: q[place(n)] \in S
  <2> HIDE DEF k, place
  <2>1. \A i \in kept: q[i] \in S
    BY ElementOfSeq, <1>1
  <2> QED  BY <1>3, <2>1
<1> HIDE DEF k, place
<1>6. Signals!Without(q, u) \in [1 .. k -> S]
  BY <1>4, <1>5
<1>7. Signals!Without(q, u) \in Seq(S)
  BY <1>2, <1>6, SeqDef
<1>8. Len(Signals!Without(q, u)) = k
  BY <1>2, <1>4, <1>7
<1>9. Signals!Without(q, u) = <<>> <=> k = 0
  BY <1>2, <1>7, <1>8, EmptySeq
<1>10. kept = {} <=> \A i \in DOMAIN q: q[i] = u
  OBVIOUS
<1> QED  BY <1>2, <1>7, <1>9, <1>10

SignalsInv == Signals!TypeOK /\ Signals!CatchHasHandlers

LEMMA RegisterKeeps ==
  ASSUME SignalsInv, NEW u \in Registrants, NEW s \in Signals!Signals, Signals!Register(u, s)
  PROVE  SignalsInv'
<1> USE DEF SignalsInv, Signals!TypeOK
<1>1. /\ registered[s] \in Seq(Registrants \cup {Signals!Library})
      /\ <<u>> \in Seq(Registrants \cup {Signals!Library})
  OBVIOUS
<1>2. <<u>> \o registered[s] \in Seq(Registrants \cup {Signals!Library}) /\ <<u>> \o registered[s] # <<>>
  BY <1>1
<1>3. registered' = [registered EXCEPT ![s] = <<u>> \o registered[s]]
  BY DEF Signals!Register
<1>4. registered' \in [Signals!Signals -> Seq(Registrants \cup {Signals!Library})]
  BY <1>2, <1>3
<1>5. registered'[s] # <<>> /\ \A t \in Signals!Signals \ {s}: registered'[t] = registered[t]
  BY <1>2, <1>3
<1>6. catch' = catch \cup {s}
  <2>1. CASE registered[s] = <<>>
    BY <2>1 DEF Signals!Register
  <2>2. CASE registered[s] # <<>>
    <3>1. catch' = catch /\ s \in catch
      BY <2>2 DEF Signals!Register, Signals!CatchHasHandlers
    <3> QED  BY <3>1
  <2> QED  BY <2>1, <2>2
<1>7. signalMutex' \in {signalMutex, u}
  BY DEF Signals!Register
<1>8. Signals!CatchHasHandlers'
  BY <1>5, <1>6 DEF Signals!CatchHasHandlers
<1>9. Signals!TypeOK'
  BY <1>4, <1>6, <1>7 DEF Signals!Register
<1> QED  BY <1>8, <1>9

LEMMA FlushKeeps ==
  ASSUME SignalsInv, NEW u \in Registrants, Signals!Flush(u)
  PROVE  SignalsInv'
<1> USE DEF SignalsInv, Signals!TypeOK
<1> DEFINE only == {s \in Signals!Signals: Signals!ToSet(registered[s]) = {u}}
           new(s) == IF \A t \in only: s < t THEN Signals!Without(registered[s], u)
                     ELSE IF s \in only /\ \A t \in only: s <= t THEN <<u>>
                     ELSE registered[s]
<1>1. registered' = [s \in Signals!Signals |-> new(s)]
  BY DEF Signals!Flush
<1>2. UNCHANGED <<catch, waitSet, pending, got, service, signalMutex, looping, winder>>
  BY DEF Signals!Flush
<1>3. ASSUME NEW s \in Signals!Signals
      PROVE  /\ new(s) \in Seq(Registrants \cup {Signals!Library})
             /\ new(s) = <<>> <=> registered[s] = <<>>
  <2> DEFINE q == registered[s]
  <2>1. q \in Seq(Registrants \cup {Signals!Library})
    OBVIOUS
  <2>2. Signals!ToSet(q) = {q[i]: i \in DOMAIN q}
    BY DEF Signals!ToSet
  <2>3. CASE \A t \in only: s < t
    <3>1. s \notin only
      BY <2>3, SignalsAreNumbers DEF Signals!Signals
    <3>2. Signals!ToSet(q) # {u}
      BY <3>1
    <3>3. q = <<>> \/ ~\A i \in DOMAIN q: q[i] = u
      <4>1. CASE DOMAIN q = {}
        <5> HIDE DEF q
        <5>1. Len(q) \in Nat /\ DOMAIN q = 1 .. Len(q)
          BY <2>1, LenProperties
        <5>2. 1 \notin DOMAIN q
          BY <4>1
        <5>3. Len(q) = 0
          BY <5>1, <5>2
        <5> QED  BY <5>3, <2>1, EmptySeq
      <4>2. CASE DOMAIN q # {}
        BY <4>2, <3>2, <2>2
      <4> QED  BY <4>1, <4>2
    <3>4. q = <<>> => \A i \in DOMAIN q: q[i] = u
      OBVIOUS
    <3>5. new(s) = Signals!Without(q, u)
      BY <2>3
    <3> HIDE DEF new, q
    <3>6. /\ Signals!Without(q, u) \in Seq(Registrants \cup {Signals!Library})
          /\ Signals!Without(q, u) = <<>> <=> \A i \in DOMAIN q: q[i] = u
      BY <2>1, WithoutFacts
    <3> QED  BY <3>3, <3>4, <3>5, <3>6 DEF q
  <2>4. CASE ~(\A t \in only: s < t) /\ s \in only /\ \A t \in only: s <= t
    <3>1. new(s) = <<u>> /\ Signals!ToSet(q) = {u}
      BY <2>4
    <3>2. DOMAIN q # {}
      BY <2>2, <3>1
    <3>3. DOMAIN <<>> = {}
      OBVIOUS
    <3>4. <<u>> \in Seq(Registrants \cup {Signals!Library}) /\ <<u>> # <<>>
      OBVIOUS
    <3>5. q # <<>>
      BY <3>2, <3>3
    <3> HIDE DEF new, q
    <3> QED  BY <3>1, <3>4, <3>5 DEF q
  <2>5. CASE ~(\A t \in only: s < t) /\ ~(s \in only /\ \A t \in only: s <= t)
    BY <2>5
  <2> QED  BY <2>3, <2>4, <2>5
<1> HIDE DEF new
<1>4. Signals!CatchHasHandlers'
  BY <1>1, <1>2, <1>3 DEF Signals!CatchHasHandlers
<1>5. registered' \in [Signals!Signals -> Seq(Registrants \cup {Signals!Library})]
  BY <1>1, <1>3
<1> QED  BY <1>2, <1>4, <1>5

LEMMA ResetKeeps ==
  ASSUME SignalsInv, Signals!ResetSignal
  PROVE  SignalsInv'
<1> USE DEF SignalsInv, Signals!TypeOK
<1> DEFINE s == Signals!Min(toReset)
<1>1. /\ registered' = [registered EXCEPT ![s] = <<>>]
      /\ catch' = catch \ {s}
      /\ UNCHANGED <<waitSet, service, got, signalMutex, looping, winder>>
  BY DEF Signals!ResetSignal
<1>2. pending' \subseteq pending
  BY DEF Signals!ResetSignal
<1> HIDE DEF s
<1>3. registered' \in [Signals!Signals -> Seq(Registrants \cup {Signals!Library})]
  <2>1. <<>> \in Seq(Registrants \cup {Signals!Library})
    BY EmptySeq
  <2> QED  BY <1>1, <2>1
<1>4. Signals!CatchHasHandlers'
  BY <1>1 DEF Signals!CatchHasHandlers
<1> QED  BY <1>1, <1>2, <1>3, <1>4

LEMMA SignalsNextInv ==
  ASSUME SignalsInv, [Signals!Next]_(Signals!serviceVars)
  PROVE  SignalsInv'
<1> USE DEF SignalsInv, Signals!TypeOK
<1>1. ASSUME NEW s \in Signals!Signals, Signals!Raise(s) PROVE SignalsInv'
  BY <1>1 DEF Signals!Raise, Signals!CatchHasHandlers
<1>2. ASSUME NEW u \in Registrants, Signals!RegisterKick(u) PROVE SignalsInv'
  BY <1>2 DEF Signals!RegisterKick, Signals!CatchHasHandlers, Signals!Nobody
<1>3. CASE Signals!Wait
  BY <1>3 DEF Signals!Wait, Signals!CatchHasHandlers
<1>4. CASE Signals!Got
  BY <1>4 DEF Signals!Got, Signals!CatchHasHandlers
<1>5. CASE Signals!LockHandlers
  BY <1>5 DEF Signals!LockHandlers, Signals!CatchHasHandlers
<1>6. CASE Signals!CallHandler
  BY <1>6 DEF Signals!CallHandler, Signals!CatchHasHandlers
<1>7. CASE Signals!EndHandlers
  BY <1>7 DEF Signals!EndHandlers, Signals!CatchHasHandlers
<1>8. CASE Signals!StopKick
  BY <1>8 DEF Signals!StopKick, Signals!CatchHasHandlers
<1>9. CASE Signals!StopReturn
  BY <1>9 DEF Signals!StopReturn, Signals!CatchHasHandlers
<1>10. CASE UNCHANGED Signals!serviceVars
  BY <1>10 DEF Signals!serviceVars, Signals!CatchHasHandlers
<1> QED
  BY <1>1, <1>2, <1>3, <1>4, <1>5, <1>6, <1>7, <1>8, <1>9, <1>10, RegisterKeeps, FlushKeeps,
     ResetKeeps DEF Signals!Next, Signals!RunService

(* The service waits for a signal exactly while the signal has handlers,    *)
(* although reset_signal() throws in the middle of flush_handlers().        *)
THEOREM SignalsSafe == Signals!Spec => []SignalsInv
<1>1. Signals!Init => SignalsInv
  <2>1. /\ <<>> \in Seq(Registrants \cup {Signals!Library})
        /\ <<Signals!Library>> \in Seq(Registrants \cup {Signals!Library})
    BY EmptySeq
  <2>2. Signals!Init => registered \in [Signals!Signals -> Seq(Registrants \cup {Signals!Library})]
    BY <2>1 DEF Signals!Init
  <2>3. Signals!Init => Signals!CatchHasHandlers
    <3>1. <<Signals!Library>> # <<>>
      OBVIOUS
    <3> HIDE DEF Signals!Library
    <3> QED  BY <3>1, SignalsAreNumbers DEF Signals!Init, Signals!CatchHasHandlers, Signals!Signals
  <2>4. Signals!Init => Signals!TypeOK
    BY <2>2 DEF Signals!Init, Signals!TypeOK, Signals!Signals
  <2> QED  BY <2>3, <2>4 DEF SignalsInv
<1>2. SignalsInv /\ [Signals!Next]_(Signals!serviceVars) => SignalsInv'
  BY SignalsNextInv
<1> QED  BY <1>1, <1>2, PTL DEF Signals!Spec

-----------------------------------------------------------------------------
(* Child processes. *)

(* finish() goes on only with a child, which is there until it was waited   *)
(* for.                                                                     *)
HasChildInv ==
  /\ step # "idle" => pid
  /\ pid /\ step # "failed" => Process!Exists
ProcessInv == Process!TypeOK /\ HasChildInv /\ Process!NoChildIsLeft

LEMMA ProcessInitInv == Process!Init => ProcessInv
BY DEF Process!Init, ProcessInv, Process!TypeOK, HasChildInv, Process!NoChildIsLeft,
       Process!Exists, Process!Changes

(* What waitpid() tells, and what becomes of the process.                   *)
LEMMA ReportFacts ==
  ASSUME Process!TypeOK, NEW r \in Process!Reports, NEW asked \in SUBSET Process!Changes, Process!Reported(r, asked)
  PROVE  /\ process' \in {"none", "running", "stopped", "exited", "killed"}
         /\ change' \in Process!Changes \cup {"nothing"}
         /\ Process!TypeOf(r) \in {"RUNNING", "PAUSED", "FINISHED", "ABORTED"}
         /\ r \in Process!Changes => process' = process /\ (Process!TypeOf(r) = "PAUSED" <=> r = "stopped")
         /\ r \notin Process!Changes => process' = "none" /\ r \in {"exited", "killed"}
BY DEF Process!TypeOK, Process!Reports, Process!Reported, Process!Changes, Process!TypeOf,
       Process!Ended

LEMMA ProcessNextInv == ProcessInv /\ [Process!Next]_(Process!childVars) => ProcessInv'
<1> SUFFICES ASSUME ProcessInv, [Process!Next]_(Process!childVars) PROVE ProcessInv'
  OBVIOUS
<1> USE DEF ProcessInv, Process!TypeOK, HasChildInv, Process!NoChildIsLeft, Process!Exists
<1>a. /\ {} \in SUBSET Process!Changes /\ {"stopped"} \in SUBSET Process!Changes
      /\ Process!Changes \in SUBSET Process!Changes
  BY DEF Process!Changes
<1>1. CASE Process!Spawn
  BY <1>1 DEF Process!Spawn
<1>2. CASE Process!GetStatus
  <2>1. PICK r \in Process!Reports: Process!Reported(r, Process!Changes) /\ Process!Update(r)
    BY <1>2 DEF Process!GetStatus
  <2>2. CASE r \in Process!Changes
    BY <1>2, <1>a, <2>1, <2>2, ReportFacts DEF Process!GetStatus, Process!Update
  <2>3. CASE r \notin Process!Changes
    <3>1. /\ pid' \in BOOLEAN /\ ~pid' /\ process' = "none"
          /\ change' \in Process!Changes \cup {"nothing"}
          /\ type' \in {"RUNNING", "PAUSED", "FINISHED", "ABORTED"}
      <4>1. ~pid'
        BY <2>1, <2>3 DEF Process!Update
      <4>2. pid' \in BOOLEAN
        BY <2>1 DEF Process!Update
      <4> QED  BY <1>a, <2>1, <2>3, <4>1, <4>2, ReportFacts DEF Process!Update
    <3> QED  BY <1>2, <3>1 DEF Process!GetStatus
  <2> QED  BY <2>2, <2>3
<1>3. CASE Process!Finish
  <2>1. CASE \E r \in Process!Reports: Process!Reported(r, Process!Changes) /\ Process!Update(r)
    <3>1. PICK r \in Process!Reports: Process!Reported(r, Process!Changes) /\ Process!Update(r)
      BY <2>1
    <3>2. CASE r \in Process!Changes
      BY <1>3, <1>a, <3>1, <3>2, ReportFacts DEF Process!Finish, Process!Update
    <3>3. CASE r \notin Process!Changes
      <4>1. /\ pid' \in BOOLEAN /\ ~pid' /\ process' = "none"
            /\ change' \in Process!Changes \cup {"nothing"}
            /\ type' \in {"RUNNING", "PAUSED", "FINISHED", "ABORTED"}
        <5>1. ~pid'
          BY <3>1, <3>3 DEF Process!Update
        <5>2. pid' \in BOOLEAN
          BY <3>1 DEF Process!Update
        <5> QED  BY <1>a, <3>1, <3>3, <5>1, <5>2, ReportFacts DEF Process!Update
      <4> QED  BY <1>3, <4>1 DEF Process!Finish
    <3> QED  BY <3>2, <3>3
  <2>2. CASE UNCHANGED <<process, change, type, pid>>
    BY <1>3, <2>2 DEF Process!Finish
  <2> QED  BY <1>3, <2>1, <2>2 DEF Process!Finish
<1>4. CASE Process!Continue
  BY <1>4 DEF Process!Continue, Process!Changes
<1>5. CASE Process!Continued
  <2>1. PICK r \in Process!Reports:
          /\ Process!Reported(r, Process!Changes)
          /\ step' = CASE r = "continued" -> "wait" [] r = "stopped" -> step [] OTHER -> "failed"
          /\ type' = IF r = "continued" THEN "RUNNING" ELSE type
    BY <1>5 DEF Process!Continued
  <2>2. CASE r \in Process!Changes
    BY <1>5, <1>a, <2>1, <2>2, ReportFacts DEF Process!Continued, Process!Changes
  <2>3. CASE r \notin Process!Changes
    BY <1>5, <1>a, <2>1, <2>3, ReportFacts DEF Process!Continued, Process!Changes
  <2> QED  BY <2>2, <2>3
<1>6. ASSUME NEW r \in Process!Reports, NEW asked \in SUBSET {"stopped"},
             Process!Reported(r, asked), Process!Return(r),
             step # "idle", step # "failed"
      PROVE  ProcessInv'
  <2>1. r \in {"exited", "killed"} \/ r = "stopped"
    BY <1>6 DEF Process!Reported, Process!Changes, Process!Reports
  <2> QED  BY <1>6, <1>a, <2>1, ReportFacts DEF Process!Return, Process!Changes
<1>7. CASE Process!Look \/ Process!WaitEnds \/ Process!Terminated
  BY <1>6, <1>7 DEF Process!Look, Process!WaitEnds, Process!Terminated
<1>8. CASE Process!WaitWithAlarm \/ Process!WaitInterrupted \/ Process!Terminate \/ Process!TerminateInterrupted
  BY <1>8
     DEF Process!WaitWithAlarm, Process!WaitInterrupted, Process!Terminate,
         Process!TerminateInterrupted, Process!SetAlarm, Process!AlarmInterrupts
<1>9. CASE Process!Kill
  BY <1>9 DEF Process!Kill, Process!Return, Process!TypeOf, Process!Ended
<1>10. CASE Process!End \/ Process!Stop \/ Process!Resume
  BY <1>10 DEF Process!End, Process!Stop, Process!Resume, Process!Changes
<1>11. CASE UNCHANGED Process!childVars
  BY <1>11 DEF Process!childVars
<1> QED  BY <1>1, <1>2, <1>3, <1>4, <1>5, <1>7, <1>8, <1>9, <1>10, <1>11
            DEF Process!Next, Process!InFinish

(* A child gets signals only while it is there, and none is left behind,    *)
(* whichever way finish() ends.                                             *)
THEOREM ProcessSafe == Process!Spec => [](Process!SignalsReachTheChild /\ Process!NoChildIsLeft)
<1>1. ProcessInv => Process!SignalsReachTheChild /\ Process!NoChildIsLeft
  BY DEF ProcessInv, HasChildInv, Process!SignalsReachTheChild
<1> QED  BY <1>1, ProcessInitInv, ProcessNextInv, PTL DEF Process!Spec

-----------------------------------------------------------------------------
(* Streams that threads share. *)

(* Names that are nobody's.                                                 *)
LEMMA WritersAreNamed ==
  /\ SharedStream!NoWriter \notin Writers
  /\ {SharedStream!Self, SharedStream!NoTarget} \cap Targets = {}
BY NamesAssumption DEF SharedStream!NoWriter, SharedStream!Self, SharedStream!NoTarget

(* The types of what was written and read.                                  *)
Statements == [by: Writers, width: Writers \cup {SharedStream!NoWriter}]
StreamValuesInv ==
  /\ guards \in [Writers -> Nat]
  /\ written \in Seq(Statements) /\ readBy \in Seq(Writers)
  /\ width \in Writers \cup {SharedStream!NoWriter}
(* How often a thread has the recursive mutex: for its guards and for the   *)
(* call it is in.                                                           *)
LocksAt(place) == IF place \in {"locked twice", "done twice"} THEN 2
                  ELSE IF place \in {"locked", "locked twice", "done twice", "done"} THEN 1 ELSE 0
DepthOf(t) == guards[t] + LocksAt(within[t])
(* The mutex counts the locks of its owner, and nobody else has any.        *)
HolderInv ==
  /\ streamHolder = SharedStream!NoWriter => depth = 0
  /\ \A t \in Writers: IF streamHolder = t THEN depth = DepthOf(t) /\ depth > 0 ELSE DepthOf(t) = 0
(* The stream that was found is the one there is until the call is over.    *)
FoundInv ==
  /\ existing = {streamRef} \ {SharedStream!NoTarget}
  /\ \A t \in Writers: within[t] \in {"locked", "locked twice"} => referred[t] = streamRef
SharedStreamInv == SharedStream!TypeOK /\ StreamValuesInv /\ HolderInv /\ FoundInv

Places == {"idle", "acquiring", "asking", "locked", "locked twice", "done twice", "done"}

(* Numbers of locks.                                                        *)
LEMMA PlaceFacts ==
  \A p \in Places:
    /\ p \in {"locked twice", "done twice"} => LocksAt(p) = 2
    /\ p \in {"locked", "done"} => LocksAt(p) = 1
    /\ p \in {"idle", "acquiring", "asking"} => LocksAt(p) = 0
    /\ LocksAt(p) \in Nat
BY DEF LocksAt, Places

LEMMA PlaceTypes == \A p \in Places: LocksAt(p) \in Nat
BY PlaceFacts

LEMMA PlaceNames ==
  /\ "idle" \in Places /\ "acquiring" \in Places /\ "asking" \in Places
  /\ "locked" \in Places /\ "locked twice" \in Places /\ "done twice" \in Places
  /\ "done" \in Places
BY DEF Places

(* What the locks of a thread say of where it is.                           *)
LEMMA DepthFacts ==
  ASSUME SharedStream!TypeOK, StreamValuesInv, NEW t \in Writers
  PROVE  /\ within[t] \in Places /\ guards[t] \in Nat /\ DepthOf(t) \in Nat
         /\ DepthOf(t) = guards[t] + LocksAt(within[t])
         /\ DepthOf(t) = 0 <=> ~(SharedStream!Inside(t) \/ guards[t] > 0)
         /\ DepthOf(t) = guards[t] + (IF within[t] \in {"locked twice", "done twice"} THEN 2
                                      ELSE IF SharedStream!Inside(t) THEN 1 ELSE 0)
<1>1. within[t] \in Places /\ guards[t] \in Nat
  BY DEF SharedStream!TypeOK, StreamValuesInv, Places
<1>2. LocksAt(within[t]) = (IF within[t] \in {"locked twice", "done twice"} THEN 2
                            ELSE IF SharedStream!Inside(t) THEN 1 ELSE 0)
  BY DEF LocksAt, SharedStream!Inside
<1>3. DepthOf(t) = guards[t] + LocksAt(within[t]) /\ LocksAt(within[t]) \in Nat
  BY <1>1, PlaceTypes DEF DepthOf
<1>4. LocksAt(within[t]) = 0 <=> ~SharedStream!Inside(t)
  <2>1. SharedStream!Inside(t) => LocksAt(within[t]) \in {1, 2}
    BY DEF LocksAt, SharedStream!Inside
  <2>2. ~SharedStream!Inside(t) => LocksAt(within[t]) = 0
    BY DEF LocksAt, SharedStream!Inside
  <2> QED  BY <2>1, <2>2
<1>5. DepthOf(t) \in Nat
  BY <1>1, <1>3
<1>6. DepthOf(t) = 0 <=> ~(SharedStream!Inside(t) \/ guards[t] > 0)
  BY <1>1, <1>3, <1>4
<1>7. DepthOf(t) = guards[t] + (IF within[t] \in {"locked twice", "done twice"} THEN 2
                                ELSE IF SharedStream!Inside(t) THEN 1 ELSE 0)
  BY <1>2, <1>3, Zenon
<1> QED  BY <1>1, <1>3, <1>5, <1>6, <1>7, Zenon

(* Who locks or unlocks, and counts it. *)
LEMMA HolderStep ==
  ASSUME SharedStreamInv, SharedStream!TypeOK', StreamValuesInv', NEW t \in Writers, SharedStream!MayLock(t),
         \A u \in Writers \ {t}: within'[u] = within[u] /\ guards'[u] = guards[u],
         depth' = DepthOf(t)',
         streamHolder' = IF DepthOf(t)' = 0 THEN SharedStream!NoWriter ELSE t
  PROVE  HolderInv'
<1>1. \A u \in Writers \ {t}: DepthOf(u) = 0 /\ DepthOf(u)' = DepthOf(u)
  BY WritersAreNamed DEF SharedStreamInv, HolderInv, SharedStream!MayLock, DepthOf
<1>2. DepthOf(t)' \in Nat
  <2>1. guards'[t] \in Nat /\ within'[t] \in Places
    BY DEF SharedStream!TypeOK, StreamValuesInv, Places
  <2> QED  BY <2>1, PlaceTypes DEF DepthOf
<1> QED  BY <1>1, <1>2, WritersAreNamed DEF HolderInv

(* Whoever may lock has all the locks there are.                            *)
LEMMA MayLockFacts ==
  ASSUME SharedStreamInv, NEW t \in Writers, SharedStream!MayLock(t)
  PROVE  depth = DepthOf(t)
BY WritersAreNamed DEF SharedStreamInv, HolderInv, SharedStream!MayLock

(* Nobody locks or unlocks.                                                 *)
LEMMA HolderRests ==
  ASSUME SharedStreamInv, \A u \in Writers: LocksAt(within'[u]) = LocksAt(within[u]) /\ guards'[u] = guards[u],
         UNCHANGED <<streamHolder, depth>>
  PROVE  HolderInv'
BY DEF SharedStreamInv, HolderInv, DepthOf

LEMMA SharedStreamInitInv == SharedStream!Init => SharedStreamInv
<1> SUFFICES ASSUME SharedStream!Init PROVE SharedStreamInv
  OBVIOUS
<1>1. SharedStream!TypeOK /\ HolderInv /\ FoundInv
  <2>1. SharedStream!TypeOK
    BY DEF SharedStream!Init, SharedStream!TypeOK
  <2>2. HolderInv
    <3>1. streamHolder = SharedStream!NoWriter /\ depth = 0
      BY DEF SharedStream!Init
    <3>2. \A t \in Writers: DepthOf(t) = 0
      BY DEF SharedStream!Init, DepthOf, LocksAt
    <3> QED  BY <3>1, <3>2, WritersAreNamed DEF HolderInv
  <2>3. FoundInv
    BY WritersAreNamed DEF SharedStream!Init, FoundInv, SharedStream!Self, SharedStream!NoTarget
  <2> QED  BY <2>1, <2>2, <2>3
<1>2. StreamValuesInv
  BY EmptySeq DEF SharedStream!Init, StreamValuesInv
<1> QED  BY <1>1, <1>2 DEF SharedStreamInv

(* Two threads do not work with the stream at once.                         *)
LEMMA OneInside ==
  ASSUME SharedStreamInv, NEW t \in Writers, NEW u \in Writers,
         SharedStream!Inside(t), SharedStream!Inside(u) \/ guards[u] > 0
  PROVE  u = t
BY DepthFacts DEF SharedStreamInv, HolderInv

(* What a call does leaves the types, and puts what it adds at the end.      *)
LEMMA WorkFacts ==
  ASSUME SharedStreamInv, NEW t \in Writers, SharedStream!Work(t)
  PROVE  /\ UNCHANGED referred
         /\ streamRef' \in Targets \cup {SharedStream!Self, SharedStream!NoTarget}
         /\ StreamValuesInv' <=> guards' \in [Writers -> Nat]
         /\ existing' = {streamRef'} \ {SharedStream!NoTarget}
         /\ written' # written => SharedStream!Last(written').by = t
         /\ readBy' # readBy => SharedStream!Last(readBy') = t
         /\ width' # width => width' = t \/ calling[t] \in {"output", "reset"}
<1>1. /\ written \in Seq(Statements) /\ readBy \in Seq(Writers)
      /\ width \in Writers \cup {SharedStream!NoWriter}
      /\ streamRef \in Targets \cup {SharedStream!Self, SharedStream!NoTarget}
      /\ existing = {streamRef} \ {SharedStream!NoTarget}
  BY DEF SharedStreamInv, SharedStream!TypeOK, StreamValuesInv, FoundInv
<1>2. [by |-> t, width |-> width] \in Statements
  BY <1>1 DEF Statements
<1>3. CASE SharedStream!Output(t)
  <2>1. CASE referred[t] = SharedStream!NoTarget
    BY <1>1, <1>3, <2>1 DEF SharedStream!Output, StreamValuesInv
  <2>2. CASE referred[t] # SharedStream!NoTarget
    <3> DEFINE st == [by |-> t, width |-> width]
    <3>1. /\ written' = Append(written, st) /\ width' = SharedStream!NoWriter
          /\ UNCHANGED <<streamRef, existing, readBy, referred>> /\ calling[t] = "output"
      BY <1>3, <2>2 DEF SharedStream!Output
    <3>2. st \in Statements /\ st.by = t
      BY <1>2
    <3> HIDE DEF st
    <3>3. /\ written' \in Seq(Statements) /\ written'[Len(written')] = st
      BY <1>1, <3>1, <3>2
    <3> QED  BY <1>1, <3>1, <3>2, <3>3 DEF StreamValuesInv, SharedStream!Last
  <2> QED  BY <2>1, <2>2
<1>4. CASE SharedStream!Input(t)
  <2>1. CASE readBy' = readBy
    BY <1>1, <1>4, <2>1 DEF SharedStream!Input, StreamValuesInv
  <2>2. CASE readBy' = Append(readBy, t)
    <3>1. readBy' \in Seq(Writers) /\ readBy'[Len(readBy')] = t
      BY <1>1, <2>2
    <3> QED  BY <1>1, <1>4, <3>1 DEF SharedStream!Input, StreamValuesInv, SharedStream!Last
  <2> QED  BY <1>4, <2>1, <2>2 DEF SharedStream!Input
<1>5. CASE SharedStream!SetWidth(t)
  BY <1>1, <1>5 DEF SharedStream!SetWidth, StreamValuesInv
<1>6. CASE SharedStream!ResetOwned(t)
  BY <1>1, <1>6 DEF SharedStream!ResetOwned, StreamValuesInv
<1> QED  BY <1>3, <1>4, <1>5, <1>6 DEF SharedStream!Work

(* A step that changes neither the stream nor what was found in it.        *)
LEMMA CallStep ==
  ASSUME SharedStreamInv, NEW t \in Writers, NEW to \in Places,
         within' = [within EXCEPT ![t] = to],
         UNCHANGED <<streamRef, existing, written, readBy, width, referred>>,
         calling' \in [Writers -> SharedStream!Kinds \cup {"none"}],
         guards' \in [Writers -> Nat], depth' \in Nat, streamHolder' \in Writers \cup {SharedStream!NoWriter},
         to \in {"locked", "locked twice"} => within[t] \in {"locked", "locked twice"}
  PROVE  SharedStream!TypeOK' /\ StreamValuesInv' /\ FoundInv'
<1>1. within' \in [Writers -> Places] /\ \A u \in Writers: within'[u] = IF u = t THEN to ELSE within[u]
  BY DEF SharedStreamInv, SharedStream!TypeOK, Places
<1> QED  BY <1>1 DEF SharedStreamInv, SharedStream!TypeOK, StreamValuesInv, FoundInv, Places

LEMMA SharedStreamNextInv ==
  SharedStreamInv /\ [SharedStream!Next]_(SharedStream!syncVars) => SharedStreamInv'
<1> SUFFICES ASSUME SharedStreamInv, [SharedStream!Next]_(SharedStream!syncVars) PROVE SharedStreamInv'
  OBVIOUS
<1>0. /\ streamHolder \in Writers \cup {SharedStream!NoWriter} /\ depth \in Nat
      /\ within \in [Writers -> Places] /\ guards \in [Writers -> Nat]
      /\ calling \in [Writers -> SharedStream!Kinds \cup {"none"}]
  BY DEF SharedStreamInv, SharedStream!TypeOK, StreamValuesInv, Places
<1>1. ASSUME NEW t \in Writers, SharedStream!Begin(t) PROVE SharedStreamInv'
  <2>1. PICK to \in {"acquiring", "asking"}: SharedStream!Moves(t, "idle", to)
    BY <1>1 DEF SharedStream!Begin
  <2>2. /\ calling' \in [Writers -> SharedStream!Kinds \cup {"none"}]
        /\ UNCHANGED <<streamHolder, depth, guards, streamRef, existing, written, readBy, width, referred>>
    BY <1>0, <1>1 DEF SharedStream!Begin, SharedStream!stream
  <2>3. SharedStream!TypeOK' /\ StreamValuesInv' /\ FoundInv'
    BY <1>0, <2>1, <2>2, CallStep DEF Places, SharedStream!Moves
  <2>4. \A u \in Writers: LocksAt(within'[u]) = LocksAt(within[u])
    <3> SUFFICES ASSUME NEW u \in Writers PROVE LocksAt(within'[u]) = LocksAt(within[u])
      OBVIOUS
    <3>1. CASE u = t
      <4>1. within[u] = "idle" /\ within'[u] \in {"acquiring", "asking"}
        BY <1>0, <2>1, <3>1 DEF SharedStream!Moves
      <4> QED  BY <4>1 DEF LocksAt
    <3>2. CASE u # t
      BY <1>0, <2>1, <3>2 DEF SharedStream!Moves
    <3> QED  BY <3>1, <3>2
  <2> QED  BY <2>2, <2>3, <2>4, HolderRests DEF SharedStreamInv
<1>2. ASSUME NEW t \in Writers, SharedStream!Acquire(t) PROVE SharedStreamInv'
  <2>1. /\ within[t] = "acquiring" /\ within' = [within EXCEPT ![t] = "idle"]
        /\ SharedStream!MayLock(t) /\ streamHolder' = t /\ depth' = depth + 1
        /\ guards' = [guards EXCEPT ![t] = @ + 1]
        /\ UNCHANGED <<calling, streamRef, existing, written, readBy, width, referred, streamCalls>>
    BY <1>2 DEF SharedStream!Acquire, SharedStream!Moves, SharedStream!Lock, SharedStream!stream
  <2>2. guards' \in [Writers -> Nat] /\ guards'[t] = guards[t] + 1 /\ within'[t] = "idle"
        /\ \A u \in Writers \ {t}: within'[u] = within[u] /\ guards'[u] = guards[u]
    BY <1>0, <2>1
  <2>3. SharedStream!TypeOK' /\ StreamValuesInv' /\ FoundInv'
    <3>1. depth' \in Nat /\ streamHolder' \in Writers \cup {SharedStream!NoWriter} /\ calling' = calling
      BY <1>0, <2>1
    <3> QED  BY <1>0, <2>1, <2>2, <3>1, PlaceNames, CallStep
  <2>4. depth = DepthOf(t)
    BY <2>1, MayLockFacts
  <2>5. guards[t] \in Nat /\ DepthOf(t) = guards[t] + 0 /\ DepthOf(t)' = guards'[t] + 0
    BY <1>0, <2>1, <2>2 DEF DepthOf, LocksAt
  <2>6. depth' = DepthOf(t)' /\ DepthOf(t)' # 0
    BY <2>1, <2>2, <2>4, <2>5
  <2>7. HolderInv'
    BY <2>1, <2>2, <2>3, <2>6, HolderStep
  <2> QED  BY <2>3, <2>7 DEF SharedStreamInv
<1>3. ASSUME NEW t \in Writers, SharedStream!TryAcquire(t) PROVE SharedStreamInv'
  <2>1. UNCHANGED <<within, calling, streamRef, existing, written, readBy, width, referred>>
    BY <1>3 DEF SharedStream!TryAcquire, SharedStream!stream
  <2>2. CASE ~SharedStream!MayLock(t)
    <3>1. UNCHANGED <<streamHolder, depth, guards>>
      BY <1>3, <2>2 DEF SharedStream!TryAcquire
    <3>2. SharedStream!TypeOK' /\ StreamValuesInv' /\ FoundInv'
      BY <2>1, <3>1 DEF SharedStreamInv, SharedStream!TypeOK, StreamValuesInv, FoundInv
    <3> QED  BY <2>1, <3>1, <3>2, HolderRests DEF SharedStreamInv
  <2>3. CASE SharedStream!MayLock(t)
    <3>1. /\ streamHolder' = t /\ depth' = depth + 1 /\ guards' = [guards EXCEPT ![t] = @ + 1]
      BY <1>3, <2>3, WritersAreNamed DEF SharedStream!TryAcquire, SharedStream!Lock
    <3>2. guards' \in [Writers -> Nat] /\ guards'[t] = guards[t] + 1
          /\ \A u \in Writers \ {t}: within'[u] = within[u] /\ guards'[u] = guards[u]
      BY <1>0, <2>1, <3>1
    <3>3. SharedStream!TypeOK' /\ StreamValuesInv' /\ FoundInv'
      <4>1. depth' \in Nat /\ streamHolder' \in Writers \cup {SharedStream!NoWriter}
        BY <1>0, <3>1
      <4> QED  BY <1>0, <2>1, <3>2, <4>1
                  DEF SharedStreamInv, SharedStream!TypeOK, StreamValuesInv, FoundInv
    <3>4. depth = DepthOf(t)
      BY <2>3, MayLockFacts
    <3>5. guards[t] \in Nat /\ LocksAt(within[t]) \in Nat
          /\ DepthOf(t) = guards[t] + LocksAt(within[t])
          /\ DepthOf(t)' = guards'[t] + LocksAt(within[t])
      BY <1>0, <2>1, PlaceTypes DEF DepthOf
    <3>6. depth' = DepthOf(t)' /\ DepthOf(t)' # 0
      BY <3>1, <3>2, <3>4, <3>5
    <3> QED  BY <2>3, <3>1, <3>2, <3>3, <3>6, HolderStep DEF SharedStreamInv
  <2> QED  BY <2>2, <2>3
<1>4. ASSUME NEW t \in Writers, SharedStream!Release(t) PROVE SharedStreamInv'
  <2>1. /\ UNCHANGED <<within, calling, streamRef, existing, written, readBy, width, referred>>
        /\ guards[t] > 0 /\ guards' = [guards EXCEPT ![t] = @ - 1]
        /\ streamHolder = t /\ depth' = depth - 1
        /\ streamHolder' = IF depth = 1 THEN SharedStream!NoWriter ELSE t
    BY <1>4 DEF SharedStream!Release, SharedStream!Unlock, SharedStream!stream
  <2>2. guards' \in [Writers -> Nat] /\ guards'[t] = guards[t] - 1 /\ guards[t] \in Nat
        /\ \A u \in Writers \ {t}: within'[u] = within[u] /\ guards'[u] = guards[u]
    BY <1>0, <2>1
  <2>3. SharedStream!MayLock(t) /\ depth = DepthOf(t)
    BY <2>1, MayLockFacts DEF SharedStream!MayLock
  <2>4. LocksAt(within[t]) \in Nat
        /\ DepthOf(t) = guards[t] + LocksAt(within[t])
        /\ DepthOf(t)' = guards'[t] + LocksAt(within[t])
    BY <1>0, <2>1, PlaceTypes DEF DepthOf
  <2>5. depth' = DepthOf(t)' /\ depth' \in Nat /\ (DepthOf(t)' = 0 <=> depth = 1)
    BY <2>1, <2>2, <2>3, <2>4
  <2>6. SharedStream!TypeOK' /\ StreamValuesInv' /\ FoundInv'
    BY <1>0, <2>1, <2>2, <2>5 DEF SharedStreamInv, SharedStream!TypeOK, StreamValuesInv, FoundInv
  <2> QED  BY <2>1, <2>2, <2>3, <2>5, <2>6, HolderStep DEF SharedStreamInv
<1>5. ASSUME NEW t \in Writers, SharedStream!Enter(t) PROVE SharedStreamInv'
  <2>1. /\ within[t] = "asking" /\ within' = [within EXCEPT ![t] = "locked"]
        /\ SharedStream!MayLock(t) /\ streamHolder' = t /\ depth' = depth + 1
        /\ referred' = [referred EXCEPT ![t] = streamRef]
        /\ UNCHANGED <<calling, guards, streamRef, existing, written, readBy, width>>
    BY <1>5 DEF SharedStream!Enter, SharedStream!Moves, SharedStream!Lock
  <2>2. /\ within' \in [Writers -> Places] /\ within'[t] = "locked"
        /\ \A u \in Writers \ {t}: within'[u] = within[u] /\ guards'[u] = guards[u] /\ referred'[u] = referred[u]
        /\ referred' \in [Writers -> Targets \cup {SharedStream!Self, SharedStream!NoTarget}]
        /\ referred'[t] = streamRef
    BY <1>0, <2>1, PlaceNames DEF SharedStreamInv, SharedStream!TypeOK
  <2>3. SharedStream!TypeOK' /\ StreamValuesInv' /\ FoundInv'
    <3>1. depth' \in Nat /\ streamHolder' \in Writers \cup {SharedStream!NoWriter}
      BY <1>0, <2>1
    <3>2. SharedStream!TypeOK'
      BY <1>0, <2>1, <2>2, <3>1 DEF SharedStreamInv, SharedStream!TypeOK, Places
    <3>3. StreamValuesInv'
      BY <2>1 DEF SharedStreamInv, StreamValuesInv
    <3>4. FoundInv'
      BY <2>1, <2>2 DEF SharedStreamInv, FoundInv
    <3> QED  BY <3>2, <3>3, <3>4
  <2>4. depth = DepthOf(t)
    BY <2>1, MayLockFacts
  <2>5. guards[t] \in Nat /\ DepthOf(t) = guards[t] + 0 /\ DepthOf(t)' = guards[t] + 1
    BY <1>0, <2>1, <2>2 DEF DepthOf, LocksAt
  <2>6. depth' = DepthOf(t)' /\ DepthOf(t)' # 0
    <3>1. depth' = depth + 1
      BY <2>1
    <3> QED  BY <2>4, <2>5, <3>1
  <2> QED  BY <2>1, <2>2, <2>3, <2>6, HolderStep DEF SharedStreamInv
<1>6. ASSUME NEW t \in Writers, SharedStream!Forward(t) PROVE SharedStreamInv'
  <2>1. /\ within[t] = "locked" /\ within' = [within EXCEPT ![t] = "done"] /\ SharedStream!Work(t)
        /\ UNCHANGED <<streamHolder, depth, calling, guards, streamCalls>>
    BY <1>6 DEF SharedStream!Forward, SharedStream!Moves
  <2>2. /\ within' \in [Writers -> Places] /\ within'[t] = "done"
        /\ \A u \in Writers \ {t}: within'[u] = within[u]
    BY <1>0, <2>1, PlaceNames
  <2>3. SharedStream!TypeOK' /\ StreamValuesInv'
    BY <1>0, <2>1, <2>2, WorkFacts DEF SharedStreamInv, SharedStream!TypeOK, Places
  <2>4. FoundInv'
    <3>1. SharedStream!Inside(t)
      BY <2>1 DEF SharedStream!Inside
    <3>2. \A u \in Writers: within'[u] \notin {"locked", "locked twice"}
      <4> TAKE u \in Writers
      <4>1. CASE u = t
        BY <2>2, <4>1
      <4>2. CASE u # t
        BY <2>2, <3>1, <4>2, OneInside DEF SharedStream!Inside
      <4> QED  BY <4>1, <4>2
    <3> QED  BY <2>1, <3>2, WorkFacts DEF FoundInv
  <2>5. \A u \in Writers: LocksAt(within'[u]) = LocksAt(within[u])
    <3> TAKE u \in Writers
    <3>1. CASE u = t
      BY <2>1, <2>2, <3>1 DEF LocksAt
    <3>2. CASE u # t
      BY <2>2, <3>2
    <3> QED  BY <3>1, <3>2
  <2> QED  BY <2>1, <2>3, <2>4, <2>5, HolderRests DEF SharedStreamInv
<1>7. ASSUME NEW t \in Writers, SharedStream!EnterAgain(t) PROVE SharedStreamInv'
  <2>1. /\ within[t] = "locked" /\ within' = [within EXCEPT ![t] = "locked twice"]
        /\ SharedStream!MayLock(t) /\ streamHolder' = t /\ depth' = depth + 1
        /\ UNCHANGED <<calling, guards, streamRef, existing, written, readBy, width, referred>>
    BY <1>7 DEF SharedStream!EnterAgain, SharedStream!Moves, SharedStream!Lock, SharedStream!stream
  <2>2. /\ within' \in [Writers -> Places] /\ within'[t] = "locked twice"
        /\ \A u \in Writers \ {t}: within'[u] = within[u] /\ guards'[u] = guards[u]
        /\ depth' \in Nat /\ streamHolder' \in Writers \cup {SharedStream!NoWriter}
    <3>1. depth' \in Nat
      <4>1. depth' = depth + 1 /\ depth \in Nat
        BY <1>0, <2>1
      <4> QED  BY <4>1
    <3>2. streamHolder' \in Writers \cup {SharedStream!NoWriter}
      BY <2>1
    <3> QED  BY <1>0, <2>1, <3>1, <3>2, PlaceNames
  <2>3. SharedStream!TypeOK' /\ StreamValuesInv' /\ FoundInv'
    BY <1>0, <2>1, <2>2, PlaceNames, CallStep
  <2>4. depth = DepthOf(t)
    BY <2>1, MayLockFacts
  <2>5. guards[t] \in Nat /\ DepthOf(t) = guards[t] + 1 /\ DepthOf(t)' = guards[t] + 2
    BY <1>0, <2>1, <2>2 DEF DepthOf, LocksAt
  <2>6. depth' = DepthOf(t)' /\ DepthOf(t)' # 0
    <3>1. depth' = depth + 1
      BY <2>1
    <3> QED  BY <2>4, <2>5, <3>1
  <2> QED  BY <2>1, <2>2, <2>3, <2>6, HolderStep DEF SharedStreamInv
<1>8. ASSUME NEW t \in Writers, SharedStream!ForwardToSelf(t) PROVE SharedStreamInv'
  <2>1. /\ within[t] = "locked twice" /\ within' = [within EXCEPT ![t] = "done twice"]
        /\ SharedStream!Work(t)
        /\ UNCHANGED <<streamHolder, depth, calling, guards, streamCalls>>
    BY <1>8 DEF SharedStream!ForwardToSelf, SharedStream!Moves
  <2>2. /\ within' \in [Writers -> Places] /\ within'[t] = "done twice"
        /\ \A u \in Writers \ {t}: within'[u] = within[u]
    BY <1>0, <2>1, PlaceNames
  <2>3. SharedStream!TypeOK' /\ StreamValuesInv'
    BY <1>0, <2>1, <2>2, WorkFacts DEF SharedStreamInv, SharedStream!TypeOK, Places
  <2>4. FoundInv'
    <3>1. SharedStream!Inside(t)
      BY <2>1 DEF SharedStream!Inside
    <3>2. \A u \in Writers: within'[u] \notin {"locked", "locked twice"}
      <4> TAKE u \in Writers
      <4>1. CASE u = t
        BY <2>2, <4>1
      <4>2. CASE u # t
        BY <2>2, <3>1, <4>2, OneInside DEF SharedStream!Inside
      <4> QED  BY <4>1, <4>2
    <3> QED  BY <2>1, <3>2, WorkFacts DEF FoundInv
  <2>5. \A u \in Writers: LocksAt(within'[u]) = LocksAt(within[u])
    <3> TAKE u \in Writers
    <3>1. CASE u = t
      BY <2>1, <2>2, <3>1 DEF LocksAt
    <3>2. CASE u # t
      BY <2>2, <3>2
    <3> QED  BY <3>1, <3>2
  <2> QED  BY <2>1, <2>3, <2>4, <2>5, HolderRests DEF SharedStreamInv
<1>9. ASSUME NEW t \in Writers, SharedStream!LeaveInner(t) PROVE SharedStreamInv'
  <2>1. /\ within[t] = "done twice" /\ within' = [within EXCEPT ![t] = "done"]
        /\ streamHolder = t /\ depth' = depth - 1
        /\ streamHolder' = IF depth = 1 THEN SharedStream!NoWriter ELSE t
        /\ UNCHANGED <<guards, streamRef, existing, written, readBy, width>>
    BY <1>9
       DEF SharedStream!LeaveInner, SharedStream!Moves, SharedStream!Unlock, SharedStream!stream
  <2>2. /\ within' \in [Writers -> Places] /\ within'[t] = "done"
        /\ \A u \in Writers \ {t}: within'[u] = within[u] /\ guards'[u] = guards[u]
    BY <1>0, <2>1, PlaceNames
  <2>3. SharedStream!MayLock(t) /\ depth = DepthOf(t)
    BY <2>1, MayLockFacts DEF SharedStream!MayLock
  <2>4. guards[t] \in Nat /\ DepthOf(t) = guards[t] + 2 /\ DepthOf(t)' = guards[t] + 1
    BY <1>0, <2>1, <2>2 DEF DepthOf, LocksAt
  <2>5. depth' = DepthOf(t)' /\ depth' \in Nat /\ (DepthOf(t)' = 0 <=> depth = 1)
    <3>1. depth' = depth - 1
      BY <2>1
    <3> QED  BY <2>3, <2>4, <3>1
  <2>6. streamHolder' \in Writers \cup {SharedStream!NoWriter}
    BY <2>1
  <2>7. SharedStream!TypeOK' /\ StreamValuesInv' /\ FoundInv'
    <3>1. UNCHANGED <<calling, referred>>
      BY <1>9 DEF SharedStream!LeaveInner, SharedStream!stream
    <3> QED  BY <1>0, <2>1, <2>5, <2>6, <3>1, PlaceNames, CallStep
  <2> QED  BY <2>1, <2>2, <2>3, <2>5, <2>7, HolderStep DEF SharedStreamInv
<1>10. ASSUME NEW t \in Writers, SharedStream!Leave(t) PROVE SharedStreamInv'
  <2>1. /\ within[t] = "done" /\ within' = [within EXCEPT ![t] = "idle"]
        /\ streamHolder = t /\ depth' = depth - 1
        /\ streamHolder' = IF depth = 1 THEN SharedStream!NoWriter ELSE t
        /\ UNCHANGED <<guards, streamRef, existing, written, readBy, width>>
    BY <1>10 DEF SharedStream!Leave, SharedStream!Moves, SharedStream!Unlock, SharedStream!stream
  <2>2. /\ within' \in [Writers -> Places] /\ within'[t] = "idle"
        /\ \A u \in Writers \ {t}: within'[u] = within[u] /\ guards'[u] = guards[u]
    BY <1>0, <2>1, PlaceNames
  <2>3. SharedStream!MayLock(t) /\ depth = DepthOf(t)
    BY <2>1, MayLockFacts DEF SharedStream!MayLock
  <2>4. guards[t] \in Nat /\ DepthOf(t) = guards[t] + 1 /\ DepthOf(t)' = guards[t] + 0
    BY <1>0, <2>1, <2>2 DEF DepthOf, LocksAt
  <2>5. depth' = DepthOf(t)' /\ depth' \in Nat /\ (DepthOf(t)' = 0 <=> depth = 1)
    <3>1. depth' = depth - 1
      BY <2>1
    <3> QED  BY <2>3, <2>4, <3>1
  <2>6. streamHolder' \in Writers \cup {SharedStream!NoWriter}
    BY <2>1
  <2>7. SharedStream!TypeOK' /\ StreamValuesInv' /\ FoundInv'
    <3>1. /\ calling' \in [Writers -> SharedStream!Kinds \cup {"none"}]
          /\ referred' \in [Writers -> Targets \cup {SharedStream!Self, SharedStream!NoTarget}]
          /\ \A u \in Writers \ {t}: referred'[u] = referred[u]
      BY <1>0, <1>10 DEF SharedStream!Leave, SharedStreamInv, SharedStream!TypeOK
    <3> QED  BY ZenonT(60), <2>1, <2>2, <2>5, <2>6, <3>1
                DEF SharedStreamInv, SharedStream!TypeOK, StreamValuesInv, FoundInv, Places
  <2> QED  BY <2>1, <2>2, <2>3, <2>5, <2>7, HolderStep DEF SharedStreamInv
<1>11. CASE UNCHANGED SharedStream!syncVars
  BY <1>11
     DEF SharedStream!syncVars, SharedStreamInv, SharedStream!TypeOK, StreamValuesInv,
         HolderInv, FoundInv, DepthOf
<1> QED  BY <1>1, <1>2, <1>3, <1>4, <1>5, <1>6, <1>7, <1>8, <1>9, <1>10, <1>11
            DEF SharedStream!Next, SharedStream!Continue

(* The stream a call was given is there until the call is over, and every   *)
(* lock is given back.                                                      *)
THEOREM SharedStreamSafe == SharedStream!Spec =>
  [](SharedStream!StreamIsThere /\ SharedStream!LocksAreCounted)
<1>1. SharedStreamInv => SharedStream!StreamIsThere /\ SharedStream!LocksAreCounted
  <2> SUFFICES ASSUME SharedStreamInv PROVE SharedStream!StreamIsThere /\ SharedStream!LocksAreCounted
    OBVIOUS
  <2>1. SharedStream!StreamIsThere
    BY DEF SharedStreamInv, FoundInv, SharedStream!StreamIsThere
  <2>2. SharedStream!LocksAreCounted
    BY DepthFacts DEF SharedStreamInv, HolderInv, SharedStream!LocksAreCounted
  <2> QED  BY <2>1, <2>2
<1> QED  BY <1>1, SharedStreamInitInv, SharedStreamNextInv, PTL DEF SharedStream!Spec

(* No call of another thread comes between those made under a guard.        *)
THEOREM CallsTogether == SharedStream!Spec => SharedStream!GuardedCallsStayTogether
<1> DEFINE Kept == \A t \in Writers: guards[t] > 0 =>
       /\ written' # written => SharedStream!Last(written').by = t
       /\ readBy' # readBy => SharedStream!Last(readBy') = t
       /\ width = t /\ width' # t => calling[t] \in {"output", "reset"}
       /\ width # t /\ width' # width => width' = t \/ calling[t] \in {"output", "reset"}
<1>1. SharedStreamInv /\ [SharedStream!Next]_(SharedStream!syncVars) => [Kept]_(SharedStream!syncVars)
  <2> SUFFICES ASSUME SharedStreamInv, SharedStream!Next PROVE Kept
    OBVIOUS
  <2>1. CASE UNCHANGED <<written, readBy, width>>
    BY <2>1
  <2>2. ASSUME NEW u \in Writers, SharedStream!Work(u), SharedStream!Inside(u) PROVE Kept
    BY <2>2, WorkFacts, OneInside
  <2>3. UNCHANGED <<written, readBy, width>> \/ \E u \in Writers: SharedStream!Work(u) /\ SharedStream!Inside(u)
    BY DEF SharedStream!Next, SharedStream!Begin, SharedStream!Acquire, SharedStream!TryAcquire,
           SharedStream!Release, SharedStream!Enter, SharedStream!Continue,
           SharedStream!Forward, SharedStream!EnterAgain, SharedStream!ForwardToSelf,
           SharedStream!LeaveInner, SharedStream!Leave, SharedStream!stream, SharedStream!Moves,
           SharedStream!Inside
  <2> QED  BY <2>1, <2>2, <2>3
<1> QED  BY <1>1, SharedStreamInitInv, SharedStreamNextInv, PTL
            DEF SharedStream!Spec, SharedStream!GuardedCallsStayTogether

-----------------------------------------------------------------------------
(* Objects of threads. *)

(* Main uses thread local objects.                                          *)
LEMMA MainIsAUser == Main \in LocalUsers /\ "nobody" \notin LocalUsers /\ MaxVisits \in Nat
BY NamesAssumption, BoundsAssumption

(* _mutex belongs to who is inside of a locked method.                      *)
MutexInv ==
  \A t \in LocalUsers: at[t] \in {"constructing", "erasing", "visiting", "destroying"} <=> tlsMutex = t
(* How threads end: their objects first, and Main the last one.             *)
EndsInv ==
  /\ \A t \in LocalUsers:
       /\ at[t] \in {"destructing", "erasing"} => t \notin own /\ t \in objects
       /\ at[t] = "gone" => t \notin own
       /\ t # Main => at[t] # "destroying"
  /\ at[Main] \notin {"destructing", "erasing"}
  /\ TLS!Ended => \A t \in LocalUsers \ {Main}: at[t] \in {"running", "gone"}
  /\ at[Main] = "gone" => own = {}
(* Those who go through the objects of all threads find them.               *)
VisitInv == \A t \in LocalUsers: at[t] = "visiting" => toVisit \subseteq objects
TLSInv == TLS!TypeOK /\ MutexInv /\ EndsInv /\ VisitInv /\ TLS!ObjectsExist /\ TLS!ObjectsAreOwned

LEMMA TLSInitInv == TLS!Init => TLSInv
<1> SUFFICES ASSUME TLS!Init PROVE TLSInv
  OBVIOUS
<1>1. TLS!TypeOK
  <2>1. at \in [LocalUsers -> {"running", "constructing", "destructing", "erasing", "visiting",
                       "destroying", "gone"}]
    BY DEF TLS!Init
  <2>2. visits \in [LocalUsers -> 0 .. MaxVisits]
    BY MainIsAUser DEF TLS!Init
  <2> QED  BY <2>1, <2>2 DEF TLS!Init, TLS!TypeOK
<1>2. MutexInv /\ EndsInv /\ VisitInv /\ TLS!ObjectsExist /\ TLS!ObjectsAreOwned
  BY MainIsAUser
     DEF TLS!Init, MutexInv, EndsInv, VisitInv, TLS!ObjectsExist, TLS!ObjectsAreOwned, TLS!Ended
<1> QED  BY <1>1, <1>2 DEF TLSInv

LEMMA TLSNextInv == TLSInv /\ [TLS!Next]_(TLS!tlsVars) => TLSInv'
<1> SUFFICES ASSUME TLSInv, [TLS!Next]_(TLS!tlsVars) PROVE TLSInv'
  OBVIOUS
<1> USE MainIsAUser
        DEF TLSInv, TLS!TypeOK, MutexInv, EndsInv, VisitInv, TLS!ObjectsExist,
            TLS!ObjectsAreOwned, TLS!Ended, TLS!Goes, TLS!Lock, TLS!Unlock
<1>1. ASSUME NEW t \in LocalUsers, TLS!Use(t) PROVE TLSInv'
  BY <1>1 DEF TLS!Use
<1>2. ASSUME NEW t \in LocalUsers, TLS!ConstructLock(t) PROVE TLSInv'
  BY <1>2 DEF TLS!ConstructLock
<1>3. ASSUME NEW t \in LocalUsers, TLS!Construct(t) PROVE TLSInv'
  BY <1>3 DEF TLS!Construct
<1>4. ASSUME NEW t \in LocalUsers, TLS!ThreadEnds(t) PROVE TLSInv'
  BY <1>4 DEF TLS!ThreadEnds
<1>5. ASSUME NEW t \in LocalUsers, TLS!DestructLock(t) PROVE TLSInv'
  BY <1>5 DEF TLS!DestructLock
<1>6. ASSUME NEW t \in LocalUsers, TLS!Destruct(t) PROVE TLSInv'
  BY <1>6 DEF TLS!Destruct
<1>7. ASSUME NEW t \in LocalUsers, TLS!Acquire(t) PROVE TLSInv'
  BY <1>7 DEF TLS!Acquire
<1>8. ASSUME NEW t \in LocalUsers, TLS!Visit(t) PROVE TLSInv'
  BY <1>8 DEF TLS!Visit
<1>9. ASSUME NEW t \in LocalUsers, TLS!Leave(t) PROVE TLSInv'
  BY <1>9 DEF TLS!Leave
<1>10. ASSUME TLS!DestroyLock PROVE TLSInv'
  BY <1>10 DEF TLS!DestroyLock
<1>11. ASSUME TLS!Destroy PROVE TLSInv'
  BY <1>11 DEF TLS!Destroy
<1>12. CASE UNCHANGED TLS!tlsVars
  BY <1>12 DEF TLS!tlsVars
<1> QED  BY <1>1, <1>2, <1>3, <1>4, <1>5, <1>6, <1>7, <1>8, <1>9, <1>10, <1>11, <1>12 DEF TLS!Next

(* for_each() meets only objects that exist, and every object is destroyed  *)
(* with its thread.                                                         *)
THEOREM TLSSafe == TLS!Spec => []TLSInv
BY TLSInitInv, TLSNextInv, PTL DEF TLS!Spec

-----------------------------------------------------------------------------
(* The future, for every set of users and any number of calls.              *)

(* The worker of the pool is none of the threads that use the future. *)
LEMMA WorkerIsNoUser == Future!Worker \notin Getters /\ Future!NoThread \notin Getters
BY NamesAssumption DEF Future!Worker, Future!NoThread

FutureTypes ==
  /\ user \in [Getters -> {"idle", "lock", "test", "asleep"}]
  /\ seen \subseteq Getters
  /\ destroyed \in BOOLEAN

(* _mutex belongs to who is between lock and unlock. *)
FutureMutexInv ==
  /\ worker \in {"call", "broadcast", "unlock"} <=> holder = Future!Worker
  /\ \A u \in Getters: user[u] = "test" <=> holder = u

(* _finished and _return are set while the worker has the mutex.            *)
FinishedInv ==
  /\ worker \in {"queued", "call", "broadcast", "unlock", "done"}
  /\ finished <=> worker \in {"broadcast", "unlock", "done"}
  /\ finished <=> value

(* A user finds them set when the worker has given the mutex back, so who   *)
(* was given the value, and who destroys the future, comes after it.        *)
SeenInv ==
  /\ seen # {} => worker = "done"
  /\ destroyed => worker = "done"

FutureInv == FutureTypes /\ FutureMutexInv /\ FinishedInv /\ SeenInv

LEMMA FutureInitInv == Future!Init => FutureInv
BY WorkerIsNoUser DEF Future!Init, FutureInv, FutureTypes, FutureMutexInv, FinishedInv, SeenInv,
    Future!NoThread, Future!Worker

LEMMA FutureNextInv == FutureInv /\ [Future!Next]_(Future!futureVars) => FutureInv'
<1> SUFFICES ASSUME FutureInv, [Future!Next]_(Future!futureVars) PROVE FutureInv'
  OBVIOUS
<1> USE WorkerIsNoUser DEF FutureInv, FutureTypes, FutureMutexInv, FinishedInv, SeenInv,
        Future!WorkerBecomes, Future!NoThread, Future!Worker
<1>1. CASE Future!ExecuteLock
  BY <1>1 DEF Future!ExecuteLock
<1>2. CASE Future!ExecuteCall
  BY <1>2 DEF Future!ExecuteCall
<1>3. CASE Future!ExecuteBroadcast
  <2>1. FutureTypes'
    BY <1>3 DEF Future!ExecuteBroadcast
  <2>2. FutureMutexInv'
    BY <1>3 DEF Future!ExecuteBroadcast, Future!Sleepers
  <2> QED
    BY <1>3, <2>1, <2>2 DEF Future!ExecuteBroadcast
<1>4. CASE Future!ExecuteUnlock
  BY <1>4 DEF Future!ExecuteUnlock
<1>5. ASSUME NEW u \in Getters, Future!Get(u) PROVE FutureInv'
  BY <1>5 DEF Future!Get
<1>6. ASSUME NEW u \in Getters, Future!GetLock(u) PROVE FutureInv'
  BY <1>6 DEF Future!GetLock
<1>7. ASSUME NEW u \in Getters, Future!GetSleep(u) PROVE FutureInv'
  BY <1>7 DEF Future!GetSleep
<1>8. ASSUME NEW u \in Getters, Future!GetReturn(u) PROVE FutureInv'
  BY <1>8 DEF Future!GetReturn
<1>9. ASSUME NEW u \in Getters, Future!WakeUnsignalled(u) PROVE FutureInv'
  BY <1>9 DEF Future!WakeUnsignalled
<1>10. ASSUME NEW u \in Getters, Future!IsReady(u) PROVE FutureInv'
  <2>1. seen' # {} => worker = "done"
    BY <1>10 DEF Future!IsReady
  <2> QED
    BY <1>10, <2>1 DEF Future!IsReady
<1>11. CASE Future!Destroy
  BY <1>11 DEF Future!Destroy
<1>12. CASE UNCHANGED Future!futureVars
  BY <1>12 DEF Future!futureVars
<1> QED
  BY <1>1, <1>2, <1>3, <1>4, <1>5, <1>6, <1>7, <1>8, <1>9, <1>10, <1>11, <1>12
     DEF Future!Next, Future!Execute, Future!Continue

(* The owner of a future that waits for its value, by get() or by           *)
(* is_ready(), may destroy it at once: the worker touches it no more.       *)
LEMMA DestructionIsSafe == Future!Spec => []Future!DestroyedAfterUse
<1>1. FutureInv => Future!DestroyedAfterUse
  BY DEF FutureInv, SeenInv, Future!DestroyedAfterUse
<1> QED
  BY FutureInitInv, FutureNextInv, <1>1, PTL DEF Future!Spec

(* get() never gives an object that was not assigned, and is_ready() never  *)
(* promises one.                                                            *)
LEMMA ValueCorrect == Future!Spec => []Future!ValueIsThere
<1>1. FutureInv => Future!ValueIsThere
  BY DEF FutureInv, FinishedInv, SeenInv, Future!ValueIsThere
<1> QED
  BY FutureInitInv, FutureNextInv, <1>1, PTL DEF Future!Spec

(* The variables keep their types, for any number of users and calls.       *)
LEMMA FutureTypeCorrect == Future!Spec => []Future!TypeOK
<1> DEFINE J ==
      /\ holder \in Getters \cup {Future!NoThread, Future!Worker}
      /\ finished \in BOOLEAN /\ value \in BOOLEAN
      /\ calls \in [Getters -> 0 .. MaxCalls]
<1>1. Future!Init => J
  <2>1. Future!Init => finished \in BOOLEAN /\ value \in BOOLEAN
    BY DEF Future!Init
  <2>2. Future!Init => /\ holder \in Getters \cup {Future!NoThread, Future!Worker}
                       /\ calls \in [Getters -> 0 .. MaxCalls]
    BY BoundsAssumption DEF Future!Init
  <2> QED
    BY <2>1, <2>2, Zenon
<1>2. FutureInv /\ J /\ [Future!Next]_(Future!futureVars) => J'
  <2> SUFFICES ASSUME J, [Future!Next]_(Future!futureVars) PROVE J'
    OBVIOUS
  <2>1. ASSUME NEW u \in Getters,
               Future!Get(u) \/ Future!Continue(u) \/ Future!WakeUnsignalled(u) \/ Future!IsReady(u)
        PROVE  J'
    BY <2>1, BoundsAssumption DEF Future!Get, Future!Continue, Future!GetLock, Future!GetSleep, Future!GetReturn,
        Future!WakeUnsignalled, Future!IsReady
  <2>2. CASE Future!ExecuteLock \/ Future!Execute \/ Future!Destroy
    BY <2>2 DEF Future!ExecuteLock, Future!Execute, Future!ExecuteCall, Future!ExecuteBroadcast,
        Future!ExecuteUnlock, Future!Destroy
  <2>3. CASE UNCHANGED Future!futureVars
    BY <2>3 DEF Future!futureVars
  <2> QED
    BY <2>1, <2>2, <2>3 DEF Future!Next
<1>3. FutureInv /\ J => Future!TypeOK
  BY DEF FutureInv, FutureTypes, FinishedInv, Future!TypeOK
<1> HIDE DEF J
<1> QED
  BY FutureInitInv, FutureNextInv, <1>1, <1>2, <1>3, PTL DEF Future!Spec

-----------------------------------------------------------------------------
(* The read/write lock, for every set of threads and any number of nested   *)
(* guards.                                                                  *)

LockStages == {"idle", "lock_read", "lock_write", "release"}

LockEntries == [entry: BOOLEAN, count: Nat, firstLockRead: BOOLEAN]

LockTypes ==
  /\ lockInfo \in [Lockers -> LockEntries]
  /\ readers \in SUBSET Lockers /\ writers \in SUBSET Lockers
  /\ doing \in [Lockers -> LockStages]
  /\ reads \in [Lockers -> Nat] /\ writes \in [Lockers -> Nat]

(* An entry counts something, or its thread is about to count in it, and    *)
(* one that counts nothing remembers no kind of lock.                       *)
EntryInv ==
  \A t \in Lockers:
    /\ ~ lockInfo[t].entry => lockInfo[t].count = 0
    /\ lockInfo[t].count = 0 => ~ lockInfo[t].firstLockRead
    /\ doing[t] \in {"lock_read", "lock_write"} => lockInfo[t].entry
    /\ doing[t] = "release" => lockInfo[t].count = 0

(* pthread_rwlock_*() exclude. *)
ExclusionInv == \A t \in writers: readers \cup writers = {t}

(* EntriesMatchLock and EntryInv, of one thread. *)
EntryMatches(t) ==
  /\ lockInfo[t].count = reads[t] + writes[t]
  /\ lockInfo[t].count > 0 \/ doing[t] = "release" <=> t \in readers \cup writers
  /\ lockInfo[t].count > 0 => (lockInfo[t].firstLockRead <=> t \in readers)
  /\ ~(t \in readers /\ t \in writers)

EntryIsRight(t) ==
  /\ ~ lockInfo[t].entry => lockInfo[t].count = 0
  /\ lockInfo[t].count = 0 => ~ lockInfo[t].firstLockRead
  /\ doing[t] \in {"lock_read", "lock_write"} => lockInfo[t].entry
  /\ doing[t] = "release" => lockInfo[t].count = 0

LockInv == LockTypes /\ ReadWriteLock!EntriesMatchLock /\ EntryInv /\ ExclusionInv

LEMMA LockInitInv == ReadWriteLock!Init => LockInv
BY DEF ReadWriteLock!Init, LockInv, LockTypes, LockEntries, ReadWriteLock!EntriesMatchLock,
    EntryInv, ExclusionInv, LockStages, ReadWriteLock!NoEntry, ReadWriteLock!Entry

LEMMA EntriesPerThread ==
  /\ ReadWriteLock!EntriesMatchLock /\ EntryInv
       <=> \A t \in Lockers: EntryMatches(t) /\ EntryIsRight(t)
  /\ (ReadWriteLock!EntriesMatchLock /\ EntryInv
        <=> \A t \in Lockers: EntryMatches(t) /\ EntryIsRight(t))'
BY DEF ReadWriteLock!EntriesMatchLock, EntryInv, EntryMatches, EntryIsRight

LEMMA LockNextInv == LockInv /\ [ReadWriteLock!Next]_(ReadWriteLock!vars) => LockInv'
<1> SUFFICES ASSUME LockInv, [ReadWriteLock!Next]_(ReadWriteLock!vars) PROVE LockInv'
  OBVIOUS
<1> USE DEF LockInv, LockTypes, LockStages, LockEntries, ReadWriteLock!Entry, ReadWriteLock!Become
<1>0. \A t \in Lockers: EntryMatches(t) /\ EntryIsRight(t)
  BY EntriesPerThread
<1> USE <1>0
<1>1. ASSUME NEW t \in Lockers, NEW o \in {"lock_read", "lock_write"},
             ReadWriteLock!Find(t, o)
      PROVE  LockInv'
  <2> USE <1>1 DEF ReadWriteLock!Find, ReadWriteLock!NoEntry
  <2>1. LockTypes'
    OBVIOUS
  <2>2. ASSUME NEW u \in Lockers PROVE (EntryMatches(u) /\ EntryIsRight(u))'
    <3>1. CASE u = t
      <4>1. CASE lockInfo[t].entry
        BY <3>1, <4>1 DEF EntryMatches, EntryIsRight
      <4>2. CASE ~ lockInfo[t].entry
        BY <3>1, <4>2 DEF EntryMatches, EntryIsRight
      <4> QED
        BY <4>1, <4>2
    <3>2. CASE u # t
      BY <3>2 DEF EntryMatches, EntryIsRight
    <3> QED
      BY <3>1, <3>2
  <2>3. ExclusionInv'
    BY DEF ExclusionInv
  <2> QED
    BY <2>1, <2>2, <2>3, EntriesPerThread
<1>2. ASSUME NEW t \in Lockers, ReadWriteLock!LockRead(t) PROVE LockInv'
  <2> USE <1>2 DEF ReadWriteLock!LockRead
  <2>1. LockTypes'
    OBVIOUS
  <2>2. ASSUME NEW u \in Lockers PROVE (EntryMatches(u) /\ EntryIsRight(u))'
    <3>1. CASE u = t
      BY <3>1 DEF EntryMatches, EntryIsRight
    <3>2. CASE u # t
      BY <3>2 DEF EntryMatches, EntryIsRight
    <3> QED
      BY <3>1, <3>2
  <2>3. ExclusionInv'
    BY DEF ExclusionInv
  <2> QED
    BY <2>1, <2>2, <2>3, EntriesPerThread
<1>3. ASSUME NEW t \in Lockers, ReadWriteLock!LockWrite(t) PROVE LockInv'
  <2> USE <1>3 DEF ReadWriteLock!LockWrite
  <2>1. LockTypes'
    OBVIOUS
  <2>2. ASSUME NEW u \in Lockers PROVE (EntryMatches(u) /\ EntryIsRight(u))'
    <3>1. CASE u = t
      BY <3>1 DEF EntryMatches, EntryIsRight
    <3>2. CASE u # t
      BY <3>2 DEF EntryMatches, EntryIsRight
    <3> QED
      BY <3>1, <3>2
  <2>3. ExclusionInv'
    BY DEF ExclusionInv
  <2> QED
    BY <2>1, <2>2, <2>3, EntriesPerThread
<1>4. ASSUME NEW t \in Lockers, ReadWriteLock!CountOff(t) PROVE LockInv'
  <2> USE <1>4 DEF ReadWriteLock!CountOff, ReadWriteLock!NoEntry
  <2>1. /\ reads' \in [Lockers -> Nat] /\ writes' \in [Lockers -> Nat]
        /\ reads'[t] + writes'[t] + 1 = reads[t] + writes[t]
        /\ \A u \in Lockers \ {t}: reads'[u] = reads[u] /\ writes'[u] = writes[u]
    <3>1. CASE reads[t] > 0 /\ reads' = [reads EXCEPT ![t] = @ - 1] /\ writes' = writes
      BY ONLY LockInv, <3>1 DEF LockInv, LockTypes
    <3>2. CASE writes[t] > 0 /\ writes' = [writes EXCEPT ![t] = @ - 1] /\ reads' = reads
      BY ONLY LockInv, <3>2 DEF LockInv, LockTypes
    <3> QED
      BY <3>1, <3>2
  <2>2. EntryMatches(t)
    OBVIOUS
  <2>3. lockInfo[t].count = reads'[t] + writes'[t] + 1
    BY <2>1, <2>2 DEF EntryMatches
  <2>4. CASE lockInfo[t].count = 1
    <3>1. /\ lockInfo' = [lockInfo EXCEPT ![t] = ReadWriteLock!NoEntry]
          /\ doing' = [doing EXCEPT ![t] = "release"]
      BY <2>4
    <3>2. LockTypes'
      BY <2>1, <3>1
    <3>3. ASSUME NEW u \in Lockers PROVE (EntryMatches(u) /\ EntryIsRight(u))'
      <4>1. CASE u = t
        BY <2>1, <2>2, <2>3, <2>4, <3>1, <4>1 DEF EntryMatches, EntryIsRight
      <4>2. CASE u # t
        <5>1. /\ lockInfo'[u] = lockInfo[u] /\ doing'[u] = doing[u]
              /\ reads'[u] = reads[u] /\ writes'[u] = writes[u]
              /\ readers' = readers /\ writers' = writers
          BY <2>1, <3>1, <4>2
        <5>2. EntryMatches(u) /\ EntryIsRight(u)
          OBVIOUS
        <5> QED
          BY <5>1, <5>2 DEF EntryMatches, EntryIsRight
      <4> QED
        BY <4>1, <4>2
    <3> QED
      BY <3>2, <3>3, EntriesPerThread DEF ExclusionInv
  <2>5. CASE lockInfo[t].count # 1
    <3> DEFINE rest == lockInfo[t].count - 1
    <3>0. rest \in Nat /\ rest = reads'[t] + writes'[t]
      BY <2>1, <2>3
    <3>1. /\ lockInfo' = [lockInfo EXCEPT
                ![t] = ReadWriteLock!Entry(rest, lockInfo[t].firstLockRead)]
          /\ doing' = [doing EXCEPT ![t] = "idle"]
      BY <2>5
    <3> HIDE DEF rest
    <3>2. LockTypes'
      BY <2>1, <3>0, <3>1
    <3>3. ASSUME NEW u \in Lockers PROVE (EntryMatches(u) /\ EntryIsRight(u))'
      BY <2>1, <2>2, <2>3, <2>5, <3>0, <3>1 DEF EntryMatches, EntryIsRight
    <3> QED
      BY <3>2, <3>3, EntriesPerThread DEF ExclusionInv
  <2> QED
    BY <2>4, <2>5
<1>5. ASSUME NEW t \in Lockers, ReadWriteLock!Release(t) PROVE LockInv'
  BY <1>5 DEF ReadWriteLock!Release, ReadWriteLock!EntriesMatchLock, EntryInv,
      ExclusionInv
<1>6. CASE UNCHANGED ReadWriteLock!vars
  BY <1>6 DEF ReadWriteLock!vars, ReadWriteLock!EntriesMatchLock, EntryInv,
      ExclusionInv
<1> QED
  BY <1>1, <1>2, <1>3, <1>4, <1>5, <1>6 DEF ReadWriteLock!Next, ReadWriteLock!Continue

(* The pthread lock is held, in the kind of the first guard, exactly while  *)
(* its thread has guards or is about to release it.                         *)
LEMMA EntriesCorrect == ReadWriteLock!Spec => []ReadWriteLock!EntriesMatchLock
<1>1. LockInv => ReadWriteLock!EntriesMatchLock
  BY DEF LockInv
<1> QED
  BY LockInitInv, LockNextInv, <1>1, PTL DEF ReadWriteLock!Spec

-----------------------------------------------------------------------------
(* Who holds guards has the pthread lock, for writing where it is alone;    *)
(* and nobody holds guards beside it.                                       *)
LEMMA GuardsHoldLock ==
  ASSUME LockInv, NEW t \in Lockers
  PROVE  /\ reads[t] + writes[t] > 0 => t \in readers \cup writers
         /\ t \in ReadWriteLock!Alone => t \in writers
BY DEF LockInv, LockTypes, LockEntries, ReadWriteLock!EntriesMatchLock, ReadWriteLock!Alone

LEMMA WritersAreAlone ==
  ASSUME LockInv, NEW t \in writers, NEW u \in Lockers \ {t}
  PROVE  reads[u] + writes[u] = 0
<1>1. u \notin readers \cup writers
  BY DEF LockInv, ExclusionInv
<1>2. ~ (reads[u] + writes[u] > 0)
  BY <1>1, GuardsHoldLock
<1>3. reads[u] \in Nat /\ writes[u] \in Nat
  BY DEF LockInv, LockTypes
<1> QED
  BY <1>2, <1>3

(* A step that keeps what an entry says of its thread changes nobody's      *)
(* being alone.                                                             *)
LEMMA AloneStays ==
  ASSUME LockInv,
         \A u \in Lockers:
           (lockInfo'[u].count > 0 /\ ~lockInfo'[u].firstLockRead)
             <=> (lockInfo[u].count > 0 /\ ~lockInfo[u].firstLockRead)
  PROVE  ReadWriteLock!Alone' = ReadWriteLock!Alone
BY DEF ReadWriteLock!Alone

(* Refinement: a guard is taken when the pthread lock is got, or counted,   *)
(* and given back when it is counted off; all other steps stutter.          *)
LEMMA LockReadRefines ==
  ASSUME LockInv, NEW t \in Lockers, ReadWriteLock!LockRead(t)
  PROVE  ReadWriteLock!Promise!TakeRead(t)
<1> USE DEF LockInv, LockTypes, LockEntries
<1>1. ASSUME NEW u \in ReadWriteLock!Alone, u # t PROVE FALSE
  <2>1. u \in Lockers /\ u \in writers
    BY <1>1, GuardsHoldLock DEF ReadWriteLock!Alone
  <2>2. lockInfo[t].count > 0
    BY <2>1 DEF ReadWriteLock!LockRead
  <2>3. t \in readers \cup writers
    BY <2>2 DEF ReadWriteLock!EntriesMatchLock
  <2> QED
    BY <1>1, <2>1, <2>3 DEF ExclusionInv
<1>2. ReadWriteLock!Alone' = ReadWriteLock!Alone
  <2>1. ASSUME NEW u \in Lockers
        PROVE  (lockInfo'[u].count > 0 /\ ~lockInfo'[u].firstLockRead)
                 <=> (lockInfo[u].count > 0 /\ ~lockInfo[u].firstLockRead)
    <3>1. CASE u = t
      <4>1. /\ lockInfo'[t].count = lockInfo[t].count + 1
            /\ lockInfo'[t].firstLockRead
                  <=> (lockInfo[t].firstLockRead \/ lockInfo[t].count = 0)
        <5>1. lockInfo' = [lockInfo EXCEPT ![t] =
                ReadWriteLock!Entry(@.count + 1, @.firstLockRead \/ @.count = 0)]
          BY DEF ReadWriteLock!LockRead
        <5>2. lockInfo \in [Lockers -> LockEntries]
          OBVIOUS
        <5>3. lockInfo'[t] = ReadWriteLock!Entry(lockInfo[t].count + 1,
                               lockInfo[t].firstLockRead \/ lockInfo[t].count = 0)
          BY ONLY <5>1, <5>2, t \in Lockers
        <5> DEFINE read == lockInfo[t].firstLockRead \/ lockInfo[t].count = 0
                   count == lockInfo[t].count + 1
        <5>4. lockInfo'[t] = [entry |-> TRUE, count |-> count, firstLockRead |-> read]
          BY ONLY <5>3 DEF ReadWriteLock!Entry
        <5> HIDE DEF read, count
        <5>5. lockInfo'[t].count = count /\ lockInfo'[t].firstLockRead = read
          BY ONLY <5>4
        <5> QED
          BY <5>5, Zenon DEF read, count
      <4>2. lockInfo[t].count \in Nat
        OBVIOUS
      <4>3. lockInfo'[t].count > 0 /\ (lockInfo[t].count > 0 <=> lockInfo[t].count # 0)
        BY ONLY <4>1, <4>2
      <4> QED
        BY <3>1, <4>1, <4>3, Zenon
    <3>2. CASE u # t
      BY <3>2 DEF ReadWriteLock!LockRead
    <3> QED
      BY <3>1, <3>2
  <2> QED
    BY <2>1, AloneStays
<1>3. reads' = [reads EXCEPT ![t] = @ + 1] /\ writes' = writes
  BY DEF ReadWriteLock!LockRead
<1> QED
  BY <1>1, <1>2, <1>3 DEF ReadWriteLock!Promise!TakeRead

LEMMA LockWriteRefines ==
  ASSUME LockInv, NEW t \in Lockers, ReadWriteLock!LockWrite(t)
  PROVE  ReadWriteLock!Promise!TakeWrite(t) \/ ReadWriteLock!Promise!Upgrade(t)
<1> USE DEF LockInv, LockTypes, LockEntries
<1>1. /\ writes' = [writes EXCEPT ![t] = @ + 1] /\ reads' = reads
      /\ lockInfo'[t].count = lockInfo[t].count + 1
      /\ lockInfo'[t].firstLockRead = lockInfo[t].firstLockRead
      /\ \A u \in Lockers \ {t}: lockInfo'[u] = lockInfo[u]
  BY DEF ReadWriteLock!LockWrite, ReadWriteLock!Entry
<1>2. \A u \in Lockers: lockInfo[u].count = reads[u] + writes[u]
  BY DEF ReadWriteLock!EntriesMatchLock
<1>3. CASE ~ lockInfo[t].firstLockRead
  <2>1. \A u \in Lockers \ {t}: reads[u] + writes[u] = 0
    <3>1. CASE lockInfo[t].count = 0
      <4>1. readers \cup writers = {}
        BY <3>1 DEF ReadWriteLock!LockWrite
      <4>2. \A u \in Lockers: ~ (reads[u] + writes[u] > 0)
        BY <4>1, GuardsHoldLock
      <4>3. \A u \in Lockers: reads[u] \in Nat /\ writes[u] \in Nat
        OBVIOUS
      <4> QED
        BY ONLY <4>2, <4>3
    <3>2. CASE lockInfo[t].count # 0
      <4>1. t \in writers
        BY <1>3, <3>2, GuardsHoldLock DEF ReadWriteLock!Alone
      <4> QED
        BY <4>1, WritersAreAlone
    <3> QED
      BY <3>1, <3>2
  <2>2. reads[t] + writes[t] = 0 \/ t \in ReadWriteLock!Alone
    BY <1>2, <1>3 DEF ReadWriteLock!Alone
  <2>3. ReadWriteLock!Alone' = {t}
    <3>1. \A u \in Lockers \ {t}: ~ (lockInfo'[u].count > 0)
      BY <1>1, <1>2, <2>1
    <3>2. lockInfo'[t].count > 0 /\ ~ lockInfo'[t].firstLockRead
      BY <1>1, <1>3
    <3> QED
      BY <3>1, <3>2 DEF ReadWriteLock!Alone
  <2> QED
    BY <1>1, <2>1, <2>2, <2>3
       DEF ReadWriteLock!Promise!TakeWrite, ReadWriteLock!Promise!Guards
<1>4. CASE lockInfo[t].firstLockRead
  <2>1. lockInfo[t].count > 0
    BY <1>4 DEF EntryInv
  <2>2. t \in readers /\ t \notin writers
    BY <1>4, <2>1 DEF ReadWriteLock!EntriesMatchLock
  <2>3. ReadWriteLock!Alone = {}
    <3> SUFFICES ASSUME NEW u \in ReadWriteLock!Alone PROVE FALSE
      OBVIOUS
    <3>1. u \in writers
      BY GuardsHoldLock DEF ReadWriteLock!Alone
    <3> QED
      BY <2>2, <3>1 DEF ExclusionInv
  <2>4. ASSUME NEW u \in Lockers
        PROVE  (lockInfo'[u].count > 0 /\ ~lockInfo'[u].firstLockRead)
                 <=> (lockInfo[u].count > 0 /\ ~lockInfo[u].firstLockRead)
    BY <1>1, <1>4
  <2>5. ReadWriteLock!Alone' = ReadWriteLock!Alone
    BY <2>4, AloneStays
  <2>6. reads[t] + writes[t] > 0
    BY <1>2, <2>1
  <2> QED
    BY <1>1, <2>3, <2>5, <2>6
       DEF ReadWriteLock!Promise!Upgrade, ReadWriteLock!Promise!Guards
<1> QED
  BY <1>3, <1>4

LEMMA CountOffRefines ==
  ASSUME LockInv, NEW t \in Lockers, ReadWriteLock!CountOff(t)
  PROVE  ReadWriteLock!Promise!GiveRead(t) \/ ReadWriteLock!Promise!GiveWrite(t)
<1> USE DEF LockInv, LockTypes, LockEntries
<1>1. lockInfo[t].count = reads[t] + writes[t]
  BY DEF ReadWriteLock!EntriesMatchLock
<1>2. lockInfo[t].count > 0
  BY <1>1 DEF ReadWriteLock!CountOff
<1>3. \A u \in Lockers \ {t}: lockInfo'[u] = lockInfo[u]
  BY DEF ReadWriteLock!CountOff
<1>4. ReadWriteLock!Alone' = IF reads[t] + writes[t] = 1 THEN ReadWriteLock!Alone \ {t}
                             ELSE ReadWriteLock!Alone
  <2>1. CASE lockInfo[t].count = 1
    <3>1. lockInfo'[t].count = 0
      BY <2>1 DEF ReadWriteLock!CountOff, ReadWriteLock!NoEntry
    <3> QED
      BY <1>1, <1>3, <2>1, <3>1 DEF ReadWriteLock!Alone
  <2>2. CASE lockInfo[t].count # 1
    <3>1. /\ lockInfo'[t].count = lockInfo[t].count - 1
          /\ lockInfo'[t].firstLockRead = lockInfo[t].firstLockRead
      BY <2>2 DEF ReadWriteLock!CountOff, ReadWriteLock!Entry
    <3>2. lockInfo'[t].count > 0
      BY <1>2, <2>2, <3>1
    <3>3. ReadWriteLock!Alone' = ReadWriteLock!Alone
      BY <1>2, <1>3, <3>1, <3>2 DEF ReadWriteLock!Alone
    <3> QED
      BY <1>1, <2>2, <3>3
  <2> QED
    BY <2>1, <2>2
<1> QED
  BY <1>4 DEF ReadWriteLock!CountOff, ReadWriteLock!Promise!GiveRead,
     ReadWriteLock!Promise!GiveWrite, ReadWriteLock!Promise!Guards

LEMMA OtherLockSteps ==
  ASSUME LockInv, NEW t \in Lockers,
         ReadWriteLock!Find(t, "lock_read") \/ ReadWriteLock!Find(t, "lock_write")
           \/ ReadWriteLock!Release(t)
  PROVE  UNCHANGED ReadWriteLock!Promise!vars
<1> USE DEF LockInv, LockTypes, LockEntries
<1>1. ASSUME NEW u \in Lockers
      PROVE  (lockInfo'[u].count > 0 /\ ~lockInfo'[u].firstLockRead)
               <=> (lockInfo[u].count > 0 /\ ~lockInfo[u].firstLockRead)
  <2>1. CASE u = t /\ ~ lockInfo[t].entry
    <3>1. lockInfo[t].count = 0
      BY <2>1 DEF EntryInv
    <3>2. lockInfo'[t].count = 0 \/ lockInfo' = lockInfo
      BY <2>1 DEF ReadWriteLock!Find, ReadWriteLock!Release, ReadWriteLock!Entry
    <3> QED
      BY <2>1, <3>1, <3>2
  <2>2. CASE u # t \/ lockInfo[t].entry
    BY <2>2 DEF ReadWriteLock!Find, ReadWriteLock!Release
  <2> QED
    BY <2>1, <2>2
<1>2. ReadWriteLock!Alone' = ReadWriteLock!Alone
  BY <1>1, AloneStays
<1>3. UNCHANGED <<reads, writes>>
  BY DEF ReadWriteLock!Find, ReadWriteLock!Release
<1> QED
  BY <1>2, <1>3 DEF ReadWriteLock!Promise!vars

LEMMA LockNextRefines ==
  LockInv /\ [ReadWriteLock!Next]_(ReadWriteLock!vars)
    => [ReadWriteLock!Promise!Next]_(ReadWriteLock!Promise!vars)
<1> SUFFICES ASSUME LockInv, [ReadWriteLock!Next]_(ReadWriteLock!vars)
             PROVE  [ReadWriteLock!Promise!Next]_(ReadWriteLock!Promise!vars)
  OBVIOUS
<1>1. CASE UNCHANGED ReadWriteLock!vars
  BY <1>1 DEF ReadWriteLock!vars, ReadWriteLock!Promise!vars, ReadWriteLock!Alone
<1>2. CASE ReadWriteLock!Next
  BY <1>2, LockReadRefines, LockWriteRefines, CountOffRefines, OtherLockSteps
     DEF ReadWriteLock!Next, ReadWriteLock!Continue, ReadWriteLock!Promise!Next
<1> QED
  BY <1>1, <1>2

(* The recursive lock made from a pthread lock and the counts of its        *)
(* threads implements the lock that its users believe in.                   *)
LEMMA LockRefinement == ReadWriteLock!Spec => ReadWriteLock!ImplementsReadWriteLock
<1>1. ReadWriteLock!Init => ReadWriteLock!Promise!Init
  BY DEF ReadWriteLock!Init, ReadWriteLock!Promise!Init, ReadWriteLock!Alone,
         ReadWriteLock!NoEntry
<1> QED
  BY LockInitInv, LockNextInv, LockNextRefines, <1>1, PTL
     DEF ReadWriteLock!Spec, ReadWriteLock!ImplementsReadWriteLock, ReadWriteLock!Promise!Spec

-----------------------------------------------------------------------------
(* A thread that is about to count a guard has less than it may.            *)
GuardsInv ==
  /\ locks \in [Lockers -> 0 .. MaxLocks]
  /\ \A t \in Lockers:
       /\ lockInfo[t].count \in 0 .. MaxGuards
       /\ doing[t] \in {"lock_read", "lock_write"} => lockInfo[t].count < MaxGuards

LEMMA GuardsStep ==
  ASSUME LockInv, GuardsInv, [ReadWriteLock!Next]_(ReadWriteLock!vars)
  PROVE  GuardsInv'
<1> USE DEF LockInv, LockTypes, LockStages, LockEntries, ReadWriteLock!Entry,
        ReadWriteLock!NoEntry, ReadWriteLock!Become
<1>1. \A t \in Lockers: lockInfo[t].count = reads[t] + writes[t]
  BY DEF ReadWriteLock!EntriesMatchLock
<1>2. ASSUME NEW t \in Lockers, NEW o \in {"lock_read", "lock_write"},
             ReadWriteLock!Find(t, o)
      PROVE  GuardsInv'
  <2>1. lockInfo[t].count < MaxGuards
    BY <1>1, <1>2 DEF ReadWriteLock!Find
  <2>2. locks' \in [Lockers -> 0 .. MaxLocks]
    BY <1>2, BoundsAssumption DEF ReadWriteLock!Find, GuardsInv
  <2>3. ASSUME NEW u \in Lockers PROVE lockInfo'[u].count = lockInfo[u].count
    BY <1>2 DEF ReadWriteLock!Find, EntryInv
  <2>4. \A u \in Lockers \ {t}: doing'[u] = doing[u]
    BY <1>2 DEF ReadWriteLock!Find
  <2> QED
    BY <2>1, <2>2, <2>3, <2>4 DEF GuardsInv
<1>3. ASSUME NEW t \in Lockers, ReadWriteLock!LockRead(t) \/ ReadWriteLock!LockWrite(t)
      PROVE  GuardsInv'
  <2>1. /\ lockInfo[t].count < MaxGuards /\ locks' = locks
        /\ lockInfo'[t].count = lockInfo[t].count + 1 /\ doing'[t] = "idle"
        /\ \A u \in Lockers \ {t}: lockInfo'[u] = lockInfo[u] /\ doing'[u] = doing[u]
    BY <1>3 DEF ReadWriteLock!LockRead, ReadWriteLock!LockWrite, GuardsInv
  <2> QED
    BY <2>1, BoundsAssumption DEF GuardsInv
<1>4. ASSUME NEW t \in Lockers, ReadWriteLock!CountOff(t) PROVE GuardsInv'
  <2>1. lockInfo[t].count \in Nat \ {0}
    <3>1. lockInfo[t].count = reads[t] + writes[t]
      BY <1>1
    <3>2. reads[t] > 0 \/ writes[t] > 0
      BY <1>4 DEF ReadWriteLock!CountOff
    <3>3. reads[t] \in Nat /\ writes[t] \in Nat
      OBVIOUS
    <3> QED
      BY ONLY <3>1, <3>2, <3>3
  <2>2. /\ locks' = locks /\ lockInfo'[t].count = lockInfo[t].count - 1
        /\ doing'[t] \in {"idle", "release"}
        /\ \A u \in Lockers \ {t}: lockInfo'[u] = lockInfo[u] /\ doing'[u] = doing[u]
    BY <1>4, <2>1 DEF ReadWriteLock!CountOff
  <2>3. lockInfo'[t].count \in 0 .. MaxGuards
    <3>1. lockInfo[t].count \in 0 .. MaxGuards
      BY DEF GuardsInv
    <3>2. lockInfo'[t].count = lockInfo[t].count - 1
      BY <2>2
    <3> QED
      BY ONLY <2>1, <3>1, <3>2, BoundsAssumption
  <2> QED
    BY <2>2, <2>3 DEF GuardsInv
<1>5. ASSUME NEW t \in Lockers, ReadWriteLock!Release(t) PROVE GuardsInv'
  BY <1>5 DEF ReadWriteLock!Release, GuardsInv
<1>6. CASE UNCHANGED ReadWriteLock!vars
  BY <1>6 DEF ReadWriteLock!vars, GuardsInv
<1> QED
  BY <1>2, <1>3, <1>4, <1>5, <1>6 DEF ReadWriteLock!Next, ReadWriteLock!Continue

(* The variables keep their types, and no thread counts more guards than it *)
(* may have.                                                                *)
LEMMA LockTypeCorrect == ReadWriteLock!Spec => []ReadWriteLock!TypeOK
<1>1. ReadWriteLock!Init => GuardsInv
  BY BoundsAssumption DEF ReadWriteLock!Init, GuardsInv, ReadWriteLock!NoEntry
<1>2. LockInv /\ GuardsInv => ReadWriteLock!TypeOK
  BY DEF LockInv, LockTypes, LockEntries, LockStages, GuardsInv, ReadWriteLock!TypeOK
<1>3. LockInv /\ GuardsInv /\ [ReadWriteLock!Next]_(ReadWriteLock!vars) => GuardsInv'
  BY GuardsStep
<1> QED
  BY LockInitInv, LockNextInv, <1>1, <1>2, <1>3, PTL DEF ReadWriteLock!Spec

-----------------------------------------------------------------------------
(* The composition: a step of a part is a step of its specification.         *)

LEMMA ThreadPart == ServicesSpec => Spec
<1>1. ServicesInit => Init
  BY DEF ServicesInit
<1>2. [ServicesNext]_servicesVars => [Next]_vars
  BY DEF ServicesNext, servicesVars, vars, Waiting
<1> QED
  BY <1>1, <1>2, PTL DEF ServicesSpec, Spec

LEMMA SingletonPart == ServicesSpec => Singleton!Spec
<1>1. ServicesInit => Singleton!Init
  BY DEF ServicesInit
<1>2. [ServicesNext]_servicesVars => [Singleton!Next]_(Singleton!singletonVars)
  BY DEF ServicesNext, servicesVars, singletonVars, Singleton!singletonVars, Sharing
<1> QED
  BY <1>1, <1>2, PTL DEF ServicesSpec, Singleton!Spec

LEMMA SchedulerPart == ServicesSpec => Scheduler!Spec
<1>1. ServicesInit => Scheduler!Init
  BY DEF ServicesInit
<1>2. [ServicesNext]_servicesVars => [Scheduler!Next]_(Scheduler!schedulerVars)
  BY DEF ServicesNext, servicesVars, schedulerVars, Scheduler!schedulerVars, Serving
<1> QED
  BY <1>1, <1>2, PTL DEF ServicesSpec, Scheduler!Spec

LEMMA SignalsPart == ServicesSpec => Signals!Spec
<1>1. ServicesInit => Signals!Init
  BY DEF ServicesInit
<1>2. [ServicesNext]_servicesVars => [Signals!Next]_(Signals!serviceVars)
  BY DEF ServicesNext, servicesVars, serviceVars, Signals!serviceVars, Serving
<1> QED
  BY <1>1, <1>2, PTL DEF ServicesSpec, Signals!Spec

LEMMA EventLoopPart == ServicesSpec => EventLoop!Spec
<1>1. ServicesInit => EventLoop!Init
  BY DEF ServicesInit
<1>2. [ServicesNext]_servicesVars => [EventLoop!Next]_(EventLoop!dispatcherVars)
  BY DEF ServicesNext, servicesVars, dispatcherVars, EventLoop!dispatcherVars, Serving
<1> QED
  BY <1>1, <1>2, PTL DEF ServicesSpec, EventLoop!Spec

LEMMA ProcessPart == ServicesSpec => Process!Spec
<1>1. ServicesInit => Process!Init
  BY DEF ServicesInit
<1>2. [ServicesNext]_servicesVars => [Process!Next]_(Process!childVars)
  BY DEF ServicesNext, servicesVars, processVars, Process!childVars, Programs
<1> QED
  BY <1>1, <1>2, PTL DEF ServicesSpec, Process!Spec

LEMMA ProgramPart == ServicesSpec => Program!Spec
<1>1. ServicesInit => Program!Init
  BY DEF ServicesInit
<1>2. [ServicesNext]_servicesVars => [Program!Next]_(Program!huginnVars)
  BY DEF ServicesNext, servicesVars, programVars, Program!huginnVars, Programs
<1> QED
  BY <1>1, <1>2, PTL DEF ServicesSpec, Program!Spec

LEMMA SharedStreamPart == ServicesSpec => SharedStream!Spec
<1>1. ServicesInit => SharedStream!Init
  BY DEF ServicesInit
<1>2. [ServicesNext]_servicesVars => [SharedStream!Next]_(SharedStream!syncVars)
  BY DEF ServicesNext, servicesVars, sharedVars, SharedStream!syncVars, Sharing
<1> QED
  BY <1>1, <1>2, PTL DEF ServicesSpec, SharedStream!Spec

LEMMA FuturePart == ServicesSpec => Future!Spec
<1>1. ServicesInit => Future!Init
  BY DEF ServicesInit
<1>2. [ServicesNext]_servicesVars => [Future!Next]_(Future!futureVars)
  BY DEF ServicesNext, servicesVars, futureVars, Future!futureVars, Waiting
<1> QED
  BY <1>1, <1>2, PTL DEF ServicesSpec, Future!Spec

LEMMA ReadWriteLockPart == ServicesSpec => ReadWriteLock!Spec
<1>1. ServicesInit => ReadWriteLock!Init
  BY DEF ServicesInit
<1>2. [ServicesNext]_servicesVars => [ReadWriteLock!Next]_(ReadWriteLock!vars)
  BY DEF ServicesNext, servicesVars, lockVars, ReadWriteLock!vars, Waiting
<1> QED
  BY <1>1, <1>2, PTL DEF ServicesSpec, ReadWriteLock!Spec

LEMMA TLSPart == ServicesSpec => TLS!Spec
<1>1. ServicesInit => TLS!Init
  BY DEF ServicesInit
<1>2. [ServicesNext]_servicesVars => [TLS!Next]_(TLS!tlsVars)
  BY DEF ServicesNext, servicesVars, tlsVars, TLS!tlsVars, Sharing
<1> QED
  BY <1>1, <1>2, PTL DEF ServicesSpec, TLS!Spec

(* What HIODispatcherProofs asks for.                                        *)
LEMMA CallbacksAreNamed == EventLoop!Callbacks
<1>1. EventLoop!IsFiniteSet(Streams)
  BY StreamsAssumption DEF IsFiniteSet, EventLoop!IsFiniteSet
<1> QED
  BY <1>1, NamesAssumption DEF EventLoop!Callbacks

(* A future is destroyed when nobody uses it any more, and what get() gives  *)
(* was computed.                                                             *)
THEOREM FutureCorrect == ServicesSpec => []DestroyedAfterUse
BY FuturePart, DestructionIsSafe, ValueCorrect, PTL DEF DestroyedAfterUse

(* The read/write lock whose guards count themselves excludes as one does    *)
(* that knows of nothing but its readers and who is alone with it; who reads *)
(* already and takes a write guard is not.                                   *)
THEOREM LocksCorrect == ServicesSpec => ImplementsReadWriteLock
BY ReadWriteLockPart, LockRefinement, PTL DEF ImplementsReadWriteLock

(* Nothing that is used at the end is destroyed before: singletons by their  *)
(* destructors, the objects of threads, and the stream a call works with.    *)
THEOREM LifeTimesCorrect == ServicesSpec => []UsedOutlivesUser
<1>1. TLSInv => TLS!ObjectsExist /\ TLS!ObjectsAreOwned
  BY DEF TLSInv
<1> QED
  BY SharedStreamPart, SharedStreamSafe, TLSPart, TLSSafe, SingletonPart, SingletonsCorrect,
     <1>1, PTL DEF UsedOutlivesUser

(* A scheduled call is made not before the second of its moment and less     *)
(* than a second late, for every length of a second, delay and moment.       *)
THEOREM MomentsCorrect == ServicesSpec => []CalledOnTime
<1>1. SchedulerInv => CalledOnTime
  BY DEF SchedulerInv, CalledOnTime
<1> QED
  BY SchedulerPart, SchedulerSafe, <1>1, PTL

(* The loops see what was registered, although both work on copies: signals  *)
(* are waited for while they have handlers, and the array that poll() gets   *)
(* has the streams that are registered, once changes were taken over.        *)
THEOREM RegistrationsCorrect == ServicesSpec => []RegistrationsAreCurrent
<1>1. EventLoop!Spec => []EventLoop!RefsAreCurrent /\ []EventLoop!ChangesTakeEffect
  BY CallbacksAreNamed, EventLoop!RefsCorrect, EventLoop!ChangesCorrect
<1>2. SignalsInv => Signals!CatchHasHandlers
  BY DEF SignalsInv
<1> QED
  BY SignalsPart, SignalsSafe, EventLoopPart, <1>1, <1>2, PTL DEF RegistrationsAreCurrent

(* A stream that was unregistered is not called any more, and calls under    *)
(* the lock of a shared stream stay together.                                *)
THEOREM CallsCorrect == ServicesSpec => CallsAreInOrder
<1>1. EventLoop!Spec => EventLoop!DroppedIsNotCalled
  BY CallbacksAreNamed, EventLoop!DroppedCorrect
<1> QED
  BY EventLoopPart, SharedStreamPart, CallsTogether, <1>1, PTL DEF CallsAreInOrder

(* A child process gets signals only before it was waited for, and none is   *)
(* left behind, except one that finish() found stopped and takes for ended.  *)
THEOREM ChildrenCorrect == ServicesSpec => []ChildIsAccountedFor
BY ProcessPart, ProcessSafe, PTL DEF ChildIsAccountedFor

(* What HuginnProofs asks for.                                               *)
LEMMA ProgramIsLegal == Program!Legal
BY ProgramAssumption DEF Program!Legal

(* Exceptions, jumps and calls of every program in Huginn go where the       *)
(* statements they are in say, and variables are where the compiler has      *)
(* placed them, for every limit of frames and of nesting.                    *)
THEOREM ProgramsCorrect == ServicesSpec => []ProgramIsInOrder
<1>1. Program!Spec =>
        [](Program!ExceptionIsKept /\ Program!JumpsAreObeyed /\ Program!VariablesAreInPlace
           /\ Program!FramesAreCalls)
  BY ProgramIsLegal, Program!OrderCorrect
<1> QED
  BY ProgramPart, <1>1, PTL DEF ProgramIsInOrder

(* No destructor undoes a runtime error or a request to exit.                *)
THEOREM FailuresCorrect == ServicesSpec => FailuresAreFinal
<1>1. Program!Spec => FailuresAreFinal
  BY ProgramIsLegal, Program!FailuresCorrect DEF FailuresAreFinal
<1> QED
  BY ProgramPart, <1>1, PTL

(* The variables of every part keep their types.                             *)
THEOREM TypesCorrect == ServicesSpec => []TypesOK
<1>1. SingletonInv => Singleton!TypeOK
  BY DEF SingletonInv
<1>2. SchedulerInv => Scheduler!TypeOK
  BY DEF SchedulerInv
<1>3. SignalsInv => Signals!TypeOK
  BY DEF SignalsInv
<1>4. TLSInv => TLS!TypeOK
  BY DEF TLSInv
<1>5. Process!Spec => []Process!TypeOK
  <2>1. ProcessInv => Process!TypeOK
    BY DEF ProcessInv
  <2> QED
    BY <2>1, ProcessInitInv, ProcessNextInv, PTL DEF Process!Spec
<1>6. SharedStream!Spec => []SharedStream!TypeOK
  <2>1. SharedStreamInv => SharedStream!TypeOK
    BY DEF SharedStreamInv
  <2> QED
    BY <2>1, SharedStreamInitInv, SharedStreamNextInv, PTL DEF SharedStream!Spec
<1>7. EventLoop!Spec => []EventLoop!TypeOK
  <2>1. MaxMessages \in [EventLoop!All -> Nat]
    BY StreamsAssumption DEF EventLoop!All
  <2> QED
    BY <2>1, CallbacksAreNamed, EventLoop!TypeCorrect
<1>8. Program!Spec => []Program!TypeOK
  BY ProgramIsLegal, Program!TypeCorrect
<1> QED
  BY <1>1, <1>2, <1>3, <1>4, <1>5, <1>6, <1>7, <1>8, FutureTypeCorrect, LockTypeCorrect, ThreadTypes,
     SingletonsAreSafe, SchedulerSafe, SignalsSafe, TLSSafe, ThreadPart, SingletonPart,
     SchedulerPart, SignalsPart, EventLoopPart, ProcessPart, ProgramPart, SharedStreamPart,
     FuturePart, ReadWriteLockPart, TLSPart, PTL DEF TypesOK
=============================================================================
