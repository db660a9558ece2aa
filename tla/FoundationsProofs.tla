------------------------- MODULE FoundationsProofs --------------------------
(***************************************************************************)
(* What Foundations says holds for every value of its constants.  The      *)
(* semaphore has its proofs here, for every set of threads, every initial  *)
(* count, every set of reset values and every number of calls; those of    *)
(* the pool and of the pointers are in HPoolProofs and HPointerProofs.     *)
(***************************************************************************)
EXTENDS Foundations, SequenceTheorems, FiniteSetTheorems, TLAPS

-----------------------------------------------------------------------------
(* The semaphore.                                                            *)

(* Who is past pthread_mutex_lock holds the mutex, and the stages that only *)
(* some operations reach are reached by those operations alone.             *)
Holding == {"own", "body", "notify", "disown", "unlock"}

HolderInv == \A t \in Threads: stage[t] \in Holding <=> mutex = t

SleeperInv == \A t \in Threads: stage[t] = "asleep" => call[t] = "wait"

Inv == TypeOK /\ HolderInv /\ SleeperInv /\ ConditionUsedByOwner

LEMMA InitInv == Init => Inv
BY NobodyAssumption, ValuesAssumption, CallsAssumption
   DEF Init, Inv, TypeOK, HolderInv, SleeperInv, ConditionUsedByOwner,
       Operations, Stages, Holding

LEMMA NextInv == Inv /\ [Next]_vars => Inv'
<1> SUFFICES ASSUME Inv, [Next]_vars PROVE Inv'
  OBVIOUS
<1> USE NobodyAssumption, ValuesAssumption, CallsAssumption
        DEF Inv, TypeOK, HolderInv, SleeperInv, ConditionUsedByOwner,
            Operations, Stages, Holding, Move, Asleep
<1>1. ASSUME NEW t \in Threads, Lock(t) PROVE Inv'
  BY <1>1 DEF Lock
<1>2. ASSUME NEW t \in Threads, Own(t) PROVE Inv'
  BY <1>2 DEF Own
<1>3. ASSUME NEW t \in Threads, Disown(t) PROVE Inv'
  BY <1>3 DEF Disown
<1>4. ASSUME NEW t \in Threads, Unlock(t) PROVE Inv'
  BY <1>4 DEF Unlock
<1>5. ASSUME NEW t \in Threads, WaitSleep(t) PROVE Inv'
  BY <1>5 DEF WaitSleep, Sleep
<1>6. ASSUME NEW t \in Threads, WaitTake(t) PROVE Inv'
  BY <1>6 DEF WaitTake
<1>7. ASSUME NEW t \in Threads, SignalCount(t) PROVE Inv'
  BY <1>7 DEF SignalCount
<1>8. ASSUME NEW t \in Threads, SignalNotify(t) PROVE Inv'
  BY <1>8 DEF SignalNotify, SignalOne
<1>9. ASSUME NEW t \in Threads, NEW v \in ResetValues, ResetCount(t, v)
      PROVE  Inv'
  <2>1. v \in Nat
    OBVIOUS
  <2>2. CASE v > 0
    BY <1>9, <2>1, <2>2 DEF ResetCount
  <2>3. CASE ~ (v > 0)
    BY <1>9, <2>1, <2>3 DEF ResetCount
  <2> QED
    BY <2>2, <2>3
<1>10. ASSUME NEW t \in Threads, ResetNotify(t) PROVE Inv'
  BY <1>10 DEF ResetNotify, Broadcast
<1>11. ASSUME NEW t \in Threads, NEW o \in {"wait", "signal", "reset"}, Begin(t, o)
       PROVE  Inv'
  BY <1>11 DEF Begin
<1>12. ASSUME NEW t \in Threads, WakeUnsignalled(t) PROVE Inv'
  BY <1>12 DEF WakeUnsignalled
<1>13. CASE UNCHANGED vars
  BY <1>13 DEF vars
<1> QED
  BY <1>1, <1>2, <1>3, <1>4, <1>5, <1>6, <1>7, <1>8, <1>9, <1>10, <1>11,
     <1>12, <1>13 DEF Next, Step, Continue

(* The types of the variables, in every reachable state. *)
THEOREM TypeCorrect == Spec => []TypeOK
<1>1. Inv => TypeOK
  BY DEF Inv
<1> QED
  BY InitInv, NextInv, <1>1, PTL DEF Spec

(* HCondition is used only by the thread that _owner names, so that the     *)
(* assertions of do_wait(), signal() and broadcast() never fail.            *)
THEOREM OwnerCorrect == Spec => []ConditionUsedByOwner
<1>1. Inv => ConditionUsedByOwner
  BY DEF Inv
<1> QED
  BY InitInv, NextInv, <1>1, PTL DEF Spec

-----------------------------------------------------------------------------
(* Refinement: the step in which an operation takes effect is WaitTake,     *)
(* SignalCount or ResetCount; every other step of a call is a stutter.      *)
LEMMA InitRefines == Init => Abstract!AInit
BY DEF Init, Abstract!AInit

LEMMA NextRefines ==
  Inv /\ [Next]_vars => [Abstract!ANext]_(Abstract!avars)
<1> SUFFICES ASSUME Inv, [Next]_vars
             PROVE  [Abstract!ANext]_(Abstract!avars)
  OBVIOUS
<1> DEFINE pend == [t \in Threads |->
                     IF stage[t] \in {"lock", "own", "body", "asleep"}
                     THEN call[t] ELSE "none"]
<1> USE NobodyAssumption, ValuesAssumption
        DEF Inv, TypeOK, SleeperInv, Operations, Stages, Move, Asleep
<1>1. ASSUME NEW t \in Threads,
             Lock(t) \/ Own(t) \/ Disown(t) \/ Unlock(t) \/ WaitSleep(t)
             \/ WakeUnsignalled(t) \/ SignalNotify(t) \/ ResetNotify(t)
      PROVE  count' = count /\ pend' = pend
  BY <1>1 DEF Lock, Own, Disown, Unlock, WaitSleep, Sleep, WakeUnsignalled,
              SignalNotify, SignalOne, ResetNotify, Broadcast
<1>2. ASSUME NEW t \in Threads, NEW o \in {"wait", "signal", "reset"}, Begin(t, o)
      PROVE  Abstract!Enter(t, o)
  BY <1>2 DEF Begin, Abstract!Enter
<1>3. ASSUME NEW t \in Threads, WaitTake(t) PROVE Abstract!Pass(t)
  <2>1. Abstract!TakeEffect(t, "wait")
    BY <1>3 DEF WaitTake, Abstract!TakeEffect
  <2>2. count > 0 /\ count' = count - 1
    BY <1>3 DEF WaitTake
  <2> QED
    BY <2>1, <2>2 DEF Abstract!Pass
<1>4. ASSUME NEW t \in Threads, SignalCount(t) PROVE Abstract!Post(t)
  BY <1>4 DEF SignalCount, Abstract!Post, Abstract!TakeEffect
<1>5. ASSUME NEW t \in Threads, NEW v \in ResetValues, ResetCount(t, v)
      PROVE  Abstract!Set(t)
  BY <1>5 DEF ResetCount, Abstract!Set, Abstract!TakeEffect
<1>6. CASE UNCHANGED vars
  BY <1>6 DEF vars, Abstract!avars
<1>7. CASE Next
  BY <1>1, <1>2, <1>3, <1>4, <1>5, <1>7
     DEF Next, Step, Continue, Abstract!ANext, Abstract!avars
<1> QED
  BY <1>6, <1>7

(* HSemaphore implements the abstract semaphore. *)
THEOREM Refinement == Spec => ImplementsSemaphore
BY InitInv, NextInv, InitRefines, NextRefines, PTL
   DEF Spec, ImplementsSemaphore, Abstract!ASpec

-----------------------------------------------------------------------------
(* No wake-up is lost: NoLostWakeup is inductive relative to Inv.  Units    *)
(* are created by SignalCount, which adds a signaller, and a signaller      *)
(* leaves only by turning a sleeper into a thread that is awake.            *)
LEMMA CountSubset ==
  ASSUME NEW S \in SUBSET Threads
  PROVE  /\ IsFiniteSet(S)
         /\ Cardinality(S) \in Nat
BY ThreadsAssumption, FS_Subset, FS_CardinalityType

LEMMA CountAdd ==
  ASSUME NEW S \in SUBSET Threads, NEW t \in Threads, t \notin S
  PROVE  Cardinality(S \cup {t}) = Cardinality(S) + 1
BY CountSubset, FS_AddElement

LEMMA CountRemove ==
  ASSUME NEW S \in SUBSET Threads, NEW t \in S
  PROVE  Cardinality(S \ {t}) = Cardinality(S) - 1
BY CountSubset, FS_RemoveElement

LEMMA NextNoLostWakeup == Inv /\ NoLostWakeup /\ [Next]_vars => NoLostWakeup'
<1> SUFFICES ASSUME Inv, NoLostWakeup, [Next]_vars PROVE NoLostWakeup'
  OBVIOUS
<1> USE NobodyAssumption, ValuesAssumption
        DEF Inv, TypeOK, HolderInv, SleeperInv, Operations, Stages, Holding, Move,
            Asleep, Awake, Signalling, Broadcasting
<1>1. /\ Cardinality(Awake) \in Nat
      /\ Cardinality(Signalling) \in Nat
      /\ Cardinality(Awake') \in Nat
      /\ Cardinality(Signalling') \in Nat
  <2>1. /\ Awake \in SUBSET Threads /\ Signalling \in SUBSET Threads
        /\ Awake' \in SUBSET Threads /\ Signalling' \in SUBSET Threads
    OBVIOUS
  <2> QED
    BY <2>1, CountSubset
<1>2. ASSUME NEW t \in Threads, Lock(t) \/ Own(t) \/ Disown(t) \/ Unlock(t)
      PROVE  NoLostWakeup'
  <2>1. /\ count' = count /\ Asleep' = Asleep /\ Broadcasting' = Broadcasting
        /\ Awake' = Awake /\ Signalling' = Signalling
    BY <1>2 DEF Lock, Own, Disown, Unlock
  <2> QED
    BY <2>1 DEF NoLostWakeup
<1>3. ASSUME NEW t \in Threads, NEW o \in {"wait", "signal", "reset"}, Begin(t, o)
      PROVE  NoLostWakeup'
  <2>1. /\ count' = count /\ Asleep' = Asleep /\ Broadcasting' = Broadcasting
        /\ Signalling' = Signalling
    BY <1>3 DEF Begin
  <2>2. CASE o = "wait"
    <3>1. t \notin Awake /\ Awake' = Awake \cup {t}
      BY <1>3, <2>2 DEF Begin
    <3>2. Cardinality(Awake') = Cardinality(Awake) + 1
      BY <3>1, CountAdd
    <3> HIDE DEF Awake, Asleep, Signalling, Broadcasting
    <3> QED
      BY <1>1, <2>1, <3>2 DEF NoLostWakeup
  <2>3. CASE o # "wait"
    <3>1. Awake' = Awake
      BY <1>3, <2>3 DEF Begin
    <3> QED
      BY <2>1, <3>1 DEF NoLostWakeup
  <2> QED
    BY <2>2, <2>3
<1>4. ASSUME NEW t \in Threads, WakeUnsignalled(t) PROVE NoLostWakeup'
  <2>1. /\ count' = count /\ Asleep # {} /\ Broadcasting' = Broadcasting
        /\ Signalling' = Signalling
        /\ t \notin Awake /\ Awake' = Awake \cup {t}
    BY <1>4 DEF WakeUnsignalled
  <2>2. Cardinality(Awake') = Cardinality(Awake) + 1
    BY <2>1, CountAdd
  <2> HIDE DEF Awake, Asleep, Signalling, Broadcasting
  <2> QED
    BY <1>1, <2>1, <2>2 DEF NoLostWakeup
<1>5. ASSUME NEW t \in Threads, WaitSleep(t) PROVE NoLostWakeup'
  BY <1>1, <1>5 DEF WaitSleep, Sleep, NoLostWakeup
<1>6. ASSUME NEW t \in Threads, WaitTake(t) PROVE NoLostWakeup'
  <2>1. /\ count' = count - 1 /\ Asleep' = Asleep /\ Broadcasting' = Broadcasting
        /\ Signalling' = Signalling
        /\ t \in Awake /\ Awake' = Awake \ {t}
    BY <1>6 DEF WaitTake
  <2>2. Cardinality(Awake') = Cardinality(Awake) - 1
    BY <2>1, CountRemove
  <2> HIDE DEF Awake, Asleep, Signalling, Broadcasting
  <2> QED
    BY <1>1, <2>1, <2>2 DEF NoLostWakeup
<1>7. ASSUME NEW t \in Threads, SignalCount(t) PROVE NoLostWakeup'
  <2>1. /\ count' = count + 1 /\ Asleep' = Asleep /\ Broadcasting' = Broadcasting
        /\ Awake' = Awake
        /\ t \notin Signalling /\ Signalling' = Signalling \cup {t}
    BY <1>7 DEF SignalCount
  <2>2. Cardinality(Signalling') = Cardinality(Signalling) + 1
    BY <2>1, CountAdd
  <2> HIDE DEF Awake, Asleep, Signalling, Broadcasting
  <2> QED
    BY <1>1, <2>1, <2>2 DEF NoLostWakeup
<1>8. ASSUME NEW t \in Threads, SignalNotify(t) PROVE NoLostWakeup'
  <2>1. /\ count' = count /\ Broadcasting' = Broadcasting
        /\ t \in Signalling /\ Signalling' = Signalling \ {t}
    BY <1>8 DEF SignalNotify, SignalOne
  <2>2. CASE Asleep = {}
    BY <1>8, <2>2 DEF SignalNotify, SignalOne, NoLostWakeup
  <2>3. CASE Asleep # {}
    <3>1. PICK s \in Asleep: stage' = [stage EXCEPT ![t] = "disown", ![s] = "lock"]
      BY <1>8, <2>3 DEF SignalNotify, SignalOne
    <3>2. s \notin Awake /\ Awake' = Awake \cup {s}
      BY <1>8, <3>1 DEF SignalNotify, SignalOne
    <3>3. /\ Cardinality(Awake') = Cardinality(Awake) + 1
          /\ Cardinality(Signalling') = Cardinality(Signalling) - 1
      BY <2>1, <3>2, CountAdd, CountRemove
    <3> HIDE DEF Awake, Asleep, Signalling, Broadcasting
    <3> QED
      BY <1>1, <2>1, <2>3, <3>3 DEF NoLostWakeup
  <2> QED
    BY <2>2, <2>3
<1>9. ASSUME NEW t \in Threads, NEW v \in ResetValues, ResetCount(t, v)
      PROVE  NoLostWakeup'
  <2>1. CASE v > 0
    <3>1. t \in Broadcasting'
      BY <1>9, <2>1 DEF ResetCount
    <3> QED
      BY <3>1 DEF NoLostWakeup
  <2>2. CASE ~ (v > 0)
    BY <1>1, <1>9, <2>2 DEF ResetCount, NoLostWakeup
  <2> QED
    BY <2>1, <2>2
<1>10. ASSUME NEW t \in Threads, ResetNotify(t) PROVE NoLostWakeup'
  <2>1. Asleep' = {}
    BY <1>10 DEF ResetNotify, Broadcast
  <2> QED
    BY <2>1 DEF NoLostWakeup
<1>11. CASE UNCHANGED vars
  BY <1>11 DEF vars, NoLostWakeup
<1> QED
  BY <1>2, <1>3, <1>4, <1>5, <1>6, <1>7, <1>8, <1>9, <1>10, <1>11
     DEF Next, Step, Continue

(* HSemaphore loses no wake-up, however many threads wait and signal. *)
THEOREM NoWakeupIsLost == Spec => []NoLostWakeup
<1>1. Init => NoLostWakeup
  BY DEF Init, NoLostWakeup, Asleep
<1> QED
  BY InitInv, NextInv, <1>1, NextNoLostWakeup, PTL DEF Spec

-----------------------------------------------------------------------------
(* Memory: every block of the pool lists exactly its free cells, and its     *)
(* blocks stay in order; no pointer uses memory that is gone, what is held   *)
(* is there and what is not is given back.                                   *)
THEOREM MemoryCorrect == MemorySpec => []MemoryIsAccountedFor
<1>1. Pool!Spec =>
        [](Pool!FreeCellsAreListed /\ Pool!FullBlocksComeFirst /\ Pool!UnusedPoolIsSmall)
  BY CellsAssumption, Pool!PoolCorrect
<1>2. Pointer!Spec => [](Pointer!NoMemoryIsMissed /\ Pointer!HeldIsAlive)
  BY PointersAssumption, Pointer!PointerCorrect
<1> QED
  BY <1>1, <1>2, PTL DEF MemorySpec, MemoryIsAccountedFor

(* The variables of the pool and of the pointers keep their types.           *)
THEOREM MemoryTypes == MemorySpec => [](Pool!TypeOK /\ Pointer!TypeOK)
<1>1. Pool!Spec => []Pool!TypeOK
  BY CellsAssumption, Pool!TypeCorrect
<1>2. Pointer!Spec => []Pointer!TypeOK
  BY PointersAssumption, Pointer!TypeCorrect
<1> QED
  BY <1>1, <1>2, PTL DEF MemorySpec

-----------------------------------------------------------------------------
(* The cache.                                                                *)

IsOnce(s) == \A i, j \in 1 .. Len(s): s[i] = s[j] => i = j

(* t is s with k, which had the place p in s or none, before the rest.       *)
IsToFront(t, s, k, p) ==
  /\ p <= Len(s) => s[p] = k
  /\ \A j \in 1 .. p - 1: s[j] # k
  /\ Len(t) = (IF p <= Len(s) THEN Len(s) ELSE Len(s) + 1)
  /\ t[1] = k
  /\ \A i \in 2 .. p: t[i] = s[i - 1]
  /\ \A i \in p + 1 .. Len(s): t[i] = s[i]

LEMMA ToFrontFacts ==
  ASSUME NEW S, NEW s \in Seq(S), IsOnce(s), NEW k \in S
  PROVE  /\ Cache!ToFront(s, k) \in Seq(S)
         /\ \E p \in 1 .. Len(s) + 1: IsToFront(Cache!ToFront(s, k), s, k, p)
<1> DEFINE p == Cache!PlaceOf(s, k)
           a == SubSeq(s, 1, p - 1)
           b == SubSeq(s, p + 1, Len(s))
           d == <<k>> \o a
           t == d \o b
<1>1. p \in 1 .. Len(s) + 1 /\ (p <= Len(s) => s[p] = k) /\ \A j \in 1 .. p - 1: s[j] # k
  <2>1. \E i \in 1 .. Len(s) + 1: (i <= Len(s) => s[i] = k) /\ \A j \in 1 .. i - 1: s[j] # k
    <3>1. CASE \E i \in 1 .. Len(s): s[i] = k
      <4>1. PICK i \in 1 .. Len(s): s[i] = k
        BY <3>1
      <4>2. \A j \in 1 .. i - 1: s[j] # k
        BY <4>1 DEF IsOnce
      <4>. QED BY <4>1, <4>2
    <3>2. CASE \A i \in 1 .. Len(s): s[i] # k
      BY <3>2
    <3>. QED BY <3>1, <3>2
  <2>. QED BY <2>1 DEF Cache!PlaceOf
<1>2. t = Cache!ToFront(s, k)
  BY DEF Cache!ToFront
<1> HIDE DEF p
<1>3. a \in Seq(S) /\ Len(a) = p - 1 /\ \A i \in 1 .. p - 1: a[i] = s[i]
  BY <1>1
<1>4. /\ b \in Seq(S) /\ Len(b) = (IF p <= Len(s) THEN Len(s) - p ELSE 0)
      /\ \A i \in 1 .. Len(b): b[i] = s[p + i]
  BY <1>1
<1> HIDE DEF a, b
<1>5. /\ d \in Seq(S) /\ Len(d) = p /\ d[1] = k
      /\ \A i \in 2 .. p: d[i] = s[i - 1]
  BY <1>1, <1>3
<1> HIDE DEF d
<1>6. t \in Seq(S) /\ Len(t) = p + Len(b)
  BY <1>1, <1>4, <1>5
<1>7. \A i \in 1 .. p: t[i] = d[i]
  BY <1>1, <1>4, <1>5
<1>8. \A i \in p + 1 .. p + Len(b): t[i] = b[i - p]
  BY <1>1, <1>4, <1>5
<1> HIDE DEF t
<1>9. \A i \in p + 1 .. Len(s): t[i] = s[i]
  <2> TAKE i \in p + 1 .. Len(s)
  <2>1. p \in Nat /\ i \in Nat /\ Len(s) \in Nat /\ p + 1 <= i /\ i <= Len(s)
    BY <1>1
  <2>2. Len(b) \in Nat /\ Len(b) = Len(s) - p
    BY <1>1, <1>4, <2>1
  <2>3. i - p \in 1 .. Len(b) /\ i \in p + 1 .. p + Len(b) /\ p + (i - p) = i
    BY <2>1, <2>2
  <2>. QED BY <1>4, <1>8, <2>3
<1>10. Len(t) = (IF p <= Len(s) THEN Len(s) ELSE Len(s) + 1)
  BY <1>1, <1>4, <1>6
<1>11. IsToFront(t, s, k, p)
  BY <1>1, <1>5, <1>7, <1>9, <1>10 DEF IsToFront
<1>. QED BY <1>1, <1>2, <1>6, <1>11

LEMMA ToFrontIsOnce ==
  ASSUME NEW S, NEW s \in Seq(S), IsOnce(s), NEW k \in S, NEW t \in Seq(S),
         NEW p \in 1 .. Len(s) + 1, IsToFront(t, s, k, p)
  PROVE  IsOnce(t)
<1> DEFINE from(i) == IF i <= p THEN i - 1 ELSE i
<1>1. ASSUME NEW i \in 2 .. Len(t)
      PROVE  from(i) \in 1 .. Len(s) /\ t[i] = s[from(i)] /\ from(i) # p
  BY DEF IsToFront
<1>2. ASSUME NEW i \in 2 .. Len(t) PROVE t[i] # k
  BY <1>1 DEF IsToFront, IsOnce
<1>3. ASSUME NEW i \in 2 .. Len(t), NEW j \in 2 .. Len(t), t[i] = t[j] PROVE i = j
  <2>1. from(i) = from(j)
    <3>1. s[from(i)] = s[from(j)] /\ from(i) \in 1 .. Len(s) /\ from(j) \in 1 .. Len(s)
      BY <1>1, <1>3
    <3> HIDE DEF from
    <3>. QED BY <3>1 DEF IsOnce
  <2>2. from(i) # p /\ from(j) # p
    BY <1>1
  <2>. QED BY <2>1, <2>2
<1>4. t[1] = k
  BY DEF IsToFront
<1>. QED BY <1>2, <1>3, <1>4 DEF IsOnce

(* e is the beginning of r. *)
Begins(e, r) == Len(e) <= Len(r) /\ \A i \in 1 .. Len(e): e[i] = r[i]

In(k, s) == \E i \in 1 .. Len(s): s[i] = k

LEMMA HitKeeps ==
  ASSUME NEW S, NEW e \in Seq(S), NEW r \in Seq(S), IsOnce(r), Begins(e, r), NEW k \in S, In(k, e),
         NEW d, d = Cache!ToFront(e, k), NEW t, t = Cache!ToFront(r, k)
  PROVE  /\ d \in Seq(S) /\ t \in Seq(S) /\ IsOnce(t) /\ Begins(d, t)
         /\ Len(d) = Len(e) /\ Len(t) = Len(r) /\ \A j: In(j, d) <=> In(j, e)
<1>1. IsOnce(e)
  BY DEF IsOnce, Begins
<1>2. d \in Seq(S) /\ \E p \in 1 .. Len(e) + 1: IsToFront(d, e, k, p)
  BY <1>1, ToFrontFacts
<1>3. PICK p \in 1 .. Len(e) + 1: IsToFront(d, e, k, p)
  BY <1>2
<1>4. t \in Seq(S) /\ \E q \in 1 .. Len(r) + 1: IsToFront(t, r, k, q)
  BY ToFrontFacts
<1>5. PICK q \in 1 .. Len(r) + 1: IsToFront(t, r, k, q)
  BY <1>4
<1>6. IsOnce(t)
  BY <1>4, <1>5, ToFrontIsOnce
<1>7. p <= Len(e) /\ e[p] = k
  BY <1>3 DEF In, IsToFront
<1>8. p \in 1 .. Len(r) /\ r[p] = k
  BY <1>7 DEF Begins
<1>9. q = p
  <2>0. q <= Len(r)
    <3>1. ASSUME q = Len(r) + 1 PROVE FALSE
      <4>1. p \in 1 .. q - 1
        BY <1>8, <3>1
      <4>. QED BY <1>5, <1>8, <4>1 DEF IsToFront
    <3>. QED BY <3>1
  <2>1. q \in 1 .. Len(r) /\ r[q] = k
    BY <1>5, <2>0 DEF IsToFront
  <2>. QED BY <1>8, <2>1 DEF IsOnce
<1>10. Len(d) = Len(e) /\ Len(t) = Len(r)
  BY <1>3, <1>5, <1>7, <1>8, <1>9 DEF IsToFront
<1>11. ASSUME NEW i \in 1 .. Len(e) PROVE d[i] = t[i]
  <2>1. CASE i = 1
    BY <1>3, <1>5, <2>1 DEF IsToFront
  <2>2. CASE i \in 2 .. p
    <3>1. d[i] = e[i - 1]
      BY <1>3, <2>2 DEF IsToFront
    <3>2. t[i] = r[i - 1]
      BY <1>5, <1>9, <2>2 DEF IsToFront
    <3>3. i - 1 \in 1 .. Len(e)
      BY <1>7, <2>2
    <3>. QED BY <3>1, <3>2, <3>3 DEF Begins
  <2>3. CASE i \in p + 1 .. Len(e)
    <3>1. d[i] = e[i]
      BY <1>3, <2>3 DEF IsToFront
    <3>2. i \in q + 1 .. Len(r)
      BY <1>9, <2>3 DEF Begins
    <3>3. t[i] = r[i]
      BY <1>5, <3>2 DEF IsToFront
    <3>. QED BY <3>1, <3>3 DEF Begins
  <2>. QED BY <2>1, <2>2, <2>3
<1>12. ASSUME NEW i \in 1 .. Len(e) PROVE In(d[i], e)
  <2>1. CASE i = 1
    BY <1>3, <1>7, <2>1 DEF IsToFront, In
  <2>2. CASE i \in 2 .. p
    <3>1. d[i] = e[i - 1] /\ i - 1 \in 1 .. Len(e)
      BY <1>3, <1>7, <2>2 DEF IsToFront
    <3>. QED BY <3>1 DEF In
  <2>3. CASE i \in p + 1 .. Len(e)
    BY <1>3, <2>3 DEF IsToFront, In
  <2>. QED BY <2>1, <2>2, <2>3
<1>13. ASSUME NEW i \in 1 .. Len(e) PROVE In(e[i], d)
  <2>1. CASE i = p
    BY <1>3, <1>7, <1>10, <2>1 DEF IsToFront, In
  <2>2. CASE i \in 1 .. p - 1
    <3>1. d[i + 1] = e[i] /\ i + 1 \in 1 .. Len(d)
      <4>1. i + 1 \in 2 .. p /\ (i + 1) - 1 = i
        BY <2>2
      <4>2. d[i + 1] = e[(i + 1) - 1]
        BY <1>3, <4>1 DEF IsToFront
      <4>3. i + 1 \in 1 .. Len(d)
        BY <1>7, <1>10, <4>1
      <4>. QED BY <4>1, <4>2, <4>3
    <3>. QED BY <3>1 DEF In
  <2>3. CASE i \in p + 1 .. Len(e)
    BY <1>3, <1>10, <2>3 DEF IsToFront, In
  <2>. QED BY <2>1, <2>2, <2>3
<1>14. Begins(d, t)
  BY <1>8, <1>10, <1>11 DEF Begins
<1>15. ASSUME NEW j PROVE In(j, d) <=> In(j, e)
  <2>1. ASSUME NEW i \in 1 .. Len(d), d[i] = j PROVE In(j, e)
    BY <1>10, <1>12, <2>1
  <2>2. ASSUME NEW i \in 1 .. Len(e), e[i] = j PROVE In(j, d)
    BY <1>13, <2>2
  <2>. QED BY <2>1, <2>2 DEF In
<1>. QED BY <1>2, <1>4, <1>6, <1>10, <1>14, <1>15

LEMMA PutKeeps ==
  ASSUME NEW S, NEW e \in Seq(S), NEW r \in Seq(S), IsOnce(r), Begins(e, r), NEW k \in S, ~In(k, e),
         NEW d \in Seq(S), Len(d) = Len(e) + 1, d[1] = k, \A i \in 1 .. Len(e): d[i + 1] = e[i],
         NEW t \in {Cache!ToFront(r, k)}
  PROVE  /\ t \in Seq(S) /\ IsOnce(t) /\ Begins(d, t)
         /\ Len(t) <= Len(r) + 1
<1>1. d \in Seq(S) /\ Len(d) = Len(e) + 1 /\ d[1] = k /\ \A i \in 1 .. Len(e): d[i + 1] = e[i]
  OBVIOUS
<1>4. t \in Seq(S) /\ \E q \in 1 .. Len(r) + 1: IsToFront(t, r, k, q)
  BY ToFrontFacts
<1>5. PICK q \in 1 .. Len(r) + 1: IsToFront(t, r, k, q)
  BY <1>4
<1>6. IsOnce(t)
  BY <1>4, <1>5, ToFrontIsOnce
<1>7. q > Len(e)
  <2>1. ASSUME q <= Len(e) PROVE FALSE
    <3>1. q \in 1 .. Len(e) /\ q <= Len(r)
      BY <2>1 DEF Begins
    <3>2. r[q] = k
      BY <1>5, <3>1 DEF IsToFront
    <3>. QED BY <3>1, <3>2 DEF In, Begins
  <2>. QED BY <2>1
<1>8. Len(d) <= Len(t) /\ Len(t) <= Len(r) + 1
  BY <1>1, <1>5, <1>7 DEF IsToFront, Begins
<1>9. ASSUME NEW i \in 1 .. Len(d) PROVE d[i] = t[i]
  <2>1. CASE i = 1
    BY <1>1, <1>5, <2>1 DEF IsToFront
  <2>2. CASE i \in 2 .. Len(d)
    <3>1. i \in 2 .. q /\ i - 1 \in 1 .. Len(e) /\ (i - 1) + 1 = i
      BY <1>1, <1>7, <2>2
    <3>. QED BY <1>1, <1>5, <3>1, ZenonT(60) DEF IsToFront, Begins
  <2>. QED BY <2>1, <2>2, <1>1
<1>. QED BY <1>1, <1>4, <1>6, <1>8, <1>9 DEF Begins

CacheTypes ==
  /\ entries \in Seq(CacheKeys) /\ recent \in Seq(CacheKeys) /\ fetching \in Seq(CacheKeys)
  /\ lookup \subseteq CacheKeys

(* The entries are the first of the keys in the order of use.                *)
RecentInv ==
  /\ IsOnce(recent) /\ Begins(entries, recent)
  /\ Len(entries) <= MaxEntries
  /\ Len(entries) = MaxEntries \/ Len(entries) = Len(recent)

LookupInv == \A k \in CacheKeys: k \in lookup <=> In(k, entries)

(* Each fetcher that runs obtains the key of the next, and has no entry yet. *)
FetchInv ==
  /\ \A i \in 1 .. Len(fetching) - 1: fetching[i + 1] \in FetchedWith[fetching[i]]
  /\ \A i \in 1 .. Len(fetching): fetching[i] \notin lookup
  /\ IsOnce(fetching)

CacheInv == CacheTypes /\ RecentInv /\ LookupInv /\ FetchInv

LEMMA CacheInitInv == Cache!Init => CacheInv
BY CacheAssumption
   DEF Cache!Init, CacheInv, CacheTypes, RecentInv, LookupInv, FetchInv, IsOnce, Begins, In

LEMMA HitInv == ASSUME CacheInv, NEW k \in CacheKeys, Cache!Hit(k) PROVE CacheInv'
<1> DEFINE d == Cache!ToFront(entries, k)
           t == Cache!ToFront(recent, k)
<1>1. In(k, entries)
  BY DEF CacheInv, LookupInv, Cache!Hit
<1>2. /\ d \in Seq(CacheKeys) /\ t \in Seq(CacheKeys) /\ IsOnce(t) /\ Begins(d, t)
      /\ Len(d) = Len(entries) /\ Len(t) = Len(recent) /\ \A j: In(j, d) <=> In(j, entries)
  BY <1>1, HitKeeps DEF CacheInv, CacheTypes, RecentInv
<1> HIDE DEF d, t
<1>3. entries' = d /\ recent' = t /\ UNCHANGED <<lookup, fetching>>
  BY DEF Cache!Hit, d, t
<1>4. CacheTypes' /\ RecentInv'
  BY <1>2, <1>3 DEF CacheInv, CacheTypes, RecentInv
<1>5. LookupInv'
  BY <1>2, <1>3 DEF CacheInv, LookupInv
<1>6. FetchInv'
  BY <1>3 DEF CacheInv, FetchInv
<1>. QED BY <1>4, <1>5, <1>6 DEF CacheInv

(* A key whose fetcher runs is not obtained again.                           *)
LEMMA NotFetchedTwice ==
  ASSUME CacheInv, NEW k \in CacheKeys, Cache!MayObtain(k)
  PROVE  ~In(k, fetching)
<1> DEFINE n == Len(fetching)
<1>1. SUFFICES ASSUME NEW i \in 1 .. n, fetching[i] = k PROVE FALSE
  BY DEF In
<1> DEFINE S == {fetching[j]: j \in i .. n}
<1>2. fetching \in Seq(CacheKeys) /\ n \in Nat /\ n >= 1 /\ i \in i .. n
  BY DEF CacheInv, CacheTypes
<1>3. S \in (SUBSET CacheKeys) \ {{}}
  BY <1>2
<1>4. ASSUME NEW j \in i .. n PROVE FetchedWith[fetching[j]] \cap S # {}
  <2>1. CASE j = n
    <3>1. k \in FetchedWith[fetching[n]]
      BY <1>2 DEF Cache!MayObtain, Cache!Last
    <3>. QED BY <1>1, <1>2, <2>1, <3>1
  <2>2. CASE j < n
    <3>1. fetching[j + 1] \in FetchedWith[fetching[j]] /\ j + 1 \in i .. n
      BY <1>2, <2>2 DEF CacheInv, FetchInv
    <3>. QED BY <3>1
  <2>. QED BY <2>1, <2>2, <1>2
<1>5. PICK x \in S: FetchedWith[x] \cap S = {}
  <2> HIDE DEF S
  <2>. QED BY <1>3, CacheAssumption
<1>. QED BY <1>4, <1>5

LEMMA MissInv == ASSUME CacheInv, NEW k \in CacheKeys, Cache!Miss(k) PROVE CacheInv'
<1>1. fetching \in Seq(CacheKeys) /\ ~In(k, fetching)
  BY NotFetchedTwice DEF Cache!Miss, CacheInv, CacheTypes
<1> DEFINE g == Append(fetching, k)
           n == Len(fetching)
<1>2. /\ g \in Seq(CacheKeys) /\ Len(g) = n + 1 /\ n \in Nat /\ g[n + 1] = k
      /\ \A i \in 1 .. n: g[i] = fetching[i]
  BY <1>1
<1> HIDE DEF g
<1>3. fetching' = g /\ UNCHANGED <<entries, lookup, recent>> /\ k \notin lookup
  BY DEF Cache!Miss, g
<1>4. CacheTypes' /\ RecentInv' /\ LookupInv'
  BY <1>2, <1>3 DEF CacheInv, CacheTypes, RecentInv, LookupInv
<1>5. ASSUME NEW i \in 1 .. n PROVE g[i + 1] \in FetchedWith[g[i]]
  <2>1. CASE i = n
    <3>1. k \in FetchedWith[fetching[n]]
      BY <1>1, <2>1 DEF Cache!Miss, Cache!MayObtain, Cache!Last
    <3>. QED BY <1>2, <2>1, <3>1
  <2>2. CASE i < n
    <3>1. g[i + 1] = fetching[i + 1] /\ g[i] = fetching[i] /\ i \in 1 .. n - 1
      BY <1>2, <2>2
    <3>. QED BY <3>1 DEF CacheInv, FetchInv
  <2>. QED BY <2>1, <2>2, <1>2
<1>6. ASSUME NEW i \in 1 .. n + 1 PROVE g[i] \notin lookup
  BY <1>2, <1>3 DEF CacheInv, FetchInv
<1>7. IsOnce(g)
  BY <1>1, <1>2 DEF CacheInv, FetchInv, IsOnce, In
<1>8. FetchInv'
  <2>1. Len(g) - 1 = n
    BY <1>2
  <2>. QED BY <1>2, <1>3, <1>5, <1>6, <1>7, <2>1 DEF FetchInv
<1>. QED BY <1>4, <1>8 DEF CacheInv

LEMMA FrontFacts ==
  ASSUME NEW S, NEW s \in Seq(S), Len(s) # 0
  PROVE  /\ Cache!Front(s) \in Seq(S) /\ Len(Cache!Front(s)) = Len(s) - 1
         /\ \A i \in 1 .. Len(s) - 1: Cache!Front(s)[i] = s[i]
<1> DEFINE n == Len(s) - 1
<1>1. n \in 0 .. Len(s) /\ n \in Nat
  OBVIOUS
<1> HIDE DEF n
<1>2. SubSeq(s, 1, n) \in Seq(S)
  BY <1>1
<1>3. Len(SubSeq(s, 1, n)) = n
  BY <1>1
<1>4. \A i \in 1 .. n: SubSeq(s, 1, n)[i] = s[i]
  BY <1>1
<1>5. Cache!Front(s) = SubSeq(s, 1, n)
  BY DEF Cache!Front, n
<1>6. n = Len(s) - 1
  BY DEF n
<1>. QED BY <1>2, <1>3, <1>4, <1>5, <1>6

LEMMA FetchedInv == ASSUME CacheInv, Cache!Fetched PROVE CacheInv'
<1> DEFINE n == Len(fetching)
           k == fetching[n]
           all == <<k>> \o entries
           t == Cache!ToFront(recent, k)
           g == Cache!Front(fetching)
<1>1. /\ fetching \in Seq(CacheKeys) /\ n \in Nat \ {0} /\ k \in CacheKeys /\ k = Cache!Last(fetching)
      /\ entries \in Seq(CacheKeys) /\ recent \in Seq(CacheKeys) /\ MaxEntries \in Nat \ {0}
  BY CacheAssumption DEF Cache!Fetched, CacheInv, CacheTypes, Cache!Last
<1>2. k \notin lookup /\ ~In(k, entries)
  BY <1>1 DEF CacheInv, FetchInv, LookupInv
<1>3. g \in Seq(CacheKeys) /\ Len(g) = n - 1 /\ \A i \in 1 .. n - 1: g[i] = fetching[i] /\ g[i] # k
  <2>1. g \in Seq(CacheKeys) /\ Len(g) = n - 1 /\ \A i \in 1 .. n - 1: g[i] = fetching[i]
    BY <1>1, FrontFacts
  <2>2. \A i \in 1 .. n - 1: fetching[i] # k
    BY <1>1 DEF CacheInv, FetchInv, IsOnce
  <2>. QED BY <2>1, <2>2
<1>4. /\ all \in Seq(CacheKeys) /\ t \in Seq(CacheKeys) /\ IsOnce(t) /\ Begins(all, t)
      /\ Len(all) = Len(entries) + 1 /\ Len(t) <= Len(recent) + 1
      /\ all[1] = k /\ \A i \in 1 .. Len(entries): all[i + 1] = entries[i]
  <2>1. IsOnce(recent) /\ Begins(entries, recent)
    BY DEF CacheInv, RecentInv
  <2>2. all = <<k>> \o entries /\ t = Cache!ToFront(recent, k)
    OBVIOUS
  <2> HIDE DEF k, all, t
  <2>3. recent \in Seq(CacheKeys) /\ entries \in Seq(CacheKeys) /\ k \in CacheKeys /\ ~In(k, entries)
    BY <1>1, <1>2
  <2>4. /\ all \in Seq(CacheKeys) /\ t \in Seq(CacheKeys) /\ IsOnce(t) /\ Begins(all, t)
        /\ Len(all) = Len(entries) + 1 /\ Len(t) <= Len(recent) + 1
        /\ all[1] = k /\ \A i \in 1 .. Len(entries): all[i + 1] = entries[i]
    <3>1. /\ all \in Seq(CacheKeys) /\ Len(all) = Len(entries) + 1
          /\ all[1] = k /\ \A i \in 1 .. Len(entries): all[i + 1] = entries[i]
      BY <2>2, <2>3
    <3>2. t \in {Cache!ToFront(recent, k)}
      BY <2>2
    <3>. QED BY <3>1, <3>2, <2>1, <2>3, PutKeeps
  <2>. QED BY <2>4
<1> DEFINE m == Len(entries)
<1>5. m \in Nat /\ m <= MaxEntries /\ (m = MaxEntries \/ m = Len(recent))
  BY <1>1 DEF CacheInv, RecentInv
<1>6. /\ entries' = IF m + 1 > MaxEntries THEN Cache!Front(all) ELSE all
      /\ lookup' = (lookup \cup {k}) \ (IF m + 1 > MaxEntries THEN {all[m + 1]} ELSE {})
      /\ recent' = t /\ fetching' = g
  BY <1>1, <1>4 DEF Cache!Fetched, Cache!Last
<1>7. /\ Cache!Front(all) \in Seq(CacheKeys) /\ Len(Cache!Front(all)) = m
      /\ \A i \in 1 .. m: Cache!Front(all)[i] = all[i]
  BY <1>4, <1>5 DEF Cache!Front
<1>8. IsOnce(all)
  BY <1>4 DEF IsOnce, Begins
<1>9. ASSUME NEW j \in CacheKeys PROVE In(j, all) <=> j \in lookup \cup {k}
  <2>1. ASSUME NEW i \in 1 .. Len(all), all[i] = j PROVE j \in lookup \cup {k}
    <3>1. CASE i = 1
      BY <1>4, <2>1, <3>1
    <3>2. CASE i > 1
      <4>1. i - 1 \in 1 .. m /\ all[(i - 1) + 1] = entries[i - 1] /\ (i - 1) + 1 = i
        BY <1>4, <1>5, <3>2
      <4>2. In(j, entries)
        BY <2>1, <4>1 DEF In
      <4>. QED BY <4>2 DEF CacheInv, LookupInv
    <3>. QED BY <3>1, <3>2, <1>4
  <2>2. ASSUME j \in lookup PROVE In(j, all)
    <3>1. PICK i \in 1 .. m: entries[i] = j
      BY <2>2 DEF CacheInv, LookupInv, In
    <3>2. i + 1 \in 1 .. Len(all) /\ all[i + 1] = j
      BY <1>4, <1>5, <3>1
    <3>. QED BY <3>2 DEF In
  <2>3. In(k, all)
    <3>1. 1 \in 1 .. Len(all)
      BY <1>4, <1>5
    <3>. QED BY <1>4, <3>1 DEF In
  <2>. QED BY <2>1, <2>2, <2>3 DEF In
<1> HIDE DEF all, t, g, k, n
<1>10. Len(t) \in Nat
  BY <1>4
<1>13. lookup' \subseteq lookup \cup {k} => FetchInv'
  <2>1. \A i \in 1 .. Len(g) - 1: g[i + 1] \in FetchedWith[g[i]]
    <3> TAKE i \in 1 .. Len(g) - 1
    <3>1. i \in 1 .. Len(fetching) - 1 /\ g[i] = fetching[i] /\ g[i + 1] = fetching[i + 1]
      BY <1>1, <1>3 DEF n
    <3>. QED BY <3>1 DEF CacheInv, FetchInv
  <2>2. \A i \in 1 .. Len(g): g[i] \notin lookup \cup {k}
    BY <1>1, <1>3 DEF CacheInv, FetchInv, n
  <2>3. IsOnce(g)
    BY <1>1, <1>3, SMTT(40) DEF CacheInv, FetchInv, IsOnce, n
  <2>. QED BY <1>6, <2>1, <2>2, <2>3 DEF FetchInv
<1>11. CASE m + 1 > MaxEntries
  <2>1. m = MaxEntries /\ m + 1 = Len(all)
    BY <1>1, <1>4, <1>5, <1>11
  <2>2. entries' = Cache!Front(all) /\ lookup' = (lookup \cup {k}) \ {all[m + 1]}
    BY <1>6, <1>11
  <2> DEFINE e == Cache!Front(all)
  <2>3. \A j \in CacheKeys: In(j, e) <=> j \in lookup'
    <3> TAKE j \in CacheKeys
    <3>1. ASSUME NEW i \in 1 .. m, e[i] = j PROVE j \in lookup'
      <4>1. i \in 1 .. Len(all) /\ m + 1 \in 1 .. Len(all) /\ all[i] = j /\ i # m + 1
        BY <1>5, <1>7, <2>1, <3>1
      <4>2. j # all[m + 1]
        BY <1>8, <4>1 DEF IsOnce
      <4>. QED BY <1>9, <2>2, <4>1, <4>2 DEF In
    <3>2. ASSUME j \in lookup' PROVE In(j, e)
      <4>1. In(j, all) /\ j # all[m + 1]
        BY <1>9, <2>2, <3>2
      <4>2. PICK i \in 1 .. Len(all): all[i] = j
        BY <4>1 DEF In
      <4>3. i \in 1 .. m /\ e[i] = j
        BY <1>5, <1>7, <2>1, <4>1, <4>2
      <4>. QED BY <1>7, <4>3 DEF In
    <3>. QED BY <1>7, <3>1, <3>2 DEF In
  <2> HIDE DEF e
  <2>4. Begins(e, t)
    BY <1>4, <1>5, <1>7, <1>10, <2>1 DEF Begins, e
  <2>5. CacheTypes'
    BY <1>1, <1>3, <1>4, <1>6, <1>7, <2>2 DEF CacheInv, CacheTypes, e
  <2>6. RecentInv'
    BY <1>4, <1>6, <1>7, <2>1, <2>2, <2>4, <1>5 DEF RecentInv, e
  <2>7. LookupInv'
    BY <2>2, <2>3 DEF LookupInv, e
  <2>8. lookup' \subseteq lookup \cup {k}
    BY <2>2
  <2>. QED BY <2>5, <2>6, <2>7, <2>8, <1>13 DEF CacheInv
<1>12. CASE ~(m + 1 > MaxEntries)
  <2>1. entries' = all /\ lookup' = lookup \cup {k}
    BY <1>6, <1>12
  <2>2. m = Len(recent) /\ Len(t) = m + 1 /\ m + 1 <= MaxEntries
    BY <1>1, <1>4, <1>5, <1>10, <1>12 DEF Begins
  <2>3. CacheTypes'
    BY <1>1, <1>3, <1>4, <1>6, <2>1 DEF CacheInv, CacheTypes
  <2>4. RecentInv'
    BY <1>4, <1>6, <2>1, <2>2 DEF RecentInv
  <2>5. LookupInv'
    BY <1>9, <2>1 DEF LookupInv
  <2>. QED BY <2>1, <2>3, <2>4, <2>5, <1>13 DEF CacheInv
<1>. QED BY <1>11, <1>12

LEMMA CacheNextInv == CacheInv /\ [Cache!Next]_(Cache!cacheVars) => CacheInv'
<1> SUFFICES ASSUME CacheInv, [Cache!Next]_(Cache!cacheVars) PROVE CacheInv'
  OBVIOUS
<1>1. ASSUME Cache!FetcherThrows PROVE CacheInv'
  BY <1>1 DEF Cache!FetcherThrows, CacheInv, CacheTypes, RecentInv, LookupInv, FetchInv, IsOnce
<1>2. ASSUME Cache!Clear PROVE CacheInv'
  BY <1>2, CacheAssumption
     DEF Cache!Clear, CacheInv, CacheTypes, RecentInv, LookupInv, FetchInv, IsOnce, Begins, In
<1>3. ASSUME UNCHANGED Cache!cacheVars PROVE CacheInv'
  BY <1>3 DEF Cache!cacheVars, CacheInv, CacheTypes, RecentInv, LookupInv, FetchInv
<1>. QED BY <1>1, <1>2, <1>3, HitInv, MissInv, FetchedInv DEF Cache!Next

LEMMA CacheEntries == CacheInv => Cache!EntriesAreRecent
<1> SUFFICES ASSUME CacheInv PROVE Cache!EntriesAreRecent
  OBVIOUS
<1> DEFINE n == Len(entries)
<1>0. entries \in Seq(CacheKeys) /\ recent \in Seq(CacheKeys) /\ n \in Nat
  BY DEF CacheInv, CacheTypes
<1>1. entries = SubSeq(recent, 1, n)
  <2>1. /\ SubSeq(recent, 1, n) \in Seq(CacheKeys) /\ Len(SubSeq(recent, 1, n)) = n
        /\ \A i \in 1 .. n: SubSeq(recent, 1, n)[i] = recent[i]
    BY <1>0 DEF CacheInv, RecentInv, Begins
  <2>2. \A i \in 1 .. n: SubSeq(recent, 1, n)[i] = entries[i]
    BY <2>1 DEF CacheInv, RecentInv, Begins
  <2>. QED BY <1>0, <2>1, <2>2, SeqEqual
<1>2. lookup = Cache!ToSet(entries)
  BY <1>0 DEF CacheInv, CacheTypes, LookupInv, In, Cache!ToSet
<1>3. Cardinality(lookup) = n
  <2>1. entries \in [1 .. n -> lookup]
    BY <1>0, <1>2 DEF Cache!ToSet
  <2>2. \A i, j \in 1 .. n: entries[i] = entries[j] => i = j
    BY <1>0 DEF CacheInv, RecentInv, Begins, IsOnce
  <2>3. \A k \in lookup: \E i \in 1 .. n: entries[i] = k
    BY <1>0, <1>2 DEF Cache!ToSet
  <2>4. entries \in Bijection(1 .. n, lookup)
    BY <2>1, <2>2, <2>3 DEF Bijection, Injection, Surjection, IsInjective
  <2>. QED BY <2>4, <1>0, FS_CountingElements DEF ExistsBijection
<1>4. Len(entries) = MaxEntries \/ Len(entries) = Len(recent)
  BY DEF CacheInv, RecentInv
<1>. QED BY <1>1, <1>2, <1>3, <1>4 DEF Cache!EntriesAreRecent, Cache!ToSet, Cache!Cardinality, Cardinality

-----------------------------------------------------------------------------
(* Streams in memory.                                                        *)

LEMMA Mod == ASSUME NEW m \in Nat, m > 0, NEW a \in 0 .. 2 * m - 1
             PROVE  a % m = (IF a < m THEN a ELSE a - m)
OBVIOUS

LEMMA MaxOfTwo == ASSUME NEW a \in Int, NEW b \in Int
                  PROVE  Memory!Max({a, b}) = (IF a >= b THEN a ELSE b)
BY DEF Memory!Max

LEMMA MinOfTwo == ASSUME NEW a \in Int, NEW b \in Int
                  PROVE  Memory!Min({a, b}) = (IF a <= b THEN a ELSE b)
BY DEF Memory!Min

LEMMA Joined ==
  ASSUME NEW S, NEW s \in Seq(S), NEW t \in Seq(S)
  PROVE  /\ s \o t \in Seq(S) /\ Len(s \o t) = Len(s) + Len(t)
         /\ \A i \in 1 .. Len(s): (s \o t)[i] = s[i]
         /\ \A i \in Len(s) + 1 .. Len(s) + Len(t): (s \o t)[i] = t[i - Len(s)]
OBVIOUS

(* The place in the memory of what is i behind the place to read. *)
Behind(i) == IF cursorRead + i <= memorySize THEN cursorRead + i ELSE cursorRead + i - memorySize

BytesTypes ==
  /\ observer \in BOOLEAN
  /\ memory \in Seq(Bytes) /\ memorySize \in 0 .. Len(memory)
  /\ validBytes \in -1 .. memorySize
  /\ cursorRead \in 0 .. memorySize /\ cursorWrite \in 0 .. memorySize
  /\ pending \in Seq(Bytes)
  /\ ahead \in Int /\ ahead <= Len(pending)
  /\ observer => memorySize = RingSize /\ Len(memory) = RingSize
  /\ ~observer => memorySize <= MaxProvided

(* Only a ring is read across its end. *)
UnreadInv ==
  /\ Len(pending) = Memory!Valid
  /\ ~observer => cursorRead + Memory!Valid <= memorySize
  /\ \A i \in 1 .. Memory!Valid: pending[i] = memory[Behind(i)]

(* The place to write as long as reading has not passed it. *)
CursorsInv ==
  ahead >= 0 => \/ cursorWrite = cursorRead + ahead
                \/ observer /\ cursorWrite = cursorRead + ahead - memorySize

MemoryInv == BytesTypes /\ UnreadInv /\ CursorsInv

(* Where a byte is does not change when those in front of it are read.       *)
LEMMA StillBehind ==
  ASSUME NEW m \in Nat, NEW c \in 0 .. m, NEW d \in Int, NEW s \in Nat, NEW i \in Nat \ {0}, s + i <= m,
         d = (IF c + s <= m THEN c + s ELSE c + s - m)
  PROVE  (IF c + (s + i) <= m THEN c + (s + i) ELSE c + (s + i) - m)
         = (IF d + i <= m THEN d + i ELSE d + i - m)
OBVIOUS

LEMMA MemoryInit == Memory!Init => MemoryInv
<1> SUFFICES ASSUME Memory!Init PROVE MemoryInv
  OBVIOUS
<1>1. Memory!Min(Bytes) \in Bytes
  <2>1. \E m \in Bytes: \A k \in Bytes: m <= k
    BY BytesAssumption, Pool!LeastNumber
  <2>. QED BY <2>1 DEF Memory!Min
<1>2. memory \in Seq(Bytes) /\ Len(memory) = (IF observer THEN RingSize ELSE 0)
  BY <1>1, BytesAssumption DEF Memory!Init
<1>. QED BY <1>2, BytesAssumption
        DEF Memory!Init, MemoryInv, BytesTypes, UnreadInv, CursorsInv, Memory!Valid, Memory!Known,
            Memory!UNINITIALIZED

LEMMA ReadInv == ASSUME MemoryInv, NEW n \in Nat \ {0}, Memory!Read(n) PROVE MemoryInv'
<1> DEFINE size == Memory!Min({n, Memory!Readable})
           unread == IF Memory!Known THEN pending ELSE SubSeq(memory, 1, memorySize)
           whole == Memory!Readable
<1>1. /\ memory \in Seq(Bytes) /\ pending \in Seq(Bytes) /\ memorySize \in 0 .. Len(memory)
      /\ cursorRead \in 0 .. memorySize /\ cursorWrite \in 0 .. memorySize
      /\ ahead \in Int /\ ahead <= Len(pending) /\ Len(pending) = Memory!Valid
      /\ validBytes \in -1 .. memorySize
  BY DEF MemoryInv, BytesTypes, UnreadInv
<1>2. /\ whole \in 0 .. memorySize /\ unread \in Seq(Bytes) /\ Len(unread) = whole
      /\ ~observer => cursorRead + whole <= memorySize
      /\ \A i \in 1 .. whole: unread[i] = memory[Behind(i)]
      /\ ahead <= whole
  <2>1. CASE Memory!Known
    BY <1>1, <2>1 DEF MemoryInv, UnreadInv, Memory!Known, Memory!Valid, Memory!Readable, Memory!UNINITIALIZED
  <2>2. CASE ~Memory!Known
    <3>1. cursorRead = 0 /\ whole = memorySize
      BY <2>2 DEF Memory!Read, Memory!Untouched, Memory!Readable
    <3>2. Len(pending) = 0
      BY <1>1, <2>2 DEF Memory!Valid
    <3>3. /\ unread \in Seq(Bytes) /\ Len(unread) = memorySize
          /\ \A i \in 1 .. memorySize: unread[i] = memory[i]
      BY <1>1, <2>2
    <3>. QED BY <1>1, <3>1, <3>2, <3>3 DEF Behind
  <2>. QED BY <2>1, <2>2
<1> HIDE DEF whole, unread
<1>3. size \in 0 .. whole /\ (size = 0 => whole = 0)
  <2>0. n \in Int /\ whole \in Int /\ size = Memory!Min({n, whole})
    BY <1>1, <1>2 DEF whole
  <2>1. size = (IF n <= whole THEN n ELSE whole)
    <3> HIDE DEF size
    <3>. QED BY <2>0, MinOfTwo
  <2>. QED BY <1>1, <1>2, <2>1
<1>4. /\ cursorRead' = Memory!Wrapped(cursorRead, size)
      /\ validBytes' = IF size = 0 THEN Memory!UNINITIALIZED ELSE whole - size
      /\ pending' = SubSeq(unread, size + 1, Len(unread))
      /\ ahead' = ahead - size
      /\ UNCHANGED <<observer, memory, memorySize, cursorWrite>>
  BY DEF Memory!Read, whole, unread
<1> HIDE DEF size
<1>5. cursorRead' = (IF cursorRead + size <= memorySize THEN cursorRead + size
                                                        ELSE cursorRead + size - memorySize)
  BY <1>1, <1>2, <1>3, <1>4 DEF Memory!Wrapped
<1>6. Memory!Valid' = whole - size /\ validBytes' \in -1 .. memorySize
  BY <1>1, <1>2, <1>3, <1>4 DEF Memory!Valid, Memory!Known, Memory!UNINITIALIZED
<1>7. /\ pending' \in Seq(Bytes) /\ Len(pending') = whole - size
      /\ \A i \in 1 .. whole - size: pending'[i] = unread[size + i]
  BY <1>2, <1>3, <1>4
<1>8. ASSUME NEW i \in 1 .. whole - size PROVE pending'[i] = memory[Behind(i)']
  <2>1. Behind(size + i) = Behind(i)'
    <3>1. /\ memorySize \in Nat /\ size \in Nat /\ i \in Nat \ {0} /\ size + i <= memorySize
          /\ memorySize' = memorySize
      BY <1>1, <1>2, <1>3, <1>4
    <3>. QED BY <1>1, <1>5, <3>1, StillBehind DEF Behind
  <2>2. size + i \in 1 .. whole
    BY <1>1, <1>2, <1>3
  <2>. QED BY <1>2, <1>7, <2>1, <2>2
<1>9. CursorsInv'
  <2>1. ASSUME ahead' >= 0 PROVE CursorsInv'
    <3>1. ahead >= 0 /\ ahead = ahead' + size
      BY <1>1, <1>2, <1>3, <1>4, <2>1
    <3>2. \/ cursorWrite = cursorRead + ahead
          \/ observer /\ cursorWrite = cursorRead + ahead - memorySize
      BY <3>1 DEF MemoryInv, CursorsInv
    <3>. QED BY <1>1, <1>2, <1>3, <1>4, <1>5, <2>1, <3>1, <3>2 DEF CursorsInv
  <2>. QED BY <2>1 DEF CursorsInv
<1>10. UnreadInv'
  <2>1. ~observer' => cursorRead' + (whole - size) <= memorySize'
    BY <1>1, <1>2, <1>3, <1>4, <1>5
  <2>. QED BY <1>4, <1>6, <1>7, <1>8, <2>1 DEF UnreadInv
<1>11. BytesTypes'
  <2>1. cursorRead' \in 0 .. memorySize
    BY <1>1, <1>2, <1>3, <1>5
  <2>2. ahead' \in Int /\ ahead' <= Len(pending')
    BY <1>1, <1>2, <1>3, <1>4, <1>7
  <2>. QED BY <1>4, <1>6, <1>7, <2>1, <2>2 DEF MemoryInv, BytesTypes
<1>. QED BY <1>9, <1>10, <1>11 DEF MemoryInv

LEMMA SeekInv == ASSUME MemoryInv, NEW position \in Nat, Memory!Seek(position) PROVE MemoryInv'
<1>1. /\ memory \in Seq(Bytes) /\ pending \in Seq(Bytes) /\ memorySize \in 0 .. Len(memory)
      /\ cursorRead \in 0 .. memorySize /\ cursorWrite \in 0 .. memorySize
      /\ validBytes \in -1 .. memorySize /\ memorySize > 0 /\ ~observer
      /\ Memory!Valid = validBytes /\ validBytes >= 0
  BY DEF MemoryInv, BytesTypes, UnreadInv, Memory!Seek, Memory!Valid, Memory!Known, Memory!UNINITIALIZED
<1> DEFINE end == cursorRead + validBytes
<1>2. end <= memorySize /\ position <= end
  BY <1>1 DEF MemoryInv, UnreadInv, Memory!Seek
<1>3. position % memorySize = (IF position < memorySize THEN position ELSE 0)
  BY <1>1, <1>2, Mod
<1>4. /\ cursorRead' = position % memorySize /\ cursorWrite' = position % memorySize
      /\ validBytes' = end - position
      /\ pending' = SubSeq(memory, position + 1, end)
      /\ ahead' = 0
      /\ UNCHANGED <<observer, memory, memorySize>>
  <2>1. cursorRead' = position % memorySize /\ cursorWrite' = position % memorySize
    BY DEF Memory!Seek
  <2>2. validBytes' = end - position
    <3>1. validBytes' = cursorRead + validBytes - position
      BY Zenon DEF Memory!Seek
    <3>. QED BY <3>1, <1>1
  <2>4. pending' = SubSeq(memory, position + 1, end)
    BY Zenon DEF Memory!Seek
  <2>3. ahead' = 0 /\ UNCHANGED <<observer, memory, memorySize>>
    BY DEF Memory!Seek
  <2>. QED BY <2>1, <2>2, <2>3, <2>4
<1> HIDE DEF end
<1>5. end \in Nat
  BY <1>1 DEF end
<1>6. /\ pending' \in Seq(Bytes) /\ Len(pending') = end - position
      /\ \A i \in 1 .. end - position: pending'[i] = memory[position + i]
  BY <1>1, <1>2, <1>4, <1>5
<1>7. Memory!Valid' = end - position /\ validBytes' \in -1 .. memorySize
  BY <1>1, <1>2, <1>4, <1>5 DEF Memory!Valid, Memory!Known, Memory!UNINITIALIZED
<1>8. ASSUME NEW i \in 1 .. end - position PROVE pending'[i] = memory[Behind(i)']
  <2>1. Behind(i)' = position + i
    BY <1>1, <1>2, <1>3, <1>4, <1>5 DEF Behind
  <2>. QED BY <1>6, <2>1
<1>9. UnreadInv'
  <2>1. cursorRead' + (end - position) <= memorySize'
    BY <1>1, <1>2, <1>3, <1>4, <1>5
  <2>. QED BY <1>4, <1>6, <1>7, <1>8, <2>1 DEF UnreadInv
<1>10. BytesTypes'
  BY <1>1, <1>2, <1>3, <1>4, <1>5, <1>6, <1>7 DEF MemoryInv, BytesTypes
<1>11. CursorsInv'
  BY <1>1, <1>3, <1>4 DEF CursorsInv
<1>. QED BY <1>9, <1>10, <1>11 DEF MemoryInv

LEMMA WriteFacts ==
  ASSUME MemoryInv, NEW t \in Seq(Bytes), Len(t) > 0, Memory!Write(t)
  PROVE  LET a == ahead n == Len(t) V == Memory!Valid IN
         /\ n \in Nat /\ V \in 0 .. memorySize /\ a \in 0 .. V
         /\ memory \in Seq(Bytes) /\ memorySize \in 0 .. Len(memory)
         /\ cursorRead \in 0 .. memorySize /\ cursorWrite \in 0 .. memorySize
         /\ pending \in Seq(Bytes) /\ Len(pending) = V
         /\ pending' \in Seq(Bytes)
         /\ Len(pending') = (IF a + n >= V THEN a + n ELSE V)
         /\ \A i \in 1 .. a: pending'[i] = pending[i]
         /\ \A i \in a + 1 .. a + n: pending'[i] = t[i - a]
         /\ \A i \in a + n + 1 .. V: pending'[i] = pending[i]
         /\ ahead' = a + n
         /\ UNCHANGED <<observer, cursorRead>>
<1> DEFINE a == ahead
           n == Len(t)
           V == Memory!Valid
           p == SubSeq(pending, 1, a)
           q == SubSeq(pending, a + n + 1, Len(pending))
           u == p \o t
<1>1. /\ n \in Nat /\ V \in 0 .. memorySize /\ a \in 0 .. V
      /\ memory \in Seq(Bytes) /\ memorySize \in 0 .. Len(memory)
      /\ cursorRead \in 0 .. memorySize /\ cursorWrite \in 0 .. memorySize
      /\ pending \in Seq(Bytes) /\ Len(pending) = V
  BY DEF MemoryInv, BytesTypes, UnreadInv, Memory!Valid, Memory!Known, Memory!UNINITIALIZED, Memory!Write
<1>2. pending' = u \o q /\ ahead' = a + n /\ UNCHANGED <<observer, cursorRead>>
  BY DEF Memory!Write
<1> HIDE DEF a, n, V
<1>3. p \in Seq(Bytes) /\ Len(p) = a /\ \A i \in 1 .. a: p[i] = pending[i]
  BY <1>1
<1>4. /\ q \in Seq(Bytes) /\ Len(q) = (IF a + n >= V THEN 0 ELSE V - a - n)
      /\ \A i \in 1 .. Len(q): q[i] = pending[a + n + i]
  BY <1>1
<1> HIDE DEF p, q
<1>5. /\ u \in Seq(Bytes) /\ Len(u) = a + n /\ \A i \in 1 .. a: u[i] = p[i]
      /\ \A i \in a + 1 .. a + n: u[i] = t[i - a]
  BY <1>1, <1>3, Joined DEF n
<1> HIDE DEF u
<1>6. /\ pending' \in Seq(Bytes) /\ Len(pending') = a + n + Len(q)
      /\ \A i \in 1 .. a + n: pending'[i] = u[i]
      /\ \A i \in a + n + 1 .. a + n + Len(q): pending'[i] = q[i - (a + n)]
  <2>1. \A i \in 1 .. Len(u): (u \o q)[i] = u[i]
    BY <1>4, <1>5, Joined
  <2>2. \A i \in Len(u) + 1 .. Len(u) + Len(q): (u \o q)[i] = q[i - Len(u)]
    BY <1>4, <1>5, Joined
  <2>3. u \o q \in Seq(Bytes) /\ Len(u \o q) = Len(u) + Len(q)
    BY <1>4, <1>5, Joined
  <2>. QED BY <1>2, <1>5, <2>1, <2>2, <2>3
<1>7. Len(pending') = (IF a + n >= V THEN a + n ELSE V)
  BY <1>1, <1>4, <1>6
<1>8. \A i \in 1 .. a: pending'[i] = pending[i]
  BY <1>1, <1>3, <1>5, <1>6
<1>9. \A i \in a + 1 .. a + n: pending'[i] = t[i - a]
  BY <1>1, <1>5, <1>6
<1>10. \A i \in a + n + 1 .. V: pending'[i] = pending[i]
  <2> TAKE i \in a + n + 1 .. V
  <2>1. i \in a + n + 1 .. a + n + Len(q) /\ i - (a + n) \in 1 .. Len(q) /\ a + n + (i - (a + n)) = i
    BY <1>1, <1>4
  <2>2. q[i - (a + n)] = pending[a + n + (i - (a + n))]
    BY <1>4, <2>1
  <2>. QED BY <1>6, <2>1, <2>2
<1>. QED BY <1>1, <1>2, <1>6, <1>7, <1>8, <1>9, <1>10 DEF a, n, V

(* A ring: of what is before and behind the bytes that are written nothing   *)
(* is lost, on both sides of the end.                                        *)
LEMMA WriteObservedInv ==
  ASSUME MemoryInv, NEW t \in Seq(Bytes), Len(t) > 0, Memory!Write(t), Memory!WriteObserved(t)
  PROVE  MemoryInv'
<1> DEFINE a == ahead
           n == Len(t)
           V == Memory!Valid
           W == IF a + n >= V THEN a + n ELSE V
           S == memorySize
           flat == IF cursorRead > (cursorRead + V) % S /\ cursorWrite < cursorRead
                   THEN cursorWrite + S ELSE cursorWrite
<1>1. /\ n \in Nat /\ n > 0 /\ V \in 0 .. S /\ a \in 0 .. V
      /\ memory \in Seq(Bytes) /\ S \in Nat /\ cursorRead \in 0 .. S /\ cursorWrite \in 0 .. S
      /\ pending \in Seq(Bytes) /\ Len(pending) = V
      /\ pending' \in Seq(Bytes) /\ Len(pending') = W
      /\ ahead' = a + n /\ UNCHANGED <<observer, cursorRead>>
  BY WriteFacts
<1>2. /\ \A i \in 1 .. a: pending'[i] = pending[i]
      /\ \A i \in a + 1 .. a + n: pending'[i] = t[i - a]
      /\ \A i \in a + n + 1 .. V: pending'[i] = pending[i]
  BY WriteFacts
<1>3. /\ observer /\ n <= S - V /\ UNCHANGED memorySize
      /\ validBytes' = Memory!Committed(n)
      /\ cursorWrite' = Memory!Wrapped(cursorWrite, n)
  BY DEF Memory!WriteObserved
<1>4. memory' = [i \in DOMAIN memory |->
                   LET d == IF i > cursorWrite THEN i - cursorWrite ELSE i - cursorWrite + S
                   IN IF d <= n THEN t[d] ELSE memory[i]]
  BY DEF Memory!WriteObserved
<1>5. S = RingSize /\ Len(memory) = S /\ DOMAIN memory = 1 .. S /\ S > 0
  BY <1>1, <1>3, BytesAssumption DEF MemoryInv, BytesTypes
<1>6. Memory!Committed(n) = Memory!Max({V, flat + n - cursorRead})
  BY DEF Memory!Committed
<1>7. \/ cursorWrite = cursorRead + a
      \/ cursorWrite = cursorRead + a - S
  BY <1>1 DEF MemoryInv, CursorsInv
<1>8. \A i \in 1 .. V: pending[i] = memory[Behind(i)]
  BY DEF MemoryInv, UnreadInv
<1> HIDE DEF a, n, V, S
<1>9. flat - cursorRead = a
  <2> DEFINE b == cursorRead + V
             m == b % S
  <2>1. V < S
    BY <1>1, <1>3
  <2>2. m = (IF b < S THEN b ELSE b - S)
    <3>1. S \in Nat /\ S > 0 /\ b \in 0 .. 2 * S - 1
      BY <1>1, <1>5, <2>1
    <3> HIDE DEF b
    <3>2. b % S = (IF b < S THEN b ELSE b - S)
      BY <3>1, Mod
    <3>. QED BY <3>2, Zenon DEF m
  <2> HIDE DEF m
  <2>3. flat = (IF cursorRead > m /\ cursorWrite < cursorRead THEN cursorWrite + S ELSE cursorWrite)
    BY DEF m
  <2> HIDE DEF flat
  <2>. QED BY <1>1, <1>5, <1>7, <2>1, <2>2, <2>3
<1>10. validBytes' = W
  <2>1. flat \in Int
    BY <1>1, <1>5 DEF flat
  <2> HIDE DEF flat
  <2>2. flat + n - cursorRead = a + n /\ a + n \in Int /\ V \in Int
    BY <1>1, <1>9, <2>1
  <2>3. Memory!Max({V, a + n}) = (IF V >= a + n THEN V ELSE a + n)
    BY <2>2, MaxOfTwo
  <2>4. validBytes' = Memory!Max({V, flat + n - cursorRead})
    BY <1>3, <1>6
  <2>5. validBytes' = Memory!Max({V, a + n})
    BY <2>2, <2>4, Zenon
  <2>6. validBytes' = (IF V >= a + n THEN V ELSE a + n)
    BY <2>3, <2>5, Zenon
  <2>. QED BY <1>1, <2>2, <2>6
<1> HIDE DEF flat
<1>11. W \in 0 .. S
  BY <1>1, <1>3
<1>12. Memory!Valid' = W
  BY <1>10, <1>11, <1>1 DEF Memory!Valid, Memory!Known, Memory!UNINITIALIZED
<1>13. cursorWrite' = (IF cursorWrite + n > S THEN cursorWrite + n - S ELSE cursorWrite + n)
  BY <1>3 DEF Memory!Wrapped, S
<1>14. memory' \in Seq(Bytes) /\ Len(memory') = S
  <2>1. \A i \in 1 .. S: memory'[i] \in Bytes
    <3> TAKE i \in 1 .. S
    <3> DEFINE d == IF i > cursorWrite THEN i - cursorWrite ELSE i - cursorWrite + S
    <3>1. d \in 1 .. S /\ memory'[i] = (IF d <= n THEN t[d] ELSE memory[i])
      BY <1>1, <1>4, <1>5
    <3> HIDE DEF d
    <3>2. memory[i] \in Bytes
      BY <1>1, <1>5
    <3>3. d <= n => t[d] \in Bytes
      BY <3>1 DEF n
    <3>. QED BY <3>1, <3>2, <3>3
  <2>2. memory' = [i \in 1 .. S |-> memory'[i]]
    BY <1>4, <1>5
  <2> DEFINE m == memory'
  <2>3. DOMAIN m = 1 .. S /\ m = [i \in 1 .. S |-> m[i]]
    BY <1>4, <1>5
  <2>4. \A i \in 1 .. S: m[i] \in Bytes
    BY <2>1
  <2> HIDE DEF m
  <2>5. S \in Nat
    BY <1>1
  <2>6. m \in [1 .. S -> Bytes]
    BY <2>3, <2>4
  <2>7. m \in Seq(Bytes) /\ Len(m) = S
    BY <2>5, <2>6
  <2>. QED BY <2>7 DEF m
<1>15. ASSUME NEW i \in 1 .. W PROVE pending'[i] = memory'[Behind(i)]
  <2> DEFINE p == Behind(i)
             d == IF p > cursorWrite THEN p - cursorWrite ELSE p - cursorWrite + S
  <2>1. p = (IF cursorRead + i <= S THEN cursorRead + i ELSE cursorRead + i - S) /\ p \in 1 .. S
    BY <1>1, <1>11 DEF Behind, S
  <2>2. memory'[p] = (IF d <= n THEN t[d] ELSE memory[p])
    BY <1>4, <1>5, <2>1
  <2> HIDE DEF p
  <2>3. CASE i \in 1 .. a
    <3>1. d = i - a + S
      BY <1>1, <1>3, <1>7, <2>1, <2>3
    <3>2. d > n
      BY <1>1, <1>3, <2>3, <3>1
    <3>. QED BY <1>1, <1>2, <1>8, <2>2, <2>3, <3>1, <3>2 DEF p
  <2>4. CASE i \in a + 1 .. a + n
    <3>1. d = i - a
      BY <1>1, <1>3, <1>7, <2>1, <2>4
    <3>2. d <= n
      BY <1>1, <2>4, <3>1
    <3> HIDE DEF d
    <3>3. memory'[p] = t[i - a]
      BY <2>2, <3>1, <3>2, Zenon
    <3>4. pending'[i] = t[i - a]
      BY <1>2, <2>4, Zenon
    <3>. QED BY <3>3, <3>4, Zenon DEF p
  <2>5. CASE i \in a + n + 1 .. V
    <3>1. d = i - a
      BY <1>1, <1>3, <1>7, <2>1, <2>5
    <3>. QED BY <1>1, <1>2, <1>8, <2>2, <2>5, <3>1 DEF p
  <2>. QED BY <1>1, <2>3, <2>4, <2>5
<1>16. UNCHANGED <<cursorRead, memorySize>>
  BY <1>1, <1>3
<1>17. UnreadInv'
  <2>1. \A i \in 1 .. W: pending'[i] = memory'[Behind(i)']
    BY <1>15, <1>16 DEF Behind
  <2>. QED BY <1>1, <1>3, <1>12, <2>1 DEF UnreadInv
<1>18. CursorsInv'
  <2>1. \/ cursorWrite' = cursorRead + (a + n)
        \/ cursorWrite' = cursorRead + (a + n) - S
    BY <1>1, <1>3, <1>7, <1>13
  <2>. QED BY <1>1, <1>3, <2>1 DEF CursorsInv, S
<1>19. BytesTypes'
  <2>1. cursorWrite' \in 0 .. S
    BY <1>1, <1>3, <1>13
  <2>2. ahead' \in Int /\ ahead' <= Len(pending')
    BY <1>1
  <2>. QED BY <1>1, <1>3, <1>5, <1>10, <1>11, <1>14, <2>1, <2>2 DEF MemoryInv, BytesTypes, S
<1>. QED BY <1>17, <1>18, <1>19 DEF MemoryInv

(* Memory that grows: what is written ends it.                               *)
LEMMA WriteProvidedInv ==
  ASSUME MemoryInv, NEW t \in Seq(Bytes), Len(t) > 0, Memory!Write(t), Memory!WriteProvided(t)
  PROVE  MemoryInv'
<1> DEFINE a == ahead
           n == Len(t)
           V == Memory!Valid
           end == cursorWrite + n
           p == SubSeq(memory, 1, cursorWrite)
           q == SubSeq(memory, end + 1, Len(memory))
           u == p \o t
<1>1. /\ n \in Nat /\ n > 0 /\ V \in 0 .. memorySize /\ a \in 0 .. V
      /\ memory \in Seq(Bytes) /\ memorySize \in 0 .. Len(memory)
      /\ cursorRead \in 0 .. memorySize /\ cursorWrite \in 0 .. memorySize
      /\ pending \in Seq(Bytes) /\ Len(pending) = V
      /\ pending' \in Seq(Bytes) /\ Len(pending') = (IF a + n >= V THEN a + n ELSE V)
      /\ ahead' = a + n /\ UNCHANGED <<observer, cursorRead>>
  BY WriteFacts
<1>2. /\ \A i \in 1 .. a: pending'[i] = pending[i]
      /\ \A i \in a + 1 .. a + n: pending'[i] = t[i - a]
  BY WriteFacts
<1>3. /\ ~observer /\ end <= MaxProvided /\ end >= cursorRead + V
      /\ validBytes' = Memory!Max({V, end - cursorRead})
      /\ memory' = u \o q
      /\ memorySize' = end /\ cursorWrite' = end
  BY DEF Memory!WriteProvided
<1>4. cursorWrite = cursorRead + a
  BY <1>1, <1>3 DEF MemoryInv, CursorsInv
<1>5. cursorRead + V <= memorySize /\ \A i \in 1 .. V: pending[i] = memory[cursorRead + i]
  <2>1. cursorRead + V <= memorySize /\ \A i \in 1 .. V: pending[i] = memory[Behind(i)]
    BY <1>3 DEF MemoryInv, UnreadInv
  <2>2. \A i \in 1 .. V: Behind(i) = cursorRead + i
    BY <1>1, <2>1 DEF Behind
  <2>. QED BY <2>1, <2>2
<1> HIDE DEF a, n, V
<1>6. end \in Nat /\ end = cursorRead + a + n /\ a + n >= V
  BY <1>1, <1>3, <1>4
<1>7. p \in Seq(Bytes) /\ Len(p) = cursorWrite /\ \A i \in 1 .. cursorWrite: p[i] = memory[i]
  BY <1>1
<1>8. q \in Seq(Bytes)
  BY <1>1, <1>6
<1> HIDE DEF end, p, q
<1>9. /\ u \in Seq(Bytes) /\ Len(u) = cursorWrite + n
      /\ \A i \in 1 .. cursorWrite: u[i] = memory[i]
      /\ \A i \in cursorWrite + 1 .. cursorWrite + n: u[i] = t[i - cursorWrite]
  BY <1>7, Joined DEF n
<1> HIDE DEF u
<1>10. /\ memory' \in Seq(Bytes) /\ Len(memory') >= end
       /\ \A i \in 1 .. end: memory'[i] = u[i]
  <2>1. /\ u \o q \in Seq(Bytes) /\ Len(u \o q) = Len(u) + Len(q)
        /\ \A i \in 1 .. Len(u): (u \o q)[i] = u[i]
    BY <1>8, <1>9, Joined
  <2>2. Len(u) = end /\ Len(q) \in Nat
    BY <1>8, <1>9 DEF end
  <2>. QED BY <1>3, <1>6, <2>1, <2>2
<1>11. validBytes' = a + n
  <2>1. V \in Int /\ a + n \in Int /\ end - cursorRead = a + n
    BY <1>1, <1>6
  <2>2. Memory!Max({V, a + n}) = (IF V >= a + n THEN V ELSE a + n)
    BY <2>1, MaxOfTwo
  <2>3. validBytes' = Memory!Max({V, a + n})
    BY <1>3, <2>1, Zenon
  <2>4. validBytes' = (IF V >= a + n THEN V ELSE a + n)
    BY <2>2, <2>3, Zenon
  <2>. QED BY <1>6, <2>1, <2>4
<1>12. Memory!Valid' = a + n
  BY <1>1, <1>11 DEF Memory!Valid, Memory!Known, Memory!UNINITIALIZED
<1>13. ASSUME NEW i \in 1 .. a + n PROVE pending'[i] = memory'[cursorRead + i]
  <2>1. CASE i \in 1 .. a
    <3>1. cursorRead + i \in 1 .. cursorWrite /\ cursorRead + i \in 1 .. end /\ i \in 1 .. V
      BY <1>1, <1>4, <1>6, <2>1
    <3>. QED BY <1>2, <1>5, <1>9, <1>10, <2>1, <3>1
  <2>2. CASE i \in a + 1 .. a + n
    <3>1. /\ cursorRead + i \in cursorWrite + 1 .. cursorWrite + n /\ cursorRead + i \in 1 .. end
          /\ (cursorRead + i) - cursorWrite = i - a
      BY <1>1, <1>4, <1>6, <2>2
    <3>. QED BY <1>2, <1>9, <1>10, <2>2, <3>1
  <2>. QED BY <1>1, <2>1, <2>2
<1>14. UnreadInv'
  <2>1. \A i \in 1 .. a + n: Behind(i)' = cursorRead + i
    BY <1>1, <1>3, <1>6 DEF Behind
  <2>2. Len(pending') = a + n /\ cursorRead' + (a + n) <= memorySize'
    BY <1>1, <1>3, <1>6
  <2>. QED BY <1>12, <1>13, <2>1, <2>2 DEF UnreadInv
<1>15. CursorsInv'
  BY <1>1, <1>3, <1>6 DEF CursorsInv
<1>16. BytesTypes'
  <2>1. ahead' \in Int /\ ahead' <= Len(pending')
    BY <1>1, <1>6
  <2>2. validBytes' \in -1 .. memorySize' /\ cursorRead' \in 0 .. memorySize' /\ cursorWrite' \in 0 .. memorySize'
        /\ memorySize' \in 0 .. Len(memory')
    BY <1>1, <1>3, <1>6, <1>10, <1>11
  <2>. QED BY <1>1, <1>3, <1>10, <2>1, <2>2 DEF MemoryInv, BytesTypes
<1>. QED BY <1>14, <1>15, <1>16 DEF MemoryInv

LEMMA MemoryNextInv == MemoryInv /\ [Memory!Next]_(Memory!memoryVars) => MemoryInv'
<1> SUFFICES ASSUME MemoryInv, [Memory!Next]_(Memory!memoryVars) PROVE MemoryInv'
  OBVIOUS
<1>1. ASSUME NEW t \in Seq(Bytes), Len(t) > 0, Memory!Write(t) PROVE MemoryInv'
  BY <1>1, WriteObservedInv, WriteProvidedInv DEF Memory!Write
<1>2. ASSUME NEW b \in Bytes, NEW c \in Bytes, NEW d \in Bytes,
             Memory!Write(<<b>>) \/ Memory!Write(<<b, c>>) \/ Memory!Write(<<b, c, d>>)
      PROVE  MemoryInv'
  <2>1. /\ <<b>> \in Seq(Bytes) /\ Len(<<b>>) > 0
        /\ <<b, c>> \in Seq(Bytes) /\ Len(<<b, c>>) > 0
        /\ <<b, c, d>> \in Seq(Bytes) /\ Len(<<b, c, d>>) > 0
    OBVIOUS
  <2>. QED BY <1>1, <1>2, <2>1
<1>3. ASSUME NEW n \in 1 .. 3, Memory!Read(n) PROVE MemoryInv'
  BY <1>3, ReadInv
<1>4. ASSUME NEW position \in 0 .. MaxProvided, Memory!Seek(position) PROVE MemoryInv'
  BY <1>4, SeekInv, BytesAssumption
<1>5. ASSUME UNCHANGED Memory!memoryVars PROVE MemoryInv'
  BY <1>5 DEF Memory!memoryVars, MemoryInv, BytesTypes, UnreadInv, CursorsInv, Behind,
              Memory!Valid, Memory!Known
<1>. QED BY <1>2, <1>3, <1>4, <1>5 DEF Memory!Next

LEMMA UnreadKept == MemoryInv => Memory!UnreadIsKept /\ Memory!TypeOK
<1> SUFFICES ASSUME MemoryInv PROVE Memory!UnreadIsKept /\ Memory!TypeOK
  OBVIOUS
<1> DEFINE V == Memory!Valid
<1>1. /\ pending \in Seq(Bytes) /\ memorySize \in Nat /\ cursorRead \in 0 .. memorySize
      /\ V \in 0 .. memorySize /\ Len(pending) = V
      /\ \A i \in 1 .. V: pending[i] = memory[Behind(i)]
  BY DEF MemoryInv, BytesTypes, UnreadInv, Memory!Valid, Memory!Known, Memory!UNINITIALIZED
<1> HIDE DEF V
<1>2. ASSUME NEW i \in 1 .. V PROVE 1 + ((cursorRead + i - 1) % memorySize) = Behind(i)
  <2>1. memorySize > 0 /\ cursorRead + i - 1 \in 0 .. 2 * memorySize - 1
    BY <1>1
  <2>2. (cursorRead + i - 1) % memorySize
        = (IF cursorRead + i - 1 < memorySize THEN cursorRead + i - 1
                                               ELSE cursorRead + i - 1 - memorySize)
    BY <1>1, <2>1, Mod
  <2>. QED BY <1>1, <2>1, <2>2 DEF Behind
<1>3. Memory!BytesAt(cursorRead, V) = [i \in 1 .. V |-> memory[1 + ((cursorRead + i - 1) % memorySize)]]
  BY DEF Memory!BytesAt
<1>4. pending = [i \in 1 .. V |-> pending[i]]
  BY <1>1
<1>5. Memory!BytesAt(cursorRead, V) = pending
  <2>1. [i \in 1 .. V |-> memory[1 + ((cursorRead + i - 1) % memorySize)]] = [i \in 1 .. V |-> pending[i]]
    BY <1>1, <1>2, Zenon
  <2>. QED BY <1>3, <1>4, <2>1
<1>6. Memory!UnreadIsKept
  BY <1>1, <1>5 DEF Memory!UnreadIsKept, V
<1>7. Memory!Max({RingSize, MaxProvided}) = (IF RingSize >= MaxProvided THEN RingSize ELSE MaxProvided)
  BY MaxOfTwo, BytesAssumption
<1>8. Memory!TypeOK
  BY <1>7, BytesAssumption DEF Memory!TypeOK, MemoryInv, BytesTypes
<1>. QED BY <1>6, <1>8

-----------------------------------------------------------------------------
(* Buffered streams.                                                         *)

Chars == Stream!Chars \cup {"x", "y", "z"}

LEMMA MinOfInts == ASSUME NEW a \in Int, NEW b \in Int
                   PROVE  Stream!Min({a, b}) = (IF a <= b THEN a ELSE b)
BY DEF Stream!Min

(* What is taken from the front of a sequence and what is left make it up.   *)
LEMMA Parts ==
  ASSUME NEW S, NEW s \in Seq(S), NEW n \in 0 .. Len(s)
  PROVE  /\ Stream!Prefix(s, n) \in Seq(S) /\ Len(Stream!Prefix(s, n)) = n
         /\ \A i \in 1 .. n: Stream!Prefix(s, n)[i] = s[i]
         /\ Stream!Without(s, n) \in Seq(S) /\ Len(Stream!Without(s, n)) = Len(s) - n
         /\ \A i \in 1 .. Len(s) - n: Stream!Without(s, n)[i] = s[n + i]
         /\ Stream!Prefix(s, n) \o Stream!Without(s, n) = s
<1> DEFINE p == SubSeq(s, 1, n)
           q == SubSeq(s, n + 1, Len(s))
<1>1. p \in Seq(S) /\ Len(p) = n /\ \A i \in 1 .. n: p[i] = s[i]
  OBVIOUS
<1>2. q \in Seq(S) /\ Len(q) = Len(s) - n /\ \A i \in 1 .. Len(s) - n: q[i] = s[n + i]
  OBVIOUS
<1>3. p \o q = s
  <2> HIDE DEF p, q
  <2>1. p \o q \in Seq(S) /\ Len(p \o q) = Len(s)
    BY <1>1, <1>2
  <2>2. ASSUME NEW i \in 1 .. Len(p \o q) PROVE (p \o q)[i] = s[i]
    <3>1. CASE i <= n
      BY <1>1, <1>2, <2>1, <3>1
    <3>2. CASE i > n
      <4>1. i - n \in 1 .. Len(s) - n /\ n + (i - n) = i
        BY <2>1, <3>2
      <4>2. (p \o q)[i] = q[i - n]
        BY <1>1, <1>2, <2>1, <3>2
      <4>. QED BY <1>2, <4>1, <4>2
    <3>. QED BY <2>1, <3>1, <3>2
  <2>. QED BY <2>1, <2>2, SeqEqual
<1>. QED BY <1>1, <1>2, <1>3 DEF Stream!Prefix, Stream!Without

(* What is taken from the front of the middle goes to the left.              *)
LEMMA Regrouped ==
  ASSUME NEW a \in Seq(Chars), NEW b \in Seq(Chars), NEW c \in Seq(Chars), NEW n \in 0 .. Len(b)
  PROVE  /\ (a \o Stream!Prefix(b, n)) \o Stream!Without(b, n) \o c = a \o b \o c
         /\ (a \o Stream!Prefix(b, n)) \o Stream!Without(b, n) = a \o b
<1> DEFINE p == Stream!Prefix(b, n)
           q == Stream!Without(b, n)
<1>1. p \in Seq(Chars) /\ q \in Seq(Chars) /\ p \o q = b
  BY Parts
<1> HIDE DEF p, q
<1>2. (a \o p) \o q = a \o (p \o q)
  <2>1. \A s, t, u \in Seq(Chars): (s \o t) \o u = s \o (t \o u)
    BY ConcatAssociative, SMTT(40)
  <2>. QED BY <1>1, <2>1, ZenonT(60)
<1>3. (a \o p) \o q = a \o b
  BY <1>1, <1>2
<1>4. ((a \o p) \o q) \o c = (a \o b) \o c
  BY <1>3, Zenon
<1>. QED BY <1>3, <1>4, Zenon DEF p, q

(* The first place where a read stops.                                       *)
LEMMA StopFacts ==
  ASSUME NEW kind, NEW t \in Seq(Chars)
  PROVE  LET stop == Stream!FirstStop(kind, t) IN
         /\ stop \in 0 .. Len(t)
         /\ stop = 0 => \A i \in 1 .. Len(t): ~Stream!StopsAt(kind, t[i])
         /\ stop > 0 => /\ Stream!StopsAt(kind, t[stop])
                        /\ \A i \in 1 .. stop - 1: ~Stream!StopsAt(kind, t[i])
<1> DEFINE at == {i \in DOMAIN t: Stream!StopsAt(kind, t[i])}
<1>1. at \in SUBSET Nat /\ at \subseteq 1 .. Len(t) /\ DOMAIN t = 1 .. Len(t)
  OBVIOUS
<1>2. CASE at = {}
  BY <1>1, <1>2 DEF Stream!FirstStop
<1>3. CASE at # {}
  <2>1. \E m \in at: \A k \in at: m <= k
    BY <1>1, <1>3, Pool!LeastNumber
  <2>2. Stream!Min(at) \in at /\ \A k \in at: Stream!Min(at) <= k
    <3> HIDE DEF at
    <3>. QED BY <2>1 DEF Stream!Min
  <2>3. Stream!FirstStop(kind, t) = Stream!Min(at)
    BY <1>3 DEF Stream!FirstStop
  <2> DEFINE m == Stream!Min(at)
  <2> HIDE DEF m
  <2>4. m \in 1 .. Len(t) /\ Stream!StopsAt(kind, t[m])
    BY <1>1, <2>2 DEF m
  <2>5. \A i \in 1 .. m - 1: ~Stream!StopsAt(kind, t[i])
    <3> SUFFICES ASSUME NEW i \in 1 .. m - 1, Stream!StopsAt(kind, t[i]) PROVE FALSE
      OBVIOUS
    <3>1. i \in at
      BY <1>1, <2>4
    <3>2. m <= i
      BY <2>2, <3>1 DEF m
    <3>. QED BY <2>4, <3>2
  <2>. QED BY <2>3, <2>4, <2>5 DEF m
<1>. QED BY <1>2, <1>3

(* The place is the only one like that.                                      *)
LEMMA StopIs ==
  ASSUME NEW kind, NEW t \in Seq(Chars), NEW j \in 0 .. Len(t),
         j = 0 => \A i \in 1 .. Len(t): ~Stream!StopsAt(kind, t[i]),
         j > 0 => Stream!StopsAt(kind, t[j]),
         \A i \in 1 .. j - 1: ~Stream!StopsAt(kind, t[i])
  PROVE  Stream!FirstStop(kind, t) = j
<1> DEFINE stop == Stream!FirstStop(kind, t)
<1>1. /\ stop \in 0 .. Len(t)
      /\ stop = 0 => \A i \in 1 .. Len(t): ~Stream!StopsAt(kind, t[i])
      /\ stop > 0 => /\ Stream!StopsAt(kind, t[stop])
                     /\ \A i \in 1 .. stop - 1: ~Stream!StopsAt(kind, t[i])
  BY StopFacts
<1> HIDE DEF stop
<1>2. stop = j
  BY <1>1
<1>. QED BY <1>2 DEF stop

-----------------------------------------------------------------------------
Ahead == IF cacheContent = "read" THEN cache ELSE <<>>
Held  == IF cacheContent = "write" THEN cache ELSE <<>>

StreamTypes ==
  /\ cache \in Seq(Chars) /\ cacheContent \in {"read", "write"} /\ bufferedIO \in BOOLEAN
  /\ valid \in BOOLEAN
  /\ input \in Seq(Chars) /\ rest \in Seq(Chars) /\ consumed \in Seq(Chars)
  /\ output \in Seq(Chars) /\ written \in Seq(Chars)
  /\ request \in Stream!Requests \cup {Stream!NoRequest}

(* Nothing is held back from a device that is read, or is not buffered.      *)
HeldInv == Held # <<>> => Stream!Idle /\ bufferedIO

(* A read goes on as long as what came is short and has no place to stop at, *)
(* nor has the input when nothing came.                                      *)
PendingInv ==
  ~Stream!Idle =>
    /\ Len(cache) < request.max
    /\ Stream!FirstStop(request.kind, cache) = 0
    /\ (request.kind = "until" /\ cache = <<>>) => ~Stream!IsPrefix(<<"d">>, rest)

InputInv  == input = consumed \o Ahead \o rest
OutputInv == written = output \o Held
StreamParts == InputInv /\ OutputInv /\ Stream!BadIsAtTheEnd

StreamInv == StreamTypes /\ HeldInv /\ PendingInv /\ StreamParts

LEMMA StreamKept ==
  StreamInv => /\ Stream!InputIsKept /\ Stream!OutputIsKept
               /\ Stream!NothingIsHeldBack /\ Stream!BadIsAtTheEnd
<1> SUFFICES ASSUME StreamInv
             PROVE  /\ Stream!InputIsKept /\ Stream!OutputIsKept
                    /\ Stream!NothingIsHeldBack /\ Stream!BadIsAtTheEnd
  OBVIOUS
<1>1. Stream!InputIsKept
  BY DEF StreamInv, StreamParts, InputInv, Ahead, Stream!InputIsKept
<1>2. Stream!OutputIsKept
  BY DEF StreamInv, StreamParts, OutputInv, Held, Stream!OutputIsKept
<1>3. Stream!NothingIsHeldBack
  <2> SUFFICES ASSUME ~Stream!Idle PROVE output = written
    BY DEF Stream!NothingIsHeldBack
  <2>1. Held = <<>>
    BY DEF StreamInv, HeldInv
  <2>2. output \o <<>> = output
    BY ConcatEmptySeq DEF StreamInv, StreamTypes
  <2>. QED BY <2>1, <2>2 DEF StreamInv, StreamParts, OutputInv
<1>. QED BY <1>1, <1>2, <1>3 DEF StreamInv, StreamParts

LEMMA StreamInit == Stream!Init => StreamInv
<1> SUFFICES ASSUME Stream!Init PROVE StreamInv
  OBVIOUS
<1>1. input \in Seq(Stream!Chars)
  BY InputsAssumption DEF Stream!Init
<1>2. input \in Seq(Chars)
  BY <1>1, SeqMonotonic DEF Chars
<1>3. <<>> \o <<>> \o input = input
  BY <1>2, ConcatEmptySeq, EmptySeq
<1>4. <<>> \o <<>> = <<>>
  BY ConcatEmptySeq, EmptySeq
<1>5. StreamTypes
  BY <1>2 DEF Stream!Init, StreamTypes
<1>6. InputInv /\ OutputInv
  BY <1>3, <1>4 DEF Stream!Init, InputInv, OutputInv, Ahead, Held
<1>7. HeldInv /\ PendingInv /\ Stream!BadIsAtTheEnd
  BY DEF Stream!Init, HeldInv, PendingInv, Held, Stream!Idle, Stream!BadIsAtTheEnd, Stream!MayGiveNothing
<1>. QED BY <1>5, <1>6, <1>7 DEF StreamInv, StreamParts

-----------------------------------------------------------------------------
(* An action that waits for nothing.                                         *)
LEMMA IdleStep ==
  ASSUME StreamInv, Stream!Idle, StreamTypes', HeldInv', InputInv', OutputInv',
         Stream!BadIsAtTheEnd', request' = request
  PROVE  StreamInv'
BY DEF StreamInv, StreamParts, PendingInv, Stream!Idle

LEMMA NoStop ==
  ASSUME NEW kind, NEW t \in Seq(Chars), \A i \in 1 .. Len(t): ~Stream!StopsAt(kind, t[i])
  PROVE  Stream!FirstStop(kind, t) = 0
<1> DEFINE stop == Stream!FirstStop(kind, t)
<1>1. stop \in 0 .. Len(t) /\ (stop > 0 => Stream!StopsAt(kind, t[stop]))
  BY StopFacts
<1> HIDE DEF stop
<1>2. stop = 0
  BY <1>1
<1>. QED BY <1>2 DEF stop

(* How the buffer divides.                                                   *)
LEMMA Divided ==
  ASSUME StreamInv
  PROVE  /\ Ahead \in Seq(Chars) /\ Held \in Seq(Chars)
         /\ (IF Stream!Unwritten THEN <<>> ELSE cache) = Ahead
         /\ (IF Stream!Unwritten THEN output \o cache ELSE output) = output \o Held
         /\ Stream!Unwritten <=> Held # <<>>
         /\ output \o <<>> = output
<1>1. output \o <<>> = output
  BY ConcatEmptySeq DEF StreamInv, StreamTypes
<1>. QED BY <1>1 DEF StreamInv, StreamTypes, Ahead, Held, Stream!Unwritten

LEMMA WriteInv ==
  ASSUME StreamInv, NEW data \in Seq(Chars), Stream!Write(data)
  PROVE  StreamInv'
<1>1. /\ cache \in Seq(Chars) /\ output \in Seq(Chars) /\ written \in Seq(Chars)
      /\ Held \in Seq(Chars) /\ output \o <<>> = output /\ cacheContent \in {"read", "write"}
      /\ written = output \o Held
  BY Divided DEF StreamInv, StreamTypes, StreamParts, OutputInv
<1>2. /\ Stream!Idle /\ written' = written \o data
      /\ UNCHANGED <<bufferedIO, blocking, valid, request, got, input, rest, consumed>>
  BY DEF Stream!Write
<1>3. /\ Ahead' = Ahead /\ output' \o Held' = (output \o Held) \o data
      /\ output' \in Seq(Chars) /\ cache' \in Seq(Chars) /\ cacheContent' \in {"read", "write"}
      /\ Held' # <<>> => bufferedIO
  <2>1. CASE ~bufferedIO \/ (cacheContent = "read" /\ cache # <<>>)
    <3>1. Held = <<>>
      BY <2>1 DEF StreamInv, HeldInv, Held
    <3>2. output' = output \o data /\ UNCHANGED <<cache, room, cacheContent>>
      BY <2>1 DEF Stream!Write
    <3>3. Held' = <<>> /\ Ahead' = Ahead
      BY <3>1, <3>2 DEF Held, Ahead
    <3>4. output' \in Seq(Chars) /\ output' \o <<>> = output'
      BY <1>1, <3>2, ConcatProperties, ConcatEmptySeq
    <3>. QED BY <1>1, <3>1, <3>2, <3>3, <3>4
  <2>2. CASE bufferedIO /\ ~(cacheContent = "read" /\ cache # <<>>)
    <3> DEFINE kept  == IF Len(data) > Stream!MaxWrite THEN <<>> ELSE cache
               space == IF Len(data) > Stream!MaxWrite THEN Stream!MaxWrite + Len(cache)
                                                       ELSE Stream!MaxWrite
               both  == kept \o data
               done  == IF kept = cache THEN output ELSE output \o cache
    <3>1. IF Len(data) > space
          THEN /\ output' = done \o data /\ cache' = <<>> /\ UNCHANGED <<room, cacheContent>>
          ELSE /\ room' = Stream!Grown(Len(both))
               /\ IF Len(both) = room'
                  THEN output' = done \o both /\ cache' = <<>> /\ cacheContent' = "read"
                  ELSE output' = done /\ cache' = both /\ cacheContent' = "write"
      BY <2>2 DEF Stream!Write
    <3>2. Held = cache /\ Ahead = <<>>
      BY <1>1, <2>2 DEF Held, Ahead
    <3>3. kept \in Seq(Chars) /\ done \in Seq(Chars) /\ done \o kept = output \o cache
      <4>1. output \o cache \in Seq(Chars) /\ (output \o cache) \o <<>> = output \o cache
        BY <1>1, ConcatProperties, ConcatEmptySeq
      <4>2. CASE kept = cache
        <5>1. done = output
          BY <4>2
        <5> HIDE DEF kept, done
        <5>. QED BY <1>1, <4>2, <5>1
      <4>3. CASE kept # cache
        <5>1. done = output \o cache /\ kept = <<>>
          BY <4>3
        <5> HIDE DEF kept, done
        <5>. QED BY <1>1, <4>1, <5>1, EmptySeq
      <4> HIDE DEF kept, done
      <4>. QED BY <4>2, <4>3
    <3>4. Len(data) > space => done = output \o cache
      BY <1>1
    <3> HIDE DEF kept, space, done
    <3>5. both \in Seq(Chars) /\ done \o both = (output \o cache) \o data
      <4>1. (done \o kept) \o data = done \o (kept \o data)
        <5>1. \A s, t, u \in Seq(Chars): (s \o t) \o u = s \o (t \o u)
          BY ConcatAssociative
        <5>. QED BY <3>3, <5>1, Zenon
      <4>2. kept \o data \in Seq(Chars)
        BY <3>3, ConcatProperties
      <4>. QED BY <3>3, <4>1, <4>2
    <3>6. done \o both \in Seq(Chars) /\ (done \o both) \o <<>> = done \o both
      BY <3>3, <3>5, ConcatProperties, ConcatEmptySeq
    <3> HIDE DEF both
    <3>7. CASE Len(data) > space
      <4>1. output' = done \o data /\ cache' = <<>> /\ cacheContent' = cacheContent
        BY <3>1, <3>7
      <4>2. Held' = <<>> /\ Ahead' = <<>>
        BY <4>1 DEF Held, Ahead
      <4>3. done \o data \in Seq(Chars) /\ (done \o data) \o <<>> = done \o data
        BY <3>3, ConcatProperties, ConcatEmptySeq
      <4>4. output' \o Held' = (output \o Held) \o data
        BY <3>2, <3>4, <3>7, <4>1, <4>2, <4>3, Zenon
      <4>. QED BY <1>1, <2>2, <3>2, <4>1, <4>2, <4>3, <4>4, SMTT(40)
    <3>8. CASE ~(Len(data) > space) /\ Len(both) = room'
      <4>1. output' = done \o both /\ cache' = <<>> /\ cacheContent' = "read"
        BY <3>1, <3>8
      <4>2. Held' = <<>> /\ Ahead' = <<>>
        BY <4>1 DEF Held, Ahead
      <4>. QED BY <1>1, <2>2, <3>2, <3>5, <3>6, <4>1, <4>2
    <3>9. CASE ~(Len(data) > space) /\ Len(both) # room'
      <4>1. output' = done /\ cache' = both /\ cacheContent' = "write"
        BY <3>1, <3>9
      <4>2. Held' = both /\ Ahead' = <<>>
        BY <4>1 DEF Held, Ahead
      <4>. QED BY <1>1, <2>2, <3>2, <3>3, <3>5, <4>1, <4>2
    <3>. QED BY <3>7, <3>8, <3>9
  <2>. QED BY <2>1, <2>2 DEF StreamInv, StreamTypes
<1>4. written' \in Seq(Chars)
  BY <1>1, <1>2, ConcatProperties
<1>5. StreamTypes'
  BY <1>2, <1>3, <1>4 DEF StreamInv, StreamTypes
<1>6. HeldInv'
  BY <1>2, <1>3 DEF HeldInv, Stream!Idle
<1>7. InputInv' /\ OutputInv' /\ Stream!BadIsAtTheEnd'
  <2>1. InputInv'
    BY <1>2, <1>3 DEF StreamInv, StreamParts, InputInv
  <2>2. OutputInv'
    BY <1>1, <1>2, <1>3 DEF OutputInv
  <2>3. Stream!BadIsAtTheEnd'
    BY <1>2 DEF StreamInv, StreamParts, Stream!BadIsAtTheEnd, Stream!MayGiveNothing
  <2>. QED BY <2>1, <2>2, <2>3
<1>. QED BY <1>2, <1>5, <1>6, <1>7, IdleStep

LEMMA WriteThrowsInv ==
  ASSUME StreamInv, NEW data \in Seq(Chars), Stream!WriteThrows(data)
  PROVE  StreamInv'
<1>1. /\ cache \in Seq(Chars) /\ output \in Seq(Chars) /\ written \in Seq(Chars)
      /\ cacheContent \in {"read", "write"} /\ written = output \o Held
  BY DEF StreamInv, StreamTypes, StreamParts, OutputInv
<1>2. /\ Stream!Idle /\ bufferedIO /\ (cacheContent = "read" => cache = <<>>)
      /\ UNCHANGED <<bufferedIO, blocking, valid, request, got, input, rest, consumed>>
  BY DEF Stream!WriteThrows
<1>3. Held = cache /\ Ahead = <<>>
  BY <1>1, <1>2 DEF Held, Ahead
<1>4. /\ Ahead' = Ahead /\ OutputInv' /\ written' \in Seq(Chars)
      /\ output' \in Seq(Chars) /\ cache' \in Seq(Chars) /\ cacheContent' \in {"read", "write"}
  <2>1. CASE output' = output \o cache /\ cache' = <<>> /\ UNCHANGED <<room, cacheContent, written>>
    <3>1. Held' = <<>> /\ Ahead' = <<>>
      BY <2>1 DEF Held, Ahead
    <3>2. output \o cache \in Seq(Chars) /\ (output \o cache) \o <<>> = output \o cache
      BY <1>1, ConcatProperties, ConcatEmptySeq
    <3>. QED BY <1>1, <1>3, <2>1, <3>1, <3>2 DEF OutputInv
  <2>2. CASE /\ cache' = cache \o data /\ cacheContent' = "write"
             /\ written' = written \o data /\ UNCHANGED output
    <3>1. Held' = cache \o data /\ Ahead' = <<>>
      BY <2>2 DEF Held, Ahead
    <3>2. /\ cache \o data \in Seq(Chars) /\ written \o data \in Seq(Chars)
          /\ (output \o cache) \o data = output \o (cache \o data)
      BY <1>1, ConcatProperties, ConcatAssociative, SMTT(40)
    <3>. QED BY <1>1, <1>3, <2>2, <3>1, <3>2 DEF OutputInv
  <2>. QED BY <2>1, <2>2 DEF Stream!WriteThrows
<1>5. StreamTypes'
  BY <1>2, <1>4 DEF StreamInv, StreamTypes
<1>6. HeldInv'
  BY <1>2 DEF HeldInv, Stream!Idle
<1>7. InputInv' /\ Stream!BadIsAtTheEnd'
  BY <1>2, <1>4 DEF StreamInv, StreamParts, InputInv, Stream!BadIsAtTheEnd, Stream!MayGiveNothing
<1>. QED BY <1>2, <1>4, <1>5, <1>6, <1>7, IdleStep

(* flush_write_buffer().                                                     *)
LEMMA FlushFacts ==
  ASSUME StreamInv, Stream!FlushWriteBuffer
  PROVE  /\ output' \in Seq(Chars) /\ cache' \in Seq(Chars) /\ cacheContent' \in {"read", "write"}
         /\ output' = output \o Held /\ Held' = <<>> /\ Ahead' = Ahead
         /\ output' \o <<>> = output'
<1>1. /\ cache \in Seq(Chars) /\ output \in Seq(Chars) /\ cacheContent \in {"read", "write"}
      /\ output \o <<>> = output
  BY Divided DEF StreamInv, StreamTypes
<1>2. CASE Stream!Unwritten
  <2>1. output' = output \o SubSeq(cache, 1, Len(cache)) /\ cache' = <<>> /\ cacheContent' = "read"
    BY <1>2 DEF Stream!FlushWriteBuffer, Stream!Taken
  <2>2. SubSeq(cache, 1, Len(cache)) = cache
    BY <1>1, SubSeqFull
  <2>3. Held = cache /\ Ahead = <<>> /\ Held' = <<>> /\ Ahead' = <<>>
    BY <1>2, <2>1 DEF Held, Ahead, Stream!Unwritten
  <2>4. output \o cache \in Seq(Chars) /\ (output \o cache) \o <<>> = output \o cache
    BY <1>1, ConcatProperties, ConcatEmptySeq
  <2>. QED BY <1>1, <2>1, <2>2, <2>3, <2>4
<1>3. CASE ~Stream!Unwritten
  <2>1. UNCHANGED <<output, cache, cacheContent>>
    BY <1>3 DEF Stream!FlushWriteBuffer
  <2>2. Held = <<>> /\ Held' = <<>> /\ Ahead' = Ahead
    BY <1>1, <1>3, <2>1 DEF Held, Ahead, Stream!Unwritten
  <2>. QED BY <1>1, <2>1, <2>2
<1>. QED BY <1>2, <1>3

LEMMA FlushInv ==
  ASSUME StreamInv, Stream!Flush \/ Stream!SetBufferedIO
  PROVE  StreamInv'
<1>1. /\ Stream!Idle /\ Stream!FlushWriteBuffer /\ bufferedIO' \in BOOLEAN
      /\ UNCHANGED <<blocking, valid, request, got, input, rest, consumed, written>>
  BY DEF StreamInv, StreamTypes, Stream!Flush, Stream!SetBufferedIO
<1>2. /\ output' \in Seq(Chars) /\ cache' \in Seq(Chars) /\ cacheContent' \in {"read", "write"}
      /\ output' = output \o Held /\ Held' = <<>> /\ Ahead' = Ahead
      /\ output' \o <<>> = output'
  BY <1>1, FlushFacts
<1>3. StreamTypes'
  BY <1>1, <1>2 DEF StreamInv, StreamTypes
<1>4. HeldInv' /\ InputInv' /\ OutputInv' /\ Stream!BadIsAtTheEnd'
  BY <1>1, <1>2 DEF StreamInv, StreamParts, HeldInv, InputInv, OutputInv, Stream!BadIsAtTheEnd, Stream!MayGiveNothing
<1>. QED BY <1>1, <1>3, <1>4, IdleStep

-----------------------------------------------------------------------------
(* What is read of the input goes to the right of what was read before.      *)
LEMMA ReadOn ==
  ASSUME NEW a \in Seq(Chars), NEW b \in Seq(Chars), NEW c \in Seq(Chars), NEW n \in 0 .. Len(c)
  PROVE  /\ b \o Stream!Prefix(c, n) \in Seq(Chars) /\ Stream!Without(c, n) \in Seq(Chars)
         /\ Len(b \o Stream!Prefix(c, n)) = Len(b) + n
         /\ (a \o (b \o Stream!Prefix(c, n))) \o Stream!Without(c, n) = (a \o b) \o c
<1> DEFINE p == Stream!Prefix(c, n)
           q == Stream!Without(c, n)
<1>1. p \in Seq(Chars) /\ q \in Seq(Chars) /\ p \o q = c /\ Len(p) = n
  BY Parts
<1> HIDE DEF p, q
<1>2. \A s, t, u \in Seq(Chars): (s \o t) \o u = s \o (t \o u)
  BY ConcatAssociative
<1>3. a \o b \in Seq(Chars) /\ b \o p \in Seq(Chars) /\ Len(b \o p) = Len(b) + n
  BY <1>1, ConcatProperties
<1>4. a \o (b \o p) = (a \o b) \o p
  BY <1>1, <1>2, ZenonT(60)
<1>5. ((a \o b) \o p) \o q = (a \o b) \o (p \o q)
  <2> DEFINE d == a \o b
  <2>1. d \in Seq(Chars)
    BY <1>3
  <2> HIDE DEF d
  <2>2. (d \o p) \o q = d \o (p \o q)
    BY <1>1, <1>2, <2>1, Zenon
  <2>. QED BY <2>2 DEF d
<1>. QED BY <1>1, <1>3, <1>4, <1>5 DEF p, q

LEMMA NothingTaken ==
  ASSUME NEW s \in Seq(Chars)
  PROVE  /\ Stream!Prefix(s, 0) = <<>> /\ Stream!Without(s, 0) = s
         /\ Stream!Prefix(s, Len(s)) = s /\ Stream!Without(s, Len(s)) = <<>>
BY SubSeqFull, SubSeqEmpty DEF Stream!Prefix, Stream!Without

(* An action that reads, and has written what was held back.                 *)
LEMMA ReadStep ==
  ASSUME StreamInv, output' = output \o Held, UNCHANGED <<bufferedIO, blocking, input, written>>,
         consumed' \in Seq(Chars), cache' \in Seq(Chars), rest' \in Seq(Chars),
         cacheContent' \in {"read", "write"}, cacheContent' = "read" \/ cache' = <<>>,
         (consumed' \o cache') \o rest' = (consumed \o Ahead) \o rest,
         valid' \in BOOLEAN, ~valid' => rest' = <<>> \/ ~blocking',
         request' \in Stream!Requests \cup {Stream!NoRequest}
  PROVE  StreamTypes' /\ HeldInv' /\ StreamParts'
<1>1. output \in Seq(Chars) /\ Held \in Seq(Chars) /\ written = output \o Held
  BY Divided DEF StreamInv, StreamTypes, StreamParts, OutputInv
<1>2. output' \in Seq(Chars) /\ output' \o <<>> = output'
  BY <1>1, ConcatProperties, ConcatEmptySeq
<1>3. Held' = <<>> /\ Ahead' = cache'
  BY DEF Held, Ahead
<1>4. StreamTypes'
  BY <1>2 DEF StreamInv, StreamTypes
<1>5. InputInv' /\ OutputInv'
  BY <1>1, <1>2, <1>3 DEF StreamInv, StreamParts, InputInv, OutputInv
<1>. QED BY <1>3, <1>4, <1>5 DEF StreamParts, HeldInv, Stream!BadIsAtTheEnd, Stream!MayGiveNothing

LEMMA NotPending == request' = Stream!NoRequest => PendingInv'
BY DEF PendingInv, Stream!Idle

LEMMA AskInv ==
  ASSUME StreamInv, NEW r \in Stream!Requests, Stream!Ask(r)
  PROVE  StreamInv'
<1> DEFINE there == IF Stream!Unwritten THEN <<>> ELSE cache
           part  == Stream!Prefix(there, Stream!Min({Len(there), r.max}))
           stop  == Stream!FirstStop(r.kind, part)
           upTo  == Stream!UpTo(r.kind, stop)
<1>1. /\ there = Ahead /\ Ahead \in Seq(Chars) /\ consumed \in Seq(Chars) /\ rest \in Seq(Chars)
      /\ cacheContent \in {"read", "write"} /\ valid \in BOOLEAN
  BY Divided DEF StreamInv, StreamTypes
<1>2. /\ (r.kind = "until" /\ there = <<>>) => ~Stream!IsPrefix(<<"d">>, rest)
      /\ output' = (IF Stream!Unwritten THEN output \o cache ELSE output)
      /\ cacheContent' = (IF Stream!Unwritten THEN "read" ELSE cacheContent)
      /\ IF stop > 0 THEN Stream!Answer(there, upTo, "delimiter")
         ELSE IF Len(part) = r.max THEN Stream!Answer(there, r.max, "count")
         ELSE cache' = there /\ request' = r /\ got' = Stream!NoResult /\ UNCHANGED consumed
      /\ UNCHANGED <<room, bufferedIO, blocking, valid, input, rest, written>>
  BY DEF Stream!Ask
<1>3. output' = output \o Held /\ cacheContent' \in {"read", "write"}
      /\ (cacheContent' = "write" => Ahead = <<>>)
  BY <1>1, <1>2, Divided DEF Ahead
<1>4. r.max \in Nat /\ r.kind \in Stream!Kinds
  BY InputsAssumption DEF Stream!Requests
<1>5. /\ part \in Seq(Chars) /\ Len(part) = (IF Len(Ahead) <= r.max THEN Len(Ahead) ELSE r.max)
      /\ Len(Ahead) <= r.max => part = Ahead
  <2> DEFINE n == Stream!Min({Len(Ahead), r.max})
  <2>1. n = (IF Len(Ahead) <= r.max THEN Len(Ahead) ELSE r.max)
    <3>1. Len(Ahead) \in Int /\ r.max \in Int
      BY <1>1, <1>4
    <3>. QED BY <3>1, MinOfInts
  <2> HIDE DEF n
  <2>2. n \in 0 .. Len(Ahead)
    BY <1>1, <1>4, <2>1
  <2>3. Stream!Prefix(Ahead, n) \in Seq(Chars) /\ Len(Stream!Prefix(Ahead, n)) = n
    BY <1>1, <2>2, Parts
  <2>4. part = Stream!Prefix(Ahead, n)
    BY <1>1 DEF n
  <2>5. Stream!Prefix(Ahead, Len(Ahead)) = Ahead
    BY <1>1, NothingTaken
  <2>. QED BY <2>1, <2>3, <2>4, <2>5
<1>6. stop \in 0 .. Len(part)
  BY <1>5, StopFacts
<1>7. ASSUME NEW n \in 0 .. Len(Ahead), NEW by, Stream!Answer(there, n, by)
      PROVE  StreamInv'
  <2>1. /\ consumed' = consumed \o Stream!Prefix(Ahead, n) /\ cache' = Stream!Without(Ahead, n)
        /\ request' = Stream!NoRequest
    BY <1>1, <1>7 DEF Stream!Answer
  <2>2. consumed' \in Seq(Chars) /\ cache' \in Seq(Chars)
    BY <1>1, <2>1, Parts, ConcatProperties
  <2>3. (consumed' \o cache') \o rest' = (consumed \o Ahead) \o rest
    <3>1. ((consumed \o Stream!Prefix(Ahead, n)) \o Stream!Without(Ahead, n)) \o rest
          = (consumed \o Ahead) \o rest
      <4>1. Ahead \in Seq(Chars) /\ consumed \in Seq(Chars) /\ rest \in Seq(Chars)
        BY <1>1
      <4>. QED BY <4>1, Regrouped, Zenon
    <3>. QED BY <1>2, <2>1, <3>1
  <2>4. cacheContent' = "read" \/ cache' = <<>>
    <3>1. CASE Ahead = <<>>
      <4>1. n = 0
        BY <1>7, <3>1
      <4>. QED BY <1>1, <2>1, <3>1, <4>1, NothingTaken
    <3>. QED BY <1>3, <3>1
  <2>5. StreamTypes' /\ HeldInv' /\ StreamParts'
    <3>1. ~valid' => rest' = <<>> \/ ~blocking'
      BY <1>2 DEF StreamInv, StreamParts, Stream!BadIsAtTheEnd, Stream!MayGiveNothing
    <3>. QED BY <1>1, <1>2, <1>3, <2>1, <2>2, <2>3, <2>4, <3>1, ReadStep
  <2>. QED BY <2>1, <2>5, NotPending DEF StreamInv
<1> HIDE DEF stop, part
<1>8. CASE stop > 0
  <2>1. upTo = stop \/ upTo = stop - 1
    BY DEF Stream!UpTo
  <2> HIDE DEF upTo
  <2>2. upTo \in 0 .. Len(Ahead)
    BY <1>1, <1>4, <1>5, <1>6, <1>8, <2>1
  <2>. QED BY <1>2, <1>7, <1>8, <2>2
<1> HIDE DEF upTo
<1>9. CASE ~(stop > 0) /\ Len(part) = r.max
  <2>1. r.max \in 0 .. Len(Ahead)
    BY <1>1, <1>4, <1>5, <1>9
  <2>. QED BY <1>2, <1>7, <1>9, <2>1
<1>10. CASE ~(stop > 0) /\ Len(part) # r.max
  <2>1. cache' = Ahead /\ request' = r /\ UNCHANGED consumed
    BY <1>1, <1>2, <1>10
  <2>2. Len(Ahead) < r.max /\ stop = 0 /\ part = Ahead
    BY <1>1, <1>4, <1>5, <1>6, <1>10
  <2>3. PendingInv'
    BY <1>1, <1>2, <2>1, <2>2 DEF PendingInv, stop
  <2>4. cacheContent' = "read" \/ cache' = <<>>
    BY <1>3, <2>1
  <2>5. StreamTypes' /\ HeldInv' /\ StreamParts'
    <3>1. ~valid' => rest' = <<>> \/ ~blocking'
      BY <1>2 DEF StreamInv, StreamParts, Stream!BadIsAtTheEnd, Stream!MayGiveNothing
    <3>. QED BY <1>1, <1>2, <1>3, <2>1, <2>4, <3>1, ReadStep
  <2>. QED BY <2>3, <2>5 DEF StreamInv
<1>. QED BY <1>8, <1>9, <1>10

(* The read that is made.                                                    *)
LEMMA PendingFacts ==
  ASSUME StreamInv, ~Stream!Idle
  PROVE  /\ request \in Stream!Requests /\ request.max \in Nat /\ request.kind \in Stream!Kinds
         /\ Held = <<>> /\ Ahead = cache /\ cache \in Seq(Chars)
         /\ consumed \in Seq(Chars) /\ rest \in Seq(Chars) /\ output \in Seq(Chars)
         /\ output \o Held = output
         /\ cacheContent \in {"read", "write"} /\ (cacheContent = "read" \/ cache = <<>>)
         /\ Len(cache) < request.max
         /\ \A i \in 1 .. Len(cache): ~Stream!StopsAt(request.kind, cache[i])
<1>1. request \in Stream!Requests
  BY DEF StreamInv, StreamTypes, Stream!Idle
<1>2. request.max \in Nat /\ request.kind \in Stream!Kinds
  BY <1>1, InputsAssumption DEF Stream!Requests
<1>3. Held = <<>> /\ cache \in Seq(Chars) /\ cacheContent \in {"read", "write"}
  BY DEF StreamInv, StreamTypes, HeldInv
<1>4. Ahead = cache /\ (cacheContent = "read" \/ cache = <<>>)
  BY <1>3 DEF Held, Ahead
<1>5. Len(cache) < request.max /\ Stream!FirstStop(request.kind, cache) = 0
  BY DEF StreamInv, PendingInv
<1>6. \A i \in 1 .. Len(cache): ~Stream!StopsAt(request.kind, cache[i])
  BY <1>3, <1>5, StopFacts
<1>. QED BY <1>1, <1>2, <1>3, <1>4, <1>5, <1>6, Divided DEF StreamInv, StreamTypes

(* A message with the character that ends it.                                *)
With(kind) == kind = "until and with"

(* What is between the place to stop and the start of a text that was read  *)
(* on; the answer of read_until() and of read_while().                       *)
LEMMA ReadMoreFacts ==
  ASSUME StreamInv, NEW n \in 1 .. IOSize, Stream!ReadMore(n)
  PROVE  LET text == cache \o Stream!Prefix(rest, n)
             stop == Stream!FirstStop(request.kind, Stream!Prefix(rest, n))
             size == Stream!UpTo(request.kind, Len(cache) + stop)
         IN /\ n <= Len(rest) /\ Len(cache) + n <= request.max
            /\ text \in Seq(Chars) /\ Len(text) = Len(cache) + n
            /\ stop \in 0 .. n
            /\ stop = 0 => Stream!FirstStop(request.kind, text) = 0
            /\ stop > 0 => /\ Stream!StopsAt(request.kind, text[Len(cache) + stop])
                           /\ size \in 0 .. Len(text)
                           /\ \/ With(request.kind) /\ size = Len(cache) + stop
                              \/ ~With(request.kind) /\ size = (Len(cache) + stop) - 1
            /\ \A i \in 1 .. Len(cache) + stop - 1: ~Stream!StopsAt(request.kind, text[i])
<1> DEFINE p == Stream!Prefix(rest, n)
           text == cache \o p
           stop == Stream!FirstStop(request.kind, p)
           size == Stream!UpTo(request.kind, Len(cache) + stop)
<1>1. /\ request.max \in Nat /\ cache \in Seq(Chars) /\ rest \in Seq(Chars)
      /\ \A i \in 1 .. Len(cache): ~Stream!StopsAt(request.kind, cache[i])
  BY PendingFacts DEF Stream!ReadMore
<1>2. n <= Len(rest) /\ Len(cache) + n <= request.max
  <2> DEFINE a == IF bufferedIO THEN IOSize ELSE 1
             b == request.max - Len(cache)
             c == Stream!ReadSize
  <2>1. a \in Int /\ b \in Int /\ Len(rest) \in Int
    BY <1>1, InputsAssumption
  <2>2. c = Stream!Min({a, b})
    BY DEF Stream!ReadSize
  <2>3. n \in 1 .. Stream!Min({c, Len(rest)})
    BY DEF Stream!ReadMore
  <2> HIDE DEF a, b, c
  <2>4. c = (IF a <= b THEN a ELSE b)
    BY <2>1, <2>2, MinOfInts
  <2>5. Stream!Min({c, Len(rest)}) = (IF c <= Len(rest) THEN c ELSE Len(rest))
    BY <2>1, <2>4, MinOfInts
  <2>6. n <= c /\ n <= Len(rest)
    BY <2>1, <2>3, <2>4, <2>5
  <2>. QED BY <1>1, <2>1, <2>4, <2>6 DEF b
<1>3. p \in Seq(Chars) /\ Len(p) = n
  BY <1>1, <1>2, Parts
<1> HIDE DEF p
<1>4. /\ text \in Seq(Chars) /\ Len(text) = Len(cache) + n
      /\ \A i \in 1 .. Len(cache): text[i] = cache[i]
      /\ \A i \in 1 .. n: text[Len(cache) + i] = p[i]
  BY <1>1, <1>3
<1> HIDE DEF text
<1>5. /\ stop \in 0 .. n
      /\ stop = 0 => \A i \in 1 .. n: ~Stream!StopsAt(request.kind, p[i])
      /\ stop > 0 => /\ Stream!StopsAt(request.kind, p[stop])
                     /\ \A i \in 1 .. stop - 1: ~Stream!StopsAt(request.kind, p[i])
  BY <1>3, StopFacts
<1> HIDE DEF stop
<1>6. ASSUME NEW i \in 1 .. Len(cache) + n, i < Len(cache) + stop \/ stop = 0
      PROVE  ~Stream!StopsAt(request.kind, text[i])
  <2>1. CASE i <= Len(cache)
    BY <1>1, <1>4, <2>1
  <2>2. CASE i > Len(cache)
    <3>1. PICK j \in 1 .. n: i = Len(cache) + j /\ (stop = 0 \/ j \in 1 .. stop - 1)
      <4>1. i - Len(cache) \in 1 .. n /\ i = Len(cache) + (i - Len(cache))
            /\ (stop = 0 \/ i - Len(cache) \in 1 .. stop - 1)
        BY <1>1, <1>5, <1>6, <2>2
      <4>. QED BY <4>1
    <3>2. text[i] = p[j]
      BY <1>4, <3>1
    <3>3. ~Stream!StopsAt(request.kind, p[j])
      BY <1>5, <3>1
    <3>. QED BY <3>2, <3>3
  <2>. QED BY <1>1, <2>1, <2>2
<1>7. ASSUME stop = 0 PROVE Stream!FirstStop(request.kind, text) = 0
  <2>1. \A i \in 1 .. Len(text): ~Stream!StopsAt(request.kind, text[i])
    BY <1>1, <1>4, <1>6, <1>7
  <2>2. Stream!FirstStop(request.kind, text) \in 0 .. Len(text)
        /\ (Stream!FirstStop(request.kind, text) > 0 =>
              Stream!StopsAt(request.kind, text[Stream!FirstStop(request.kind, text)]))
    BY <1>4, StopFacts
  <2> DEFINE f == Stream!FirstStop(request.kind, text)
  <2>3. f \in 0 .. Len(text) /\ (f > 0 => Stream!StopsAt(request.kind, text[f]))
    BY <2>2
  <2> HIDE DEF f
  <2>4. f = 0
    BY <1>4, <2>1, <2>3
  <2>. QED BY <2>4 DEF f
<1>8. ASSUME stop > 0
      PROVE  /\ Stream!StopsAt(request.kind, text[Len(cache) + stop]) /\ size \in 0 .. Len(text)
             /\ \/ With(request.kind) /\ size = Len(cache) + stop
                \/ ~With(request.kind) /\ size = (Len(cache) + stop) - 1
  <2>1. text[Len(cache) + stop] = p[stop]
    BY <1>4, <1>5, <1>8
  <2>2. \/ With(request.kind) /\ size = Len(cache) + stop
        \/ ~With(request.kind) /\ size = (Len(cache) + stop) - 1
    <3>1. CASE With(request.kind)
      BY <3>1, Zenon DEF Stream!UpTo, With
    <3>2. CASE ~With(request.kind)
      BY <3>2, Zenon DEF Stream!UpTo, With
    <3>. QED BY <3>1, <3>2
  <2> HIDE DEF size
  <2>. QED BY <1>1, <1>4, <1>5, <1>8, <2>1, <2>2
<1>9. \A i \in 1 .. Len(cache) + stop - 1: ~Stream!StopsAt(request.kind, text[i])
  BY <1>1, <1>5, <1>6
<1>. QED BY <1>2, <1>4, <1>5, <1>7, <1>8, <1>9, Zenon DEF p, text, stop

(* How the answer to a read ends, given what is ahead and left of the input. *)
EndsAsAsked(kind, max, text, by, there, left, bad, blocks) ==
  LET stop == Stream!FirstStop(kind, text)
  IN /\ stop \in {0, Len(text)}
     /\ stop > 0 => With(kind) /\ by = "delimiter"
     /\ Len(text) <= max
     /\ \/ Len(text) = max \/ stop > 0
        \/ by = "end"
        \/ there \o left # <<>> /\ Stream!StopsAt(kind, Head(there \o left))
     /\ by = "end" => bad /\ there = <<>> /\ (blocks => left = <<>>)

MessageEnd ==
  request # Stream!NoRequest /\ request' = Stream!NoRequest /\ got'.by # "error"
    => EndsAsAsked(request.kind, request.max, got'.text, got'.by, cache', rest', ~valid', blocking)

LEMMA ReadMoreInv ==
  ASSUME StreamInv, NEW n \in 1 .. IOSize, Stream!ReadMore(n)
  PROVE  StreamInv' /\ MessageEnd
<1> DEFINE L == Len(cache)
           text == cache \o Stream!Prefix(rest, n)
           stop == Stream!FirstStop(request.kind, Stream!Prefix(rest, n))
           size == Stream!UpTo(request.kind, L + stop)
<1>1. ~Stream!Idle
  BY DEF Stream!ReadMore
<1>2. /\ request \in Stream!Requests /\ request.max \in Nat
      /\ Ahead = cache /\ cache \in Seq(Chars) /\ consumed \in Seq(Chars) /\ rest \in Seq(Chars)
      /\ output \o Held = output /\ L < request.max /\ L \in Nat
  BY <1>1, PendingFacts
<1>3. /\ n <= Len(rest) /\ L + n <= request.max
      /\ text \in Seq(Chars) /\ Len(text) = L + n
      /\ stop \in 0 .. n
      /\ stop = 0 => Stream!FirstStop(request.kind, text) = 0
      /\ stop > 0 => /\ Stream!StopsAt(request.kind, text[L + stop])
                     /\ size \in 0 .. Len(text)
                     /\ \/ With(request.kind) /\ size = L + stop
                        \/ ~With(request.kind) /\ size = (L + stop) - 1
      /\ \A i \in 1 .. L + stop - 1: ~Stream!StopsAt(request.kind, text[i])
  BY ReadMoreFacts, Zenon
<1>4. /\ IF stop > 0
         THEN /\ valid' = (size > 0 \/ request.kind = "while")
              /\ Stream!Answer(text, size, "delimiter")
         ELSE IF Len(text) >= request.max
         THEN valid' = TRUE /\ Stream!Answer(text, Len(text), "count")
         ELSE cache' = text /\ UNCHANGED <<valid, consumed, got, request>>
      /\ rest' = Stream!Without(rest, n)
      /\ cacheContent' = "read"
      /\ UNCHANGED <<bufferedIO, blocking, input, output, written>>
  BY Zenon DEF Stream!ReadMore
<1>5. /\ rest' \in Seq(Chars) /\ n \in 0 .. Len(rest)
      /\ (consumed \o text) \o rest' = (consumed \o Ahead) \o rest
  <2>1. n \in 0 .. Len(rest)
    BY <1>2, <1>3
  <2>. QED BY <1>2, <1>4, <2>1, ReadOn
<1>6. rest # <<>>
  BY <1>2, <1>3
<1>7. ~valid => ~blocking
  BY <1>6 DEF StreamInv, StreamParts, Stream!BadIsAtTheEnd, Stream!MayGiveNothing
<1>8. (request.kind = "until" /\ cache = <<>>) => ~Stream!IsPrefix(<<"d">>, rest)
  BY <1>1 DEF StreamInv, PendingInv
<1> HIDE DEF L, text, stop, size
<1>9. ASSUME NEW m \in 0 .. Len(text), NEW by, Stream!Answer(text, m, by), valid'
      PROVE  /\ StreamInv' /\ got'.text = Stream!Prefix(text, m) /\ got'.by = by
             /\ cache' = Stream!Without(text, m)
  <2>1. /\ consumed' = consumed \o Stream!Prefix(text, m) /\ cache' = Stream!Without(text, m)
        /\ request' = Stream!NoRequest /\ got' = [text |-> Stream!Prefix(text, m), by |-> by]
    BY <1>9 DEF Stream!Answer
  <2>2. consumed' \in Seq(Chars) /\ cache' \in Seq(Chars)
    BY <1>2, <1>3, <2>1, Parts, ConcatProperties
  <2>3. consumed' \o cache' = consumed \o text
    <3>1. (consumed \o Stream!Prefix(text, m)) \o Stream!Without(text, m) = consumed \o text
      BY <1>2, <1>3, Regrouped, Zenon
    <3>. QED BY <2>1, <3>1
  <2>4. StreamTypes' /\ HeldInv' /\ StreamParts'
    BY <1>2, <1>4, <1>5, <1>9, <2>1, <2>2, <2>3, ReadStep
  <2>. QED BY <2>1, <2>4, NotPending DEF StreamInv
<1>10. CASE stop > 0
  <2>1. Stream!Answer(text, size, "delimiter") /\ valid' = (size > 0 \/ request.kind = "while")
    BY <1>4, <1>10, Zenon
  <2>2. size \in 0 .. Len(text)
    BY <1>3, <1>10
  <2>3. valid'
    <3>0. size = 0 \/ size > 0
      BY <1>2, <1>3, <2>2
    <3> SUFFICES ASSUME size = 0, request.kind # "while" PROVE FALSE
      BY <2>1, <3>0, Zenon
    <3>1. ~With(request.kind) /\ L = 0 /\ stop = 1
      BY <1>2, <1>3, <1>10
    <3>2. request.kind = "until"
      <4>1. request.kind \in {"until", "until and with", "while"}
        BY <1>2, Zenon DEF Stream!Requests, Stream!Kinds
      <4>. QED BY <3>1, <4>1, Zenon DEF With
    <3>3. cache = <<>>
      BY <1>2, <3>1 DEF L
    <3>4. text[1] = rest[1]
      <4>1. /\ Stream!Prefix(rest, n) \in Seq(Chars) /\ Len(Stream!Prefix(rest, n)) = n
            /\ \A i \in 1 .. n: Stream!Prefix(rest, n)[i] = rest[i]
        BY <1>2, <1>3, Parts
      <4>2. text = Stream!Prefix(rest, n)
        BY <3>3, <4>1, ConcatEmptySeq DEF text
      <4>. QED BY <4>1, <4>2
    <3>5. rest[1] = "d"
      BY <1>3, <1>10, <3>1, <3>2, <3>4 DEF Stream!StopsAt
    <3>6. Stream!IsPrefix(<<"d">>, rest)
      <4>1. 1 \in 0 .. Len(rest) /\ Len(rest) \in Nat
        BY <1>2, <1>3
      <4>2. /\ Stream!Prefix(rest, 1) \in Seq(Chars) /\ Len(Stream!Prefix(rest, 1)) = 1
            /\ Stream!Prefix(rest, 1)[1] = rest[1]
        <5>1. /\ Stream!Prefix(rest, 1) \in Seq(Chars) /\ Len(Stream!Prefix(rest, 1)) = 1
              /\ \A i \in 1 .. 1: Stream!Prefix(rest, 1)[i] = rest[i]
          BY <1>2, <4>1, Parts
        <5>2. 1 \in 1 .. 1
          OBVIOUS
        <5>. QED BY <5>1, <5>2
      <4>3. \A t \in Seq(Chars): Len(t) = 1 /\ t[1] = "d" => t = <<"d">> /\ SubSeq(t, 1, 1) = t
        BY SubSeqFull
      <4>4. Stream!Prefix(rest, 1) = <<"d">>
        BY <3>5, <4>2, <4>3
      <4>5. Len(<<"d">>) = 1
        OBVIOUS
      <4>6. SubSeq(rest, 1, 1) = <<"d">> /\ SubSeq(<<"d">>, 1, 1) = <<"d">>
        BY <3>5, <4>2, <4>3, <4>4 DEF Stream!Prefix
      <4>7. Len(<<"d">>) <= Len(rest)
        BY <4>1, <4>5
      <4>. QED BY <4>5, <4>6, <4>7, Zenon DEF Stream!IsPrefix
    <3>. QED BY <1>8, <3>2, <3>3, <3>6
  <2>4. StreamInv' /\ got'.text = Stream!Prefix(text, size) /\ got'.by = "delimiter"
        /\ cache' = Stream!Without(text, size)
    BY <1>9, <2>1, <2>2, <2>3
  <2> DEFINE p == Stream!Prefix(text, size)
             q == Stream!Without(text, size)
  <2>5. /\ p \in Seq(Chars) /\ Len(p) = size /\ \A i \in 1 .. size: p[i] = text[i]
        /\ q \in Seq(Chars) /\ Len(q) = Len(text) - size
        /\ \A i \in 1 .. Len(text) - size: q[i] = text[size + i]
    BY <1>3, <2>2, Parts, ZenonT(60)
  <2> HIDE DEF p, q
  <2>6. size <= request.max
    BY <1>2, <1>3, <2>2
  <2>7. CASE With(request.kind)
    <3>1. size = L + stop
      BY <1>3, <1>10, <2>7
    <3>2. Stream!FirstStop(request.kind, p) = size
      <4>1. size > 0 /\ Stream!StopsAt(request.kind, p[size])
        <5>1. size > 0 /\ size \in 1 .. size
          BY <1>2, <1>3, <1>10, <3>1
        <5>2. p[size] = text[L + stop]
          BY <2>5, <3>1, <5>1
        <5>. QED BY <1>3, <1>10, <5>1, <5>2
      <4>2. \A i \in 1 .. size - 1: ~Stream!StopsAt(request.kind, p[i])
        <5> TAKE i \in 1 .. size - 1
        <5>1. i \in 1 .. size /\ i \in 1 .. L + stop - 1
          BY <1>2, <1>3, <2>2, <3>1
        <5>2. p[i] = text[i]
          BY <2>5, <5>1
        <5>. QED BY <1>3, <5>1, <5>2
      <4>3. size \in 0 .. Len(p) /\ size # 0
        BY <2>2, <2>5, <4>1
      <4>. QED BY <2>5, <4>1, <4>2, <4>3, StopIs
    <3>3. EndsAsAsked(request.kind, request.max, p, "delimiter", cache', rest', ~valid', blocking)
      <4>1. size > 0
        BY <1>2, <1>3, <1>10, <3>1
      <4>. QED BY <2>5, <2>6, <2>7, <3>2, <4>1 DEF EndsAsAsked
    <3>. QED BY <2>4, <3>3 DEF MessageEnd, p
  <2>8. CASE ~With(request.kind)
    <3>1. size = (L + stop) - 1
      BY <1>3, <1>10, <2>8
    <3>2. Stream!FirstStop(request.kind, p) = 0
      <4>1. \A i \in 1 .. Len(p): ~Stream!StopsAt(request.kind, p[i])
        BY <1>2, <1>3, <2>2, <2>5, <3>1
      <4>. QED BY <2>5, <4>1, NoStop
    <3>3. q \o rest' # <<>> /\ Stream!StopsAt(request.kind, Head(q \o rest'))
      <4>1. Len(q) > 0 /\ size + 1 = L + stop
        BY <1>2, <1>3, <1>10, <2>2, <2>5, <3>1
      <4>2. q[1] = text[size + 1]
        BY <2>5, <4>1
      <4>3. Head(q \o rest') = q[1] /\ q \o rest' # <<>>
        BY <1>5, <2>5, <4>1
      <4>. QED BY <1>3, <1>10, <4>1, <4>2, <4>3
    <3>4. EndsAsAsked(request.kind, request.max, p, "delimiter", q, rest', ~valid', blocking)
      BY <2>5, <2>6, <3>2, <3>3 DEF EndsAsAsked
    <3>. QED BY <2>4, <3>4 DEF MessageEnd, p, q
  <2>. QED BY <2>4, <2>7, <2>8
<1>11. CASE ~(stop > 0) /\ Len(text) >= request.max
  <2>1. Stream!Answer(text, Len(text), "count") /\ valid' = TRUE
    BY <1>4, <1>11, Zenon
  <2>2. Len(text) \in 0 .. Len(text) /\ Stream!Prefix(text, Len(text)) = text
    BY <1>3, NothingTaken
  <2>3. StreamInv' /\ got'.text = text /\ got'.by = "count"
    BY <1>9, <2>1, <2>2
  <2>4. Stream!FirstStop(request.kind, text) = 0 /\ Len(text) = request.max
    <3>1. Stream!FirstStop(request.kind, text) = 0
      BY <1>3, <1>11
    <3>2. Len(text) = request.max
      <4>1. Len(text) <= request.max
        BY <1>3
      <4>2. Len(text) \in Nat
        BY <1>3
      <4>. QED BY <1>2, <1>11, <4>1, <4>2
    <3>. QED BY <3>1, <3>2
  <2>5. EndsAsAsked(request.kind, request.max, text, "count", cache', rest', ~valid', blocking)
    BY <1>2, <2>4 DEF EndsAsAsked
  <2>. QED BY <2>3, <2>5 DEF MessageEnd
<1>12. CASE ~(stop > 0) /\ ~(Len(text) >= request.max)
  <2>1. cache' = text /\ UNCHANGED <<valid, consumed, got, request>>
    BY <1>4, <1>12, Zenon
  <2>2. text # <<>> /\ Len(text) < request.max
    BY <1>2, <1>3, <1>12
  <2>3. Stream!FirstStop(request.kind, text) = 0
    BY <1>3, <1>12
  <2>4. PendingInv'
    BY <2>1, <2>2, <2>3 DEF PendingInv
  <2>5. StreamTypes' /\ HeldInv' /\ StreamParts'
    <3>1. consumed' = consumed /\ valid' = valid /\ request' = request
      BY <2>1
    <3>2. (consumed' \o cache') \o rest' = (consumed \o Ahead) \o rest
      BY <1>5, <2>1
    <3>3. valid' \in BOOLEAN /\ (~valid' => rest' = <<>> \/ ~blocking')
      <4>1. valid \in BOOLEAN
        BY DEF StreamInv, StreamTypes
      <4>. QED BY <1>4, <1>7, <3>1, <4>1
    <3>4. cache' \in Seq(Chars) /\ output' = output \o Held
      BY <1>2, <1>3, <1>4, <2>1
    <3>. QED BY <1>2, <1>4, <1>5, <3>1, <3>2, <3>3, <3>4, ReadStep
  <2>6. MessageEnd
    BY <1>1, <2>1 DEF MessageEnd, Stream!Idle
  <2>. QED BY <2>4, <2>5, <2>6 DEF StreamInv
<1>. QED BY <1>10, <1>11, <1>12

LEMMA ReadEndInv ==
  ASSUME StreamInv, Stream!ReadEnd
  PROVE  StreamInv' /\ MessageEnd
<1>1. /\ ~Stream!Idle /\ (rest = <<>> \/ ~blocking) /\ valid' = FALSE
      /\ Stream!Answer(cache, Len(cache), "end")
      /\ UNCHANGED <<cacheContent, bufferedIO, blocking, input, rest, output, written>>
  BY DEF Stream!ReadEnd, Stream!MayGiveNothing
<1>2. /\ Ahead = cache /\ cache \in Seq(Chars) /\ consumed \in Seq(Chars) /\ rest \in Seq(Chars)
      /\ output \o Held = output /\ cacheContent \in {"read", "write"}
      /\ Len(cache) < request.max /\ request.max \in Nat
      /\ \A i \in 1 .. Len(cache): ~Stream!StopsAt(request.kind, cache[i])
  BY <1>1, PendingFacts
<1>3. /\ Stream!Prefix(cache, Len(cache)) = cache /\ Stream!Without(cache, Len(cache)) = <<>>
  BY <1>2, NothingTaken
<1>4. /\ consumed' = consumed \o cache /\ cache' = <<>> /\ request' = Stream!NoRequest
      /\ got' = [text |-> cache, by |-> "end"]
  BY <1>1, <1>3 DEF Stream!Answer
<1>5. /\ consumed' \in Seq(Chars) /\ cache' \in Seq(Chars) /\ consumed' \o cache' = consumed \o Ahead
  BY <1>2, <1>4, ConcatProperties, ConcatEmptySeq
<1>6. StreamTypes' /\ HeldInv' /\ StreamParts'
  BY <1>1, <1>2, <1>4, <1>5, ReadStep
<1>7. Stream!FirstStop(request.kind, cache) = 0
  BY <1>2, NoStop
<1>8. EndsAsAsked(request.kind, request.max, got'.text, got'.by, cache', rest', ~valid', blocking)
  BY <1>1, <1>2, <1>4, <1>7 DEF EndsAsAsked
<1>. QED BY <1>4, <1>6, <1>8, NotPending DEF StreamInv, MessageEnd

LEMMA ReadInterruptedInv ==
  ASSUME StreamInv, Stream!ReadInterrupted
  PROVE  StreamInv' /\ MessageEnd
<1>1. /\ request' = Stream!NoRequest /\ got'.by = "error"
      /\ UNCHANGED <<cache, cacheContent, bufferedIO, blocking, valid, input, rest, output, consumed, written>>
  BY DEF Stream!ReadInterrupted
<1>2. HeldInv'
  BY <1>1 DEF StreamInv, HeldInv, Held, Stream!Idle
<1>3. StreamTypes' /\ StreamParts'
  BY <1>1 DEF StreamInv, StreamTypes, StreamParts, InputInv, OutputInv, Ahead, Held, Stream!BadIsAtTheEnd, Stream!MayGiveNothing
<1>. QED BY <1>1, <1>2, <1>3, NotPending DEF StreamInv, MessageEnd

-----------------------------------------------------------------------------
LEMMA PeekInv ==
  ASSUME StreamInv, Stream!Peek
  PROVE  StreamInv'
<1>1. /\ Ahead \in Seq(Chars) /\ consumed \in Seq(Chars) /\ rest \in Seq(Chars)
      /\ cacheContent \in {"read", "write"} /\ valid \in BOOLEAN
      /\ ~valid => rest = <<>> \/ ~blocking
  BY Divided DEF StreamInv, StreamTypes, StreamParts, Stream!BadIsAtTheEnd, Stream!MayGiveNothing
<1>2. PICK n \in 0 .. 1:
        /\ n = 1 => Ahead = <<>> /\ rest # <<>>
        /\ cache' = Ahead \o Stream!Prefix(rest, n) /\ rest' = Stream!Without(rest, n)
        /\ cacheContent' = (IF Stream!Unwritten \/ n = 1 THEN "read" ELSE cacheContent)
  BY Divided DEF Stream!Peek
<1>3. /\ Stream!Idle /\ output' = output \o Held
       /\ UNCHANGED <<bufferedIO, blocking, valid, request, got, input, consumed, written>>
  BY Divided DEF Stream!Peek
<1>4. n \in 0 .. Len(rest) /\ n \in {0, 1}
  BY <1>1, <1>2
<1>5. /\ cache' \in Seq(Chars) /\ rest' \in Seq(Chars)
      /\ (consumed \o cache') \o rest' = (consumed \o Ahead) \o rest
  BY <1>1, <1>2, <1>4, ReadOn
<1>6. cacheContent' = "read" \/ cache' = <<>>
  <2> SUFFICES ASSUME cacheContent' # "read" PROVE cache' = <<>>
    OBVIOUS
  <2>1. n = 0 /\ cacheContent = "write" /\ ~Stream!Unwritten
    BY <1>1, <1>2, <1>4
  <2>2. Ahead = <<>> /\ Stream!Prefix(rest, 0) = <<>>
    BY <1>1, <2>1, NothingTaken DEF Ahead
  <2>. QED BY <1>2, <2>1, <2>2, ConcatEmptySeq, EmptySeq
<1>7. ~valid' => rest' = <<>> \/ ~blocking'
  <2> SUFFICES ASSUME ~valid', blocking PROVE rest' = <<>>
    BY <1>3
  <2>1. rest = <<>>
    BY <1>1, <1>3
  <2>2. n = 0
    BY <1>2, <1>4, <2>1
  <2>. QED BY <1>1, <1>2, <2>1, <2>2, NothingTaken
<1>8. cacheContent' \in {"read", "write"} /\ consumed' = consumed /\ request' = request
  BY <1>1, <1>2, <1>3
<1>9. request \in Stream!Requests \cup {Stream!NoRequest}
  BY DEF StreamInv, StreamTypes
<1>10. StreamTypes' /\ HeldInv' /\ StreamParts'
  BY <1>1, <1>5, <1>6, <1>7, <1>8, <1>9, <1>3, ReadStep
<1>. QED BY <1>10, <1>3, IdleStep DEF StreamParts

LEMMA InputReadInv ==
  ASSUME StreamInv, NEW size \in Nat, NEW n \in Nat, Stream!Input(size, n)
  PROVE  StreamInv'
<1> DEFINE fromCache == Stream!Min({Len(Ahead), size})
           missing == size - fromCache
<1>1. /\ Ahead \in Seq(Chars) /\ consumed \in Seq(Chars) /\ rest \in Seq(Chars)
      /\ cacheContent \in {"read", "write"} /\ valid \in BOOLEAN
      /\ ~valid => rest = <<>> \/ ~blocking
  BY Divided DEF StreamInv, StreamTypes, StreamParts, Stream!BadIsAtTheEnd, Stream!MayGiveNothing
<1>2. /\ Stream!Idle
      /\ n \in 0 .. Stream!Min({missing, Len(rest)})
      /\ consumed' = consumed \o Stream!Prefix(Ahead, fromCache) \o Stream!Prefix(rest, n)
      /\ cache' = Stream!Without(Ahead, fromCache)
      /\ rest' = Stream!Without(rest, n)
      /\ valid' = valid \/ (valid' = FALSE /\ (rest = <<>> \/ ~blocking))
      /\ output' = output \o Held
      /\ cacheContent' = (IF Stream!Unwritten THEN "read" ELSE cacheContent)
      /\ UNCHANGED <<bufferedIO, blocking, request, got, input, written>>
  BY Divided DEF Stream!Input, Stream!MayGiveNothing
<1>3. fromCache = (IF Len(Ahead) <= size THEN Len(Ahead) ELSE size)
  <2>1. Len(Ahead) \in Int /\ size \in Int
    BY <1>1
  <2>. QED BY <2>1, MinOfInts
<1> HIDE DEF fromCache
<1>4. fromCache \in 0 .. Len(Ahead) /\ missing \in Nat /\ (missing > 0 => fromCache = Len(Ahead))
  BY <1>1, <1>3
<1>5. n <= missing /\ n \in 0 .. Len(rest)
  <2>1. Stream!Min({missing, Len(rest)}) = (IF missing <= Len(rest) THEN missing ELSE Len(rest))
    <3>1. Len(rest) \in Int /\ missing \in Int
      BY <1>1, <1>4
    <3>. QED BY <3>1, MinOfInts
  <2> HIDE DEF missing
  <2>. QED BY <1>1, <1>2, <1>4, <2>1
<1> HIDE DEF missing
<1> DEFINE a == consumed \o Stream!Prefix(Ahead, fromCache)
           q == Stream!Without(Ahead, fromCache)
<1>6. a \in Seq(Chars) /\ q \in Seq(Chars) /\ a \o q = consumed \o Ahead
      /\ Len(q) = Len(Ahead) - fromCache
  <2>1. a \o q = consumed \o Ahead
    BY <1>1, <1>4, Regrouped, Zenon
  <2>2. Stream!Prefix(Ahead, fromCache) \in Seq(Chars) /\ q \in Seq(Chars) /\ Len(q) = Len(Ahead) - fromCache
    BY <1>1, <1>4, Parts
  <2>. QED BY <1>1, <2>1, <2>2, ConcatProperties
<1>7. consumed' = a \o Stream!Prefix(rest, n) /\ cache' = q
  BY <1>2
<1> HIDE DEF a, q
<1>8. /\ consumed' \in Seq(Chars) /\ rest' \in Seq(Chars)
      /\ (consumed' \o cache') \o rest' = (consumed \o Ahead) \o rest
  <2>1. a \o Stream!Prefix(rest, n) \in Seq(Chars) /\ Stream!Without(rest, n) \in Seq(Chars)
    BY <1>1, <1>5, <1>6, ReadOn
  <2>2. CASE n = 0
    <3>1. Stream!Prefix(rest, n) = <<>> /\ Stream!Without(rest, n) = rest
      BY <1>1, <2>2, NothingTaken
    <3>2. consumed' = a
      BY <1>6, <1>7, <3>1, ConcatEmptySeq
    <3>. QED BY <1>2, <1>6, <1>7, <2>1, <3>1, <3>2
  <2>3. CASE n # 0
    <3>1. fromCache = Len(Ahead)
      BY <1>4, <1>5, <2>3
    <3>2. q = <<>>
      BY <1>1, <1>6, <3>1
    <3>3. a = consumed \o Ahead
      BY <1>6, <3>2, ConcatEmptySeq
    <3>4. (a \o Stream!Prefix(rest, n)) \o Stream!Without(rest, n) = a \o rest
      BY <1>1, <1>5, <1>6, Regrouped, ZenonT(60), EmptySeq
    <3>5. consumed' \o cache' = consumed'
      BY <1>7, <2>1, <3>2, ConcatEmptySeq
    <3>. QED BY <1>2, <1>7, <2>1, <3>3, <3>4, <3>5
  <2>. QED BY <2>2, <2>3
<1>9. cacheContent' = "read" \/ cache' = <<>>
  <2> SUFFICES ASSUME cacheContent' # "read" PROVE cache' = <<>>
    OBVIOUS
  <2>1. Ahead = <<>>
    BY <1>1, <1>2 DEF Ahead
  <2>2. Len(q) = 0
    BY <1>4, <1>6, <2>1
  <2>. QED BY <1>6, <1>7, <2>2
<1>10. valid' \in BOOLEAN /\ (~valid' => rest' = <<>> \/ ~blocking')
  <2>1. ~valid' => rest = <<>> \/ ~blocking
    BY <1>1, <1>2
  <2>2. rest = <<>> => n = 0
    BY <1>5
  <2>3. rest = <<>> => rest' = <<>>
    BY <1>1, <1>2, <2>2, NothingTaken
  <2>4. valid' \in BOOLEAN /\ blocking' = blocking
    BY <1>1, <1>2
  <2>. QED BY <2>1, <2>3, <2>4
<1>11. cacheContent' \in {"read", "write"} /\ request' = request /\ cache' \in Seq(Chars)
  BY <1>1, <1>2, <1>6, <1>7
<1>12. request \in Stream!Requests \cup {Stream!NoRequest}
  BY DEF StreamInv, StreamTypes
<1>13. StreamTypes' /\ HeldInv' /\ StreamParts'
  BY <1>2, <1>8, <1>9, <1>10, <1>11, <1>12, ReadStep
<1>. QED BY <1>2, <1>13, IdleStep DEF StreamParts

LEMMA OneAlone == ASSUME NEW t \in Seq(Chars), Len(t) = 1 PROVE t[1] \in Chars /\ t = <<t[1]>>
<1>1. t[1] \in Chars
  <2>1. 1 \in 1 .. Len(t)
    OBVIOUS
  <2>. QED BY <2>1, ElementOfSeq
<1>2. <<t[1]>> \in Seq(Chars) /\ Len(<<t[1]>>) = 1 /\ <<t[1]>>[1] = t[1]
  BY <1>1, SMTT(40)
<1>. QED BY <1>1, <1>2, SeqEqual

(* The character at an end and the others.                                   *)
LEMMA FrontAndLast ==
  ASSUME NEW s \in Seq(Chars), s # <<>>
  PROVE  /\ Stream!Last(s) \in Chars /\ Stream!Front(s) \in Seq(Chars)
         /\ Stream!Front(s) \o <<Stream!Last(s)>> = s
<1> DEFINE n == Len(s) - 1
           q == Stream!Without(s, n)
<1>1. n \in 0 .. Len(s) /\ Len(s) - n = 1 /\ n + 1 = Len(s)
  BY SMTT(40)
<1>2. /\ Stream!Prefix(s, n) \in Seq(Chars) /\ q \in Seq(Chars) /\ Len(q) = Len(s) - n
      /\ \A i \in 1 .. Len(s) - n: q[i] = s[n + i]
      /\ Stream!Prefix(s, n) \o q = s
  BY <1>1, Parts, Zenon
<1> HIDE DEF n, q
<1>3. q[1] = s[Len(s)] /\ Len(q) = 1
  BY <1>1, <1>2
<1>4. q = <<s[Len(s)]>> /\ s[Len(s)] \in Chars
  BY <1>2, <1>3, OneAlone
<1>. QED BY <1>2, <1>4 DEF Stream!Front, Stream!Last, Stream!Prefix, n

LEMMA HeadAndTail ==
  ASSUME NEW s \in Seq(Chars), s # <<>>
  PROVE  Head(s) \in Chars /\ Tail(s) \in Seq(Chars) /\ <<Head(s)>> \o Tail(s) = s
<1>1. Head(s) \in Chars /\ Tail(s) \in Seq(Chars) /\ Len(Tail(s)) = Len(s) - 1 /\ Head(s) = s[1]
      /\ \A i \in 1 .. Len(s) - 1: Tail(s)[i] = s[i + 1]
  OBVIOUS
<1>2. /\ <<Head(s)>> \o Tail(s) \in Seq(Chars) /\ Len(<<Head(s)>> \o Tail(s)) = Len(s)
      /\ \A i \in 1 .. Len(s): (<<Head(s)>> \o Tail(s))[i] = s[i]
  BY <1>1
<1>. QED BY <1>2, SeqEqual

LEMMA UnreadStepInv ==
  ASSUME StreamInv, Stream!Unread
  PROVE  StreamInv'
<1> DEFINE c == Stream!Last(consumed)
<1>1. /\ Ahead \in Seq(Chars) /\ consumed \in Seq(Chars) /\ rest \in Seq(Chars)
      /\ cacheContent \in {"read", "write"} /\ valid \in BOOLEAN /\ cache \in Seq(Chars)
      /\ ~valid => rest = <<>> \/ ~blocking
  BY Divided DEF StreamInv, StreamTypes, StreamParts, Stream!BadIsAtTheEnd, Stream!MayGiveNothing
<1>2. /\ Stream!Idle /\ consumed # <<>>
      /\ cacheContent = "read" \/ Stream!Unwritten
      /\ cache' = <<c>> \o Ahead
      /\ consumed' = Stream!Front(consumed)
      /\ cacheContent' = (IF Stream!Unwritten THEN "read" ELSE cacheContent)
      /\ output' = output \o Held
      /\ UNCHANGED <<bufferedIO, blocking, valid, request, got, input, rest, written>>
  BY Divided DEF Stream!Unread
<1>3. cacheContent' = "read"
  BY <1>2
<1>4. /\ c \in Chars /\ consumed' \in Seq(Chars) /\ consumed' \o <<c>> = consumed
  BY <1>1, <1>2, FrontAndLast
<1> HIDE DEF c
<1>5. <<c>> \in Seq(Chars)
  BY <1>4
<1>6. /\ cache' \in Seq(Chars) /\ consumed' \o cache' = consumed \o Ahead
  <2>1. \A s, t, u \in Seq(Chars): (s \o t) \o u = s \o (t \o u)
    BY ConcatAssociative
  <2>2. (consumed' \o <<c>>) \o Ahead = consumed' \o (<<c>> \o Ahead)
    <3> DEFINE h == <<c>>
    <3>1. h \in Seq(Chars)
      BY <1>5
    <3> HIDE DEF h
    <3>2. (consumed' \o h) \o Ahead = consumed' \o (h \o Ahead)
      <4> DEFINE a == consumed'
      <4>1. a \in Seq(Chars) /\ Ahead \in Seq(Chars)
        BY <1>1, <1>4
      <4> HIDE DEF a
      <4>2. (a \o h) \o Ahead = a \o (h \o Ahead)
        BY <2>1, <3>1, <4>1, Zenon
      <4>. QED BY <4>2 DEF a
    <3>. QED BY <3>2 DEF h
  <2>3. <<c>> \o Ahead \in Seq(Chars)
    BY <1>1, <1>5, ConcatProperties
  <2>. QED BY <1>2, <1>4, <2>2, <2>3
<1>7. request \in Stream!Requests \cup {Stream!NoRequest}
  BY DEF StreamInv, StreamTypes
<1>8. rest' = rest /\ valid' = valid /\ request' = request /\ blocking' = blocking
  BY <1>2
<1>9. StreamTypes' /\ HeldInv' /\ StreamParts'
  <2>1. /\ (consumed' \o cache') \o rest' = (consumed \o Ahead) \o rest
        /\ cache' \in Seq(Chars)
    BY <1>6, <1>8
  <2>2. /\ output' = output \o Held /\ UNCHANGED <<bufferedIO, blocking, input, written>>
        /\ cacheContent' \in {"read", "write"} /\ (cacheContent' = "read" \/ cache' = <<>>)
    BY <1>2, <1>3
  <2>3. /\ rest' \in Seq(Chars) /\ valid' \in BOOLEAN /\ (~valid' => rest' = <<>> \/ ~blocking')
        /\ request' \in Stream!Requests \cup {Stream!NoRequest} /\ consumed' \in Seq(Chars)
    BY <1>1, <1>4, <1>7, <1>8
  <2>. QED BY <2>1, <2>2, <2>3, ReadStep
<1>. QED BY <1>2, <1>9, IdleStep DEF StreamParts

LEMMA ReadSomeInv ==
  ASSUME StreamInv, Stream!ReadSome
  PROVE  StreamInv'
<1>1. /\ Ahead \in Seq(Chars) /\ consumed \in Seq(Chars) /\ rest \in Seq(Chars)
      /\ cacheContent \in {"read", "write"} /\ valid \in BOOLEAN
      /\ ~valid => rest = <<>> \/ ~blocking
  BY Divided DEF StreamInv, StreamTypes, StreamParts, Stream!BadIsAtTheEnd, Stream!MayGiveNothing
<1>2. /\ Stream!Idle /\ rest # <<>> /\ cache = <<>>
      /\ consumed' = Append(consumed, Head(rest)) /\ rest' = Tail(rest)
      /\ UNCHANGED <<cache, cacheContent, bufferedIO, blocking, valid, request, got, input, output, written>>
  BY DEF Stream!ReadSome
<1>3. /\ Ahead = <<>> /\ Held = <<>> /\ output \o Held = output
  BY <1>2, Divided DEF Ahead, Held
<1>4. /\ Head(rest) \in Chars /\ rest' \in Seq(Chars) /\ <<Head(rest)>> \o rest' = rest
  BY <1>1, <1>2, HeadAndTail
<1>5. consumed' = consumed \o <<Head(rest)>> /\ consumed' \in Seq(Chars)
  BY <1>1, <1>2, <1>4, AppendIsConcat
<1> DEFINE h == <<Head(rest)>>
<1>6. h \in Seq(Chars)
  BY <1>4
<1> HIDE DEF h
<1>7. (consumed \o h) \o rest' = consumed \o rest
  <2>1. \A s, t, u \in Seq(Chars): (s \o t) \o u = s \o (t \o u)
    BY ConcatAssociative
  <2>2. (consumed \o h) \o rest' = consumed \o (h \o rest')
    BY <1>1, <1>4, <1>6, <2>1, Zenon
  <2>. QED BY <1>4, <2>2 DEF h
<1>8. (consumed' \o cache') \o rest' = (consumed \o Ahead) \o rest
  <2>1. consumed' \o <<>> = consumed' /\ consumed \o <<>> = consumed
    BY <1>1, <1>5, ConcatEmptySeq
  <2>. QED BY <1>2, <1>3, <1>5, <1>7, <2>1 DEF h
<1>9. cache' = <<>> /\ cache' \in Seq(Chars) /\ cacheContent' \in {"read", "write"}
      /\ valid' = valid /\ (~valid => ~blocking) /\ request' = request /\ output' = output \o Held
  BY <1>1, <1>2, <1>3, EmptySeq
<1>10. request \in Stream!Requests \cup {Stream!NoRequest}
  BY DEF StreamInv, StreamTypes
<1>11. StreamTypes' /\ HeldInv' /\ StreamParts'
  <2>1. /\ UNCHANGED <<bufferedIO, blocking, input, written>> /\ (cacheContent' = "read" \/ cache' = <<>>)
        /\ valid' \in BOOLEAN /\ (~valid' => rest' = <<>> \/ ~blocking')
        /\ request' \in Stream!Requests \cup {Stream!NoRequest} /\ consumed' \in Seq(Chars)
    BY <1>1, <1>2, <1>5, <1>9, <1>10
  <2>. QED BY <1>4, <1>8, <1>9, <2>1, ReadStep
<1>. QED BY <1>2, <1>11, IdleStep DEF StreamParts

LEMMA ResetInv ==
  ASSUME StreamInv, Stream!Reset
  PROVE  StreamInv'
<1>1. /\ Stream!Idle /\ cache = <<>> /\ cache' = <<>> /\ valid' = TRUE
      /\ UNCHANGED <<cacheContent, bufferedIO, blocking, request, got, input, rest, output, consumed, written>>
  BY DEF Stream!Reset
<1>2. Ahead' = Ahead /\ Held' = Held /\ Held = <<>>
  BY <1>1 DEF Ahead, Held
<1>3. StreamTypes' /\ HeldInv'
  BY <1>1, <1>2 DEF StreamInv, StreamTypes, HeldInv
<1>4. InputInv' /\ OutputInv' /\ Stream!BadIsAtTheEnd'
  BY <1>1, <1>2 DEF StreamInv, StreamParts, InputInv, OutputInv, Stream!BadIsAtTheEnd, Stream!MayGiveNothing
<1>. QED BY <1>1, <1>3, <1>4, IdleStep

LEMMA StreamNextInv ==
  ASSUME StreamInv, [Stream!Next]_streamVars
  PROVE  StreamInv' /\ MessageEnd
<1>1. ASSUME StreamInv', request' = request \/ Stream!Idle PROVE StreamInv' /\ MessageEnd
  <2>1. MessageEnd
    BY <1>1 DEF MessageEnd, Stream!Idle
  <2>. QED BY <1>1, <2>1
<1>2. ASSUME NEW data \in {<<"x">>, <<"x", "y", "z">>}, Stream!Write(data) \/ Stream!WriteThrows(data)
      PROVE  StreamInv' /\ MessageEnd
  <2>1. data \in Seq(Chars)
    <3>1. "x" \in Chars /\ "y" \in Chars /\ "z" \in Chars
      BY DEF Chars
    <3>2. <<"x">> \in Seq(Chars) /\ <<"x", "y", "z">> \in Seq(Chars)
      BY <3>1
    <3>. QED BY <3>2
  <2>2. Stream!Idle
    BY <1>2 DEF Stream!Write, Stream!WriteThrows
  <2>3. StreamInv'
    BY <1>2, <2>1, WriteInv, WriteThrowsInv
  <2>. QED BY <1>1, <2>2, <2>3
<1>3. ASSUME Stream!Flush \/ Stream!SetBufferedIO PROVE StreamInv' /\ MessageEnd
  <2>1. Stream!Idle
    BY <1>3 DEF Stream!Flush, Stream!SetBufferedIO
  <2>. QED BY <1>1, <1>3, <2>1, FlushInv
<1>4. ASSUME NEW r \in Stream!Requests, Stream!Ask(r) PROVE StreamInv' /\ MessageEnd
  <2>1. Stream!Idle
    BY <1>4 DEF Stream!Ask
  <2>. QED BY <1>1, <1>4, <2>1, AskInv
<1>5. ASSUME NEW n \in 1 .. IOSize, Stream!ReadMore(n) PROVE StreamInv' /\ MessageEnd
  BY <1>5, ReadMoreInv
<1>6. ASSUME Stream!ReadEnd \/ Stream!ReadInterrupted PROVE StreamInv' /\ MessageEnd
  BY <1>6, ReadEndInv, ReadInterruptedInv
<1>7. ASSUME Stream!Peek \/ Stream!Unread \/ Stream!ReadSome \/ Stream!Reset
      PROVE  StreamInv' /\ MessageEnd
  <2>1. Stream!Idle
    BY <1>7 DEF Stream!Peek, Stream!Unread, Stream!ReadSome, Stream!Reset
  <2>. QED BY <1>1, <1>7, <2>1, PeekInv, UnreadStepInv, ReadSomeInv, ResetInv
<1>8. ASSUME NEW size \in {1, 3}, NEW n \in 0 .. 3, Stream!Input(size, n)
      PROVE  StreamInv' /\ MessageEnd
  <2>1. Stream!Idle
    BY <1>8 DEF Stream!Input
  <2>2. size \in Nat /\ n \in Nat
    OBVIOUS
  <2>. QED BY <1>1, <1>8, <2>1, <2>2, InputReadInv
<1>9. ASSUME UNCHANGED streamVars PROVE StreamInv' /\ MessageEnd
  <2>1. StreamTypes' /\ HeldInv' /\ PendingInv'
    BY <1>9 DEF streamVars, StreamInv, StreamTypes, HeldInv, PendingInv, Held, Stream!Idle
  <2>2. StreamParts'
    BY <1>9 DEF streamVars, StreamInv, StreamParts, InputInv, OutputInv, Ahead, Held, Stream!BadIsAtTheEnd, Stream!MayGiveNothing
  <2>3. request' = request
    BY <1>9 DEF streamVars
  <2>. QED BY <1>1, <2>1, <2>2, <2>3 DEF StreamInv
<1>. QED BY <1>2, <1>3, <1>4, <1>5, <1>6, <1>7, <1>8, <1>9 DEF Stream!Next, streamVars, Stream!streamVars

-----------------------------------------------------------------------------
(* The hash container.                                                       *)

(* The highest bit of a number.                                              *)
LEMMA Bits ==
  ASSUME NEW n \in 1 .. (2 ^ 31 - 1)
  PROVE  LET p == Hash!MostSignificant(n) IN p \in Nat /\ p <= n /\ n < 2 * p
<1> DEFINE Powers == {2 ^ i: i \in 0 .. 30}
<1>1. Powers \subseteq Nat
  OBVIOUS
<1>2. \E p \in Powers: p <= n /\ n < 2 * p
  <2>1. \A i \in 0 .. 30: 2 ^ i \in Powers
    OBVIOUS
  <2>2. /\ {1, 2, 4, 8, 16, 32, 64, 128} \subseteq Powers
    <3>1. 2 ^ 0 = 1 /\ 2 ^ 1 = 2 /\ 2 ^ 2 = 4 /\ 2 ^ 3 = 8 /\ 2 ^ 4 = 16 /\ 2 ^ 5 = 32 /\ 2 ^ 6 = 64
          /\ 2 ^ 7 = 128
      OBVIOUS
    <3>. QED BY <2>1, <3>1
  <2>3. {256, 512, 1024, 2048, 4096, 8192, 16384, 32768} \subseteq Powers
    <3>1. 2 ^ 8 = 256 /\ 2 ^ 9 = 512 /\ 2 ^ 10 = 1024 /\ 2 ^ 11 = 2048 /\ 2 ^ 12 = 4096
          /\ 2 ^ 13 = 8192 /\ 2 ^ 14 = 16384 /\ 2 ^ 15 = 32768
      OBVIOUS
    <3>. QED BY <2>1, <3>1
  <2>4. {65536, 131072, 262144, 524288, 1048576, 2097152, 4194304, 8388608} \subseteq Powers
    <3>1. 2 ^ 16 = 65536 /\ 2 ^ 17 = 131072 /\ 2 ^ 18 = 262144 /\ 2 ^ 19 = 524288
          /\ 2 ^ 20 = 1048576 /\ 2 ^ 21 = 2097152 /\ 2 ^ 22 = 4194304 /\ 2 ^ 23 = 8388608
      OBVIOUS
    <3>. QED BY <2>1, <3>1
  <2>5. {16777216, 33554432, 67108864, 134217728, 268435456, 536870912, 1073741824} \subseteq Powers
    <3>1. 2 ^ 24 = 16777216 /\ 2 ^ 25 = 33554432 /\ 2 ^ 26 = 67108864 /\ 2 ^ 27 = 134217728
          /\ 2 ^ 28 = 268435456 /\ 2 ^ 29 = 536870912 /\ 2 ^ 30 = 1073741824
      OBVIOUS
    <3>. QED BY <2>1, <3>1
  <2> HIDE DEF Powers
  <2>6. CASE n < 256
    BY <2>2, <2>6
  <2>7. CASE n >= 256 /\ n < 65536
    BY <2>3, <2>7, SMT
  <2>8. CASE n >= 65536 /\ n < 16777216
    BY <2>4, <2>8, SMT
  <2>9. CASE n >= 16777216
    <3>1. 2 ^ 31 = 2147483648
      OBVIOUS
    <3>. QED BY <2>5, <2>9, <3>1, SMT
  <2>. QED BY <2>6, <2>7, <2>8, <2>9
<1> HIDE DEF Powers
<1>3. Hash!MostSignificant(n) = CHOOSE p \in Powers: p <= n /\ n < 2 * p
  BY DEF Hash!MostSignificant, Powers
<1>. QED BY <1>1, <1>2, <1>3

(* What is defined by its first value and the step to each next one.         *)
Goes(f, h, step, n) == f[0] = h /\ \A i \in 1 .. n: f[i] = step[i][f[i - 1]]

LEMMA Steps ==
  ASSUME NEW n \in Nat, NEW S, NEW h \in S, NEW step \in [1 .. n -> [S -> S]]
  PROVE  \E f \in [0 .. n -> S]: Goes(f, h, step, n)
<1> DEFINE Is(f, k) == f \in [0 .. k -> S] /\ f[0] = h /\ \A i \in 1 .. k: f[i] = step[i][f[i - 1]]
           T == {k \in 0 .. n: \E f: Is(f, k)}
<1>1. 0 \in T
  <2>1. Is([i \in 0 .. 0 |-> h], 0)
    OBVIOUS
  <2>2. \E f: Is(f, 0)
    <3> HIDE DEF Is
    <3>. QED BY <2>1
  <2>. QED BY <2>2
<1>2. ASSUME NEW k \in 0 .. n - 1, k \in T PROVE k + 1 \in T
  <2>1. PICK f: Is(f, k)
    BY <1>2
  <2> DEFINE g == [i \in 0 .. k + 1 |-> IF i = k + 1 THEN step[k + 1][f[k]] ELSE f[i]]
  <2>2. k + 1 \in 1 .. n /\ k \in 0 .. k /\ step[k + 1] \in [S -> S] /\ f[k] \in S
    BY <2>1
  <2>3. step[k + 1][f[k]] \in S
    BY <2>2
  <2>4. g \in [0 .. k + 1 -> S] /\ g[0] = h
    BY <2>1, <2>3
  <2>5. ASSUME NEW i \in 1 .. k + 1 PROVE g[i] = step[i][g[i - 1]]
    <3>1. CASE i = k + 1
      <4>1. i - 1 = k /\ g[k] = f[k] /\ g[k + 1] = step[k + 1][f[k]]
        BY <3>1
      <4>. QED BY <3>1, <4>1
    <3>2. CASE i \in 1 .. k
      <4>1. g[i] = f[i] /\ g[i - 1] = f[i - 1]
        BY <3>2
      <4>. QED BY <2>1, <3>2, <4>1
    <3>. QED BY <3>1, <3>2
  <2>6. Is(g, k + 1)
    BY <2>4, <2>5
  <2>7. \E e: Is(e, k + 1)
    <3> HIDE DEF Is, g
    <3>. QED BY <2>6
  <2>. QED BY <2>7
<1>3. 0 .. n \subseteq T
  <2> HIDE DEF T
  <2>. QED BY <1>1, <1>2, Pool!SetInduction
<1>4. PICK f: Is(f, n)
  BY <1>3
<1>. QED BY <1>4 DEF Goes

-----------------------------------------------------------------------------
(* copy_store().                                                             *)
Slots == Keys \cup {Hash!EMPTY}

Copies(w, s) ==
  w[0] = <<>> /\ \A n \in 1 .. Len(s): w[n] = Hash!WithValue(w[n - 1], s, n)

LEMMA Copying ==
  ASSUME NEW s \in Seq(Slots)
  PROVE  \E w: Copies(w, s) /\ Hash!Compacted(s) = w[Len(s)]
<1> DEFINE L == Len(s)
           step == [n \in 1 .. L |-> [t \in Seq(Slots) |-> Hash!WithValue(t, s, n)]]
<1>1. L \in Nat
  OBVIOUS
<1>2. step \in [1 .. L -> [Seq(Slots) -> Seq(Slots)]]
  <2> SUFFICES ASSUME NEW n \in 1 .. L, NEW t \in Seq(Slots) PROVE Hash!WithValue(t, s, n) \in Seq(Slots)
    OBVIOUS
  <2>1. s[n] \in Slots
    OBVIOUS
  <2>. QED BY <2>1 DEF Hash!WithValue
<1>3. <<>> \in Seq(Slots)
  OBVIOUS
<1> HIDE DEF L
<1>4. PICK f \in [0 .. L -> Seq(Slots)]: Goes(f, <<>>, step, L)
  <2> HIDE DEF step
  <2>. QED BY <1>1, <1>2, <1>3, Steps, Zenon
<1>5. ASSUME NEW i \in 0 .. L
      PROVE  f[i] = IF i = 0 THEN <<>> ELSE Hash!WithValue(f[i - 1], s, i)
  <2>1. CASE i = 0
    BY <1>4, <2>1 DEF Goes
  <2>2. CASE i # 0
    <3>1. i \in 1 .. L /\ i - 1 \in 0 .. L
      BY <1>1, <2>2
    <3>2. f[i - 1] \in Seq(Slots) /\ f[i] = step[i][f[i - 1]]
      <4> HIDE DEF step
      <4>. QED BY <1>4, <3>1, Zenon DEF Goes
    <3>3. step[i][f[i - 1]] = Hash!WithValue(f[i - 1], s, i)
      BY <3>1, <3>2
    <3>. QED BY <2>2, <3>2, <3>3
  <2>. QED BY <2>1, <2>2
<1>6. \E g: g = [n \in 0 .. L |-> IF n = 0 THEN <<>> ELSE Hash!WithValue(g[n - 1], s, n)]
  <2>1. f = [n \in 0 .. L |-> f[n]]
    BY <1>4
  <2>2. f = [n \in 0 .. L |-> IF n = 0 THEN <<>> ELSE Hash!WithValue(f[n - 1], s, n)]
    <3> HIDE DEF step
    <3>. QED BY <1>5, <2>1, Zenon
  <2>. QED BY <2>2
<1>7. PICK w: /\ w = CHOOSE g: g = [n \in 0 .. L |-> IF n = 0 THEN <<>> ELSE Hash!WithValue(g[n - 1], s, n)]
              /\ w = [n \in 0 .. L |-> IF n = 0 THEN <<>> ELSE Hash!WithValue(w[n - 1], s, n)]
  BY <1>6, Zenon
<1>8. Hash!Compacted(s) = w[L]
  BY <1>7, Zenon DEF Hash!Compacted, L
<1>9. Copies(w, s)
  <2>1. w[0] = <<>>
    <3>1. 0 \in 0 .. L
      BY <1>1
    <3>2. w[0] = IF 0 = 0 THEN <<>> ELSE Hash!WithValue(w[0 - 1], s, 0)
      BY <1>7, <3>1, Zenon
    <3>. QED BY <3>2
  <2>2. ASSUME NEW n \in 1 .. L PROVE w[n] = Hash!WithValue(w[n - 1], s, n)
    <3>1. n \in 0 .. L /\ n # 0
      BY <1>1
    <3>. QED BY <1>7, <3>1
  <2>. QED BY <2>1, <2>2 DEF Copies, L
<1>. QED BY <1>8, <1>9 DEF L

HasValues(t, s, n) ==
  /\ t \in Seq(Keys) /\ Len(t) <= n
  /\ \A a \in 1 .. Len(t): \E i \in 1 .. n: s[i] = t[a]
  /\ \A i \in 1 .. n: s[i] # Hash!EMPTY => \E a \in 1 .. Len(t): t[a] = s[i]

LEMMA Copied ==
  ASSUME NEW s \in Seq(Slots), NEW w, Copies(w, s), NEW m \in 0 .. Len(s)
  PROVE  HasValues(w[m], s, m)
<1> DEFINE L == Len(s)
           T == {n \in 0 .. L: HasValues(w[n], s, n)}
<1>1. L \in Nat
  OBVIOUS
<1>2. 0 \in T
  <2>1. w[0] = <<>>
    BY DEF Copies
  <2>2. HasValues(<<>>, s, 0)
    BY DEF HasValues
  <2>. QED BY <1>1, <2>1, <2>2
<1>3. ASSUME NEW n \in 0 .. L - 1, n \in T PROVE n + 1 \in T
  <2> DEFINE t == w[n]
             r == w[n + 1]
  <2>1. n + 1 \in 1 .. L /\ n \in Nat /\ (n + 1) - 1 = n
    BY <1>1
  <2>2. r = Hash!WithValue(t, s, n + 1) /\ s[n + 1] \in Slots
    <3>1. w[n + 1] = Hash!WithValue(w[(n + 1) - 1], s, n + 1)
      BY <2>1, Zenon DEF Copies, L
    <3>. QED BY <2>1, <3>1
  <2>3. HasValues(t, s, n)
    BY <1>3
  <2> HIDE DEF t, r
  <2>4. CASE s[n + 1] = Hash!EMPTY
    <3>1. r = t
      BY <2>2, <2>4 DEF Hash!WithValue
    <3>2. HasValues(t, s, n + 1)
      BY <2>1, <2>3, <2>4 DEF HasValues
    <3>3. HasValues(w[n + 1], s, n + 1)
      BY <3>1, <3>2 DEF r
    <3>. QED BY <2>1, <3>3
  <2>5. CASE s[n + 1] # Hash!EMPTY
    <3>1. r = Append(t, s[n + 1]) /\ s[n + 1] \in Keys
      BY <2>2, <2>5 DEF Hash!WithValue, Slots
    <3>2. t \in Seq(Keys) /\ Len(t) <= n
      BY <2>3 DEF HasValues
    <3>3. r \in Seq(Keys) /\ Len(r) = Len(t) + 1 /\ r[Len(r)] = s[n + 1]
          /\ \A a \in 1 .. Len(t): r[a] = t[a]
      BY <3>1, <3>2
    <3>4. ASSUME NEW a \in 1 .. Len(r) PROVE \E i \in 1 .. n + 1: s[i] = r[a]
      <4>1. CASE a = Len(r)
        BY <2>1, <3>3, <4>1
      <4>2. CASE a \in 1 .. Len(t)
        <5>1. \E i \in 1 .. n: s[i] = t[a]
          BY <2>3, <4>2 DEF HasValues
        <5>. QED BY <2>1, <3>3, <4>2, <5>1
      <4>. QED BY <3>2, <3>3, <4>1, <4>2
    <3>5. ASSUME NEW i \in 1 .. n + 1, s[i] # Hash!EMPTY PROVE \E a \in 1 .. Len(r): r[a] = s[i]
      <4>1. CASE i = n + 1
        <5>1. Len(r) \in 1 .. Len(r)
          BY <3>2, <3>3
        <5>. QED BY <3>3, <4>1, <5>1
      <4>2. CASE i \in 1 .. n
        <5>1. PICK a \in 1 .. Len(t): t[a] = s[i]
          BY <2>3, <3>5, <4>2 DEF HasValues
        <5>2. a \in 1 .. Len(r) /\ r[a] = s[i]
          BY <3>2, <3>3, <5>1
        <5>. QED BY <5>2
      <4>. QED BY <2>1, <4>1, <4>2
    <3>6. HasValues(r, s, n + 1)
      <4>1. Len(r) <= n + 1
        BY <2>1, <3>2, <3>3
      <4>. QED BY <3>3, <3>4, <3>5, <4>1 DEF HasValues
    <3>7. HasValues(w[n + 1], s, n + 1)
      BY <3>6 DEF r
    <3>. QED BY <2>1, <3>7
  <2>. QED BY <2>4, <2>5
<1>4. 0 .. L \subseteq T
  <2> HIDE DEF T, L
  <2>. QED BY <1>1, <1>2, <1>3, Pool!SetInduction
<1>. QED BY <1>4

(* The copies are the same as long as the values are.                        *)
LEMMA CopiedAlike ==
  ASSUME NEW s \in Seq(Slots), NEW r \in Seq(Slots), NEW w, NEW v, Copies(w, s), Copies(v, r),
         NEW m \in 0 .. Len(s), m <= Len(r), \A i \in 1 .. m: r[i] = s[i]
  PROVE  v[m] = w[m]
<1> DEFINE T == {n \in 0 .. m: v[n] = w[n]}
<1>1. m \in Nat /\ \A n \in 0 .. m - 1: n + 1 \in 1 .. Len(s) /\ n + 1 \in 1 .. Len(r) /\ (n + 1) - 1 = n
  OBVIOUS
<1>2. 0 \in T
  BY <1>1 DEF Copies
<1>3. ASSUME NEW n \in 0 .. m - 1, n \in T PROVE n + 1 \in T
  <2>1. v[n + 1] = Hash!WithValue(v[n], r, n + 1) /\ w[n + 1] = Hash!WithValue(w[n], s, n + 1)
    <3>1. /\ v[n + 1] = Hash!WithValue(v[(n + 1) - 1], r, n + 1)
          /\ w[n + 1] = Hash!WithValue(w[(n + 1) - 1], s, n + 1)
      BY <1>1, Zenon DEF Copies
    <3>. QED BY <1>1, <3>1
  <2>2. v[n] = w[n] /\ r[n + 1] = s[n + 1]
    BY <1>1, <1>3
  <2>3. v[n + 1] = w[n + 1]
    BY <2>1, <2>2 DEF Hash!WithValue
  <2>. QED BY <1>1, <2>3
<1>4. 0 .. m \subseteq T
  <2> HIDE DEF T
  <2>. QED BY <1>1, <1>2, <1>3, Pool!SetInduction
<1>. QED BY <1>1, <1>4

LEMMA CompactedValues ==
  ASSUME NEW s \in Seq(Slots)
  PROVE  HasValues(Hash!Compacted(s), s, Len(s))
<1>1. PICK w: Copies(w, s) /\ Hash!Compacted(s) = w[Len(s)]
  BY Copying
<1>2. Len(s) \in 0 .. Len(s)
  OBVIOUS
<1>. QED BY <1>1, <1>2, Copied

LEMMA CompactedAppend ==
  ASSUME NEW s \in Seq(Slots), NEW k \in Keys
  PROVE  Hash!Compacted(Append(s, k)) = Append(Hash!Compacted(s), k)
<1> DEFINE r == Append(s, k)
           L == Len(s)
<1>1. r \in Seq(Slots) /\ Len(r) = L + 1 /\ L \in Nat /\ (L + 1) - 1 = L /\ r[L + 1] = k
      /\ \A i \in 1 .. L: r[i] = s[i]
  BY DEF Slots
<1>2. PICK w: Copies(w, s) /\ Hash!Compacted(s) = w[L]
  BY Copying
<1> HIDE DEF r
<1>3. PICK v: Copies(v, r) /\ Hash!Compacted(r) = v[L + 1]
  BY <1>1, Copying
<1>4. L \in 0 .. L /\ L <= L + 1 /\ L + 1 \in 1 .. L + 1
  BY <1>1
<1>5. v[L] = w[L]
  BY <1>1, <1>2, <1>3, <1>4, CopiedAlike
<1>6. v[L + 1] = Hash!WithValue(v[(L + 1) - 1], r, L + 1)
  <2> HIDE DEF L
  <2>. QED BY <1>1, <1>3, <1>4 DEF Copies
<1>7. k # Hash!EMPTY
  BY KeysAssumption
<1>8. Hash!WithValue(v[L], r, L + 1) = Append(v[L], k)
  BY <1>1, <1>7 DEF Hash!WithValue
<1>. QED BY <1>1, <1>2, <1>3, <1>5, <1>6, <1>8 DEF r

LEMMA CompactedFull ==
  ASSUME NEW s \in Seq(Keys)
  PROVE  Hash!Compacted(s) = s
<1>1. s \in Seq(Slots) /\ Len(s) \in Nat
  BY DEF Slots
<1>2. PICK w: Copies(w, s) /\ Hash!Compacted(s) = w[Len(s)]
  BY <1>1, Copying
<1> DEFINE Same(n) == w[n] \in Seq(Keys) /\ Len(w[n]) = n /\ \A i \in 1 .. n: w[n][i] = s[i]
           T == {n \in 0 .. Len(s): Same(n)}
<1>3. 0 \in T
  <2>1. w[0] = <<>>
    BY <1>2 DEF Copies
  <2>2. Same(0)
    BY <2>1
  <2>. QED BY <1>1, <2>2
<1>4. ASSUME NEW n \in 0 .. Len(s) - 1, n \in T PROVE n + 1 \in T
  <2>1. n + 1 \in 1 .. Len(s) /\ (n + 1) - 1 = n /\ n \in Nat
    BY <1>1
  <2>2. w[n + 1] = Hash!WithValue(w[(n + 1) - 1], s, n + 1)
    BY <1>2, <2>1, Zenon DEF Copies
  <2>3. s[n + 1] \in Keys /\ s[n + 1] # Hash!EMPTY
    <3>1. s[n + 1] \in Keys
      BY <2>1
    <3>. QED BY <3>1, KeysAssumption
  <2>4. w[n + 1] = Append(w[n], s[n + 1])
    BY <2>1, <2>2, <2>3 DEF Hash!WithValue
  <2>5. w[n] \in Seq(Keys) /\ Len(w[n]) = n /\ \A i \in 1 .. n: w[n][i] = s[i]
    BY <1>4
  <2> DEFINE t == w[n]
             r == w[n + 1]
  <2> HIDE DEF t, r
  <2>6. t \in Seq(Keys) /\ Len(t) = n /\ (\A i \in 1 .. n: t[i] = s[i]) /\ r = Append(t, s[n + 1])
    BY <2>4, <2>5 DEF t, r
  <2>7. r \in Seq(Keys) /\ Len(r) = n + 1
    BY <2>3, <2>6
  <2>8. \A i \in 1 .. n + 1: r[i] = s[i]
    BY <2>1, <2>3, <2>6
  <2>9. Same(n + 1)
    BY <2>7, <2>8 DEF r
  <2>. QED BY <2>1, <2>9
<1>5. 0 .. Len(s) \subseteq T
  <2> HIDE DEF T
  <2>. QED BY <1>1, <1>3, <1>4, Pool!SetInduction
<1>6. Same(Len(s))
  BY <1>1, <1>5
<1> DEFINE z == w[Len(s)]
<1>7. z \in Seq(Keys) /\ Len(z) = Len(s) /\ \A i \in 1 .. Len(s): z[i] = s[i]
  BY <1>6
<1> HIDE DEF z
<1>8. z = s
  BY <1>7
<1>. QED BY <1>2, <1>8 DEF z

(* No value is twice in the store.                                           *)
AreApart(s) == \A i, j \in 1 .. Len(s): s[i] = s[j] /\ s[i] # Hash!EMPTY => i = j

LEMMA CompactedOnce ==
  ASSUME NEW s \in Seq(Slots), AreApart(s)
  PROVE  IsOnce(Hash!Compacted(s))
<1>1. PICK w: Copies(w, s) /\ Hash!Compacted(s) = w[Len(s)]
  BY Copying
<1> DEFINE L == Len(s)
           T == {n \in 0 .. L: IsOnce(w[n])}
<1>2. L \in Nat
  OBVIOUS
<1>3. 0 \in T
  <2>1. w[0] = <<>>
    BY <1>1 DEF Copies
  <2>2. IsOnce(<<>>)
    BY DEF IsOnce
  <2>. QED BY <1>2, <2>1, <2>2
<1>4. ASSUME NEW n \in 0 .. L - 1, n \in T PROVE n + 1 \in T
  <2> DEFINE t == w[n]
             r == w[n + 1]
  <2>1. n + 1 \in 1 .. L /\ n + 1 \in 0 .. L /\ n \in 0 .. L /\ (n + 1) - 1 = n
    BY <1>2
  <2>2. r = Hash!WithValue(t, s, n + 1)
    <3>1. w[n + 1] = Hash!WithValue(w[(n + 1) - 1], s, n + 1)
      BY <1>1, <2>1, Zenon DEF Copies, L
    <3>. QED BY <2>1, <3>1
  <2>3. IsOnce(t) /\ HasValues(t, s, n)
    BY <1>1, <1>4, <2>1, Copied
  <2>4. IsOnce(r)
    <3> HIDE DEF t, r
    <3>1. CASE s[n + 1] = Hash!EMPTY
      BY <2>2, <2>3, <3>1 DEF Hash!WithValue
    <3>2. CASE s[n + 1] # Hash!EMPTY
      <4>1. r = Append(t, s[n + 1]) /\ s[n + 1] \in Slots
        BY <2>1, <2>2, <3>2 DEF Hash!WithValue
      <4>2. t \in Seq(Keys)
        BY <2>3 DEF HasValues
      <4>3. Len(r) = Len(t) + 1 /\ r[Len(t) + 1] = s[n + 1] /\ (\A a \in 1 .. Len(t): r[a] = t[a])
            /\ Len(t) \in Nat
        BY <4>1, <4>2
      <4>4. ASSUME NEW a \in 1 .. Len(t) PROVE t[a] # s[n + 1]
        <5>1. PICK i \in 1 .. n: s[i] = t[a]
          BY <2>3 DEF HasValues
        <5>2. i \in 1 .. L /\ i # n + 1
          BY <2>1
        <5>. QED BY <2>1, <3>2, <5>1, <5>2 DEF AreApart
      <4>. QED BY <2>3, <4>3, <4>4 DEF IsOnce
    <3>. QED BY <3>1, <3>2
  <2>. QED BY <2>1, <2>4
<1>5. 0 .. L \subseteq T
  <2> HIDE DEF T, L
  <2>. QED BY <1>2, <1>3, <1>4, Pool!SetInduction
<1>. QED BY <1>1, <1>2, <1>5

(* v is w without its element a.                                             *)
Lacks(v, w, a, k) ==
  /\ a \in 1 .. Len(w) /\ w[a] = k /\ Len(v) = Len(w) - 1
  /\ \A i \in 1 .. a - 1: v[i] = w[i]
  /\ \A i \in a .. Len(v): v[i] = w[i + 1]

LEMMA LacksAppended ==
  ASSUME NEW v \in Seq(Keys), NEW w \in Seq(Keys), NEW a \in Nat, NEW k, Lacks(v, w, a, k), NEW x \in Keys
  PROVE  Lacks(Append(v, x), Append(w, x), a, k)
<1> DEFINE r == Append(v, x)
           t == Append(w, x)
<1>1. /\ Len(r) = Len(v) + 1 /\ r[Len(v) + 1] = x /\ (\A i \in 1 .. Len(v): r[i] = v[i]) /\ Len(v) \in Nat
      /\ Len(t) = Len(w) + 1 /\ t[Len(w) + 1] = x /\ (\A i \in 1 .. Len(w): t[i] = w[i]) /\ Len(w) \in Nat
  OBVIOUS
<1> HIDE DEF r, t
<1>2. a \in 1 .. Len(w) /\ w[a] = k /\ Len(v) = Len(w) - 1
  BY DEF Lacks
<1>3. a \in 1 .. Len(t) /\ t[a] = k /\ Len(r) = Len(t) - 1
  BY <1>1, <1>2
<1>4. ASSUME NEW i \in 1 .. a - 1 PROVE r[i] = t[i]
  <2>1. i \in 1 .. Len(v) /\ i \in 1 .. Len(w)
    BY <1>1, <1>2
  <2>. QED BY <1>1, <2>1 DEF Lacks
<1>5. ASSUME NEW i \in a .. Len(r) PROVE r[i] = t[i + 1]
  <2>1. CASE i = Len(v) + 1
    BY <1>1, <1>2, <2>1
  <2>2. CASE i \in a .. Len(v)
    <3>1. i \in 1 .. Len(v) /\ i + 1 \in 1 .. Len(w)
      BY <1>1, <1>2, <2>2
    <3>. QED BY <1>1, <2>2, <3>1 DEF Lacks
  <2>. QED BY <1>1, <1>2, <2>1, <2>2
<1>6. Lacks(r, t, a, k)
  BY <1>3, <1>4, <1>5 DEF Lacks
<1>. QED BY <1>6 DEF r, t

LEMMA LacksRemoved ==
  ASSUME NEW v \in Seq(Keys), NEW w \in Seq(Keys), NEW a \in Nat, NEW k, Lacks(v, w, a, k)
  PROVE  v = Hash!RemoveAt(w, a)
<1>1. a \in 1 .. Len(w) /\ Len(v) = Len(w) - 1 /\ Len(w) \in Nat
  BY DEF Lacks
<1> DEFINE f == SubSeq(w, 1, a - 1)
           g == SubSeq(w, a + 1, Len(w))
<1>2. f \in Seq(Keys) /\ Len(f) = a - 1 /\ \A i \in 1 .. a - 1: f[i] = w[i]
  BY <1>1
<1>3. g \in Seq(Keys) /\ Len(g) = Len(w) - a /\ \A i \in 1 .. Len(w) - a: g[i] = w[a + i]
  BY <1>1
<1>4. Hash!RemoveAt(w, a) = f \o g
  BY DEF Hash!RemoveAt
<1> HIDE DEF f, g
<1> DEFINE h == f \o g
<1>5. h \in Seq(Keys) /\ Len(h) = Len(v) /\ (\A i \in 1 .. a - 1: h[i] = f[i])
      /\ \A i \in a .. Len(v): h[i] = g[(i - a) + 1]
  BY <1>1, <1>2, <1>3
<1> HIDE DEF h
<1>6. ASSUME NEW i \in 1 .. Len(v) PROVE v[i] = h[i]
  <2>1. CASE i \in 1 .. a - 1
    BY <1>2, <1>5, <2>1 DEF Lacks
  <2>2. CASE i \in a .. Len(v)
    <3>1. (i - a) + 1 \in 1 .. Len(w) - a /\ a + ((i - a) + 1) = i + 1
      BY <1>1, <2>2
    <3>2. g[(i - a) + 1] = w[i + 1]
      BY <1>3, <3>1
    <3>. QED BY <1>5, <2>2, <3>2 DEF Lacks
  <2>. QED BY <1>1, <2>1, <2>2
<1>7. v = h
  BY <1>5, <1>6
<1>. QED BY <1>4, <1>7 DEF h

LEMMA CompactedErased ==
  ASSUME NEW s \in Seq(Slots), AreApart(s), NEW p \in 1 .. Len(s), NEW k \in Keys, s[p] = k
  PROVE  LET c == Hash!Compacted(s)
             r == [s EXCEPT ![p] = Hash!EMPTY]
         IN Hash!Compacted(r) = Hash!RemoveAt(c, CHOOSE i \in DOMAIN c: c[i] = k)
<1> DEFINE c == Hash!Compacted(s)
           r == [s EXCEPT ![p] = Hash!EMPTY]
           L == Len(s)
<1>1. /\ r \in Seq(Slots) /\ Len(r) = L /\ L \in Nat /\ r[p] = Hash!EMPTY /\ p \in 1 .. L /\ p - 1 \in 0 .. L
      /\ \A i \in 1 .. L: i # p => r[i] = s[i]
  BY DEF Slots
<1>2. PICK w: Copies(w, s) /\ c = w[L]
  BY Copying
<1> HIDE DEF r, c
<1>3. PICK v: Copies(v, r) /\ Hash!Compacted(r) = v[L]
  BY <1>1, Copying
<1> HIDE DEF L
<1>4. ASSUME NEW n \in 0 .. L PROVE w[n] \in Seq(Keys) /\ v[n] \in Seq(Keys)
  BY <1>1, <1>2, <1>3, Copied DEF HasValues, L
<1>5. v[p - 1] = w[p - 1]
  <2>1. p - 1 <= Len(r) /\ \A i \in 1 .. p - 1: r[i] = s[i]
    BY <1>1
  <2>. QED BY <1>1, <1>2, <1>3, <2>1, CopiedAlike DEF L
<1>6. k # Hash!EMPTY
  BY KeysAssumption
<1> DEFINE a == Len(w[p - 1]) + 1
<1>7. a \in Nat
  BY <1>1, <1>4
<1>8. Lacks(v[p], w[p], a, k)
  <2>1. w[p] = Hash!WithValue(w[p - 1], s, p) /\ v[p] = Hash!WithValue(v[p - 1], r, p)
    BY <1>1, <1>2, <1>3 DEF Copies, L
  <2>2. w[p] = Append(w[p - 1], k) /\ v[p] = w[p - 1]
    BY <1>1, <1>5, <1>6, <2>1 DEF Hash!WithValue
  <2> DEFINE t == w[p - 1]
             u == w[p]
  <2>3. t \in Seq(Keys) /\ u = Append(t, k) /\ v[p] = t /\ a = Len(t) + 1
    BY <1>1, <1>4, <2>2
  <2> HIDE DEF t, u, a
  <2>4. Len(t) \in Nat /\ Len(u) = Len(t) + 1 /\ u[Len(t) + 1] = k /\ \A i \in 1 .. Len(t): u[i] = t[i]
    BY <2>3
  <2>5. Lacks(t, u, a, k)
    BY <2>3, <2>4 DEF Lacks
  <2>. QED BY <2>3, <2>5 DEF u
<1> HIDE DEF a
<1> DEFINE T == {n \in 0 .. L: n >= p => Lacks(v[n], w[n], a, k)}
<1>9. 0 \in T
  BY <1>1
<1>10. ASSUME NEW n \in 0 .. L - 1, n \in T PROVE n + 1 \in T
  <2>1. n + 1 \in 1 .. L /\ n + 1 \in 0 .. L /\ n \in 0 .. L /\ (n + 1) - 1 = n
    BY <1>1
  <2>2. CASE n + 1 = p
    BY <1>8, <2>1, <2>2
  <2>3. CASE n + 1 < p
    BY <1>1, <2>1, <2>3
  <2>4. CASE n >= p
    <3>1. Lacks(v[n], w[n], a, k) /\ n + 1 # p
      BY <1>1, <1>10, <2>4
    <3>2. /\ w[n + 1] = Hash!WithValue(w[(n + 1) - 1], s, n + 1)
          /\ v[n + 1] = Hash!WithValue(v[(n + 1) - 1], r, n + 1)
      BY <1>1, <1>2, <1>3, <2>1, Zenon DEF Copies, L
    <3>3. s[n + 1] = r[n + 1] /\ s[n + 1] \in Slots
      BY <1>1, <2>1, <3>1 DEF L
    <3>4. CASE s[n + 1] = Hash!EMPTY
      BY <2>1, <3>1, <3>2, <3>3, <3>4 DEF Hash!WithValue
    <3>5. CASE s[n + 1] # Hash!EMPTY
      <4>1. s[n + 1] \in Keys
        BY <3>3, <3>5 DEF Slots
      <4>2. w[n + 1] = Append(w[n], s[n + 1]) /\ v[n + 1] = Append(v[n], s[n + 1])
        BY <2>1, <3>2, <3>3, <3>5 DEF Hash!WithValue
      <4>3. Lacks(Append(v[n], s[n + 1]), Append(w[n], s[n + 1]), a, k)
        BY <1>4, <1>7, <2>1, <3>1, <4>1, LacksAppended
      <4>. QED BY <2>1, <4>2, <4>3
    <3>. QED BY <3>4, <3>5
  <2>. QED BY <1>1, <2>1, <2>2, <2>3, <2>4
<1>11. 0 .. L \subseteq T
  <2> HIDE DEF T
  <2>. QED BY <1>1, <1>9, <1>10, Pool!SetInduction
<1>12. Lacks(v[L], c, a, k) /\ v[L] \in Seq(Keys) /\ c \in Seq(Keys)
  BY <1>1, <1>2, <1>4, <1>11
<1>13. v[L] = Hash!RemoveAt(c, a)
  BY <1>7, <1>12, LacksRemoved
<1>14. (CHOOSE i \in DOMAIN c: c[i] = k) = a
  <2>1. a \in DOMAIN c /\ c[a] = k
    BY <1>12 DEF Lacks
  <2>2. IsOnce(c)
    BY CompactedOnce DEF c
  <2>3. \A i \in DOMAIN c: c[i] = k => i = a
    BY <1>12, <2>1, <2>2 DEF IsOnce
  <2>. QED BY <2>1, <2>3
<1>. QED BY <1>3, <1>13, <1>14 DEF c, r

-----------------------------------------------------------------------------
(* The index: probes, free slots and places.                                 *)
Path(k, c) == Hash!Probe(HashOf[k], c)

LEMMA CoverOf ==
  ASSUME NEW n \in 1 .. 2 ^ 29
  PROVE  LET m == Hash!Larger(n, Hash!START_PRIME)
             c == 2 * Hash!MostSignificant((m * 3) \div 2 + 1)
         IN c \in Nat /\ 3 * n <= 2 * c /\ c > 0
<1> DEFINE m == Hash!Larger(n, Hash!START_PRIME)
           b == (m * 3) \div 2 + 1
           p == Hash!MostSignificant(b)
<1>1. 2 ^ 29 = 536870912 /\ 2 ^ 31 = 2147483648
  OBVIOUS
<1>2. m \in Nat /\ m >= n /\ m >= 3 /\ m <= 2 ^ 29
  BY <1>1, SMT DEF Hash!Larger, Hash!START_PRIME
<1> HIDE DEF m
<1>3. b \in 1 .. (2 ^ 31 - 1) /\ 2 * b >= 3 * m
  BY <1>1, <1>2, SMT
<1> HIDE DEF b
<1>4. p \in Nat /\ p <= b /\ b < 2 * p
  BY <1>3, Bits
<1> HIDE DEF p
<1> DEFINE c == 2 * p
<1>5. c \in Nat /\ 3 * n <= 2 * c /\ c > 0
  BY <1>2, <1>3, <1>4
<1>. QED BY <1>5 DEF p, b, m

LEMMA SizesAreSmall ==
  ASSUME NEW n \in (1 .. MaxStore) \cup Sizes
  PROVE  n \in 1 .. 2 ^ 29
<1>1. 2 ^ 29 = 536870912
  OBVIOUS
<1>2. MaxStore \in 0 .. 2 ^ 29 /\ Sizes \subseteq 1 .. 2 ^ 29
  BY KeysAssumption
<1>3. CASE n \in Sizes
  BY <1>2, <1>3
<1>4. CASE n \in 1 .. MaxStore
  <2> DEFINE B == 2 ^ 29
  <2>1. B \in Nat
    BY <1>1, SMT
  <2>2. MaxStore \in 0 .. B
    BY <1>2, Zenon
  <2> HIDE DEF B
  <2>3. n \in 1 .. B
    BY <1>4, <2>1, <2>2
  <2>. QED BY <2>3 DEF B
<1>. QED BY <1>3, <1>4

LEMMA CoverTypes ==
  ASSUME NEW c \in Covers
  PROVE  c \in Nat /\ c > 0
<1>1. PICK n \in (1 .. MaxStore) \cup Sizes:
        c = 2 * Hash!MostSignificant((Hash!Larger(n, Hash!START_PRIME) * 3) \div 2 + 1)
  BY DEF Covers
<1>2. n \in 1 .. 2 ^ 29
  BY <1>1, SizesAreSmall
<1>. QED BY <1>1, <1>2, CoverOf

LEMMA PathTypes ==
  ASSUME NEW k \in Keys, NEW c \in Covers
  PROVE  /\ DOMAIN Path(k, c) = 0 .. c + 13
         /\ \A i \in 0 .. c + 13: Path(k, c)[i] \in 0 .. c - 1
         /\ \A x \in 0 .. c - 1: \E i \in 0 .. c + 13: Path(k, c)[i] = x
<1>1. DOMAIN Path(k, c) = 0 .. c + 13
  BY DEF Path, Hash!Probe
<1>2. {Path(k, c)[i]: i \in 0 .. c + 13} = 0 .. c - 1
  BY ProbesAssumption DEF Path
<1>. QED BY <1>1, <1>2

LEMMA Interval ==
  ASSUME NEW c \in Nat
  PROVE  IsFiniteSet(0 .. c - 1) /\ Cardinality(0 .. c - 1) = c
<1>1. 0 \in Int /\ c - 1 \in Int
  OBVIOUS
<1>2. /\ IsFiniteSet(0 .. c - 1)
      /\ Cardinality(0 .. c - 1) = IF 0 > c - 1 THEN 0 ELSE ((c - 1) - 0) + 1
  BY <1>1, FS_Interval
<1>. QED BY <1>2

LEMMA CoverOfMap ==
  ASSUME NEW c \in Nat, NEW map, DOMAIN map = 0 .. c - 1
  PROVE  Hash!Cover(map) = c
BY Interval DEF Hash!Cover, Hash!Cardinality, Cardinality

(* The probe of k comes to a slot with q and no slot before it is unused.    *)
Reaches(map, k, q, c) ==
  \E j \in 0 .. c + 13:
    map[Path(k, c)[j]] = q /\ \A l \in 0 .. j - 1: map[Path(k, c)[l]] # Hash!INVALID

(* map is an index of the first n places of s.                               *)
Indexes(map, s, n, c) ==
  /\ map \in [0 .. c - 1 -> {Hash!ERASED, Hash!INVALID} \cup (0 .. n - 1)]
  /\ \A x \in 0 .. c - 1: map[x] >= 0 => s[map[x] + 1] # Hash!EMPTY
  /\ \A x, y \in 0 .. c - 1: map[x] >= 0 /\ map[x] = map[y] => x = y
  /\ \A i \in 1 .. n: s[i] # Hash!EMPTY => Reaches(map, s[i], i - 1, c)
  /\ Cardinality({x \in 0 .. c - 1: map[x] # Hash!INVALID}) <= n

LEMMA UnusedLeft ==
  ASSUME NEW map, NEW s, NEW c \in Covers, NEW n \in 0 .. c - 1, Indexes(map, s, n, c)
  PROVE  \E x \in 0 .. c - 1: map[x] = Hash!INVALID
<1> DEFINE Filled == {x \in 0 .. c - 1: map[x] # Hash!INVALID}
<1>1. c \in Nat
  BY CoverTypes
<1>2. Cardinality(0 .. c - 1) = c
  BY <1>1, Interval
<1>3. Cardinality(Filled) <= n
  BY DEF Indexes
<1>4. Filled # 0 .. c - 1
  <2> HIDE DEF Filled
  <2>. QED BY <1>1, <1>2, <1>3
<1>. QED BY <1>4

LEMMA UnusedReached ==
  ASSUME NEW map, NEW s, NEW c \in Covers, NEW n \in 0 .. c - 1, Indexes(map, s, n, c), NEW k \in Keys
  PROVE  Reaches(map, k, Hash!INVALID, c)
<1>1. c \in Nat
  BY CoverTypes
<1>2. PICK x \in 0 .. c - 1: map[x] = Hash!INVALID
  BY UnusedLeft
<1> DEFINE T == {i \in 0 .. c + 13: map[Path(k, c)[i]] = Hash!INVALID}
<1>3. T # {} /\ T \in SUBSET Nat
  BY <1>2, PathTypes
<1>4. PICK j \in T: \A i \in T: j <= i
  BY <1>3, Pool!LeastNumber
<1>5. j \in 0 .. c + 13 /\ map[Path(k, c)[j]] = Hash!INVALID
  BY <1>4
<1>6. ASSUME NEW l \in 0 .. j - 1 PROVE map[Path(k, c)[l]] # Hash!INVALID
  <2>1. l \in 0 .. c + 13 /\ l < j
    BY <1>1, <1>5
  <2>. QED BY <1>4, <1>5, <2>1
<1>. QED BY <1>5, <1>6 DEF Reaches

LEMMA GapAdded ==
  ASSUME NEW map, NEW s, NEW c \in Covers, NEW n \in Nat, Indexes(map, s, n, c), s[n + 1] = Hash!EMPTY
  PROVE  Indexes(map, s, n + 1, c)
<1>1. map \in [0 .. c - 1 -> {Hash!ERASED, Hash!INVALID} \cup (0 .. (n + 1) - 1)]
  <2>1. 0 .. n - 1 \subseteq 0 .. (n + 1) - 1
    OBVIOUS
  <2>2. {Hash!ERASED, Hash!INVALID} \cup (0 .. n - 1) \subseteq {Hash!ERASED, Hash!INVALID} \cup (0 .. (n + 1) - 1)
    BY <2>1
  <2>. QED BY <2>2 DEF Indexes
<1>2. \A i \in 1 .. n + 1: s[i] # Hash!EMPTY => Reaches(map, s[i], i - 1, c)
  <2>1. \A i \in 1 .. n + 1: s[i] # Hash!EMPTY => i \in 1 .. n
    OBVIOUS
  <2>. QED BY <2>1 DEF Indexes
<1>3. Cardinality({x \in 0 .. c - 1: map[x] # Hash!INVALID}) <= n + 1
  <2> DEFINE F == {x \in 0 .. c - 1: map[x] # Hash!INVALID}
  <2>1. IsFiniteSet(0 .. c - 1)
    BY CoverTypes, Interval
  <2>2. F \in SUBSET (0 .. c - 1) /\ Cardinality(F) <= n
    BY DEF Indexes
  <2> HIDE DEF F
  <2>3. Cardinality(F) \in Nat
    BY <2>1, <2>2, FS_Subset, FS_CardinalityType
  <2>. QED BY <2>2, <2>3 DEF F
<1>. QED BY <1>1, <1>2, <1>3 DEF Indexes

LEMMA PlaceAdded ==
  ASSUME NEW map, NEW s \in Seq(Slots), NEW c \in Covers, NEW n \in 0 .. Len(s) - 1,
         Indexes(map, s, n, c), s[n + 1] \in Keys,
         NEW j \in 0 .. c + 13,
         map[Path(s[n + 1], c)[j]] \in {Hash!ERASED, Hash!INVALID},
         \A l \in 0 .. j - 1: map[Path(s[n + 1], c)[l]] # Hash!INVALID
  PROVE  Indexes([map EXCEPT ![Path(s[n + 1], c)[j]] = n], s, n + 1, c)
<1> DEFINE k == s[n + 1]
           m == Path(k, c)[j]
           new == [map EXCEPT ![m] = n]
           F == {x \in 0 .. c - 1: map[x] # Hash!INVALID}
           G == {x \in 0 .. c - 1: new[x] # Hash!INVALID}
<1>1. c \in Nat /\ c > 0 /\ n \in Nat
  BY CoverTypes
<1>2. m \in 0 .. c - 1 /\ map[m] \in {Hash!ERASED, Hash!INVALID} /\ ~(map[m] >= 0)
  BY PathTypes DEF Hash!ERASED, Hash!INVALID
<1>3. map \in [0 .. c - 1 -> {Hash!ERASED, Hash!INVALID} \cup (0 .. n - 1)]
  BY DEF Indexes
<1>4. k # Hash!EMPTY
  BY KeysAssumption
<1>5. \A l \in 0 .. j - 1: map[Path(k, c)[l]] # Hash!INVALID
  OBVIOUS
<1> HIDE DEF m, k
<1>6. /\ new[m] = n /\ DOMAIN new = 0 .. c - 1
      /\ \A x \in 0 .. c - 1: x # m => new[x] = map[x]
  BY <1>2, <1>3
<1>7. new \in [0 .. c - 1 -> {Hash!ERASED, Hash!INVALID} \cup (0 .. (n + 1) - 1)]
  <2>1. 0 .. n - 1 \subseteq 0 .. (n + 1) - 1 /\ n \in 0 .. (n + 1) - 1
    OBVIOUS
  <2>2. {Hash!ERASED, Hash!INVALID} \cup (0 .. n - 1) \subseteq {Hash!ERASED, Hash!INVALID} \cup (0 .. (n + 1) - 1)
    BY <2>1
  <2>. QED BY <1>2, <1>3, <2>1, <2>2
<1>8. \A x \in 0 .. c - 1: map[x] # n /\ (map[x] >= 0 => x # m)
  <2>1. \A y \in {Hash!ERASED, Hash!INVALID} \cup (0 .. n - 1): y # n
    <3>1. Hash!ERASED # n /\ Hash!INVALID # n
      BY <1>1 DEF Hash!ERASED, Hash!INVALID
    <3>2. \A y \in 0 .. n - 1: y # n
      BY <1>1
    <3>. QED BY <3>1, <3>2
  <2>2. \A x \in 0 .. c - 1: map[x] # n
    BY <1>3, <2>1
  <2>3. \A x \in 0 .. c - 1: map[x] >= 0 => x # m
    BY <1>2, Zenon
  <2>. QED BY <2>2, <2>3
<1> HIDE DEF new
<1>9. \A x \in 0 .. c - 1: new[x] >= 0 => s[new[x] + 1] # Hash!EMPTY
  BY <1>4, <1>6 DEF Indexes, k
<1>10. \A x, y \in 0 .. c - 1: new[x] >= 0 /\ new[x] = new[y] => x = y
  BY <1>6, <1>8 DEF Indexes
<1>11. n # Hash!INVALID
  BY DEF Hash!INVALID
<1>12. ASSUME NEW i \in 1 .. n + 1, s[i] # Hash!EMPTY PROVE Reaches(new, s[i], i - 1, c)
  <2>1. CASE i = n + 1
    <3>1. \A l \in 0 .. j - 1: Path(k, c)[l] \in 0 .. c - 1
      <4>1. \A l \in 0 .. j - 1: l \in 0 .. c + 13
        BY <1>1
      <4>2. k \in Keys
        BY DEF k
      <4>. QED BY <4>1, <4>2, PathTypes
    <3>2. \A l \in 0 .. j - 1: new[Path(k, c)[l]] # Hash!INVALID
      BY <1>5, <1>6, <1>11, <3>1
    <3>3. new[Path(k, c)[j]] = n
      BY <1>6 DEF m
    <3>. QED BY <2>1, <3>2, <3>3 DEF Reaches, k
  <2>2. CASE i \in 1 .. n
    <3> DEFINE q == s[i]
    <3>1. Reaches(map, q, i - 1, c)
      BY <1>12, <2>2 DEF Indexes
    <3> HIDE DEF q
    <3>2. PICK h \in 0 .. c + 13: /\ map[Path(q, c)[h]] = i - 1
                                 /\ \A l \in 0 .. h - 1: map[Path(q, c)[l]] # Hash!INVALID
      BY <3>1 DEF Reaches
    <3>3. q \in Keys
      <4>1. i \in 1 .. Len(s)
        BY <2>2
      <4>. QED BY <1>12, <4>1 DEF q, Slots
    <3>4. \A l \in 0 .. h: l \in 0 .. c + 13 /\ Path(q, c)[l] \in 0 .. c - 1
      <4>1. \A l \in 0 .. h: l \in 0 .. c + 13
        BY <1>1
      <4>. QED BY <3>3, <4>1, PathTypes
    <3>5. Path(q, c)[h] \in 0 .. c - 1 /\ i - 1 >= 0
      BY <2>2, <3>3, PathTypes
    <3>6. new[Path(q, c)[h]] = i - 1
      BY <1>6, <1>8, <3>2, <3>5
    <3>7. \A l \in 0 .. h - 1: new[Path(q, c)[l]] # Hash!INVALID
      <4>1. \A l \in 0 .. h - 1: l \in 0 .. h
        BY <1>1
      <4>. QED BY <1>6, <1>11, <3>2, <3>4, <4>1
    <3>. QED BY <3>6, <3>7 DEF Reaches, q
  <2>. QED BY <2>1, <2>2
<1>13. Cardinality(G) <= n + 1
  <2>1. IsFiniteSet(0 .. c - 1)
    BY <1>1, Interval
  <2>2. F \in SUBSET (0 .. c - 1) /\ Cardinality(F) <= n
    BY DEF Indexes
  <2>3. G = F \cup {m}
    BY <1>2, <1>6, <1>11
  <2> HIDE DEF F, G
  <2>4. IsFiniteSet(F) /\ Cardinality(F) \in Nat
    BY <2>1, <2>2, FS_Subset, FS_CardinalityType
  <2>5. Cardinality(G) = IF m \in F THEN Cardinality(F) ELSE Cardinality(F) + 1
    BY <2>3, <2>4, FS_AddElement, Zenon
  <2>. QED BY <1>1, <2>2, <2>4, <2>5
<1>. QED BY <1>7, <1>9, <1>10, <1>12, <1>13 DEF Indexes, new, m, k

(* rebuild_index().                                                          *)
Unused(c) == [i \in 0 .. c - 1 |-> Hash!INVALID]

Places(w, s, c) ==
  w[0] = Unused(c) /\ \A n \in 1 .. Len(s): w[n] = Hash!WithPlace(w[n - 1], s, n, c)

LEMMA Placing ==
  ASSUME NEW s \in Seq(Slots), NEW c \in Nat
  PROVE  \E w: Places(w, s, c) /\ Hash!RebuiltIndex(s, c) = w[Len(s)]
<1> DEFINE L == Len(s)
           Maps == [0 .. c - 1 -> Int]
           step == [n \in 1 .. L |-> [map \in Maps |-> Hash!WithPlace(map, s, n, c)]]
<1>1. L \in Nat
  OBVIOUS
<1>2. step \in [1 .. L -> [Maps -> Maps]]
  <2> SUFFICES ASSUME NEW n \in 1 .. L, NEW map \in Maps PROVE Hash!WithPlace(map, s, n, c) \in Maps
    OBVIOUS
  <2>1. n - 1 \in Int
    BY <1>1
  <2>2. \A x: [map EXCEPT ![x] = n - 1] \in Maps
    BY <2>1
  <2> HIDE DEF Maps
  <2>. QED BY <2>2 DEF Hash!WithPlace
<1>3. Unused(c) \in Maps
  BY DEF Unused, Hash!INVALID
<1> HIDE DEF L
<1>4. PICK f \in [0 .. L -> Maps]: Goes(f, Unused(c), step, L)
  <2> HIDE DEF step, Maps
  <2>. QED BY <1>1, <1>2, <1>3, Steps, Zenon
<1> HIDE DEF Maps
<1>5. ASSUME NEW i \in 0 .. L
      PROVE  f[i] = IF i = 0 THEN Unused(c) ELSE Hash!WithPlace(f[i - 1], s, i, c)
  <2>1. CASE i = 0
    BY <1>4, <2>1 DEF Goes
  <2>2. CASE i # 0
    <3>1. i \in 1 .. L /\ i - 1 \in 0 .. L
      BY <1>1, <2>2
    <3>2. f[i - 1] \in Maps /\ f[i] = step[i][f[i - 1]]
      <4> HIDE DEF step
      <4>. QED BY <1>4, <3>1, Zenon DEF Goes
    <3>3. step[i][f[i - 1]] = Hash!WithPlace(f[i - 1], s, i, c)
      BY <3>1, <3>2
    <3>. QED BY <2>2, <3>2, <3>3
  <2>. QED BY <2>1, <2>2
<1>6. \E g: g = [n \in 0 .. L |-> IF n = 0 THEN Unused(c) ELSE Hash!WithPlace(g[n - 1], s, n, c)]
  <2>1. f = [n \in 0 .. L |-> f[n]]
    BY <1>4
  <2>2. f = [n \in 0 .. L |-> IF n = 0 THEN Unused(c) ELSE Hash!WithPlace(f[n - 1], s, n, c)]
    <3> HIDE DEF step
    <3>. QED BY <1>5, <2>1, Zenon
  <2>. QED BY <2>2
<1>7. PICK w: /\ w = CHOOSE g: g = [n \in 0 .. L |-> IF n = 0 THEN Unused(c) ELSE Hash!WithPlace(g[n - 1], s, n, c)]
              /\ w = [n \in 0 .. L |-> IF n = 0 THEN Unused(c) ELSE Hash!WithPlace(w[n - 1], s, n, c)]
  BY <1>6, Zenon
<1>8. Hash!RebuiltIndex(s, c) = w[L]
  BY <1>7, Zenon DEF Hash!RebuiltIndex, Unused, L
<1>9. Places(w, s, c)
  <2>1. w[0] = Unused(c)
    <3>1. 0 \in 0 .. L
      BY <1>1
    <3>2. w[0] = IF 0 = 0 THEN Unused(c) ELSE Hash!WithPlace(w[0 - 1], s, 0, c)
      BY <1>7, <3>1, Zenon
    <3>. QED BY <3>2
  <2>2. ASSUME NEW n \in 1 .. L PROVE w[n] = Hash!WithPlace(w[n - 1], s, n, c)
    <3>1. n \in 0 .. L /\ n # 0
      BY <1>1
    <3>. QED BY <1>7, <3>1
  <2>. QED BY <2>1, <2>2 DEF Places, L
<1>. QED BY <1>8, <1>9 DEF L

LEMMA NothingIndexed ==
  ASSUME NEW c \in Nat, NEW s
  PROVE  Indexes(Unused(c), s, 0, c)
<1> DEFINE map == Unused(c)
<1>1. map \in [0 .. c - 1 -> {Hash!ERASED, Hash!INVALID} \cup (0 .. 0 - 1)]
  BY DEF Unused
<1>2. \A x \in 0 .. c - 1: map[x] = Hash!INVALID /\ ~(map[x] >= 0)
  BY DEF Unused, Hash!INVALID
<1>3. Cardinality({x \in 0 .. c - 1: map[x] # Hash!INVALID}) <= 0
  <2>1. {x \in 0 .. c - 1: map[x] # Hash!INVALID} = {}
    BY <1>2
  <2>2. Cardinality({}) = 0
    BY FS_EmptySet
  <2>. QED BY <2>1, <2>2
<1> HIDE DEF map
<1>4. \A x, y \in 0 .. c - 1: map[x] >= 0 /\ map[x] = map[y] => x = y
  BY <1>2
<1>5. Indexes(map, s, 0, c)
  BY <1>1, <1>2, <1>3, <1>4 DEF Indexes
<1>. QED BY <1>5 DEF map

LEMMA Placed ==
  ASSUME NEW s \in Seq(Slots), NEW c \in Covers, NEW n \in 0 .. Len(s) - 1, n < c,
         NEW map, Indexes(map, s, n, c)
  PROVE  Indexes(Hash!WithPlace(map, s, n + 1, c), s, n + 1, c)
<1> DEFINE k == s[n + 1]
<1>1. n \in Nat /\ n + 1 \in 1 .. Len(s) /\ c \in Nat /\ n \in 0 .. c - 1 /\ (n + 1) - 1 = n
  BY CoverTypes
<1>2. CASE k = Hash!EMPTY
  <2>1. Hash!WithPlace(map, s, n + 1, c) = map
    BY <1>2 DEF Hash!WithPlace
  <2>. QED BY <1>1, <1>2, <2>1, GapAdded
<1>3. CASE k # Hash!EMPTY
  <2>1. k \in Keys
    BY <1>1, <1>3 DEF Slots
  <2> HIDE DEF k
  <2> DEFINE Stops(i) == map[Path(k, c)[i]] = Hash!INVALID
                         /\ \A l \in 0 .. i - 1: map[Path(k, c)[l]] # Hash!INVALID
             j == CHOOSE i \in DOMAIN Path(k, c): Stops(i)
  <2>2. \E i \in DOMAIN Path(k, c): Stops(i)
    <3>1. Reaches(map, k, Hash!INVALID, c)
      BY <1>1, <2>1, UnusedReached
    <3>2. DOMAIN Path(k, c) = 0 .. c + 13
      BY <2>1, PathTypes
    <3>. QED BY <3>1, <3>2 DEF Reaches
  <2>3. j \in 0 .. c + 13 /\ Stops(j)
    <3>1. j \in DOMAIN Path(k, c) /\ Stops(j)
      <4> HIDE DEF Stops
      <4>. QED BY <2>2
    <3>. QED BY <2>1, <3>1, PathTypes
  <2>4. Hash!WithPlace(map, s, n + 1, c) = [map EXCEPT ![Path(k, c)[j]] = n]
    <3>1. Hash!WithPlace(map, s, n + 1, c) = [map EXCEPT ![Path(k, c)[j]] = (n + 1) - 1]
      BY <1>3, Zenon DEF Hash!WithPlace, Path, k
    <3>. QED BY <1>1, <3>1
  <2> HIDE DEF j
  <2>5. map[Path(k, c)[j]] \in {Hash!ERASED, Hash!INVALID}
    BY <2>3
  <2>6. Indexes([map EXCEPT ![Path(k, c)[j]] = n], s, n + 1, c)
    BY <2>1, <2>3, <2>5, PlaceAdded DEF k
  <2>. QED BY <2>4, <2>6
<1>. QED BY <1>2, <1>3

LEMMA Rebuilt ==
  ASSUME NEW s \in Seq(Slots), NEW c \in Covers, Len(s) < c
  PROVE  Indexes(Hash!RebuiltIndex(s, c), s, Len(s), c)
<1> DEFINE L == Len(s)
<1>1. L \in Nat /\ c \in Nat
  BY CoverTypes
<1>2. PICK w: Places(w, s, c) /\ Hash!RebuiltIndex(s, c) = w[L]
  BY <1>1, Placing
<1> DEFINE T == {n \in 0 .. L: Indexes(w[n], s, n, c)}
<1>3. 0 \in T
  BY <1>1, <1>2, NothingIndexed DEF Places
<1>4. ASSUME NEW n \in 0 .. L - 1, n \in T PROVE n + 1 \in T
  <2>1. n + 1 \in 1 .. L /\ n + 1 \in 0 .. L /\ n < c /\ (n + 1) - 1 = n
    BY <1>1
  <2>2. w[n + 1] = Hash!WithPlace(w[(n + 1) - 1], s, n + 1, c)
    BY <1>2, <2>1, Zenon DEF Places, L
  <2>3. Indexes(w[n], s, n, c)
    BY <1>4
  <2>4. Indexes(Hash!WithPlace(w[n], s, n + 1, c), s, n + 1, c)
    BY <2>1, <2>3, Placed
  <2>. QED BY <2>1, <2>2, <2>4
<1>5. 0 .. L \subseteq T
  <2> HIDE DEF T, L
  <2>. QED BY <1>1, <1>3, <1>4, Pool!SetInduction
<1>. QED BY <1>1, <1>2, <1>5

-----------------------------------------------------------------------------
(* find_projection().                                                        *)
Slot(map, k, j, c) ==
  /\ j \in 0 .. c + 13 /\ map[Path(k, c)[j]] \in {Hash!ERASED, Hash!INVALID}
  /\ \A l \in 0 .. j - 1: map[Path(k, c)[l]] # Hash!INVALID

LEMMA FoundAt ==
  ASSUME NEW s \in Seq(Slots), AreApart(s), NEW c \in Covers, Len(s) < c,
         NEW map, Indexes(map, s, Len(s), c), NEW k \in Keys
  PROVE  /\ \A i \in 1 .. Len(s): s[i] = k => Hash!Found(k, s, map).storeIndex = i - 1
         /\ (\A i \in 1 .. Len(s): s[i] # k) =>
              /\ Hash!Found(k, s, map).storeIndex = Hash!INVALID
              /\ \E j \in 0 .. c + 13:
                   Slot(map, k, j, c) /\ Hash!Found(k, s, map).mapIndex = Path(k, c)[j]
<1> DEFINE path == Hash!Probe(HashOf[k], Hash!Cover(map))
           Stops(i) == map[path[i]] = Hash!INVALID
                       \/ (map[path[i]] >= 0 /\ Hash!At(s, map[path[i]]) = k)
           stop == CHOOSE i \in DOMAIN path: Stops(i) /\ \A j \in 0 .. i - 1: ~Stops(j)
           gaps == {j \in 0 .. stop - 1: map[path[j]] = Hash!ERASED}
           lastGap == CHOOSE j \in gaps: \A l \in gaps: l <= j
           found == Hash!Found(k, s, map)
           n == Len(s)
<1>1. c \in Nat /\ c > 0 /\ n \in Nat /\ n \in 0 .. c - 1
  BY CoverTypes
<1>2. map \in [0 .. c - 1 -> {Hash!ERASED, Hash!INVALID} \cup (0 .. n - 1)]
  BY DEF Indexes
<1>3. path = Path(k, c)
  <2>1. Hash!Cover(map) = c
    BY <1>1, <1>2, CoverOfMap
  <2>. QED BY <2>1 DEF Path
<1>4. /\ found.mapIndex = IF map[path[stop]] = Hash!INVALID /\ gaps # {} THEN path[lastGap] ELSE path[stop]
      /\ found.storeIndex = map[path[stop]]
  <2>1. found = [mapIndex |-> IF map[path[stop]] = Hash!INVALID /\ gaps # {} THEN path[lastGap] ELSE path[stop],
                 storeIndex |-> map[path[stop]]]
    BY Zenon DEF Hash!Found
  <2> HIDE DEF found, path, stop, gaps, lastGap
  <2>. QED BY <2>1
<1> HIDE DEF path, found
<1>5. DOMAIN path = 0 .. c + 13 /\ \A i \in 0 .. c + 13: path[i] \in 0 .. c - 1
  BY <1>3, PathTypes
<1>6. stop \in 0 .. c + 13 /\ Stops(stop) /\ \A j \in 0 .. stop - 1: ~Stops(j)
  <2> DEFINE T == {i \in 0 .. c + 13: Stops(i)}
  <2>1. T # {} /\ T \in SUBSET Nat
    <3>1. Reaches(map, k, Hash!INVALID, c)
      BY <1>1, UnusedReached
    <3>2. PICK j \in 0 .. c + 13: map[path[j]] = Hash!INVALID
      BY <1>3, <3>1 DEF Reaches
    <3>. QED BY <1>1, <3>2
  <2>2. PICK i \in T: \A j \in T: i <= j
    BY <2>1, Pool!LeastNumber
  <2>3. i \in 0 .. c + 13 /\ Stops(i)
    BY <2>2
  <2>4. \A j \in 0 .. i - 1: ~Stops(j)
    <3>1. \A j \in 0 .. i - 1: j \in 0 .. c + 13 /\ ~(i <= j)
      BY <1>1, <2>3
    <3> HIDE DEF Stops
    <3>. QED BY <2>2, <3>1
  <2> HIDE DEF Stops, T
  <2>5. \E e \in DOMAIN path: Stops(e) /\ \A j \in 0 .. e - 1: ~Stops(j)
    BY <1>5, <2>3, <2>4
  <2>6. stop \in DOMAIN path /\ Stops(stop) /\ \A j \in 0 .. stop - 1: ~Stops(j)
    BY <2>5
  <2> HIDE DEF stop
  <2>. QED BY <1>5, <2>6
<1> HIDE DEF stop
<1>7. /\ map[path[stop]] \in {Hash!ERASED, Hash!INVALID} \cup (0 .. n - 1)
      /\ \A l \in 0 .. stop - 1: l \in 0 .. c + 13 /\ map[path[l]] # Hash!INVALID
  <2>1. path[stop] \in 0 .. c - 1
    BY <1>5, <1>6
  <2>2. stop \in 0 .. c + 13
    BY <1>6
  <2>3. \A l \in 0 .. stop - 1: l \in 0 .. c + 13
    BY <1>1, <2>2
  <2>. QED BY <1>2, <1>6, <2>1, <2>3
<1>8. \A x: x >= 0 /\ x \in {Hash!ERASED, Hash!INVALID} \cup (0 .. n - 1) => x \in 0 .. n - 1 /\ x + 1 \in 1 .. n
  BY <1>1 DEF Hash!ERASED, Hash!INVALID
<1>9. ASSUME NEW i \in 1 .. n, s[i] = k PROVE found.storeIndex = i - 1
  <2>1. k # Hash!EMPTY /\ i - 1 >= 0
    <3>1. k # Hash!EMPTY
      BY KeysAssumption, Zenon
    <3>2. i - 1 >= 0
      BY <1>1
    <3>. QED BY <3>1, <3>2
  <2>2. PICK j \in 0 .. c + 13: map[path[j]] = i - 1 /\ \A l \in 0 .. j - 1: map[path[l]] # Hash!INVALID
    <3>1. Reaches(map, k, i - 1, c)
      BY <1>9, <2>1 DEF Indexes
    <3>. QED BY <1>3, <3>1 DEF Reaches
  <2>3. Stops(j)
    <3>1. Hash!At(s, i - 1) = k
      BY <1>9 DEF Hash!At
    <3>. QED BY <2>1, <2>2, <3>1
  <2>4. stop <= j
    <3>1. ~(j \in 0 .. stop - 1)
      BY <1>6, <2>3
    <3>. QED BY <1>1, <1>6, <3>1
  <2>5. map[path[stop]] # Hash!INVALID
    <3>1. CASE stop = j
      BY <2>1, <2>2, <3>1 DEF Hash!INVALID
    <3>2. CASE stop \in 0 .. j - 1
      BY <2>2, <3>2
    <3>. QED BY <1>1, <1>6, <2>4, <3>1, <3>2
  <2>6. map[path[stop]] >= 0 /\ Hash!At(s, map[path[stop]]) = k
    BY <1>6, <2>5
  <2> DEFINE x == map[path[stop]]
  <2>7. x \in 0 .. n - 1 /\ x + 1 \in 1 .. n /\ s[x + 1] = k
    BY <1>7, <1>8, <2>6 DEF Hash!At
  <2> HIDE DEF x
  <2>8. x + 1 = i
    BY <1>9, <2>1, <2>7 DEF AreApart
  <2>9. x = i - 1
    BY <1>1, <2>7, <2>8
  <2>. QED BY <1>4, <2>9 DEF x
<1>10. ASSUME \A i \in 1 .. n: s[i] # k
       PROVE  /\ found.storeIndex = Hash!INVALID
              /\ \E j \in 0 .. c + 13: Slot(map, k, j, c) /\ found.mapIndex = Path(k, c)[j]
  <2>1. map[path[stop]] = Hash!INVALID
    <3>1. ASSUME map[path[stop]] >= 0 /\ Hash!At(s, map[path[stop]]) = k PROVE FALSE
      BY <1>7, <1>8, <1>10, <3>1 DEF Hash!At
    <3>. QED BY <1>6, <3>1
  <2>2. CASE gaps = {}
    <3>1. found.mapIndex = path[stop]
      BY <1>4, <2>2
    <3>2. Slot(map, k, stop, c)
      BY <1>3, <1>6, <1>7, <2>1 DEF Slot
    <3>. QED BY <1>3, <1>4, <1>6, <2>1, <3>1, <3>2
  <2>3. CASE gaps # {}
    <3>1. found.mapIndex = path[lastGap]
      BY <1>4, <2>1, <2>3
    <3>2. lastGap \in gaps
      <4> DEFINE T == {stop - l: l \in gaps}
      <4>1. T # {} /\ T \in SUBSET Nat
        BY <1>1, <1>6, <2>3
      <4>2. PICK d \in T: \A e \in T: d <= e
        BY <4>1, Pool!LeastNumber
      <4>3. PICK j \in gaps: d = stop - j
        BY <4>2
      <4>4. \A l \in gaps: stop - l \in T /\ l \in Nat
        BY <1>1, <1>6
      <4>5. j \in Nat /\ stop \in Nat
        BY <1>1, <1>6, <4>3
      <4> HIDE DEF T, gaps
      <4>6. \A l \in gaps: l <= j
        BY <4>2, <4>3, <4>4, <4>5
      <4>. QED BY <4>3, <4>6
    <3> HIDE DEF lastGap
    <3>3. lastGap \in 0 .. stop - 1 /\ map[path[lastGap]] = Hash!ERASED
      BY <3>2
    <3>4. lastGap \in 0 .. c + 13 /\ \A l \in 0 .. lastGap - 1: l \in 0 .. stop - 1
      BY <1>1, <1>6, <3>3
    <3>5. Slot(map, k, lastGap, c)
      BY <1>3, <1>7, <3>3, <3>4 DEF Slot
    <3>. QED BY <1>3, <1>4, <2>1, <3>1, <3>4, <3>5
  <2>. QED BY <2>2, <2>3
<1>. QED BY <1>9, <1>10 DEF found

-----------------------------------------------------------------------------
(* The steps of the container.                                               *)
LEMMA IndexesAlike ==
  ASSUME NEW map, NEW s, NEW r, NEW c \in Covers, NEW n \in Nat, Indexes(map, s, n, c),
         \A i \in 1 .. n: r[i] = s[i]
  PROVE  Indexes(map, r, n, c)
<1>1. \A x \in {Hash!ERASED, Hash!INVALID} \cup (0 .. n - 1): x >= 0 => x + 1 \in 1 .. n
  BY DEF Hash!ERASED, Hash!INVALID
<1>2. \A x \in 0 .. c - 1: map[x] \in {Hash!ERASED, Hash!INVALID} \cup (0 .. n - 1)
  BY DEF Indexes
<1>3. \A x \in 0 .. c - 1: map[x] >= 0 => r[map[x] + 1] # Hash!EMPTY
  BY <1>1, <1>2 DEF Indexes
<1>4. \A i \in 1 .. n: r[i] # Hash!EMPTY => Reaches(map, r[i], i - 1, c)
  BY DEF Indexes
<1>. QED BY <1>3, <1>4 DEF Indexes

LEMMA PlaceErased ==
  ASSUME NEW map, NEW s \in Seq(Slots), NEW c \in Covers, Indexes(map, s, Len(s), c),
         NEW p \in 1 .. Len(s), NEW m \in 0 .. c - 1, map[m] = p - 1
  PROVE  Indexes([map EXCEPT ![m] = Hash!ERASED], [s EXCEPT ![p] = Hash!EMPTY], Len(s), c)
<1> DEFINE n == Len(s)
           new == [map EXCEPT ![m] = Hash!ERASED]
           r == [s EXCEPT ![p] = Hash!EMPTY]
           F == {x \in 0 .. c - 1: map[x] # Hash!INVALID}
           G == {x \in 0 .. c - 1: new[x] # Hash!INVALID}
<1>1. c \in Nat /\ n \in Nat /\ p - 1 >= 0 /\ p \in 1 .. n
  BY CoverTypes
<1>2. map \in [0 .. c - 1 -> {Hash!ERASED, Hash!INVALID} \cup (0 .. n - 1)]
  BY DEF Indexes
<1>3. /\ new[m] = Hash!ERASED /\ new \in [0 .. c - 1 -> {Hash!ERASED, Hash!INVALID} \cup (0 .. n - 1)]
      /\ \A x \in 0 .. c - 1: x # m => new[x] = map[x]
  BY <1>2
<1>4. r[p] = Hash!EMPTY /\ \A i \in 1 .. n: i # p => r[i] = s[i]
  BY <1>1
<1>5. ~(Hash!ERASED >= 0) /\ Hash!ERASED # Hash!INVALID /\ map[m] # Hash!INVALID
  BY <1>1 DEF Hash!ERASED, Hash!INVALID
<1>6. \A x \in 0 .. c - 1: new[x] >= 0 => x # m /\ map[x] = new[x] /\ map[x] # p - 1
  <2>1. \A x \in 0 .. c - 1: new[x] >= 0 => x # m /\ map[x] = new[x]
    BY <1>3, <1>5
  <2>2. \A x \in 0 .. c - 1: map[x] = p - 1 => x = m
    BY <1>1 DEF Indexes
  <2>. QED BY <2>1, <2>2
<1> HIDE DEF new, r
<1>7. \A x \in {Hash!ERASED, Hash!INVALID} \cup (0 .. n - 1):
        x >= 0 /\ x # p - 1 => x + 1 \in 1 .. n /\ x + 1 # p
  BY <1>1 DEF Hash!ERASED, Hash!INVALID
<1>8. \A x \in 0 .. c - 1: new[x] >= 0 => r[new[x] + 1] # Hash!EMPTY
  BY <1>2, <1>4, <1>6, <1>7 DEF Indexes
<1>9. \A x, y \in 0 .. c - 1: new[x] >= 0 /\ new[x] = new[y] => x = y
  BY <1>6 DEF Indexes
<1>10. ASSUME NEW i \in 1 .. n, r[i] # Hash!EMPTY PROVE Reaches(new, r[i], i - 1, c)
  <2>1. i # p /\ r[i] = s[i] /\ i - 1 # p - 1
    BY <1>1, <1>4, <1>10
  <2> DEFINE q == s[i]
  <2>2. q \in Keys /\ Reaches(map, q, i - 1, c)
    BY <1>10, <2>1 DEF Indexes, Slots
  <2> HIDE DEF q
  <2>3. PICK h \in 0 .. c + 13: /\ map[Path(q, c)[h]] = i - 1
                               /\ \A l \in 0 .. h - 1: map[Path(q, c)[l]] # Hash!INVALID
    BY <2>2 DEF Reaches
  <2>4. \A l \in 0 .. h: l \in 0 .. c + 13 /\ Path(q, c)[l] \in 0 .. c - 1
    <3>1. \A l \in 0 .. h: l \in 0 .. c + 13
      BY <1>1
    <3>. QED BY <2>2, <3>1, PathTypes
  <2>5. Path(q, c)[h] \in 0 .. c - 1
    BY <2>2, PathTypes
  <2>6. new[Path(q, c)[h]] = i - 1
    BY <1>3, <2>1, <2>3, <2>5
  <2>7. \A l \in 0 .. h - 1: new[Path(q, c)[l]] # Hash!INVALID
    <3>1. \A l \in 0 .. h - 1: l \in 0 .. h
      BY <1>1
    <3>. QED BY <1>3, <1>5, <2>3, <2>4, <3>1
  <2>. QED BY <2>1, <2>6, <2>7 DEF Reaches, q
<1>11. G = F
  BY <1>3, <1>5
<1>12. Cardinality(G) <= n
  <2> HIDE DEF G
  <2>1. Cardinality(F) <= n
    BY DEF Indexes
  <2>. QED BY <1>11, <2>1
<1>. QED BY <1>3, <1>8, <1>9, <1>10, <1>12 DEF Indexes, new, r

LEMMA StoreGrown ==
  ASSUME storeSize \in Nat, NEW size \in 1 .. (2 ^ 29 + 1)
  PROVE  LET n == Hash!NewStoreSize(size)
         IN n \in Nat /\ (n = 0 => storeSize >= size) /\ (n > 0 => n >= size)
<1> DEFINE m == Hash!Larger(size, Hash!START_PRIME)
           p == Hash!MostSignificant(m)
           n == Hash!NewStoreSize(size)
<1>1. 2 ^ 29 = 536870912 /\ 2 ^ 31 = 2147483648
  OBVIOUS
<1>2. size \in Nat /\ size >= 1
  BY <1>1, SMT
<1>3. m \in 1 .. (2 ^ 31 - 1) /\ m >= size
  BY <1>1, SMT DEF Hash!Larger, Hash!START_PRIME
<1> HIDE DEF m
<1>4. p \in Nat /\ p <= m /\ m < 2 * p
  BY <1>3, Bits
<1>5. m \in Nat
  BY <1>1, <1>3, SMT
<1> HIDE DEF p
<1>6. n = IF storeSize >= size THEN 0 ELSE IF p < size THEN 2 * p ELSE p
  BY DEF Hash!NewStoreSize, p, m
<1> HIDE DEF n
<1>7. m >= size
  BY <1>3
<1>8. n \in Nat /\ (n = 0 => storeSize >= size) /\ (n > 0 => n >= size)
  BY <1>2, <1>4, <1>5, <1>6, <1>7
<1>. QED BY <1>8 DEF n

LEMMA CoverGrown ==
  ASSUME NEW c \in Covers \cup {0}, DOMAIN indexMap = 0 .. c - 1,
         NEW size \in (1 .. MaxStore) \cup Sizes
  PROVE  LET n == Hash!NewCover(size)
         IN /\ n \in Nat
            /\ n = 0 => 3 * size <= 2 * c /\ c \in Covers
            /\ n > 0 => n \in Covers /\ 3 * size <= 2 * n /\ n > c
<1> DEFINE n == Hash!NewCover(size)
           new == 2 * Hash!MostSignificant((Hash!Larger(size, Hash!START_PRIME) * 3) \div 2 + 1)
<1>1. c \in Nat
  BY CoverTypes
<1>2. new \in Covers
  BY DEF Covers
<1>3. size \in 1 .. 2 ^ 29
  BY SizesAreSmall
<1>4. new \in Nat /\ new > 0 /\ 3 * size <= 2 * new
  BY <1>3, CoverOf
<1>5. size \in Nat /\ size >= 1
  <2>1. 2 ^ 29 = 536870912
    OBVIOUS
  <2>. QED BY <1>3, <2>1, SMT
<1> HIDE DEF new
<1>6. n = IF size <= (c * 2) \div 3 THEN 0 ELSE new
  <2>1. Hash!Cover(indexMap) = c
    BY <1>1, CoverOfMap
  <2>. QED BY <2>1 DEF Hash!NewCover, new
<1> HIDE DEF n
<1>7. CASE size <= (c * 2) \div 3
  <2>1. 3 * size <= 2 * c /\ c > 0
    BY <1>1, <1>5, <1>7
  <2>2. n = 0 /\ c \in Covers
    BY <1>6, <1>7, <2>1
  <2>. QED BY <2>1, <2>2 DEF n
<1>8. CASE ~(size <= (c * 2) \div 3)
  <2>1. 3 * size > 2 * c
    BY <1>1, <1>5, <1>8
  <2>2. n = new /\ n > c /\ n # 0
    BY <1>1, <1>4, <1>5, <1>6, <1>8, <2>1
  <2>. QED BY <1>2, <1>4, <2>2 DEF n
<1>. QED BY <1>7, <1>8

IsIndexed(map, s) ==
  \E c \in Covers \cup {0}: 3 * Len(s) <= 2 * c /\ Indexes(map, s, Len(s), c)

HashInv ==
  /\ store \in Seq(Slots) /\ AreApart(store)
  /\ storeSize \in 0 .. MaxStore /\ Len(store) <= storeSize
  /\ inserted = Hash!Compacted(store)
  /\ IsIndexed(indexMap, store)

LEMMA Finding ==
  ASSUME HashInv, NEW k \in Keys
  PROVE  /\ \A i \in 1 .. Len(store): store[i] = k => Hash!Find(k) = i - 1
         /\ (\A i \in 1 .. Len(store): store[i] # k) => Hash!Find(k) = Hash!INVALID
<1>1. PICK c \in Covers \cup {0}: 3 * Len(store) <= 2 * c /\ Indexes(indexMap, store, Len(store), c)
  BY DEF HashInv, IsIndexed
<1>2. c \in Nat /\ DOMAIN indexMap = 0 .. c - 1
  BY <1>1, CoverTypes DEF Indexes
<1>3. Len(store) \in Nat /\ store \in Seq(Slots) /\ AreApart(store)
  BY DEF HashInv
<1>4. CASE c = 0
  <2>1. Len(store) = 0 /\ DOMAIN indexMap = {}
    BY <1>1, <1>2, <1>3, <1>4
  <2>2. Hash!Find(k) = Hash!INVALID
    BY <2>1 DEF Hash!Find
  <2>. QED BY <2>1, <2>2
<1>5. CASE c # 0
  <2>1. c \in Covers /\ Len(store) < c
    BY <1>1, <1>2, <1>3, <1>5
  <2>2. DOMAIN indexMap # {}
    <3>1. 0 \in DOMAIN indexMap
      BY <1>2, <1>5
    <3>. QED BY <3>1
  <2>3. Hash!Find(k) = Hash!Found(k, store, indexMap).storeIndex
    BY <2>2 DEF Hash!Find
  <2>. QED BY <1>1, <1>3, <2>1, <2>3, FoundAt
<1>. QED BY <1>4, <1>5

LEMMA StoreBound == MaxStore \in Nat /\ MaxStore <= 2 ^ 29
<1>1. 2 ^ 29 = 536870912
  OBVIOUS
<1>2. MaxStore \in 0 .. 2 ^ 29
  BY KeysAssumption
<1>. QED BY <1>1, <1>2, SMT

LEMMA HashStart == ASSUME Hash!Init PROVE HashInv
<1>1. store = <<>> /\ storeSize = 0 /\ inserted = <<>> /\ Len(store) = 0
  BY DEF Hash!Init
<1>2. store \in Seq(Slots) /\ AreApart(store)
  BY <1>1 DEF AreApart
<1>3. inserted = Hash!Compacted(store)
  <2>1. <<>> \in Seq(Keys)
    OBVIOUS
  <2>. QED BY <1>1, <2>1, CompactedFull
<1>4. storeSize \in 0 .. MaxStore /\ Len(store) <= storeSize
  <2>1. 0 \in 0 .. MaxStore
    BY StoreBound
  <2>. QED BY <1>1, <2>1
<1>5. indexMap = Unused(0)
  <2>1. 0 .. 0 - 1 = {}
    OBVIOUS
  <2>. QED BY <2>1 DEF Hash!Init, Unused
<1>6. IsIndexed(indexMap, store)
  <2>1. Indexes(indexMap, store, 0, 0)
    BY <1>5, NothingIndexed
  <2>2. 3 * Len(store) <= 2 * 0
    BY <1>1
  <2>. QED BY <1>1, <2>1, <2>2 DEF IsIndexed
<1>. QED BY <1>2, <1>3, <1>4, <1>6 DEF HashInv

(* What is left after the gaps are taken out.                                *)
LEMMA Compacting ==
  ASSUME HashInv
  PROVE  LET r == Hash!Compacted(store)
         IN /\ r \in Seq(Keys) /\ r \in Seq(Slots) /\ AreApart(r)
            /\ Len(r) \in Nat /\ Len(r) <= Len(store)
            /\ Hash!Compacted(r) = r
            /\ \A k \in Keys: In(k, r) <=> In(k, store)
<1> DEFINE r == Hash!Compacted(store)
<1>1. store \in Seq(Slots) /\ AreApart(store) /\ Len(store) \in Nat
  BY DEF HashInv
<1>2. HasValues(r, store, Len(store)) /\ IsOnce(r)
  BY <1>1, CompactedValues, CompactedOnce
<1> HIDE DEF r
<1>3. r \in Seq(Keys) /\ Len(r) \in Nat /\ Len(r) <= Len(store)
  BY <1>2 DEF HasValues
<1>4. r \in Seq(Slots)
  BY <1>3 DEF Slots
<1>5. AreApart(r)
  BY <1>2 DEF AreApart, IsOnce
<1>6. Hash!Compacted(r) = r
  BY <1>3, CompactedFull
<1>7. ASSUME NEW k \in Keys PROVE In(k, r) <=> In(k, store)
  <2>1. k # Hash!EMPTY
    BY KeysAssumption, Zenon
  <2>. QED BY <1>2, <2>1 DEF In, HasValues
<1>. QED BY <1>3, <1>4, <1>5, <1>6, <1>7 DEF r

LEMMA HashInserts == ASSUME HashInv, NEW k \in Keys, Hash!Insert(k) PROVE HashInv'
<1> DEFINE next == Len(store)
           newSize == Hash!NewStoreSize(next + 1)
           kept == IF newSize > 0 THEN Hash!Compacted(store) ELSE store
           newCover == Hash!NewCover(next + 1)
           cover == Hash!Larger(newCover, Hash!Cover(indexMap))
           map == IF newSize > 0 \/ newCover > 0 THEN Hash!RebuiltIndex(kept, cover) ELSE indexMap
           n == Len(kept)
           s == Append(kept, k)
<1>1. /\ Hash!Find(k) = Hash!INVALID /\ newSize <= MaxStore
      /\ storeSize' = Hash!Larger(newSize, storeSize) /\ store' = s
      /\ indexMap' = [map EXCEPT ![Hash!Found(k, kept, map).mapIndex] = n]
      /\ inserted' = Append(inserted, k)
  BY DEF Hash!Insert
<1>2. store \in Seq(Slots) /\ AreApart(store) /\ next \in Nat /\ k # Hash!EMPTY
  <2>1. k # Hash!EMPTY
    BY KeysAssumption, Zenon
  <2>. QED BY <2>1 DEF HashInv
<1>3. MaxStore \in Nat /\ MaxStore <= 2 ^ 29 /\ storeSize \in Nat /\ storeSize <= MaxStore /\ next <= storeSize
  BY StoreBound DEF HashInv
<1>4. ~In(k, store)
  <2>1. \A i \in 1 .. next: store[i] # k
    <3>1. \A i \in 1 .. next: i - 1 # Hash!INVALID
      BY <1>2 DEF Hash!INVALID
    <3>. QED BY <1>1, <3>1, Finding
  <2>. QED BY <2>1 DEF In
<1>5. newSize \in Nat /\ (newSize = 0 => storeSize >= next + 1) /\ (newSize > 0 => newSize >= next + 1)
  <2>1. next + 1 \in 1 .. (2 ^ 29 + 1)
    <3>1. 2 ^ 29 = 536870912
      OBVIOUS
    <3>. QED BY <1>2, <1>3, <3>1, SMT
  <2>. QED BY <1>3, <2>1, StoreGrown
<1>6. storeSize' \in 0 .. MaxStore /\ next + 1 <= storeSize'
  BY <1>1, <1>2, <1>3, <1>5 DEF Hash!Larger
<1>7. next + 1 \in 1 .. MaxStore
  BY <1>2, <1>3, <1>6
<1> HIDE DEF newSize
<1>8. kept \in Seq(Slots) /\ AreApart(kept) /\ n \in Nat /\ n <= next /\ ~In(k, kept)
      /\ Hash!Compacted(kept) = inserted
  <2>1. CASE newSize > 0
    <3>1. kept = Hash!Compacted(store)
      BY <2>1
    <3> HIDE DEF kept
    <3>. QED BY <1>4, <3>1, Compacting DEF HashInv
  <2>2. CASE ~(newSize > 0)
    <3>1. kept = store
      BY <2>2
    <3> HIDE DEF kept
    <3>. QED BY <1>2, <1>4, <3>1 DEF HashInv
  <2>. QED BY <2>1, <2>2
<1>9. PICK c \in Covers \cup {0}: 3 * next <= 2 * c /\ Indexes(indexMap, store, next, c)
  BY DEF HashInv, IsIndexed
<1>10. c \in Nat /\ DOMAIN indexMap = 0 .. c - 1 /\ Hash!Cover(indexMap) = c
  <2>1. c \in Nat /\ DOMAIN indexMap = 0 .. c - 1
    BY <1>9, CoverTypes DEF Indexes
  <2>. QED BY <2>1, CoverOfMap
<1>11. /\ newCover \in Nat
       /\ newCover = 0 => 3 * (next + 1) <= 2 * c /\ c \in Covers
       /\ newCover > 0 => newCover \in Covers /\ 3 * (next + 1) <= 2 * newCover /\ newCover > c
  BY <1>7, <1>10, CoverGrown
<1> HIDE DEF newCover, kept, next
<1>12. cover \in Covers /\ 3 * (next + 1) <= 2 * cover /\ (newCover = 0 => cover = c)
  <2>1. cover = IF newCover > c THEN newCover ELSE c
    BY <1>10 DEF Hash!Larger
  <2> HIDE DEF cover
  <2>. QED BY <1>10, <1>11, <2>1
<1> HIDE DEF cover
<1>13. cover \in Nat /\ n < cover /\ 3 * (n + 1) <= 2 * cover
  BY <1>2, <1>8, <1>12, CoverTypes
<1>14. Indexes(map, kept, n, cover)
  <2>1. CASE newSize > 0 \/ newCover > 0
    <3>1. map = Hash!RebuiltIndex(kept, cover)
      BY <2>1
    <3>. QED BY <1>8, <1>12, <1>13, <3>1, Rebuilt
  <2>2. CASE ~(newSize > 0 \/ newCover > 0)
    <3>1. map = indexMap /\ kept = store /\ newCover = 0
      BY <1>11, <2>2 DEF kept
    <3>. QED BY <1>9, <1>12, <3>1 DEF next
  <2>. QED BY <2>1, <2>2
<1> HIDE DEF map
<1>15. PICK j \in 0 .. cover + 13:
         Slot(map, k, j, cover) /\ Hash!Found(k, kept, map).mapIndex = Path(k, cover)[j]
  <2>1. \A i \in 1 .. n: kept[i] # k
    BY <1>8 DEF In
  <2>. QED BY <1>8, <1>12, <1>13, <1>14, <2>1, FoundAt
<1>16. s \in Seq(Slots) /\ Len(s) = n + 1 /\ s[n + 1] = k /\ \A i \in 1 .. n: s[i] = kept[i]
  BY <1>8 DEF Slots
<1> HIDE DEF s
<1>17. Indexes(indexMap', s, n + 1, cover)
  <2>1. Indexes(map, s, n, cover)
    BY <1>8, <1>12, <1>14, <1>16, IndexesAlike
  <2>2. indexMap' = [map EXCEPT ![Path(s[n + 1], cover)[j]] = n]
    BY <1>1, <1>15, <1>16
  <2>3. n \in 0 .. Len(s) - 1 /\ s[n + 1] \in Keys
    BY <1>8, <1>16
  <2>4. /\ map[Path(s[n + 1], cover)[j]] \in {Hash!ERASED, Hash!INVALID}
        /\ \A l \in 0 .. j - 1: map[Path(s[n + 1], cover)[l]] # Hash!INVALID
    BY <1>15, <1>16 DEF Slot
  <2> HIDE DEF n
  <2>. QED BY <1>12, <1>16, <2>1, <2>2, <2>3, <2>4, PlaceAdded
<1>18. IsIndexed(indexMap', s)
  BY <1>12, <1>13, <1>16, <1>17 DEF IsIndexed
<1>19. AreApart(s)
  <2>1. \A i \in 1 .. n: kept[i] # k
    BY <1>8 DEF In
  <2>. QED BY <1>8, <1>16, <2>1 DEF AreApart
<1>20. Hash!Compacted(s) = inserted'
  BY <1>1, <1>8, CompactedAppend DEF s
<1>21. Len(s) <= storeSize'
  BY <1>2, <1>3, <1>6, <1>8, <1>16
<1>. QED BY <1>1, <1>6, <1>16, <1>18, <1>19, <1>20, <1>21 DEF HashInv

LEMMA HashErases == ASSUME HashInv, NEW k \in Keys, Hash!Erase(k) PROVE HashInv'
<1> DEFINE n == Len(store)
           path == Hash!Probe(HashOf[k], Hash!Cover(indexMap))
           slot == CHOOSE i \in DOMAIN path:
                     /\ indexMap[path[i]] = Hash!Find(k)
                     /\ \A j \in 0 .. i - 1: indexMap[path[j]] # Hash!Find(k)
           m == path[slot]
           f == Hash!Find(k)
<1>1. /\ f # Hash!INVALID
      /\ indexMap' = [indexMap EXCEPT ![m] = Hash!ERASED]
      /\ store' = [store EXCEPT ![f + 1] = Hash!EMPTY]
      /\ inserted' = Hash!RemoveAt(inserted, CHOOSE i \in DOMAIN inserted: inserted[i] = k)
      /\ storeSize' = storeSize
  BY Zenon DEF Hash!Erase
<1>2. store \in Seq(Slots) /\ AreApart(store) /\ n \in Nat /\ k # Hash!EMPTY
      /\ inserted = Hash!Compacted(store)
  <2>1. k # Hash!EMPTY
    BY KeysAssumption, Zenon
  <2>. QED BY <2>1 DEF HashInv
<1>3. PICK p \in 1 .. n: store[p] = k /\ f = p - 1
  <2>1. PICK p \in 1 .. n: store[p] = k
    BY <1>1, Finding
  <2>2. f = p - 1
    BY <2>1, Finding
  <2>. QED BY <2>1, <2>2
<1>4. f + 1 = p
  BY <1>2, <1>3
<1>5. PICK c \in Covers \cup {0}: 3 * n <= 2 * c /\ Indexes(indexMap, store, n, c)
  BY DEF HashInv, IsIndexed
<1>6. c \in Nat /\ DOMAIN indexMap = 0 .. c - 1 /\ Hash!Cover(indexMap) = c
  <2>1. c \in Nat /\ DOMAIN indexMap = 0 .. c - 1
    BY <1>5, CoverTypes DEF Indexes
  <2>. QED BY <2>1, CoverOfMap
<1>7. c \in Covers
  <2>1. c # 0
    BY <1>2, <1>3, <1>5, <1>6
  <2>. QED BY <2>1
<1>8. path = Path(k, c)
  BY <1>6 DEF Path
<1> HIDE DEF path, f
<1>9. DOMAIN path = 0 .. c + 13 /\ \A i \in 0 .. c + 13: path[i] \in 0 .. c - 1
  BY <1>7, <1>8, PathTypes
<1>10. indexMap[m] = f /\ m \in 0 .. c - 1
  <2> DEFINE Hits(i) == indexMap[path[i]] = f
             T == {i \in 0 .. c + 13: Hits(i)}
  <2>1. T # {} /\ T \in SUBSET Nat
    <3>1. Reaches(indexMap, k, p - 1, c)
      BY <1>2, <1>3, <1>5 DEF Indexes
    <3>2. PICK j \in 0 .. c + 13: indexMap[path[j]] = f
      BY <1>3, <1>8, <3>1 DEF Reaches
    <3>. QED BY <1>6, <3>2
  <2>2. PICK i \in T: \A j \in T: i <= j
    BY <2>1, Pool!LeastNumber
  <2>3. i \in 0 .. c + 13 /\ Hits(i)
    BY <2>2
  <2>4. \A j \in 0 .. i - 1: ~Hits(j)
    <3>1. \A j \in 0 .. i - 1: j \in 0 .. c + 13 /\ ~(i <= j)
      BY <1>6, <2>3
    <3> HIDE DEF Hits
    <3>. QED BY <2>2, <3>1
  <2>5. \E e \in DOMAIN path: indexMap[path[e]] = f /\ \A j \in 0 .. e - 1: indexMap[path[j]] # f
    BY <1>9, <2>3, <2>4
  <2>6. slot \in DOMAIN path /\ indexMap[path[slot]] = f
    BY <2>5 DEF f
  <2> HIDE DEF slot
  <2>. QED BY <1>9, <2>6
<1> HIDE DEF m
<1>11. Indexes(indexMap', store', n, c)
  <2>1. store' = [store EXCEPT ![p] = Hash!EMPTY]
    BY <1>1, <1>4
  <2>2. indexMap[m] = p - 1 /\ m \in 0 .. c - 1
    BY <1>3, <1>10
  <2>3. Indexes([indexMap EXCEPT ![m] = Hash!ERASED], [store EXCEPT ![p] = Hash!EMPTY], n, c)
    BY <1>2, <1>5, <1>7, <2>2, PlaceErased
  <2>. QED BY <1>1, <2>1, <2>3
<1>12. /\ store' \in Seq(Slots) /\ Len(store') = n /\ store'[p] = Hash!EMPTY
       /\ \A i \in 1 .. n: i # p => store'[i] = store[i]
  BY <1>1, <1>2, <1>3, <1>4 DEF Slots
<1>13. AreApart(store')
  BY <1>2, <1>3, <1>12 DEF AreApart
<1>14. inserted' = Hash!Compacted(store')
  <2>1. store' = [store EXCEPT ![p] = Hash!EMPTY]
    BY <1>1, <1>4
  <2> DEFINE e == Hash!Compacted(store)
  <2>2. Hash!Compacted([store EXCEPT ![p] = Hash!EMPTY])
        = Hash!RemoveAt(e, CHOOSE i \in DOMAIN e: e[i] = k)
    BY <1>2, <1>3, CompactedErased
  <2>3. inserted = e
    BY <1>2
  <2> HIDE DEF e
  <2>. QED BY <1>1, <2>1, <2>2, <2>3, Zenon
<1>15. IsIndexed(indexMap', store')
  BY <1>5, <1>11, <1>12 DEF IsIndexed
<1>16. storeSize' \in 0 .. MaxStore /\ Len(store') <= storeSize'
  BY <1>1, <1>12 DEF HashInv
<1>. QED BY <1>12, <1>13, <1>14, <1>15, <1>16 DEF HashInv

LEMMA HashCompacts == ASSUME HashInv, Hash!Compact PROVE HashInv'
<1> DEFINE r == Hash!Compacted(store)
<1>1. /\ store' = r /\ indexMap' = Hash!RebuiltIndex(r, Hash!Cover(indexMap))
      /\ storeSize' = storeSize /\ inserted' = inserted
  BY DEF Hash!Compact
<1>2. r \in Seq(Keys) /\ r \in Seq(Slots) /\ AreApart(r) /\ Len(r) \in Nat /\ Len(r) <= Len(store)
      /\ Hash!Compacted(r) = r
  BY Compacting
<1>3. Len(store) \in Nat /\ storeSize \in 0 .. MaxStore /\ Len(store) <= storeSize /\ inserted = r
      /\ MaxStore \in Nat
  BY StoreBound DEF HashInv
<1> HIDE DEF r
<1>4. PICK c \in Covers \cup {0}: 3 * Len(store) <= 2 * c /\ Indexes(indexMap, store, Len(store), c)
  BY DEF HashInv, IsIndexed
<1>5. c \in Nat /\ Hash!Cover(indexMap) = c
  <2>1. c \in Nat /\ DOMAIN indexMap = 0 .. c - 1
    BY <1>4, CoverTypes DEF Indexes
  <2>. QED BY <2>1, CoverOfMap
<1>6. 3 * Len(r) <= 2 * c
  BY <1>2, <1>3, <1>4, <1>5
<1>7. Indexes(indexMap', r, Len(r), c)
  <2>1. CASE c = 0
    <3>1. Len(r) = 0
      BY <1>2, <1>6, <2>1
    <3>2. PICK w: Places(w, r, 0) /\ Hash!RebuiltIndex(r, 0) = w[Len(r)]
      BY <1>2, Placing
    <3>3. indexMap' = Unused(0)
      BY <1>1, <1>5, <2>1, <3>1, <3>2 DEF Places
    <3>. QED BY <2>1, <3>1, <3>3, NothingIndexed
  <2>2. CASE c # 0
    <3>1. c \in Covers /\ Len(r) < c
      BY <1>2, <1>5, <1>6, <2>2
    <3>. QED BY <1>1, <1>2, <1>5, <3>1, Rebuilt
  <2>. QED BY <2>1, <2>2
<1>8. IsIndexed(indexMap', r)
  BY <1>6, <1>7 DEF IsIndexed
<1>9. Len(r) <= storeSize
  BY <1>2, <1>3
<1>. QED BY <1>1, <1>2, <1>3, <1>8, <1>9 DEF HashInv

LEMMA HashResizes == ASSUME HashInv, NEW size \in Sizes, Hash!Resize(size) PROVE HashInv'
<1> DEFINE cover == Hash!NewCover(size)
<1>1. /\ cover > 0 /\ indexMap' = Hash!RebuiltIndex(store, cover)
      /\ store' = store /\ storeSize' = storeSize /\ inserted' = inserted
  BY DEF Hash!Resize
<1>2. store \in Seq(Slots) /\ Len(store) \in Nat
  BY DEF HashInv
<1>3. PICK c \in Covers \cup {0}: 3 * Len(store) <= 2 * c /\ Indexes(indexMap, store, Len(store), c)
  BY DEF HashInv, IsIndexed
<1>4. c \in Nat /\ DOMAIN indexMap = 0 .. c - 1
  BY <1>3, CoverTypes DEF Indexes
<1>5. cover \in Covers /\ cover > c
  BY <1>1, <1>4, CoverGrown
<1> HIDE DEF cover
<1>6. cover \in Nat /\ 3 * Len(store) <= 2 * cover /\ Len(store) < cover
  BY <1>2, <1>3, <1>4, <1>5, CoverTypes
<1>7. Indexes(indexMap', store, Len(store), cover)
  BY <1>1, <1>2, <1>5, <1>6, Rebuilt
<1>8. IsIndexed(indexMap', store)
  BY <1>5, <1>6, <1>7 DEF IsIndexed
<1>. QED BY <1>1, <1>8 DEF HashInv

LEMMA HashClears == ASSUME HashInv, Hash!Clear PROVE HashInv'
<1>1. /\ store' = <<>> /\ indexMap' = [i \in DOMAIN indexMap |-> Hash!INVALID]
      /\ inserted' = <<>> /\ storeSize' = storeSize /\ Len(store') = 0
  BY DEF Hash!Clear
<1>2. PICK c \in Covers \cup {0}: 3 * Len(store) <= 2 * c /\ Indexes(indexMap, store, Len(store), c)
  BY DEF HashInv, IsIndexed
<1>3. c \in Nat /\ DOMAIN indexMap = 0 .. c - 1
  BY <1>2, CoverTypes DEF Indexes
<1>4. indexMap' = Unused(c)
  BY <1>1, <1>3 DEF Unused
<1>5. IsIndexed(indexMap', store')
  <2>1. Indexes(indexMap', store', 0, c)
    BY <1>3, <1>4, NothingIndexed
  <2>2. 3 * Len(store') <= 2 * c
    BY <1>1, <1>3
  <2>. QED BY <1>1, <2>1, <2>2 DEF IsIndexed
<1>6. store' \in Seq(Slots) /\ AreApart(store')
  BY <1>1 DEF AreApart
<1>7. inserted' = Hash!Compacted(store')
  <2>1. <<>> \in Seq(Keys)
    OBVIOUS
  <2>. QED BY <1>1, <2>1, CompactedFull
<1>8. storeSize' \in 0 .. MaxStore /\ Len(store') <= storeSize'
  BY <1>1, StoreBound DEF HashInv
<1>. QED BY <1>5, <1>6, <1>7, <1>8 DEF HashInv

LEMMA HashSteps == ASSUME HashInv, [Hash!Next]_hashVars PROVE HashInv'
<1>1. ASSUME NEW k \in Keys, Hash!Insert(k) PROVE HashInv'
  BY <1>1, HashInserts
<1>2. ASSUME NEW k \in Keys, Hash!Erase(k) PROVE HashInv'
  BY <1>2, HashErases
<1>3. CASE Hash!Compact
  BY <1>3, HashCompacts
<1>4. CASE Hash!Clear
  BY <1>4, HashClears
<1>5. ASSUME NEW size \in Sizes, Hash!Resize(size) PROVE HashInv'
  BY <1>5, HashResizes
<1>6. CASE UNCHANGED hashVars
  BY <1>6 DEF hashVars, HashInv
<1>. QED BY <1>1, <1>2, <1>3, <1>4, <1>5, <1>6 DEF Hash!Next

LEMMA HashIsRight ==
  ASSUME HashInv
  PROVE  Hash!TypeOK /\ Hash!LookupIsRight /\ Hash!OrderIsKept /\ Hash!ProbeEnds
<1>1. store \in Seq(Slots) /\ inserted = Hash!Compacted(store)
  BY DEF HashInv
<1>2. PICK c \in Covers \cup {0}: 3 * Len(store) <= 2 * c /\ Indexes(indexMap, store, Len(store), c)
  BY DEF HashInv, IsIndexed
<1>3. c \in Nat /\ DOMAIN indexMap = 0 .. c - 1
  BY <1>2, CoverTypes DEF Indexes
<1>4. inserted \in Seq(Keys) /\ \A k \in Keys: In(k, inserted) <=> In(k, store)
  BY <1>1, Compacting
<1>5. Hash!TypeOK
  <2>1. indexMap \in [DOMAIN indexMap -> {Hash!ERASED, Hash!INVALID} \cup (0 .. Len(store) - 1)]
    BY <1>2, <1>3 DEF Indexes
  <2>. QED BY <1>4, <2>1 DEF Hash!TypeOK, HashInv, Slots
<1>6. Hash!LookupIsRight
  <2> SUFFICES ASSUME NEW k \in Keys
               PROVE  IF k \in Hash!Range(inserted)
                      THEN Hash!Find(k) >= 0 /\ Hash!At(store, Hash!Find(k)) = k
                      ELSE Hash!Find(k) = Hash!INVALID
    BY DEF Hash!LookupIsRight
  <2>1. k \in Hash!Range(inserted) <=> In(k, inserted)
    BY <1>4 DEF Hash!Range, In
  <2>2. CASE In(k, store)
    <3>1. PICK i \in 1 .. Len(store): store[i] = k
      BY <2>2 DEF In
    <3>2. Hash!Find(k) = i - 1
      BY <3>1, Finding
    <3>3. i - 1 >= 0 /\ (i - 1) + 1 = i
      BY <1>1
    <3>4. Hash!At(store, Hash!Find(k)) = k
      BY <3>1, <3>2, <3>3 DEF Hash!At
    <3>. QED BY <1>4, <2>1, <2>2, <3>2, <3>3, <3>4
  <2>3. CASE ~In(k, store)
    <3>1. Hash!Find(k) = Hash!INVALID
      BY <2>3, Finding DEF In
    <3>. QED BY <1>4, <2>1, <2>3, <3>1
  <2>. QED BY <2>2, <2>3
<1>7. Hash!ProbeEnds
  <2>1. CASE c = 0
    BY <1>3, <2>1 DEF Hash!ProbeEnds
  <2>2. CASE c # 0
    <3>1. c \in Covers /\ Len(store) \in 0 .. c - 1
      BY <1>1, <1>2, <1>3, <2>2
    <3>. QED BY <1>2, <1>3, <3>1, UnusedLeft DEF Hash!ProbeEnds
  <2>. QED BY <2>1, <2>2
<1>. QED BY <1>1, <1>5, <1>6, <1>7 DEF Hash!OrderIsKept

-----------------------------------------------------------------------------
(* A cache of any size, with any keys, has the entries that were asked for   *)
(* last, though fetchers obtain others; a stream in memory gives what was    *)
(* written to it; a buffered stream, with a buffer of any size and any       *)
(* input, loses and repeats nothing in either direction; and a container of  *)
(* any keys, whatever their hashes, finds what is in it and nothing else, in *)
(* the order of insertion.                                                   *)
THEOREM ValuesCorrect == ValuesSpec => []ValuesAreKept
<1>1. Cache!Spec => []Cache!EntriesAreRecent
  BY CacheInitInv, CacheNextInv, CacheEntries, PTL DEF Cache!Spec
<1>2. Memory!Spec => []Memory!UnreadIsKept
  BY MemoryInit, MemoryNextInv, UnreadKept, PTL DEF Memory!Spec
<1>3. StreamInv /\ [Stream!Next]_(Stream!streamVars) => StreamInv'
  BY StreamNextInv DEF streamVars, Stream!streamVars
<1>4. Stream!Spec => [](/\ Stream!InputIsKept /\ Stream!OutputIsKept
                       /\ Stream!NothingIsHeldBack /\ Stream!BadIsAtTheEnd)
  BY StreamInit, StreamKept, <1>3, PTL DEF Stream!Spec
<1>5. HashInv /\ [Hash!Next]_(Hash!hashVars) => HashInv'
  BY HashSteps DEF hashVars, Hash!hashVars
<1>6. Hash!Spec => [](Hash!LookupIsRight /\ Hash!OrderIsKept /\ Hash!ProbeEnds)
  BY HashStart, HashIsRight, <1>5, PTL DEF Hash!Spec
<1>. QED BY <1>1, <1>2, <1>4, <1>6, PTL DEF ValuesSpec, ValuesAreKept

(* Every message that is read ends where it was asked to, whatever the sizes *)
(* of the pieces and of the buffer are.                                      *)
THEOREM MessagesCorrect == ValuesSpec => MessagesEnd
<1>1. Stream!Spec => []StreamInv
  BY StreamInit, StreamNextInv, PTL DEF Stream!Spec, streamVars, Stream!streamVars
<1>2. StreamInv /\ [Stream!Next]_streamVars => MessageEnd
  BY StreamNextInv
<1>3. StreamInv /\ [Stream!Next]_streamVars => [MessageEnd]_streamVars
  BY <1>2
<1>. QED BY <1>1, <1>3, PTL DEF ValuesSpec, Stream!Spec, MessagesEnd, Stream!MessagesEnd,
            MessageEnd, EndsAsAsked, With, streamVars, Stream!streamVars

(* The variables of the cache, of the streams in memory and of the hash      *)
(* container keep their types.                                               *)
THEOREM ValuesTypes == ValuesSpec => [](Cache!TypeOK /\ Memory!TypeOK /\ Hash!TypeOK)
<1>1. Cache!Spec => []Cache!TypeOK
  <2>1. CacheInv => Cache!TypeOK
    BY DEF CacheInv, CacheTypes, Cache!TypeOK
  <2>. QED BY CacheInitInv, CacheNextInv, <2>1, PTL DEF Cache!Spec
<1>2. Memory!Spec => []Memory!TypeOK
  BY MemoryInit, MemoryNextInv, UnreadKept, PTL DEF Memory!Spec
<1>3. HashInv /\ [Hash!Next]_(Hash!hashVars) => HashInv'
  BY HashSteps DEF hashVars, Hash!hashVars
<1>4. Hash!Spec => []Hash!TypeOK
  BY HashStart, HashIsRight, <1>3, PTL DEF Hash!Spec
<1>. QED BY <1>1, <1>2, <1>4, PTL DEF ValuesSpec
=============================================================================
