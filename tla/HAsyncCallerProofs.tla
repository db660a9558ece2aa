------------------------- MODULE HAsyncCallerProofs -------------------------
(***************************************************************************)
(* Proofs about HAsyncCaller for any number of runners, calls, interrupts  *)
(* and restarts.                                                           *)
(***************************************************************************)
EXTENDS HAsyncCaller, FiniteSetTheorems, TLAPS

(* A runner that leaves or goes on to a call is counted out of Woken; one   *)
(* that passes the semaphore is counted in.                                 *)
LEMMA RunnersAreFinite == IsFiniteSet(Runners)
BY CoresAssumption, FS_Interval DEF Runners

LEMMA WokenIsFinite == IsFiniteSet(Woken) /\ Cardinality(Woken) \in Nat
BY RunnersAreFinite, FS_Subset, FS_CardinalityType DEF Woken

LEMMA CountIn ==
  ASSUME NEW r \in Runners, r \notin Woken, Woken' = Woken \cup {r}
  PROVE  Cardinality(Woken') = Cardinality(Woken) + 1
BY WokenIsFinite, FS_AddElement

LEMMA CountOut ==
  ASSUME NEW r \in Runners, r \in Woken, Woken' = Woken \ {r}
  PROVE  Cardinality(Woken') = Cardinality(Woken) - 1
BY WokenIsFinite, FS_RemoveElement

(* The place of a new call is a position of the queue or the one after it. *)
LEMMA PlaceIsAPosition ==
  ASSUME queue \in Seq(Calls), NEW c \in Calls
  PROVE  PlaceOf(c) \in 1 .. Len(queue) + 1
<1> DEFINE S == {i \in DOMAIN queue: Priority[queue[i]] <= Priority[c]}
<1>1. IsFiniteSet(1 .. Len(queue)) /\ Cardinality(1 .. Len(queue)) = Len(queue)
  <2> DEFINE n == Len(queue)
  <2>1. n \in Nat
    OBVIOUS
  <2> HIDE DEF n
  <2>2. IsFiniteSet(1 .. n) /\ Cardinality(1 .. n) = IF 1 > n THEN 0 ELSE n - 1 + 1
    BY <2>1, FS_Interval
  <2>3. IsFiniteSet(1 .. n) /\ Cardinality(1 .. n) = n
    BY <2>1, <2>2
  <2> QED
    BY <2>3 DEF n
<1>2. S \subseteq 1 .. Len(queue)
  OBVIOUS
<1>3. IsFiniteSet(S) /\ Cardinality(S) <= Len(queue)
  BY <1>1, <1>2, FS_Subset
<1>4. Cardinality(S) \in Nat
  BY <1>3, FS_CardinalityType
<1> HIDE DEF S
<1>5. 1 + Cardinality(S) \in 1 .. Len(queue) + 1
  BY <1>3, <1>4
<1> QED
  BY <1>5 DEF PlaceOf, S

LEMMA InsertAtType ==
  ASSUME NEW s \in Seq(Calls), NEW i \in 1 .. Len(s) + 1, NEW c \in Calls
  PROVE  InsertAt(s, i, c) \in Seq(Calls) /\ Len(InsertAt(s, i, c)) = Len(s) + 1
<1>1. SubSeq(s, 1, i - 1) \in Seq(Calls) /\ Len(SubSeq(s, 1, i - 1)) = i - 1
  OBVIOUS
<1>2. SubSeq(s, i, Len(s)) \in Seq(Calls) /\ Len(SubSeq(s, i, Len(s))) = Len(s) + 1 - i
  OBVIOUS
<1>3. ASSUME NEW a \in Seq(Calls), NEW b \in Seq(Calls)
      PROVE  a \o <<c>> \o b \in Seq(Calls) /\ Len(a \o <<c>> \o b) = Len(a) + 1 + Len(b)
  OBVIOUS
<1>4. /\ InsertAt(s, i, c) \in Seq(Calls)
      /\ Len(InsertAt(s, i, c)) = (i - 1) + 1 + (Len(s) + 1 - i)
  BY <1>1, <1>2, <1>3 DEF InsertAt
<1> QED
  BY <1>4

-----------------------------------------------------------------------------
(* The counter of the stopping loop is in range while it is used. *)
NextInRange == cpc \in {"INTERRUPTING", "ABORTING"} => next \in Runners

(* The pool is stopped when every runner has left. *)
StoppedIsLeft == cpc = "stopped" => \A r \in Runners: pc[r] = "left"

(* A runner that calls has something to call. *)
CallsACall == \A r \in Runners: pc[r] = "call" => current[r] # NoCall

Inv == TypeOK /\ NextInRange /\ StoppedIsLeft /\ CallsACall /\ UnitsAreExact

LEMMA InitInv == Init => Inv
<1> SUFFICES ASSUME Init PROVE Inv
  OBVIOUS
<1>1. isKilled \in BOOLEAN
  BY Zenon DEF Init
<1>2. Woken = {}
  BY DEF Init, Woken
<1>3. TypeOK
  BY <1>1, CoresAssumption DEF Init, TypeOK, Points
<1>4. NextInRange /\ StoppedIsLeft /\ CallsACall
  BY DEF Init, NextInRange, StoppedIsLeft, CallsACall
<1>5. UnitsAreExact
  BY <1>2, FS_EmptySet DEF Init, UnitsAreExact
<1> QED
  BY <1>3, <1>4, <1>5 DEF Inv

(* Steps of runner r, types first. *)
LEMMA RunnerType ==
  ASSUME TypeOK, CallsACall, NEW r \in Runners, Run(r) \/ RunWait(r)
  PROVE  TypeOK'
<1> USE DEF TypeOK, Runner, control
<1>1. CASE RunLoop(r)
  BY <1>1 DEF RunLoop, Points
<1>2. CASE RunWait(r)
  BY <1>2 DEF RunWait, Points
<1>3. CASE RunStop(r)
  BY <1>3 DEF RunStop, Points
<1>4. CASE RunPop(r)
  <2>1. Head(queue) \in Calls /\ Tail(queue) \in Seq(Calls)
    BY <1>4 DEF RunPop
  <2>2. current' \in [Runners -> Calls \cup {NoCall}] /\ queue' \in Seq(Calls)
    BY <1>4, <2>1 DEF RunPop
  <2> QED
    BY <1>4, <2>2 DEF RunPop, Points
<1>5. CASE CallReturns(r)
  BY <1>5 DEF CallReturns, CallsACall, Points
<1>6. CASE WorkerGoesOn(r)
  BY <1>6 DEF WorkerGoesOn, Points
<1> QED
  BY <1>1, <1>2, <1>3, <1>4, <1>5, <1>6 DEF Run

LEMMA PoolType ==
  ASSUME TypeOK, NextInRange, StoppedIsLeft, CallsACall,
         Interrupt \/ StopPool \/ StopRunner \/ Join \/ Start
  PROVE  TypeOK' /\ NextInRange' /\ StoppedIsLeft' /\ CallsACall'
<1> USE CoresAssumption
    DEF TypeOK, NextInRange, StoppedIsLeft, CallsACall, Controller, Runners
<1>1. CASE Interrupt
  BY <1>1 DEF Interrupt
<1>2. CASE StopPool
  <2>1. isKilled' \in BOOLEAN
    BY <1>2, Zenon DEF StopPool
  <2> QED
    BY <1>2, <2>1 DEF StopPool
<1>3. CASE StopRunner
  BY <1>3 DEF StopRunner
<1>4. CASE Join
  BY <1>4 DEF Join
<1>5. CASE Start
  BY <1>5 DEF Start, Points
<1> QED
  BY <1>1, <1>2, <1>3, <1>4, <1>5

(* A call enters the queue with its unit. *)
LEMMA RegisterInv ==
  ASSUME Inv, NEW c \in Calls, RegisterCall(c)
  PROVE  Inv'
<1> USE DEF Inv, TypeOK, RegisterCall, runners, control
<1>1. queue' \in Seq(Calls) /\ Len(queue') = Len(queue) + 1
  BY PlaceIsAPosition, InsertAtType
<1>2. TypeOK' /\ NextInRange' /\ StoppedIsLeft' /\ CallsACall'
  BY <1>1 DEF NextInRange, StoppedIsLeft, CallsACall
<1>3. Woken' = Woken
  BY DEF Woken
<1>4. /\ semaphore' = semaphore + 1 /\ stopRequests' = stopRequests
      /\ semaphore \in Nat /\ stopRequests \in Nat /\ Len(queue) \in Nat
  OBVIOUS
<1>5. Cardinality(Woken) \in Nat /\ UnitsAreExact
  BY WokenIsFinite
<1> USE DEF UnitsAreExact
<1> HIDE DEF Inv, TypeOK, RegisterCall
<1>6. UnitsAreExact'
  BY <1>1, <1>3, <1>4, <1>5
<1> QED
  BY <1>2, <1>6 DEF Inv

(* A runner takes a unit with it through the semaphore and exchanges it     *)
(* for a request or a call.                                                 *)
LEMMA RunnerInv ==
  ASSUME Inv, NEW r \in Runners, Run(r) \/ RunWait(r)
  PROVE  Inv'
<1>1. TypeOK'
  BY RunnerType DEF Inv
<1>6. CallsACall'
  BY CallsAssumption
     DEF Inv, TypeOK, CallsACall, Run, RunLoop, RunWait, RunStop, RunPop, CallReturns,
         WorkerGoesOn, Runner
<1>2. NextInRange' /\ StoppedIsLeft'
  BY DEF Inv, TypeOK, NextInRange, StoppedIsLeft, Run, RunLoop, RunWait, RunStop, RunPop,
         CallReturns, WorkerGoesOn, Runner, control
<1>3. CASE RunLoop(r) \/ CallReturns(r) \/ WorkerGoesOn(r)
  <2>1. Woken' = Woken
    BY <1>3 DEF RunLoop, CallReturns, WorkerGoesOn, Runner, Woken, Inv, TypeOK
  <2>2. UNCHANGED <<queue, stopRequests, semaphore>>
    BY <1>3 DEF RunLoop, CallReturns, WorkerGoesOn
  <2> QED
    BY <1>1, <1>2, <1>6, <2>1, <2>2 DEF Inv, UnitsAreExact
<1>4. CASE RunWait(r)
  <2>1. r \notin Woken /\ Woken' = Woken \cup {r}
    BY <1>4 DEF RunWait, Runner, Woken, Inv, TypeOK
  <2>2. Cardinality(Woken') = Cardinality(Woken) + 1
    BY <2>1, CountIn
  <2>3. UnitsAreExact'
    BY <1>4, <2>2, WokenIsFinite DEF RunWait, UnitsAreExact, Inv, TypeOK
  <2> QED
    BY <1>1, <1>2, <1>6, <2>3 DEF Inv
<1>5. CASE RunStop(r) \/ RunPop(r)
  <2>1. r \in Woken /\ Woken' = Woken \ {r}
    BY <1>5 DEF RunStop, RunPop, Runner, Woken, Inv, TypeOK
  <2>2. Cardinality(Woken') = Cardinality(Woken) - 1
    BY <2>1, CountOut
  <2>3. /\ semaphore' = semaphore
        /\ Len(queue') + stopRequests' = Len(queue) + stopRequests - 1
    <3>1. CASE RunStop(r)
      BY <3>1 DEF RunStop, Inv, TypeOK
    <3>2. CASE RunPop(r)
      <4>1. Len(Tail(queue)) = Len(queue) - 1
        BY <3>2 DEF RunPop, Inv, TypeOK
      <4> QED
        BY <3>2, <4>1 DEF RunPop, Inv, TypeOK
    <3> QED
      BY <1>5, <3>1, <3>2
  <2>4. UnitsAreExact'
    BY <2>2, <2>3, WokenIsFinite DEF UnitsAreExact, Inv, TypeOK
  <2> QED
    BY <1>1, <1>2, <1>6, <2>4 DEF Inv
<1> QED
  BY <1>3, <1>4, <1>5 DEF Run

(* A request comes with its unit; runners that are started are not woken. *)
LEMMA PoolInv ==
  ASSUME Inv, Interrupt \/ StopPool \/ StopRunner \/ Join \/ Start
  PROVE  Inv'
<1>1. TypeOK' /\ NextInRange' /\ StoppedIsLeft' /\ CallsACall'
  BY PoolType DEF Inv
<1>2. queue' = queue
  BY DEF Interrupt, StopPool, StopRunner, Join, Start, Controller
<1>3. CASE Interrupt \/ StopPool \/ StopRunner \/ Join
  <2>1. Woken' = Woken
    BY <1>3 DEF Interrupt, StopPool, StopRunner, Join, Woken
  <2>2. \/ semaphore' = semaphore /\ stopRequests' = stopRequests
        \/ semaphore' = semaphore + 1 /\ stopRequests' = stopRequests + 1
    BY <1>3 DEF Interrupt, StopPool, StopRunner, Join, Inv, TypeOK
  <2>3. UnitsAreExact'
    <3>1. semaphore' \in Nat /\ stopRequests' \in Nat /\ semaphore \in Nat
          /\ stopRequests \in Nat /\ Len(queue) \in Nat
      BY <1>1 DEF Inv, TypeOK
    <3>2. Len(queue') = Len(queue) /\ Cardinality(Woken') = Cardinality(Woken)
      BY <1>2, <2>1
    <3>3. semaphore + Cardinality(Woken) = Len(queue) + stopRequests
      BY DEF Inv, UnitsAreExact
    <3>4. semaphore' + Cardinality(Woken) = Len(queue) + stopRequests'
      BY <2>2, <3>1, <3>3, WokenIsFinite
    <3> QED
      BY <3>2, <3>4 DEF UnitsAreExact
  <2> QED
    BY <1>1, <2>3 DEF Inv
<1>4. CASE Start
  <2>1. Woken' = {}
    BY <1>4 DEF Start, Woken
  <2>2. Woken = {}
    BY <1>4 DEF Start, Controller, Woken, Inv, StoppedIsLeft
  <2> QED
    BY <1>1, <1>2, <1>4, <2>1, <2>2 DEF Start, Inv, UnitsAreExact
<1> QED
  BY <1>3, <1>4

LEMMA NextInv == Inv /\ [Next]_vars => Inv'
<1> SUFFICES ASSUME Inv, [Next]_vars PROVE Inv'
  OBVIOUS
<1>1. CASE UNCHANGED vars
  BY <1>1 DEF vars, runners, control, Inv, TypeOK, NextInRange, StoppedIsLeft,
              CallsACall, UnitsAreExact, Woken
<1> QED
  BY <1>1, RegisterInv, RunnerInv, PoolInv DEF Next

-----------------------------------------------------------------------------
(* The variables keep their types for any number of runners and calls. *)
THEOREM TypeCorrect == Spec => []TypeOK
<1>1. Inv => TypeOK
  BY DEF Inv
<1> QED
  BY InitInv, NextInv, <1>1, PTL DEF Spec

(* Every unit of the semaphore is a queued call or a request to stop. *)
THEOREM UnitsCorrect == Spec => []UnitsAreExact
<1>1. Inv => UnitsAreExact
  BY DEF Inv
<1> QED
  BY InitInv, NextInv, <1>1, PTL DEF Spec

(* run() never takes the first call of an empty queue: a runner past the    *)
(* semaphore finds a request to stop or a call.                             *)
THEOREM NeverPopsAnEmptyQueue ==
  Spec => [](\A r \in Runners: pc[r] = "woken" /\ stopRequests = 0 => queue # <<>>)
<1> DEFINE Q == \A r \in Runners: pc[r] = "woken" /\ stopRequests = 0 => queue # <<>>
<1>1. Inv => Q
  <2> SUFFICES ASSUME Inv, NEW r \in Runners, pc[r] = "woken", stopRequests = 0,
                      queue = <<>>
               PROVE  FALSE
    OBVIOUS
  <2>1. Cardinality(Woken) = 0
    BY WokenIsFinite DEF Inv, UnitsAreExact, TypeOK
  <2>2. Woken = {}
    BY <2>1, WokenIsFinite, FS_EmptySet
  <2> QED
    BY <2>2 DEF Woken
<1> QED
  BY InitInv, NextInv, <1>1, PTL DEF Spec

-----------------------------------------------------------------------------
(* Requests to stop.  Until the pool is killed, a runner returns only by    *)
(* taking a request, so the requests and the runners that have gone are     *)
(* together no more than the requests issued since the last start.          *)
Gone == {r \in Runners: pc[r] \in {"returned", "left"}}

Issued ==
  CASE cpc = "idle" -> 0
    [] cpc \in {"INTERRUPTING", "ABORTING"} -> next - 1
    [] OTHER -> Cores

KilledIsNotIdle == isKilled => cpc # "idle"
RequestsAreTaken == ~ isKilled => stopRequests + Cardinality(Gone) <= Issued

StopInv == KilledIsNotIdle /\ RequestsAreTaken

LEMMA GoneIsFinite == IsFiniteSet(Gone) /\ Cardinality(Gone) \in Nat
BY RunnersAreFinite, FS_Subset, FS_CardinalityType DEF Gone

LEMMA IssuedType == TypeOK => Issued \in Int
BY CoresAssumption DEF TypeOK, Issued

(* All runners have left: every request has been taken. *)
LEMMA StoppedHasNoRequest ==
  ASSUME Inv, StopInv, cpc = "stopped", ~ isKilled
  PROVE  stopRequests = 0
<1>1. Gone = Runners
  BY DEF Inv, StoppedIsLeft, Gone
<1>2. Cardinality(Runners) = Cores
  BY CoresAssumption, FS_Interval DEF Runners
<1>3. Issued = Cores
  BY DEF Issued
<1>4. stopRequests + Cores <= Cores
  BY <1>1, <1>2, <1>3 DEF StopInv, RequestsAreTaken
<1> QED
  BY <1>4, CoresAssumption DEF Inv, TypeOK

LEMMA RunnerStopInv ==
  ASSUME Inv, StopInv, NEW r \in Runners, Run(r) \/ RunWait(r)
  PROVE  StopInv'
<1>1. UNCHANGED control
  BY DEF Run, RunLoop, RunWait, RunStop, RunPop, CallReturns, WorkerGoesOn, Runner
<1>2. Issued' = Issued /\ KilledIsNotIdle'
  BY <1>1 DEF control, Issued, StopInv, KilledIsNotIdle
<1>3. SUFFICES ASSUME ~ isKilled
               PROVE  stopRequests' + Cardinality(Gone') <= Issued
  BY <1>1, <1>2 DEF control, StopInv, RequestsAreTaken
<1>4. stopRequests + Cardinality(Gone) <= Issued
  BY <1>3 DEF StopInv, RequestsAreTaken
<1>5. stopRequests \in Nat /\ Issued \in Int /\ Cardinality(Gone) \in Nat
  BY IssuedType, GoneIsFinite DEF Inv, TypeOK
<1>6. CASE RunStop(r)
  <2>1. stopRequests' = stopRequests - 1
    BY <1>6 DEF RunStop
  <2>2. r \notin Gone /\ Gone' = Gone \cup {r}
    BY <1>6 DEF RunStop, Runner, Gone, Inv, TypeOK
  <2>3. Cardinality(Gone') = Cardinality(Gone) + 1
    BY <2>2, GoneIsFinite, FS_AddElement
  <2> QED
    BY <1>4, <1>5, <2>1, <2>3
<1>7. CASE RunLoop(r) \/ RunWait(r) \/ RunPop(r) \/ CallReturns(r)
  <2>1. stopRequests' = stopRequests
    BY <1>7 DEF RunLoop, RunWait, RunPop, CallReturns
  <2>2. Gone' = Gone
    BY <1>3, <1>7 DEF RunLoop, RunWait, RunPop, CallReturns, Runner, Gone, Inv, TypeOK
  <2> QED
    BY <1>4, <2>1, <2>2
<1>8. CASE WorkerGoesOn(r)
  <2>1. stopRequests' = stopRequests
    BY <1>8 DEF WorkerGoesOn
  <2>2. Gone' \subseteq Gone
    BY <1>8 DEF WorkerGoesOn, Runner, Gone, Inv, TypeOK
  <2>3. Cardinality(Gone') <= Cardinality(Gone) /\ Cardinality(Gone') \in Nat
    BY <2>2, GoneIsFinite, FS_Subset, FS_CardinalityType
  <2> QED
    BY <1>4, <1>5, <2>1, <2>3
<1> QED
  BY <1>6, <1>7, <1>8 DEF Run

LEMMA PoolStopInv ==
  ASSUME Inv, StopInv, Interrupt \/ StopPool \/ StopRunner \/ Join \/ Start
  PROVE  StopInv'
<1>1. stopRequests \in Nat /\ next \in Int /\ Cardinality(Gone) \in Nat /\ Cores \in Nat
  BY GoneIsFinite, CoresAssumption DEF Inv, TypeOK
<1>2. CASE Interrupt
  <2>1. Gone' = Gone /\ stopRequests' = stopRequests /\ isKilled' = isKilled
    BY <1>2 DEF Interrupt, Gone
  <2>2. cpc = "idle" /\ cpc' = "INTERRUPTING" /\ next' = 1
    BY <1>2 DEF Interrupt, Controller
  <2>3. Issued = 0 /\ Issued' = 0
    BY <2>2 DEF Issued
  <2> QED
    BY <2>1, <2>2, <2>3 DEF StopInv, KilledIsNotIdle, RequestsAreTaken
<1>3. CASE StopPool
  BY <1>3 DEF StopPool, Controller, StopInv, KilledIsNotIdle, RequestsAreTaken
<1>4. CASE StopRunner
  <2>1. Gone' = Gone /\ stopRequests' = stopRequests + 1 /\ isKilled' = isKilled
    BY <1>4 DEF StopRunner, Gone
  <2>2. /\ cpc \in {"INTERRUPTING", "ABORTING"} /\ next' = next + 1
        /\ cpc' = IF next = Cores THEN "join" ELSE cpc
    BY <1>4 DEF StopRunner, Controller
  <2>3. Issued = next - 1
    BY <2>2 DEF Issued
  <2>4. Issued' = next
    BY <1>1, <2>2 DEF Issued
  <2> QED
    BY <1>1, <2>1, <2>2, <2>3, <2>4 DEF StopInv, KilledIsNotIdle, RequestsAreTaken
<1>5. CASE Join
  <2>1. Gone' = Gone /\ stopRequests' = stopRequests /\ isKilled' = isKilled
    BY <1>5 DEF Join, Gone
  <2>2. Issued' = Issued /\ cpc' # "idle"
    BY <1>5 DEF Join, Controller, Issued
  <2> QED
    BY <2>1, <2>2 DEF StopInv, KilledIsNotIdle, RequestsAreTaken
<1>6. CASE Start
  <2>1. stopRequests' = 0 /\ ~ isKilled'
    BY <1>6, StoppedHasNoRequest DEF Start, Controller
  <2>2. Gone' = {} /\ Issued' = 0
    BY <1>6 DEF Start, Controller, Gone, Issued
  <2> QED
    BY <2>1, <2>2, FS_EmptySet DEF StopInv, KilledIsNotIdle, RequestsAreTaken
<1> QED
  BY <1>2, <1>3, <1>4, <1>5, <1>6

LEMMA NextStopInv == Inv /\ StopInv /\ [Next]_vars => StopInv'
<1> SUFFICES ASSUME Inv, StopInv, [Next]_vars PROVE StopInv'
  OBVIOUS
<1>1. CASE UNCHANGED vars
  BY <1>1 DEF vars, runners, control, StopInv, KilledIsNotIdle, RequestsAreTaken, Gone, Issued
<1>2. ASSUME NEW c \in Calls, RegisterCall(c) PROVE StopInv'
  BY <1>2 DEF RegisterCall, runners, control, StopInv, KilledIsNotIdle, RequestsAreTaken,
              Gone, Issued
<1> QED
  BY <1>1, <1>2, RunnerStopInv, PoolStopInv DEF Next

LEMMA InitStopInv == Init => StopInv
<1> SUFFICES ASSUME Init PROVE StopInv
  OBVIOUS
<1>1. Gone = {} /\ Issued = 0 /\ stopRequests = 0
  BY DEF Init, Gone, Issued
<1> QED
  BY <1>1, FS_EmptySet DEF Init, StopInv, KilledIsNotIdle, RequestsAreTaken

(* A pool that is idle, after any number of interrupts and restarts, has no *)
(* request to stop left that would end a runner of the new start.           *)
THEOREM NoStaleRequestIsLeft == Spec => []NoStaleRequest
<1>1. Inv /\ StopInv => NoStaleRequest
  <2> SUFFICES ASSUME Inv, StopInv, cpc = "idle" PROVE stopRequests = 0
    BY DEF NoStaleRequest
  <2>1. Issued = 0 /\ ~ isKilled
    BY DEF Issued, StopInv, KilledIsNotIdle
  <2> QED
    BY <2>1, GoneIsFinite DEF StopInv, RequestsAreTaken, Inv, TypeOK
<1> QED
  BY InitInv, NextInv, InitStopInv, NextStopInv, <1>1, PTL DEF Spec

-----------------------------------------------------------------------------
(* The queue as a sequence: what a new call and the first call change. *)
LEMMA InsertAtValues ==
  ASSUME NEW s \in Seq(Calls), NEW i \in 1 .. Len(s) + 1, NEW c \in Calls
  PROVE  /\ DOMAIN InsertAt(s, i, c) = 1 .. Len(s) + 1
         /\ \A j \in 1 .. Len(s) + 1:
              InsertAt(s, i, c)[j] = IF j < i THEN s[j] ELSE IF j = i THEN c ELSE s[j - 1]
<1> DEFINE a == SubSeq(s, 1, i - 1)
           b == SubSeq(s, i, Len(s))
<1>1. /\ a \in Seq(Calls) /\ Len(a) = i - 1
      /\ \A j \in 1 .. i - 1: a[j] = s[j]
  OBVIOUS
<1>2. /\ b \in Seq(Calls) /\ Len(b) = Len(s) + 1 - i
      /\ \A j \in 1 .. Len(s) + 1 - i: b[j] = s[i + j - 1]
  OBVIOUS
<1> HIDE DEF a, b
<1>3. /\ a \o <<c>> \in Seq(Calls) /\ Len(a \o <<c>>) = i
      /\ \A j \in 1 .. i: (a \o <<c>>)[j] = IF j < i THEN s[j] ELSE c
  BY <1>1
<1>4. \A j \in 1 .. Len(s) + 1:
        (a \o <<c>> \o b)[j] = IF j <= i THEN (a \o <<c>>)[j] ELSE b[j - i]
  BY <1>2, <1>3
<1>5. \A j \in 1 .. Len(s) + 1:
        (a \o <<c>> \o b)[j] = IF j < i THEN s[j] ELSE IF j = i THEN c ELSE s[j - 1]
  <2> TAKE j \in 1 .. Len(s) + 1
  <2>0. Len(s) \in Nat /\ i \in Int /\ j \in Int
    OBVIOUS
  <2>1. CASE j <= i
    BY <2>1, <1>3, <1>4
  <2>2. CASE j > i
    <3>1. /\ j - i \in 1 .. Len(s) + 1 - i /\ i + (j - i) - 1 = j - 1
          /\ ~ (j <= i) /\ ~ (j < i) /\ j # i
      BY <2>0, <2>2
    <3>2. b[j - i] = s[j - 1]
      BY <1>2, <3>1
    <3>3. (a \o <<c>> \o b)[j] = b[j - i]
      BY <1>4, <3>1
    <3> QED
      BY <3>1, <3>2, <3>3
  <2>3. j <= i \/ j > i
    BY <2>0
  <2> QED
    BY <2>1, <2>2, <2>3, Zenon
<1>6. DOMAIN (a \o <<c>> \o b) = 1 .. Len(s) + 1
  <2>1. /\ a \o <<c>> \in Seq(Calls) /\ b \in Seq(Calls)
        /\ Len(a \o <<c>>) = i /\ Len(b) = Len(s) + 1 - i
        /\ Len(s) \in Nat /\ i \in Int
    BY <1>2, <1>3
  <2>2. Len((a \o <<c>>) \o b) = Len(s) + 1
    BY <2>1
  <2> QED
    BY <2>1, <2>2
<1> QED
  BY <1>5, <1>6 DEF InsertAt, a, b

LEMMA InsertAtRange ==
  ASSUME NEW s \in Seq(Calls), NEW i \in 1 .. Len(s) + 1, NEW c \in Calls
  PROVE  /\ Range(InsertAt(s, i, c)) = Range(s) \cup {c}
         /\ IsInjective(s) /\ c \notin Range(s) => IsInjective(InsertAt(s, i, c))
<1> DEFINE t == InsertAt(s, i, c)
<1>1. /\ DOMAIN t = 1 .. Len(s) + 1
      /\ \A j \in 1 .. Len(s) + 1:
           t[j] = IF j < i THEN s[j] ELSE IF j = i THEN c ELSE s[j - 1]
  BY InsertAtValues
<1> HIDE DEF t
<1>2. DOMAIN s = 1 .. Len(s) /\ Len(s) \in Nat
  OBVIOUS
<1>3. ASSUME NEW j \in DOMAIN s PROVE s[j] \in Range(t)
  <2>1. CASE j < i
    BY <1>1, <1>2, <2>1 DEF Range
  <2>2. CASE j >= i
    <3>1. j + 1 \in 1 .. Len(s) + 1 /\ ~ (j + 1 < i) /\ j + 1 # i /\ j + 1 - 1 = j
      BY <1>2, <2>2
    <3>2. t[j + 1] = s[j]
      BY <1>1, <3>1
    <3> QED
      BY <1>1, <3>1, <3>2 DEF Range
  <2> QED
    BY <1>2, <2>1, <2>2
<1>4. c \in Range(t)
  BY <1>1 DEF Range
<1>5. ASSUME NEW j \in DOMAIN t PROVE t[j] \in Range(s) \cup {c}
  <2>1. CASE j < i
    <3>1. j \in DOMAIN s /\ t[j] = s[j]
      BY <1>1, <1>2, <2>1
    <3> QED
      BY <3>1 DEF Range
  <2>2. CASE j = i
    BY <1>1, <2>2
  <2>3. CASE j > i
    <3>1. j - 1 \in DOMAIN s /\ t[j] = s[j - 1]
      BY <1>1, <1>2, <2>3
    <3> QED
      BY <3>1 DEF Range
  <2> QED
    BY <1>1, <2>1, <2>2, <2>3
<1>6. Range(t) = Range(s) \cup {c}
  BY <1>3, <1>4, <1>5 DEF Range
<1>7. ASSUME IsInjective(s), c \notin Range(s) PROVE IsInjective(t)
  <2> SUFFICES ASSUME NEW j \in DOMAIN t, NEW k \in DOMAIN t, t[j] = t[k] PROVE j = k
    BY DEF IsInjective
  <2>1. \A x \in DOMAIN s: s[x] # c
    BY <1>7 DEF Range
  <2>2. \A x, y \in DOMAIN s: s[x] = s[y] => x = y
    BY <1>7 DEF IsInjective
  <2>3. ASSUME NEW x \in DOMAIN t
        PROVE  \/ x = i /\ t[x] = c
               \/ x < i /\ x \in DOMAIN s /\ t[x] = s[x]
               \/ x > i /\ x - 1 \in DOMAIN s /\ t[x] = s[x - 1]
    BY <1>1, <1>2
  <2>4. i \in Int /\ j \in Int /\ k \in Int
    BY <1>1
  <2> QED
    BY <1>2, <2>1, <2>2, <2>3, <2>4
<1> QED
  BY <1>6, <1>7 DEF t

LEMMA TailRange ==
  ASSUME NEW s \in Seq(Calls), s # <<>>
  PROVE  /\ Head(s) \in Range(s)
         /\ Range(Tail(s)) \subseteq Range(s)
         /\ Range(s) \subseteq Range(Tail(s)) \cup {Head(s)}
         /\ IsInjective(s) => IsInjective(Tail(s)) /\ Head(s) \notin Range(Tail(s))
<1>1. Len(s) \in Nat /\ Len(s) >= 1 /\ DOMAIN s = 1 .. Len(s) /\ Head(s) = s[1]
  OBVIOUS
<1>2. /\ DOMAIN Tail(s) = 1 .. Len(s) - 1
      /\ \A j \in 1 .. Len(s) - 1: Tail(s)[j] = s[j + 1]
  OBVIOUS
<1>3. Head(s) \in Range(s)
  BY <1>1 DEF Range
<1>4. Range(Tail(s)) \subseteq Range(s)
  BY <1>1, <1>2 DEF Range
<1>5. ASSUME NEW j \in DOMAIN s PROVE s[j] \in Range(Tail(s)) \cup {Head(s)}
  <2>1. CASE j = 1
    BY <1>1, <2>1
  <2>2. CASE j # 1
    <3>1. j - 1 \in DOMAIN Tail(s) /\ Tail(s)[j - 1] = s[j]
      BY <1>1, <1>2, <2>2
    <3> QED
      BY <3>1 DEF Range
  <2> QED
    BY <2>1, <2>2
<1>6. Range(s) \subseteq Range(Tail(s)) \cup {Head(s)}
  BY <1>5 DEF Range
<1>7. ASSUME IsInjective(s) PROVE IsInjective(Tail(s)) /\ Head(s) \notin Range(Tail(s))
  <2>1. \A x, y \in 1 .. Len(s): s[x] = s[y] => x = y
    BY <1>1, <1>7 DEF IsInjective
  <2>2. IsInjective(Tail(s))
    BY <1>1, <1>2, <2>1 DEF IsInjective
  <2>3. \A j \in 1 .. Len(s) - 1: Tail(s)[j] # s[1]
    BY <1>1, <1>2, <2>1
  <2> QED
    BY <1>1, <1>2, <2>2, <2>3 DEF Range
<1> QED
  BY <1>3, <1>4, <1>6, <1>7

-----------------------------------------------------------------------------
(* The history: a call that is registered comes after all that were before, *)
(* and the order of those stays.                                            *)
LEMMA Arrives ==
  ASSUME arrivals \in Seq(Calls), NEW c \in Calls, arrivals' = Append(arrivals, c)
  PROVE  /\ registered' = registered \cup {c}
         /\ \A x, y \in Calls: Before(x, y) => Before(x, y)'
         /\ \A x \in registered: Before(x, c)'
<1> DEFINE n == Len(arrivals)
<1>1. n \in Nat /\ DOMAIN arrivals = 1 .. n /\ DOMAIN arrivals' = 1 .. n + 1
  OBVIOUS
<1>2. arrivals'[n + 1] = c /\ \A i \in 1 .. n: arrivals'[i] = arrivals[i]
  OBVIOUS
<1> HIDE DEF n
<1>3. registered' = registered \cup {c}
  <2>1. \A i \in 1 .. n + 1: i = n + 1 \/ i \in 1 .. n
    BY <1>1
  <2>2. n + 1 \in 1 .. n + 1 /\ 1 .. n \subseteq 1 .. n + 1
    BY <1>1
  <2> QED
    BY <1>1, <1>2, <2>1, <2>2 DEF registered, Range
<1>4. ASSUME NEW x \in Calls, NEW y \in Calls, Before(x, y) PROVE Before(x, y)'
  <2>1. PICK i, j \in 1 .. n: i < j /\ arrivals[i] = x /\ arrivals[j] = y
    BY <1>1, <1>4 DEF Before
  <2>2. i \in 1 .. n + 1 /\ j \in 1 .. n + 1
    BY <1>1
  <2> QED
    BY <1>1, <1>2, <2>1, <2>2 DEF Before
<1>5. ASSUME NEW x \in registered PROVE Before(x, c)'
  <2>1. PICK i \in 1 .. n: arrivals[i] = x
    BY <1>1, <1>5 DEF registered, Range
  <2>2. i \in 1 .. n + 1 /\ n + 1 \in 1 .. n + 1 /\ i < n + 1
    BY <1>1
  <2> QED
    BY <1>1, <1>2, <2>1, <2>2 DEF Before
<1> QED
  BY <1>3, <1>4, <1>5

-----------------------------------------------------------------------------
(* The places of a call.  A runner holds a call exactly while it calls. *)
IdleHoldsNone == \A r \in Runners: pc[r] # "call" => current[r] = NoCall

PlaceInv == IdleHoldsNone /\ EveryCallHasOnePlace

LEMMA InitPlaceInv == Init => PlaceInv
<1> SUFFICES ASSUME Init PROVE PlaceInv
  OBVIOUS
<1>1. DOMAIN queue = {}
  BY DEF Init
<1>2. IsInjective(queue) /\ Range(queue) = {}
  BY <1>1 DEF IsInjective, Range
<1>3. Running = {}
  BY DEF Init, Running
<1>4. registered = {}
  BY DEF Init, registered, Range
<1> QED
  BY <1>2, <1>3, <1>4 DEF Init, PlaceInv, IdleHoldsNone, EveryCallHasOnePlace

LEMMA RegisterPlaceInv ==
  ASSUME Inv, PlaceInv, NEW c \in Calls, RegisterCall(c)
  PROVE  PlaceInv'
<1>1. queue \in Seq(Calls) /\ queue' = InsertAt(queue, PlaceOf(c), c)
  BY DEF Inv, TypeOK, RegisterCall
<1>2. c \notin registered /\ registered' = registered \cup {c}
  BY Arrives DEF RegisterCall, Inv, TypeOK
<1>3. pc' = pc /\ current' = current /\ done' = done
  BY DEF RegisterCall, runners
<1>4. c \notin Range(queue) /\ c \notin Running /\ c \notin done
  BY <1>2 DEF PlaceInv, EveryCallHasOnePlace
<1>5. IsInjective(queue') /\ Range(queue') = Range(queue) \cup {c}
  BY <1>1, <1>4, PlaceIsAPosition, InsertAtRange DEF PlaceInv, EveryCallHasOnePlace
<1>6. Running' = Running
  BY <1>3 DEF Running
<1> QED
  BY <1>2, <1>3, <1>4, <1>5, <1>6 DEF PlaceInv, IdleHoldsNone, EveryCallHasOnePlace

LEMMA RunnerPlaceInv ==
  ASSUME Inv, PlaceInv, NEW r \in Runners, Run(r) \/ RunWait(r)
  PROVE  PlaceInv'
<1>0. registered' = registered
  BY DEF Run, RunLoop, RunWait, RunStop, RunPop, CallReturns, WorkerGoesOn, Runner, registered
<1>1. current \in [Runners -> Calls \cup {NoCall}] /\ queue \in Seq(Calls)
  BY DEF Inv, TypeOK
<1>2. CASE RunLoop(r) \/ RunWait(r) \/ RunStop(r) \/ WorkerGoesOn(r)
  <2>1. queue' = queue /\ current' = current /\ done' = done
    BY <1>2 DEF RunLoop, RunWait, RunStop, WorkerGoesOn
  <2>2. pc[r] # "call" /\ \A q \in Runners: q # r => pc'[q] = pc[q]
    BY <1>2 DEF RunLoop, RunWait, RunStop, WorkerGoesOn, Runner, Inv, TypeOK
  <2>3. IdleHoldsNone'
    BY <2>1, <2>2 DEF PlaceInv, IdleHoldsNone
  <2> QED
    BY <1>0, <2>1, <2>3 DEF PlaceInv, EveryCallHasOnePlace, Running
<1>3. CASE RunPop(r)
  <2> DEFINE h == Head(queue)
  <2>1. queue # <<>> /\ queue' = Tail(queue) /\ done' = done
    BY <1>3 DEF RunPop
  <2>2. /\ h \in Range(queue) /\ h \in Calls /\ h \notin Range(queue')
        /\ Range(queue) = Range(queue') \cup {h} /\ IsInjective(queue')
    BY <1>1, <2>1, TailRange DEF PlaceInv, EveryCallHasOnePlace
  <2>3. pc[r] = "woken" /\ current' = [current EXCEPT ![r] = h]
    BY <1>3 DEF RunPop, Runner
  <2> HIDE DEF h
  <2>4. current[r] = NoCall
    BY <2>3 DEF PlaceInv, IdleHoldsNone
  <2>5. Running' = Running \cup {h}
    BY <1>1, <2>2, <2>3, <2>4, CallsAssumption DEF Running
  <2>6. \A q, p \in Runners: current'[q] = current'[p] /\ current'[q] # NoCall => q = p
    <3>1. \A q \in Runners: current[q] # h
      BY <2>2, CallsAssumption DEF PlaceInv, EveryCallHasOnePlace, Running
    <3> QED
      BY <1>1, <2>3, <3>1 DEF PlaceInv, EveryCallHasOnePlace
  <2>7. IdleHoldsNone'
    BY <1>3, <2>3 DEF RunPop, Runner, PlaceInv, IdleHoldsNone, Inv, TypeOK
  <2> QED
    BY <1>0, <2>1, <2>2, <2>5, <2>6, <2>7 DEF PlaceInv, EveryCallHasOnePlace
<1>4. CASE CallReturns(r)
  <2> DEFINE c == current[r]
  <2>1. /\ pc[r] = "call" /\ queue' = queue /\ done' = done \cup {c}
        /\ current' = [current EXCEPT ![r] = NoCall]
    BY <1>4 DEF CallReturns, Runner
  <2>2. c \in Running
    BY <1>1, <2>1 DEF Running, Inv, CallsACall
  <2>3. Running' = Running \ {c}
    BY <1>1, <2>1 DEF Running, PlaceInv, EveryCallHasOnePlace
  <2>4. \A q, p \in Runners: current'[q] = current'[p] /\ current'[q] # NoCall => q = p
    BY <1>1, <2>1 DEF PlaceInv, EveryCallHasOnePlace
  <2>5. IdleHoldsNone'
    BY <1>4, <2>1 DEF CallReturns, Runner, PlaceInv, IdleHoldsNone, Inv, TypeOK
  <2> HIDE DEF c
  <2> QED
    BY <1>0, <2>1, <2>2, <2>3, <2>4, <2>5 DEF PlaceInv, EveryCallHasOnePlace
<1> QED
  BY <1>2, <1>3, <1>4 DEF Run

LEMMA PoolPlaceInv ==
  ASSUME Inv, PlaceInv, Interrupt \/ StopPool \/ StopRunner \/ Join \/ Start
  PROVE  PlaceInv'
<1>1. /\ queue' = queue /\ current' = current
      /\ registered' = registered /\ done' = done
  BY DEF Interrupt, StopPool, StopRunner, Join, Start, Controller, registered
<1>2. CASE Interrupt \/ StopPool \/ StopRunner \/ Join
  <2>1. pc' = pc
    BY <1>2 DEF Interrupt, StopPool, StopRunner, Join
  <2> QED
    BY <1>1, <2>1 DEF PlaceInv, IdleHoldsNone, EveryCallHasOnePlace, Running
<1>3. CASE Start
  <2>1. \A r \in Runners: pc[r] = "left"
    BY <1>3 DEF Start, Controller, Inv, StoppedIsLeft
  <2>2. IdleHoldsNone'
    BY <1>1, <2>1 DEF PlaceInv, IdleHoldsNone
  <2> QED
    BY <1>1, <2>2 DEF PlaceInv, EveryCallHasOnePlace, Running
<1> QED
  BY <1>2, <1>3

LEMMA NextPlaceInv == Inv /\ PlaceInv /\ [Next]_vars => PlaceInv'
<1> SUFFICES ASSUME Inv, PlaceInv, [Next]_vars PROVE PlaceInv'
  OBVIOUS
<1>1. CASE UNCHANGED vars
  BY <1>1 DEF vars, runners, control, PlaceInv, IdleHoldsNone, EveryCallHasOnePlace, Running, registered
<1> QED
  BY <1>1, RegisterPlaceInv, RunnerPlaceInv, PoolPlaceInv DEF Next

(* No stop, interrupt or restart of the pool, at whatever moment it comes,  *)
(* loses a registered call or lets it be executed twice.                    *)
THEOREM NoCallIsLostOrRepeated == Spec => []EveryCallHasOnePlace
<1>1. PlaceInv => EveryCallHasOnePlace
  BY DEF PlaceInv
<1> QED
  BY InitInv, NextInv, InitPlaceInv, NextPlaceInv, <1>1, PTL DEF Spec

-----------------------------------------------------------------------------
(* The order of the queue.  The positions of a sorted queue whose calls     *)
(* come no later than a new one are its first positions, so that the place  *)
(* found by counting them is the place that keeps the queue sorted.         *)
Sorted == \A i, j \in 1 .. Len(queue): i <= j => Priority[queue[i]] <= Priority[queue[j]]

LEMMA PlaceSplitsQueue ==
  ASSUME queue \in Seq(Calls), Sorted, NEW c \in Calls, NEW i \in 1 .. Len(queue)
  PROVE  i < PlaceOf(c) <=> Priority[queue[i]] <= Priority[c]
<1> DEFINE S == {k \in DOMAIN queue: Priority[queue[k]] <= Priority[c]}
<1>0. Len(queue) \in Nat /\ DOMAIN queue = 1 .. Len(queue)
  OBVIOUS
<1>1. \A k \in 1 .. Len(queue): Priority[queue[k]] \in Int
  BY CallsAssumption
<1>2. Priority[c] \in Int
  BY CallsAssumption
<1>3. IsFiniteSet(S) /\ Cardinality(S) \in Nat
  <2>1. IsFiniteSet(1 .. Len(queue))
    BY <1>0, FS_Interval
  <2> QED
    BY <1>0, <2>1, FS_Subset, FS_CardinalityType
<1>4. PlaceOf(c) = 1 + Cardinality(S)
  BY DEF PlaceOf
<1>5. CASE Priority[queue[i]] <= Priority[c]
  <2>1. 1 .. i \subseteq S
    BY <1>0, <1>1, <1>2, <1>5 DEF Sorted
  <2>2. Cardinality(1 .. i) = i
    BY FS_Interval
  <2>3. i <= Cardinality(S)
    BY <1>3, <2>1, <2>2, FS_Subset
  <2> QED
    BY <1>3, <1>4, <1>5, <2>3
<1>6. CASE ~ (Priority[queue[i]] <= Priority[c])
  <2>1. S \subseteq 1 .. i - 1
    BY <1>0, <1>1, <1>2, <1>6 DEF Sorted
  <2>2. IsFiniteSet(1 .. i - 1) /\ Cardinality(1 .. i - 1) = i - 1
    BY FS_Interval
  <2>3. Cardinality(S) <= i - 1
    BY <2>1, <2>2, FS_Subset
  <2> QED
    BY <1>3, <1>4, <1>6, <2>3
<1> QED
  BY <1>5, <1>6

LEMMA RegisterKeepsSorted ==
  ASSUME Inv, Sorted, NEW c \in Calls, RegisterCall(c)
  PROVE  Sorted'
<1> DEFINE p == PlaceOf(c)
<1>1. queue \in Seq(Calls) /\ Len(queue) \in Nat /\ queue' = InsertAt(queue, p, c)
  BY DEF Inv, TypeOK, RegisterCall
<1>2. p \in 1 .. Len(queue) + 1
  BY <1>1, PlaceIsAPosition
<1>3. \A i \in 1 .. Len(queue): i < p <=> Priority[queue[i]] <= Priority[c]
  BY <1>1, PlaceSplitsQueue
<1> HIDE DEF p
<1>4. /\ Len(queue') = Len(queue) + 1
      /\ \A j \in 1 .. Len(queue) + 1:
           queue'[j] = IF j < p THEN queue[j] ELSE IF j = p THEN c ELSE queue[j - 1]
  BY <1>1, <1>2, InsertAtType, InsertAtValues
<1>5. Priority[c] \in Int /\ \A j \in 1 .. Len(queue): Priority[queue[j]] \in Int
  BY <1>1, CallsAssumption
<1> SUFFICES ASSUME NEW i \in 1 .. Len(queue) + 1, NEW j \in 1 .. Len(queue) + 1, i < j
             PROVE  Priority[queue'[i]] <= Priority[queue'[j]]
  <2>1. \A j \in 1 .. Len(queue) + 1: Priority[queue'[j]] \in Int
    <3> TAKE j \in 1 .. Len(queue) + 1
    <3>1. queue'[j] \in Calls
      BY <1>1, <1>2, <1>4
    <3> QED
      BY <3>1, CallsAssumption
  <2> QED
    BY <1>1, <1>4, <2>1 DEF Sorted
<1>6. CASE j < p
  BY <1>1, <1>2, <1>4, <1>6 DEF Sorted
<1>7. CASE j = p
  BY <1>1, <1>2, <1>3, <1>4, <1>7
<1>8. CASE j > p /\ i < p
  BY <1>1, <1>2, <1>4, <1>8 DEF Sorted
<1>9. CASE j > p /\ i = p
  <2>1. j - 1 \in 1 .. Len(queue) /\ ~ (j - 1 < p)
    BY <1>1, <1>2, <1>9
  <2> QED
    BY <1>2, <1>3, <1>4, <1>5, <1>9, <2>1
<1>10. CASE j > p /\ i > p
  <2>1. i - 1 \in 1 .. Len(queue) /\ j - 1 \in 1 .. Len(queue) /\ i - 1 <= j - 1
    BY <1>1, <1>2, <1>10
  <2>2. queue'[i] = queue[i - 1] /\ queue'[j] = queue[j - 1]
    BY <1>2, <1>4, <1>10
  <2> QED
    BY <2>1, <2>2 DEF Sorted
<1> QED
  BY <1>2, <1>6, <1>7, <1>8, <1>9, <1>10

(* Queued calls of one priority stand in the order of their registration. *)
FirstComeFirst ==
  \A i, j \in 1 .. Len(queue):
    i < j /\ Priority[queue[i]] = Priority[queue[j]] => Before(queue[i], queue[j])

LEMMA RegisterKeepsTheOrderOfEquals ==
  ASSUME Inv, PlaceInv, Sorted, FirstComeFirst, NEW c \in Calls, RegisterCall(c)
  PROVE  FirstComeFirst'
<1> DEFINE p == PlaceOf(c)
<1>1. queue \in Seq(Calls) /\ Len(queue) \in Nat /\ queue' = InsertAt(queue, p, c)
  BY DEF Inv, TypeOK, RegisterCall
<1>2. p \in 1 .. Len(queue) + 1
  BY <1>1, PlaceIsAPosition
<1>3. \A i \in 1 .. Len(queue): i < p <=> Priority[queue[i]] <= Priority[c]
  BY <1>1, PlaceSplitsQueue
<1>4. \A i \in 1 .. Len(queue): queue[i] \in registered /\ queue[i] \in Calls
  BY <1>1 DEF PlaceInv, EveryCallHasOnePlace, Range
<1>5. /\ \A x, y \in Calls: Before(x, y) => Before(x, y)'
      /\ \A x \in registered: Before(x, c)'
  BY Arrives DEF RegisterCall, Inv, TypeOK
<1> HIDE DEF p
<1>6. /\ Len(queue') = Len(queue) + 1
      /\ \A j \in 1 .. Len(queue) + 1:
           queue'[j] = IF j < p THEN queue[j] ELSE IF j = p THEN c ELSE queue[j - 1]
  BY <1>1, <1>2, InsertAtType, InsertAtValues
<1>7. Priority[c] \in Int /\ \A j \in 1 .. Len(queue): Priority[queue[j]] \in Int
  BY <1>1, CallsAssumption
<1> SUFFICES ASSUME NEW i \in 1 .. Len(queue) + 1, NEW j \in 1 .. Len(queue) + 1, i < j,
                    NEW x, NEW y, x = queue'[i], y = queue'[j], Priority[x] = Priority[y]
             PROVE  Before(x, y)'
  BY <1>6 DEF FirstComeFirst, Before
<1> DEFINE Old(k) == IF k < p THEN k ELSE k - 1
<1>8. \A k \in 1 .. Len(queue) + 1:
        k # p => Old(k) \in 1 .. Len(queue) /\ queue'[k] = queue[Old(k)]
  BY <1>1, <1>2, <1>6
<1>9. CASE i # p /\ j # p
  <2>1. Old(i) < Old(j)
    BY <1>1, <1>2, <1>9
  <2> HIDE DEF Old
  <2>2. /\ Old(i) \in 1 .. Len(queue) /\ x = queue[Old(i)]
        /\ Old(j) \in 1 .. Len(queue) /\ y = queue[Old(j)]
    BY <1>8, <1>9
  <2>3. Before(x, y)
    BY <2>1, <2>2 DEF FirstComeFirst
  <2>4. x \in Calls /\ y \in Calls
    BY <1>4, <2>2
  <2> QED
    BY <1>5, <2>3, <2>4
<1>10. CASE j = p
  <2>1. i # p /\ y = c
    BY <1>1, <1>2, <1>6, <1>10
  <2>2. x \in registered
    BY <1>4, <1>8, <2>1
  <2> QED
    BY <1>5, <2>1, <2>2
<1>11. CASE i = p
  <2>1. j # p /\ x = c /\ Old(j) = j - 1 /\ ~ (j - 1 < p)
    BY <1>1, <1>2, <1>6, <1>11
  <2>2. ~ (Priority[y] <= Priority[c])
    BY <1>3, <1>8, <2>1
  <2> QED
    BY <1>7, <2>1, <2>2
<1> QED
  BY <1>9, <1>10, <1>11

(* Every other step leaves the queue alone or takes its first call. *)
LEMMA OthersTakeTheFirst ==
  ASSUME Inv, [Next]_vars
  PROVE  \/ \E c \in Calls: RegisterCall(c)
         \/ queue' = queue
         \/ queue # <<>> /\ queue' = Tail(queue)
BY DEF Next, vars, Run, RunLoop, RunWait, RunStop, RunPop, CallReturns, WorkerGoesOn,
       Interrupt, StopPool, StopRunner, Join, Start, Controller

InOrder == Sorted /\ FirstComeFirst

LEMMA NextInOrder == Inv /\ PlaceInv /\ InOrder /\ [Next]_vars => InOrder'
<1> SUFFICES ASSUME Inv, PlaceInv, InOrder, [Next]_vars PROVE InOrder'
  OBVIOUS
<1>1. Sorted /\ FirstComeFirst
  BY DEF InOrder
<1>2. ASSUME NEW c \in Calls, RegisterCall(c) PROVE InOrder'
  BY <1>1, <1>2, RegisterKeepsSorted, RegisterKeepsTheOrderOfEquals DEF InOrder
<1>3. CASE \A c \in Calls: ~ RegisterCall(c)
  <2>1. arrivals' = arrivals
    BY <1>3 DEF Next, vars, Run, RunLoop, RunWait, RunStop, RunPop, CallReturns, WorkerGoesOn,
       Runner, Interrupt, StopPool, StopRunner, Join, Start, Controller
  <2>2. CASE queue' = queue
    BY <1>1, <2>1, <2>2 DEF InOrder, Sorted, FirstComeFirst, Before
  <2>3. CASE queue # <<>> /\ queue' = Tail(queue)
    <3>1. /\ Len(queue) \in Nat /\ Len(queue') = Len(queue) - 1
          /\ \A j \in 1 .. Len(queue) - 1: queue'[j] = queue[j + 1]
      BY <2>3 DEF Inv, TypeOK
    <3>2. Sorted'
      BY <1>1, <3>1 DEF Sorted
    <3>3. FirstComeFirst'
      <4> SUFFICES ASSUME NEW i \in 1 .. Len(queue) - 1, NEW j \in 1 .. Len(queue) - 1, i < j,
                          NEW x, NEW y, x = queue'[i], y = queue'[j], Priority[x] = Priority[y]
                   PROVE  Before(x, y)'
        BY <3>1 DEF FirstComeFirst, Before
      <4>1. /\ i + 1 \in 1 .. Len(queue) /\ j + 1 \in 1 .. Len(queue) /\ i + 1 < j + 1
            /\ x = queue[i + 1] /\ y = queue[j + 1]
        BY <3>1
      <4>2. Before(x, y)
        BY <1>1, <4>1 DEF FirstComeFirst
      <4> QED
        BY <2>1, <4>2 DEF Before
    <3> QED
      BY <3>2, <3>3 DEF InOrder
  <2> QED
    BY <1>3, <2>2, <2>3, OthersTakeTheFirst
<1> QED
  BY <1>2, <1>3

LEMMA InitInOrder == Init => InOrder
BY DEF Init, InOrder, Sorted, FirstComeFirst

(* Whatever is registered while the runners run, a call that starts has the *)
(* smallest priority value of all that wait, and was registered before all  *)
(* of them that have the same one.                                          *)
THEOREM CallsStartInOrder == Spec => StartsInOrder
<1> DEFINE A == \A c \in Calls: c \in Range(queue) /\ c \notin Range(queue')
                  => \A d \in Range(queue'): IsOwedBefore(c, d)
<1>1. Inv /\ InOrder /\ [Next]_vars => [A]_vars
  <2> SUFFICES ASSUME Inv, InOrder, [Next]_vars,
                      NEW c \in Calls, c \in Range(queue), c \notin Range(queue'),
                      NEW d \in Range(queue')
               PROVE  IsOwedBefore(c, d)
    OBVIOUS
  <2>1. queue' # queue
    OBVIOUS
  <2>2. queue \in Seq(Calls)
    BY DEF Inv, TypeOK
  <2>3. ASSUME NEW e \in Calls, RegisterCall(e) PROVE FALSE
    <3>1. Range(queue') = Range(queue) \cup {e}
      BY <2>2, <2>3, PlaceIsAPosition, InsertAtRange DEF RegisterCall
    <3> QED
      BY <3>1
  <2>4. queue # <<>> /\ queue' = Tail(queue)
    BY <2>1, <2>3, OthersTakeTheFirst
  <2>5. c = Head(queue)
    BY <2>2, <2>4, TailRange
  <2>6. PICK j \in 1 .. Len(queue) - 1: d = Tail(queue)[j]
    BY <2>2, <2>4 DEF Range
  <2>7. /\ d = queue[j + 1] /\ c = queue[1]
        /\ j + 1 \in 1 .. Len(queue) /\ 1 \in 1 .. Len(queue) /\ 1 < j + 1
    BY <2>2, <2>4, <2>5, <2>6
  <2>8. Priority[c] <= Priority[d]
    BY <2>7 DEF InOrder, Sorted
  <2>9. Priority[c] = Priority[d] => Before(c, d)
    BY <2>7 DEF InOrder, FirstComeFirst
  <2>10. Priority[c] \in Int /\ Priority[d] \in Int
    BY <2>2, <2>7, CallsAssumption
  <2> QED
    BY <2>8, <2>9, <2>10 DEF IsOwedBefore
<1>2. Inv /\ PlaceInv /\ InOrder /\ [Next]_vars => Inv' /\ PlaceInv' /\ InOrder'
  BY NextInv, NextPlaceInv, NextInOrder
<1> QED
  BY InitInv, InitPlaceInv, InitInOrder, <1>1, <1>2, PTL DEF Spec, StartsInOrder
=============================================================================
