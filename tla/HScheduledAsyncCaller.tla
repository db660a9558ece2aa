----------------------- MODULE HScheduledAsyncCaller ------------------------
(***************************************************************************)
(* HScheduledAsyncCaller of src/tools/hscheduledasynccaller.cxx: calls     *)
(* that are to be made at a moment of time, kept sorted by it, and run(),  *)
(* a task of the thread pool that hands them to HAsyncCaller.  The clock   *)
(* counts ticks, Second of them a second; ::time() sees whole seconds      *)
(* only.  run() takes no time: the clock moves while it sleeps.            *)
(***************************************************************************)
EXTENDS Integers, FiniteSets

CONSTANTS
  Calls,        \* the calls that may be scheduled, each once
  Second,       \* ticks per second
  Delays,       \* arguments of call_in(), in ticks
  Moments,      \* arguments of call_at(): whole seconds, in ticks
  Horizon       \* bound: the last tick

VARIABLES
  clock,
  queue,        \* _queue: scheduled calls, with their keys
  wanted,       \* the moment the caller asked for, not one of the past, for each
                \* call so far
  handed,       \* when each call was handed to HAsyncCaller
  runner,       \* where run() is
  wakeAt,       \* when its sleep ends by itself; Never: not at all
  loop          \* _loop

schedulerVars == <<clock, queue, wanted, handed, runner, wakeAt, loop>>

Never == -1

Init ==
  /\ clock = 0
  /\ queue = {}
  /\ wanted = [c \in {} |-> 0]
  /\ handed = [c \in {} |-> 0]
  /\ runner = "loop"
  /\ wakeAt = Never
  /\ loop = TRUE

(* ::time( nullptr ) * si::NANO_IN_WHOLE *)
Whole(t) == t - (t % Second)
Now == Whole(clock)

(* _condition.signal() *)
Signal == runner' = IF runner = "asleep" THEN "loop" ELSE runner

Schedule(c, key, moment) ==
  /\ c \notin DOMAIN wanted
  /\ queue' = queue \cup {[call |-> c, key |-> key]}
  /\ wanted' = [d \in DOMAIN wanted \cup {c} |-> IF d # c THEN wanted[d]
                       ELSE IF moment < clock THEN clock ELSE moment]
  /\ UNCHANGED <<clock, handed, wakeAt, loop>>

CallAt(c, moment) == Schedule(c, moment, moment) /\ Signal

CallInUnsignalled(c, delay) == Schedule(c, Now + delay, clock + delay) /\ UNCHANGED runner
CallIn(c, delay) == Schedule(c, Now + delay, clock + delay) /\ Signal

(* flush(): removes what one invoker has scheduled; run() is not told. *)
Flush(invoked) ==
  /\ \E q \in queue: q.call \in invoked
  /\ queue' = {q \in queue: q.call \notin invoked}
  /\ UNCHANGED <<clock, wanted, handed, runner, wakeAt, loop>>

(* stop(), called by the work flow for INTERRUPT and at its end. *)
Stop ==
  /\ loop
  /\ loop' = FALSE
  /\ Signal
  /\ UNCHANGED <<clock, queue, wanted, handed, wakeAt>>

-----------------------------------------------------------------------------
Due == {q \in queue: q.key <= Now}
HandOver ==
  handed' = [c \in DOMAIN handed \cup {q.call: q \in Due} |->
               IF c \in DOMAIN handed THEN handed[c] ELSE clock]

(* One round of run(): hands over what is due, sleeps till the first of the *)
(* rest is.  The mutex is held from the test of the loop to the sleep.      *)
Round ==
  /\ runner = "loop" /\ loop
  /\ HandOver
  /\ queue' = queue \ Due
  /\ \/ queue' = {} /\ wakeAt' = Never
     \/ \E q \in queue':
          /\ \A other \in queue': q.key <= other.key
          /\ wakeAt' = clock + (q.key - Now)
  /\ runner' = "asleep"
  /\ UNCHANGED <<clock, wanted, loop>>

(* run() returns when _loop is clear ... *)
Return ==
  /\ runner = "loop" /\ ~loop
  /\ runner' = "returned"
  /\ UNCHANGED <<clock, queue, wanted, handed, wakeAt, loop>>

(* ... and want_restart() makes the work flow schedule run() again. *)
Restart ==
  /\ runner = "returned"
  /\ runner' = "loop"
  /\ UNCHANGED <<clock, queue, wanted, handed, wakeAt, loop>>

WakeInTime ==
  /\ runner = "asleep" /\ wakeAt # Never
  /\ clock >= wakeAt
  /\ runner' = "loop"
  /\ UNCHANGED <<clock, queue, wanted, handed, wakeAt, loop>>

WakeUnsignalled ==
  /\ runner = "asleep"
  /\ runner' = "loop"
  /\ UNCHANGED <<clock, queue, wanted, handed, wakeAt, loop>>

Tick ==
  /\ clock < Horizon
  /\ runner # "loop"
  /\ runner = "asleep" => wakeAt = Never \/ clock < wakeAt
  /\ clock' = clock + 1
  /\ UNCHANGED <<queue, wanted, handed, runner, wakeAt, loop>>

Next ==
  \/ \E c \in Calls: \/ \E m \in Moments: CallAt(c, m)
                     \/ \E d \in Delays: CallIn(c, d)
  \/ \E cs \in SUBSET Calls: Flush(cs)
  \/ Stop \/ Round \/ Return \/ Restart \/ WakeInTime \/ WakeUnsignalled \/ Tick

Spec == Init /\ [][Next]_schedulerVars

-----------------------------------------------------------------------------
TypeOK ==
  /\ clock \in 0 .. Horizon
  /\ queue \subseteq [call: Calls, key: Int]
  /\ DOMAIN wanted \subseteq Calls /\ DOMAIN handed \subseteq DOMAIN wanted
  /\ runner \in {"loop", "asleep", "returned"}
  /\ loop \in BOOLEAN

(* call_in() counts from the beginning of the current second, but run()     *)
(* hands a call over at the beginning of a second only: a call may be made  *)
(* early, but not before the second its moment is in, so that what          *)
(* call_at() was given, a whole second, is never early.                     *)
NotBeforeItsSecond == \A c \in DOMAIN handed: handed[c] >= Whole(wanted[c])

(* While it is not stopped no call is left behind: however many sleeps it   *)
(* takes, each of them computed from a clock of whole seconds, and whatever *)
(* was scheduled, flushed or woken meanwhile, it is not a second late.      *)
LateByLessThanASecond ==
  loop => \A q \in queue: clock < wanted[q.call] + Second
=============================================================================
