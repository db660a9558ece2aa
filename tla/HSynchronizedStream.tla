------------------------ MODULE HSynchronizedStream -------------------------
(***************************************************************************)
(* HSynchronizedStream of src/hcore/hsynchronizedstream.cxx: a stream that *)
(* threads share, on a recursive HMutex.  Every call locks it, and         *)
(* acquire() gives an HLock that keeps it over several calls.  A stream    *)
(* that refers to itself, such as HLog, calls itself to do the work.       *)
(***************************************************************************)
EXTENDS Naturals, Sequences, SequencesExt

CONSTANTS
  Writers,       \* threads that share the stream
  Targets,       \* streams that it may own
  Assigns,       \* whether an HLock is assigned to one that is locked
  MaxStreamCalls \* bound: calls and locks of one thread

NoWriter == "nobody"
Self == "self"
NoTarget == "no stream"

VARIABLES
  streamHolder,  \* who has the recursive mutex
  depth,         \* how often
  within,        \* where each thread is in a call
  calling,       \* the call it makes
  guards,        \* how many HLocks of acquire() it has
  streamRef,     \* _streamRef
  existing,      \* streams that exist: the one that is owned
  written,       \* what the stream was given: by whom and in whose width
  readBy,        \* who read the items of the input
  width,         \* who set the width of the next item
  referred,      \* the stream that each thread has found in _streamRef
  streamCalls    \* calls of each thread (bounded by MaxStreamCalls)

syncVars == <<streamHolder, depth, within, calling, guards, streamRef, existing, written,
  readBy, width, referred, streamCalls>>

Init ==
  /\ streamHolder = NoWriter /\ depth = 0
  /\ within = [t \in Writers |-> "idle"]
  /\ calling = [t \in Writers |-> "none"]
  /\ guards = [t \in Writers |-> 0]
  /\ streamRef \in {Self} \cup Targets
  /\ existing = {streamRef}
  /\ written = <<>> /\ readBy = <<>> /\ width = NoWriter
  /\ referred = [t \in Writers |-> NoTarget]
  /\ streamCalls = [t \in Writers |-> 0]

stream == <<streamRef, existing, written, readBy, width, referred>>

(* HMutex::lock() and unlock() of the recursive kind. *)
MayLock(t) == streamHolder \in {NoWriter, t}
Lock(t)    == MayLock(t) /\ streamHolder' = t /\ depth' = depth + 1

Unlock(t) ==
  /\ streamHolder = t
  /\ depth' = depth - 1
  /\ streamHolder' = IF depth = 1 THEN NoWriter ELSE t

Counted(t) ==
  streamCalls[t] < MaxStreamCalls /\ streamCalls' = [streamCalls EXCEPT ![t] = @ + 1]

Moves(t, from, to) == within[t] = from /\ within' = [within EXCEPT ![t] = to]

-----------------------------------------------------------------------------
(* acquire(), and the end of the HLock it gives. *)
Acquire(t) ==
  /\ Moves(t, "acquiring", "idle") /\ Lock(t)
  /\ guards' = [guards EXCEPT ![t] = @ + 1]
  /\ UNCHANGED <<calling, stream, streamCalls>>

(* HLock( mutex, TENTATIVE ), try_lock().  HLock::operator = ( HLock&& )     *)
(* forgets what its target had locked.                                       *)
TryAcquire(t) ==
  /\ within[t] = "idle" /\ Counted(t)
  /\ IF MayLock(t)
     THEN /\ Lock(t)
          /\ guards' \in {[guards EXCEPT ![t] = @ + 1]}
                         \cup IF Assigns /\ guards[t] > 0 THEN {guards} ELSE {}
     ELSE UNCHANGED <<streamHolder, depth, guards>>
  /\ UNCHANGED <<within, calling, stream>>

Release(t) ==
  /\ within[t] = "idle" /\ guards[t] > 0
  /\ Unlock(t)
  /\ guards' = [guards EXCEPT ![t] = @ - 1]
  /\ UNCHANGED <<within, calling, stream, streamCalls>>

-----------------------------------------------------------------------------
(* A call asks for the mutex. *)
Kinds == {"output", "input", "set width", "reset"}

Begin(t) ==
  /\ Counted(t)
  /\ \/ Moves(t, "idle", "acquiring") /\ UNCHANGED calling
     \/ /\ Moves(t, "idle", "asking")
        /\ \E c \in Kinds: /\ c = "reset" => streamRef # Self
                           /\ calling' = [calling EXCEPT ![t] = c]
  /\ UNCHANGED <<streamHolder, depth, guards, stream>>

Enter(t) ==
  /\ Moves(t, "asking", "locked") /\ Lock(t)
  /\ referred' = [referred EXCEPT ![t] = streamRef]
  /\ UNCHANGED <<calling, guards, streamRef, existing, written, readBy, width, streamCalls>>

(* What the call does, in the stream that is referred to.                   *)
Output(t) ==
  /\ calling[t] = "output"
  /\ IF referred[t] = NoTarget THEN UNCHANGED <<written, width>>
     ELSE written' = Append(written, [by |-> t, width |-> width]) /\ width' = NoWriter
  /\ UNCHANGED <<streamRef, existing, readBy, referred>>

Input(t) ==
  /\ calling[t] = "input"
  /\ readBy' = IF referred[t] = NoTarget THEN readBy ELSE Append(readBy, t)
  /\ UNCHANGED <<streamRef, existing, written, width, referred>>

SetWidth(t) ==
  /\ calling[t] = "set width"
  /\ width' = IF referred[t] = NoTarget THEN width ELSE t
  /\ UNCHANGED <<streamRef, existing, written, readBy, referred>>

(* reset_owned(): the stream that was owned is destroyed, if nobody else    *)
(* owns it.                                                                 *)
ResetOwned(t) ==
  /\ calling[t] = "reset"
  /\ streamRef' \in (Targets \cup {NoTarget}) \ {streamRef}
  /\ existing' = {streamRef'} \ {NoTarget}
  /\ width' = NoWriter
  /\ UNCHANGED <<written, readBy, referred>>

Work(t) == Output(t) \/ Input(t) \/ SetWidth(t) \/ ResetOwned(t)

(* The call of another stream. *)
Forward(t) ==
  /\ Moves(t, "locked", "done") /\ referred[t] # Self
  /\ Work(t)
  /\ UNCHANGED <<streamHolder, depth, calling, guards, streamCalls>>

(* The call of itself: HStreamInterface calls write() or read(), virtual    *)
(* functions that lock the mutex again.                                     *)
EnterAgain(t) ==
  /\ Moves(t, "locked", "locked twice") /\ referred[t] = Self
  /\ Lock(t)
  /\ UNCHANGED <<calling, guards, stream, streamCalls>>

ForwardToSelf(t) ==
  /\ Moves(t, "locked twice", "done twice")
  /\ Work(t)
  /\ UNCHANGED <<streamHolder, depth, calling, guards, streamCalls>>

LeaveInner(t) ==
  /\ Moves(t, "done twice", "done") /\ Unlock(t)
  /\ UNCHANGED <<calling, guards, stream, streamCalls>>

Leave(t) ==
  /\ Moves(t, "done", "idle") /\ Unlock(t)
  /\ calling' = [calling EXCEPT ![t] = "none"]
  /\ referred' = [referred EXCEPT ![t] = NoTarget]
  /\ UNCHANGED <<guards, streamRef, existing, written, readBy, width, streamCalls>>

Continue(t) == Forward(t) \/ EnterAgain(t) \/ ForwardToSelf(t) \/ LeaveInner(t) \/ Leave(t)

Next ==
  \E t \in Writers: Begin(t) \/ Acquire(t) \/ TryAcquire(t) \/ Release(t)
                    \/ Enter(t) \/ Continue(t)

Spec == Init /\ [][Next]_syncVars

-----------------------------------------------------------------------------
Inside(t) == within[t] \in {"locked", "locked twice", "done twice", "done"}

TypeOK ==
  /\ streamHolder \in Writers \cup {NoWriter} /\ depth \in Nat
  /\ within \in [Writers -> {"idle", "acquiring", "asking", "locked", "locked twice",
                             "done twice", "done"}]
  /\ calling \in [Writers -> Kinds \cup {"none"}]
  /\ streamRef \in Targets \cup {Self, NoTarget}
  /\ referred \in [Writers -> Targets \cup {Self, NoTarget}]

(* The mutex is counted as often as there are calls and HLocks, so it is    *)
(* free when the last of them ends, and no two threads are in the stream.   *)
LocksAreCounted ==
  \A t \in Writers:
    /\ Inside(t) \/ guards[t] > 0 => streamHolder = t
    /\ streamHolder = t =>
         depth = guards[t] + (IF within[t] \in {"locked twice", "done twice"} THEN 2
                              ELSE IF Inside(t) THEN 1 ELSE 0)

(* The stream that a call has found is not replaced and destroyed by another *)
(* thread before the call is done with it.                                   *)
StreamIsThere ==
  \A t \in Writers: within[t] \in {"locked", "locked twice"} =>
    referred[t] \in existing \cup {NoTarget}

(* While a thread has the HLock of acquire(), what it writes and reads stays *)
(* together, in the width that it set, also if the others take no HLock.     *)
GuardedCallsStayTogether ==
  [][\A t \in Writers: guards[t] > 0 =>
       /\ written' # written => Last(written').by = t
       /\ readBy' # readBy => Last(readBy') = t
       /\ width = t /\ width' # t => calling[t] \in {"output", "reset"}
       /\ width # t /\ width' # width => width' = t \/ calling[t] \in {"output", "reset"}]_syncVars
=============================================================================
