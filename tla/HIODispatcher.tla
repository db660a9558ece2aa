--------------------------- MODULE HIODispatcher ----------------------------
(***************************************************************************)
(* HIODispatcher of src/tools/hiodispatcher.cxx: the event loop run() with *)
(* the streams that are registered in it.  Callbacks run in the loop, and  *)
(* what they register and unregister takes effect at the end of the round. *)
(* Other threads and processes only put messages into the streams; one of  *)
(* them is the pipe _event that stop() and the signal handler write to.    *)
(* A callback reads one message.  From _event it reads exactly that; from  *)
(* the others by lines, so that what the system has for the stream moves   *)
(* to the buffer of the stream, where poll() does not see it.              *)
(***************************************************************************)
EXTENDS Naturals, Sequences, FiniteSets, SequencesExt

CONSTANTS
  Streams,       \* the streams of the application
  Event,         \* the reading end of _event
  Reregister,    \* whether a callback may register what was unregistered in the round
  MaxMessages,   \* bound: messages into each stream
  MaxChanges     \* bound: calls of register and unregister

VARIABLES
  phase,         \* where run() is
  index,         \* the position of the loops over the handlers
  active,        \* the result of dispatch_pending_reads() so far
  handlers,      \* _handlers
  refs,          \* _refs and _pollfds: handlers in the order of the loops
  valid,         \* _valid
  added,         \* _newIOHandlers
  dropped,       \* _droppedIOHandlers
  revents,       \* streams that the last poll() found readable
  running,       \* _loop
  inbox,         \* messages of each stream that the system holds
  buffered,      \* messages in the read buffer of each stream
  sent,          \* messages put into each stream (bounded by MaxMessages)
  intended,      \* streams the application wants to be called for
  changes        \* calls of register and unregister (bounded by MaxChanges)

dispatcherVars == <<phase, index, active, handlers, refs, valid, added, dropped,
  revents, running, inbox, buffered, sent, intended, changes>>

All == Streams \cup {Event}

Init ==
  /\ phase = "top" /\ index = 1 /\ active = FALSE
  /\ handlers = All /\ intended = All
  /\ refs = <<>> /\ valid = FALSE
  /\ added = <<>> /\ dropped = {}
  /\ revents = {}
  /\ running = TRUE
  /\ inbox = [s \in All |-> <<>>] /\ buffered = [s \in All |-> <<>>]
  /\ sent = [s \in All |-> 0]
  /\ changes = 0

-----------------------------------------------------------------------------
(* The outside: data arrives, stop() and handler_interrupt() write to _event.*)
Write(s, message) ==
  /\ sent[s] < MaxMessages[s]
  /\ sent' = [sent EXCEPT ![s] = @ + 1]
  /\ inbox' = [inbox EXCEPT ![s] = Append(@, message)]
  /\ UNCHANGED <<phase, index, active, handlers, refs, valid, added, dropped,
                 revents, running, buffered, intended, changes>>

Arrive == \E s \in Streams: Write(s, "line")
Stop   == Write(Event, "INT")
Hangup == Write(Event, "HUP")

-----------------------------------------------------------------------------
(* register_file_descriptor_handler() and unregister_file_descriptor_handler()*)
(* in a callback.                                                           *)
MayRegister(s) == s \notin intended /\ (s \notin dropped \/ Reregister)

ChangeNothing == UNCHANGED <<added, dropped, intended, changes>>

Register(s) ==
  /\ changes < MaxChanges /\ changes' = changes + 1
  /\ MayRegister(s)
  /\ added' = Append(added, s)
  /\ intended' = intended \cup {s}
  /\ UNCHANGED dropped

Unregister(s) ==
  /\ changes < MaxChanges /\ changes' = changes + 1
  /\ s \in intended
  /\ dropped' = dropped \cup {s}
  /\ intended' = intended \ {s}
  /\ UNCHANGED added

Change == ChangeNothing \/ \E s \in Streams: Register(s) \/ Unregister(s)

(* HIOHandler::call(): process_interrupt() for _event, a callback of the    *)
(* application for the others.                                              *)
Call(s) ==
  IF s = Event
  THEN /\ running' = (running /\ Head(inbox[s]) # "INT")
       /\ inbox' = [inbox EXCEPT ![s] = Tail(@)]
       /\ ChangeNothing
       /\ UNCHANGED buffered
  ELSE /\ LET lines == IF buffered[s] = <<>> THEN inbox[s] ELSE buffered[s]
          IN buffered' = [buffered EXCEPT ![s] = Tail(lines)]
       /\ inbox' = IF buffered[s] = <<>> THEN [inbox EXCEPT ![s] = <<>>] ELSE inbox
       /\ Change
       /\ UNCHANGED running

NoCall == UNCHANGED <<running, inbox, buffered, added, dropped, intended, changes>>

-----------------------------------------------------------------------------
(* One round of run(): handle_alerts(), whose calls may register and        *)
(* unregister, and reconstruct().                                           *)
Top ==
  /\ phase = "top" /\ running
  /\ phase' = "pending"
  /\ Change
  /\ IF valid THEN UNCHANGED refs ELSE refs' \in SetToSeqs(handlers)
  /\ valid' = TRUE
  /\ index' = 1 /\ active' = FALSE /\ revents' = {}
  /\ UNCHANGED <<handlers, running, inbox, buffered, sent>>

Return ==
  /\ phase = "top"
  /\ phase' = "out"
  /\ UNCHANGED <<index, active, handlers, refs, valid, added, dropped, revents,
                 running, inbox, buffered, sent, intended, changes>>

Leave == ~running /\ Return

(* _isKilled_, which a signal handler of the process sets. *)
Killed == Return

(* dispatch_pending_reads(), repeated while it finds something. *)
PendingStep ==
  /\ phase = "pending" /\ index <= Len(refs)
  /\ IF buffered[refs[index]] # <<>> /\ refs[index] \notin dropped
     THEN Call(refs[index]) /\ active' = TRUE
     ELSE NoCall /\ UNCHANGED active
  /\ index' = index + 1
  /\ UNCHANGED <<phase, handlers, refs, valid, revents, sent>>

PendingEnd ==
  /\ phase = "pending" /\ index > Len(refs)
  /\ phase' = IF active THEN "pending" ELSE "poll"
  /\ index' = 1 /\ active' = FALSE
  /\ UNCHANGED <<handlers, refs, valid, added, dropped, revents, running, inbox,
                 buffered, sent, intended, changes>>

Poll ==
  /\ phase = "poll"
  /\ \E s \in handlers: inbox[s] # <<>>
  /\ revents' = {s \in handlers: inbox[s] # <<>>}
  /\ phase' = "dispatch" /\ index' = 1
  /\ UNCHANGED <<active, handlers, refs, valid, added, dropped, running, inbox,
                 buffered, sent, intended, changes>>

(* poll() times out: handle_idle(), whose calls may register and unregister.*)
Idle ==
  /\ phase = "poll"
  /\ \A s \in handlers: inbox[s] = <<>>
  /\ phase' = "commit"
  /\ Change
  /\ UNCHANGED <<index, active, handlers, refs, valid, revents, running, inbox,
                 buffered, sent>>

DispatchDroppedToo ==
  /\ phase = "dispatch" /\ index <= Len(refs)
  /\ IF refs[index] \in revents THEN Call(refs[index]) ELSE NoCall
  /\ index' = index + 1
  /\ UNCHANGED <<phase, active, handlers, refs, valid, revents, sent>>

DispatchStep ==
  /\ phase = "dispatch" /\ index <= Len(refs)
  /\ IF refs[index] \in revents \ dropped THEN Call(refs[index]) ELSE NoCall
  /\ index' = index + 1
  /\ UNCHANGED <<phase, active, handlers, refs, valid, revents, sent>>

DispatchEnd ==
  /\ phase = "dispatch" /\ index > Len(refs)
  /\ phase' = "commit"
  /\ UNCHANGED <<index, active, handlers, refs, valid, added, dropped, revents,
                 running, inbox, buffered, sent, intended, changes>>

CommitKeepingRefs ==
  /\ phase = "commit"
  /\ phase' = "top"
  /\ handlers' = (handlers \cup ToSet(added)) \ dropped
  /\ valid' = (valid /\ added = <<>>)
  /\ added' = <<>> /\ dropped' = {}
  /\ UNCHANGED <<index, active, refs, revents, running, inbox, buffered, sent,
                 intended, changes>>

(* The end of the round: first what callbacks registered, then what they    *)
(* unregistered.  Each of the two refuses what does not fit _handlers.      *)
Commit ==
  /\ phase = "commit"
  /\ IF ToSet(added) \cap handlers # {} \/ ~IsInjective(added)
        \/ ~(dropped \subseteq handlers \cup ToSet(added))
     THEN phase' = "thrown" /\ UNCHANGED <<handlers, valid, added, dropped>>
     ELSE /\ phase' = "top"
          /\ handlers' = (handlers \cup ToSet(added)) \ dropped
          /\ valid' = (valid /\ added = <<>> /\ dropped = {})
          /\ added' = <<>> /\ dropped' = {}
  /\ UNCHANGED <<index, active, refs, revents, running, inbox, buffered, sent,
                 intended, changes>>

Run ==
  \/ Top \/ Leave \/ PendingStep \/ PendingEnd \/ Poll \/ Idle \/ DispatchStep \/ DispatchEnd
  \/ Commit

Next == Run \/ Killed \/ Arrive \/ Stop \/ Hangup

Spec == Init /\ [][Next]_dispatcherVars

(* The thread in run() keeps going; poll() has a time limit. *)
Fairness == WF_dispatcherVars(Run)

-----------------------------------------------------------------------------
TypeOK ==
  /\ phase \in {"top", "pending", "poll", "dispatch", "commit", "out", "thrown"}
  /\ handlers \subseteq All /\ intended \subseteq All /\ dropped \subseteq All
  /\ refs \in Seq(All) /\ added \in Seq(Streams)
  /\ revents \subseteq All
  /\ \A s \in All: Len(inbox[s]) + Len(buffered[s]) <= MaxMessages[s]

(* The pointers that the loops go through are those of the handlers there   *)
(* are: none is of a handler that was erased, and none is missing.          *)
RefsAreCurrent ==
  phase \in {"pending", "poll", "dispatch"} => IsInjective(refs) /\ ToSet(refs) = handlers

(* Between rounds the registered streams are those the application wants,   *)
(* whatever callbacks of the round registered and unregistered.             *)
ChangesTakeEffect == phase = "top" => handlers = intended

(* A stream that an earlier callback of the round unregistered is not       *)
(* called, although poll() found it readable or its buffer has more.        *)
DroppedIsNotCalled ==
  [][\A s \in All: inbox'[s] \o buffered'[s] # inbox[s] \o buffered[s]
        /\ Len(inbox'[s]) + Len(buffered'[s]) < Len(inbox[s]) + Len(buffered[s])
      => s \in intended]_dispatcherVars

(* M_ENSURE( ..., "Stream is already registered in the HIODispatcher." ):   *)
(* a stream that is not registered can be.                                  *)
RegistrationIsAccepted == phase # "thrown"

(* stop() ends run(), whatever else is in _event and in the other streams.  *)
StopIsServed == (\E i \in DOMAIN inbox[Event]: inbox[Event][i] = "INT") ~> phase \in {"out", "thrown"}

(* Every message is read by a callback while its stream stays registered    *)
(* and run() has not returned, also one that poll() does not see any more.  *)
MessagesAreServed ==
  \A s \in Streams:
    inbox[s] \o buffered[s] # <<>> /\ s \in intended
      ~> inbox[s] \o buffered[s] = <<>> \/ s \notin intended \/ phase = "out"
=============================================================================
