------------------------- MODULE HIODispatcherProofs -------------------------
(***************************************************************************)
(* Proofs about HIODispatcher for any number of streams, messages and      *)
(* changes in callbacks, when no callback registers anew what another one  *)
(* of its round has unregistered.                                          *)
(***************************************************************************)
EXTENDS HIODispatcher, SequenceTheorems, FiniteSetTheorems, TLAPS

Callbacks == ~ Reregister /\ Event \notin Streams /\ IsFiniteSet(Streams)

Messages == {"line", "INT", "HUP"}

Stages == {"top", "pending", "poll", "dispatch", "commit", "out", "thrown"}

VariablesInv ==
  /\ phase \in Stages
  /\ index \in Nat \ {0}
  /\ handlers \in SUBSET All /\ dropped \in SUBSET All /\ intended \in SUBSET All
  /\ added \in Seq(Streams)
  /\ inbox \in [All -> Seq(Messages)] /\ buffered \in [All -> Seq(Messages)]
  /\ sent \in [All -> Int]

(* What the application wants is what _handlers will be once the changes of *)
(* the round are made, and each of them can be made.                        *)
ChangesInv ==
  /\ intended = (handlers \cup ToSet(added)) \ dropped
  /\ dropped \subseteq handlers \cup ToSet(added)
  /\ ToSet(added) \cap handlers = {}
  /\ IsInjective(added)
  /\ phase = "top" => added = <<>> /\ dropped = {}
  /\ phase # "thrown"

(* The loops find handlers that are there, each once: _refs is rebuilt      *)
(* before a round when handlers came or went.                               *)
RefsInv ==
  /\ refs \in Seq(All)
  /\ valid \/ phase \in {"pending", "poll", "dispatch"} =>
       ToSet(refs) = handlers /\ IsInjective(refs)

(* What poll() found readable still is when its turn comes; _event is never *)
(* read ahead.                                                              *)
ReadableInv ==
  /\ buffered[Event] = <<>>
  /\ phase = "dispatch" =>
       \A i \in DOMAIN refs: i >= index /\ refs[i] \in revents => inbox[refs[i]] # <<>>

Inv == VariablesInv /\ ChangesInv /\ RefsInv /\ ReadableInv

LEMMA AddedToSet ==
  ASSUME NEW S, NEW q \in Seq(S), NEW x \in S
  PROVE  /\ Append(q, x) \in Seq(S)
         /\ ToSet(Append(q, x)) = ToSet(q) \cup {x}
         /\ x \notin ToSet(q) /\ IsInjective(q) => IsInjective(Append(q, x))
<1>1. /\ Append(q, x) \in Seq(S)
      /\ DOMAIN Append(q, x) = 1 .. Len(q) + 1 /\ DOMAIN q = 1 .. Len(q) /\ Len(q) \in Nat
      /\ Append(q, x)[Len(q) + 1] = x
      /\ \A i \in 1 .. Len(q): Append(q, x)[i] = q[i]
  OBVIOUS
<1>2. ToSet(Append(q, x)) = ToSet(q) \cup {x}
  BY <1>1 DEF ToSet
<1>3. ASSUME x \notin ToSet(q), IsInjective(q) PROVE IsInjective(Append(q, x))
  <2>1. \A i \in 1 .. Len(q): q[i] # x
    BY <1>1, <1>3 DEF ToSet
  <2> QED
    BY <1>1, <1>3, <2>1 DEF IsInjective
<1> QED
  BY <1>1, <1>2, <1>3

LEMMA RestIsSequence ==
  ASSUME NEW S, NEW q \in Seq(S), q # <<>>
  PROVE  Tail(q) \in Seq(S) /\ Len(Tail(q)) = Len(q) - 1
BY HeadTailProperties

LEMMA LongerIsSequence ==
  ASSUME NEW S, NEW q \in Seq(S), NEW x \in S
  PROVE  Append(q, x) \in Seq(S) /\ Len(Append(q, x)) = Len(q) + 1 /\ Append(q, x) # <<>>
BY AppendProperties

(* A callback keeps what ChangesInv says.                                   *)
LEMMA ChangeKeeps ==
  ASSUME Callbacks, Inv, phase \in {"top", "pending", "poll", "dispatch"},
         Change, phase' \in {"pending", "dispatch", "commit"}, UNCHANGED handlers
  PROVE  /\ added' \in Seq(Streams) /\ dropped' \in SUBSET All /\ intended' \in SUBSET All
         /\ ChangesInv'
<1> USE DEF Inv, VariablesInv, ChangesInv, Callbacks, All
<1>1. CASE ChangeNothing
  BY <1>1 DEF ChangeNothing
<1>2. ASSUME NEW s \in Streams, Register(s) PROVE added' \in Seq(Streams) /\ dropped' \in SUBSET All
                                                  /\ intended' \in SUBSET All /\ ChangesInv'
  <2>1. /\ added' = Append(added, s) /\ intended' = intended \cup {s} /\ dropped' = dropped
        /\ s \notin intended /\ s \notin dropped
    BY <1>2 DEF Register, MayRegister
  <2>2. s \notin handlers /\ s \notin ToSet(added)
    BY <2>1
  <2>3. /\ added' \in Seq(Streams) /\ ToSet(added') = ToSet(added) \cup {s}
        /\ IsInjective(added')
    BY <2>1, <2>2, AddedToSet
  <2> QED
    BY <2>1, <2>2, <2>3
<1>3. ASSUME NEW s \in Streams, Unregister(s) PROVE added' \in Seq(Streams) /\ dropped' \in SUBSET All
                                                    /\ intended' \in SUBSET All /\ ChangesInv'
  BY <1>3 DEF Unregister
<1> QED
  BY <1>1, <1>2, <1>3 DEF Change


(* A call takes messages of its own stream only, and keeps the rest.        *)
LEMMA CallKeeps ==
  ASSUME Callbacks, Inv, phase \in {"pending", "dispatch"}, NEW s \in handlers, Call(s),
         IF s = Event THEN inbox[s] # <<>> ELSE inbox[s] # <<>> \/ buffered[s] # <<>>,
         phase' = phase, UNCHANGED handlers
  PROVE  /\ inbox' \in [All -> Seq(Messages)] /\ buffered' \in [All -> Seq(Messages)]
         /\ \A r \in All \ {s}: inbox'[r] = inbox[r] /\ buffered'[r] = buffered[r]
         /\ buffered'[Event] = <<>>
         /\ added' \in Seq(Streams) /\ dropped' \in SUBSET All /\ intended' \in SUBSET All
         /\ ChangesInv'
<1> USE DEF Inv, VariablesInv, ReadableInv, Callbacks, All, Call
<1>1. CASE s = Event
  <2>1. /\ inbox' = [inbox EXCEPT ![s] = Tail(inbox[s])] /\ buffered' = buffered /\ ChangeNothing
        /\ inbox[s] # <<>>
    BY <1>1
  <2>2. ChangesInv'
    BY <2>1 DEF ChangeNothing, ChangesInv
  <2>3. Tail(inbox[s]) \in Seq(Messages)
    BY <2>1, RestIsSequence
  <2> QED
    BY <2>1, <2>2, <2>3 DEF ChangeNothing
<1>2. CASE s # Event
  <2> DEFINE lines == IF buffered[s] = <<>> THEN inbox[s] ELSE buffered[s]
  <2>1. lines \in Seq(Messages) /\ lines # <<>>
    BY <1>2
  <2>2. Tail(lines) \in Seq(Messages)
    BY <2>1, RestIsSequence
  <2>3. /\ buffered' = [buffered EXCEPT ![s] = Tail(lines)] /\ Change
        /\ inbox' = IF buffered[s] = <<>> THEN [inbox EXCEPT ![s] = <<>>] ELSE inbox
    BY <1>2
  <2> HIDE DEF lines
  <2>4. inbox' \in [All -> Seq(Messages)] /\ buffered' \in [All -> Seq(Messages)]
    BY <2>2, <2>3
  <2>5. /\ \A r \in All \ {s}: inbox'[r] = inbox[r] /\ buffered'[r] = buffered[r]
        /\ buffered'[Event] = <<>>
    BY <1>2, <2>3
  <2> QED
    BY <2>3, <2>4, <2>5, ChangeKeeps
<1> QED
  BY <1>1, <1>2

LEMMA InitInv == Callbacks => (Init => Inv)
<1> SUFFICES ASSUME Init PROVE Inv
  OBVIOUS
<1>1. ToSet(<<>>) = {} /\ IsInjective(<<>>) /\ refs = <<>> /\ added = <<>>
  BY DEF Init, ToSet, IsInjective
<1>2. VariablesInv /\ ReadableInv
  BY DEF Init, All, VariablesInv, ReadableInv, Stages
<1> QED
  BY <1>1, <1>2 DEF Init, All, Inv, ChangesInv, RefsInv

LEMMA OutsideWrites ==
  ASSUME Arrive \/ Stop \/ Hangup
  PROVE  \E s \in All, m \in Messages: Write(s, m)
<1>1. "line" \in Messages /\ "INT" \in Messages /\ "HUP" \in Messages
  BY DEF Messages
<1>2. Event \in All /\ Streams \subseteq All
  BY DEF All
<1>3. CASE Arrive
  BY <1>1, <1>2, <1>3 DEF Arrive
<1>4. CASE Stop \/ Hangup
  BY <1>1, <1>2, <1>4 DEF Stop, Hangup
<1> QED
  BY <1>3, <1>4

(* Messages come in at the end.                                             *)
LEMMA WriteKeeps ==
  ASSUME Inv, NEW s \in All, NEW m \in Messages, Write(s, m)
  PROVE  /\ Inv'
         /\ \A r \in All: Len(inbox'[r]) >= Len(inbox[r]) /\ buffered'[r] = buffered[r]
<1> DEFINE longer == Append(inbox[s], m)
<1>0. inbox \in [All -> Seq(Messages)] /\ inbox' = [inbox EXCEPT ![s] = longer]
  BY DEF Write, Inv, VariablesInv
<1>a. longer \in Seq(Messages) /\ Len(longer) = Len(inbox[s]) + 1 /\ longer # <<>>
  BY <1>0, LongerIsSequence
<1> HIDE DEF longer
<1>1. inbox' \in [All -> Seq(Messages)] /\ sent' \in [All -> Int]
  <2>1. sent \in [All -> Int] /\ sent' = [sent EXCEPT ![s] = sent[s] + 1]
    BY DEF Write, Inv, VariablesInv
  <2> QED
    BY <1>0, <1>a, <2>1
<1>2. ASSUME NEW r \in All PROVE Len(inbox'[r]) >= Len(inbox[r]) /\ (inbox[r] # <<>> => inbox'[r] # <<>>)
  <2>1. Len(inbox[r]) \in Nat
    BY <1>0
  <2> QED
    BY <1>0, <1>a, <2>1
<1>3. VariablesInv' /\ ChangesInv' /\ RefsInv'
  BY <1>1 DEF Write, Inv, VariablesInv, ChangesInv, RefsInv
<1>4. ReadableInv'
  BY <1>2 DEF Write, Inv, ReadableInv, RefsInv
<1> QED
  BY <1>2, <1>3, <1>4 DEF Write, Inv

(* Who is called next is registered.                                        *)
LEMMA CalledIsIntended ==
  ASSUME Inv, phase \in {"pending", "dispatch"}, index <= Len(refs), refs[index] \notin dropped
  PROVE  refs[index] \in handlers /\ refs[index] \in intended
BY DEF Inv, VariablesInv, RefsInv, ChangesInv, ToSet

(* One lemma for each action of the loop.                                   *)
LEMMA TopKeeps == ASSUME Callbacks, Inv, Top PROVE Inv'
<1> USE DEF Inv, VariablesInv, Stages
<1>1. VariablesInv' /\ ChangesInv'
  <2>1. /\ phase = "top" /\ phase' = "pending" /\ Change
        /\ UNCHANGED <<handlers, inbox, buffered, sent>>
    BY DEF Top
  <2>2. /\ added' \in Seq(Streams) /\ dropped' \in SUBSET All /\ intended' \in SUBSET All
        /\ ChangesInv'
    BY <2>1, ChangeKeeps
  <2> QED
    BY <2>1, <2>2 DEF Top
<1>2. ReadableInv'
  BY DEF Top, ReadableInv
<1>3. CASE ~ valid
  <2>1. refs' \in SetToSeqs(handlers)
    BY <1>3 DEF Top
  <2> DEFINE n == Cardinality(handlers)
  <2>2. /\ refs' \in [1 .. n -> handlers]
        /\ \A i, j \in 1 .. n: i # j => refs'[i] # refs'[j]
    BY <2>1 DEF SetToSeqs
  <2>3. n \in Nat
    <3>1. IsFiniteSet(All)
      BY FS_AddElement DEF Callbacks, All
    <3> QED
      BY <3>1, FS_CardinalityType, FS_Subset
  <2> HIDE DEF n
  <2>4. refs' \in Seq(handlers)
    BY <2>2, <2>3, SeqDef
  <2>5. refs' \in Seq(All)
    BY <2>2, <2>3, SeqDef
  <2>6. ToSet(refs') \subseteq handlers /\ IsInjective(refs')
    BY <2>2 DEF ToSet, IsInjective
  <2>7. Cardinality(ToSet(refs')) = n
    <3>1. refs' \in [1 .. n -> ToSet(refs')] /\ \A x \in ToSet(refs'): \E i \in 1 .. n: refs'[i] = x
      BY <2>2 DEF ToSet
    <3>2. refs' \in Bijection(1 .. n, ToSet(refs'))
      BY <2>2, <3>1 DEF Bijection, Injection, Surjection, IsInjective
    <3> QED
      BY <2>3, <3>2, FS_CountingElements DEF ExistsBijection
  <2>8. ToSet(refs') = handlers
    <3>1. IsFiniteSet(handlers)
      BY FS_AddElement, FS_Subset DEF Callbacks, All
    <3> QED
      BY <2>6, <2>7, <3>1, FS_Subset DEF n
  <2> QED
    BY <1>1, <1>2, <2>5, <2>6, <2>8 DEF Top, RefsInv
<1>4. CASE valid
  BY <1>1, <1>2, <1>4 DEF Top, RefsInv
<1> QED
  BY <1>3, <1>4

LEMMA PendingStepKeeps == ASSUME Callbacks, Inv, PendingStep PROVE Inv'
<1> USE DEF Inv, VariablesInv, Stages
<1> DEFINE s == refs[index]
<1>1. /\ phase = "pending" /\ phase' = phase /\ index' = index + 1
      /\ UNCHANGED <<handlers, refs, valid, revents, sent>>
  BY DEF PendingStep
<1>2. CASE buffered[s] # <<>> /\ s \notin dropped
  <2>1. s \in handlers /\ s # Event /\ Call(s)
    BY <1>1, <1>2, CalledIsIntended DEF PendingStep, ReadableInv
  <2> HIDE DEF s
  <2>2. /\ inbox' \in [All -> Seq(Messages)] /\ buffered' \in [All -> Seq(Messages)]
        /\ buffered'[Event] = <<>>
        /\ added' \in Seq(Streams) /\ dropped' \in SUBSET All /\ intended' \in SUBSET All
        /\ ChangesInv'
    BY <1>1, <1>2, <2>1, CallKeeps
  <2> QED
    BY <1>1, <2>2 DEF RefsInv, ReadableInv
<1>3. CASE ~ (buffered[s] # <<>> /\ s \notin dropped)
  BY <1>1, <1>3 DEF PendingStep, NoCall, ChangesInv, RefsInv, ReadableInv
<1> QED
  BY <1>2, <1>3

LEMMA DispatchStepKeeps == ASSUME Callbacks, Inv, DispatchStep PROVE Inv'
<1> USE DEF Inv, VariablesInv, Stages
<1> DEFINE s == refs[index]
<1>1. /\ phase = "dispatch" /\ phase' = phase /\ index' = index + 1 /\ index \in DOMAIN refs
      /\ UNCHANGED <<handlers, refs, valid, revents, sent>>
  BY DEF DispatchStep, RefsInv
<1>2. CASE s \in revents \ dropped
  <2>1. s \in handlers /\ inbox[s] # <<>> /\ Call(s)
    BY <1>1, <1>2, CalledIsIntended DEF DispatchStep, ReadableInv
  <2>2. \A i \in DOMAIN refs: i > index => refs[i] \in All \ {s}
    BY <1>1 DEF RefsInv, IsInjective
  <2> HIDE DEF s
  <2>3. /\ inbox' \in [All -> Seq(Messages)] /\ buffered' \in [All -> Seq(Messages)]
        /\ \A r \in All \ {s}: inbox'[r] = inbox[r]
        /\ buffered'[Event] = <<>>
        /\ added' \in Seq(Streams) /\ dropped' \in SUBSET All /\ intended' \in SUBSET All
        /\ ChangesInv'
    BY <1>1, <1>2, <2>1, CallKeeps
  <2>4. ReadableInv'
    <3> SUFFICES ASSUME NEW i \in DOMAIN refs, i >= index + 1, refs[i] \in revents
                 PROVE  inbox'[refs[i]] # <<>>
      BY <1>1, <2>3 DEF ReadableInv
    <3>1. i > index /\ i >= index
      BY SMTT(40), <1>1 DEF RefsInv
    <3> QED
      BY <1>1, <2>2, <2>3, <3>1 DEF ReadableInv
  <2> QED
    <3>1. VariablesInv'
      BY <1>1, <2>3
    <3>2. RefsInv'
      BY <1>1 DEF RefsInv
    <3> QED
      BY <2>3, <2>4, <3>1, <3>2
<1>3. CASE ~ (s \in revents \ dropped)
  <2>1. ReadableInv'
    BY <1>1, <1>3 DEF DispatchStep, NoCall, ReadableInv, RefsInv
  <2> QED
    BY <1>1, <1>3, <2>1 DEF DispatchStep, NoCall, ChangesInv, RefsInv
<1> QED
  BY <1>2, <1>3

LEMMA PollKeeps == ASSUME Inv, Poll PROVE Inv'
BY DEF Poll, Inv, VariablesInv, ChangesInv, RefsInv, ReadableInv, Stages

(* Nothing that callbacks of the round registered and unregistered is       *)
(* refused at its end.                                                      *)
LEMMA CommitKeeps == ASSUME Inv, Commit PROVE Inv'
<1> USE DEF Inv, VariablesInv, Stages
<1>1. /\ phase' = "top" /\ handlers' = (handlers \cup ToSet(added)) \ dropped
      /\ valid' = (valid /\ added = <<>> /\ dropped = {})
      /\ added' = <<>> /\ dropped' = {} /\ intended' = intended /\ phase = "commit"
      /\ UNCHANGED <<index, refs, revents, inbox, buffered, sent>>
  BY DEF Commit, ChangesInv
<1>2. ToSet(<<>>) = {} /\ IsInjective(<<>>)
  BY DEF ToSet, IsInjective
<1>3. ChangesInv'
  BY <1>1, <1>2 DEF ChangesInv
<1>4. VariablesInv'
  <2>1. handlers' = intended
    BY <1>1 DEF ChangesInv
  <2> QED
    BY <1>1, <2>1
<1>5. RefsInv'
  <2>1. ASSUME valid' PROVE handlers' = handlers
    BY <1>1, <1>2, <2>1
  <2> QED
    BY <1>1, <2>1 DEF RefsInv
<1> QED
  BY <1>1, <1>3, <1>4, <1>5 DEF ReadableInv

LEMMA IdleKeeps == ASSUME Callbacks, Inv, Idle PROVE Inv'
<1>1. /\ phase = "poll" /\ phase' = "commit" /\ Change
      /\ UNCHANGED <<index, handlers, refs, valid, revents, inbox, buffered, sent>>
  BY DEF Idle
<1>2. /\ added' \in Seq(Streams) /\ dropped' \in SUBSET All /\ intended' \in SUBSET All
      /\ ChangesInv'
  BY <1>1, ChangeKeeps
<1> QED
  BY <1>1, <1>2 DEF Inv, VariablesInv, RefsInv, ReadableInv, Stages

LEMMA NextInv == ASSUME Callbacks PROVE Inv /\ [Next]_dispatcherVars => Inv'
<1> SUFFICES ASSUME Inv, [Next]_dispatcherVars PROVE Inv'
  OBVIOUS
<1>1. CASE PendingEnd
  BY <1>1 DEF PendingEnd, Inv, VariablesInv, ChangesInv, RefsInv, ReadableInv, Stages
<1>2. CASE DispatchEnd
  BY <1>2 DEF DispatchEnd, Inv, VariablesInv, ChangesInv, RefsInv, ReadableInv, Stages
<1>3. CASE Arrive \/ Stop \/ Hangup
  BY <1>3, OutsideWrites, WriteKeeps
<1>4. CASE UNCHANGED dispatcherVars
  BY <1>4 DEF dispatcherVars, Inv, VariablesInv, ChangesInv, RefsInv, ReadableInv
<1>5. CASE Return
  BY <1>5 DEF Return, Inv, VariablesInv, ChangesInv, RefsInv, ReadableInv, Stages
<1> QED
  BY <1>1, <1>2, <1>3, <1>4, <1>5, TopKeeps, PendingStepKeeps, PollKeeps, IdleKeeps,
     DispatchStepKeeps, CommitKeeps DEF Next, Run, Leave, Killed

-----------------------------------------------------------------------------
(* What callbacks of a round register and unregister takes effect at its    *)
(* end, in whatever order they did.                                         *)
THEOREM ChangesCorrect == ASSUME Callbacks PROVE Spec => []ChangesTakeEffect
<1>1. Inv => ChangesTakeEffect
  <2>1. ToSet(<<>>) = {}
    BY DEF ToSet
  <2> QED
    BY <2>1 DEF Inv, ChangesInv, ChangesTakeEffect
<1> QED
  BY InitInv, NextInv, <1>1, PTL DEF Spec

(* The loops of a round go through the handlers that are registered, each   *)
(* once: _refs is rebuilt before a round in which they differ.              *)
THEOREM RefsCorrect == ASSUME Callbacks PROVE Spec => []RefsAreCurrent
<1>1. Inv => RefsAreCurrent
  BY DEF Inv, RefsInv, RefsAreCurrent
<1> QED
  BY InitInv, NextInv, <1>1, PTL DEF Spec

(* No change that callbacks make is refused at the end of the round, and    *)
(* run() goes on.                                                           *)
THEOREM ChangesAreAccepted == ASSUME Callbacks PROVE Spec => []RegistrationIsAccepted
<1>1. Inv => RegistrationIsAccepted
  BY DEF Inv, ChangesInv, RegistrationIsAccepted
<1> QED
  BY InitInv, NextInv, <1>1, PTL DEF Spec

(* A step that takes something from a stream calls it. *)
OnlyIntendedAreRead ==
  \A s \in All: inbox'[s] \o buffered'[s] # inbox[s] \o buffered[s]
        /\ Len(inbox'[s]) + Len(buffered'[s]) < Len(inbox[s]) + Len(buffered[s])
      => s \in intended

LEMMA CallReadsIntended ==
  ASSUME Callbacks, Inv, phase \in {"pending", "dispatch"}, NEW r \in handlers, r \in intended, Call(r),
         IF r = Event THEN inbox[r] # <<>> ELSE inbox[r] # <<>> \/ buffered[r] # <<>>,
         phase' = phase, UNCHANGED handlers
  PROVE  OnlyIntendedAreRead
<1>1. \A s \in All \ {r}: inbox'[s] = inbox[s] /\ buffered'[s] = buffered[s]
  BY CallKeeps
<1> QED
  BY <1>1 DEF OnlyIntendedAreRead

LEMMA NextReadsIntended ==
  ASSUME Callbacks PROVE Inv /\ [Next]_dispatcherVars => [OnlyIntendedAreRead]_dispatcherVars
<1> SUFFICES ASSUME Inv, [Next]_dispatcherVars PROVE [OnlyIntendedAreRead]_dispatcherVars
  OBVIOUS
<1>1. ASSUME UNCHANGED <<inbox, buffered>> PROVE OnlyIntendedAreRead
  BY <1>1 DEF OnlyIntendedAreRead
<1>2. CASE PendingStep
  <2> DEFINE s == refs[index]
  <2>1. CASE buffered[s] # <<>> /\ s \notin dropped
    <3>1. s \in handlers /\ s \in intended /\ s # Event /\ Call(s)
      BY <1>2, <2>1, CalledIsIntended DEF PendingStep, Inv, ReadableInv
    <3> QED
      BY <1>2, <2>1, <3>1, CallReadsIntended DEF PendingStep
  <2>2. CASE ~ (buffered[s] # <<>> /\ s \notin dropped)
    BY <1>1, <1>2, <2>2 DEF PendingStep, NoCall
  <2> QED
    BY <2>1, <2>2
<1>3. CASE DispatchStep
  <2> DEFINE s == refs[index]
  <2>1. CASE s \in revents \ dropped
    <3>1. index \in DOMAIN refs
      BY <1>3 DEF DispatchStep, Inv, VariablesInv, RefsInv
    <3>2. s \in handlers /\ s \in intended /\ inbox[s] # <<>> /\ Call(s)
      BY <1>3, <2>1, <3>1, CalledIsIntended DEF DispatchStep, Inv, VariablesInv, ReadableInv
    <3> QED
      BY <1>3, <3>2, CallReadsIntended DEF DispatchStep
  <2>2. CASE ~ (s \in revents \ dropped)
    BY <1>1, <1>3, <2>2 DEF DispatchStep, NoCall
  <2> QED
    BY <2>1, <2>2
<1>4. CASE Arrive \/ Stop \/ Hangup
  <2>1. \A r \in All: Len(inbox'[r]) >= Len(inbox[r]) /\ buffered'[r] = buffered[r]
    BY <1>4, OutsideWrites, WriteKeeps
  <2>2. \A r \in All: /\ Len(inbox'[r]) \in Nat /\ Len(inbox[r]) \in Nat
                      /\ Len(buffered[r]) \in Nat
    BY NextInv, LenProperties DEF Inv, VariablesInv
  <2>3. ASSUME NEW r \in All, Len(inbox'[r]) + Len(buffered'[r]) < Len(inbox[r]) + Len(buffered[r])
        PROVE  FALSE
    <3> DEFINE i == Len(inbox[r]) j == Len(inbox'[r]) n == Len(buffered[r])
    <3>1. i \in Nat /\ j \in Nat /\ n \in Nat /\ j >= i /\ Len(buffered'[r]) = n
      BY <2>1, <2>2
    <3>2. j + n < i + n
      BY <2>3, <3>1
    <3> HIDE DEF i, j, n
    <3> QED
      BY <3>1, <3>2
  <2> QED
    BY <2>3 DEF OnlyIntendedAreRead
<1>5. CASE Top \/ Return \/ PendingEnd \/ Poll \/ Idle \/ DispatchEnd \/ Commit
  BY <1>1, <1>5 DEF Top, Return, PendingEnd, Poll, Idle, DispatchEnd, Commit
<1> QED
  BY <1>2, <1>3, <1>4, <1>5 DEF Next, Run, Leave, Killed

(* A stream that an earlier callback of the round unregistered is not       *)
(* called any more, although poll() found it readable or its buffer has     *)
(* more.                                                                    *)
THEOREM DroppedCorrect == ASSUME Callbacks PROVE Spec => DroppedIsNotCalled
<1>1. Inv /\ [Next]_dispatcherVars => [OnlyIntendedAreRead]_dispatcherVars
  BY NextReadsIntended
<1> QED
  BY InitInv, NextInv, <1>1, PTL DEF Spec, DroppedIsNotCalled, OnlyIntendedAreRead

-----------------------------------------------------------------------------
(* A message is in one place at most.                                       *)
Held(s) == Len(inbox[s]) + Len(buffered[s])
MessagesInv ==
  /\ revents \subseteq All
  /\ \A s \in All: Held(s) <= sent[s] /\ sent[s] <= MaxMessages[s]

LEMMA HeldFacts ==
  /\ Inv => \A s \in All: Held(s) \in Nat /\ sent[s] \in Int
  /\ (Inv => \A s \in All: Held(s) \in Nat /\ sent[s] \in Int)'
<1>1. \A q \in Seq(Messages): Len(q) \in Nat
  OBVIOUS
<1>2. \A m, n \in Nat: m + n \in Nat
  OBVIOUS
<1>3. Inv => \A s \in All: Len(inbox[s]) \in Nat /\ Len(buffered[s]) \in Nat
  BY <1>1 DEF Inv, VariablesInv
<1>4. (Inv => \A s \in All: Len(inbox[s]) \in Nat /\ Len(buffered[s]) \in Nat)'
  BY <1>1 DEF Inv, VariablesInv
<1> QED
  BY <1>2, <1>3, <1>4, Zenon DEF Held, Inv, VariablesInv

LEMMA CallShrinks ==
  ASSUME Inv, NEW s \in handlers, Call(s),
         IF s = Event THEN inbox[s] # <<>> ELSE inbox[s] # <<>> \/ buffered[s] # <<>>
  PROVE  \A r \in All: Held(r)' <= Held(r)
<1> USE DEF Inv, VariablesInv
<1>0. \A r \in All: Held(r) \in Nat
  BY HeldFacts
<1>a. ASSUME Held(s)' <= Held(s), \A r \in All \ {s}: Held(r)' = Held(r)
      PROVE  \A r \in All: Held(r)' <= Held(r)
  <2> TAKE r \in All
  <2>1. CASE r = s
    BY ONLY <1>a, <2>1
  <2>2. CASE r # s
    <3>1. Held(r)' = Held(r) /\ Held(r) \in Nat
      BY <1>0, <1>a, <2>2
    <3> QED
      BY ONLY <3>1
  <2> QED
    BY <2>1, <2>2
<1>1. ASSUME NEW q \in Seq(Messages), q # <<>>
      PROVE  Len(q) \in Nat /\ Len(Tail(q)) \in Nat /\ Len(Tail(q)) <= Len(q)
  BY <1>1
<1>2. \A r \in All: Len(inbox[r]) \in Nat /\ Len(buffered[r]) \in Nat
  OBVIOUS
<1>3. CASE s = Event
  <2>1. inbox' = [inbox EXCEPT ![s] = Tail(inbox[s])] /\ buffered' = buffered /\ inbox[s] # <<>>
    BY <1>3 DEF Call
  <2>2. \A r \in All \ {s}: inbox'[r] = inbox[r]
    BY <2>1
  <2>3. inbox'[s] = Tail(inbox[s]) /\ Len(inbox'[s]) <= Len(inbox[s]) /\ Len(inbox'[s]) \in Nat
    BY <1>1, <2>1
  <2>4. Held(s)' <= Held(s)
    BY <1>2, <2>1, <2>3 DEF Held
  <2>5. \A r \in All \ {s}: Held(r)' = Held(r)
    BY <2>1, <2>2 DEF Held
  <2> QED
    BY <1>a, <2>4, <2>5
<1>4. CASE s # Event /\ buffered[s] = <<>>
  <2>1. /\ inbox' = [inbox EXCEPT ![s] = <<>>] /\ buffered' = [buffered EXCEPT ![s] = Tail(inbox[s])]
        /\ inbox[s] # <<>>
    BY <1>4 DEF Call
  <2>2. \A r \in All \ {s}: inbox'[r] = inbox[r] /\ buffered'[r] = buffered[r]
    BY <2>1
  <2>3. /\ inbox'[s] = <<>> /\ Len(inbox'[s]) = 0 /\ buffered'[s] = Tail(inbox[s])
        /\ Len(buffered'[s]) <= Len(inbox[s]) /\ Len(buffered'[s]) \in Nat
    BY <1>1, <2>1
  <2>4. Held(s)' <= Held(s)
    BY <1>2, <2>3 DEF Held
  <2>5. \A r \in All \ {s}: Held(r)' = Held(r)
    BY <2>2 DEF Held
  <2> QED
    BY <1>a, <2>4, <2>5
<1>5. CASE s # Event /\ buffered[s] # <<>>
  <2>1. inbox' = inbox /\ buffered' = [buffered EXCEPT ![s] = Tail(buffered[s])]
    BY <1>5 DEF Call
  <2>2. \A r \in All \ {s}: buffered'[r] = buffered[r]
    BY <2>1
  <2>3. /\ buffered'[s] = Tail(buffered[s])
        /\ Len(buffered'[s]) <= Len(buffered[s]) /\ Len(buffered'[s]) \in Nat
    BY <1>1, <1>5, <2>1
  <2>4. Held(s)' <= Held(s)
    BY <1>2, <2>1, <2>3 DEF Held
  <2>5. \A r \in All \ {s}: Held(r)' = Held(r)
    BY <2>1, <2>2 DEF Held
  <2> QED
    BY <1>a, <2>4, <2>5
<1> QED
  BY <1>3, <1>4, <1>5

LEMMA MessagesStep ==
  ASSUME Callbacks, MaxMessages \in [All -> Nat], Inv, Inv', MessagesInv, [Next]_dispatcherVars
  PROVE  MessagesInv'
<1>1. /\ sent \in [All -> Int] /\ sent' \in [All -> Int]
      /\ \A s \in All: Held(s) \in Nat /\ Held(s)' \in Nat /\ sent[s] \in Int
      /\ handlers \subseteq All /\ refs \in Seq(All)
  BY HeldFacts DEF Inv, VariablesInv, RefsInv
<1>2. ASSUME UNCHANGED <<sent, revents>>,
             \A r \in All: Held(r)' <= Held(r)
      PROVE  MessagesInv'
  <2>1. ASSUME NEW s \in All PROVE Held(s)' <= sent[s] /\ sent[s] <= MaxMessages[s]
    BY <1>1, <1>2 DEF MessagesInv
  <2> QED
    BY <1>2, <2>1 DEF MessagesInv
<1>3. ASSUME UNCHANGED <<sent, inbox, buffered>>, revents' \subseteq All PROVE MessagesInv'
  BY <1>3 DEF MessagesInv, Held
<1>4. CASE Top \/ Return \/ PendingEnd \/ Poll \/ Idle \/ DispatchEnd \/ Commit
  <2>1. UNCHANGED <<sent, inbox, buffered>>
    BY <1>4 DEF Top, Return, PendingEnd, Poll, Idle, DispatchEnd, Commit
  <2>2. revents' \subseteq All
    BY <1>1, <1>4 DEF Top, Return, PendingEnd, Poll, Idle, DispatchEnd, Commit, MessagesInv
  <2> QED
    BY <1>3, <2>1, <2>2
<1>5. CASE PendingStep
  <2> DEFINE s == refs[index]
  <2>1. phase = "pending" /\ index <= Len(refs) /\ UNCHANGED <<sent, revents>>
    BY <1>5 DEF PendingStep
  <2>2. CASE buffered[s] # <<>> /\ s \notin dropped
    <3>1. s \in handlers /\ Call(s)
      BY <1>5, <2>1, <2>2, CalledIsIntended DEF PendingStep
    <3>2. s # Event
      BY <2>2 DEF Inv, ReadableInv
    <3> HIDE DEF s
    <3> QED
      BY <1>2, <2>1, <2>2, <3>1, <3>2, CallShrinks
  <2>3. CASE ~(buffered[s] # <<>> /\ s \notin dropped)
    BY <1>3, <1>5, <2>3 DEF PendingStep, NoCall, MessagesInv
  <2> QED
    BY <2>2, <2>3
<1>6. CASE DispatchStep
  <2> DEFINE s == refs[index]
  <2>1. phase = "dispatch" /\ index <= Len(refs) /\ UNCHANGED <<sent, revents>>
    BY <1>6 DEF DispatchStep
  <2>2. CASE s \in revents \ dropped
    <3>1. s \in handlers /\ Call(s)
      BY <1>6, <2>1, <2>2, CalledIsIntended DEF DispatchStep
    <3>2. inbox[s] # <<>>
      <4>1. index \in DOMAIN refs /\ index >= index
        BY <1>1, <2>1 DEF Inv, VariablesInv
      <4> QED
        BY <2>1, <2>2, <4>1 DEF Inv, ReadableInv
    <3> HIDE DEF s
    <3> QED
      BY <1>2, <2>1, <3>1, <3>2, CallShrinks
  <2>3. CASE ~(s \in revents \ dropped)
    BY <1>3, <1>6, <2>3 DEF DispatchStep, NoCall, MessagesInv
  <2> QED
    BY <2>2, <2>3
<1>7. CASE Arrive \/ Stop \/ Hangup
  <2>1. PICK s \in All, m \in Messages: Write(s, m)
    BY <1>7, OutsideWrites
  <2>2. /\ revents' = revents /\ buffered' = buffered /\ sent[s] < MaxMessages[s]
        /\ sent' = [sent EXCEPT ![s] = sent[s] + 1] /\ inbox' = [inbox EXCEPT ![s] = Append(inbox[s], m)]
    BY <2>1 DEF Write
  <2>3. inbox'[s] = Append(inbox[s], m) /\ sent'[s] = sent[s] + 1
    BY <1>1, <2>2 DEF Inv, VariablesInv
  <2>4. Held(s)' = Held(s) + 1
    <3>1. Len(inbox'[s]) = Len(inbox[s]) + 1 /\ Len(inbox[s]) \in Nat /\ Len(buffered[s]) \in Nat
      BY <2>3, LongerIsSequence DEF Inv, VariablesInv
    <3>2. Held(s)' = Len(inbox'[s]) + Len(buffered[s]) /\ Held(s) = Len(inbox[s]) + Len(buffered[s])
      BY <2>2, Zenon DEF Held
    <3>3. \A k, n \in Nat: (k + 1) + n = (k + n) + 1
      OBVIOUS
    <3> QED
      BY <3>1, <3>2, <3>3, Zenon
  <2>5. \A r \in All \ {s}: Held(r)' = Held(r) /\ sent'[r] = sent[r]
    BY <1>1, <2>2 DEF Inv, VariablesInv, Held
  <2>6. \A r \in All: Held(r)' <= sent'[r] /\ sent'[r] <= MaxMessages[r]
    <3> TAKE r \in All
    <3>1. Held(r) <= sent[r] /\ sent[r] <= MaxMessages[r]
      BY DEF MessagesInv
    <3>2. CASE r = s
      <4>1. MaxMessages[r] \in Nat /\ sent[r] \in Int
        BY <1>1
      <4> QED
        BY <1>1, <2>2, <2>3, <2>4, <3>1, <3>2, <4>1
    <3>3. CASE r # s
      BY <2>2, <2>5, <3>1, <3>3
    <3> QED
      BY <3>2, <3>3
  <2> QED
    BY <2>2, <2>6 DEF MessagesInv
<1>8. CASE UNCHANGED dispatcherVars
  BY <1>3, <1>8 DEF dispatcherVars, MessagesInv
<1> QED
  BY <1>4, <1>5, <1>6, <1>7, <1>8 DEF Next, Run, Leave, Killed

(* The variables keep their types, and no stream holds more messages than   *)
(* were sent to it.                                                         *)
THEOREM TypeCorrect ==
  ASSUME Callbacks, MaxMessages \in [All -> Nat]
  PROVE  Spec => []TypeOK
<1>1. Init => MessagesInv
  BY DEF Init, MessagesInv, Held, All
<1>2. Inv /\ MessagesInv => TypeOK
  <2> SUFFICES ASSUME Inv, MessagesInv PROVE TypeOK
    OBVIOUS
  <2>1. \A s \in All: Len(inbox[s]) + Len(buffered[s]) <= MaxMessages[s]
    <3> TAKE s \in All
    <3>1. Held(s) <= sent[s] /\ sent[s] <= MaxMessages[s] /\ Held(s) \in Nat /\ sent[s] \in Int
          /\ MaxMessages[s] \in Nat
      BY HeldFacts DEF MessagesInv
    <3>2. Held(s) <= MaxMessages[s]
      BY <3>1
    <3> QED
      BY <3>2 DEF Held
  <2> QED
    BY <2>1 DEF Inv, VariablesInv, RefsInv, Stages, MessagesInv, TypeOK
<1>3. Inv /\ Inv' /\ MessagesInv /\ [Next]_dispatcherVars => MessagesInv'
  BY MessagesStep
<1> QED
  BY InitInv, NextInv, <1>1, <1>2, <1>3, PTL DEF Spec
=============================================================================
