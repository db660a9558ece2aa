------------------------------ MODULE HPointer ------------------------------
(***************************************************************************)
(* HPointer and HPointerObserver of src/hcore/hpointer.hxx: pointers that  *)
(* share an object by two counters, of holders and of holders and          *)
(* observers together.  An object may itself have a pointer, and observes  *)
(* itself (HPointerFromThisInterface), so that one release leads to others *)
(* in the middle of it: what is still to be done is a stack.               *)
(***************************************************************************)
EXTENDS Naturals, Sequences, FiniteSets, SequencesExt

CONSTANTS
  Objects,
  Holders,      \* the HPointer variables of the program
  Observers,    \* its HPointerObserver variables
  FromMembers,  \* may a pointer be assigned from the member of an object?
  Cycles        \* may the members of objects hold each other in a cycle?

VARIABLES
  target,       \* what each pointer refers to, _object and _shared in one
  holders,      \* _referenceCounter[ HOLDER ] of each object
  observers,    \* _referenceCounter[ OBSERVER ]
  object,       \* new, alive, dying (do_delete() runs), deleted
  shared,       \* whether the counters exist
  todo,         \* what is to be done, innermost first
  faulty        \* history: was memory used that is not there any more?

pointerVars == <<target, holders, observers, object, shared, todo, faulty>>

Nothing == "nothing"
Temporary == <<"temporary", Nothing>>         \* the pointer that New() moves from
Member(o) == <<"member", o>>                  \* an HPointer in the object o
Self(o)   == <<"self", o>>                    \* _selfObserver of the object o
Members  == {Member(o): o \in Objects}
Holding  == Holders \cup Members
Pointers == Holding \cup Observers \cup {Self(o): o \in Objects}

Init ==
  /\ target = [p \in Pointers |-> Nothing]
  /\ holders = [o \in Objects |-> 0] /\ observers = [o \in Objects |-> 0]
  /\ object = [o \in Objects |-> "new"]
  /\ shared = [o \in Objects |-> FALSE]
  /\ todo = <<>>
  /\ faulty = FALSE

Then(frames) == todo' = frames \o Tail(todo)

(* The object and those it holds, directly or through others: what every     *)
(* set has that has the object and what its members hold.                    *)
ReachedFrom(object1) ==
  {o \in Objects: \A S \in SUBSET Objects:
     /\ object1 \in S \cup {Nothing}
     /\ \A x \in S: target[Member(x)] \in S \cup {Nothing}
     => o \in S}

Exists(p) ==
  \A o \in Objects: p \in {Member(o), Self(o)} => object[o] \in {"alive", "dying"}

-----------------------------------------------------------------------------
(* The program's calls: a new object in a pointer (make_pointer() moved     *)
(* into it), a copy, a move, get_pointer() of an object, a reset().         *)
MayHold(p, o) ==
  Cycles \/ \A o1 \in Objects: p = Member(o1) => o1 \notin ReachedFrom(o)

New(p, o) ==
  /\ todo = <<>> /\ object[o] = "new"
  /\ object' = [object EXCEPT ![o] = "alive"]
  /\ shared' = [shared EXCEPT ![o] = TRUE]
  /\ holders' = [holders EXCEPT ![o] = 1]
  /\ observers' = [observers EXCEPT ![o] = 2]
  /\ target' = [target EXCEPT ![p] = o, ![Self(o)] = o]
  /\ todo' = IF target[p] = Nothing THEN <<>> ELSE <<<<"release", Temporary, target[p]>>>>
  /\ UNCHANGED faulty

(* operator = ( const& ) and the conversions: acquire() *)
Assign(p, source) ==
  /\ todo = <<>>
  /\ Exists(p) /\ Exists(source)
  /\ source \in Members => FromMembers
  /\ MayHold(p, target[source])
  /\ target[p] # target[source]
  /\ todo' = <<<<"release", p, target[p]>>, <<"acquire", p, source>>>>
  /\ UNCHANGED <<target, holders, observers, object, shared, faulty>>

(* operator = ( && ): swap, and the other pointer is reset. *)
Move(p, source) ==
  /\ todo = <<>>
  /\ Exists(p) /\ Exists(source)
  /\ source \in Members => FromMembers
  /\ MayHold(p, target[source]) /\ MayHold(source, target[p])
  /\ target' = [target EXCEPT ![p] = target[source], ![source] = target[p]]
  /\ todo' = <<<<"release", source, target[p]>>>>
  /\ UNCHANGED <<holders, observers, object, shared, faulty>>

(* HPointerFromThisInterface::get_pointer(), moved into p *)
FromThis(p, o) ==
  /\ todo = <<>>
  /\ Exists(p) /\ object[o] = "alive" /\ holders[o] > 0
  /\ MayHold(p, o)
  /\ target' = [target EXCEPT ![p] = o]
  /\ holders' = [holders EXCEPT ![o] = @ + 1]
  /\ observers' = [observers EXCEPT ![o] = @ + 1]
  /\ todo' = <<<<"release", Temporary, target[p]>>>>
  /\ UNCHANGED <<object, shared, faulty>>

Reset(p) ==
  /\ todo = <<>>
  /\ Exists(p) /\ target[p] # Nothing
  /\ todo' = <<<<"release", p, target[p]>>>>
  /\ UNCHANGED <<target, holders, observers, object, shared, faulty>>

-----------------------------------------------------------------------------
(* release(): the last holder deletes the object before it counts itself    *)
(* off.                                                                     *)
IsHolder(p) == p \in Holding \cup {Temporary}

ReleaseNothing ==
  /\ todo # <<>> /\ Head(todo)[1] = "release" /\ Head(todo)[3] = Nothing
  /\ Then(<<>>)
  /\ UNCHANGED <<target, holders, observers, object, shared, faulty>>

Release ==
  /\ todo # <<>> /\ Head(todo)[1] = "release" /\ Head(todo)[3] # Nothing
  /\ LET p == Head(todo)[2]
         o == Head(todo)[3]
     IN /\ IF IsHolder(p) /\ holders[o] = 1
           THEN Then(<<<<"delete", p, o>>, <<"count", p, o>>>>)
           ELSE Then(<<<<"count", p, o>>>>)
        /\ faulty' = (faulty \/ ~shared[o])
  /\ UNCHANGED <<target, holders, observers, object, shared>>

(* do_delete(): the destructors of the members release what they refer to. *)
Delete ==
  /\ todo # <<>> /\ Head(todo)[1] = "delete"
  /\ LET o == Head(todo)[3]
     IN /\ faulty' = (faulty \/ ~shared[o] \/ object[o] # "alive")
        /\ object' = [object EXCEPT ![o] = "dying"]
        /\ Then(<<<<"release", Member(o), target[Member(o)]>>,
                  <<"release", Self(o), target[Self(o)]>>, <<"deleted", Self(o), o>>>>)
  /\ UNCHANGED <<target, holders, observers, shared>>

Deleted ==
  /\ todo # <<>> /\ Head(todo)[1] = "deleted"
  /\ object' = [object EXCEPT ![Head(todo)[3]] = "deleted"]
  /\ Then(<<>>)
  /\ UNCHANGED <<target, holders, observers, shared, faulty>>

(* dec_reference_counter() and destroy() *)
CountOff ==
  /\ todo # <<>> /\ Head(todo)[1] = "count"
  /\ LET p == Head(todo)[2]
         o == Head(todo)[3]
     IN /\ holders' = IF IsHolder(p) THEN [holders EXCEPT ![o] = @ - 1] ELSE holders
        /\ observers' = [observers EXCEPT ![o] = @ - 1]
        /\ shared' = [shared EXCEPT ![o] = observers[o] > 1]
        /\ target' = IF p = Temporary THEN target ELSE [target EXCEPT ![p] = Nothing]
        /\ faulty' = (faulty \/ ~shared[o] \/ ~Exists(p))
        /\ Then(<<>>)
  /\ UNCHANGED object

(* The end of acquire(): it looks at the other pointer after the release. *)
AcquireUnchecked ==
  /\ todo # <<>> /\ Head(todo)[1] = "acquire"
  /\ LET p == Head(todo)[2]
         o == target[Head(todo)[3]]
     IN /\ IF o = Nothing THEN UNCHANGED <<target, holders, observers>>
           ELSE /\ target' = [target EXCEPT ![p] = o]
                /\ holders' = IF p \in Holding THEN [holders EXCEPT ![o] = @ + 1] ELSE holders
                /\ observers' = [observers EXCEPT ![o] = @ + 1]
        /\ faulty' = (faulty \/ ~Exists(Head(todo)[3]))
        /\ Then(<<>>)
  /\ UNCHANGED <<object, shared>>

Acquire ==
  /\ todo # <<>> /\ Head(todo)[1] = "acquire"
  /\ LET p == Head(todo)[2]
         o == target[Head(todo)[3]]
     IN /\ IF o = Nothing \/ holders[o] = 0 THEN UNCHANGED <<target, holders, observers>>
           ELSE /\ target' = [target EXCEPT ![p] = o]
                /\ holders' = IF p \in Holding THEN [holders EXCEPT ![o] = @ + 1] ELSE holders
                /\ observers' = [observers EXCEPT ![o] = @ + 1]
        /\ faulty' = (faulty \/ ~Exists(Head(todo)[3]))
        /\ Then(<<>>)
  /\ UNCHANGED <<object, shared>>

Next ==
  \/ \E p \in Holders, o \in Objects: New(p, o)
  \/ \E p \in Holding \cup Observers, source \in Holding \cup Observers: Assign(p, source)
  \/ \E p, source \in Holding: Move(p, source)
  \/ \E p \in Holding, o \in Objects: FromThis(p, o)
  \/ \E p \in Holding \cup Observers: Reset(p)
  \/ ReleaseNothing \/ Release \/ Delete \/ Deleted \/ CountOff \/ Acquire

Spec == Init /\ [][Next]_pointerVars

-----------------------------------------------------------------------------
TypeOK ==
  /\ target \in [Pointers -> Objects \cup {Nothing}]
  /\ holders \in [Objects -> 0 .. Cardinality(Holding) + 1]
  /\ observers \in [Objects -> 0 .. Cardinality(Pointers) + 1]
  /\ object \in [Objects -> {"new", "alive", "dying", "deleted"}]
  /\ shared \in [Objects -> BOOLEAN]

(* No counter is used that was destroyed, no object deleted twice and no    *)
(* pointer read that went with its object.                                  *)
NoMemoryIsMissed == ~faulty

(* What a pointer holds is there; an object that nobody holds is deleted,   *)
(* and its counters when nobody observes it.                                *)
HeldIsAlive ==
  todo = <<>> =>
    \A o \in Objects: object[o] # "new" =>
      /\ object[o] = "alive" <=> \E p \in Holding: Exists(p) /\ target[p] = o
      /\ shared[o] <=> \E p \in Pointers: Exists(p) /\ target[p] = o
=============================================================================
