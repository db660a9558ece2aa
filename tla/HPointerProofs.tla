--------------------------- MODULE HPointerProofs ---------------------------
(***************************************************************************)
(* Proofs about HPointer for every number of objects, pointers and         *)
(* observers, as long as objects do not hold each other in a cycle and no  *)
(* pointer is assigned from the member of an object: releases may nest as  *)
(* deep as objects hold each other.                                        *)
(***************************************************************************)
EXTENDS HPointer, Integers, FiniteSetTheorems, TLAPS

(* No pointer of the program is named as those in objects or temporary      *)
(* ones are.                                                                *)
PointersAreApart ==
  /\ IsFiniteSet(Objects) /\ IsFiniteSet(Holders) /\ IsFiniteSet(Observers)
  /\ Nothing \notin Objects
  /\ Holders \cap Observers = {}
  /\ (Holders \cup Observers) \cap (Members \cup {Self(o): o \in Objects} \cup {Temporary}) = {}
  /\ FromMembers = FALSE /\ Cycles = FALSE

(* What is to be done is counted from the bottom of the stack, where the    *)
(* call of the program is, so that steps on the top renumber nothing.       *)
Height == Len(todo)
At(d)   == todo[Height + 1 - d]
Kind(d) == At(d)[1]
Who(d)  == At(d)[2]
What(d) == At(d)[3]
Places  == 1 .. Height

Frames ==
  ({"release"} \X (Pointers \cup {Temporary}) \X (Objects \cup {Nothing})) \cup
  ({"count"} \X (Pointers \cup {Temporary}) \X Objects) \cup
  ({"delete"} \X (Holding \cup {Temporary}) \X Objects) \cup
  ({"deleted"} \X {Self(o): o \in Objects} \X Objects) \cup
  ({"acquire"} \X (Holding \cup Observers) \X (Holders \cup Observers))

PointerTypes ==
  /\ target \in [Pointers -> Objects \cup {Nothing}]
  /\ holders \in [Objects -> Nat] /\ observers \in [Objects -> Nat]
  /\ object \in [Objects -> {"new", "alive", "dying", "deleted"}]
  /\ shared \in [Objects -> BOOLEAN]
  /\ todo \in Seq(Frames)
  /\ ~faulty

(* The frame d releases a pointer, or is about to count it off. *)
Releases(d) == Kind(d) \in {"release", "count"}

(* The temporary pointer has no target: it refers to what is released for   *)
(* it.                                                                      *)
Refers(p, o) ==
  IF p = Temporary
  THEN \E d \in Places: Releases(d) /\ Who(d) = Temporary /\ What(d) = o
  ELSE target[p] = o

ReferTo(S, o) == {p \in S \cup {Temporary}: Refers(p, o)}

(* The counters count who refers to the object, at every step of a release, *)
(* and are there while they count anybody.                                  *)
Counted(o) ==
  /\ holders[o] = Cardinality(ReferTo(Holding, o))
  /\ observers[o] = Cardinality(ReferTo(Pointers, o))
  /\ shared[o] <=> observers[o] > 0

CountInv == \A o \in Objects: Counted(o)

(* A pointer is released from what it refers to, and by one frame.          *)
ReleaseInv ==
  /\ \A d \in Places: Kind(d) \in {"release", "count", "delete"} /\ Who(d) # Temporary
                        => target[Who(d)] = What(d)
  /\ \A d, e \in Places: Releases(d) /\ Releases(e) /\ Who(d) = Who(e) => d = e

(* An object is deleted for its last holder, before that is counted off.    *)
DeleteInv ==
  \A d \in Places: Kind(d) = "delete" =>
    /\ d = Height /\ d > 1 /\ At(d - 1) = <<"count", Who(d), What(d)>>
    /\ object[What(d)] = "alive" /\ holders[What(d)] = 1

DeletedInv ==
  \A d \in Places: Kind(d) = "deleted" =>
    /\ Who(d) = Self(What(d))
    /\ d > 1 /\ Kind(d - 1) = "count" /\ What(d - 1) = What(d) /\ IsHolder(Who(d - 1))
    /\ object[What(d)] = "dying" /\ holders[What(d)] = 1

(* What an object that dies refers to is released above it. *)
Clears(d, p) == d \in Places /\ Releases(d) /\ Who(d) = p

ClearedInv ==
  \A d \in Places, o \in Objects: Kind(d) = "deleted" /\ What(d) = o =>
    /\ target[Self(o)] # Nothing => Clears(d + 1, Self(o))
    /\ target[Member(o)] # Nothing => Clears(d + 1, Self(o)) /\ Clears(d + 2, Member(o))

(* Who is about to be counted off is below the deletion of the object, or   *)
(* is not its last holder, or the object is deleted.                        *)
CountOffInv ==
  \A d \in Places: Kind(d) = "count" =>
    /\ d < Height =>
         IsHolder(Who(d)) /\ Kind(d + 1) \in {"delete", "deleted"} /\ What(d + 1) = What(d)
    /\ d = Height /\ IsHolder(Who(d)) =>
         \/ object[What(d)] = "alive" /\ holders[What(d)] > 1
         \/ object[What(d)] = "deleted" /\ holders[What(d)] = 1

(* The pointers in an object are released while it is there: its member by  *)
(* the program while it is alive, both while it dies.                       *)
OwnerInv ==
  \A d \in Places, x \in Objects: Releases(d) =>
    /\ Who(d) = Member(x) =>
         \/ object[x] = "alive"
         \/ /\ object[x] = "dying" /\ d > 2
            /\ Kind(d - 1) = "release" /\ Who(d - 1) = Self(x)
            /\ At(d - 2) = <<"deleted", Self(x), x>>
    /\ Who(d) = Self(x) => object[x] = "dying" /\ d > 1 /\ At(d - 1) = <<"deleted", Self(x), x>>

(* An assignment has released its pointer before it acquires the other.     *)
AcquireInv ==
  \A d \in Places: Kind(d) = "acquire" =>
    /\ d = 1
    /\ \A x \in Objects: Who(1) = Member(x) => object[x] = "alive"
    /\ Height = 1 => target[Who(1)] = Nothing
    /\ Height > 1 => Releases(2) /\ Who(2) = Who(1)

(* Objects die below the frame that deletes them, refer to nothing before   *)
(* and after their lives, and live while they are held.                     *)
LifeInv ==
  \A o \in Objects:
    /\ target[Self(o)] \in {o, Nothing}
    /\ object[o] = "dying" => \E d \in Places: Kind(d) = "deleted" /\ What(d) = o
    /\ object[o] \in {"new", "deleted"} => target[Member(o)] = Nothing /\ target[Self(o)] = Nothing
    /\ object[o] = "alive" => holders[o] > 0
    /\ object[o] = "new" => holders[o] = 0 /\ observers[o] = 0
    /\ object[o] = "deleted" /\ holders[o] > 0 =>
         Height > 0 /\ Kind(Height) = "count" /\ What(Height) = o /\ IsHolder(Who(Height))

(* Objects do not hold each other in a cycle: what is released, now or in a *)
(* destructor below, is not held by what releases it, so that no object is  *)
(* deleted again in the middle of its deletion.                             *)
IsRank(rank) ==
  /\ \A x, o \in Objects: target[Member(x)] = o => rank[o] < rank[x]
  /\ \A x, o \in Objects, d \in Places:
       Kind(d) = "acquire" /\ Who(d) = Member(x) /\ target[What(d)] = o => rank[o] < rank[x]
  /\ \A x \in Objects, d, e \in Places:
       Releases(d) /\ Who(d) = Member(x) /\ object[x] = "alive" /\ Kind(e) # "acquire"
         /\ What(e) # Nothing => rank[What(e)] < rank[x]

RankInv == \E rank \in [Objects -> Nat]: IsRank(rank)

Inv ==
  /\ PointerTypes /\ CountInv /\ ReleaseInv /\ DeleteInv /\ DeletedInv /\ ClearedInv /\ CountOffInv
  /\ OwnerInv /\ AcquireInv /\ LifeInv /\ RankInv

-----------------------------------------------------------------------------
LEMMA Names ==
  ASSUME PointersAreApart
  PROVE  /\ Temporary \notin Pointers
         /\ \A x, y \in Objects: /\ (Member(x) = Member(y) => x = y) /\ (Self(x) = Self(y) => x = y)
                                 /\ Member(x) # Self(y)
         /\ \A x \in Objects: /\ Member(x) \in Holding /\ Self(x) \in Pointers
                              /\ Member(x) \notin Holders \cup Observers
                              /\ Self(x) \notin Holding \cup Observers
         /\ Holding \cap Observers = {}
         /\ Holding \subseteq Pointers /\ Observers \subseteq Pointers
         /\ \A p \in Holding: p \in Holders \/ \E x \in Objects: p = Member(x)
         /\ \A p \in Pointers: p \in Holding \/ p \in Observers \/ \E x \in Objects: p = Self(x)
         /\ Nothing \notin Objects
<1>1. \A x, y \in Objects: /\ (Member(x) = Member(y) => x = y) /\ (Self(x) = Self(y) => x = y)
                           /\ Member(x) # Self(y) /\ Member(x) # Temporary /\ Self(x) # Temporary
  BY DEF Member, Self, Temporary
<1>2. /\ (Holders \cup Observers) \cap (Members \cup {Self(o): o \in Objects} \cup {Temporary}) = {}
      /\ Nothing \notin Objects /\ Holders \cap Observers = {}
  BY DEF PointersAreApart
<1>3. /\ Members = {Member(o): o \in Objects}
      /\ Holding = Holders \cup Members
      /\ Pointers = Holding \cup Observers \cup {Self(o): o \in Objects}
  BY Zenon DEF Members, Holding, Pointers
<1>. QED BY <1>1, <1>2, <1>3

LEMMA FiniteNames ==
  ASSUME PointersAreApart
  PROVE  /\ IsFiniteSet(Holding \cup {Temporary}) /\ IsFiniteSet(Pointers \cup {Temporary})
<1>1. IsFiniteSet(Members)
  <2>1. [o \in Objects |-> Member(o)] \in Surjection(Objects, Members)
    BY DEF Surjection, Members
  <2>. QED BY <2>1, FS_Surjection DEF PointersAreApart
<1>2. IsFiniteSet({Self(o): o \in Objects})
  <2> DEFINE S == {Self(o): o \in Objects}
  <2>1. [o \in Objects |-> Self(o)] \in Surjection(Objects, S)
    BY DEF Surjection
  <2> HIDE DEF S
  <2>2. IsFiniteSet(S)
    BY <2>1, FS_Surjection DEF PointersAreApart
  <2>. QED BY <2>2 DEF S
<1>3. IsFiniteSet(Holders \cup Members)
  BY <1>1, FS_Union DEF PointersAreApart
<1>4. IsFiniteSet(Holders \cup Members \cup Observers)
  BY <1>3, FS_Union DEF PointersAreApart
<1>5. IsFiniteSet(Holders \cup Members \cup Observers \cup {Self(o): o \in Objects})
  BY <1>2, <1>4, FS_Union
<1>. QED BY <1>3, <1>5, FS_AddElement DEF Holding, Pointers

LEMMA FiniteReferrers ==
  ASSUME PointersAreApart, NEW o
  PROVE  IsFiniteSet(ReferTo(Holding, o)) /\ IsFiniteSet(ReferTo(Pointers, o))
<1>1. ReferTo(Holding, o) \in SUBSET (Holding \cup {Temporary})
  BY DEF ReferTo
<1>2. ReferTo(Pointers, o) \in SUBSET (Pointers \cup {Temporary})
  BY DEF ReferTo
<1>. QED BY <1>1, <1>2, FiniteNames, FS_Subset

(* Sets that an element joins, leaves, or takes the place of another in.     *)
LEMMA OneMore ==
  ASSUME NEW S, IsFiniteSet(S), NEW T, NEW x, x \notin S, T = S \cup {x}
  PROVE  Cardinality(T) = Cardinality(S) + 1 /\ Cardinality(S) \in Nat
BY FS_AddElement, FS_CardinalityType

LEMMA OneLess ==
  ASSUME NEW S, IsFiniteSet(S), NEW T, NEW x, x \in S, T = S \ {x}
  PROVE  Cardinality(T) = Cardinality(S) - 1 /\ Cardinality(S) \in Nat
BY FS_RemoveElement, FS_CardinalityType

LEMMA AsMany ==
  ASSUME NEW S, IsFiniteSet(S), NEW T, NEW x, x \in S, NEW y, y \notin S, T = (S \ {x}) \cup {y}
  PROVE  Cardinality(T) = Cardinality(S)
<1>1. IsFiniteSet(S \ {x}) /\ Cardinality(S \ {x}) = Cardinality(S) - 1 /\ Cardinality(S) \in Nat
  BY FS_RemoveElement, FS_CardinalityType
<1>2. y \notin S \ {x}
  OBVIOUS
<1>3. Cardinality((S \ {x}) \cup {y}) = Cardinality(S \ {x}) + 1
  BY <1>1, <1>2, FS_AddElement
<1>. QED BY <1>1, <1>3

-----------------------------------------------------------------------------
(* The stack: what a step puts on it, and what it leaves.                    *)
IsStacked(s, t, r) ==
  /\ r \in Seq(Frames) /\ Len(r) = Len(t) + Len(s) - 1 /\ Len(s) \in Nat \ {0}
  /\ \A i \in 1 .. Len(t): r[i] = t[i]
  /\ \A d \in 1 .. Len(s) - 1: r[Len(r) + 1 - d] = s[Len(s) + 1 - d]

LEMMA Stacked ==
  ASSUME NEW s \in Seq(Frames), s # <<>>, NEW t \in Seq(Frames), NEW r, r = t \o Tail(s)
  PROVE  IsStacked(s, t, r)
<1>1. /\ Tail(s) \in Seq(Frames) /\ Len(Tail(s)) = Len(s) - 1 /\ Len(s) \in Nat \ {0}
      /\ \A i \in 1 .. Len(s) - 1: Tail(s)[i] = s[i + 1]
  OBVIOUS
<1>2. r \in Seq(Frames) /\ Len(r) = Len(t) + Len(s) - 1 /\ Len(t) \in Nat
  BY <1>1
<1>3. \A i \in 1 .. Len(t): r[i] = t[i]
  BY <1>1
<1>4. ASSUME NEW d \in 1 .. Len(s) - 1 PROVE r[Len(r) + 1 - d] = s[Len(s) + 1 - d]
  <2> DEFINE i == Len(s) - d
  <2>1. i \in 1 .. Len(s) - 1 /\ Len(r) + 1 - d = Len(t) + i /\ Len(s) + 1 - d = i + 1
    BY <1>1, <1>2
  <2>2. r[Len(t) + i] = Tail(s)[i]
    BY <1>1, <1>2, <2>1
  <2>. QED BY <1>1, <2>1, <2>2
<1>. QED BY <1>1, <1>2, <1>3, <1>4 DEF IsStacked

Lower == \A d \in 1 .. Height - 1: At(d)' = At(d)

(* What the steps make of the stack: a frame less, or one, two or three in   *)
(* the place of one.                                                         *)
LEMMA Popped ==
  ASSUME todo \in Seq(Frames), todo # <<>>, Then(<<>>), NEW n, n = Height
  PROVE  todo' \in Seq(Frames) /\ n \in Nat \ {0} /\ Height' = n - 1 /\ Lower
<1>1. <<>> \in Seq(Frames) /\ Len(<<>>) = 0
  OBVIOUS
<1>. QED BY <1>1, Stacked DEF IsStacked, Then, Lower, At, Height

LEMMA Replaced1 ==
  ASSUME todo \in Seq(Frames), todo # <<>>, NEW f \in Frames, Then(<<f>>), NEW n, n = Height
  PROVE  /\ todo' \in Seq(Frames) /\ n \in Nat \ {0} /\ Height' = n /\ Lower
         /\ At(n)' = f
<1> DEFINE t == <<f>>
<1>1. t \in Seq(Frames) /\ Len(t) = 1 /\ t[1] = f
  OBVIOUS
<1>2. todo' = t \o Tail(todo)
  BY DEF Then
<1> HIDE DEF t
<1>3. /\ todo' \in Seq(Frames) /\ Len(todo') = Len(todo) /\ Len(todo) \in Nat \ {0}
      /\ \A d \in 1 .. Len(todo) - 1: todo'[Len(todo') + 1 - d] = todo[Len(todo) + 1 - d]
      /\ todo'[1] = f
  <2>1. /\ todo' \in Seq(Frames) /\ Len(todo') = Len(t) + Len(todo) - 1 /\ Len(todo) \in Nat \ {0}
        /\ \A i \in 1 .. Len(t): todo'[i] = t[i]
        /\ \A d \in 1 .. Len(todo) - 1: todo'[Len(todo') + 1 - d] = todo[Len(todo) + 1 - d]
    <3>1. IsStacked(todo, t, todo')
      BY <1>1, <1>2, Stacked, Zenon
    <3>. QED BY <3>1 DEF IsStacked
  <2>2. Len(todo') = Len(todo)
    <3>1. \A a \in Nat: 1 + a - 1 = a
      OBVIOUS
    <3>2. Len(todo') = 1 + Len(todo) - 1
      BY <1>1, <2>1, Zenon
    <3>. QED BY <2>1, <3>1, <3>2, Zenon
  <2>3. todo'[1] = f
    BY <1>1, <2>1
  <2>. QED BY <1>1, <2>1, <2>2, <2>3
<1>4. n = Len(todo) /\ n \in Nat
  BY <1>3 DEF Height
<1>5. todo'[n + 1 - n] = f
  <2>1. n + 1 - n = 1
    BY <1>4
  <2>. QED BY <1>3, <2>1
<1>6. Lower
  BY <1>3 DEF Lower, At, Height
<1>7. Height' = n
  BY <1>3, <1>4 DEF Height
<1>. QED BY <1>3, <1>4, <1>5, <1>6, <1>7 DEF At

LEMMA Replaced2 ==
  ASSUME todo \in Seq(Frames), todo # <<>>, NEW f \in Frames, NEW g \in Frames, Then(<<f, g>>),
         NEW n, n = Height
  PROVE  /\ todo' \in Seq(Frames) /\ n \in Nat \ {0} /\ Height' = n + 1 /\ Lower
         /\ At(n + 1)' = f /\ At(n)' = g
<1> DEFINE t == <<f, g>>
<1>1. t \in Seq(Frames) /\ Len(t) = 2 /\ t[1] = f /\ t[2] = g
  OBVIOUS
<1>2. todo' = t \o Tail(todo)
  BY DEF Then
<1> HIDE DEF t
<1>3. /\ todo' \in Seq(Frames) /\ Len(todo') = Len(todo) + 1 /\ Len(todo) \in Nat \ {0}
      /\ \A d \in 1 .. Len(todo) - 1: todo'[Len(todo') + 1 - d] = todo[Len(todo) + 1 - d]
      /\ todo'[1] = f /\ todo'[2] = g
  <2>1. /\ todo' \in Seq(Frames) /\ Len(todo') = Len(t) + Len(todo) - 1 /\ Len(todo) \in Nat \ {0}
        /\ \A i \in 1 .. Len(t): todo'[i] = t[i]
        /\ \A d \in 1 .. Len(todo) - 1: todo'[Len(todo') + 1 - d] = todo[Len(todo) + 1 - d]
    <3>1. IsStacked(todo, t, todo')
      BY <1>1, <1>2, Stacked, Zenon
    <3>. QED BY <3>1 DEF IsStacked
  <2>2. Len(todo') = Len(todo) + 1
    <3>1. \A a \in Nat: 2 + a - 1 = a + 1
      OBVIOUS
    <3>2. Len(todo') = 2 + Len(todo) - 1
      BY <1>1, <2>1, Zenon
    <3>. QED BY <2>1, <3>1, <3>2, Zenon
  <2>3. todo'[1] = f /\ todo'[2] = g
    BY <1>1, <2>1
  <2>. QED BY <1>1, <2>1, <2>2, <2>3
<1>4. n = Len(todo) /\ n \in Nat
  BY <1>3 DEF Height
<1>5. todo'[n + 1 + 1 - (n + 1)] = f /\ todo'[n + 1 + 1 - n] = g
  <2>1. n + 1 + 1 - (n + 1) = 1 /\ n + 1 + 1 - n = 2
    BY <1>4
  <2>. QED BY <1>3, <2>1
<1>6. Lower
  BY <1>3 DEF Lower, At, Height
<1>7. Height' = n + 1
  BY <1>3, <1>4 DEF Height
<1>. QED BY <1>3, <1>4, <1>5, <1>6, <1>7 DEF At

LEMMA Replaced3 ==
  ASSUME todo \in Seq(Frames), todo # <<>>, NEW f \in Frames, NEW g \in Frames, NEW h \in Frames,
         Then(<<f, g, h>>), NEW n, n = Height
  PROVE  /\ todo' \in Seq(Frames) /\ n \in Nat \ {0} /\ Height' = n + 2 /\ Lower
         /\ At(n + 2)' = f /\ At(n + 1)' = g /\ At(n)' = h
<1> DEFINE t == <<f, g, h>>
<1>1. t \in Seq(Frames) /\ Len(t) = 3 /\ t[1] = f /\ t[2] = g /\ t[3] = h
  OBVIOUS
<1>2. todo' = t \o Tail(todo)
  BY DEF Then
<1> HIDE DEF t
<1>3. /\ todo' \in Seq(Frames) /\ Len(todo') = Len(todo) + 2 /\ Len(todo) \in Nat \ {0}
      /\ \A d \in 1 .. Len(todo) - 1: todo'[Len(todo') + 1 - d] = todo[Len(todo) + 1 - d]
      /\ todo'[1] = f /\ todo'[2] = g /\ todo'[3] = h
  <2>1. /\ todo' \in Seq(Frames) /\ Len(todo') = Len(t) + Len(todo) - 1 /\ Len(todo) \in Nat \ {0}
        /\ \A i \in 1 .. Len(t): todo'[i] = t[i]
        /\ \A d \in 1 .. Len(todo) - 1: todo'[Len(todo') + 1 - d] = todo[Len(todo) + 1 - d]
    <3>1. IsStacked(todo, t, todo')
      BY <1>1, <1>2, Stacked, Zenon
    <3>. QED BY <3>1 DEF IsStacked
  <2>2. Len(todo') = Len(todo) + 2
    <3>1. \A a \in Nat: 3 + a - 1 = a + 2
      OBVIOUS
    <3>2. Len(todo') = 3 + Len(todo) - 1
      BY <1>1, <2>1, Zenon
    <3>. QED BY <2>1, <3>1, <3>2, Zenon
  <2>3. todo'[1] = f /\ todo'[2] = g /\ todo'[3] = h
    BY <1>1, <2>1
  <2>. QED BY <1>1, <2>1, <2>2, <2>3
<1>4. n = Len(todo) /\ n \in Nat
  BY <1>3 DEF Height
<1>5. todo'[n + 2 + 1 - (n + 2)] = f /\ todo'[n + 2 + 1 - (n + 1)] = g /\ todo'[n + 2 + 1 - n] = h
  <2>1. n + 2 + 1 - (n + 2) = 1 /\ n + 2 + 1 - (n + 1) = 2 /\ n + 2 + 1 - n = 3
    BY <1>4
  <2>. QED BY <1>3, <2>1
<1>6. Lower
  BY <1>3 DEF Lower, At, Height
<1>7. Height' = n + 2
  BY <1>3, <1>4 DEF Height
<1>. QED BY <1>3, <1>4, <1>5, <1>6, <1>7 DEF At

LEMMA Began1 ==
  ASSUME NEW f \in Frames, todo' = <<f>>
  PROVE  todo' \in Seq(Frames) /\ Height' = 1 /\ At(1)' = f
BY DEF Height, At

LEMMA Began2 ==
  ASSUME NEW f \in Frames, NEW g \in Frames, todo' = <<f, g>>
  PROVE  todo' \in Seq(Frames) /\ Height' = 2 /\ At(2)' = f /\ At(1)' = g
BY DEF Height, At

(* What the frames are made of.                                              *)
LEMMA FrameTypes ==
  ASSUME PointersAreApart, PointerTypes, NEW d \in Places
  PROVE  /\ Height \in Nat /\ At(d) \in Frames /\ At(d) = <<Kind(d), Who(d), What(d)>>
         /\ Kind(d) \in {"release", "count", "delete", "deleted", "acquire"}
         /\ Kind(d) = "release" => Who(d) \in Pointers \cup {Temporary} /\ What(d) \in Objects \cup {Nothing}
         /\ Kind(d) = "count" => Who(d) \in Pointers \cup {Temporary} /\ What(d) \in Objects
         /\ Kind(d) = "delete" => Who(d) \in Holding \cup {Temporary} /\ What(d) \in Objects
         /\ Kind(d) = "deleted" => Who(d) \in {Self(o): o \in Objects} /\ What(d) \in Objects
         /\ Kind(d) = "acquire" => Who(d) \in Holding \cup Observers /\ What(d) \in Holders \cup Observers
<1>1. Height \in Nat /\ todo \in Seq(Frames) /\ Height + 1 - d \in 1 .. Len(todo)
  BY DEF PointerTypes, Places, Height
<1>2. At(d) \in Frames
  BY <1>1 DEF At
<1>. QED BY <1>1, <1>2 DEF Frames, Kind, Who, What

LEMMA TopIsHead ==
  ASSUME PointersAreApart, PointerTypes, todo # <<>>
  PROVE  /\ Height \in Nat \ {0} /\ Height \in Places /\ Head(todo) = At(Height)
         /\ Head(todo)[1] = Kind(Height) /\ Head(todo)[2] = Who(Height) /\ Head(todo)[3] = What(Height)
BY DEF PointerTypes, Height, At, Kind, Who, What, Places

-----------------------------------------------------------------------------
(* What refers to an object is counted, and what is counted refers to it.    *)
LEMMA ReferrersCount ==
  ASSUME PointersAreApart, Inv, NEW o \in Objects, NEW p \in Pointers \cup {Temporary}, Refers(p, o)
  PROVE  observers[o] > 0 /\ shared[o] /\ (IsHolder(p) => holders[o] > 0)
<1>1. observers[o] > 0
  <2>1. p \in ReferTo(Pointers, o)
    BY DEF ReferTo
  <2>2. Cardinality(ReferTo(Pointers, o)) # 0 /\ Cardinality(ReferTo(Pointers, o)) \in Nat
    BY <2>1, FiniteReferrers, FS_EmptySet, FS_CardinalityType
  <2>. QED BY <2>2 DEF Inv, CountInv, Counted
<1>2. ASSUME IsHolder(p) PROVE holders[o] > 0
  <2>1. p \in ReferTo(Holding, o)
    BY <1>2 DEF ReferTo, IsHolder
  <2>2. Cardinality(ReferTo(Holding, o)) # 0 /\ Cardinality(ReferTo(Holding, o)) \in Nat
    BY <2>1, FiniteReferrers, FS_EmptySet, FS_CardinalityType
  <2>. QED BY <2>2 DEF Inv, CountInv, Counted
<1>. QED BY <1>1, <1>2 DEF Inv, CountInv, Counted

LEMMA CountedRefer ==
  ASSUME PointersAreApart, Inv, NEW o \in Objects
  PROVE  /\ holders[o] > 0 => \E p \in Holding \cup {Temporary}: Refers(p, o)
         /\ observers[o] > 0 => \E p \in Pointers \cup {Temporary}: Refers(p, o)
<1>1. ReferTo(Holding, o) = {} => holders[o] = 0
  BY FS_EmptySet DEF Inv, CountInv, Counted
<1>2. ReferTo(Pointers, o) = {} => observers[o] = 0
  BY FS_EmptySet DEF Inv, CountInv, Counted
<1>. QED BY <1>1, <1>2 DEF ReferTo

(* The last holder is one.                                                   *)
LEMMA OneHolder ==
  ASSUME PointersAreApart, Inv, NEW o \in Objects, holders[o] = 1, NEW p, NEW q,
         IsHolder(p), IsHolder(q), Refers(p, o), Refers(q, o)
  PROVE  p = q
<1>1. p \in ReferTo(Holding, o) /\ q \in ReferTo(Holding, o)
  BY DEF ReferTo, IsHolder
<1>2. Cardinality(ReferTo(Holding, o)) = 1
  BY DEF Inv, CountInv, Counted
<1>3. \E x: ReferTo(Holding, o) = {x}
  BY <1>2, FiniteReferrers, FS_Singleton
<1>. QED BY <1>1, <1>3

(* A frame that releases a pointer is of what it refers to.                  *)
LEMMA FrameRefers ==
  ASSUME PointersAreApart, Inv, NEW d \in Places, Releases(d), What(d) \in Objects
  PROVE  Refers(Who(d), What(d))
BY DEF Inv, ReleaseInv, Refers, Releases

(* An object is deleted once.                                                *)
LEMMA OneDeleted ==
  ASSUME PointersAreApart, Inv, NEW d \in Places, NEW e \in Places,
         Kind(d) = "deleted", Kind(e) = "deleted", What(d) = What(e)
  PROVE  d = e
<1> DEFINE o == What(d)
<1>1. Height \in Nat /\ o \in Objects
  BY FrameTypes DEF Inv
<1>2. /\ d - 1 \in Places /\ e - 1 \in Places /\ holders[o] = 1
      /\ Kind(d - 1) = "count" /\ What(d - 1) = o /\ IsHolder(Who(d - 1))
      /\ Kind(e - 1) = "count" /\ What(e - 1) = o /\ IsHolder(Who(e - 1))
  BY <1>1 DEF Inv, DeletedInv, Places
<1> HIDE DEF o
<1>3. Refers(Who(d - 1), o) /\ Refers(Who(e - 1), o)
  BY <1>1, <1>2, FrameRefers DEF Releases
<1>4. Who(d - 1) = Who(e - 1)
  BY <1>1, <1>2, <1>3, OneHolder
<1>5. d - 1 = e - 1
  BY <1>2, <1>4 DEF Inv, ReleaseInv, Releases
<1>. QED BY <1>1, <1>5 DEF Places

-----------------------------------------------------------------------------
(* Between the calls of the program.                                         *)
LEMMA Quiet ==
  ASSUME PointersAreApart, Inv, todo = <<>>
  PROVE  /\ Height = 0 /\ Places = {}
         /\ \A o \in Objects: object[o] \in {"new", "alive", "deleted"}
         /\ \A o \in Objects: object[o] = "deleted" => holders[o] = 0
         /\ \A o: ~Refers(Temporary, o)
         /\ \A o \in Objects, p \in Holding: target[p] = o => object[o] = "alive"
         /\ \A x \in Objects: Exists(Member(x)) => object[x] = "alive"
<1>1. Height = 0 /\ Places = {}
  BY DEF Height, Places
<1>2. ASSUME NEW o \in Objects
      PROVE  /\ object[o] \in {"new", "alive", "deleted"}
             /\ object[o] = "deleted" => holders[o] = 0
  <2>1. object[o] # "dying"
    BY <1>1 DEF Inv, LifeInv
  <2>2. object[o] \in {"new", "alive", "dying", "deleted"} /\ holders[o] \in Nat
    BY DEF Inv, PointerTypes
  <2>3. object[o] = "deleted" => ~(holders[o] > 0)
    BY <1>1 DEF Inv, LifeInv
  <2>. QED BY <2>1, <2>2, <2>3
<1>3. \A o: ~Refers(Temporary, o)
  BY <1>1 DEF Refers
<1>4. ASSUME NEW o \in Objects, NEW p \in Holding, target[p] = o PROVE object[o] = "alive"
  <2>1. p \in Pointers /\ p # Temporary /\ IsHolder(p)
    BY Names DEF IsHolder
  <2>2. holders[o] > 0
    BY <1>4, <2>1, ReferrersCount DEF Refers
  <2>3. object[o] # "new"
    BY <2>2 DEF Inv, LifeInv
  <2>4. object[o] # "deleted"
    BY <1>2, <2>2
  <2>. QED BY <1>2, <2>3, <2>4
<1>5. ASSUME NEW x \in Objects, Exists(Member(x)) PROVE object[x] = "alive"
  BY <1>2, <1>5 DEF Exists
<1>. QED BY <1>1, <1>2, <1>3, <1>4, <1>5

(* A call that has one pointer to release.                                   *)
LEMMA BeginsToRelease ==
  ASSUME PointersAreApart, Inv, todo = <<>>, PointerTypes',
         NEW w \in Holding \cup Observers \cup {Temporary}, NEW t \in Objects \cup {Nothing},
         todo' = <<<<"release", w, t>>>>,
         w # Temporary => target'[w] = t,
         \A x \in Objects: w = Member(x) => object'[x] = "alive"
  PROVE  /\ Places' = {1} /\ Kind(1)' = "release" /\ Who(1)' = w /\ What(1)' = t /\ Height' = 1
         /\ ReleaseInv' /\ DeleteInv' /\ DeletedInv' /\ ClearedInv' /\ CountOffInv' /\ OwnerInv' /\ AcquireInv'
<1>1. <<"release", w, t>> \in Frames
  <2>1. w \in Pointers \cup {Temporary}
    BY Names
  <2>. QED BY <2>1 DEF Frames
<1>2. Height' = 1 /\ At(1)' = <<"release", w, t>>
  BY <1>1, Began1
<1>3. Places' = {1} /\ Kind(1)' = "release" /\ Who(1)' = w /\ What(1)' = t
  BY <1>2 DEF Places, Kind, Who, What
<1>4. ReleaseInv'
  BY <1>3 DEF ReleaseInv
<1>5. DeleteInv' /\ DeletedInv' /\ ClearedInv' /\ CountOffInv' /\ AcquireInv'
  BY <1>3 DEF DeleteInv, DeletedInv, ClearedInv, CountOffInv, AcquireInv
<1>6. OwnerInv'
  <2>1. \A x \in Objects: Self(x) # w
    BY Names
  <2>. QED BY <1>3, <2>1 DEF OwnerInv
<1>. QED BY <1>2, <1>3, <1>4, <1>5, <1>6

(* An object can be ranked above what it does not hold in any way yet.       *)
LEMMA HigherRank ==
  ASSUME PointersAreApart, PointerTypes, NEW rank \in [Objects -> Nat],
         \A v, o \in Objects: target[Member(v)] = o => rank[o] < rank[v],
         NEW x \in Objects, NEW y \in Objects, x \notin ReachedFrom(y)
  PROVE  \E high \in [Objects -> Nat]:
           /\ \A v, o \in Objects: target[Member(v)] = o => high[o] < high[v]
           /\ high[y] < high[x]
<1> DEFINE R == ReachedFrom(y)
           high == [o \in Objects |-> IF o \in R THEN rank[o] ELSE rank[o] + rank[y] + 1]
<1>1. y \in R /\ x \notin R
  BY Names DEF ReachedFrom
<1>2. ASSUME NEW v \in Objects, NEW o \in Objects, target[Member(v)] = o, v \in R PROVE o \in R
  BY <1>2, Names DEF ReachedFrom
<1> HIDE DEF R
<1>3. \A v \in Objects: rank[v] \in Nat
  OBVIOUS
<1>4. high \in [Objects -> Nat]
  BY <1>3
<1>5. ASSUME NEW v \in Objects, NEW o \in Objects, target[Member(v)] = o PROVE high[o] < high[v]
  <2>1. rank[o] < rank[v]
    BY <1>5
  <2>2. v \in R => o \in R
    BY <1>2, <1>5
  <2>. QED BY <1>3, <2>1, <2>2
<1>6. high[y] < high[x]
  BY <1>1, <1>3
<1> HIDE DEF high
<1>. QED BY <1>4, <1>5, <1>6

LEMMA InitInv == ASSUME PointersAreApart, Init PROVE Inv
<1>1. PointerTypes
  <2>1. todo \in Seq(Frames)
    BY DEF Init
  <2>. QED BY <2>1 DEF PointerTypes, Init
<1>2. Places = {} /\ Height = 0
  BY DEF Init, Places, Height
<1>3. \A p \in Pointers \cup {Temporary}, o \in Objects: ~Refers(p, o)
  BY <1>2, Names DEF Refers, Init
<1>4. CountInv
  <2> SUFFICES ASSUME NEW o \in Objects PROVE Counted(o)
    BY DEF CountInv
  <2>1. ReferTo(Holding, o) = {} /\ ReferTo(Pointers, o) = {}
    BY <1>3, Names DEF ReferTo
  <2>. QED BY <2>1, FS_EmptySet DEF Counted, Init
<1>5. ReleaseInv /\ DeleteInv /\ DeletedInv /\ ClearedInv /\ CountOffInv /\ OwnerInv /\ AcquireInv
  BY <1>2 DEF ReleaseInv, DeleteInv, DeletedInv, ClearedInv, CountOffInv, OwnerInv, AcquireInv
<1>6. LifeInv
  <2> SUFFICES ASSUME NEW o \in Objects
               PROVE  /\ target[Self(o)] = Nothing /\ target[Member(o)] = Nothing
                      /\ object[o] = "new" /\ holders[o] = 0 /\ observers[o] = 0
    BY DEF LifeInv
  <2>. QED BY Names DEF Init
<1>7. RankInv
  <2> DEFINE rank == [o \in Objects |-> 0]
  <2>1. \A x, o \in Objects: target[Member(x)] # o
    BY Names DEF Init
  <2>2. IsRank(rank)
    BY <1>2, <2>1 DEF IsRank
  <2>3. rank \in [Objects -> Nat]
    OBVIOUS
  <2> HIDE DEF rank
  <2>. QED BY <2>2, <2>3 DEF RankInv
<1>. QED BY <1>1, <1>4, <1>5, <1>6, <1>7 DEF Inv

-----------------------------------------------------------------------------
(* What refers to an object in the next state: the same, one more, one less, *)
(* or another in the place of one.                                           *)
LEMMA SameReferrers ==
  ASSUME PointersAreApart, Inv, NEW o \in Objects,
         \A q \in Pointers \cup {Temporary}: Refers(q, o)' <=> Refers(q, o),
         holders'[o] = holders[o], observers'[o] = observers[o], shared'[o] = shared[o]
  PROVE  Counted(o)'
<1>1. ReferTo(Holding, o)' = ReferTo(Holding, o) /\ ReferTo(Pointers, o)' = ReferTo(Pointers, o)
  BY Names DEF ReferTo
<1>. QED BY <1>1 DEF Inv, CountInv, Counted

LEMMA ReferrerJoins ==
  ASSUME PointersAreApart, Inv, NEW o \in Objects, NEW p \in Pointers \cup {Temporary}, ~Refers(p, o),
         \A q \in Pointers \cup {Temporary}: Refers(q, o)' <=> Refers(q, o) \/ q = p,
         holders'[o] = (IF IsHolder(p) THEN holders[o] + 1 ELSE holders[o]),
         observers'[o] = observers[o] + 1, shared'[o]
  PROVE  Counted(o)'
<1>1. Cardinality(ReferTo(Pointers, o)') = Cardinality(ReferTo(Pointers, o)) + 1
      /\ Cardinality(ReferTo(Pointers, o)) \in Nat
  <2>1. ReferTo(Pointers, o)' = ReferTo(Pointers, o) \cup {p} /\ p \notin ReferTo(Pointers, o)
    BY DEF ReferTo
  <2>. QED BY <2>1, FiniteReferrers, OneMore
<1>2. ASSUME IsHolder(p)
      PROVE  Cardinality(ReferTo(Holding, o)') = Cardinality(ReferTo(Holding, o)) + 1
  <2>1. ReferTo(Holding, o)' = ReferTo(Holding, o) \cup {p} /\ p \notin ReferTo(Holding, o)
    BY <1>2, Names DEF ReferTo, IsHolder
  <2>. QED BY <2>1, FiniteReferrers, OneMore
<1>3. ASSUME ~IsHolder(p) PROVE ReferTo(Holding, o)' = ReferTo(Holding, o)
  BY <1>3, Names DEF ReferTo, IsHolder
<1>4. holders[o] = Cardinality(ReferTo(Holding, o)) /\ observers[o] = Cardinality(ReferTo(Pointers, o))
  BY DEF Inv, CountInv, Counted
<1>5. holders'[o] = Cardinality(ReferTo(Holding, o)')
  BY <1>2, <1>3, <1>4
<1>6. observers'[o] = Cardinality(ReferTo(Pointers, o)') /\ observers'[o] > 0
  BY <1>1, <1>4
<1>. QED BY <1>5, <1>6 DEF Counted

LEMMA ReferrerLeaves ==
  ASSUME PointersAreApart, Inv, NEW o \in Objects, NEW p \in Pointers \cup {Temporary}, Refers(p, o),
         \A q \in Pointers \cup {Temporary}: Refers(q, o)' <=> Refers(q, o) /\ q # p,
         holders'[o] = (IF IsHolder(p) THEN holders[o] - 1 ELSE holders[o]),
         observers'[o] = observers[o] - 1, shared'[o] <=> observers[o] > 1
  PROVE  Counted(o)'
<1>1. Cardinality(ReferTo(Pointers, o)') = Cardinality(ReferTo(Pointers, o)) - 1
      /\ Cardinality(ReferTo(Pointers, o)) \in Nat
  <2>1. ReferTo(Pointers, o)' = ReferTo(Pointers, o) \ {p} /\ p \in ReferTo(Pointers, o)
    BY DEF ReferTo
  <2>. QED BY <2>1, FiniteReferrers, OneLess
<1>2. ASSUME IsHolder(p)
      PROVE  Cardinality(ReferTo(Holding, o)') = Cardinality(ReferTo(Holding, o)) - 1
  <2>1. ReferTo(Holding, o)' = ReferTo(Holding, o) \ {p} /\ p \in ReferTo(Holding, o)
    BY <1>2, Names DEF ReferTo, IsHolder
  <2>. QED BY <2>1, FiniteReferrers, OneLess
<1>3. ASSUME ~IsHolder(p) PROVE ReferTo(Holding, o)' = ReferTo(Holding, o)
  BY <1>3, Names DEF ReferTo, IsHolder
<1>4. holders[o] = Cardinality(ReferTo(Holding, o)) /\ observers[o] = Cardinality(ReferTo(Pointers, o))
  BY DEF Inv, CountInv, Counted
<1>5. holders'[o] = Cardinality(ReferTo(Holding, o)')
  BY <1>2, <1>3, <1>4
<1>6. observers'[o] = Cardinality(ReferTo(Pointers, o)') /\ (shared'[o] <=> observers'[o] > 0)
  BY <1>1, <1>4
<1>. QED BY <1>5, <1>6 DEF Counted

LEMMA HolderReplaced ==
  ASSUME PointersAreApart, Inv, NEW o \in Objects, NEW p, IsHolder(p), Refers(p, o),
         NEW s, IsHolder(s), ~Refers(s, o),
         \A q \in Pointers \cup {Temporary}: Refers(q, o)' <=> (Refers(q, o) /\ q # p) \/ q = s,
         holders'[o] = holders[o], observers'[o] = observers[o], shared'[o] = shared[o]
  PROVE  Counted(o)'
<1>1. p \in Holding \cup {Temporary} /\ s \in Holding \cup {Temporary} /\ Holding \subseteq Pointers
  BY Names DEF IsHolder
<1>2. Cardinality(ReferTo(Pointers, o)') = Cardinality(ReferTo(Pointers, o))
  <2>1. /\ ReferTo(Pointers, o)' = (ReferTo(Pointers, o) \ {p}) \cup {s}
        /\ p \in ReferTo(Pointers, o) /\ s \notin ReferTo(Pointers, o)
    BY <1>1 DEF ReferTo
  <2>. QED BY <2>1, FiniteReferrers, AsMany
<1>3. Cardinality(ReferTo(Holding, o)') = Cardinality(ReferTo(Holding, o))
  <2>1. /\ ReferTo(Holding, o)' = (ReferTo(Holding, o) \ {p}) \cup {s}
        /\ p \in ReferTo(Holding, o) /\ s \notin ReferTo(Holding, o)
    BY <1>1 DEF ReferTo
  <2>. QED BY <2>1, FiniteReferrers, AsMany
<1>. QED BY <1>2, <1>3 DEF Inv, CountInv, Counted

-----------------------------------------------------------------------------
LEMMA ResetKeeps ==
  ASSUME PointersAreApart, Inv, NEW p \in Holding \cup Observers, Reset(p)
  PROVE  Inv'
<1>1. /\ todo = <<>> /\ Exists(p) /\ todo' = <<<<"release", p, target[p]>>>>
      /\ UNCHANGED <<target, holders, observers, object, shared, faulty>>
  BY DEF Reset
<1>2. p \in Pointers /\ target[p] \in Objects \cup {Nothing} /\ p # Temporary
  BY Names DEF Inv, PointerTypes
<1>3. PointerTypes'
  <2>1. <<"release", p, target[p]>> \in Frames
    BY <1>2 DEF Frames
  <2>2. todo' \in Seq(Frames)
    BY <1>1, <2>1, Began1
  <2>. QED BY <1>1, <2>2 DEF Inv, PointerTypes
<1>4. \A x \in Objects: p = Member(x) => object'[x] = "alive"
  BY <1>1, Quiet
<1>5. /\ Places' = {1} /\ Kind(1)' = "release" /\ Who(1)' = p /\ What(1)' = target[p] /\ Height' = 1
      /\ ReleaseInv' /\ DeleteInv' /\ DeletedInv' /\ ClearedInv' /\ CountOffInv' /\ OwnerInv' /\ AcquireInv'
  BY <1>1, <1>2, <1>3, <1>4, BeginsToRelease
<1>6. CountInv'
  <2> SUFFICES ASSUME NEW o \in Objects PROVE Counted(o)'
    BY DEF CountInv
  <2>1. \A q: Refers(q, o)' <=> Refers(q, o)
    BY <1>1, <1>2, <1>5, Quiet DEF Refers
  <2>. QED BY <1>1, <2>1, SameReferrers
<1>7. LifeInv'
  <2>1. \A o \in Objects: object[o] # "dying" /\ ~(object[o] = "deleted" /\ holders[o] > 0)
    BY <1>1, Quiet
  <2>. QED BY <1>1, <2>1 DEF Inv, LifeInv
<1>8. RankInv'
  <2>1. PICK rank \in [Objects -> Nat]: IsRank(rank)
    BY DEF Inv, RankInv
  <2>2. \A x, o \in Objects: target'[Member(x)] = o => rank[o] < rank[x]
    BY <1>1, <2>1 DEF IsRank
  <2>3. \A d \in Places': d = 1 /\ Kind(1)' # "acquire" /\ Who(1)' = p /\ What(1)' = target[p]
    BY <1>5
  <2>4. ASSUME NEW x \in Objects, p = Member(x), target[p] # Nothing PROVE rank[target[p]] < rank[x]
    BY <1>1, <1>2, <2>2, <2>4
  <2>5. IsRank(rank)'
    BY <2>2, <2>3, <2>4 DEF IsRank
  <2>. QED BY <2>5 DEF RankInv
<1>. QED BY <1>3, <1>5, <1>6, <1>7, <1>8 DEF Inv

LEMMA NewKeeps ==
  ASSUME PointersAreApart, Inv, NEW p \in Holders, NEW o \in Objects, New(p, o)
  PROVE  Inv'
<1> DEFINE old == target[p]
<1>1. /\ todo = <<>> /\ object[o] = "new"
      /\ object' = [object EXCEPT ![o] = "alive"]
      /\ shared' = [shared EXCEPT ![o] = TRUE]
      /\ holders' = [holders EXCEPT ![o] = 1]
      /\ observers' = [observers EXCEPT ![o] = 2]
      /\ target' = [target EXCEPT ![p] = o, ![Self(o)] = o]
      /\ todo' = IF old = Nothing THEN <<>> ELSE <<<<"release", Temporary, old>>>>
      /\ faulty' = faulty
  BY DEF New
<1>2. /\ p \in Pointers /\ p \in Holding /\ IsHolder(p) /\ p # Temporary /\ old \in Objects \cup {Nothing}
      /\ \A x \in Objects: p # Self(x) /\ p # Member(x)
      /\ Self(o) \in Pointers /\ Self(o) # Temporary /\ Temporary \notin Pointers
      /\ ~IsHolder(Self(o)) /\ Nothing \notin Objects
  BY Names DEF Inv, PointerTypes, Holding, IsHolder
<1>3. /\ \A q \in Pointers: target'[q] = IF q \in {p, Self(o)} THEN o ELSE target[q]
      /\ \A z \in Objects \ {o}: /\ holders'[z] = holders[z] /\ observers'[z] = observers[z]
                                 /\ shared'[z] = shared[z] /\ object'[z] = object[z]
      /\ holders'[o] = 1 /\ observers'[o] = 2 /\ shared'[o] /\ object'[o] = "alive"
  BY <1>1, <1>2 DEF Inv, PointerTypes
<1> HIDE DEF old
<1>4. PointerTypes'
  <2>1. todo' \in Seq(Frames)
    <3>1. CASE old = Nothing
      BY <1>1, <3>1
    <3>2. CASE old # Nothing
      <4>1. <<"release", Temporary, old>> \in Frames
        BY <1>2 DEF Frames
      <4>. QED BY <1>1, <3>2, <4>1, Began1
    <3>. QED BY <3>1, <3>2
  <2>2. target' \in [Pointers -> Objects \cup {Nothing}]
    BY <1>1, <1>2 DEF Inv, PointerTypes
  <2>. QED BY <1>1, <2>1, <2>2 DEF Inv, PointerTypes
<1>5. /\ \A d \in Places': d = 1 /\ old # Nothing /\ Kind(1)' = "release" /\ Who(1)' = Temporary /\ What(1)' = old
      /\ old # Nothing => Places' = {1}
      /\ ReleaseInv' /\ DeleteInv' /\ DeletedInv' /\ ClearedInv' /\ CountOffInv' /\ OwnerInv' /\ AcquireInv'
  <2>1. CASE old = Nothing
    <3>1. Places' = {}
      BY <1>1, <2>1 DEF Places, Height
    <3>. QED BY <2>1, <3>1 DEF ReleaseInv, DeleteInv, DeletedInv, ClearedInv, CountOffInv, OwnerInv, AcquireInv
  <2>2. CASE old # Nothing
    <3>1. todo' = <<<<"release", Temporary, old>>>> /\ todo = <<>>
      BY <1>1, <2>2
    <3>2. \A x \in Objects: Temporary # Member(x)
      BY Names
    <3>. QED BY <1>2, <1>4, <2>2, <3>1, <3>2, BeginsToRelease
  <2>. QED BY <2>1, <2>2
<1>6. \A q \in Pointers \cup {Temporary}: ~Refers(q, o)
  <2>1. ~(observers[o] > 0)
    BY <1>1 DEF Inv, LifeInv
  <2>. QED BY <2>1, ReferrersCount
<1>7. ASSUME NEW q \in Pointers \cup {Temporary}, NEW z \in Objects
      PROVE  Refers(q, z)' <=> IF z = o THEN q \in {p, Self(o)}
                               ELSE (Refers(q, z) /\ q # p) \/ (q = Temporary /\ z = old)
  <2>1. CASE q = Temporary
    <3>1. Refers(q, z)' <=> old = z
      BY <1>2, <1>5, <2>1 DEF Refers, Releases
    <3>2. ~Refers(q, z)
      BY <1>1, <2>1, Quiet
    <3>3. old # o
      BY <1>2, <1>6 DEF Refers, old
    <3>. QED BY <1>2, <2>1, <3>1, <3>2, <3>3
  <2>2. CASE q # Temporary
    <3>1. Refers(q, z)' <=> target'[q] = z
      BY <2>2 DEF Refers
    <3>2. Refers(q, z) <=> target[q] = z
      BY <2>2 DEF Refers
    <3>3. q \in Pointers /\ target[q] # o /\ (q = Self(o) => target[q] = Nothing)
      BY <1>1, <1>6, <2>2 DEF Refers, Inv, LifeInv
    <3>. QED BY <1>2, <1>3, <2>2, <3>1, <3>2, <3>3
  <2>. QED BY <2>1, <2>2
<1>8. CountInv'
  <2> SUFFICES ASSUME NEW z \in Objects PROVE Counted(z)'
    BY DEF CountInv
  <2>1. CASE z = o
    <3>1. ReferTo(Holding, o)' = {p} /\ ReferTo(Pointers, o)' = {p} \cup {Self(o)}
      <4>1. \A q \in Pointers \cup {Temporary}: Refers(q, o)' <=> q \in {p, Self(o)}
        BY <1>7
      <4>2. Self(o) \notin Holding \cup {Temporary} /\ Holding \subseteq Pointers
        BY <1>2, Names DEF IsHolder
      <4>. QED BY <1>2, <4>1, <4>2 DEF ReferTo
    <3>2. Self(o) \notin {p}
      BY <1>2
    <3>3. Cardinality({p}) = 1 /\ IsFiniteSet({p})
      BY FS_Singleton
    <3>4. Cardinality({p} \cup {Self(o)}) = 2
      BY <3>2, <3>3, OneMore
    <3>. QED BY <1>3, <2>1, <3>1, <3>3, <3>4 DEF Counted
  <2>2. CASE z # o /\ z = old
    <3>1. Refers(p, z) /\ ~Refers(Temporary, z) /\ IsHolder(Temporary)
      BY <1>1, <1>2, <2>2, Quiet DEF Refers, old, IsHolder
    <3>2. \A q \in Pointers \cup {Temporary}: Refers(q, z)' <=> (Refers(q, z) /\ q # p) \/ q = Temporary
      BY <1>7, <2>2
    <3>. QED BY <1>2, <1>3, <2>2, <3>1, <3>2, HolderReplaced
  <2>3. CASE z # o /\ z # old
    <3>1. ~Refers(p, z)
      BY <1>2, <2>3 DEF Refers, old
    <3>2. \A q \in Pointers \cup {Temporary}: Refers(q, z)' <=> Refers(q, z)
      BY <1>7, <2>3, <3>1
    <3>. QED BY <1>3, <2>3, <3>2, SameReferrers
  <2>. QED BY <2>1, <2>2, <2>3
<1>9. LifeInv'
  <2> SUFFICES ASSUME NEW z \in Objects
               PROVE  /\ target'[Self(z)] \in {z, Nothing} /\ object'[z] # "dying"
                      /\ object'[z] \in {"new", "deleted"} =>
                           target'[Member(z)] = Nothing /\ target'[Self(z)] = Nothing
                      /\ object'[z] = "alive" => holders'[z] > 0
                      /\ object'[z] = "new" => holders'[z] = 0 /\ observers'[z] = 0
                      /\ ~(object'[z] = "deleted" /\ holders'[z] > 0)
    BY DEF LifeInv
  <2>1. Member(z) \in Pointers \ {p, Self(o)} /\ Self(z) \in Pointers \ {p}
        /\ (Self(z) = Self(o) => z = o)
    BY <1>2, Names
  <2>2. CASE z = o
    BY <1>3, <2>1, <2>2
  <2>3. CASE z # o
    <3>1. /\ target'[Self(z)] = target[Self(z)] /\ target'[Member(z)] = target[Member(z)]
          /\ object'[z] = object[z] /\ holders'[z] = holders[z] /\ observers'[z] = observers[z]
      BY <1>3, <2>1, <2>3
    <3>2. object[z] # "dying" /\ ~(object[z] = "deleted" /\ holders[z] > 0)
      BY <1>1, Quiet
    <3>. QED BY <3>1, <3>2 DEF Inv, LifeInv
  <2>. QED BY <2>2, <2>3
<1>10. RankInv'
  <2>1. PICK rank \in [Objects -> Nat]: IsRank(rank)
    BY DEF Inv, RankInv
  <2>2. \A x \in Objects: target'[Member(x)] = target[Member(x)] /\ Member(x) # Temporary
    BY <1>2, <1>3, Names
  <2>3. IsRank(rank)'
    BY <1>5, <2>1, <2>2 DEF IsRank
  <2>. QED BY <2>3 DEF RankInv
<1>. QED BY <1>4, <1>5, <1>8, <1>9, <1>10 DEF Inv

(* The ranks when a pointer is given what it may hold.                       *)
LEMMA MayHoldRanks ==
  ASSUME PointersAreApart, Inv, NEW p \in Pointers, NEW y \in Objects \cup {Nothing}, MayHold(p, y)
  PROVE  \E rank \in [Objects -> Nat]:
           /\ \A x, o \in Objects: target[Member(x)] = o => rank[o] < rank[x]
           /\ \A x \in Objects: p = Member(x) /\ y # Nothing => rank[y] < rank[x]
<1>1. PICK rank \in [Objects -> Nat]: IsRank(rank)
  BY DEF Inv, RankInv
<1>2. \A x, o \in Objects: target[Member(x)] = o => rank[o] < rank[x]
  BY <1>1 DEF IsRank
<1>3. CASE y \in Objects /\ \E x \in Objects: p = Member(x)
  <2>1. PICK x \in Objects: p = Member(x)
    BY <1>3
  <2>2. x \notin ReachedFrom(y)
    BY <2>1 DEF MayHold, PointersAreApart
  <2>3. PointerTypes
    BY DEF Inv
  <2>4. \E high \in [Objects -> Nat]:
          /\ \A v, o \in Objects: target[Member(v)] = o => high[o] < high[v]
          /\ high[y] < high[x]
    BY <1>2, <1>3, <2>2, <2>3, HigherRank
  <2>5. \A v \in Objects: p = Member(v) => v = x
    BY <2>1, Names
  <2>. QED BY <2>4, <2>5
<1>4. CASE ~(y \in Objects /\ \E x \in Objects: p = Member(x))
  BY <1>2, <1>4
<1>. QED BY <1>3, <1>4

LEMMA FromThisKeeps ==
  ASSUME PointersAreApart, Inv, NEW p \in Holding, NEW o \in Objects, FromThis(p, o)
  PROVE  Inv'
<1> DEFINE old == target[p]
<1>1. /\ todo = <<>> /\ Exists(p) /\ object[o] = "alive" /\ holders[o] > 0 /\ MayHold(p, o)
      /\ target' = [target EXCEPT ![p] = o]
      /\ holders' = [holders EXCEPT ![o] = @ + 1]
      /\ observers' = [observers EXCEPT ![o] = @ + 1]
      /\ todo' = <<<<"release", Temporary, old>>>>
      /\ UNCHANGED <<object, shared, faulty>>
  BY DEF FromThis
<1>2. /\ p \in Pointers /\ IsHolder(p) /\ p # Temporary /\ old \in Objects \cup {Nothing}
      /\ \A x \in Objects: p # Self(x)
      /\ Temporary \notin Pointers /\ Nothing \notin Objects /\ IsHolder(Temporary)
      /\ \A x \in Objects: Temporary # Member(x)
  BY Names DEF Inv, PointerTypes, IsHolder
<1>3. /\ \A q \in Pointers: target'[q] = IF q = p THEN o ELSE target[q]
      /\ \A z \in Objects \ {o}: holders'[z] = holders[z] /\ observers'[z] = observers[z]
      /\ holders'[o] = holders[o] + 1 /\ observers'[o] = observers[o] + 1
      /\ holders[o] \in Nat /\ observers[o] \in Nat
  BY <1>1, <1>2 DEF Inv, PointerTypes
<1> HIDE DEF old
<1>4. PointerTypes'
  <2>1. <<"release", Temporary, old>> \in Frames
    BY <1>2 DEF Frames
  <2>2. todo' \in Seq(Frames)
    BY <1>1, <2>1, Began1
  <2>3. target' \in [Pointers -> Objects \cup {Nothing}]
    BY <1>1, <1>2 DEF Inv, PointerTypes
  <2>4. holders' \in [Objects -> Nat] /\ observers' \in [Objects -> Nat]
    BY <1>1, <1>3 DEF Inv, PointerTypes
  <2>. QED BY <1>1, <2>2, <2>3, <2>4 DEF Inv, PointerTypes
<1>5. /\ Places' = {1} /\ Kind(1)' = "release" /\ Who(1)' = Temporary /\ What(1)' = old /\ Height' = 1
      /\ ReleaseInv' /\ DeleteInv' /\ DeletedInv' /\ ClearedInv' /\ CountOffInv' /\ OwnerInv' /\ AcquireInv'
  BY <1>1, <1>2, <1>4, BeginsToRelease
<1>6. \A q \in Pointers \cup {Temporary}, z \in Objects:
        Refers(q, z)' <=> IF q = Temporary THEN z = old ELSE IF q = p THEN z = o ELSE Refers(q, z)
  BY <1>2, <1>3, <1>5 DEF Refers, Releases
<1>7. \A z: ~Refers(Temporary, z)
  BY <1>1, Quiet
<1>8. \A z \in Objects: Refers(p, z) <=> z = old
  BY <1>2 DEF Refers, old
<1>9. shared[o]
  <2>1. \E q \in Holding \cup {Temporary}: Refers(q, o)
    BY <1>1, CountedRefer
  <2>. QED BY <2>1, Names, ReferrersCount
<1>10. CountInv'
  <2> SUFFICES ASSUME NEW z \in Objects PROVE Counted(z)'
    BY DEF CountInv
  <2>1. CASE z = o /\ old = o
    <3>1. \A q \in Pointers \cup {Temporary}: Refers(q, o)' <=> Refers(q, o) \/ q = Temporary
      BY <1>6, <1>7, <1>8, <2>1
    <3>. QED BY <1>1, <1>2, <1>3, <1>7, <1>9, <2>1, <3>1, ReferrerJoins
  <2>2. CASE z = o /\ old # o
    <3>1. \A q \in Pointers \cup {Temporary}: Refers(q, o)' <=> Refers(q, o) \/ q = p
      BY <1>2, <1>6, <1>7, <1>8, <2>2
    <3>2. ~Refers(p, o)
      BY <1>8, <2>2
    <3>. QED BY <1>1, <1>2, <1>3, <1>9, <2>2, <3>1, <3>2, ReferrerJoins
  <2>3. CASE z # o /\ z = old
    <3>1. \A q \in Pointers \cup {Temporary}: Refers(q, z)' <=> (Refers(q, z) /\ q # p) \/ q = Temporary
      BY <1>2, <1>6, <1>7, <1>8, <2>3
    <3>2. Refers(p, z) /\ ~Refers(Temporary, z)
      BY <1>7, <1>8, <2>3
    <3>. QED BY <1>1, <1>2, <1>3, <2>3, <3>1, <3>2, HolderReplaced
  <2>4. CASE z # o /\ z # old
    <3>1. \A q \in Pointers \cup {Temporary}: Refers(q, z)' <=> Refers(q, z)
      BY <1>2, <1>6, <1>7, <1>8, <2>4
    <3>. QED BY <1>1, <1>3, <2>4, <3>1, SameReferrers
  <2>. QED BY <2>1, <2>2, <2>3, <2>4
<1>11. LifeInv'
  <2> SUFFICES ASSUME NEW z \in Objects
               PROVE  /\ target'[Self(z)] \in {z, Nothing} /\ object[z] # "dying"
                      /\ object[z] \in {"new", "deleted"} =>
                           target'[Member(z)] = Nothing /\ target'[Self(z)] = Nothing
                      /\ object[z] = "alive" => holders'[z] > 0
                      /\ object[z] = "new" => holders'[z] = 0 /\ observers'[z] = 0
                      /\ ~(object[z] = "deleted" /\ holders'[z] > 0)
    BY <1>1 DEF LifeInv
  <2>1. Member(z) \in Pointers /\ Self(z) \in Pointers \ {p}
    BY <1>2, Names
  <2>2. p = Member(z) => object[z] = "alive"
    BY <1>1, Quiet
  <2>3. object[z] # "dying" /\ ~(object[z] = "deleted" /\ holders[z] > 0)
    BY <1>1, Quiet
  <2>. QED BY <1>1, <1>3, <2>1, <2>2, <2>3 DEF Inv, LifeInv
<1>12. RankInv'
  <2>1. PICK rank \in [Objects -> Nat]:
          /\ \A x, z \in Objects: target[Member(x)] = z => rank[z] < rank[x]
          /\ \A x \in Objects: p = Member(x) /\ o # Nothing => rank[o] < rank[x]
    BY <1>1, <1>2, MayHoldRanks
  <2>2. \A x, z \in Objects: target'[Member(x)] = z => rank[z] < rank[x]
    BY <1>2, <1>3, <2>1, Names
  <2>3. IsRank(rank)'
    BY <1>2, <1>5, <2>2 DEF IsRank
  <2>. QED BY <2>3 DEF RankInv
<1>. QED BY <1>4, <1>5, <1>10, <1>11, <1>12 DEF Inv

LEMMA MoveKeeps ==
  ASSUME PointersAreApart, Inv, NEW p \in Holding, NEW source \in Holding, Move(p, source)
  PROVE  Inv'
<1> DEFINE t == target[p]
           u == target[source]
<1>1. /\ todo = <<>> /\ Exists(p) /\ MayHold(p, u) /\ (source \in Members => FromMembers)
      /\ target' = [target EXCEPT ![p] = u, ![source] = t]
      /\ todo' = <<<<"release", source, t>>>>
      /\ UNCHANGED <<holders, observers, object, shared, faulty>>
  BY DEF Move
<1>2. /\ p \in Pointers /\ IsHolder(p) /\ p # Temporary /\ t \in Objects \cup {Nothing}
      /\ source \in Pointers /\ source \in Holders /\ IsHolder(source) /\ source # Temporary
      /\ u \in Objects \cup {Nothing}
      /\ \A x \in Objects: p # Self(x) /\ source # Self(x) /\ source # Member(x)
      /\ Nothing \notin Objects
  <2>1. source \in Holders
    BY <1>1 DEF PointersAreApart, Holding
  <2>2. p \in Pointers /\ source \in Pointers /\ p # Temporary /\ source # Temporary
    BY Names
  <2>3. t \in Objects \cup {Nothing} /\ u \in Objects \cup {Nothing}
    BY <2>2 DEF Inv, PointerTypes
  <2>4. \A x \in Objects: p # Self(x) /\ source # Self(x) /\ source # Member(x)
    BY <2>1, Names
  <2>. QED BY <2>1, <2>2, <2>3, <2>4, Names DEF IsHolder
<1>3. \A q \in Pointers: target'[q] = IF q = source THEN t ELSE IF q = p THEN u ELSE target[q]
  BY <1>1, <1>2 DEF Inv, PointerTypes
<1>4. target[p] = t /\ target[source] = u
  OBVIOUS
<1>5. PointerTypes'
  <2>1. <<"release", source, t>> \in Frames
    BY <1>2 DEF Frames
  <2>2. todo' \in Seq(Frames)
    BY <1>1, <2>1, Began1
  <2>. QED BY <1>1, <1>2, <2>2 DEF Inv, PointerTypes
<1> HIDE DEF t, u
<1>6. /\ Places' = {1} /\ Kind(1)' = "release" /\ Who(1)' = source /\ What(1)' = t /\ Height' = 1
      /\ ReleaseInv' /\ DeleteInv' /\ DeletedInv' /\ ClearedInv' /\ CountOffInv' /\ OwnerInv' /\ AcquireInv'
  <2>1. target'[source] = t
    BY <1>2, <1>3
  <2>. QED BY <1>1, <1>2, <1>5, <2>1, BeginsToRelease
<1>7. \A q \in Pointers \cup {Temporary}, z \in Objects:
        Refers(q, z)' <=> IF q = source THEN z = t ELSE IF q = p THEN z = u ELSE Refers(q, z)
  <2>1. \A z: ~Refers(Temporary, z)
    BY <1>1, Quiet
  <2>. QED BY <1>2, <1>3, <1>6, <2>1 DEF Refers
<1>8. \A z \in Objects: (Refers(p, z) <=> z = t) /\ (Refers(source, z) <=> z = u)
  BY <1>2, <1>4 DEF Refers
<1>9. CountInv'
  <2> SUFFICES ASSUME NEW z \in Objects PROVE Counted(z)'
    BY DEF CountInv
  <2>1. CASE t # u /\ z = t
    <3>1. \A q \in Pointers \cup {Temporary}: Refers(q, z)' <=> (Refers(q, z) /\ q # p) \/ q = source
      BY <1>2, <1>4, <1>7, <1>8, <2>1
    <3>2. Refers(p, z) /\ ~Refers(source, z)
      BY <1>8, <2>1
    <3>. QED BY <1>1, <1>2, <3>1, <3>2, HolderReplaced
  <2>2. CASE t # u /\ z = u
    <3>1. \A q \in Pointers \cup {Temporary}: Refers(q, z)' <=> (Refers(q, z) /\ q # source) \/ q = p
      BY <1>2, <1>4, <1>7, <1>8, <2>2
    <3>2. Refers(source, z) /\ ~Refers(p, z)
      BY <1>8, <2>2
    <3>. QED BY <1>1, <1>2, <3>1, <3>2, HolderReplaced
  <2>3. CASE t = u \/ (z # t /\ z # u)
    <3>1. \A q \in Pointers \cup {Temporary}: Refers(q, z)' <=> Refers(q, z)
      BY <1>2, <1>7, <1>8, <2>3
    <3>. QED BY <1>1, <3>1, SameReferrers
  <2>. QED BY <2>1, <2>2, <2>3
<1>10. LifeInv'
  <2> SUFFICES ASSUME NEW z \in Objects
               PROVE  /\ target'[Self(z)] \in {z, Nothing} /\ object[z] # "dying"
                      /\ object[z] \in {"new", "deleted"} =>
                           target'[Member(z)] = Nothing /\ target'[Self(z)] = Nothing
                      /\ object[z] = "alive" => holders[z] > 0
                      /\ object[z] = "new" => holders[z] = 0 /\ observers[z] = 0
                      /\ ~(object[z] = "deleted" /\ holders[z] > 0)
    BY <1>1 DEF LifeInv
  <2>1. Member(z) \in Pointers \ {source} /\ Self(z) \in Pointers \ {p, source}
    BY <1>2, Names
  <2>2. p = Member(z) => object[z] = "alive"
    BY <1>1, Quiet
  <2>3. object[z] # "dying" /\ ~(object[z] = "deleted" /\ holders[z] > 0)
    BY <1>1, Quiet
  <2>. QED BY <1>1, <1>3, <2>1, <2>2, <2>3 DEF Inv, LifeInv
<1>11. RankInv'
  <2>1. PICK rank \in [Objects -> Nat]:
          /\ \A x, z \in Objects: target[Member(x)] = z => rank[z] < rank[x]
          /\ \A x \in Objects: p = Member(x) /\ u # Nothing => rank[u] < rank[x]
    BY <1>1, <1>2, MayHoldRanks
  <2>2. \A x, z \in Objects: target'[Member(x)] = z => rank[z] < rank[x]
    BY <1>2, <1>3, <2>1, Names
  <2>3. IsRank(rank)'
    BY <1>2, <1>6, <2>2 DEF IsRank
  <2>. QED BY <2>3 DEF RankInv
<1>. QED BY <1>5, <1>6, <1>9, <1>10, <1>11 DEF Inv

LEMMA AssignKeeps ==
  ASSUME PointersAreApart, Inv, NEW p \in Holding \cup Observers, NEW source \in Holding \cup Observers,
         Assign(p, source)
  PROVE  Inv'
<1> DEFINE t == target[p]
           u == target[source]
<1>1. /\ todo = <<>> /\ Exists(p) /\ MayHold(p, u) /\ (source \in Members => FromMembers)
      /\ t # u
      /\ todo' = <<<<"release", p, t>>, <<"acquire", p, source>>>>
      /\ UNCHANGED <<target, holders, observers, object, shared, faulty>>
  BY DEF Assign
<1>2. /\ p \in Pointers /\ p # Temporary /\ t \in Objects \cup {Nothing}
      /\ source \in Pointers /\ source \in Holders \cup Observers /\ u \in Objects \cup {Nothing}
      /\ \A x \in Objects: p # Self(x)
      /\ Nothing \notin Objects
  <2>1. source \in Holders \cup Observers
    BY <1>1 DEF PointersAreApart, Holding
  <2>2. p \in Pointers /\ source \in Pointers /\ p # Temporary
    BY Names
  <2>3. t \in Objects \cup {Nothing} /\ u \in Objects \cup {Nothing}
    BY <2>2 DEF Inv, PointerTypes
  <2>. QED BY <2>1, <2>2, <2>3, Names
<1>3. target[p] = t /\ target[source] = u
  OBVIOUS
<1> HIDE DEF t, u
<1>4. /\ todo' \in Seq(Frames) /\ Height' = 2
      /\ Places' = {1, 2} /\ Kind(2)' = "release" /\ Who(2)' = p /\ What(2)' = t
      /\ Kind(1)' = "acquire" /\ Who(1)' = p /\ What(1)' = source
  <2>1. <<"release", p, t>> \in Frames /\ <<"acquire", p, source>> \in Frames
    BY <1>2 DEF Frames
  <2>2. /\ todo' \in Seq(Frames) /\ Height' = 2
        /\ At(2)' = <<"release", p, t>> /\ At(1)' = <<"acquire", p, source>>
    BY <1>1, <2>1, Began2
  <2>. QED BY <2>2 DEF Places, Kind, Who, What
<1>5. PointerTypes'
  BY <1>1, <1>4 DEF Inv, PointerTypes
<1>6. \A x \in Objects: p = Member(x) => object[x] = "alive"
  BY <1>1, Quiet
<1>7. ReleaseInv'
  BY <1>1, <1>3, <1>4 DEF ReleaseInv, Releases
<1>8. DeleteInv' /\ DeletedInv' /\ ClearedInv' /\ CountOffInv'
  BY <1>4 DEF DeleteInv, DeletedInv, ClearedInv, CountOffInv
<1>9. OwnerInv'
  BY <1>1, <1>2, <1>4, <1>6 DEF OwnerInv, Releases
<1>10. AcquireInv'
  BY <1>1, <1>4, <1>6 DEF AcquireInv, Releases
<1>11. CountInv'
  <2> SUFFICES ASSUME NEW z \in Objects PROVE Counted(z)'
    BY DEF CountInv
  <2>1. \A q: Refers(q, z)' <=> Refers(q, z)
    BY <1>1, <1>2, <1>4, Quiet DEF Refers, Releases
  <2>. QED BY <1>1, <2>1, SameReferrers
<1>12. LifeInv'
  <2>1. \A z \in Objects: object[z] # "dying" /\ ~(object[z] = "deleted" /\ holders[z] > 0)
    BY <1>1, Quiet
  <2>. QED BY <1>1, <2>1 DEF Inv, LifeInv
<1>13. RankInv'
  <2>1. PICK rank \in [Objects -> Nat]:
          /\ \A x, z \in Objects: target[Member(x)] = z => rank[z] < rank[x]
          /\ \A x \in Objects: p = Member(x) /\ u # Nothing => rank[u] < rank[x]
    BY <1>1, <1>2, MayHoldRanks
  <2>2. \A x, z \in Objects: target'[Member(x)] = z => rank[z] < rank[x]
    BY <1>1, <2>1
  <2>3. \A x, z \in Objects, d \in Places':
          (Kind(d) = "acquire" /\ Who(d) = Member(x) /\ target[What(d)] = z)' => rank[z] < rank[x]
    BY <1>1, <1>2, <1>3, <1>4, <2>1
  <2>4. ASSUME NEW x \in Objects, p = Member(x), t # Nothing PROVE rank[t] < rank[x]
    BY <1>2, <1>3, <2>1, <2>4
  <2>5. \A x \in Objects, d, e \in Places':
          (Releases(d) /\ Who(d) = Member(x) /\ object[x] = "alive" /\ Kind(e) # "acquire"
             /\ What(e) # Nothing)' => rank[What(e)'] < rank[x]
    BY <1>4, <2>4 DEF Releases
  <2>6. IsRank(rank)'
    BY <2>2, <2>3, <2>5 DEF IsRank
  <2>. QED BY <2>6 DEF RankInv
<1>. QED BY <1>5, <1>7, <1>8, <1>9, <1>10, <1>11, <1>12, <1>13 DEF Inv

-----------------------------------------------------------------------------
LEMMA LowerParts ==
  ASSUME Lower, NEW n, n = Height
  PROVE  \A d \in 1 .. n - 1: /\ Kind(d)' = Kind(d) /\ Who(d)' = Who(d) /\ What(d)' = What(d)
                              /\ At(d)' = At(d) /\ (Releases(d)' <=> Releases(d))
BY DEF Lower, Kind, Who, What, Releases

(* The frame on the top, when it releases a pointer of an object.            *)
LEMMA TopReleases ==
  ASSUME PointersAreApart, Inv, todo # <<>>, Releases(Height), What(Height) \in Objects
  PROVE  /\ Refers(Who(Height), What(Height)) /\ shared[What(Height)] /\ observers[What(Height)] > 0
         /\ IsHolder(Who(Height)) =>
              holders[What(Height)] > 0 /\ (Kind(Height) = "release" => object[What(Height)] = "alive")
<1>1. PICK n, p, o: n = Height /\ p = Who(Height) /\ o = What(Height)
  OBVIOUS
<1>2. n \in Nat \ {0} /\ n \in Places /\ p \in Pointers \cup {Temporary} /\ o \in Objects
  BY <1>1, TopIsHead, FrameTypes DEF Inv, Releases
<1>3. Refers(p, o)
  BY <1>1, <1>2, FrameRefers
<1>4. shared[o] /\ observers[o] > 0 /\ (IsHolder(p) => holders[o] > 0)
  BY <1>2, <1>3, ReferrersCount
<1>5. ASSUME IsHolder(p), Kind(n) = "release" PROVE object[o] = "alive"
  <2>1. object[o] # "new" /\ object[o] # "deleted"
    BY <1>1, <1>2, <1>4, <1>5 DEF Inv, LifeInv
  <2>2. ASSUME object[o] = "dying" PROVE FALSE
    <3>1. PICK d \in Places: Kind(d) = "deleted" /\ What(d) = o
      BY <1>2, <2>2 DEF Inv, LifeInv
    <3>2. /\ d > 1 /\ Kind(d - 1) = "count" /\ What(d - 1) = o /\ IsHolder(Who(d - 1))
          /\ holders[o] = 1
      BY <3>1 DEF Inv, DeletedInv
    <3>3. d - 1 \in Places /\ d - 1 # n
      BY <1>1, <1>2, <3>2 DEF Places
    <3>4. Refers(Who(d - 1), o)
      BY <1>2, <3>2, <3>3, FrameRefers DEF Releases
    <3>5. Who(d - 1) = p
      BY <1>2, <1>3, <1>5, <3>2, <3>4, OneHolder
    <3>. QED BY <1>1, <1>2, <1>5, <3>2, <3>3, <3>5 DEF Inv, ReleaseInv, Releases
  <2>3. object[o] \in {"new", "alive", "dying", "deleted"}
    BY <1>2 DEF Inv, PointerTypes
  <2>. QED BY <2>1, <2>2, <2>3
<1>. QED BY <1>1, <1>3, <1>4, <1>5

(* A release of a pointer that refers to nothing.                            *)
LEMMA ReleaseNothingKeeps == ASSUME PointersAreApart, Inv, ReleaseNothing PROVE Inv'
<1>1. PICK n, p, o: n = Height /\ p = Who(Height) /\ o = What(Height)
  OBVIOUS
<1>2. /\ todo # <<>> /\ Kind(n) = "release" /\ Who(n) = p /\ What(n) = Nothing
      /\ n \in Nat \ {0} /\ n \in Places /\ Places = 1 .. n
      /\ Then(<<>>) /\ UNCHANGED <<target, holders, observers, object, shared, faulty>>
  BY <1>1, TopIsHead DEF Inv, ReleaseNothing, Places
<1>3. todo' \in Seq(Frames) /\ Height' = n - 1 /\ Lower
  BY <1>1, <1>2, Popped DEF Inv, PointerTypes
<1>4. \A d \in 1 .. n - 1: /\ Kind(d)' = Kind(d) /\ Who(d)' = Who(d) /\ What(d)' = What(d)
                           /\ At(d)' = At(d) /\ (Releases(d)' <=> Releases(d))
  BY <1>1, <1>3, LowerParts
<1>5. Places' = 1 .. n - 1 /\ Places' \subseteq Places
  <2>1. Places' = 1 .. n - 1
    BY <1>3 DEF Places
  <2>2. 1 .. n - 1 \subseteq 1 .. n
    BY <1>2
  <2>. QED BY <1>2, <2>1, <2>2
<1>6. p # Temporary => target[p] = Nothing
  <2>1. \A d \in Places: Kind(d) = "release" /\ Who(d) # Temporary => target[Who(d)] = What(d)
    BY DEF Inv, ReleaseInv
  <2>. QED BY <1>2, <2>1
<1>7. PointerTypes'
  BY <1>2, <1>3 DEF Inv, PointerTypes
<1>8. CountInv'
  <2> SUFFICES ASSUME NEW z \in Objects PROVE Counted(z)'
    BY DEF CountInv
  <2>1. What(n) # z
    BY <1>2, Names
  <2>2. \A q: Refers(q, z)' <=> Refers(q, z)
    <3>1. ASSUME NEW d \in Places, What(d) = z PROVE d \in 1 .. n - 1
      BY <1>2, <2>1, <3>1
    <3>. QED BY <1>2, <1>4, <1>5, <3>1 DEF Refers
  <2>. QED BY <1>2, <2>2, SameReferrers
<1>9. ReleaseInv'
  <2>1. ASSUME NEW d \in 1 .. n - 1, Kind(d) \in {"release", "count", "delete"}, Who(d) # Temporary
        PROVE  target[Who(d)] = What(d)
    BY <1>2, <2>1 DEF Inv, ReleaseInv
  <2>2. ASSUME NEW d \in 1 .. n - 1, NEW e \in 1 .. n - 1, Releases(d), Releases(e), Who(d) = Who(e)
        PROVE  d = e
    BY <1>2, <2>2 DEF Inv, ReleaseInv
  <2>. QED BY <1>2, <1>4, <1>5, <2>1, <2>2 DEF ReleaseInv
<1>10. DeleteInv'
  <2>1. \A d \in 1 .. n - 1: Kind(d)' # "delete"
    BY <1>1, <1>2, <1>4 DEF Inv, DeleteInv
  <2>. QED BY <1>5, <2>1 DEF DeleteInv
<1>11. DeletedInv'
  <2> SUFFICES ASSUME NEW d \in 1 .. n - 1, Kind(d) = "deleted"
               PROVE  /\ Who(d)' = Self(What(d)')
                      /\ d > 1 /\ Kind(d - 1)' = "count" /\ What(d - 1)' = What(d)' /\ IsHolder(Who(d - 1))'
                      /\ object[What(d)]' = "dying" /\ holders[What(d)]' = 1
    BY <1>4, <1>5 DEF DeletedInv
  <2>1. /\ Who(d) = Self(What(d))
        /\ d > 1 /\ Kind(d - 1) = "count" /\ What(d - 1) = What(d) /\ IsHolder(Who(d - 1))
        /\ object[What(d)] = "dying" /\ holders[What(d)] = 1
    BY <1>2 DEF Inv, DeletedInv
  <2>2. d - 1 \in 1 .. n - 1
    BY <1>2, <2>1
  <2>. QED BY <1>2, <1>4, <2>1, <2>2 DEF IsHolder
<1>12. ClearedInv'
  <2> SUFFICES ASSUME NEW d \in 1 .. n - 1, NEW x \in Objects, Kind(d) = "deleted", What(d) = x
               PROVE  /\ target[Self(x)] # Nothing => Clears(d + 1, Self(x))'
                      /\ target[Member(x)] # Nothing => Clears(d + 1, Self(x))' /\ Clears(d + 2, Member(x))'
    BY <1>2, <1>4, <1>5 DEF ClearedInv
  <2>1. ASSUME NEW e \in Nat, NEW q, q # Temporary, Clears(e, q), target[q] # Nothing PROVE Clears(e, q)'
    <3>1. e \in 1 .. n /\ e # n
      BY <1>2, <1>6, <2>1 DEF Clears
    <3>. QED BY <1>2, <1>4, <1>5, <2>1, <3>1 DEF Clears
  <2>2. /\ target[Self(x)] # Nothing => Clears(d + 1, Self(x))
        /\ target[Member(x)] # Nothing => Clears(d + 1, Self(x)) /\ Clears(d + 2, Member(x))
    BY <1>2 DEF Inv, ClearedInv
  <2>3. Self(x) # Temporary /\ Member(x) # Temporary
    BY Names
  <2>4. target[Member(x)] # Nothing => Clears(d + 2, Member(x))'
    BY <2>1, <2>2, <2>3
  <2>5. target[Member(x)] # Nothing => Clears(d + 1, Self(x))'
    <3> SUFFICES ASSUME target[Member(x)] # Nothing PROVE Clears(d + 1, Self(x))'
      OBVIOUS
    <3>1. d + 2 \in 1 .. n /\ Clears(d + 1, Self(x))
      BY <1>2, <2>2 DEF Clears
    <3>2. d + 1 \in 1 .. n - 1
      BY <1>2, <3>1
    <3>. QED BY <1>4, <1>5, <3>1, <3>2 DEF Clears
  <2>. QED BY <2>1, <2>2, <2>3, <2>4, <2>5
<1>13. CountOffInv'
  <2> SUFFICES ASSUME NEW d \in 1 .. n - 1, Kind(d) = "count"
               PROVE  /\ d < n - 1
                      /\ IsHolder(Who(d))' /\ Kind(d + 1)' \in {"delete", "deleted"} /\ What(d + 1)' = What(d)'
    BY <1>3, <1>4, <1>5 DEF CountOffInv
  <2>1. d < n /\ IsHolder(Who(d)) /\ Kind(d + 1) \in {"delete", "deleted"} /\ What(d + 1) = What(d)
    BY <1>1, <1>2 DEF Inv, CountOffInv
  <2>2. d + 1 \in 1 .. n - 1
    BY <1>2, <2>1
  <2>. QED BY <1>2, <1>4, <2>1, <2>2 DEF IsHolder
<1>14. OwnerInv'
  <2> SUFFICES ASSUME NEW d \in 1 .. n - 1, NEW x \in Objects, Releases(d)
               PROVE  /\ Who(d) = Member(x) =>
                           \/ object[x] = "alive"
                           \/ /\ object[x] = "dying" /\ d > 2
                              /\ Kind(d - 1)' = "release" /\ Who(d - 1)' = Self(x)
                              /\ At(d - 2)' = <<"deleted", Self(x), x>>
                      /\ Who(d) = Self(x) =>
                           object[x] = "dying" /\ d > 1 /\ At(d - 1)' = <<"deleted", Self(x), x>>
    BY <1>2, <1>4, <1>5 DEF OwnerInv
  <2>1. /\ Who(d) = Member(x) =>
             \/ object[x] = "alive"
             \/ /\ object[x] = "dying" /\ d > 2
                /\ Kind(d - 1) = "release" /\ Who(d - 1) = Self(x)
                /\ At(d - 2) = <<"deleted", Self(x), x>>
        /\ Who(d) = Self(x) =>
             object[x] = "dying" /\ d > 1 /\ At(d - 1) = <<"deleted", Self(x), x>>
    BY <1>2 DEF Inv, OwnerInv
  <2>2. (d > 1 => d - 1 \in 1 .. n - 1) /\ (d > 2 => d - 2 \in 1 .. n - 1 /\ d - 1 \in 1 .. n - 1)
    BY <1>2
  <2>. QED BY <1>4, <2>1, <2>2
<1>15. AcquireInv'
  <2> SUFFICES ASSUME NEW d \in 1 .. n - 1, Kind(d) = "acquire"
               PROVE  /\ d = 1
                      /\ \A x \in Objects: Who(1)' = Member(x) => object[x] = "alive"
                      /\ n - 1 = 1 => target[Who(1)'] = Nothing
                      /\ n - 1 > 1 => Releases(2)' /\ Who(2)' = Who(1)'
    BY <1>2, <1>3, <1>4, <1>5 DEF AcquireInv
  <2>1. d = 1 /\ n > 1 /\ d \in Places
    BY <1>2 DEF Inv, AcquireInv
  <2>2. /\ \A x \in Objects: Who(1) = Member(x) => object[x] = "alive"
        /\ Releases(2) /\ Who(2) = Who(1)
    BY <1>1, <1>2, <2>1 DEF Inv, AcquireInv
  <2>3. Who(1) # Temporary
    BY <2>1, FrameTypes, Names DEF Inv
  <2>4. Who(1)' = Who(1)
    BY <1>4, <2>1
  <2>5. CASE n = 2
    BY <1>2, <1>6, <2>1, <2>2, <2>3, <2>4, <2>5
  <2>6. CASE n > 2
    <3>1. 2 \in 1 .. n - 1 /\ n - 1 # 1
      BY <1>2, <2>6
    <3>. QED BY <1>4, <2>1, <2>2, <2>4, <3>1
  <2>. QED BY <1>2, <2>1, <2>5, <2>6
<1>16. LifeInv'
  <2> SUFFICES ASSUME NEW z \in Objects
               PROVE  /\ target[Self(z)] \in {z, Nothing}
                      /\ object[z] = "dying" => \E d \in Places': Kind(d)' = "deleted" /\ What(d)' = z
                      /\ object[z] \in {"new", "deleted"} =>
                           target[Member(z)] = Nothing /\ target[Self(z)] = Nothing
                      /\ object[z] = "alive" => holders[z] > 0
                      /\ object[z] = "new" => holders[z] = 0 /\ observers[z] = 0
                      /\ ~(object[z] = "deleted" /\ holders[z] > 0)
    BY <1>2 DEF LifeInv
  <2>1. ASSUME object[z] = "dying" PROVE \E d \in Places': Kind(d)' = "deleted" /\ What(d)' = z
    <3>1. PICK d \in Places: Kind(d) = "deleted" /\ What(d) = z
      BY <2>1 DEF Inv, LifeInv
    <3>2. d \in 1 .. n - 1
      BY <1>2, <3>1
    <3>. QED BY <1>4, <1>5, <3>1, <3>2
  <2>2. ~(object[z] = "deleted" /\ holders[z] > 0)
    BY <1>1, <1>2 DEF Inv, LifeInv
  <2>. QED BY <2>1, <2>2 DEF Inv, LifeInv
<1>17. RankInv'
  <2>1. PICK rank \in [Objects -> Nat]: IsRank(rank)
    BY DEF Inv, RankInv
  <2>2. IsRank(rank)'
    BY <1>2, <1>4, <1>5, <2>1 DEF IsRank
  <2>. QED BY <2>2 DEF RankInv
<1>. QED BY <1>7, <1>8, <1>9, <1>10, <1>11, <1>12, <1>13, <1>14, <1>15, <1>16, <1>17 DEF Inv

(* The pointer is not the last holder: it is counted off next.               *)
LEMMA ReleaseOneKeeps ==
  ASSUME PointersAreApart, Inv, Release, ~(IsHolder(Who(Height)) /\ holders[What(Height)] = 1)
  PROVE  Inv'
<1>1. PICK n, p, o: n = Height /\ p = Who(Height) /\ o = What(Height)
  OBVIOUS
<1>2. /\ todo # <<>> /\ Kind(n) = "release" /\ Who(n) = p /\ What(n) = o /\ o # Nothing
      /\ n \in Nat \ {0} /\ n \in Places /\ Places = 1 .. n
      /\ Then(<<<<"count", p, o>>>>) /\ UNCHANGED <<target, holders, observers, object, shared>>
      /\ faulty' = (faulty \/ ~shared[o]) /\ ~(IsHolder(p) /\ holders[o] = 1)
  BY <1>1, TopIsHead DEF Inv, Release, Places
<1>3. p \in Pointers \cup {Temporary} /\ o \in Objects
  BY <1>2, FrameTypes DEF Inv
<1>4. /\ Refers(p, o) /\ shared[o]
      /\ IsHolder(p) => holders[o] > 1 /\ object[o] = "alive"
  <2>1. /\ Refers(p, o) /\ shared[o]
        /\ IsHolder(p) => holders[o] > 0 /\ object[o] = "alive"
    BY <1>1, <1>2, <1>3, TopReleases DEF Releases
  <2>2. holders[o] \in Nat
    BY <1>3 DEF Inv, PointerTypes
  <2>. QED BY <1>2, <2>1, <2>2
<1>5. /\ todo' \in Seq(Frames) /\ Height' = n /\ Lower
      /\ Kind(n)' = "count" /\ Who(n)' = p /\ What(n)' = o /\ Releases(n)'
  <2>1. <<"count", p, o>> \in Frames
    BY <1>3 DEF Frames
  <2>2. todo' \in Seq(Frames) /\ Height' = n /\ Lower /\ At(n)' = <<"count", p, o>>
    BY <1>1, <1>2, <2>1, Replaced1 DEF Inv, PointerTypes
  <2>. QED BY <2>2 DEF Kind, Who, What, Releases
<1>6. \A d \in 1 .. n - 1: /\ Kind(d)' = Kind(d) /\ Who(d)' = Who(d) /\ What(d)' = What(d)
                           /\ At(d)' = At(d) /\ (Releases(d)' <=> Releases(d))
  BY <1>1, <1>5, LowerParts
<1>7. Places' = 1 .. n /\ \A d \in 1 .. n: d = n \/ d \in 1 .. n - 1
  BY <1>2, <1>5 DEF Places
<1>8. \A d \in 1 .. n: /\ Who(d)' = Who(d) /\ What(d)' = What(d) /\ (Releases(d)' <=> Releases(d))
  BY <1>2, <1>5, <1>6, <1>7 DEF Releases
<1>9. PointerTypes'
  BY <1>2, <1>4, <1>5 DEF Inv, PointerTypes
<1>10. CountInv'
  <2> SUFFICES ASSUME NEW z \in Objects PROVE Counted(z)'
    BY DEF CountInv
  <2>1. \A q: Refers(q, z)' <=> Refers(q, z)
    BY <1>2, <1>7, <1>8 DEF Refers
  <2>. QED BY <1>2, <2>1, SameReferrers
<1>11. ReleaseInv'
  <2>1. ASSUME NEW d \in 1 .. n, Kind(d)' \in {"release", "count", "delete"}, Who(d) # Temporary
        PROVE  target[Who(d)] = What(d)
    <3>1. Kind(d) \in {"release", "count", "delete"}
      BY <1>2, <1>6, <1>7, <2>1
    <3>. QED BY <1>2, <2>1, <3>1 DEF Inv, ReleaseInv
  <2>2. ASSUME NEW d \in 1 .. n, NEW e \in 1 .. n, Releases(d), Releases(e), Who(d) = Who(e)
        PROVE  d = e
    BY <1>2, <2>2 DEF Inv, ReleaseInv
  <2>. QED BY <1>2, <1>7, <1>8, <2>1, <2>2 DEF ReleaseInv
<1>12. DeleteInv'
  <2>1. \A d \in 1 .. n - 1: Kind(d)' # "delete"
    BY <1>1, <1>2, <1>6 DEF Inv, DeleteInv
  <2>. QED BY <1>5, <1>7, <2>1 DEF DeleteInv
<1>13. DeletedInv'
  <2> SUFFICES ASSUME NEW d \in 1 .. n - 1, Kind(d) = "deleted"
               PROVE  /\ Who(d)' = Self(What(d)')
                      /\ d > 1 /\ Kind(d - 1)' = "count" /\ What(d - 1)' = What(d)' /\ IsHolder(Who(d - 1))'
                      /\ object[What(d)]' = "dying" /\ holders[What(d)]' = 1
    BY <1>5, <1>6, <1>7 DEF DeletedInv
  <2>1. /\ Who(d) = Self(What(d))
        /\ d > 1 /\ Kind(d - 1) = "count" /\ What(d - 1) = What(d) /\ IsHolder(Who(d - 1))
        /\ object[What(d)] = "dying" /\ holders[What(d)] = 1
    BY <1>2 DEF Inv, DeletedInv
  <2>2. d - 1 \in 1 .. n - 1
    BY <1>2, <2>1
  <2>. QED BY <1>2, <1>6, <2>1, <2>2 DEF IsHolder
<1>14. ClearedInv'
  <2>1. \A d, q: Clears(d, q)' <=> Clears(d, q)
    BY <1>2, <1>7, <1>8 DEF Clears
  <2>. QED BY <1>2, <1>5, <1>6, <1>7, <2>1 DEF Inv, ClearedInv
<1>15. CountOffInv'
  <2>1. ASSUME NEW d \in 1 .. n - 1, Kind(d) = "count"
        PROVE  IsHolder(Who(d)) /\ Kind(d + 1)' \in {"delete", "deleted"} /\ What(d + 1)' = What(d)
    <3>1. IsHolder(Who(d)) /\ Kind(d + 1) \in {"delete", "deleted"} /\ What(d + 1) = What(d)
      BY <1>1, <1>2, <2>1 DEF Inv, CountOffInv
    <3>2. d + 1 \in 1 .. n - 1
      BY <1>2, <3>1
    <3>. QED BY <1>6, <3>1, <3>2
  <2>2. \A d \in 1 .. n - 1: d # n
    BY <1>2
  <2>. QED BY <1>2, <1>4, <1>5, <1>6, <1>7, <2>1, <2>2 DEF CountOffInv, IsHolder
<1>16. OwnerInv'
  <2> SUFFICES ASSUME NEW d \in 1 .. n, NEW x \in Objects, Releases(d)
               PROVE  /\ Who(d) = Member(x) =>
                           \/ object[x] = "alive"
                           \/ /\ object[x] = "dying" /\ d > 2
                              /\ Kind(d - 1)' = "release" /\ Who(d - 1)' = Self(x)
                              /\ At(d - 2)' = <<"deleted", Self(x), x>>
                      /\ Who(d) = Self(x) =>
                           object[x] = "dying" /\ d > 1 /\ At(d - 1)' = <<"deleted", Self(x), x>>
    BY <1>2, <1>7, <1>8 DEF OwnerInv
  <2>1. /\ Who(d) = Member(x) =>
             \/ object[x] = "alive"
             \/ /\ object[x] = "dying" /\ d > 2
                /\ Kind(d - 1) = "release" /\ Who(d - 1) = Self(x)
                /\ At(d - 2) = <<"deleted", Self(x), x>>
        /\ Who(d) = Self(x) =>
             object[x] = "dying" /\ d > 1 /\ At(d - 1) = <<"deleted", Self(x), x>>
    BY <1>2 DEF Inv, OwnerInv
  <2>2. (d > 1 => d - 1 \in 1 .. n - 1) /\ (d > 2 => d - 2 \in 1 .. n - 1 /\ d - 1 \in 1 .. n - 1)
    BY <1>2
  <2>. QED BY <1>6, <2>1, <2>2
<1>17. AcquireInv'
  <2> SUFFICES ASSUME NEW d \in 1 .. n - 1, Kind(d) = "acquire"
               PROVE  /\ d = 1
                      /\ \A x \in Objects: Who(1)' = Member(x) => object[x] = "alive"
                      /\ n > 1 /\ Releases(2)' /\ Who(2)' = Who(1)'
    BY <1>2, <1>5, <1>6, <1>7 DEF AcquireInv
  <2>1. d = 1 /\ n > 1 /\ d \in Places
    BY <1>2 DEF Inv, AcquireInv
  <2>2. /\ \A x \in Objects: Who(1) = Member(x) => object[x] = "alive"
        /\ Releases(2) /\ Who(2) = Who(1)
    BY <1>1, <1>2, <2>1 DEF Inv, AcquireInv
  <2>3. 1 \in 1 .. n /\ 2 \in 1 .. n
    BY <1>2, <2>1
  <2>. QED BY <1>8, <2>1, <2>2, <2>3
<1>18. LifeInv'
  <2> SUFFICES ASSUME NEW z \in Objects
               PROVE  /\ target[Self(z)] \in {z, Nothing}
                      /\ object[z] = "dying" => \E d \in Places': Kind(d)' = "deleted" /\ What(d)' = z
                      /\ object[z] \in {"new", "deleted"} =>
                           target[Member(z)] = Nothing /\ target[Self(z)] = Nothing
                      /\ object[z] = "alive" => holders[z] > 0
                      /\ object[z] = "new" => holders[z] = 0 /\ observers[z] = 0
                      /\ ~(object[z] = "deleted" /\ holders[z] > 0)
    BY <1>2 DEF LifeInv
  <2>1. ASSUME object[z] = "dying" PROVE \E d \in Places': Kind(d)' = "deleted" /\ What(d)' = z
    <3>1. PICK d \in Places: Kind(d) = "deleted" /\ What(d) = z
      BY <2>1 DEF Inv, LifeInv
    <3>2. d \in 1 .. n - 1
      BY <1>2, <3>1
    <3>3. d \in Places' /\ Kind(d)' = "deleted" /\ What(d)' = z
      BY <1>2, <1>6, <1>7, <3>1, <3>2
    <3>. QED BY <3>3
  <2>2. ~(object[z] = "deleted" /\ holders[z] > 0)
    BY <1>1, <1>2 DEF Inv, LifeInv
  <2>. QED BY <2>1, <2>2 DEF Inv, LifeInv
<1>19. RankInv'
  <2>1. PICK rank \in [Objects -> Nat]: IsRank(rank)
    BY DEF Inv, RankInv
  <2>2. \A d \in 1 .. n: (Kind(d)' = "acquire" <=> Kind(d) = "acquire")
    BY <1>2, <1>5, <1>6, <1>7
  <2>3. IsRank(rank)'
    BY <1>2, <1>7, <1>8, <2>1, <2>2 DEF IsRank
  <2>. QED BY <2>3 DEF RankInv
<1>. QED BY <1>9, <1>10, <1>11, <1>12, <1>13, <1>14, <1>15, <1>16, <1>17, <1>18, <1>19 DEF Inv

(* The last holder: the object is deleted before its holder is counted off.  *)
LEMMA ReleaseLastKeeps ==
  ASSUME PointersAreApart, Inv, Release, IsHolder(Who(Height)), holders[What(Height)] = 1
  PROVE  Inv'
<1>1. PICK n, p, o: n = Height /\ p = Who(Height) /\ o = What(Height)
  OBVIOUS
<1>2. /\ todo # <<>> /\ Kind(n) = "release" /\ Who(n) = p /\ What(n) = o /\ o # Nothing
      /\ n \in Nat \ {0} /\ n \in Places /\ Places = 1 .. n
      /\ Then(<<<<"delete", p, o>>, <<"count", p, o>>>>)
      /\ UNCHANGED <<target, holders, observers, object, shared>>
      /\ faulty' = (faulty \/ ~shared[o]) /\ IsHolder(p) /\ holders[o] = 1
  BY <1>1, TopIsHead DEF Inv, Release, Places
<1>3. p \in Pointers \cup {Temporary} /\ o \in Objects /\ p \in Holding \cup {Temporary}
  BY <1>2, FrameTypes DEF Inv, IsHolder
<1>4. Refers(p, o) /\ shared[o] /\ object[o] = "alive"
  BY <1>1, <1>2, <1>3, TopReleases DEF Releases
<1>5. /\ todo' \in Seq(Frames) /\ Height' = n + 1 /\ Lower /\ At(n)' = <<"count", p, o>>
      /\ Kind(n)' = "count" /\ Who(n)' = p /\ What(n)' = o /\ Releases(n)'
      /\ Kind(n + 1)' = "delete" /\ Who(n + 1)' = p /\ What(n + 1)' = o /\ ~Releases(n + 1)'
  <2>1. <<"count", p, o>> \in Frames /\ <<"delete", p, o>> \in Frames
    BY <1>3 DEF Frames
  <2>2. /\ todo' \in Seq(Frames) /\ Height' = n + 1 /\ Lower
        /\ At(n + 1)' = <<"delete", p, o>> /\ At(n)' = <<"count", p, o>>
    BY <1>1, <1>2, <2>1, Replaced2 DEF Inv, PointerTypes
  <2>. QED BY <2>2 DEF Kind, Who, What, Releases
<1>6. \A d \in 1 .. n - 1: /\ Kind(d)' = Kind(d) /\ Who(d)' = Who(d) /\ What(d)' = What(d)
                           /\ At(d)' = At(d) /\ (Releases(d)' <=> Releases(d))
  BY <1>1, <1>5, LowerParts
<1>7. /\ Places' = 1 .. n + 1 /\ \A d \in 1 .. n + 1: d = n + 1 \/ d = n \/ d \in 1 .. n - 1
      /\ \A d \in 1 .. n - 1: d # n /\ d # n + 1 /\ d \in 1 .. n /\ d \in 1 .. n + 1
      /\ \A d \in 1 .. n: d # n + 1 /\ d \in 1 .. n + 1
      /\ \A d \in 1 .. n + 1: d # n + 1 => d \in 1 .. n
  <2>1. Places' = 1 .. n + 1
    BY <1>5 DEF Places
  <2>. QED BY <1>2, <2>1
<1>8. \A d \in 1 .. n: /\ Who(d)' = Who(d) /\ What(d)' = What(d) /\ (Releases(d)' <=> Releases(d))
  BY <1>2, <1>5, <1>6, <1>7 DEF Releases
<1>9. PointerTypes'
  BY <1>2, <1>4, <1>5 DEF Inv, PointerTypes
<1>10. CountInv'
  <2> SUFFICES ASSUME NEW z \in Objects PROVE Counted(z)'
    BY DEF CountInv
  <2>1. \A q: Refers(q, z)' <=> Refers(q, z)
    BY <1>2, <1>5, <1>7, <1>8 DEF Refers
  <2>. QED BY <1>2, <2>1, SameReferrers
<1>11. ReleaseInv'
  <2>1. ASSUME NEW d \in 1 .. n + 1, Kind(d)' \in {"release", "count", "delete"}, Who(d)' # Temporary
        PROVE  target[Who(d)'] = What(d)'
    <3>1. \A e \in Places: Kind(e) \in {"release", "count", "delete"} /\ Who(e) # Temporary
                             => target[Who(e)] = What(e)
      BY DEF Inv, ReleaseInv
    <3>2. CASE d \in 1 .. n - 1
      BY <1>2, <1>6, <1>7, <2>1, <3>1, <3>2
    <3>3. CASE d = n \/ d = n + 1
      BY <1>2, <1>5, <2>1, <3>1, <3>3
    <3>. QED BY <1>7, <3>2, <3>3
  <2>2. ASSUME NEW d \in 1 .. n, NEW e \in 1 .. n, Releases(d), Releases(e), Who(d) = Who(e)
        PROVE  d = e
    BY <1>2, <2>2 DEF Inv, ReleaseInv
  <2>3. \A d \in 1 .. n + 1: Releases(d)' => d \in 1 .. n
    BY <1>5, <1>7
  <2>. QED BY <1>2, <1>7, <1>8, <2>1, <2>2, <2>3 DEF ReleaseInv
<1>12. DeleteInv'
  <2>1. \A d \in 1 .. n - 1: Kind(d)' # "delete"
    BY <1>1, <1>2, <1>6, <1>7 DEF Inv, DeleteInv
  <2>2. n + 1 > 1 /\ n + 1 - 1 = n
    BY <1>2
  <2>3. \A d \in Places': Kind(d)' = "delete" => d = n + 1
    BY <1>5, <1>7, <2>1
  <2>. QED BY <1>2, <1>4, <1>5, <2>2, <2>3 DEF DeleteInv
<1>13. DeletedInv'
  <2> SUFFICES ASSUME NEW d \in 1 .. n - 1, Kind(d) = "deleted"
               PROVE  /\ Who(d)' = Self(What(d)')
                      /\ d > 1 /\ Kind(d - 1)' = "count" /\ What(d - 1)' = What(d)' /\ IsHolder(Who(d - 1))'
                      /\ object[What(d)]' = "dying" /\ holders[What(d)]' = 1
    BY <1>5, <1>6, <1>7 DEF DeletedInv
  <2>1. /\ Who(d) = Self(What(d))
        /\ d > 1 /\ Kind(d - 1) = "count" /\ What(d - 1) = What(d) /\ IsHolder(Who(d - 1))
        /\ object[What(d)] = "dying" /\ holders[What(d)] = 1
    BY <1>2, <1>7 DEF Inv, DeletedInv
  <2>2. d - 1 \in 1 .. n - 1
    BY <1>2, <2>1
  <2>. QED BY <1>2, <1>6, <2>1, <2>2 DEF IsHolder
<1>14. ClearedInv'
  <2>1. \A d, q: Clears(d, q)' <=> Clears(d, q)
    BY <1>2, <1>5, <1>7, <1>8 DEF Clears
  <2>. QED BY <1>2, <1>5, <1>6, <1>7, <2>1 DEF Inv, ClearedInv
<1>15. CountOffInv'
  <2>1. ASSUME NEW d \in 1 .. n - 1, Kind(d) = "count"
        PROVE  IsHolder(Who(d)) /\ Kind(d + 1)' \in {"delete", "deleted"} /\ What(d + 1)' = What(d)
    <3>1. IsHolder(Who(d)) /\ Kind(d + 1) \in {"delete", "deleted"} /\ What(d + 1) = What(d)
      BY <1>1, <1>2, <2>1 DEF Inv, CountOffInv
    <3>2. d + 1 \in 1 .. n - 1
      BY <1>2, <3>1
    <3>. QED BY <1>6, <3>1, <3>2
  <2>2. \A d \in Places': Kind(d)' = "count" => d # n + 1
    BY <1>5
  <2>. QED BY <1>2, <1>4, <1>5, <1>6, <1>7, <2>1, <2>2 DEF CountOffInv, IsHolder
<1>16. OwnerInv'
  <2> SUFFICES ASSUME NEW d \in 1 .. n, NEW x \in Objects, Releases(d)
               PROVE  /\ Who(d) = Member(x) =>
                           \/ object[x] = "alive"
                           \/ /\ object[x] = "dying" /\ d > 2
                              /\ Kind(d - 1)' = "release" /\ Who(d - 1)' = Self(x)
                              /\ At(d - 2)' = <<"deleted", Self(x), x>>
                      /\ Who(d) = Self(x) =>
                           object[x] = "dying" /\ d > 1 /\ At(d - 1)' = <<"deleted", Self(x), x>>
    <3>1. \A d \in 1 .. n + 1: Releases(d)' => d \in 1 .. n
      BY <1>5, <1>7
    <3>. QED BY <1>2, <1>7, <1>8, <3>1 DEF OwnerInv
  <2>1. /\ Who(d) = Member(x) =>
             \/ object[x] = "alive"
             \/ /\ object[x] = "dying" /\ d > 2
                /\ Kind(d - 1) = "release" /\ Who(d - 1) = Self(x)
                /\ At(d - 2) = <<"deleted", Self(x), x>>
        /\ Who(d) = Self(x) =>
             object[x] = "dying" /\ d > 1 /\ At(d - 1) = <<"deleted", Self(x), x>>
    BY <1>2 DEF Inv, OwnerInv
  <2>2. (d > 1 => d - 1 \in 1 .. n - 1) /\ (d > 2 => d - 2 \in 1 .. n - 1 /\ d - 1 \in 1 .. n - 1)
    BY <1>2
  <2>. QED BY <1>6, <2>1, <2>2
<1>17. AcquireInv'
  <2> SUFFICES ASSUME NEW d \in 1 .. n - 1, Kind(d) = "acquire"
               PROVE  /\ d = 1
                      /\ \A x \in Objects: Who(1)' = Member(x) => object[x] = "alive"
                      /\ n + 1 # 1 /\ Releases(2)' /\ Who(2)' = Who(1)'
    BY <1>2, <1>5, <1>6, <1>7 DEF AcquireInv
  <2>1. d = 1 /\ n > 1 /\ d \in Places
    BY <1>2 DEF Inv, AcquireInv
  <2>2. /\ \A x \in Objects: Who(1) = Member(x) => object[x] = "alive"
        /\ Releases(2) /\ Who(2) = Who(1)
    BY <1>1, <1>2, <2>1 DEF Inv, AcquireInv
  <2>3. 1 \in 1 .. n /\ 2 \in 1 .. n /\ n + 1 # 1
    BY <1>2, <2>1
  <2>. QED BY <1>8, <2>1, <2>2, <2>3
<1>18. LifeInv'
  <2> SUFFICES ASSUME NEW z \in Objects
               PROVE  /\ target[Self(z)] \in {z, Nothing}
                      /\ object[z] = "dying" => \E d \in Places': Kind(d)' = "deleted" /\ What(d)' = z
                      /\ object[z] \in {"new", "deleted"} =>
                           target[Member(z)] = Nothing /\ target[Self(z)] = Nothing
                      /\ object[z] = "alive" => holders[z] > 0
                      /\ object[z] = "new" => holders[z] = 0 /\ observers[z] = 0
                      /\ ~(object[z] = "deleted" /\ holders[z] > 0)
    BY <1>2 DEF LifeInv
  <2>1. ASSUME object[z] = "dying" PROVE \E d \in Places': Kind(d)' = "deleted" /\ What(d)' = z
    <3>1. PICK d \in Places: Kind(d) = "deleted" /\ What(d) = z
      BY <2>1 DEF Inv, LifeInv
    <3>2. d \in 1 .. n - 1
      BY <1>2, <3>1
    <3>3. d \in Places' /\ Kind(d)' = "deleted" /\ What(d)' = z
      BY <1>2, <1>6, <1>7, <3>1, <3>2
    <3>. QED BY <3>3
  <2>2. ~(object[z] = "deleted" /\ holders[z] > 0)
    BY <1>1, <1>2 DEF Inv, LifeInv
  <2>. QED BY <2>1, <2>2 DEF Inv, LifeInv
<1>19. RankInv'
  <2>1. PICK rank \in [Objects -> Nat]: IsRank(rank)
    BY DEF Inv, RankInv
  <2>2. \A d \in 1 .. n + 1: \E e \in 1 .. n: What(d)' = What(e) /\ (Kind(d)' = "acquire" <=> Kind(e) = "acquire")
                             /\ (Kind(d)' = "acquire" => Who(d)' = Who(e))
    BY <1>2, <1>5, <1>6, <1>7, <1>8
  <2>3. \A d \in 1 .. n + 1: Releases(d)' => d \in 1 .. n
    BY <1>5, <1>7
  <2>4. /\ \A x, z \in Objects: target[Member(x)] = z => rank[z] < rank[x]
        /\ \A x, z \in Objects, d \in Places':
             (Kind(d) = "acquire" /\ Who(d) = Member(x) /\ target[What(d)] = z)' => rank[z] < rank[x]
    BY <1>2, <1>7, <2>1, <2>2 DEF IsRank
  <2>5. ASSUME NEW x \in Objects, NEW d \in 1 .. n, NEW e \in 1 .. n + 1, Releases(d),
               Who(d) = Member(x), object[x] = "alive", Kind(e)' # "acquire", What(e)' # Nothing
        PROVE  rank[What(e)'] < rank[x]
    <3>1. PICK f \in 1 .. n: What(e)' = What(f) /\ Kind(f) # "acquire"
      BY <2>2, <2>5
    <3>. QED BY <1>2, <2>1, <2>5, <3>1 DEF IsRank
  <2>6. IsRank(rank)'
    BY <1>2, <1>7, <1>8, <2>3, <2>4, <2>5 DEF IsRank
  <2>. QED BY <2>6 DEF RankInv
<1>. QED BY <1>9, <1>10, <1>11, <1>12, <1>13, <1>14, <1>15, <1>16, <1>17, <1>18, <1>19 DEF Inv

(* do_delete(): the destructors release what the object refers to.           *)
LEMMA DeleteKeeps == ASSUME PointersAreApart, Inv, Delete PROVE Inv'
<1>1. PICK n, p, o: n = Height /\ p = Who(Height) /\ o = What(Height)
  OBVIOUS
<1>2. /\ todo # <<>> /\ Kind(n) = "delete" /\ Who(n) = p /\ What(n) = o
      /\ n \in Nat \ {0} /\ n \in Places /\ Places = 1 .. n
      /\ Then(<<<<"release", Member(o), target[Member(o)]>>,
                <<"release", Self(o), target[Self(o)]>>, <<"deleted", Self(o), o>>>>)
      /\ UNCHANGED <<target, holders, observers, shared>>
      /\ faulty' = (faulty \/ ~shared[o] \/ object[o] # "alive")
      /\ object' = [object EXCEPT ![o] = "dying"]
  BY <1>1, TopIsHead DEF Inv, Delete, Places
<1>3. /\ p \in Holding \cup {Temporary} /\ o \in Objects /\ IsHolder(p)
      /\ Member(o) \in Pointers /\ Self(o) \in Pointers
      /\ Member(o) # Temporary /\ Self(o) # Temporary /\ Nothing \notin Objects
  <2>1. p \in Holding \cup {Temporary} /\ o \in Objects
    BY <1>2, FrameTypes DEF Inv
  <2>. QED BY <2>1, Names DEF IsHolder
<1>4. /\ n > 1 /\ At(n - 1) = <<"count", p, o>> /\ object[o] = "alive" /\ holders[o] = 1
  BY <1>2 DEF Inv, DeleteInv
<1>5. n - 1 \in Places /\ Kind(n - 1) = "count" /\ Who(n - 1) = p /\ What(n - 1) = o /\ Releases(n - 1)
  BY <1>2, <1>4 DEF Kind, Who, What, Releases
<1>6. shared[o]
  <2>1. Refers(p, o)
    BY <1>3, <1>5, FrameRefers
  <2>. QED BY <1>3, <2>1, Names, ReferrersCount
<1> DEFINE t == target[Member(o)]
           s == target[Self(o)]
<1>7. t \in Objects \cup {Nothing} /\ s \in {o, Nothing}
  BY <1>3 DEF Inv, PointerTypes, LifeInv
<1>8. /\ object'[o] = "dying"
      /\ \A z \in Objects: object'[z] = IF z = o THEN "dying" ELSE object[z]
  BY <1>2, <1>3 DEF Inv, PointerTypes
<1>9. /\ todo' \in Seq(Frames) /\ Height' = n + 2 /\ Lower
      /\ At(n)' = <<"deleted", Self(o), o>>
      /\ Kind(n)' = "deleted" /\ Who(n)' = Self(o) /\ What(n)' = o /\ ~Releases(n)'
      /\ Kind(n + 1)' = "release" /\ Who(n + 1)' = Self(o) /\ What(n + 1)' = s /\ Releases(n + 1)'
      /\ Kind(n + 2)' = "release" /\ Who(n + 2)' = Member(o) /\ What(n + 2)' = t /\ Releases(n + 2)'
  <2>1. /\ <<"release", Member(o), t>> \in Frames /\ <<"release", Self(o), s>> \in Frames
        /\ <<"deleted", Self(o), o>> \in Frames
    BY <1>3, <1>7 DEF Frames
  <2>2. Then(<<<<"release", Member(o), t>>, <<"release", Self(o), s>>, <<"deleted", Self(o), o>>>>)
    BY <1>2
  <2> HIDE DEF t, s
  <2>3. /\ todo' \in Seq(Frames) /\ Height' = n + 2 /\ Lower
        /\ At(n + 2)' = <<"release", Member(o), t>> /\ At(n + 1)' = <<"release", Self(o), s>>
        /\ At(n)' = <<"deleted", Self(o), o>>
    BY <1>1, <1>2, <2>1, <2>2, Replaced3 DEF Inv, PointerTypes
  <2>. QED BY <2>3 DEF Kind, Who, What, Releases
<1>10. \A d \in 1 .. n - 1: /\ Kind(d)' = Kind(d) /\ Who(d)' = Who(d) /\ What(d)' = What(d)
                            /\ At(d)' = At(d) /\ (Releases(d)' <=> Releases(d))
  BY <1>1, <1>9, LowerParts
<1>11. /\ Places' = 1 .. n + 2
       /\ \A d \in 1 .. n + 2: d = n + 2 \/ d = n + 1 \/ d = n \/ d \in 1 .. n - 1
       /\ \A d \in 1 .. n - 1: d # n /\ d # n + 1 /\ d # n + 2 /\ d \in 1 .. n /\ d \in 1 .. n + 2
       /\ n \in 1 .. n + 2 /\ n + 1 \in 1 .. n + 2 /\ n + 2 \in 1 .. n + 2
       /\ n - 1 \in 1 .. n - 1 /\ n + 2 # n + 1
  <2>1. Places' = 1 .. n + 2
    BY <1>9 DEF Places
  <2>. QED BY <1>2, <1>4, <2>1
<1>12. \A d \in Places: Releases(d) => d \in 1 .. n - 1
  BY <1>2 DEF Releases
<1>13. PICK rank \in [Objects -> Nat]: IsRank(rank)
  BY DEF Inv, RankInv
<1>14. ASSUME NEW d \in 1 .. n - 1, Releases(d) PROVE Who(d) # Member(o) /\ Who(d) # Self(o)
  <2>1. d \in Places
    BY <1>2, <1>11
  <2>2. Who(d) = Member(o) => object[o] = "alive" \/ object[o] = "dying"
    BY <1>3, <1>14, <2>1 DEF Inv, OwnerInv
  <2>3. Who(d) = Self(o) => object[o] = "dying"
    BY <1>3, <1>14, <2>1 DEF Inv, OwnerInv
  <2>4. ASSUME Who(d) = Member(o) PROVE FALSE
    <3>1. rank[o] < rank[o]
      BY <1>3, <1>4, <1>5, <1>13, <1>14, <2>1, <2>4 DEF IsRank
    <3>2. rank[o] \in Nat
      BY <1>3
    <3>. QED BY <3>1, <3>2
  <2>. QED BY <1>4, <2>3, <2>4
<1> HIDE DEF t, s
<1>15. PointerTypes'
  BY <1>2, <1>4, <1>6, <1>9 DEF Inv, PointerTypes
<1>16. CountInv'
  <2> SUFFICES ASSUME NEW z \in Objects PROVE Counted(z)'
    BY DEF CountInv
  <2>1. \A q: Refers(q, z)' <=> Refers(q, z)
    BY <1>2, <1>3, <1>9, <1>10, <1>11, <1>12 DEF Refers
  <2>. QED BY <1>2, <2>1, SameReferrers
<1>17. ReleaseInv'
  <2>1. ASSUME NEW d \in 1 .. n + 2, Kind(d)' \in {"release", "count", "delete"}, Who(d)' # Temporary
        PROVE  target[Who(d)'] = What(d)'
    <3>1. \A e \in Places: Kind(e) \in {"release", "count", "delete"} /\ Who(e) # Temporary
                             => target[Who(e)] = What(e)
      BY DEF Inv, ReleaseInv
    <3>2. CASE d \in 1 .. n - 1
      BY <1>2, <1>10, <1>11, <2>1, <3>1, <3>2
    <3>3. CASE d = n + 1 \/ d = n + 2
      BY <1>9, <3>3 DEF s, t
    <3>. QED BY <1>9, <1>11, <2>1, <3>2, <3>3
  <2>2. ASSUME NEW d \in 1 .. n + 2, NEW e \in 1 .. n + 2, Releases(d)', Releases(e)', Who(d)' = Who(e)'
        PROVE  d = e
    <3>1. Member(o) # Self(o)
      BY <1>3, Names
    <3>2. CASE d \in 1 .. n - 1 /\ e \in 1 .. n - 1
      BY <1>2, <1>10, <1>11, <2>2, <3>2 DEF Inv, ReleaseInv
    <3>3. CASE d \in 1 .. n - 1 /\ e \notin 1 .. n - 1
      BY <1>9, <1>10, <1>11, <1>14, <2>2, <3>3
    <3>4. CASE d \notin 1 .. n - 1 /\ e \in 1 .. n - 1
      BY <1>9, <1>10, <1>11, <1>14, <2>2, <3>4
    <3>5. CASE d \notin 1 .. n - 1 /\ e \notin 1 .. n - 1
      BY <1>9, <1>11, <2>2, <3>1, <3>5
    <3>. QED BY <3>2, <3>3, <3>4, <3>5
  <2>. QED BY <1>2, <1>11, <2>1, <2>2 DEF ReleaseInv
<1>18. DeleteInv'
  <2>1. \A d \in 1 .. n - 1: Kind(d)' # "delete"
    BY <1>1, <1>2, <1>10, <1>11 DEF Inv, DeleteInv
  <2>. QED BY <1>9, <1>11, <2>1 DEF DeleteInv
<1>19. DeletedInv'
  <2> SUFFICES ASSUME NEW d \in Places', Kind(d)' = "deleted"
               PROVE  /\ Who(d)' = Self(What(d)')
                      /\ d > 1 /\ Kind(d - 1)' = "count" /\ What(d - 1)' = What(d)' /\ IsHolder(Who(d - 1))'
                      /\ object'[What(d)'] = "dying" /\ holders[What(d)'] = 1
    BY <1>2 DEF DeletedInv
  <2>1. CASE d \in 1 .. n - 1
    <3>1. /\ Who(d) = Self(What(d)) /\ Kind(d) = "deleted"
          /\ d > 1 /\ Kind(d - 1) = "count" /\ What(d - 1) = What(d) /\ IsHolder(Who(d - 1))
          /\ object[What(d)] = "dying" /\ holders[What(d)] = 1
      BY <1>2, <1>10, <1>11, <2>1 DEF Inv, DeletedInv
    <3>2. d - 1 \in 1 .. n - 1
      BY <1>2, <2>1, <3>1
    <3>3. What(d) \in Objects
      BY <1>2, <1>11, <2>1, <3>1, FrameTypes DEF Inv
    <3>. QED BY <1>8, <1>10, <2>1, <3>1, <3>2, <3>3 DEF IsHolder
  <2>2. CASE d = n
    <3>1. Kind(n - 1)' = "count" /\ What(n - 1)' = o /\ IsHolder(Who(n - 1))'
      BY <1>3, <1>5, <1>10, <1>11 DEF IsHolder
    <3>. QED BY <1>4, <1>8, <1>9, <2>2, <3>1
  <2>. QED BY <1>9, <1>11, <2>1, <2>2
<1>20. ClearedInv'
  <2>1. ASSUME NEW e, NEW q, Clears(e, q) PROVE Clears(e, q)'
    BY <1>10, <1>11, <1>12, <2>1 DEF Clears
  <2> SUFFICES ASSUME NEW d \in 1 .. n + 2, NEW x \in Objects, Kind(d)' = "deleted", What(d)' = x
               PROVE  /\ target[Self(x)] # Nothing => Clears(d + 1, Self(x))'
                      /\ target[Member(x)] # Nothing => Clears(d + 1, Self(x))' /\ Clears(d + 2, Member(x))'
    BY <1>2, <1>11 DEF ClearedInv
  <2>2. CASE d \in 1 .. n - 1
    <3>1. d \in Places /\ Kind(d) = "deleted" /\ What(d) = x
      BY <1>2, <1>10, <1>11, <2>2
    <3>. QED BY <2>1, <3>1 DEF Inv, ClearedInv
  <2>3. CASE d = n
    BY <1>9, <1>11, <2>3 DEF Clears
  <2>. QED BY <1>9, <1>11, <2>2, <2>3
<1>21. CountOffInv'
  <2>1. ASSUME NEW d \in 1 .. n - 1, Kind(d) = "count"
        PROVE  IsHolder(Who(d)) /\ Kind(d + 1)' \in {"delete", "deleted"} /\ What(d + 1)' = What(d)
    <3>1. IsHolder(Who(d)) /\ Kind(d + 1) \in {"delete", "deleted"} /\ What(d + 1) = What(d)
      BY <1>1, <1>2, <2>1 DEF Inv, CountOffInv
    <3>2. d + 1 \in 1 .. n - 1 \/ d + 1 = n
      BY <1>2
    <3>. QED BY <1>2, <1>9, <1>10, <3>1, <3>2
  <2>2. \A d \in Places': Kind(d)' = "count" => d \in 1 .. n - 1
    BY <1>9, <1>11
  <2>. QED BY <1>2, <1>9, <1>10, <1>11, <2>1, <2>2 DEF CountOffInv, IsHolder
<1>22. OwnerInv'
  <2> SUFFICES ASSUME NEW d \in 1 .. n + 2, NEW x \in Objects, Releases(d)'
               PROVE  /\ Who(d)' = Member(x) =>
                           \/ object'[x] = "alive"
                           \/ /\ object'[x] = "dying" /\ d > 2
                              /\ Kind(d - 1)' = "release" /\ Who(d - 1)' = Self(x)
                              /\ At(d - 2)' = <<"deleted", Self(x), x>>
                      /\ Who(d)' = Self(x) =>
                           object'[x] = "dying" /\ d > 1 /\ At(d - 1)' = <<"deleted", Self(x), x>>
    BY <1>2, <1>11 DEF OwnerInv
  <2>1. CASE d \in 1 .. n - 1
    <3>1. /\ Who(d) = Member(x) =>
               \/ object[x] = "alive"
               \/ /\ object[x] = "dying" /\ d > 2
                  /\ Kind(d - 1) = "release" /\ Who(d - 1) = Self(x)
                  /\ At(d - 2) = <<"deleted", Self(x), x>>
          /\ Who(d) = Self(x) =>
               object[x] = "dying" /\ d > 1 /\ At(d - 1) = <<"deleted", Self(x), x>>
      BY <1>2, <1>10, <1>11, <2>1 DEF Inv, OwnerInv
    <3>2. (d > 1 => d - 1 \in 1 .. n - 1) /\ (d > 2 => d - 2 \in 1 .. n - 1 /\ d - 1 \in 1 .. n - 1)
      BY <1>2, <2>1
    <3>3. Who(d) = Member(x) \/ Who(d) = Self(x) => object'[x] = object[x]
      BY <1>8, <1>10, <1>14, <2>1
    <3>. QED BY <1>10, <2>1, <3>1, <3>2, <3>3
  <2>2. CASE d = n + 1
    <3>1. d - 1 = n /\ d > 1
      BY <1>2, <2>2
    <3>. QED BY <1>3, <1>8, <1>9, <2>2, <3>1, Names
  <2>3. CASE d = n + 2
    <3>1. d - 1 = n + 1 /\ d - 2 = n /\ d > 2
      BY <1>2, <2>3
    <3>. QED BY <1>3, <1>8, <1>9, <2>3, <3>1, Names
  <2>. QED BY <1>9, <1>11, <2>1, <2>2, <2>3
<1>23. AcquireInv'
  <2> SUFFICES ASSUME NEW d \in 1 .. n - 1, Kind(d) = "acquire"
               PROVE  /\ d = 1
                      /\ \A x \in Objects: Who(1)' = Member(x) => object'[x] = "alive"
                      /\ n + 2 # 1 /\ Releases(2)' /\ Who(2)' = Who(1)'
    BY <1>2, <1>9, <1>10, <1>11 DEF AcquireInv
  <2>1. d = 1 /\ d \in Places
    BY <1>2, <1>11 DEF Inv, AcquireInv
  <2>2. /\ \A x \in Objects: Who(1) = Member(x) => object[x] = "alive"
        /\ Releases(2) /\ Who(2) = Who(1)
    BY <1>1, <1>4, <2>1 DEF Inv, AcquireInv
  <2>3. 2 \in 1 .. n - 1 /\ n + 2 # 1
    <3>1. 2 \in Places /\ n + 2 # 1
      BY <1>2, <1>4
    <3>. QED BY <1>12, <2>2, <3>1
  <2>4. Who(1)' = Who(1) /\ Who(2)' = Who(2) /\ Releases(2)'
    BY <1>10, <2>1, <2>2, <2>3
  <2>5. ASSUME NEW x \in Objects, Who(1) = Member(x) PROVE object'[x] = "alive"
    BY <1>8, <1>14, <2>2, <2>3, <2>5
  <2>. QED BY <2>1, <2>2, <2>3, <2>4, <2>5
<1>24. LifeInv'
  <2> SUFFICES ASSUME NEW z \in Objects
               PROVE  /\ target[Self(z)] \in {z, Nothing}
                      /\ object'[z] = "dying" => \E d \in Places': Kind(d)' = "deleted" /\ What(d)' = z
                      /\ object'[z] \in {"new", "deleted"} =>
                           target[Member(z)] = Nothing /\ target[Self(z)] = Nothing
                      /\ object'[z] = "alive" => holders[z] > 0
                      /\ object'[z] = "new" => holders[z] = 0 /\ observers[z] = 0
                      /\ ~(object'[z] = "deleted" /\ holders[z] > 0)
    BY <1>2 DEF LifeInv
  <2>1. CASE z = o
    <3>1. n \in Places' /\ Kind(n)' = "deleted" /\ What(n)' = z
      BY <1>9, <1>11, <2>1
    <3>. QED BY <1>8, <2>1, <3>1 DEF Inv, LifeInv
  <2>2. CASE z # o
    <3>1. object'[z] = object[z]
      BY <1>8, <2>2
    <3>2. ASSUME object[z] = "dying" PROVE \E d \in Places': Kind(d)' = "deleted" /\ What(d)' = z
      <4>1. PICK d \in Places: Kind(d) = "deleted" /\ What(d) = z
        BY <3>2 DEF Inv, LifeInv
      <4>2. d \in 1 .. n - 1
        BY <1>2, <4>1
      <4>3. d \in Places' /\ Kind(d)' = "deleted" /\ What(d)' = z
        BY <1>10, <1>11, <4>1, <4>2
      <4>. QED BY <4>3
    <3>3. ~(object[z] = "deleted" /\ holders[z] > 0)
      BY <1>1, <1>2 DEF Inv, LifeInv
    <3>. QED BY <3>1, <3>2, <3>3 DEF Inv, LifeInv
  <2>. QED BY <2>1, <2>2
<1>25. RankInv'
  <2>1. \A x, z \in Objects: target[Member(x)] = z => rank[z] < rank[x]
    BY <1>13 DEF IsRank
  <2>2. \A x, z \in Objects, d \in Places':
          (Kind(d) = "acquire" /\ Who(d) = Member(x) /\ target[What(d)] = z)' => rank[z] < rank[x]
    <3>1. \A d \in Places': Kind(d)' = "acquire" => d \in 1 .. n - 1
      BY <1>9, <1>11
    <3>. QED BY <1>2, <1>10, <1>11, <1>13, <3>1 DEF IsRank
  <2>3. ASSUME NEW x \in Objects, NEW d \in 1 .. n - 1, NEW e \in 1 .. n + 2, Releases(d),
               Who(d) = Member(x), object'[x] = "alive", Kind(e)' # "acquire", What(e)' # Nothing
        PROVE  rank[What(e)'] < rank[x]
    <3>1. object[x] = "alive" /\ d \in Places
      BY <1>2, <1>8, <1>11, <2>3
    <3>2. rank[o] < rank[x]
      BY <1>2, <1>3, <1>13, <2>3, <3>1 DEF IsRank
    <3>3. CASE e \in 1 .. n - 1
      BY <1>2, <1>10, <1>11, <1>13, <2>3, <3>1, <3>3 DEF IsRank
    <3>4. CASE e = n \/ e = n + 1
      BY <1>7, <1>9, <2>3, <3>2, <3>4
    <3>5. CASE e = n + 2
      <4>1. t \in Objects /\ target[Member(o)] = t
        BY <1>7, <1>9, <2>3, <3>5 DEF t
      <4>2. rank[t] < rank[o]
        BY <1>3, <2>1, <4>1
      <4>3. rank[t] \in Nat /\ rank[o] \in Nat /\ rank[x] \in Nat
        BY <1>3, <4>1
      <4>. QED BY <1>9, <3>2, <3>5, <4>2, <4>3
    <3>. QED BY <1>11, <3>3, <3>4, <3>5
  <2>4. ASSUME NEW x \in Objects, NEW d \in 1 .. n + 2, Releases(d)', Who(d)' = Member(x), object'[x] = "alive"
        PROVE  d \in 1 .. n - 1 /\ Releases(d) /\ Who(d) = Member(x)
    <3>1. x # o /\ Member(x) # Member(o) /\ Member(x) # Self(o)
      BY <1>3, <1>8, <2>4, Names
    <3>. QED BY <1>9, <1>10, <1>11, <2>4, <3>1
  <2>5. \A x \in Objects, d, e \in Places':
          (Releases(d) /\ Who(d) = Member(x) /\ object[x] = "alive" /\ Kind(e) # "acquire"
             /\ What(e) # Nothing)' => rank[What(e)'] < rank[x]
    BY <1>11, <2>3, <2>4
  <2>6. IsRank(rank)'
    BY <1>2, <2>1, <2>2, <2>5 DEF IsRank
  <2>. QED BY <2>6 DEF RankInv
<1>. QED BY <1>15, <1>16, <1>17, <1>18, <1>19, <1>20, <1>21, <1>22, <1>23, <1>24, <1>25 DEF Inv

(* The end of the deletion.                                                  *)
LEMMA DeletedKeeps == ASSUME PointersAreApart, Inv, Deleted PROVE Inv'
<1>1. PICK n, o: n = Height /\ o = What(Height)
  OBVIOUS
<1>2. /\ todo # <<>> /\ Kind(n) = "deleted" /\ What(n) = o /\ ~Releases(n)
      /\ n \in Nat \ {0} /\ n \in Places /\ Places = 1 .. n
      /\ Then(<<>>) /\ UNCHANGED <<target, holders, observers, shared, faulty>>
      /\ object' = [object EXCEPT ![o] = "deleted"]
  BY <1>1, TopIsHead DEF Inv, Deleted, Places, Releases
<1>3. o \in Objects
  BY <1>2, FrameTypes DEF Inv
<1>4. /\ n > 1 /\ Kind(n - 1) = "count" /\ What(n - 1) = o /\ IsHolder(Who(n - 1))
      /\ object[o] = "dying" /\ holders[o] = 1
  BY <1>2 DEF Inv, DeletedInv
<1>5. target[Self(o)] = Nothing /\ target[Member(o)] = Nothing
  <2>1. n + 1 \notin Places
    BY <1>2
  <2>2. \A q: ~Clears(n + 1, q)
    BY <2>1 DEF Clears
  <2>. QED BY <1>2, <1>3, <2>2 DEF Inv, ClearedInv
<1>6. todo' \in Seq(Frames) /\ Height' = n - 1 /\ Lower
  BY <1>1, <1>2, Popped DEF Inv, PointerTypes
<1>7. \A d \in 1 .. n - 1: /\ Kind(d)' = Kind(d) /\ Who(d)' = Who(d) /\ What(d)' = What(d)
                           /\ At(d)' = At(d) /\ (Releases(d)' <=> Releases(d))
  BY <1>1, <1>6, LowerParts
<1>8. /\ Places' = 1 .. n - 1
      /\ \A d \in 1 .. n - 1: d # n /\ d \in 1 .. n
      /\ \A d \in 1 .. n: d # n => d \in 1 .. n - 1
      /\ n - 1 \in 1 .. n - 1
  <2>1. Places' = 1 .. n - 1
    BY <1>6 DEF Places
  <2>. QED BY <1>2, <1>4, <2>1
<1>9. \A z \in Objects: object'[z] = IF z = o THEN "deleted" ELSE object[z]
  BY <1>2, <1>3 DEF Inv, PointerTypes
<1>10. ASSUME NEW d \in 1 .. n - 1, Kind(d) = "deleted" PROVE What(d) # o
  BY <1>2, <1>8, <1>10, OneDeleted
<1>11. PointerTypes'
  BY <1>2, <1>6 DEF Inv, PointerTypes
<1>12. CountInv'
  <2> SUFFICES ASSUME NEW z \in Objects PROVE Counted(z)'
    BY DEF CountInv
  <2>1. \A q: Refers(q, z)' <=> Refers(q, z)
    BY <1>2, <1>7, <1>8 DEF Refers
  <2>. QED BY <1>2, <2>1, SameReferrers
<1>13. ReleaseInv'
  <2>1. ASSUME NEW d \in 1 .. n - 1, Kind(d) \in {"release", "count", "delete"}, Who(d) # Temporary
        PROVE  target[Who(d)] = What(d)
    BY <1>2, <1>8, <2>1 DEF Inv, ReleaseInv
  <2>2. ASSUME NEW d \in 1 .. n - 1, NEW e \in 1 .. n - 1, Releases(d), Releases(e), Who(d) = Who(e)
        PROVE  d = e
    BY <1>2, <1>8, <2>2 DEF Inv, ReleaseInv
  <2>. QED BY <1>2, <1>7, <1>8, <2>1, <2>2 DEF ReleaseInv
<1>14. DeleteInv'
  <2>1. \A d \in 1 .. n - 1: Kind(d)' # "delete"
    BY <1>1, <1>2, <1>7, <1>8 DEF Inv, DeleteInv
  <2>. QED BY <1>8, <2>1 DEF DeleteInv
<1>15. DeletedInv'
  <2> SUFFICES ASSUME NEW d \in 1 .. n - 1, Kind(d) = "deleted"
               PROVE  /\ Who(d)' = Self(What(d)')
                      /\ d > 1 /\ Kind(d - 1)' = "count" /\ What(d - 1)' = What(d)' /\ IsHolder(Who(d - 1))'
                      /\ object'[What(d)'] = "dying" /\ holders[What(d)'] = 1
    BY <1>2, <1>7, <1>8 DEF DeletedInv
  <2>1. /\ Who(d) = Self(What(d))
        /\ d > 1 /\ Kind(d - 1) = "count" /\ What(d - 1) = What(d) /\ IsHolder(Who(d - 1))
        /\ object[What(d)] = "dying" /\ holders[What(d)] = 1
    BY <1>2, <1>8 DEF Inv, DeletedInv
  <2>2. d - 1 \in 1 .. n - 1
    BY <1>2, <2>1
  <2>3. What(d) \in Objects /\ What(d) # o
    BY <1>2, <1>8, <1>10, FrameTypes DEF Inv
  <2>. QED BY <1>7, <1>9, <2>1, <2>2, <2>3 DEF IsHolder
<1>16. ClearedInv'
  <2>1. ASSUME NEW e, NEW q, Clears(e, q) PROVE Clears(e, q)'
    BY <1>2, <1>7, <1>8, <2>1 DEF Clears
  <2> SUFFICES ASSUME NEW d \in 1 .. n - 1, NEW x \in Objects, Kind(d) = "deleted", What(d) = x
               PROVE  /\ target[Self(x)] # Nothing => Clears(d + 1, Self(x))'
                      /\ target[Member(x)] # Nothing => Clears(d + 1, Self(x))' /\ Clears(d + 2, Member(x))'
    BY <1>2, <1>7, <1>8 DEF ClearedInv
  <2>. QED BY <1>2, <1>8, <2>1 DEF Inv, ClearedInv
<1>17. CountOffInv'
  <2>1. ASSUME NEW d \in 1 .. n - 1, Kind(d) = "count", d < n - 1
        PROVE  IsHolder(Who(d))' /\ Kind(d + 1)' \in {"delete", "deleted"} /\ What(d + 1)' = What(d)'
    <3>1. IsHolder(Who(d)) /\ Kind(d + 1) \in {"delete", "deleted"} /\ What(d + 1) = What(d)
      BY <1>1, <1>2, <1>8, <2>1 DEF Inv, CountOffInv
    <3>2. d + 1 \in 1 .. n - 1
      BY <1>2, <2>1
    <3>. QED BY <1>7, <3>1, <3>2 DEF IsHolder
  <2>2. object'[What(n - 1)'] = "deleted" /\ holders'[What(n - 1)'] = 1
    BY <1>2, <1>3, <1>4, <1>7, <1>8, <1>9
  <2>. QED BY <1>6, <1>7, <1>8, <2>1, <2>2 DEF CountOffInv
<1>18. OwnerInv'
  <2> SUFFICES ASSUME NEW d \in 1 .. n - 1, NEW x \in Objects, Releases(d)
               PROVE  /\ Who(d) = Member(x) =>
                           \/ object'[x] = "alive"
                           \/ /\ object'[x] = "dying" /\ d > 2
                              /\ Kind(d - 1)' = "release" /\ Who(d - 1)' = Self(x)
                              /\ At(d - 2)' = <<"deleted", Self(x), x>>
                      /\ Who(d) = Self(x) =>
                           object'[x] = "dying" /\ d > 1 /\ At(d - 1)' = <<"deleted", Self(x), x>>
    BY <1>2, <1>7, <1>8 DEF OwnerInv
  <2>1. /\ Who(d) = Member(x) =>
             \/ object[x] = "alive"
             \/ /\ object[x] = "dying" /\ d > 2
                /\ Kind(d - 1) = "release" /\ Who(d - 1) = Self(x)
                /\ At(d - 2) = <<"deleted", Self(x), x>>
        /\ Who(d) = Self(x) =>
             object[x] = "dying" /\ d > 1 /\ At(d - 1) = <<"deleted", Self(x), x>>
    BY <1>2, <1>8 DEF Inv, OwnerInv
  <2>2. (d > 1 => d - 1 \in 1 .. n - 1) /\ (d > 2 => d - 2 \in 1 .. n - 1 /\ d - 1 \in 1 .. n - 1)
    BY <1>2
  <2>3. ASSUME NEW e \in 1 .. n - 1, At(e) = <<"deleted", Self(x), x>> PROVE x # o
    <3>1. Kind(e) = "deleted" /\ What(e) = x
      BY <2>3 DEF Kind, What
    <3>. QED BY <1>10, <3>1
  <2>4. Who(d) = Member(x) \/ Who(d) = Self(x) => x # o
    BY <1>4, <2>1, <2>2, <2>3
  <2>5. Who(d) = Member(x) \/ Who(d) = Self(x) => object'[x] = object[x]
    BY <1>9, <2>4
  <2>. QED BY <1>7, <2>1, <2>2, <2>5
<1>19. AcquireInv'
  <2> SUFFICES ASSUME NEW d \in 1 .. n - 1, Kind(d) = "acquire"
               PROVE  /\ d = 1
                      /\ \A x \in Objects: Who(1)' = Member(x) => object'[x] = "alive"
                      /\ n - 1 # 1 /\ Releases(2)' /\ Who(2)' = Who(1)'
    BY <1>2, <1>6, <1>7, <1>8 DEF AcquireInv
  <2>1. d = 1 /\ d \in Places
    BY <1>2, <1>8 DEF Inv, AcquireInv
  <2>2. /\ \A x \in Objects: Who(1) = Member(x) => object[x] = "alive"
        /\ Releases(2) /\ Who(2) = Who(1)
    BY <1>1, <1>4, <2>1 DEF Inv, AcquireInv
  <2>3. n - 1 # 1
    BY <1>4, <2>1
  <2>4. 2 \in 1 .. n - 1
    BY <1>2, <1>4, <2>3
  <2>5. Who(1)' = Who(1) /\ Who(2)' = Who(2) /\ Releases(2)'
    BY <1>7, <2>1, <2>2, <2>4
  <2>6. ASSUME NEW x \in Objects, Who(1) = Member(x) PROVE object'[x] = "alive"
    BY <1>4, <1>9, <2>2, <2>6
  <2>. QED BY <2>1, <2>2, <2>3, <2>5, <2>6
<1>20. LifeInv'
  <2> SUFFICES ASSUME NEW z \in Objects
               PROVE  /\ target[Self(z)] \in {z, Nothing}
                      /\ object'[z] = "dying" => \E d \in Places': Kind(d)' = "deleted" /\ What(d)' = z
                      /\ object'[z] \in {"new", "deleted"} =>
                           target[Member(z)] = Nothing /\ target[Self(z)] = Nothing
                      /\ object'[z] = "alive" => holders[z] > 0
                      /\ object'[z] = "new" => holders[z] = 0 /\ observers[z] = 0
                      /\ object'[z] = "deleted" /\ holders[z] > 0 => z = o
    <3>1. Height' > 0 /\ Kind(n - 1)' = "count" /\ What(n - 1)' = o /\ IsHolder(Who(n - 1))'
      BY <1>2, <1>4, <1>6, <1>7, <1>8 DEF IsHolder
    <3>. QED BY <1>2, <1>6, <3>1 DEF LifeInv
  <2>1. CASE z = o
    BY <1>5, <1>9, <2>1
  <2>2. CASE z # o
    <3>1. object'[z] = object[z]
      BY <1>9, <2>2
    <3>2. ASSUME object[z] = "dying" PROVE \E d \in Places': Kind(d)' = "deleted" /\ What(d)' = z
      <4>1. PICK d \in Places: Kind(d) = "deleted" /\ What(d) = z
        BY <3>2 DEF Inv, LifeInv
      <4>2. d \in 1 .. n - 1
        BY <1>2, <1>8, <2>2, <4>1
      <4>3. d \in Places' /\ Kind(d)' = "deleted" /\ What(d)' = z
        BY <1>7, <1>8, <4>1, <4>2
      <4>. QED BY <4>3
    <3>3. ~(object[z] = "deleted" /\ holders[z] > 0)
      BY <1>1, <1>2 DEF Inv, LifeInv
    <3>. QED BY <3>1, <3>2, <3>3 DEF Inv, LifeInv
  <2>. QED BY <2>1, <2>2
<1>21. RankInv'
  <2>1. PICK rank \in [Objects -> Nat]: IsRank(rank)
    BY DEF Inv, RankInv
  <2>2. \A x \in Objects: object'[x] = "alive" => object[x] = "alive"
    BY <1>9
  <2>3. IsRank(rank)'
    BY <1>2, <1>7, <1>8, <2>1, <2>2 DEF IsRank
  <2>. QED BY <2>3 DEF RankInv
<1>. QED BY <1>11, <1>12, <1>13, <1>14, <1>15, <1>16, <1>17, <1>18, <1>19, <1>20, <1>21 DEF Inv

(* dec_reference_counter() and destroy()                                     *)
LEMMA CountOffKeeps == ASSUME PointersAreApart, Inv, CountOff PROVE Inv'
<1>1. PICK n, p, o: n = Height /\ p = Who(Height) /\ o = What(Height)
  OBVIOUS
<1>2. /\ todo # <<>> /\ Kind(n) = "count" /\ Who(n) = p /\ What(n) = o /\ Releases(n)
      /\ n \in Nat \ {0} /\ n \in Places /\ Places = 1 .. n
      /\ Then(<<>>) /\ object' = object
      /\ holders' = (IF IsHolder(p) THEN [holders EXCEPT ![o] = @ - 1] ELSE holders)
      /\ observers' = [observers EXCEPT ![o] = @ - 1]
      /\ shared' = [shared EXCEPT ![o] = observers[o] > 1]
      /\ target' = (IF p = Temporary THEN target ELSE [target EXCEPT ![p] = Nothing])
      /\ faulty' = (faulty \/ ~shared[o] \/ ~Exists(p))
  BY <1>1, TopIsHead DEF Inv, CountOff, Places, Releases
<1>3. p \in Pointers \cup {Temporary} /\ o \in Objects
  BY <1>2, FrameTypes DEF Inv
<1>4. /\ Refers(p, o) /\ shared[o] /\ observers[o] > 0
      /\ IsHolder(p) => holders[o] > 0
  BY <1>1, <1>2, <1>3, TopReleases
<1>5. IsHolder(p) => \/ object[o] = "alive" /\ holders[o] > 1
                     \/ object[o] = "deleted" /\ holders[o] = 1
  BY <1>1, <1>2 DEF Inv, CountOffInv
<1>6. Exists(p)
  <2> SUFFICES ASSUME NEW x \in Objects, p \in {Member(x), Self(x)} PROVE object[x] \in {"alive", "dying"}
    BY DEF Exists
  <2>. QED BY <1>2 DEF Inv, OwnerInv
<1>7. todo' \in Seq(Frames) /\ Height' = n - 1 /\ Lower
  BY <1>1, <1>2, Popped DEF Inv, PointerTypes
<1>8. \A d \in 1 .. n - 1: /\ Kind(d)' = Kind(d) /\ Who(d)' = Who(d) /\ What(d)' = What(d)
                           /\ At(d)' = At(d) /\ (Releases(d)' <=> Releases(d))
  BY <1>1, <1>7, LowerParts
<1>9. /\ Places' = 1 .. n - 1
      /\ \A d \in 1 .. n - 1: d # n /\ d \in 1 .. n
      /\ \A d \in 1 .. n: d # n => d \in 1 .. n - 1
  <2>1. Places' = 1 .. n - 1
    BY <1>7 DEF Places
  <2>. QED BY <1>2, <2>1
<1>10. /\ \A q \in Pointers: target'[q] = IF q = p THEN Nothing ELSE target[q]
       /\ target' \in [Pointers -> Objects \cup {Nothing}]
  <2>1. CASE p = Temporary
    BY <1>2, <2>1, Names DEF Inv, PointerTypes
  <2>2. CASE p # Temporary
    BY <1>2, <1>3, <2>2 DEF Inv, PointerTypes
  <2>. QED BY <2>1, <2>2
<1>11. /\ holders[o] \in Nat /\ observers[o] \in Nat
       /\ \A z \in Objects: /\ holders'[z] = IF z = o /\ IsHolder(p) THEN holders[o] - 1 ELSE holders[z]
                            /\ observers'[z] = IF z = o THEN observers[o] - 1 ELSE observers[z]
                            /\ shared'[z] = IF z = o THEN observers[o] > 1 ELSE shared[z]
  BY <1>2, <1>3 DEF Inv, PointerTypes
<1>12. PointerTypes'
  <2>1. holders' \in [Objects -> Nat]
    <3>1. CASE IsHolder(p)
      <4>1. holders[o] - 1 \in Nat
        BY <1>4, <1>11, <3>1
      <4>. QED BY <1>2, <3>1, <4>1 DEF Inv, PointerTypes
    <3>2. CASE ~IsHolder(p)
      BY <1>2, <3>2 DEF Inv, PointerTypes
    <3>. QED BY <3>1, <3>2
  <2>2. observers' \in [Objects -> Nat]
    <3>1. observers[o] - 1 \in Nat
      BY <1>4, <1>11
    <3>. QED BY <1>2, <3>1 DEF Inv, PointerTypes
  <2>3. shared' \in [Objects -> BOOLEAN]
    <3>1. (observers[o] > 1) \in BOOLEAN
      BY <1>11
    <3>. QED BY <1>2, <3>1 DEF Inv, PointerTypes
  <2>. QED BY <1>2, <1>4, <1>6, <1>7, <1>10, <2>1, <2>2, <2>3 DEF Inv, PointerTypes
<1>13. \A d \in 1 .. n - 1: Releases(d) => Who(d) # p
  BY <1>2, <1>9 DEF Inv, ReleaseInv
<1>14. ASSUME NEW q \in Pointers \cup {Temporary}, NEW z \in Objects
       PROVE  Refers(q, z)' <=> Refers(q, z) /\ q # p
  <2>1. CASE q = Temporary
    <3>1. Refers(q, z) <=> \E d \in 1 .. n: Releases(d) /\ Who(d) = Temporary /\ What(d) = z
      BY <1>2, <2>1 DEF Refers
    <3>2. Refers(q, z)' <=> \E d \in 1 .. n - 1: Releases(d) /\ Who(d) = Temporary /\ What(d) = z
      BY <1>8, <1>9, <2>1 DEF Refers
    <3>. QED BY <1>2, <1>9, <1>13, <2>1, <3>1, <3>2
  <2>2. CASE q # Temporary
    <3>1. (Refers(q, z)' <=> target'[q] = z) /\ (Refers(q, z) <=> target[q] = z) /\ q \in Pointers
      BY <2>2 DEF Refers
    <3>. QED BY <1>10, <3>1, Names
  <2>. QED BY <2>1, <2>2
<1>15. \A z \in Objects: Refers(p, z) => z = o
  <2>1. CASE p = Temporary
    BY <1>2, <2>1 DEF Refers, Inv, ReleaseInv
  <2>2. CASE p # Temporary
    BY <1>4, <2>2 DEF Refers
  <2>. QED BY <2>1, <2>2
<1>16. CountInv'
  <2> SUFFICES ASSUME NEW z \in Objects PROVE Counted(z)'
    BY DEF CountInv
  <2>1. CASE z = o
    <3>1. /\ holders'[o] = (IF IsHolder(p) THEN holders[o] - 1 ELSE holders[o])
          /\ observers'[o] = observers[o] - 1
          /\ shared'[o] <=> observers[o] > 1
      BY <1>3, <1>11
    <3>2. \A q \in Pointers \cup {Temporary}: Refers(q, o)' <=> Refers(q, o) /\ q # p
      BY <1>3, <1>14
    <3>. QED BY <1>3, <1>4, <2>1, <3>1, <3>2, ReferrerLeaves
  <2>2. CASE z # o
    <3>1. holders'[z] = holders[z] /\ observers'[z] = observers[z] /\ shared'[z] = shared[z]
      BY <1>11, <2>2
    <3>2. \A q \in Pointers \cup {Temporary}: Refers(q, z)' <=> Refers(q, z)
      BY <1>14, <1>15, <2>2
    <3>. QED BY <3>1, <3>2, SameReferrers
  <2>. QED BY <2>1, <2>2
<1>17. \A d \in 1 .. n - 1: Kind(d) # "delete"
  BY <1>1, <1>2, <1>9 DEF Inv, DeleteInv
<1>18. ReleaseInv'
  <2>1. ASSUME NEW d \in 1 .. n - 1, Kind(d) \in {"release", "count", "delete"}, Who(d) # Temporary
        PROVE  target'[Who(d)] = What(d)
    <3>1. Releases(d) /\ d \in Places
      BY <1>2, <1>9, <1>17, <2>1 DEF Releases
    <3>2. target[Who(d)] = What(d)
      BY <2>1, <3>1 DEF Inv, ReleaseInv
    <3>3. Who(d) \in Pointers
      BY <2>1, <3>1, FrameTypes DEF Inv, Releases
    <3>. QED BY <1>10, <1>13, <3>1, <3>2, <3>3
  <2>2. ASSUME NEW d \in 1 .. n - 1, NEW e \in 1 .. n - 1, Releases(d), Releases(e), Who(d) = Who(e)
        PROVE  d = e
    BY <1>2, <1>9, <2>2 DEF Inv, ReleaseInv
  <2>. QED BY <1>8, <1>9, <2>1, <2>2 DEF ReleaseInv
<1>19. DeleteInv'
  BY <1>8, <1>9, <1>17 DEF DeleteInv
<1>20. DeletedInv'
  <2> SUFFICES ASSUME NEW d \in 1 .. n - 1, Kind(d) = "deleted"
               PROVE  /\ Who(d)' = Self(What(d)')
                      /\ d > 1 /\ Kind(d - 1)' = "count" /\ What(d - 1)' = What(d)' /\ IsHolder(Who(d - 1))'
                      /\ object'[What(d)'] = "dying" /\ holders'[What(d)'] = 1
    BY <1>8, <1>9 DEF DeletedInv
  <2>1. /\ Who(d) = Self(What(d))
        /\ d > 1 /\ Kind(d - 1) = "count" /\ What(d - 1) = What(d) /\ IsHolder(Who(d - 1))
        /\ object[What(d)] = "dying" /\ holders[What(d)] = 1
    BY <1>2, <1>9 DEF Inv, DeletedInv
  <2>2. d - 1 \in 1 .. n - 1
    BY <1>2, <2>1
  <2>3. What(d) \in Objects
    BY <1>2, <1>9, FrameTypes DEF Inv
  <2>4. holders'[What(d)] = holders[What(d)]
    BY <1>5, <1>11, <2>1, <2>3
  <2>. QED BY <1>2, <1>8, <2>1, <2>2, <2>4 DEF IsHolder
<1>21. ClearedInv'
  <2> SUFFICES ASSUME NEW d \in 1 .. n - 1, NEW x \in Objects, Kind(d) = "deleted", What(d) = x
               PROVE  /\ target'[Self(x)] # Nothing => Clears(d + 1, Self(x))'
                      /\ target'[Member(x)] # Nothing => Clears(d + 1, Self(x))' /\ Clears(d + 2, Member(x))'
    BY <1>8, <1>9 DEF ClearedInv
  <2>1. ASSUME NEW e, NEW q, q # p, Clears(e, q) PROVE Clears(e, q)'
    BY <1>2, <1>8, <1>9, <2>1 DEF Clears
  <2>2. /\ target[Self(x)] # Nothing => Clears(d + 1, Self(x))
        /\ target[Member(x)] # Nothing => Clears(d + 1, Self(x)) /\ Clears(d + 2, Member(x))
    BY <1>2, <1>9 DEF Inv, ClearedInv
  <2>3. /\ Self(x) \in Pointers /\ Member(x) \in Pointers
    BY Names
  <2>4. ASSUME target'[Self(x)] # Nothing PROVE Clears(d + 1, Self(x))'
    BY <1>10, <2>1, <2>2, <2>3, <2>4
  <2>5. ASSUME target'[Member(x)] # Nothing PROVE Clears(d + 1, Self(x))' /\ Clears(d + 2, Member(x))'
    <3>1. Clears(d + 1, Self(x)) /\ Clears(d + 2, Member(x)) /\ Member(x) # p
      BY <1>10, <2>2, <2>3, <2>5
    <3>2. d + 1 \in 1 .. n - 1
      BY <1>2, <3>1 DEF Clears
    <3>3. Clears(d + 1, Self(x))'
      BY <1>8, <1>9, <3>1, <3>2 DEF Clears
    <3>. QED BY <2>1, <3>1, <3>3
  <2>. QED BY <2>4, <2>5
<1>22. CountOffInv'
  <2> SUFFICES ASSUME NEW d \in 1 .. n - 1, Kind(d) = "count"
               PROVE  /\ d < n - 1
                      /\ IsHolder(Who(d))' /\ Kind(d + 1)' \in {"delete", "deleted"} /\ What(d + 1)' = What(d)'
    BY <1>7, <1>8, <1>9 DEF CountOffInv
  <2>1. d < n /\ IsHolder(Who(d)) /\ Kind(d + 1) \in {"delete", "deleted"} /\ What(d + 1) = What(d)
    BY <1>1, <1>2, <1>9 DEF Inv, CountOffInv
  <2>2. d + 1 \in 1 .. n - 1
    BY <1>2, <2>1
  <2>. QED BY <1>2, <1>8, <2>1, <2>2 DEF IsHolder
<1>23. OwnerInv'
  <2> SUFFICES ASSUME NEW d \in 1 .. n - 1, NEW x \in Objects, Releases(d)
               PROVE  /\ Who(d) = Member(x) =>
                           \/ object[x] = "alive"
                           \/ /\ object[x] = "dying" /\ d > 2
                              /\ Kind(d - 1)' = "release" /\ Who(d - 1)' = Self(x)
                              /\ At(d - 2)' = <<"deleted", Self(x), x>>
                      /\ Who(d) = Self(x) =>
                           object[x] = "dying" /\ d > 1 /\ At(d - 1)' = <<"deleted", Self(x), x>>
    BY <1>2, <1>8, <1>9 DEF OwnerInv
  <2>1. /\ Who(d) = Member(x) =>
             \/ object[x] = "alive"
             \/ /\ object[x] = "dying" /\ d > 2
                /\ Kind(d - 1) = "release" /\ Who(d - 1) = Self(x)
                /\ At(d - 2) = <<"deleted", Self(x), x>>
        /\ Who(d) = Self(x) =>
             object[x] = "dying" /\ d > 1 /\ At(d - 1) = <<"deleted", Self(x), x>>
    BY <1>2, <1>9 DEF Inv, OwnerInv
  <2>2. (d > 1 => d - 1 \in 1 .. n - 1) /\ (d > 2 => d - 2 \in 1 .. n - 1 /\ d - 1 \in 1 .. n - 1)
    BY <1>2
  <2>. QED BY <1>8, <2>1, <2>2
<1>24. AcquireInv'
  <2> SUFFICES ASSUME NEW d \in 1 .. n - 1, Kind(d) = "acquire"
               PROVE  /\ d = 1
                      /\ \A x \in Objects: Who(1)' = Member(x) => object[x] = "alive"
                      /\ n - 1 = 1 => target'[Who(1)'] = Nothing
                      /\ n - 1 > 1 => Releases(2)' /\ Who(2)' = Who(1)'
    BY <1>2, <1>7, <1>8, <1>9 DEF AcquireInv
  <2>1. d = 1 /\ n > 1 /\ d \in Places
    BY <1>2, <1>9 DEF Inv, AcquireInv
  <2>2. /\ \A x \in Objects: Who(1) = Member(x) => object[x] = "alive"
        /\ Releases(2) /\ Who(2) = Who(1)
    BY <1>1, <1>2, <2>1 DEF Inv, AcquireInv
  <2>3. Who(1) \in Pointers
    BY <2>1, FrameTypes, Names DEF Inv
  <2>4. Who(1)' = Who(1)
    BY <1>8, <2>1
  <2>5. CASE n = 2
    BY <1>2, <1>10, <2>1, <2>2, <2>3, <2>4, <2>5
  <2>6. CASE n > 2
    <3>1. 2 \in 1 .. n - 1 /\ n - 1 # 1
      BY <1>2, <2>6
    <3>. QED BY <1>8, <2>1, <2>2, <2>4, <3>1
  <2>. QED BY <1>2, <2>1, <2>5, <2>6
<1>25. LifeInv'
  <2> SUFFICES ASSUME NEW z \in Objects
               PROVE  /\ target'[Self(z)] \in {z, Nothing}
                      /\ object[z] = "dying" => \E d \in Places': Kind(d)' = "deleted" /\ What(d)' = z
                      /\ object[z] \in {"new", "deleted"} =>
                           target'[Member(z)] = Nothing /\ target'[Self(z)] = Nothing
                      /\ object[z] = "alive" => holders'[z] > 0
                      /\ object[z] = "new" => holders'[z] = 0 /\ observers'[z] = 0
                      /\ ~(object[z] = "deleted" /\ holders'[z] > 0)
    BY <1>2 DEF LifeInv
  <2>1. ASSUME object[z] = "dying" PROVE \E d \in Places': Kind(d)' = "deleted" /\ What(d)' = z
    <3>1. PICK d \in Places: Kind(d) = "deleted" /\ What(d) = z
      BY <2>1 DEF Inv, LifeInv
    <3>2. d \in 1 .. n - 1
      BY <1>2, <1>9, <3>1
    <3>3. d \in Places' /\ Kind(d)' = "deleted" /\ What(d)' = z
      BY <1>8, <1>9, <3>1, <3>2
    <3>. QED BY <3>3
  <2>2. /\ target[Self(z)] \in {z, Nothing}
        /\ object[z] \in {"new", "deleted"} => target[Member(z)] = Nothing /\ target[Self(z)] = Nothing
        /\ object[z] = "alive" => holders[z] > 0
        /\ object[z] = "new" => holders[z] = 0 /\ observers[z] = 0
        /\ object[z] = "deleted" /\ holders[z] > 0 => o = z /\ IsHolder(p)
    BY <1>1, <1>2 DEF Inv, LifeInv
  <2>3. Self(z) \in Pointers /\ Member(z) \in Pointers
    BY Names
  <2>4. CASE z = o /\ IsHolder(p)
    BY <1>3, <1>4, <1>5, <1>10, <1>11, <2>1, <2>2, <2>3, <2>4
  <2>5. CASE ~(z = o /\ IsHolder(p))
    <3>1. holders'[z] = holders[z]
      BY <1>11, <2>5
    <3>2. object[z] = "new" => observers'[z] = 0
      BY <1>4, <1>11, <2>2
    <3>. QED BY <1>10, <2>1, <2>2, <2>3, <2>5, <3>1, <3>2
  <2>. QED BY <2>4, <2>5
<1>26. RankInv'
  <2>1. PICK rank \in [Objects -> Nat]: IsRank(rank)
    BY DEF Inv, RankInv
  <2>2. \A q \in Pointers, z \in Objects: target'[q] = z => target[q] = z
    BY <1>10, Names
  <2>3. \A x, z \in Objects: target'[Member(x)] = z => rank[z] < rank[x]
    BY <2>1, <2>2, Names DEF IsRank
  <2>4. ASSUME NEW x \in Objects, NEW z \in Objects, NEW d \in 1 .. n - 1, Kind(d) = "acquire",
               Who(d) = Member(x), target'[What(d)] = z
        PROVE  rank[z] < rank[x]
    <3>1. d \in Places
      BY <1>2, <1>9
    <3>2. What(d) \in Pointers
      BY <2>4, <3>1, FrameTypes, Names DEF Inv, Holding
    <3>. QED BY <2>1, <2>2, <2>4, <3>1, <3>2 DEF IsRank
  <2>5. \A x \in Objects, d, e \in 1 .. n - 1:
          Releases(d) /\ Who(d) = Member(x) /\ object[x] = "alive" /\ Kind(e) # "acquire"
             /\ What(e) # Nothing => rank[What(e)] < rank[x]
    BY <1>2, <1>9, <2>1 DEF IsRank
  <2>6. IsRank(rank)'
    BY <1>2, <1>8, <1>9, <2>3, <2>4, <2>5 DEF IsRank
  <2>. QED BY <2>6 DEF RankInv
<1>. QED BY <1>12, <1>16, <1>18, <1>19, <1>20, <1>21, <1>22, <1>23, <1>24, <1>25, <1>26 DEF Inv

(* The end of acquire(), when nothing is left to be released.                *)
LEMMA AcquireKeeps == ASSUME PointersAreApart, Inv, Acquire PROVE Inv'
<1>1. PICK p, source, y: p = Who(1) /\ source = What(1) /\ y = target[What(1)]
  OBVIOUS
<1>2. /\ todo # <<>> /\ Height = 1 /\ 1 \in Places /\ Places = {1}
      /\ Kind(1) = "acquire" /\ Who(1) = p /\ What(1) = source /\ y = target[source]
      /\ Head(todo)[2] = p /\ Head(todo)[3] = source
  <2>1. todo # <<>> /\ Height \in Places /\ Kind(Height) = "acquire"
    BY TopIsHead DEF Inv, Acquire
  <2>2. Height = 1
    BY <2>1 DEF Inv, AcquireInv
  <2>3. Head(todo)[2] = Who(1) /\ Head(todo)[3] = What(1)
    BY <2>1, <2>2, TopIsHead DEF Inv
  <2>. QED BY <1>1, <2>1, <2>2, <2>3 DEF Places
<1>3. /\ p \in Holding \cup Observers /\ source \in Holders \cup Observers
      /\ p \in Pointers /\ source \in Pointers /\ p # Temporary /\ source # Temporary
      /\ (IsHolder(p) <=> p \in Holding)
      /\ \A x \in Objects: p # Self(x) /\ source # Self(x) /\ source # Member(x)
      /\ Nothing \notin Objects
  <2>1. p \in Holding \cup Observers /\ source \in Holders \cup Observers
    BY <1>2, FrameTypes DEF Inv
  <2>. QED BY <2>1, Names DEF IsHolder, Holding
<1>4. y \in Objects \cup {Nothing}
  BY <1>2, <1>3 DEF Inv, PointerTypes
<1>5. target[p] = Nothing /\ \A x \in Objects: p = Member(x) => object[x] = "alive"
  BY <1>2 DEF Inv, AcquireInv
<1>6. /\ Then(<<>>) /\ UNCHANGED <<object, shared>>
      /\ faulty' = (faulty \/ ~Exists(source))
      /\ y = Nothing \/ holders[y] = 0 => UNCHANGED <<target, holders, observers>>
      /\ y # Nothing /\ holders[y] # 0 =>
           /\ target' = [target EXCEPT ![p] = y]
           /\ holders' = (IF p \in Holding THEN [holders EXCEPT ![y] = @ + 1] ELSE holders)
           /\ observers' = [observers EXCEPT ![y] = @ + 1]
  BY <1>2 DEF Acquire
<1>7. Exists(source)
  BY <1>3 DEF Exists
<1>8. todo' \in Seq(Frames) /\ Height' = 0 /\ Places' = {}
  <2>1. todo' \in Seq(Frames) /\ Height' = 1 - 1
    BY <1>2, <1>6, Popped DEF Inv, PointerTypes
  <2>. QED BY <2>1 DEF Places
<1>9. \A z \in Objects: object[z] # "dying" /\ ~(object[z] = "deleted" /\ holders[z] > 0)
  BY <1>2 DEF Inv, LifeInv
<1>10. ReleaseInv' /\ DeleteInv' /\ DeletedInv' /\ ClearedInv' /\ CountOffInv' /\ OwnerInv' /\ AcquireInv'
  BY <1>8 DEF ReleaseInv, DeleteInv, DeletedInv, ClearedInv, CountOffInv, OwnerInv, AcquireInv
<1>11. \A z: ~Refers(Temporary, z) /\ ~Refers(Temporary, z)'
  BY <1>2, <1>8 DEF Refers, Releases
<1>12. PICK rank \in [Objects -> Nat]: IsRank(rank)
  BY DEF Inv, RankInv
<1>13. CASE y = Nothing \/ holders[y] = 0
  <2>1. UNCHANGED <<target, holders, observers, object, shared>>
    BY <1>6, <1>13
  <2>2. PointerTypes'
    BY <1>6, <1>7, <1>8, <2>1 DEF Inv, PointerTypes
  <2>3. CountInv'
    <3> SUFFICES ASSUME NEW z \in Objects PROVE Counted(z)'
      BY DEF CountInv
    <3>1. \A q: Refers(q, z)' <=> Refers(q, z)
      BY <1>11, <2>1 DEF Refers
    <3>. QED BY <2>1, <3>1, SameReferrers
  <2>4. LifeInv'
    BY <1>9, <2>1 DEF Inv, LifeInv
  <2>5. IsRank(rank)'
    BY <1>8, <1>12, <2>1 DEF IsRank
  <2>. QED BY <1>10, <2>2, <2>3, <2>4, <2>5 DEF Inv, RankInv
<1>14. CASE y # Nothing /\ holders[y] # 0
  <2>1. /\ y \in Objects /\ target' = [target EXCEPT ![p] = y]
        /\ holders' = (IF p \in Holding THEN [holders EXCEPT ![y] = @ + 1] ELSE holders)
        /\ observers' = [observers EXCEPT ![y] = @ + 1]
    BY <1>4, <1>6, <1>14
  <2>2. /\ holders[y] \in Nat /\ observers[y] \in Nat /\ holders[y] > 0
        /\ \A q \in Pointers: target'[q] = IF q = p THEN y ELSE target[q]
        /\ \A z \in Objects:
             /\ holders'[z] = IF z = y /\ p \in Holding THEN holders[y] + 1 ELSE holders[z]
             /\ observers'[z] = IF z = y THEN observers[y] + 1 ELSE observers[z]
    BY <1>3, <1>14, <2>1 DEF Inv, PointerTypes
  <2>3. PointerTypes'
    <3>1. target' \in [Pointers -> Objects \cup {Nothing}]
      BY <1>3, <2>1 DEF Inv, PointerTypes
    <3>2. holders' \in [Objects -> Nat]
      <4>1. holders[y] + 1 \in Nat
        BY <2>2
      <4>. QED BY <2>1, <4>1 DEF Inv, PointerTypes
    <3>3. observers' \in [Objects -> Nat]
      <4>1. observers[y] + 1 \in Nat
        BY <2>2
      <4>. QED BY <2>1, <4>1 DEF Inv, PointerTypes
    <3>. QED BY <1>6, <1>7, <1>8, <3>1, <3>2, <3>3 DEF Inv, PointerTypes
  <2>4. \A q \in Pointers \cup {Temporary}, z \in Objects:
          Refers(q, z)' <=> Refers(q, z) \/ (q = p /\ z = y)
    BY <1>3, <1>5, <1>11, <2>2 DEF Refers
  <2>5. CountInv'
    <3> SUFFICES ASSUME NEW z \in Objects PROVE Counted(z)'
      BY DEF CountInv
    <3>1. CASE z = y
      <4>1. ~Refers(p, y)
        BY <1>3, <1>5, <2>1 DEF Refers
      <4>2. \A q \in Pointers \cup {Temporary}: Refers(q, y)' <=> Refers(q, y) \/ q = p
        BY <2>1, <2>4
      <4>3. shared'[y]
        <5>1. Refers(source, y)
          BY <1>2, <1>3 DEF Refers
        <5>. QED BY <1>3, <1>6, <2>1, <5>1, ReferrersCount
      <4>4. /\ holders'[y] = (IF IsHolder(p) THEN holders[y] + 1 ELSE holders[y])
            /\ observers'[y] = observers[y] + 1
        BY <1>3, <2>1, <2>2
      <4>. QED BY <1>3, <2>1, <3>1, <4>1, <4>2, <4>3, <4>4, ReferrerJoins
    <3>2. CASE z # y
      <4>1. \A q \in Pointers \cup {Temporary}: Refers(q, z)' <=> Refers(q, z)
        BY <2>4, <3>2
      <4>. QED BY <1>6, <2>2, <3>2, <4>1, SameReferrers
    <3>. QED BY <3>1, <3>2
  <2>6. LifeInv'
    <3> SUFFICES ASSUME NEW z \in Objects
                 PROVE  /\ target'[Self(z)] \in {z, Nothing} /\ object[z] # "dying"
                        /\ object[z] \in {"new", "deleted"} =>
                             target'[Member(z)] = Nothing /\ target'[Self(z)] = Nothing
                        /\ object[z] = "alive" => holders'[z] > 0
                        /\ object[z] = "new" => holders'[z] = 0 /\ observers'[z] = 0
                        /\ ~(object[z] = "deleted" /\ holders'[z] > 0)
      BY <1>6 DEF LifeInv
    <3>1. Self(z) \in Pointers \ {p} /\ Member(z) \in Pointers
      BY <1>3, Names
    <3>2. CASE z = y
      <4>1. object[z] \notin {"new", "deleted", "dying"}
        BY <1>9, <2>1, <2>2, <3>2 DEF Inv, LifeInv
      <4>2. holders'[z] > 0
        BY <2>1, <2>2, <3>2
      <4>. QED BY <2>2, <3>1, <4>1, <4>2 DEF Inv, LifeInv
    <3>3. CASE z # y
      <4>1. holders'[z] = holders[z] /\ observers'[z] = observers[z]
        BY <2>2, <3>3
      <4>. QED BY <1>5, <1>9, <2>2, <3>1, <4>1 DEF Inv, LifeInv
    <3>. QED BY <3>2, <3>3
  <2>7. IsRank(rank)'
    <3>1. ASSUME NEW x \in Objects, NEW z \in Objects, target'[Member(x)] = z PROVE rank[z] < rank[x]
      <4>1. Member(x) \in Pointers
        BY Names
      <4>2. CASE p = Member(x)
        BY <1>2, <1>12, <2>2, <3>1, <4>1, <4>2 DEF IsRank
      <4>3. CASE p # Member(x)
        BY <1>12, <2>2, <3>1, <4>1, <4>3 DEF IsRank
      <4>. QED BY <4>2, <4>3
    <3>. QED BY <1>8, <3>1 DEF IsRank
  <2>. QED BY <1>10, <2>3, <2>5, <2>6, <2>7 DEF Inv, RankInv
<1>. QED BY <1>13, <1>14

LEMMA StutterKeeps == ASSUME Inv, UNCHANGED pointerVars PROVE Inv'
<1>1. UNCHANGED <<target, holders, observers, object, shared, todo, faulty>>
  BY DEF pointerVars
<1>2. /\ Height' = Height /\ Places' = Places
      /\ \A d: /\ At(d)' = At(d) /\ Kind(d)' = Kind(d) /\ Who(d)' = Who(d) /\ What(d)' = What(d)
               /\ (Releases(d)' <=> Releases(d))
      /\ \A d, p: Clears(d, p)' <=> Clears(d, p)
  BY <1>1 DEF Height, Places, At, Kind, Who, What, Releases, Clears
<1>3. \A p, o: Refers(p, o)' <=> Refers(p, o)
  BY <1>1, <1>2 DEF Refers
<1>4. \A S, o: ReferTo(S, o)' = ReferTo(S, o)
  BY <1>3 DEF ReferTo
<1>5. PointerTypes'
  BY <1>1 DEF Inv, PointerTypes
<1>6. CountInv'
  BY <1>1, <1>4 DEF Inv, CountInv, Counted
<1>7. ReleaseInv' /\ DeleteInv'
  BY <1>1, <1>2 DEF Inv, ReleaseInv, DeleteInv
<1>8. DeletedInv' /\ ClearedInv'
  BY <1>1, <1>2 DEF Inv, DeletedInv, ClearedInv, IsHolder
<1>9. CountOffInv' /\ OwnerInv'
  BY <1>1, <1>2 DEF Inv, CountOffInv, OwnerInv, IsHolder
<1>10. AcquireInv' /\ LifeInv'
  BY <1>1, <1>2 DEF Inv, AcquireInv, LifeInv, IsHolder
<1>11. RankInv'
  BY <1>1, <1>2 DEF Inv, RankInv, IsRank
<1>. QED BY <1>5, <1>6, <1>7, <1>8, <1>9, <1>10, <1>11 DEF Inv

LEMMA NextKeeps == ASSUME PointersAreApart, Inv, [Next]_pointerVars PROVE Inv'
<1>1. ASSUME Release PROVE Inv'
  BY <1>1, ReleaseOneKeeps, ReleaseLastKeeps
<1>. QED BY <1>1, StutterKeeps, NewKeeps, AssignKeeps, MoveKeeps, FromThisKeeps, ResetKeeps,
            ReleaseNothingKeeps, DeleteKeeps, DeletedKeeps, CountOffKeeps, AcquireKeeps
     DEF Next

(* What the invariant says between the calls of the program.                 *)
LEMMA Accounted ==
  ASSUME PointersAreApart, Inv
  PROVE  NoMemoryIsMissed /\ HeldIsAlive
<1>1. NoMemoryIsMissed
  BY DEF Inv, PointerTypes, NoMemoryIsMissed
<1>2. HeldIsAlive
  <2> SUFFICES ASSUME todo = <<>>, NEW o \in Objects, object[o] # "new"
               PROVE  /\ object[o] = "alive" <=> \E p \in Holding: Exists(p) /\ target[p] = o
                      /\ shared[o] <=> \E p \in Pointers: Exists(p) /\ target[p] = o
    BY DEF HeldIsAlive
  <2>1. ~Refers(Temporary, o) /\ object[o] \in {"alive", "deleted"}
    BY Quiet
  <2>2. \A p \in Pointers: p # Temporary /\ (Refers(p, o) <=> target[p] = o)
    BY Names DEF Refers
  <2>3. ASSUME NEW p \in Pointers, target[p] = o PROVE Exists(p)
    <3> SUFFICES ASSUME NEW x \in Objects, p \in {Member(x), Self(x)} PROVE object[x] \in {"alive", "dying"}
      BY DEF Exists
    <3>1. object[x] \notin {"new", "deleted"}
      BY <2>3, Names DEF Inv, LifeInv
    <3>. QED BY <3>1 DEF Inv, PointerTypes
  <2>4. object[o] = "alive" => \E p \in Holding: target[p] = o
    <3>1. object[o] = "alive" => holders[o] > 0
      BY DEF Inv, LifeInv
    <3>2. holders[o] > 0 => \E p \in Holding \cup {Temporary}: Refers(p, o)
      BY CountedRefer
    <3>. QED BY <2>1, <2>2, <3>1, <3>2, Names
  <2>5. \A p \in Holding: target[p] = o => object[o] = "alive"
    BY Quiet
  <2>6. shared[o] <=> \E p \in Pointers: target[p] = o
    <3>1. shared[o] <=> observers[o] > 0
      BY DEF Inv, CountInv, Counted
    <3>2. observers[o] > 0 => \E p \in Pointers \cup {Temporary}: Refers(p, o)
      BY CountedRefer
    <3>3. \A p \in Pointers: target[p] = o => shared[o]
      BY <2>2, ReferrersCount
    <3>. QED BY <2>1, <2>2, <3>1, <3>2, <3>3
  <2>. QED BY <2>3, <2>4, <2>5, <2>6, Names
<1>. QED BY <1>1, <1>2

(* The variables keep their types: no counter exceeds the pointers there are *)
(* and the temporary one.                                                    *)
THEOREM TypeCorrect == ASSUME PointersAreApart PROVE Spec => []TypeOK
<1>1. Init => Inv
  BY InitInv
<1>2. Inv /\ [Next]_pointerVars => Inv'
  BY NextKeeps
<1>3. ASSUME NEW S, IsFiniteSet(S), NEW o
      PROVE  Cardinality(ReferTo(S, o)) \in 0 .. Cardinality(S) + 1
  <2>1. /\ IsFiniteSet(S \cup {Temporary}) /\ Cardinality(S) \in Nat
        /\ Cardinality(S \cup {Temporary}) <= Cardinality(S) + 1
    BY <1>3, FS_AddElement, FS_CardinalityType
  <2>2. ReferTo(S, o) \subseteq S \cup {Temporary}
    BY DEF ReferTo
  <2>3. /\ Cardinality(ReferTo(S, o)) <= Cardinality(S \cup {Temporary})
        /\ Cardinality(ReferTo(S, o)) \in Nat /\ Cardinality(S \cup {Temporary}) \in Nat
    BY <2>1, <2>2, FS_Subset, FS_CardinalityType
  <2>. QED BY <2>1, <2>3
<1>4. IsFiniteSet(Holding) /\ IsFiniteSet(Pointers)
  BY FiniteNames, FS_Subset
<1>5. ASSUME Inv PROVE TypeOK
  <2>1. \A o \in Objects: /\ holders[o] \in 0 .. Cardinality(Holding) + 1
                          /\ observers[o] \in 0 .. Cardinality(Pointers) + 1
    BY <1>3, <1>4, <1>5 DEF Inv, CountInv, Counted
  <2>. QED BY <1>5, <2>1 DEF Inv, PointerTypes, TypeOK
<1>. QED BY <1>1, <1>2, <1>5, PTL DEF Spec

(* No memory is used that is not there any more, in whatever order pointers  *)
(* are assigned, moved and reset; and between the calls of the program what  *)
(* is held is there, and what nobody holds or observes is given back.        *)
THEOREM PointerCorrect ==
  ASSUME PointersAreApart PROVE Spec => [](NoMemoryIsMissed /\ HeldIsAlive)
<1>1. Init => Inv
  BY InitInv
<1>2. Inv /\ [Next]_pointerVars => Inv'
  BY NextKeeps
<1>3. Inv => NoMemoryIsMissed /\ HeldIsAlive
  BY Accounted
<1>. QED BY <1>1, <1>2, <1>3, PTL DEF Spec
=============================================================================
