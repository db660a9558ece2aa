------------------------------ MODULE Algorithm ------------------------------
(***************************************************************************)
(* The algorithms of src/hcore/algorithm.hxx that search, merge, partition *)
(* and sort.  A range is a sequence of elements <<key, tag>>, compared by  *)
(* their keys; tags tell elements with equal keys apart.  Iterators are    *)
(* positions, the end of a range is one past its last position.            *)
(* The only variable is a range that grows, so that every range is met.    *)
(***************************************************************************)
EXTENDS Integers, Sequences, FiniteSets, SequencesExt, FiniteSetsExt

CONSTANTS
  SortKeys,        \* the keys, integers
  MaxRange,        \* bound: length of a range
  SortThreshold,   \* YAAL_QUICK_SORT_ALGO_THRESHOLD
  MergeThreshold,  \* YAAL_MERGE_SORT_ALGO_THRESHOLD
  Repeated,        \* whether permutations are made of repeated keys
  FullAtEnd        \* whether a partition ends with elements that a full buffer left behind

VARIABLE range

InitRange == range = <<>>

Extend ==
  /\ Len(range) < MaxRange
  /\ \E k \in SortKeys: range' = Append(range, <<k, Len(range) + 1>>)

Below(x, y) == x[1] < y[1]

Swapped2(s, i, j) == [s EXCEPT ![i] = s[j], ![j] = s[i]]
Part(s, from, end) == SubSeq(s, from, end - 1)

(* s with t in the place of its part that begins at from. *)
Overwritten(s, from, t) ==
  Part(s, 1, from) \o t \o SubSeq(s, from + Len(t), Len(s))

-----------------------------------------------------------------------------
(* rotate(): two neighbouring parts change places by swaps.                *)
RECURSIVE Rotating(_, _, _, _, _, _, _)
Rotating(s, first, it, mid, walked, newMid, last) ==
  IF first = it THEN [seq |-> s, at |-> newMid]
  ELSE LET atEnd == it + 1 = last
           home  == walked + 1 = last
       IN Rotating(Swapped2(s, first, it), first + 1,
                   IF atEnd THEN mid ELSE it + 1,
                   IF ~ atEnd /\ first + 1 = mid THEN it + 1 ELSE mid,
                   IF home THEN first + 1 ELSE walked + 1,
                   IF home THEN first + 1 ELSE newMid,
                   last)

Rotate(s, first, mid, last) ==
  IF mid = last THEN [seq |-> s, at |-> last]
  ELSE Rotating(s, first, mid, mid, mid, last, last)

-----------------------------------------------------------------------------
(* Bisection.  goesRight tells whether the answer is behind an element.    *)
Behind(x, v, upper) == IF upper THEN ~ (v < x[1]) ELSE x[1] < v

RECURSIVE Bisected(_, _, _, _, _)
Bisected(s, first, last, v, upper) ==     \* random access
  LET mid == first + (last - first) \div 2
  IN IF mid # first
     THEN IF Behind(s[mid], v, upper) THEN Bisected(s, mid, last, v, upper)
                                      ELSE Bisected(s, first, mid, v, upper)
     ELSE IF mid # last /\ Behind(s[mid], v, upper) THEN mid + 1 ELSE mid

LowerBound(s, v) == Bisected(s, 1, Len(s) + 1, v, FALSE)
UpperBound(s, v) == Bisected(s, 1, Len(s) + 1, v, TRUE)

RECURSIVE Searched(_, _, _, _)
Searched(s, first, last, v) ==
  LET mid == first + (last - first) \div 2
      equal == ~ (v < s[mid][1]) /\ ~ (s[mid][1] < v)
  IN IF mid = first \/ equal THEN equal
     ELSE IF v < s[mid][1] THEN Searched(s, first, mid, v) ELSE Searched(s, mid, last, v)

(* Of an empty range it reads the element at the end.                      *)
BinarySearch(s, v) == Searched(s, 1, Len(s) + 1, v)

-----------------------------------------------------------------------------
(* merge() of two ranges, stable.                                          *)
RECURSIVE Merge(_, _)
Merge(s, t) ==
  IF s = <<>> THEN t
  ELSE IF t # <<>> /\ Below(Head(t), Head(s)) THEN <<Head(t)>> \o Merge(s, Tail(t))
  ELSE <<Head(s)>> \o Merge(Tail(s), t)

(* inplace_merge_impl() without a buffer.                                  *)
FirstFrom(from, last, P(_)) ==
  Min({last} \cup {i \in from .. (last - 1): P(i)})

RECURSIVE MergedByRotation(_, _, _, _, _)
MergedByRotation(s, first, mid, it, last) ==
  IF first = it \/ it = last THEN s
  ELSE LET f == FirstFrom(first, it, LAMBDA i: Below(s[it], s[i]))
           e == FirstFrom(it, last, LAMBDA i: ~ Below(s[i], s[f]))
           r == Rotate(s, f, mid, e)
       IN MergedByRotation(r.seq, r.at, e, e, last)

(* And with a buffer of size room that is smaller than the first part: a   *)
(* full buffer is put back after the rest of the first part made space.    *)
RECURSIVE MergedInPieces(_, _, _, _, _, _, _)
MergedInPieces(s, room, aux, first, it1, mid, it2) ==
  IF it1 = mid THEN Overwritten(s, first, aux)
  ELSE IF Len(aux) = room
  THEN LET to == it2 - (mid - it1)
       IN MergedInPieces(Overwritten(Overwritten(s, to, Part(s, it1, mid)), first, aux),
                         room, <<>>, to, to, it2, it2)
  ELSE IF it2 <= Len(s) /\ Below(s[it2], s[it1])
  THEN MergedInPieces(s, room, Append(aux, s[it2]), first, it1, mid, it2 + 1)
  ELSE MergedInPieces(s, room, Append(aux, s[it1]), first, it1 + 1, mid, it2)

InplaceMerge(s, mid, room) ==
  CASE room = 0 -> MergedByRotation(s, 1, mid, mid, Len(s) + 1)
    [] room >= mid - 1 -> Merge(Part(s, 1, mid), Part(s, mid, Len(s) + 1))
    [] OTHER -> MergedInPieces(s, room, <<>>, 1, 1, mid, mid)

-----------------------------------------------------------------------------
(* insert_sort(): where the element at position it is inserted, looking    *)
(* from the beginning or, with random access, from a place near to it.     *)
ForwardPlace(s, it) == FirstFrom(1, it, LAMBDA i: Below(s[it], s[i]))

RECURSIVE Near(_, _, _, _)
Near(s, it, sorted, dist) ==
  IF dist <= 1 THEN sorted
  ELSE LET d == dist \div 2
       IN Near(s, it, IF Below(s[it], s[sorted])
                      THEN sorted - (IF d % 2 = 1 THEN d + 1 ELSE d) ELSE sorted + d, d)

(* Mutated form: what is equal to the place looked at may be before it. *)
RandomPlaceNotBefore(s, it) ==
  FirstFrom(Near(s, it, 1 + (it - 1) \div 2, (it - 1) \div 2), it,
            LAMBDA i: Below(s[it], s[i]))

RandomPlace(s, it) ==
  LET near == Near(s, it, 1 + (it - 1) \div 2, (it - 1) \div 2)
      from == IF near # 1 /\ Below(s[it], s[near]) THEN near - 1 ELSE near
  IN FirstFrom(from, it, LAMBDA i: Below(s[it], s[i]))

Inserted(s, it, place) ==
  Part(s, 1, place) \o <<s[it]>> \o Part(s, place, it) \o SubSeq(s, it + 1, Len(s))

InsertSort(s) ==
  FoldLeft(LAMBDA sorted, it: Inserted(sorted, it, RandomPlace(sorted, it)), s,
           [i \in 1 .. (Len(s) - 1) |-> i + 1])

(* stable_sort(), with a buffer for room elements. *)
RECURSIVE StableSort(_, _)
StableSort(s, room) ==
  IF Len(s) < MergeThreshold THEN InsertSort(s)
  ELSE LET mid == 1 + Len(s) \div 2
       IN InplaceMerge(StableSort(Part(s, 1, mid), room) \o
                       StableSort(Part(s, mid, Len(s) + 1), room), mid, room)

-----------------------------------------------------------------------------
(* The heap.  Positions are those of the code, from 0.                     *)
At(s, i) == s[i + 1]

RECURSIVE SiftedDown(_, _, _)
SiftedDown(s, pos, size) ==
  LET left  == 2 * pos + 1
      right == 2 * pos + 2
      child == IF right < size /\ Below(At(s, left), At(s, right)) THEN right ELSE left
  IN IF left < size /\ Below(At(s, pos), At(s, child))
     THEN SiftedDown(Swapped2(s, pos + 1, child + 1), child, size)
     ELSE s

MakeHeap(s) ==
  FoldLeft(LAMBDA t, i: SiftedDown(t, i, Len(s)), s,
           [n \in 1 .. (Len(s) \div 2) |-> Len(s) \div 2 - n])

RECURSIVE SiftedUp(_, _)
SiftedUp(s, pos) ==
  LET parent == (pos - 1) \div 2
  IN IF pos > 0 /\ Below(At(s, parent), At(s, pos))
     THEN SiftedUp(Swapped2(s, parent + 1, pos + 1), parent)
     ELSE s

PushHeap(s) == SiftedUp(s, Len(s) - 1)

(* pop_heap() of the first size elements. *)
PopHeap(s, size) ==
  IF size > 1 THEN SiftedDown(Swapped2(s, 1, size), 0, size - 1) ELSE s

HeapSort(s) ==
  FoldLeft(PopHeap, MakeHeap(s), [n \in 1 .. (Len(s) - 1) |-> Len(s) - n + 1])

-----------------------------------------------------------------------------
(* choose_pivot(): the median of the first, the middle and the last.       *)
ChoosePivot(s, first, last) ==
  LET mid == first + (last - first) \div 2
      fl == Below(s[first], s[last])
      fm == Below(s[first], s[mid])
      lm == Below(s[last], s[mid])
  IN IF fl THEN IF fm THEN IF lm THEN last ELSE mid ELSE first
     ELSE IF lm THEN IF fm THEN first ELSE mid ELSE last

(* The two loops of partition_by_pivot() that run towards each other.      *)
RECURSIVE Crossed(_, _, _, _)
Crossed(s, l0, r0, pivot) ==
  LET l == FirstFrom(l0, r0, LAMBDA i: ~ Below(s[i], pivot))
      r == Max({l} \cup {i \in l .. r0: Below(s[i], pivot)})
      t == Swapped2(s, l, r)
  IN IF l = r THEN [seq |-> s, l |-> l]
     ELSE IF l + 1 = r THEN [seq |-> t, l |-> l + 1]
     ELSE Crossed(t, l + 1, r - 1, pivot)

(* When the pivot is the minimum, what equals it comes first.              *)
EqualFirst(p, l0, last, pivot) ==
  FoldLeft(LAMBDA q, r: IF ~ Below(pivot, q.seq[r]) /\ r # q.l
                        THEN [q EXCEPT !.seq = Swapped2(@, r, q.l), !.l = @ + 1] ELSE q,
           [seq |-> p, l |-> l0, constant |-> TRUE],
           [n \in 1 .. (last - l0) |-> l0 + n - 1])

Parted(c, l, first, last, pivot) ==
  IF l = first THEN EqualFirst(c.seq, l, last, pivot)
  ELSE [seq |-> c.seq, l |-> l, constant |-> FALSE]

PartedFrom(c, first, last, pivot) ==
  Parted(c, FirstFrom(c.l, last, LAMBDA i: ~ Below(c.seq[i], pivot)), first, last, pivot)

PartitionByPivot(s, first, last, pivot) ==
  IF first = last THEN [seq |-> s, l |-> first, constant |-> FALSE]
  ELSE PartedFrom(Crossed(s, first, last - 1, pivot), first, last, pivot)

(* sort(): the parts before and behind p.l are sorted in the same way. *)
RECURSIVE Sort(_)
RECURSIVE SortedParts(_, _)
SortedParts(p, size) ==
  LET left  == Part(p.seq, 1, p.l)
      right == Part(p.seq, p.l, size + 1)
  IN (IF p.constant \/ right = <<>> THEN left ELSE Sort(left)) \o
     (IF right = <<>> THEN <<>> ELSE Sort(right))

Sort(s) ==
  IF Len(s) < SortThreshold THEN InsertSort(s)
  ELSE SortedParts(PartitionByPivot(s, 1, Len(s) + 1, s[ChoosePivot(s, 1, Len(s))]), Len(s))

(* One round of nth_element(): the median goes to the end of the part from  *)
(* first to last, and then between what is below it and the rest.           *)
Elements == Seq(SortKeys \X Nat)
Round == [seq: Elements, l: Nat, constant: BOOLEAN, first: Nat, last: Nat]

Split[s \in Elements, first, last \in Nat] ==
  LET t == Swapped2(s, ChoosePivot(s, first, last - 1), last - 1)
      p == PartitionByPivot(t, first, last - 1, t[last - 1])
  IN [seq |-> Swapped2(p.seq, p.l, last - 1), l |-> p.l, constant |-> p.constant,
      first |-> first, last |-> last]

NthOf[p \in Round, nth \in Nat] ==
  IF p.l = nth \/ (p.l > nth /\ p.constant) THEN p.seq
  ELSE NthOf[IF p.l < nth THEN Split[p.seq, p.l + 1, p.last]
                          ELSE Split[p.seq, p.first, p.l], nth]

NthElement(s, nth) == NthOf[Split[s, 1, Len(s) + 1], nth]

-----------------------------------------------------------------------------
(* partition() and stable_partition() by whether the key is at most k.     *)
Fits(x, k) == x[1] <= k

Partition(s, k) ==
  LET fit == FirstFrom(1, Len(s) + 1, LAMBDA i: ~ Fits(s[i], k))
  IN FoldLeft(LAMBDA p, i: IF Fits(p.seq[i], k)
                           THEN [seq |-> Swapped2(p.seq, i, p.at), at |-> p.at + 1] ELSE p,
              [seq |-> s, at |-> fit], [n \in 1 .. (Len(s) - fit) |-> fit + n])

RECURSIVE PartitionByRotation(_, _, _, _)
PartitionByRotation(s, first, unfit, k) ==
  IF first = Len(s) + 1 THEN [seq |-> s, at |-> unfit]
  ELSE LET fit == FirstFrom(first, Len(s) + 1, LAMBDA i: Fits(s[i], k))
           end == FirstFrom(fit, Len(s) + 1, LAMBDA i: ~ Fits(s[i], k))
           r == Rotate(s, unfit, fit, end)
       IN IF fit = Len(s) + 1 THEN [seq |-> s, at |-> unfit]
          ELSE PartitionByRotation(r.seq, end, r.at, k)

(* With a buffer of size room for what does not fit; unfit is 0 as long as *)
(* there was no full one.                                                  *)
Joined(s, aux, fit, it, unfit) ==
  LET t == Overwritten(s, it, aux)
  IN IF unfit = 0 THEN [seq |-> t, at |-> it] ELSE Rotate(t, unfit, fit, it)

RECURSIVE PartitionInPieces(_, _, _, _, _, _, _, _)
PartitionInPieces(s, room, aux, first, it, fit, unfit, k) ==
  IF first = Len(s) + 1 THEN Joined(s, aux, fit, it, unfit)
  ELSE IF Fits(s[first], k)
  THEN PartitionInPieces([s EXCEPT ![it] = s[first]], room, aux, first + 1, it + 1, fit, unfit, k)
  ELSE IF Len(aux) < room
  THEN PartitionInPieces(s, room, Append(aux, s[first]), first + 1, it, fit, unfit, k)
  ELSE LET j == Joined(s, aux, fit, it, unfit)
           next == FirstFrom(first, Len(s) + 1, LAMBDA i: Fits(s[i], k))
           end == IF next = Len(s) + 1 THEN next ELSE next + 1
       IN PartitionInPieces(j.seq, room, <<>>, end, end, next, j.at, k)

StablePartition(s, room, k) ==
  IF s = <<>> THEN [seq |-> s, at |-> 1]
  ELSE IF room = 0
  THEN LET fit == FirstFrom(1, Len(s) + 1, LAMBDA i: ~ Fits(s[i], k))
       IN PartitionByRotation(s, fit, fit, k)
  ELSE PartitionInPieces(s, room, <<>>, 1, 1, 1, 0, k)
-----------------------------------------------------------------------------
(* next_permutation() and prev_permutation(): the last place that can be   *)
(* raised, or lowered, gets the last element that fits there, and the rest *)
(* is reversed.  Of equal keys the element that is looked for may not be   *)
(* there, and the loop leaves the range.                                   *)
Permuted(s, place, fitting) ==
  LET i == Max(place)
      j == Max(fitting[i])
      t == Swapped2(s, i, j)
  IN IF place = {} THEN [seq |-> Reverse(s), got |-> FALSE]
     ELSE IF fitting[i] = {} THEN [seq |-> <<>>, got |-> TRUE]
     ELSE [seq |-> Part(t, 1, i + 1) \o Reverse(Part(t, i + 1, Len(s) + 1)), got |-> TRUE]

NextPermutation(s) ==
  Permuted(s, {i \in 1 .. (Len(s) - 1): ~ Below(s[i + 1], s[i])},
           [i \in DOMAIN s |-> {j \in DOMAIN s: Below(s[i], s[j])}])

PrevPermutation(s) ==
  Permuted(s, {i \in 1 .. (Len(s) - 1): Below(s[i + 1], s[i])},
           [i \in DOMAIN s |-> {j \in DOMAIN s: ~ Below(s[i], s[j])}])

-----------------------------------------------------------------------------
(* What they promise.                                                      *)
RangeType == range \in Seq(SortKeys \X (1 .. MaxRange)) /\ Len(range) <= MaxRange

InOrder(s) == \A i, j \in DOMAIN s: i < j => ~ Below(s[j], s[i])
SameElements(s, t) == Len(s) = Len(t) /\ ToSet(s) = ToSet(t)

(* The elements by their keys, and equal ones as they were. *)
Ordered(s) ==
  SetToSortSeq(ToSet(s), LAMBDA x, y: x[1] < y[1] \/ (x[1] = y[1] /\ x[2] < y[2]))

Ends == 1 .. (Len(range) + 1)
Around == (Min(SortKeys) - 1) .. (Max(SortKeys) + 1)

(* rotate() exchanges two parts of a range and leaves the rest; where it   *)
(* exchanges anything it returns where the first part is now.              *)
RotatesParts ==
  \A first, mid, last \in Ends: first <= mid /\ mid <= last =>
    LET r == Rotate(range, first, mid, last)
    IN /\ r.seq = Part(range, 1, first) \o Part(range, mid, last) \o Part(range, first, mid)
                  \o Part(range, last, Len(range) + 1)
       /\ mid < last => r.at = first + (last - mid)

(* The searches by bisection find in an ordered range the first place and  *)
(* the last where the value may be inserted, and whether it is there.      *)
SearchesAreRight ==
  LET s == Ordered(range)
  IN \A v \in Around:
       /\ LowerBound(s, v) = FirstFrom(1, Len(s) + 1, LAMBDA i: ~ (s[i][1] < v))
       /\ UpperBound(s, v) = FirstFrom(1, Len(s) + 1, LAMBDA i: v < s[i][1])
       /\ s # <<>> => BinarySearch(s, v) = (\E x \in ToSet(s): x[1] = v)

(* Merging in place keeps the order of equal elements, with a buffer of    *)
(* any size: none, too small or large enough.                              *)
MergesAreStable ==
  \A mid \in Ends: \A room \in 0 .. (mid - 1):
    LET s == Ordered(Part(range, 1, mid)) \o Ordered(Part(range, mid, Len(range) + 1))
    IN InplaceMerge(s, mid, room) = Ordered(range)

(* All sorts sort, and those that promise it keep the order of equal       *)
(* elements; the heap has its largest element first at every step.         *)
IsHeap(s) == \A i \in 1 .. (Len(s) - 1): ~ Below(At(s, (i - 1) \div 2), At(s, i))

SortsAreRight ==
  /\ InsertSort(range) = Ordered(range)
  /\ \A room \in 0 .. Len(range): StableSort(range, room) = Ordered(range)
  /\ \A s \in {Sort(range), HeapSort(range)}: InOrder(s) /\ SameElements(s, range)
  /\ IsHeap(MakeHeap(range)) /\ SameElements(MakeHeap(range), range)
  /\ range # <<>> => IsHeap(PushHeap(MakeHeap(Front(range)) \o <<Last(range)>>))

(* The place near to which insert_sort() looks is never behind the right   *)
(* one, also in ranges as long as those that the code sorts in this way.   *)
PlacesAreRight ==
  range = <<>> => \A n \in 0 .. 14, half \in {1, 2}: \A v \in 0 .. n + 1:
    LET s == [i \in 1 .. (n + 1) |-> <<IF i = n + 1 THEN v ELSE 1 + (i - 1) \div half, i>>]
    IN RandomPlace(s, n + 1) = ForwardPlace(s, n + 1)

(* nth_element() brings the element there that sorting would, and parts    *)
(* the others around it.                                                   *)
NthIsRight ==
  \A nth \in DOMAIN range: \A s \in {NthElement(range, nth)}:
    /\ SameElements(s, range) /\ s[nth][1] = Ordered(range)[nth][1]
    /\ \A i \in 1 .. (nth - 1): ~ Below(s[nth], s[i])
    /\ \A i \in (nth + 1) .. Len(s): ~ Below(s[i], s[nth])

(* Partitions put what fits first and return where the rest begins, and    *)
(* the stable one keeps the order, for any size of its buffer.             *)
PartitionsAreRight ==
  \A k \in Around:
    LET fits == SelectSeq(range, LAMBDA x: Fits(x, k))
        other == SelectSeq(range, LAMBDA x: ~ Fits(x, k))
        p == Partition(range, k)
    IN /\ SameElements(p.seq, range) /\ p.at = Len(fits) + 1
       /\ \A i \in DOMAIN range: Fits(p.seq[i], k) <=> i < p.at
       /\ \A room \in 0 .. Len(range):
            LET t == StablePartition(range, room, k)
            IN /\ t.seq = fits \o other
               /\ \/ t.at = Len(fits) + 1
                  \/ ~ FullAtEnd /\ room \in 1 .. (Len(other) - 1) /\ ~ Fits(Last(range), k)

(* Permutations follow one another in lexicographical order.               *)
LexBelow(s, t) ==
  \E i \in DOMAIN s: Below(s[i], t[i]) /\ \A j \in 1 .. (i - 1): s[j][1] = t[j][1]

PermutationsFollow ==
  (Repeated \/ Cardinality({x[1]: x \in ToSet(range)}) = Len(range)) =>
    LET all == SetToSeqs(ToSet(range))
        next == NextPermutation(range)
        prev == PrevPermutation(range)
    IN /\ next.got <=> \E t \in all: LexBelow(range, t)
       /\ next.got => /\ next.seq \in all /\ LexBelow(range, next.seq)
                      /\ ~ \E t \in all: LexBelow(range, t) /\ LexBelow(t, next.seq)
       /\ prev.got <=> \E t \in all: LexBelow(t, range)
       /\ prev.got => /\ prev.seq \in all /\ LexBelow(prev.seq, range)
                      /\ ~ \E t \in all: LexBelow(t, range) /\ LexBelow(prev.seq, t)
=============================================================================
