-------------------------------- MODULE HList --------------------------------
(***************************************************************************)
(* HList of src/hcore/hlist.hxx: sequences of elements that are linked in  *)
(* a circle, with _hook at the first.  All elements live in one heap, so   *)
(* that splice() can move them between lists.  An element is a node with a *)
(* value; an iterator is the node it is at, Null at the end.               *)
(* content is the sequence of nodes that each list stands for.             *)
(***************************************************************************)
EXTENDS SequencesExt, FiniteSetsExt, Integers, TLC

CONSTANTS
  Lists,            \* names of lists
  Nodes,            \* nodes that the allocator has to give
  ListKeys,         \* values of elements
  SortThresholds,   \* what sort() may have for its ARBITRARILY_CHOSEN_THRESHOLD, 7
  MovesToOwnEnd     \* may splice() move the first elements of a list to its end?

VARIABLES
  heap,      \* _next and _previous of nodes, _hook and _size of lists
  value,     \* _value of nodes
  content    \* what each list stands for: a sequence of nodes with their values

vars == <<heap, value, content>>

Null == 0

TypeOK ==
  /\ heap \in [next : [Nodes -> Nodes \cup {Null}], prev : [Nodes -> Nodes \cup {Null}],
               hook : [Lists -> Nodes \cup {Null}], size : [Lists -> 0 .. Cardinality(Nodes)]]
  /\ value \in [Nodes -> ListKeys]
  /\ content \in [Lists -> Seq(Nodes \X ListKeys)]

Init ==
  /\ heap = [next |-> [n \in Nodes |-> Null], prev |-> [n \in Nodes |-> Null],
             hook |-> [l \in Lists |-> Null], size |-> [l \in Lists |-> 0]]
  /\ value = [n \in Nodes |-> Min(ListKeys)]
  /\ content = [l \in Lists |-> <<>>]

-----------------------------------------------------------------------------
(* Links.  Elements from a to b are taken out of their circle, and put in    *)
(* before e.                                                                 *)
Cut(h, a, b) == [h EXCEPT !.next[h.prev[a]] = h.next[b], !.prev[h.next[b]] = h.prev[a]]

Chain(h, a, b, e) ==
  [h EXCEPT !.prev[a] = h.prev[e], !.next[h.prev[e]] = a, !.next[b] = e, !.prev[e] = b]

(* operator ++ and operator -- of an iterator. *)
Succ(h, l, at) ==
  IF at = Null THEN h.hook[l] ELSE IF h.next[at] = h.hook[l] THEN Null ELSE h.next[at]

Pred(h, l, at) ==
  IF at # Null
  THEN IF h.prev[at] = h.prev[h.hook[l]] THEN Null ELSE h.prev[at]
  ELSE IF h.hook[l] = Null THEN Null ELSE h.prev[h.hook[l]]

(* The element before which something is put in. *)
ElementAt(h, l, at) == IF at # Null THEN at ELSE h.hook[l]

(* Every insertion: push_front() is one at begin(), push_back() one at end(). *)
InsertNode(h, l, at, n) ==
  LET e == ElementAt(h, l, at)
      linked == IF e = Null THEN [h EXCEPT !.next[n] = n, !.prev[n] = n] ELSE Chain(h, n, n, e)
  IN  [linked EXCEPT !.hook[l] = IF h.size[l] = 0 \/ at = @ THEN n ELSE @, !.size[l] = @ + 1]

(* ~HElement() and deallocate(): whoever comes to the node later falls.      *)
Free(h, n) == [Cut(h, n, n) EXCEPT !.next[n] = Null, !.prev[n] = Null]

(* Every removal: pop_front() is one of begin(), pop_back() one before end(). *)
EraseNode(h, l, n) ==
  [Free(h, n) EXCEPT
     !.size[l] = @ - 1,
     !.hook[l] = IF h.size[l] = 1 THEN Null ELSE IF n = @ THEN h.next[n] ELSE @]

RECURSIVE EraseUpTo(_, _, _, _), EraseIf(_, _, _, _), EraseRepeated(_, _, _, _, _),
          ClearList(_, _), PopTo(_, _, _)
EraseUpTo(h, l, first, last) ==
  IF first = last THEN h
  ELSE EraseUpTo(EraseNode(h, l, first), l, Succ(h, l, first), last)

EraseIf(h, l, at, bad) ==
  IF at = Null THEN h
  ELSE EraseIf(IF at \in bad THEN EraseNode(h, l, at) ELSE h, l, Succ(h, l, at), bad)

EraseRepeated(h, l, at, follow, values) ==
  IF at = Null THEN h
  ELSE IF values[at] = values[follow]
       THEN EraseRepeated(EraseNode(h, l, at), l, Succ(h, l, at), follow, values)
       ELSE EraseRepeated(h, l, Succ(h, l, at), Succ(h, l, follow), values)

ClearList(h, l) ==
  IF h.size[l] = 0 THEN [h EXCEPT !.hook[l] = Null]
  ELSE ClearList([Free(h, h.next[h.hook[l]]) EXCEPT !.size[l] = @ - 1], l)

PopTo(h, l, size) ==
  IF h.size[l] <= size THEN h ELSE PopTo(EraseNode(h, l, h.prev[h.hook[l]]), l, size)

-----------------------------------------------------------------------------
NodesOf(s)    == [i \in DOMAIN s |-> s[i][1]]
KeysOf(s)     == [i \in DOMAIN s |-> s[i][2]]
PlaceOf(s, n) == SelectInSeq(s, LAMBDA e : e[1] = n)
Places(l)     == ToSet(NodesOf(content[l])) \cup {Null}
(* How many elements are before a place. *)
Before(s, at) == IF at = Null THEN Len(s) ELSE PlaceOf(s, at) - 1
PutIn(s, at, new) == SubSeq(s, 1, Before(s, at)) \o new \o SubSeq(s, Before(s, at) + 1, Len(s))

(* The nodes that allocate() gives next. *)
Spare == SetToSortSeq(Nodes \ UNION {Places(l) : l \in Lists}, <)
New(keys) == [i \in DOMAIN keys |-> <<Spare[i], keys[i]>>]
InsertAll(h, l, at, new) == FoldLeft(LAMBDA g, e : InsertNode(g, l, at, e[1]), h, new)
WithValues(elements) ==
  value' = [n \in Nodes |-> LET i == PlaceOf(elements, n) IN IF i = 0 THEN value[n] ELSE elements[i][2]]

Insert(l, at, keys) ==
  /\ Len(keys) <= Len(Spare)
  /\ heap' = InsertAll(heap, l, at, New(keys))
  /\ WithValues(New(keys))
  /\ content' = [content EXCEPT ![l] = PutIn(@, at, New(keys))]

(* operator = and assign(): the elements that are there already are assigned *)
(* to, the others are taken from the end or added to it.                     *)
Assign(l, keys) ==
  LET size == Len(content[l])
      kept == [i \in 1 .. Min({size, Len(keys)}) |-> <<content[l][i][1], keys[i]>>]
      new  == New(SubSeq(keys, size + 1, Len(keys)))
  IN  /\ Len(keys) - size <= Len(Spare)
      /\ heap' = InsertAll(PopTo(heap, l, Len(keys)), l, Null, new)
      /\ WithValues(kept \o new)
      /\ content' = [content EXCEPT ![l] = kept \o new]

Resize(l, size, key) ==
  LET new == New([i \in 1 .. size - Len(content[l]) |-> key]) IN
  /\ size - Len(content[l]) <= Len(Spare)
  /\ heap' = InsertAll(PopTo(heap, l, size), l, Null, new)
  /\ WithValues(new)
  /\ content' = [content EXCEPT ![l] = SubSeq(@, 1, Min({size, Len(@)})) \o new]

Erase(l, n) ==
  /\ heap' = EraseNode(heap, l, n)
  /\ content' = [content EXCEPT ![l] = RemoveAt(@, PlaceOf(@, n))]
  /\ UNCHANGED value

EraseRange(l, first, last) ==
  /\ heap' = EraseUpTo(heap, l, first, last)
  /\ content' = [content EXCEPT ![l] =
       SubSeq(@, 1, Before(@, first)) \o SubSeq(@, Before(@, last) + 1, Len(@))]
  /\ UNCHANGED value

Clear(l) ==
  /\ heap' = ClearList(heap, l)
  /\ content' = [content EXCEPT ![l] = <<>>]
  /\ UNCHANGED value

Swapped(h, l, m) ==
  [h EXCEPT !.hook = [@ EXCEPT ![l] = h.hook[m], ![m] = h.hook[l]],
            !.size = [@ EXCEPT ![l] = h.size[m], ![m] = h.size[l]]]

Swap(l, m) ==
  /\ heap' = Swapped(heap, l, m)
  /\ content' = [content EXCEPT ![l] = content[m], ![m] = content[l]]
  /\ UNCHANGED value

(* operator = of a list that is moved: what was in l goes with the other.    *)
Move(l, m) ==
  /\ heap' = IF l = m THEN heap ELSE ClearList(Swapped(heap, l, m), m)
  /\ content' = IF l = m THEN content ELSE [content EXCEPT ![l] = content[m], ![m] = <<>>]
  /\ UNCHANGED value

(* remove() and remove_if(). *)
RemoveValues(l, keys) ==
  /\ heap' = EraseIf(heap, l, heap.hook[l], {n \in Nodes : value[n] \in keys})
  /\ content' = [content EXCEPT ![l] = SelectSeq(@, LAMBDA e : e[2] \notin keys)]
  /\ UNCHANGED value

(* The first element of each run of equal ones stays. *)
Unique(l) ==
  LET Kept(i) == i = 1 \/ content[l][i][2] # content[l][i - 1][2] IN
  /\ heap' = EraseRepeated(heap, l, Succ(heap, l, heap.hook[l]), heap.hook[l], value)
  /\ content' = [content EXCEPT ![l] =
       [i \in 1 .. Quantify(DOMAIN @, Kept) |-> @[CHOOSE j \in DOMAIN @ : Kept(j) /\ Quantify(1 .. j, Kept) = i]]]
  /\ UNCHANGED value

RECURSIVE Turn(_, _, _)
Turn(h, hook, e) ==
  LET turned == [h EXCEPT !.prev[e] = h.next[e], !.next[e] = h.prev[e]] IN
  IF e = hook THEN turned ELSE Turn(turned, hook, turned.next[e])

(* reverse() turns the element before the new first one first. *)
ReverseList(l) ==
  /\ heap' = IF heap.hook[l] = Null THEN heap
             ELSE LET last == heap.prev[heap.hook[l]]
                  IN  Turn([heap EXCEPT !.hook[l] = last], last, heap.prev[last])
  /\ content' = [content EXCEPT ![l] = Reverse(@)]
  /\ UNCHANGED value

-----------------------------------------------------------------------------
(* exchange() of elements, and insert() of one that is moved within its list. *)
Exchanged(h, l, left, right) ==
  LET around == [h EXCEPT !.prev[h.next[left]] = right, !.next[h.prev[left]] = right,
                          !.prev[h.next[right]] = left, !.next[h.prev[right]] = left]
  IN  [around EXCEPT
         !.next[left] = around.next[right], !.prev[left] = around.prev[right],
         !.next[right] = around.next[left], !.prev[right] = around.prev[left],
         !.hook[l] = IF left = @ THEN right ELSE IF right = @ THEN left ELSE @]

Shift(h, l, pos, elem) ==
  IF h.next[pos] = elem THEN Exchanged(h, l, pos, elem)
  ELSE LET hooked == [h EXCEPT !.hook[l] = IF pos = @ THEN elem ELSE @]
       IN  IF h.prev[pos] = elem THEN hooked ELSE Chain(Cut(hooked, elem, elem), elem, elem, pos)

Exchange(l, left, right) ==
  LET i == PlaceOf(content[l], left)
      j == PlaceOf(content[l], right)
  IN  /\ heap' = IF left = right THEN heap ELSE Exchanged(heap, l, left, right)
      /\ content' = [content EXCEPT ![l][i] = content[l][j], ![l][j] = content[l][i]]
      /\ UNCHANGED value

(* Parts of a list are given by their first and last elements; sorting them  *)
(* gives the heap with the new ones.                                         *)
Part(h, first, last) == [heap |-> h, first |-> first, last |-> last]

RECURSIVE PlaceFor(_, _, _, _, _), InsertSort(_, _, _, _, _, _), Meet(_, _, _, _, _),
          RunEnd(_, _, _, _, _), MergeParts(_, _, _, _, _, _, _), MergeSort(_, _, _, _, _, _)
PlaceFor(h, ptr, lower, top, v) ==
  IF ptr # lower /\ v[top] < v[h.prev[ptr]] THEN PlaceFor(h, h.prev[ptr], lower, top, v) ELSE ptr

InsertSort(h, l, lower, upper, top, v) ==
  IF top = upper THEN Part(h, lower, upper)
  ELSE LET next == h.next[top]
           ptr  == PlaceFor(h, next, lower, next, v)
       IN  IF ptr = next THEN InsertSort(h, l, lower, upper, next, v)
           ELSE InsertSort(Shift(h, l, ptr, next), l, IF ptr = lower THEN next ELSE lower,
                           IF next = upper THEN top ELSE upper, top, v)

(* Two iterators from the ends of a part to its middle, with their steps. *)
Meet(h, left, right, stepsLeft, stepsRight) ==
  LET here == [left |-> left, right |-> right, stepsLeft |-> stepsLeft, stepsRight |-> stepsRight]
  IN  IF left = right \/ h.next[left] = right THEN here
      ELSE IF h.next[left] = h.prev[right]
           THEN [here EXCEPT !.left = h.next[left], !.stepsLeft = @ + 1]
           ELSE Meet(h, h.next[left], h.prev[right], stepsLeft + 1, stepsRight + 1)

RunEnd(h, e, last, left, v) ==
  IF e # last /\ v[h.next[e]] < v[left] THEN RunEnd(h, h.next[e], last, left, v) ELSE e

(* Runs of the right part go before the first of the left one that is greater. *)
MergeParts(h, left, right, last, steps, first, v) ==
  LET Or(e) == IF first = Null THEN e ELSE first IN
  IF steps = 0 THEN Part(h, first, last)
  ELSE IF v[right] < v[left]
       THEN LET end   == RunEnd(h, right, last, left, v)
                moved == Chain(Cut(h, right, end), right, end, left)
            IN  IF end = last THEN Part(moved, Or(right), moved.prev[h.next[end]])
                ELSE MergeParts(moved, left, h.next[end], last, steps, Or(right), v)
       ELSE MergeParts(h, h.next[left], right, last, steps - 1, Or(left), v)

MergeSort(h, l, left, right, t, v) ==
  LET m == Meet(h, left, right, 0, 0)
      SortPart(g, first, last, steps) ==
        IF steps < t THEN InsertSort(g, l, first, last, first, v)
        ELSE MergeSort(g, l, first, last, t, v)
      lower == SortPart(h, left, m.left, m.stepsLeft)
      upper == SortPart(lower.heap, m.right, right, m.stepsRight)
  IN  IF m.stepsLeft + m.stepsRight + 2 < t THEN InsertSort(h, l, left, right, left, v)
      ELSE MergeParts(upper.heap, lower.first, upper.first, upper.last, m.stepsLeft + 1, Null, v)

Sort(l, t) ==
  LET sorted == MergeSort(heap, l, heap.hook[l], heap.prev[heap.hook[l]], t, value)
      Earlier(s, i, j) == s[i][2] < s[j][2] \/ (s[i][2] = s[j][2] /\ i < j)
  IN  /\ heap' = IF heap.size[l] > 1 THEN [sorted.heap EXCEPT !.hook[l] = sorted.first] ELSE heap
      /\ content' = [content EXCEPT ![l] =
           LET s == @
               order == SetToSortSeq(DOMAIN s, LAMBDA i, j : Earlier(s, i, j))
           IN  [i \in DOMAIN s |-> s[order[i]]]]
      /\ UNCHANGED value

-----------------------------------------------------------------------------
(* splice() of another list, of one element and of a range, from m before at *)
(* in l.                                                                     *)
SpliceList(l, at, m) ==
  LET e     == ElementAt(heap, l, at)
      first == heap.hook[m]
      moved == IF e = Null THEN heap ELSE Chain(heap, first, heap.prev[first], e)
  IN  /\ l # m
      /\ heap' = IF first = Null THEN heap
                 ELSE [moved EXCEPT !.hook = [@ EXCEPT ![l] = IF at = @ THEN first ELSE @, ![m] = Null],
                                    !.size = [@ EXCEPT ![l] = @ + heap.size[m], ![m] = 0]]
      /\ content' = [content EXCEPT ![l] = PutIn(@, at, content[m]), ![m] = <<>>]
      /\ UNCHANGED value

(* What splice() of a part leaves of the sequences. *)
MovePart(l, at, m, first, last) ==
  LET s     == content[m]
      part  == SubSeq(s, Before(s, first) + 1, Before(s, last))
      left  == [content EXCEPT ![m] = SelectSeq(s, LAMBDA e : e \notin ToSet(part))]
  IN  content' = [left EXCEPT ![l] = PutIn(@, at, part)]

(* Is something moved within l to the place before which e is, its first one, *)
(* although the end of the list was meant?                                    *)
ToOwnEnd(l, at, m, first) == l = m /\ at = Null /\ first = heap.hook[l]

SpliceOne(l, at, m, from) ==
  LET e     == ElementAt(heap, l, at)
      next  == heap.next[from]
      left  == [heap EXCEPT !.hook[m] = IF from # @ THEN @ ELSE IF next # @ THEN next ELSE Null]
      added == [left EXCEPT !.hook[l] = IF at = @ THEN from ELSE @]
      cut   == Cut(added, from, from)
      moved == IF e # Null THEN Chain(cut, from, from, e)
               ELSE [cut EXCEPT !.next[from] = from, !.prev[from] = from]
      less  == [moved EXCEPT !.size[m] = @ - 1]
  IN  /\ ToOwnEnd(l, at, m, from) => MovesToOwnEnd
      /\ heap' = IF from = at \/ (next = at /\ at # heap.hook[l]) THEN heap
                 ELSE [less EXCEPT !.size[l] = @ + 1]
      /\ IF from = at THEN UNCHANGED content ELSE MovePart(l, at, m, from, Succ(heap, m, from))
      /\ UNCHANGED value

(* at is not inside of the range. *)
SpliceRange(l, at, m, first, last) ==
  LET s     == content[m]
      to    == ElementAt(heap, l, at)
      after == ElementAt(heap, m, last)
      end   == heap.prev[after]
      count == IF l = m THEN 0 ELSE Before(s, last) - Before(s, first)
      left  == [heap EXCEPT !.hook[m] = IF first = @ THEN last ELSE @]
      cut   == Cut(left, first, end)
      moved == IF to # Null THEN Chain(cut, first, end, to)
               ELSE [cut EXCEPT !.prev[first] = end, !.next[end] = first]
      less  == [moved EXCEPT !.size[m] = @ - count]
  IN  /\ Before(s, first) <= Before(s, last)
      /\ l = m => Before(s, at) < Before(s, first) \/ Before(s, at) >= Before(s, last)
      /\ ToOwnEnd(l, at, m, first) /\ last # Null => MovesToOwnEnd
      /\ heap' = IF first = last \/ (last = to /\ l = m) \/ end = to THEN heap
                 ELSE [less EXCEPT !.size[l] = @ + count,
                                   !.hook[l] = IF to = Null \/ at = @ THEN first ELSE @]
      /\ MovePart(l, at, m, first, last)
      /\ UNCHANGED value

-----------------------------------------------------------------------------
Change(l) ==
  \/ \E at \in Places(l), keys \in BoundedSeq(ListKeys, 2) : Insert(l, at, keys)
  \/ \E size \in 0 .. Cardinality(Nodes), key \in ListKeys : Resize(l, size, key)
  \/ \E keys \in BoundedSeq(ListKeys, 2) \cup {KeysOf(content[m]) : m \in Lists} : Assign(l, keys)
  \/ \E n \in Places(l) \ {Null} : Erase(l, n)
  \/ \E first, last \in Places(l) :
       Before(content[l], first) <= Before(content[l], last) /\ EraseRange(l, first, last)
  \/ Clear(l)
  \/ \E keys \in SUBSET ListKeys : RemoveValues(l, keys)
  \/ Unique(l)
  \/ ReverseList(l)
  \/ \E left, right \in Places(l) \ {Null} : Exchange(l, left, right)
  \/ \E t \in SortThresholds : Sort(l, t)

Transfer(l, m) ==
  \/ Swap(l, m)
  \/ Move(l, m)
  \/ \E at \in Places(l) : SpliceList(l, at, m)
  \/ \E at \in Places(l), from \in Places(m) \ {Null} : SpliceOne(l, at, m, from)
  \/ \E at \in Places(l), first, last \in Places(m) : SpliceRange(l, at, m, first, last)

Next == (\E l \in Lists : Change(l)) \/ (\E l, m \in Lists : Transfer(l, m))

Spec == Init /\ [][Next]_vars

-----------------------------------------------------------------------------
(* Iterators that go over a list, forwards or backwards, from any place, meet *)
(* the sequence that the operations amount to, _size is its length, and every *)
(* element has the value it was given.                                       *)
ListIsASequence ==
  \A l \in Lists :
    LET s == content[l]
        At(i) == IF i \in DOMAIN s THEN s[i][1] ELSE Null
    IN  /\ heap.size[l] = Len(s)
        /\ \A i \in 0 .. Len(s) : Succ(heap, l, At(i)) = At(i + 1)
        /\ \A i \in 1 .. Len(s) + 1 : Pred(heap, l, At(i)) = At(i - 1)
        /\ \A i \in DOMAIN s : value[s[i][1]] = s[i][2]

(* Nodes that were erased are not linked any more. *)
ErasedIsGone ==
  \A n \in Nodes :
    (\A l \in Lists : PlaceOf(content[l], n) = 0) <=> heap.next[n] = Null
==============================================================================
