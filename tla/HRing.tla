------------------------------- MODULE HRing --------------------------------
(***************************************************************************)
(* HRing of src/tools/hring.hxx: a sequence in a buffer whose first        *)
(* element may be anywhere.  A cell of the buffer holds a constructed      *)
(* element or is Raw; a write outside of the buffer is lost.               *)
(***************************************************************************)
EXTENDS Integers, Sequences, SequencesExt, FiniteSetsExt

CONSTANTS
  Values,
  Capacities,   \* what reserve() is asked for
  MaxCapacity,
  BeyondTheEnd  \* may erase() and insert( count ) meet the end of the buffer?

VARIABLES
  cells,        \* _buf
  start, size,  \* _start, _size
  content       \* history: the sequence that the calls amount to

ringVars == <<cells, start, size, content>>

Raw == "raw"

Init ==
  /\ cells = [i \in {} |-> Raw]
  /\ start = 0 /\ size = 0
  /\ content = <<>>

Capacity == Cardinality(DOMAIN cells)

(* HChunk takes memory by powers of two; elements are of size one. *)
Rounded(n) == IF n = 0 THEN 0 ELSE Min({c \in {2 ^ k: k \in 0 .. n}: c >= n})

Wrapped(i) == IF i >= Capacity THEN i - Capacity ELSE i

(* Construct, destroy and relocate one element. *)
Put(buf, i, value) == IF i \in DOMAIN buf THEN [buf EXCEPT ![i] = value] ELSE buf
Relocate(buf, src, dst) == Put(Put(buf, dst, buf[src]), src, Raw)

Interval(a, b) == [k \in 1 .. (b - a) |-> a + k - 1]     \* a .. b - 1 in order

-----------------------------------------------------------------------------
PushBack(v) ==
  /\ size < Capacity
  /\ cells' = Put(cells, Wrapped(start + size), v)
  /\ size' = size + 1
  /\ content' = Append(content, v)
  /\ UNCHANGED start

PushFront(v) ==
  /\ size < Capacity
  /\ start' = IF start = 0 THEN Capacity - 1 ELSE start - 1
  /\ cells' = Put(cells, start', v)
  /\ size' = size + 1
  /\ content' = <<v>> \o content

PopBack ==
  /\ size > 0
  /\ size' = size - 1
  /\ cells' = Put(cells, Wrapped(start + size'), Raw)
  /\ content' = Front(content)
  /\ UNCHANGED start

PopFront ==
  /\ size > 0
  /\ cells' = Put(cells, start, Raw)
  /\ start' = IF start + 1 = Capacity THEN 0 ELSE start + 1
  /\ size' = size - 1
  /\ content' = Tail(content)

(* reserve(): a larger buffer begins with the first element. *)
Reserve(capacity) ==
  /\ capacity > Capacity
  /\ LET larger == Rounded(IF capacity > 2 * Capacity THEN capacity ELSE 2 * Capacity)
     IN /\ larger <= MaxCapacity
        /\ cells' = [i \in 0 .. (larger - 1) |-> IF i < size THEN cells[Wrapped(start + i)] ELSE Raw]
  /\ start' = 0
  /\ UNCHANGED <<size, content>>

(* resize() within the capacity *)
Resize(n, v) ==
  /\ n <= Capacity
  /\ cells' = FoldLeft(LAMBDA buf, i: Put(buf, Wrapped(start + i), IF n > size THEN v ELSE Raw),
                       cells, IF n > size THEN Interval(size, n) ELSE Interval(n, size))
  /\ size' = n
  /\ content' = [k \in 1 .. n |-> IF k <= size THEN content[k] ELSE v]
  /\ UNCHANGED start

-----------------------------------------------------------------------------
(* insert_space(): the shorter side makes room, the front one backwards.    *)
TowardsFront(pos, count) == pos <= (size + count) \div 2

StartWithSpace(pos, count) ==
  IF ~TowardsFront(pos, count) THEN start
  ELSE IF start < count THEN start - count + Capacity ELSE start - count

CellsWithSpace(pos, count) ==
  LET first == StartWithSpace(pos, count)
  IN IF TowardsFront(pos, count)
     THEN FoldLeft(LAMBDA buf, i: Relocate(buf, Wrapped(first + i + count), Wrapped(first + i)),
                   cells, Interval(0, pos))
     ELSE FoldLeft(LAMBDA buf, i: Relocate(buf, Wrapped(start + i), Wrapped(start + i + count)),
                   cells, Reverse(Interval(pos, size)))

Inserted(pos, values) ==
  SubSeq(content, 1, pos) \o values \o SubSeq(content, pos + 1, size)

(* insert( pos, first, last ), and insert( pos, value ) for one. *)
Insert(pos, values) ==
  /\ pos <= size /\ size + Len(values) <= Capacity
  /\ start' = StartWithSpace(pos, Len(values))
  /\ cells' = FoldLeft(LAMBDA buf, k: Put(buf, Wrapped(start' + pos + k - 1), values[k]),
                       CellsWithSpace(pos, Len(values)), Interval(1, Len(values) + 1))
  /\ size' = size + Len(values)
  /\ content' = Inserted(pos, values)

(* insert( pos, count, value ): from pos + _start up to pos + count. *)
InsertCopies(pos, count, v) ==
  /\ pos <= size /\ size + count <= Capacity
  /\ start' = StartWithSpace(pos, count)
  /\ BeyondTheEnd \/ start' = 0
  /\ cells' = FoldLeft(LAMBDA buf, i: Put(buf, i, v),
                       CellsWithSpace(pos, count), Interval(start' + pos, pos + count))
  /\ size' = size + count
  /\ content' = Inserted(pos, [k \in 1 .. count |-> v])

(* erase( first, last ): the shorter side closes the gap. *)
Closing(from, by) ==
  FoldLeft(LAMBDA buf, i: Put(buf, Wrapped(start + i + by), buf[Wrapped(start + i)]), cells, from)

Destroying(buf, where) ==
  FoldLeft(LAMBDA b, i: Put(b, Wrapped(start + i), Raw), buf, where)

EraseFront(first, last) ==
  /\ first < last /\ last <= size /\ first < size - last
  /\ BeyondTheEnd \/ start + last - first < Capacity
  /\ cells' = Destroying(Closing(Reverse(Interval(0, first)), last - first), Interval(0, last - first))
  /\ start' = start + last - first
  /\ size' = size - (last - first)
  /\ content' = SubSeq(content, 1, first) \o SubSeq(content, last + 1, size)

EraseBack(first, last) ==
  /\ first < last /\ last <= size /\ first >= size - last
  /\ cells' = Destroying(Closing(Interval(last, size), first - last), Interval(size - (last - first), size))
  /\ size' = size - (last - first)
  /\ content' = SubSeq(content, 1, first) \o SubSeq(content, last + 1, size)
  /\ UNCHANGED start

(* operator = into a buffer that is large enough, and the copy constructor, *)
(* which makes one just large enough: the elements begin at its start.        *)
Copy(capacity) ==
  /\ cells' = [i \in 0 .. (capacity - 1) |-> IF i < size THEN cells[Wrapped(start + i)] ELSE Raw]
  /\ start' = 0
  /\ UNCHANGED <<size, content>>

Next ==
  \/ \E v \in Values: PushBack(v) \/ PushFront(v)
  \/ PopBack \/ PopFront \/ Copy(Capacity) \/ Copy(Rounded(size))
  \/ \E n \in Capacities: Reserve(n)
  \/ \E n \in 0 .. MaxCapacity, v \in Values: Resize(n, v)
  \/ \E pos \in 0 .. MaxCapacity, v, w \in Values: Insert(pos, <<v>>) \/ Insert(pos, <<v, w>>)
  \/ \E pos \in 0 .. MaxCapacity, count \in 1 .. 2, v \in Values: InsertCopies(pos, count, v)
  \/ \E first, last \in 0 .. MaxCapacity: EraseFront(first, last) \/ EraseBack(first, last)

Spec == Init /\ [][Next]_ringVars

-----------------------------------------------------------------------------
TypeOK ==
  /\ cells \in [0 .. (Capacity - 1) -> Values \cup {Raw}]
  /\ start \in 0 .. MaxCapacity /\ size \in 0 .. Capacity
  /\ content \in Seq(Values)

(* The buffer holds the sequence that the calls amount to, in order, and no *)
(* other element, wherever the sequence begins and whichever side moved.    *)
RingIsASequence ==
  /\ size = Len(content)
  /\ \A k \in 1 .. size: cells[Wrapped(start + k - 1)] = content[k]
  /\ Cardinality({c \in DOMAIN cells: cells[c] # Raw}) = size
=============================================================================
