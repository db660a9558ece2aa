------------------------------- MODULE HDeque -------------------------------
(***************************************************************************)
(* HDeque of src/hcore/hdeque.hxx, which carries HQueue and HStack: a      *)
(* sequence over a table of chunks, each of which exists only while it     *)
(* holds an element.  The table is moved and enlarged, the elements stay   *)
(* in their chunks.                                                        *)
(***************************************************************************)
EXTENDS Integers, Sequences, SequencesExt

CONSTANTS
  Values,
  ValuesPerChunk,   \* VALUES_PER_CHUNK
  MinChunks,        \* MIN_CHUNKS_COUNT
  MaxSize,
  ResizedToNothing  \* may resize( 0 ) be called?

VARIABLES
  chunks,           \* _chunks: a chunk, or Null, at each index of the table
  start, size,      \* _start, _size
  allocated,        \* history: chunks that exist
  content           \* history: the sequence that the calls amount to

dequeVars == <<chunks, start, size, allocated, content>>

Raw  == "raw"
Null == [o \in {} |-> Raw]
NewChunk == [o \in 0 .. (ValuesPerChunk - 1) |-> Raw]

Init ==
  /\ chunks = [i \in {} |-> Null]
  /\ start = 0 /\ size = 0
  /\ allocated = 0
  /\ content = <<>>

Larger(a, b) == IF a > b THEN a ELSE b
Available(table) == Cardinality(DOMAIN table)
ChunkOf(i) == i \div ValuesPerChunk
Cover(n) == (n + ValuesPerChunk - 1) \div ValuesPerChunk     \* minimal_cover_chunks_count()
UsedChunks == IF size > 0 THEN ChunkOf(start + size - 1) + 1 - ChunkOf(start) ELSE 0
Interval(a, b) == [k \in 1 .. (b - a) |-> a + k - 1]         \* a .. b - 1 in order
Existing(table) == {i \in DOMAIN table: table[i] # Null}

(* HChunk::realloc(): the next power of two. *)
Grown(table, n) ==
  LET power[k \in 0 .. n] == IF k = 0 THEN 1
                             ELSE LET prev == power[k - 1] IN IF prev < n THEN 2 * prev ELSE prev
  IN [i \in 0 .. (power[n] - 1) |-> IF i \in DOMAIN table THEN table[i] ELSE Null]

(* The chunks from index `from` on are moved to `to`. *)
MovedKeepingOld(table, from, count, to) ==
  [i \in DOMAIN table |-> IF i \in to .. (to + count - 1) THEN table[i - to + from] ELSE table[i]]

Moved(table, from, count, to) ==
  [i \in DOMAIN table |->
     IF i \in to .. (to + count - 1) THEN table[i - to + from]
     ELSE IF i \in from .. (from + count - 1) THEN Null ELSE table[i]]

(* Construct, destroy or relocate an element: nothing where no chunk is. *)
Put(table, i, value) ==
  IF ChunkOf(i) \in Existing(table)
  THEN [table EXCEPT ![ChunkOf(i)] = [@ EXCEPT ![i % ValuesPerChunk] = value]] ELSE table
At(table, i) == IF ChunkOf(i) \in Existing(table) THEN table[ChunkOf(i)][i % ValuesPerChunk] ELSE Raw
Relocate(table, src, dst) == Put(Put(table, dst, At(table, src)), src, Raw)
Fill(table, first, values) ==
  FoldLeft(LAMBDA t, k: Put(t, first + k - 1, values[k]), table, Interval(1, Len(values) + 1))
Destroyed(table, first, last) ==
  FoldLeft(LAMBDA t, i: Put(t, i, Raw), table, Interval(first, last))

Without(table, gone) == [i \in DOMAIN table |-> IF i \in gone THEN Null ELSE table[i]]
With(table, new)     == [i \in DOMAIN table |-> IF i \in new THEN NewChunk ELSE table[i]]
Account(new, gone)   ==
  allocated' = allocated + Cardinality(new) - Cardinality(gone \cap Existing(chunks))

-----------------------------------------------------------------------------
(* accommodate_chunks( n ) and accommodate_chunks( -n ): the table, the new *)
(* _start and the indices where chunks are to be allocated.                 *)
AtBack(n) ==
  LET first == ChunkOf(start)
      last  == ChunkOf(start + size + n - 1)
      used  == last + 1 - first
      fits  == last < Available(chunks)
      table == IF ~fits /\ used > Available(chunks) THEN Grown(chunks, Larger(used, MinChunks)) ELSE chunks
      newFirst == IF fits THEN first ELSE (Available(table) - used) \div 2
      newStart == IF size > 0 THEN start - (first - newFirst) * ValuesPerChunk
                  ELSE newFirst * ValuesPerChunk
      moved == IF size > 0 /\ newFirst # first THEN Moved(table, first, UsedChunks, newFirst) ELSE table
      end   == ChunkOf(newStart + size + n - 1)
  IN [table |-> moved, start |-> newStart,
      new |-> {i \in (newFirst + UsedChunks) .. end: \A j \in i .. end: moved[j] = Null}]

AtFront(n) ==
  LET first == ChunkOf(start)
      fits  == start >= n
      extension == IF fits THEN 0 ELSE Cover(n - start) + first
      used  == UsedChunks + extension
      table == IF ~fits /\ used > Available(chunks) THEN Grown(chunks, Larger(used, MinChunks)) ELSE chunks
      newFirst == IF fits THEN first ELSE ((Available(table) - used) \div 2) + extension
      newStart == IF size > 0 THEN start - (first - newFirst) * ValuesPerChunk
                  ELSE newFirst * ValuesPerChunk
      moved == IF size > 0 /\ newFirst # first THEN Moved(table, first, UsedChunks, newFirst) ELSE table
      begin == ChunkOf(newStart - n)
  IN [table |-> moved, start |-> newStart,
      new |-> {i \in begin .. (newFirst - 1): \A j \in begin .. i: moved[j] = Null}]

-----------------------------------------------------------------------------
(* push_back(): space_back() *)
PushBack(v) ==
  /\ size < MaxSize
  /\ LET idx   == start + size
         fresh == idx % ValuesPerChunk = 0
         fits  == ChunkOf(idx) < Available(chunks)
         used  == UsedChunks + 1
         table == IF fresh /\ ~fits /\ used > Available(chunks)
                  THEN Grown(chunks, Larger(used, MinChunks)) ELSE chunks
         first == (Available(table) - used) \div 2
         moved == IF fresh /\ ~fits /\ size > 0 THEN Moved(table, ChunkOf(start), UsedChunks, first) ELSE table
     IN /\ start' = IF ~fresh \/ fits THEN start
                    ELSE IF size > 0 THEN start - (ChunkOf(start) - first) * ValuesPerChunk
                    ELSE first * ValuesPerChunk
        /\ LET new == IF fresh THEN {ChunkOf(start' + size)} ELSE {}
           IN chunks' = Put(With(moved, new), start' + size, v) /\ Account(new, {})
  /\ size' = size + 1
  /\ content' = Append(content, v)

(* push_front(): space_front() *)
PushFront(v) ==
  /\ size < MaxSize
  /\ LET fresh == start % ValuesPerChunk = 0
         used  == UsedChunks + 1
         table == IF start = 0 /\ used > Available(chunks)
                  THEN Grown(chunks, Larger(used, MinChunks)) ELSE chunks
         first == ((Available(table) - used) \div 2) + 1
         moved == IF start = 0 /\ size > 0 THEN Moved(table, 0, UsedChunks, first) ELSE table
     IN /\ start' = (IF start = 0 THEN first * ValuesPerChunk ELSE start) - 1
        /\ LET new == IF fresh THEN {ChunkOf(start')} ELSE {}
           IN chunks' = Put(With(moved, new), start', v) /\ Account(new, {})
  /\ size' = size + 1
  /\ content' = <<v>> \o content

PopBack ==
  /\ size > 0
  /\ LET idx  == start + size - 1
         gone == IF idx % ValuesPerChunk = 0 \/ size = 1 THEN {ChunkOf(idx)} ELSE {}
     IN chunks' = Without(Put(chunks, idx, Raw), gone) /\ Account({}, gone)
  /\ size' = size - 1
  /\ start' = IF size = 1 THEN 0 ELSE start
  /\ content' = Front(content)

PopFront ==
  /\ size > 0
  /\ LET gone == IF (start + 1) % ValuesPerChunk = 0 \/ size = 1 THEN {ChunkOf(start)} ELSE {}
     IN chunks' = Without(Put(chunks, start, Raw), gone) /\ Account({}, gone)
  /\ size' = size - 1
  /\ start' = IF size = 1 THEN 0 ELSE start + 1
  /\ content' = Tail(content)

(* resize() to more and to fewer elements *)
ResizeUp(n, v) ==
  /\ size < n /\ n <= MaxSize
  /\ LET room == AtBack(n - size)
     IN /\ start' = room.start
        /\ chunks' = Fill(With(room.table, room.new), start' + size, [k \in 1 .. (n - size) |-> v])
        /\ Account(room.new, {})
  /\ size' = n
  /\ content' = [k \in 1 .. n |-> IF k <= size THEN content[k] ELSE v]

ResizeDown(n) ==
  /\ n < size
  /\ n = 0 => ResizedToNothing
  /\ LET gone == (IF n = 0 THEN ChunkOf(start) ELSE ChunkOf(start + n - 1) + 1) .. ChunkOf(start + size - 1)
     IN /\ chunks' = Without(Destroyed(chunks, start + n, start + size), gone)
        /\ Account({}, gone)
  /\ size' = n
  /\ content' = SubSeq(content, 1, n)
  /\ UNCHANGED start

(* insert(): insert_space() moves the smaller part. *)
Insert(pos, values) ==
  /\ pos <= size /\ size + Len(values) <= MaxSize
  /\ LET n == Len(values)
         front == pos <= size \div 2
         room  == IF front THEN AtFront(n) ELSE AtBack(n)
         table == With(room.table, room.new)
     IN /\ start' = IF front THEN room.start - n ELSE room.start
        /\ chunks' = Fill(IF front
                          THEN FoldLeft(LAMBDA t, i: Relocate(t, start' + n + i, start' + i),
                                        table, Interval(0, pos))
                          ELSE FoldLeft(LAMBDA t, i: Relocate(t, start' + i, start' + n + i),
                                        table, Reverse(Interval(pos, size))),
                          start' + pos, values)
        /\ Account(room.new, {})
  /\ size' = size + Len(values)
  /\ content' = SubSeq(content, 1, pos) \o values \o SubSeq(content, pos + 1, size)

(* erase( first, last ) by moving the front, and by moving the back *)
EraseFront(first, last) ==
  /\ first < last /\ last <= size /\ first < size - last
  /\ LET n     == last - first
         moved == FoldLeft(LAMBDA t, i: Put(t, start + n + i, At(t, start + i)),
                           chunks, Reverse(Interval(0, first)))
         gone  == ChunkOf(start) .. (ChunkOf(start + n) - 1)
     IN /\ chunks' = Without(Destroyed(moved, start, start + n), gone)
        /\ Account({}, gone)
        /\ start' = start + n
        /\ size' = size - n
  /\ content' = SubSeq(content, 1, first) \o SubSeq(content, last + 1, size)

EraseBack(first, last) ==
  /\ first < last /\ last <= size /\ first >= size - last
  /\ LET n     == last - first
         moved == FoldLeft(LAMBDA t, i: Put(t, start + i - n, At(t, start + i)),
                           chunks, Interval(last, size))
         gone  == (IF n = size THEN ChunkOf(start) ELSE ChunkOf(start + size - n - 1) + 1)
                    .. ChunkOf(start + size - 1)
     IN /\ chunks' = Without(Destroyed(moved, start + size - n, start + size), gone)
        /\ Account({}, gone)
        /\ start' = IF n = size THEN 0 ELSE start
        /\ size' = size - n
  /\ content' = SubSeq(content, 1, first) \o SubSeq(content, last + 1, size)

Clear ==
  /\ LET gone == {i \in DOMAIN chunks: i >= ChunkOf(start) /\ \A j \in ChunkOf(start) .. i: chunks[j] # Null}
     IN chunks' = Without(chunks, gone) /\ Account({}, gone)
  /\ start' = 0 /\ size' = 0
  /\ content' = <<>>

Next ==
  \/ \E v \in Values: PushBack(v) \/ PushFront(v)
  \/ PopBack \/ PopFront \/ Clear
  \/ \E n \in 0 .. MaxSize, v \in Values: ResizeUp(n, v)
  \/ \E n \in 0 .. MaxSize: ResizeDown(n)
  \/ \E pos \in 0 .. MaxSize, v, w \in Values: Insert(pos, <<v>>) \/ Insert(pos, <<v, w, v>>)
  \/ \E first, last \in 0 .. MaxSize: EraseFront(first, last) \/ EraseBack(first, last)

Spec == Init /\ [][Next]_dequeVars

-----------------------------------------------------------------------------
TypeOK ==
  /\ \A i \in Existing(chunks): chunks[i] \in [0 .. (ValuesPerChunk - 1) -> Values \cup {Raw}]
  /\ start \in Nat /\ size \in 0 .. MaxSize /\ allocated \in Nat
  /\ content \in Seq(Values)

(* The chunks hold the sequence that the calls amount to, in order, however *)
(* the table was moved below them.                                          *)
DequeIsASequence ==
  /\ size = Len(content)
  /\ \A k \in 1 .. size: At(chunks, start + k - 1) = content[k]

(* A chunk exists if it holds an element, and none is left behind. *)
ChunksAreUsed ==
  /\ Existing(chunks) = {ChunkOf(start + k): k \in 0 .. (size - 1)}
  /\ allocated = Cardinality(Existing(chunks))
=============================================================================
