------------------------------- MODULE HMemory -------------------------------
(***************************************************************************)
(* HMemory of src/tools/hmemory.cxx: a stream over a block of memory.  One *)
(* that observes foreign memory uses it as a ring, one that provides its   *)
(* own lets it grow.  pending and ahead are what the stream amounts to:    *)
(* the bytes to read, and how many of them are before the place to write,  *)
(* less than none when that was passed by reading.                         *)
(***************************************************************************)
EXTENDS Integers, Sequences, SequencesExt, FiniteSetsExt

CONSTANTS
  Bytes,          \* values of a byte
  RingSize,       \* size of the memory that is observed
  MaxProvided,    \* bound: size of the memory that is provided
  Overwrites      \* whether a write may end before the valid bytes of provided memory

VARIABLES
  observer,       \* whether the memory is observed
  memory,         \* the bytes of the block
  memorySize,     \* get_size()
  validBytes,     \* _valid
  cursorRead,     \* _cursorRead
  cursorWrite,    \* _cursorWrite
  pending,
  ahead

memoryVars == <<observer, memory, memorySize, validBytes, cursorRead, cursorWrite,
  pending, ahead>>

UNINITIALIZED == -1
Known == validBytes # UNINITIALIZED
Valid == IF Known THEN validBytes ELSE 0

(* INITIAL_STATE::AUTO: the first access tells what is valid. *)
Init ==
  /\ observer \in BOOLEAN
  /\ memory = IF observer THEN [i \in 1 .. RingSize |-> Min(Bytes)] ELSE <<>>
  /\ memorySize = Len(memory)
  /\ validBytes = UNINITIALIZED
  /\ cursorRead = 0 /\ cursorWrite = 0
  /\ pending = <<>> /\ ahead = 0

(* Mutated form: the ring is taken for flat. *)
CommittedFlat(n) == Max({Valid, cursorWrite + n - cursorRead})

(* do_commit() of an observer: how many bytes will be valid. *)
Committed(n) ==
  LET wrapped == cursorRead > (cursorRead + Valid) % memorySize
      flat    == IF wrapped /\ cursorWrite < cursorRead THEN cursorWrite + memorySize
                                                        ELSE cursorWrite
  IN Max({Valid, flat + n - cursorRead})

Wrapped(cursor, n) == IF cursor + n > memorySize THEN cursor + n - memorySize ELSE cursor + n

(* The first part goes to the end of the ring, the rest to its beginning. *)
WriteObserved(t) ==
  /\ observer
  /\ Len(t) <= memorySize - Valid
  /\ validBytes' = Committed(Len(t))
  /\ memory' = [i \in DOMAIN memory |->
                  LET d == IF i > cursorWrite THEN i - cursorWrite
                                              ELSE i - cursorWrite + memorySize
                  IN IF d <= Len(t) THEN t[d] ELSE memory[i]]
  /\ cursorWrite' = Wrapped(cursorWrite, Len(t))
  /\ UNCHANGED memorySize

(* Memory that is provided ends where the last write did. *)
WriteProvided(t) ==
  LET end == cursorWrite + Len(t)
  IN /\ ~ observer
     /\ end <= MaxProvided
     /\ Overwrites \/ end >= cursorRead + Valid
     /\ validBytes' = Max({Valid, end - cursorRead})
     /\ memory' = SubSeq(memory, 1, cursorWrite) \o t \o SubSeq(memory, end + 1, Len(memory))
     /\ memorySize' = end
     /\ cursorWrite' = end

(* The asserts of do_commit() want the place to write not before the other. *)
Write(t) ==
  /\ ahead >= 0
  /\ WriteObserved(t) \/ WriteProvided(t)
  /\ pending' = SubSeq(pending, 1, ahead) \o t \o
                SubSeq(pending, ahead + Len(t) + 1, Len(pending))
  /\ ahead' = ahead + Len(t)
  /\ UNCHANGED <<observer, cursorRead>>

(* do_read() of n bytes.  Of memory that was not accessed yet all is       *)
(* valid; after the end the stream is bad, and is not read any more.       *)
BytesAt(cursor, n) == [i \in 1 .. n |-> memory[1 + ((cursor + i - 1) % memorySize)]]

Untouched == cursorRead = 0 /\ cursorWrite = 0
Readable  == IF Known THEN validBytes ELSE memorySize

Read(n) ==
  /\ Known \/ Untouched
  /\ LET size   == Min({n, Readable})
         unread == IF Known THEN pending ELSE SubSeq(memory, 1, memorySize)
     IN /\ cursorRead' = Wrapped(cursorRead, size)
        /\ validBytes' = IF size = 0 THEN UNINITIALIZED ELSE Readable - size
        /\ pending' = SubSeq(unread, size + 1, Len(unread))
        /\ ahead' = ahead - size
  /\ UNCHANGED <<observer, memory, memorySize, cursorWrite>>

(* seek() from the beginning of memory that is provided. *)
Seek(position) ==
  /\ Known /\ ~ observer /\ memorySize > 0
  /\ position <= cursorRead + validBytes
  /\ validBytes' = cursorRead + validBytes - position
  /\ cursorRead' = position % memorySize /\ cursorWrite' = position % memorySize
  /\ pending' = SubSeq(memory, position + 1, cursorRead + validBytes)
  /\ ahead' = 0
  /\ UNCHANGED <<observer, memory, memorySize>>

Next ==
  \/ \E b, c, d \in Bytes: Write(<<b>>) \/ Write(<<b, c>>) \/ Write(<<b, c, d>>)
  \/ \E n \in 1 .. 3: Read(n)
  \/ \E position \in 0 .. MaxProvided: Seek(position)

Spec == Init /\ [][Next]_memoryVars

-----------------------------------------------------------------------------
TypeOK ==
  /\ observer \in BOOLEAN
  /\ memory \in Seq(Bytes) /\ memorySize \in 0 .. Len(memory)
  /\ validBytes \in -1 .. Max({RingSize, MaxProvided})
  /\ cursorRead \in 0 .. memorySize /\ cursorWrite \in 0 .. memorySize
  /\ ahead <= Len(pending)

(* The next read gives the bytes in the order in which they were written,  *)
(* on both sides of the end of a ring, and what a later write replaced.    *)
UnreadIsKept == Valid = Len(pending) /\ BytesAt(cursorRead, Valid) = pending
=============================================================================
