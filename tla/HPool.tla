------------------------------- MODULE HPool --------------------------------
(***************************************************************************)
(* HPool of src/hcore/hpool.hxx: memory for objects of one size, in blocks *)
(* of Cells cells.  The free cells of a block are a list whose links are   *)
(* kept in the cells, one byte each: modulo Cells.  _poolBlocks holds the  *)
(* full blocks first; _free is the place of the first that is not full.    *)
(* Places and cells count from 0.                                          *)
(***************************************************************************)
EXTENDS Integers, FiniteSets

CONSTANTS
  Blocks,       \* bound: the blocks that may exist at a time
  Cells         \* OBJECTS_PER_BLOCK, at least 2 (256 in the code)

VARIABLES
  poolBlocks,   \* _poolBlocks and _poolBlockCount: the block at each place
  firstFree,    \* HPool::_free
  head,         \* HPoolBlock::_free, the first free cell
  used,         \* HPoolBlock::_used
  place,        \* HPoolBlock::_index
  link,         \* the first byte of each cell
  taken         \* cells that the user has, with their blocks

poolVars == <<poolBlocks, firstFree, head, used, place, link, taken>>

Cell == 0 .. Cells - 1
Garbage == -1           \* what the user writes over a link
None == -1

Count == Cardinality(DOMAIN poolBlocks)
Existing == {poolBlocks[i]: i \in DOMAIN poolBlocks}
FreshLinks == [c \in Cell |-> (c + 1) % Cells]

Init ==
  /\ poolBlocks = [i \in {} |-> 0]
  /\ firstFree = None
  /\ head = [b \in Blocks |-> 0]
  /\ used = [b \in Blocks |-> 0]
  /\ place = [b \in Blocks |-> None]
  /\ link = [b \in Blocks |-> FreshLinks]
  /\ taken = {}

(* HPoolBlock::alloc() on the block b at place i, and what follows it. *)
TakeFrom(b, i, count) ==
  /\ head' = [head EXCEPT ![b] = link[b][head[b]]]
  /\ used' = [used EXCEPT ![b] = @ + 1]
  /\ link' = [link EXCEPT ![b][head[b]] = Garbage]
  /\ taken' = taken \cup {<<b, head[b]>>}
  /\ firstFree' = IF used[b] + 1 < Cells THEN i ELSE IF i < count - 1 THEN i + 1 ELSE None

Alloc ==
  /\ firstFree # None
  /\ TakeFrom(poolBlocks[firstFree], firstFree, Count)
  /\ UNCHANGED <<poolBlocks, place>>

(* alloc() after get_free_block(). *)
AllocInNewBlock ==
  /\ firstFree = None
  /\ \E b \in Blocks \ Existing:
       /\ poolBlocks' = [i \in 0 .. Count |-> IF i = Count THEN b ELSE poolBlocks[i]]
       /\ place' = [place EXCEPT ![b] = Count]
       /\ TakeFrom(b, Count, Count + 1)

-----------------------------------------------------------------------------
(* HPoolBlock::free() *)
GiveBack(b, c) ==
  /\ link' = [link EXCEPT ![b][c] = head[b]]
  /\ head' = [head EXCEPT ![b] = c]
  /\ used' = [used EXCEPT ![b] = @ - 1]

(* The last cell of a block: the block goes, unless it is the only one with *)
(* space; the last block takes its place.                                   *)
FreeLast(b, c) ==
  /\ <<b, c>> \in taken /\ used[b] = 1
  /\ IF Count - firstFree > 1
     THEN LET last == poolBlocks[Count - 1]
          IN /\ poolBlocks' = [i \in 0 .. Count - 2 |-> IF i = place[b] THEN last ELSE poolBlocks[i]]
             /\ place' = [[place EXCEPT ![last] = place[b]] EXCEPT ![b] = None]
             /\ firstFree' = IF firstFree = Count - 1 THEN firstFree - 1 ELSE firstFree
             /\ head' = [head EXCEPT ![b] = 0]
             /\ used' = [used EXCEPT ![b] = 0]
             /\ link' = [link EXCEPT ![b] = FreshLinks]
     ELSE GiveBack(b, c) /\ UNCHANGED <<poolBlocks, place, firstFree>>
  /\ taken' = taken \ {<<b, c>>}

(* The block was full: it trades places with the last one that is. *)
FreeInFull(b, c) ==
  /\ <<b, c>> \in taken /\ used[b] = Cells
  /\ GiveBack(b, c)
  /\ LET border == IF firstFree > 0 THEN firstFree - 1 ELSE Count - 1
         other == poolBlocks[border]
     IN /\ firstFree' = border
        /\ poolBlocks' = [poolBlocks EXCEPT ![place[b]] = other, ![border] = b]
        /\ place' = [place EXCEPT ![other] = place[b], ![b] = border]
  /\ taken' = taken \ {<<b, c>>}

FreeAny(b, c) ==
  /\ <<b, c>> \in taken /\ used[b] \in 2 .. Cells - 1
  /\ GiveBack(b, c)
  /\ taken' = taken \ {<<b, c>>}
  /\ UNCHANGED <<poolBlocks, place, firstFree>>

Next ==
  \/ Alloc \/ AllocInNewBlock
  \/ \E b \in Blocks, c \in Cell: FreeLast(b, c) \/ FreeInFull(b, c) \/ FreeAny(b, c)

Spec == Init /\ [][Next]_poolVars

-----------------------------------------------------------------------------
TypeOK ==
  /\ DOMAIN poolBlocks = 0 .. Count - 1 /\ Existing \subseteq Blocks
  /\ firstFree \in -1 .. Count - 1
  /\ head \in [Blocks -> Cell] /\ used \in [Blocks -> 0 .. Cells]
  /\ link \in [Blocks -> [Cell -> Cell \cup {Garbage}]]
  /\ taken \subseteq Blocks \X Cell

(* The cells that the links of a block lead to.                             *)
Walk(b) ==
  LET cell[i \in 0 .. Cells] == IF i = 0 THEN head[b] ELSE link[b][cell[i - 1]]
  IN cell

(* Its list: as many of them as it has free.                                *)
FreeList(b) == [i \in 0 .. Cells - used[b] - 1 |-> Walk(b)[i]]

(* What is free in a block is what the user does not have, each cell once:  *)
(* alloc() gives out no cell twice, and follows no link a user wrote.       *)
FreeCellsAreListed ==
  \A b \in Existing:
    LET list == FreeList(b)
    IN {list[i]: i \in DOMAIN list} = {c \in Cell: <<b, c>> \notin taken}

(* The full blocks come first, and each block knows its place: alloc() need *)
(* not look for space, nor free() for the block.                            *)
FullBlocksComeFirst ==
  /\ \A i \in DOMAIN poolBlocks:
       /\ place[poolBlocks[i]] = i
       /\ used[poolBlocks[i]] = Cells <=> (firstFree = None \/ i < firstFree)
  /\ {t[1]: t \in taken} \subseteq Existing

(* ~HPool(): a pool that is not used any more has one block at most, empty  *)
(* and first.                                                               *)
UnusedPoolIsSmall == taken = {} => Count <= 1 /\ firstFree = Count - 1
=============================================================================
