---------------------------- MODULE HPoolProofs -----------------------------
(***************************************************************************)
(* Proofs about HPool for every set of blocks and every number of cells in *)
(* a block from two on: alloc() gives out no cell twice and follows no     *)
(* link that the user wrote, and the blocks stay in order, whatever is     *)
(* allocated and freed.                                                    *)
(***************************************************************************)
EXTENDS HPool, WellFoundedInduction, FiniteSetTheorems, TLAPS

(* OBJECTS_PER_BLOCK. *)
CellsAreSeveral == Cells \in Nat /\ Cells >= 2

(* What the user does not have of a block. *)
Free(b) == {c \in Cell: <<b, c>> \notin taken}

PoolTypes ==
  /\ head \in [Blocks -> Cell] /\ used \in [Blocks -> 0 .. Cells]
  /\ link \in [Blocks -> [Cell -> Cell \cup {Garbage}]]
  /\ taken \subseteq Blocks \X Cell

(* Blocks have places, each its own. *)
PlacesInv ==
  /\ Count \in Nat /\ DOMAIN poolBlocks = 0 .. Count - 1
  /\ \A i \in DOMAIN poolBlocks: poolBlocks[i] \in Blocks /\ place[poolBlocks[i]] = i
  /\ place \in [Blocks -> Int]
  /\ firstFree \in -1 .. Count - 1

OrderInv ==
  \A i \in DOMAIN poolBlocks:
    used[poolBlocks[i]] = Cells <=> (firstFree = None \/ i < firstFree)

(* free() keeps at most one empty block. *)
EmptyInv == \A a, b \in Existing: used[a] = 0 /\ used[b] = 0 => a = b

(* A block that is not there is as a new one is. *)
FreshInv ==
  \A b \in Blocks \ Existing:
    head[b] = 0 /\ used[b] = 0 /\ link[b] = FreshLinks /\ Free(b) = Cell

(* l is the list of n cells that begins with first and goes on with next:   *)
(* it has every cell of all, and each once.                                 *)
IsList(l, n, first, next, all) ==
  /\ l \in [0 .. n - 1 -> all]
  /\ n > 0 => l[0] = first
  /\ \A i \in 0 .. n - 2: next[l[i]] = l[i + 1]
  /\ \A i, j \in 0 .. n - 1: l[i] = l[j] => i = j
  /\ \A c \in all: \E i \in 0 .. n - 1: l[i] = c

(* The free cells f of a block of which u are used. *)
BlockInv(f, u, first, next) ==
  /\ \E l: IsList(l, Cells - u, first, next, f)
  /\ Cardinality(f) = Cells - u
  /\ \A c \in f: next[c] \in Cell

CellsInv == \A b \in Blocks: BlockInv(Free(b), used[b], head[b], link[b])

Inv == PoolTypes /\ PlacesInv /\ OrderInv /\ EmptyInv /\ FreshInv /\ CellsInv

-----------------------------------------------------------------------------
(* What is counted up to some number has all numbers up to it, and what is  *)
(* defined by its first value and the next of each is there: both by the    *)
(* least number of which they would not hold.                               *)

(* A set of numbers that is not empty has a least one.                       *)
LEMMA LeastNumber ==
  ASSUME NEW T \in SUBSET Nat, T # {}
  PROVE  \E m \in T: \A k \in T: m <= k
<1>1. \E m \in T: \A k \in T: <<k, m>> \notin OpToRel(<, Nat)
  BY NatLessThanWellFounded, WFMin, Zenon
<1>2. PICK m \in T: \A k \in T: <<k, m>> \notin OpToRel(<, Nat)
  BY <1>1
<1>3. \A k \in T: ~(k < m)
  BY <1>2 DEF OpToRel
<1>. QED BY <1>3

LEMMA SetInduction ==
  ASSUME NEW n \in Nat, NEW S, 0 \in S, \A i \in 0 .. n - 1: i \in S => i + 1 \in S
  PROVE  0 .. n \subseteq S
<1> DEFINE T == (0 .. n) \ S
<1>1. SUFFICES ASSUME T # {} PROVE FALSE
  OBVIOUS
<1>2. PICK m \in T: \A k \in T: m <= k
  <2>1. T \in SUBSET Nat
    OBVIOUS
  <2> HIDE DEF T
  <2>. QED BY <1>1, <2>1, LeastNumber
<1>3. m \in 1 .. n /\ m - 1 \in 0 .. n - 1 /\ m - 1 \notin T
  BY <1>2
<1>. QED BY <1>2, <1>3

IsIteration(f, n, h, next) ==
  f = [i \in 0 .. n |-> f[i]] /\ f[0] = h /\ \A i \in 1 .. n: f[i] = next[f[i - 1]]

LEMMA Iterates ==
  ASSUME NEW n \in Nat, NEW h, NEW next
  PROVE  \E f: IsIteration(f, n, h, next)
<1> DEFINE Step(f, i) == IF i = 0 THEN h ELSE next[f[i - 1]]
           Is(f, k) == f = [i \in 0 .. k |-> Step(f, i)]
           S == {k \in 0 .. n: \E f: Is(f, k)}
<1>1. 0 \in S
  <2>1. Is([i \in 0 .. 0 |-> h], 0)
    OBVIOUS
  <2>2. \E f: Is(f, 0)
    <3> HIDE DEF Is
    <3>. QED BY <2>1
  <2>. QED BY <2>2
<1>2. ASSUME NEW k \in 0 .. n - 1, k \in S PROVE k + 1 \in S
  <2>1. PICK f: Is(f, k)
    BY <1>2
  <2> DEFINE g == [i \in 0 .. k + 1 |-> IF i = k + 1 THEN next[f[k]] ELSE f[i]]
  <2>2. ASSUME NEW i \in 0 .. k + 1 PROVE g[i] = Step(g, i)
    <3>1. CASE i = k + 1
      BY <3>1
    <3>2. CASE i \in 0 .. k
      BY <2>1, <3>2
    <3>. QED BY <3>1, <3>2
  <2>3. Is(g, k + 1)
    BY <2>2
  <2>4. \E e: Is(e, k + 1)
    <3> HIDE DEF Is, g
    <3>. QED BY <2>3
  <2>. QED BY <2>4
<1>3. 0 .. n \subseteq S
  <2> HIDE DEF S
  <2>. QED BY <1>1, <1>2, SetInduction
<1>4. PICK f: Is(f, n)
  BY <1>3
<1>5. f = [i \in 0 .. n |-> f[i]] /\ f[0] = h /\ \A i \in 1 .. n: f[i] = next[f[i - 1]]
  BY <1>4
<1>. QED BY <1>5 DEF IsIteration

-----------------------------------------------------------------------------
(* A block and the links of a new one.                                       *)
LEMMA CellFacts == ASSUME CellsAreSeveral
                   PROVE  /\ IsFiniteSet(Cell) /\ Cardinality(Cell) = Cells
                          /\ \A c \in Cell: c # Garbage
                          /\ FreshLinks \in [Cell -> Cell] /\ 0 \in Cell
<1>1. IsFiniteSet(Cell) /\ Cardinality(Cell) = Cells
  BY FS_Interval DEF CellsAreSeveral, Cell
<1>2. FreshLinks \in [Cell -> Cell]
  BY DEF FreshLinks, Cell, CellsAreSeveral
<1>. QED BY <1>1, <1>2 DEF Cell, Garbage, CellsAreSeveral

(* A list without its first cell, over which the user writes.                *)
LEMMA Popped ==
  ASSUME CellsAreSeveral, NEW n \in Nat, n > 0, NEW first, NEW all \in SUBSET Cell, NEW l,
         NEW next, DOMAIN next = Cell, IsList(l, n, first, next, all)
  PROVE  \E e: IsList(e, n - 1, next[first], [next EXCEPT ![first] = Garbage], all \ {first})
<1> DEFINE e == [i \in 0 .. n - 2 |-> l[i + 1]]
           k == [next EXCEPT ![first] = Garbage]
<1>1. first = l[0] /\ first \in all
  BY DEF IsList
<1>2. \A i \in 0 .. n - 2: e[i] = l[i + 1] /\ e[i] \in all /\ e[i] # first
  BY <1>1 DEF IsList
<1>3. e \in [0 .. n - 1 - 1 -> all \ {first}]
  BY <1>2
<1>4. n - 1 > 0 => e[0] = next[first]
  BY <1>1 DEF IsList
<1>5. ASSUME NEW i \in 0 .. n - 1 - 2 PROVE k[e[i]] = e[i + 1]
  <2>1. k[e[i]] = next[e[i]]
    BY <1>2
  <2>2. next[l[i + 1]] = l[i + 1 + 1]
    BY DEF IsList
  <2>. QED BY <1>2, <2>1, <2>2
<1>6. \A i, j \in 0 .. n - 1 - 1: e[i] = e[j] => i = j
  BY DEF IsList
<1>7. ASSUME NEW c \in all \ {first} PROVE \E i \in 0 .. n - 1 - 1: e[i] = c
  <2>1. PICK i \in 0 .. n - 1: l[i] = c
    BY DEF IsList
  <2>2. i # 0
    BY <1>1, <1>7, <2>1
  <2>3. i - 1 \in 0 .. n - 1 - 1 /\ e[i - 1] = c
    BY <2>1, <2>2
  <2>. QED BY <2>3
<1>8. IsList(e, n - 1, next[first], k, all \ {first})
  <2> HIDE DEF e, k
  <2>. QED BY <1>3, <1>4, <1>5, <1>6, <1>7 DEF IsList
<1>. QED BY <1>8

(* A list with one more cell before its first.                               *)
LEMMA Pushed ==
  ASSUME CellsAreSeveral, NEW n \in Nat, NEW first, NEW all \in SUBSET Cell, NEW l,
         NEW next, DOMAIN next = Cell, NEW d \in Cell \ all, IsList(l, n, first, next, all)
  PROVE  \E e: IsList(e, n + 1, d, [next EXCEPT ![d] = first], all \cup {d})
<1> DEFINE e == [i \in 0 .. n |-> IF i = 0 THEN d ELSE l[i - 1]]
           k == [next EXCEPT ![d] = first]
<1>1. e[0] = d /\ \A i \in 1 .. n: e[i] = l[i - 1] /\ e[i] \in all /\ e[i] # d
  BY DEF IsList
<1>3. e \in [0 .. n + 1 - 1 -> all \cup {d}]
  <2>1. n + 1 - 1 = n
    OBVIOUS
  <2>2. ASSUME NEW i \in 0 .. n PROVE e[i] \in all \cup {d}
    <3>1. i = 0 \/ i \in 1 .. n
      OBVIOUS
    <3> HIDE DEF e
    <3>. QED BY <1>1, <3>1
  <2>3. e \in [0 .. n -> all \cup {d}]
    BY <2>2
  <2> HIDE DEF e
  <2>. QED BY <2>1, <2>3
<1>5. ASSUME NEW i \in 0 .. n + 1 - 2 PROVE k[e[i]] = e[i + 1]
  <2>1. CASE i = 0
    BY <1>1, <2>1 DEF IsList
  <2>2. CASE i # 0
    <3>1. k[e[i]] = next[l[i - 1]]
      BY <1>1, <2>2
    <3>2. next[l[i - 1]] = l[i - 1 + 1] /\ i - 1 + 1 = i
      BY <2>2 DEF IsList
    <3>3. e[i + 1] = l[i + 1 - 1] /\ i + 1 - 1 = i
      BY <1>1
    <3>. QED BY <3>1, <3>2, <3>3
  <2>. QED BY <2>1, <2>2
<1>6. ASSUME NEW i \in 0 .. n + 1 - 1, NEW j \in 0 .. n + 1 - 1, e[i] = e[j] PROVE i = j
  <2>1. CASE i = 0 \/ j = 0
    <3>1. i \in 0 .. n /\ j \in 0 .. n
      OBVIOUS
    <3> HIDE DEF e
    <3>. QED BY <1>1, <1>6, <2>1, <3>1
  <2>2. CASE i # 0 /\ j # 0
    <3>1. l[i - 1] = l[j - 1] /\ i - 1 \in 0 .. n - 1 /\ j - 1 \in 0 .. n - 1
      BY <1>1, <1>6, <2>2
    <3>2. i - 1 = j - 1
      BY <3>1 DEF IsList
    <3>. QED BY <3>2
  <2>. QED BY <2>1, <2>2
<1>7. ASSUME NEW c \in all \cup {d} PROVE \E i \in 0 .. n + 1 - 1: e[i] = c
  <2>1. CASE c = d
    BY <1>1, <2>1
  <2>2. CASE c \in all
    <3>1. PICK i \in 0 .. n - 1: l[i] = c
      BY <2>2 DEF IsList
    <3>2. i + 1 \in 0 .. n + 1 - 1 /\ e[i + 1] = c
      BY <1>1, <3>1
    <3>. QED BY <3>2
  <2>. QED BY <2>1, <2>2
<1>8. IsList(e, n + 1, d, k, all \cup {d})
  <2> HIDE DEF e, k
  <2>. QED BY <1>1, <1>3, <1>5, <1>6, <1>7 DEF IsList
<1>. QED BY <1>8

LEMMA FreshList == ASSUME CellsAreSeveral PROVE \E l: IsList(l, Cells, 0, FreshLinks, Cell)
<1> DEFINE l == [i \in 0 .. Cells - 1 |-> i]
<1>1. \A i \in 0 .. Cells - 2: FreshLinks[l[i]] = l[i + 1]
  <2>1. ASSUME NEW i \in 0 .. Cells - 2 PROVE FreshLinks[i] = i + 1
    <3>1. i \in Cell /\ (i + 1) % Cells = i + 1
      BY DEF Cell, CellsAreSeveral
    <3>. QED BY <3>1 DEF FreshLinks
  <2>2. \A i \in 0 .. Cells - 2: l[i] = i /\ l[i + 1] = i + 1
    BY DEF CellsAreSeveral
  <2>. QED BY <2>1, <2>2
<1>2. l \in [0 .. Cells - 1 -> Cell] /\ l[0] = 0
  BY DEF Cell, CellsAreSeveral
<1>3. \A c \in Cell: c \in 0 .. Cells - 1 /\ l[c] = c
  BY DEF Cell
<1>4. \A i, j \in 0 .. Cells - 1: l[i] = l[j] => i = j
  OBVIOUS
<1>5. IsList(l, Cells, 0, FreshLinks, Cell)
  <2> HIDE DEF l
  <2>. QED BY <1>1, <1>2, <1>3, <1>4 DEF IsList
<1>. QED BY <1>5

(* alloc() in a block                                                        *)
LEMMA Taking ==
  ASSUME CellsAreSeveral, NEW f \in SUBSET Cell, NEW u \in 0 .. Cells - 1, NEW first \in Cell,
         NEW next \in [Cell -> Cell \cup {Garbage}], BlockInv(f, u, first, next)
  PROVE  /\ first \in f /\ next[first] \in Cell
         /\ BlockInv(f \ {first}, u + 1, next[first], [next EXCEPT ![first] = Garbage])
<1>1. PICK l: IsList(l, Cells - u, first, next, f)
  BY DEF BlockInv
<1>2. Cells - u \in Nat /\ Cells - u > 0 /\ Cells - (u + 1) = Cells - u - 1
  BY DEF CellsAreSeveral
<1>3. first \in f
  BY <1>1, <1>2 DEF IsList
<1>4. \E e: IsList(e, Cells - (u + 1), next[first], [next EXCEPT ![first] = Garbage], f \ {first})
  BY <1>1, <1>2, Popped
<1>5. Cardinality(f \ {first}) = Cells - (u + 1)
  <2>1. IsFiniteSet(f)
    BY CellFacts, FS_Subset
  <2>. QED BY <1>2, <1>3, <2>1, FS_RemoveElement DEF BlockInv
<1>6. next[first] \in Cell /\ \A c \in f \ {first}: [next EXCEPT ![first] = Garbage][c] \in Cell
  BY <1>3 DEF BlockInv
<1>. QED BY <1>3, <1>4, <1>5, <1>6 DEF BlockInv

(* free() in a block                                                         *)
LEMMA Giving ==
  ASSUME CellsAreSeveral, NEW f \in SUBSET Cell, NEW u \in 0 .. Cells, NEW first \in Cell,
         NEW next \in [Cell -> Cell \cup {Garbage}], NEW d \in Cell \ f, BlockInv(f, u, first, next)
  PROVE  /\ u > 0
         /\ BlockInv(f \cup {d}, u - 1, d, [next EXCEPT ![d] = first])
         /\ u = 1 => f \cup {d} = Cell
<1>1. PICK l: IsList(l, Cells - u, first, next, f)
  BY DEF BlockInv
<1>2. Cells - u \in Nat /\ Cells - (u - 1) = Cells - u + 1
  BY DEF CellsAreSeveral
<1>3. \E e: IsList(e, Cells - (u - 1), d, [next EXCEPT ![d] = first], f \cup {d})
  BY <1>1, <1>2, Pushed
<1>4. IsFiniteSet(f) /\ f \cup {d} \in SUBSET Cell
  BY CellFacts, FS_Subset
<1>5. Cardinality(f \cup {d}) = Cells - (u - 1)
  BY <1>2, <1>4, FS_AddElement DEF BlockInv
<1>6. u > 0 /\ (u = 1 => f \cup {d} = Cell)
  <2>1. Cardinality(f \cup {d}) <= Cells
    BY <1>4, CellFacts, FS_Subset
  <2>2. Cardinality(f \cup {d}) = Cells => f \cup {d} = Cell
    BY <1>4, CellFacts, FS_Subset
  <2>. QED BY <1>5, <2>1, <2>2 DEF CellsAreSeveral
<1>7. \A c \in f \cup {d}: [next EXCEPT ![d] = first][c] \in Cell
  BY DEF BlockInv
<1>. QED BY <1>3, <1>5, <1>6, <1>7 DEF BlockInv

LEMMA CountOf ==
  ASSUME NEW n \in Nat, NEW f, DOMAIN f = 0 .. n - 1
  PROVE  Cardinality(DOMAIN f) = n
BY FS_Interval

-----------------------------------------------------------------------------
(* Init and every action establish and keep the invariant.                   *)
LEMMA InitInv == ASSUME CellsAreSeveral, Init PROVE Inv
<1>1. DOMAIN poolBlocks = 0 .. 0 - 1 /\ DOMAIN poolBlocks = {}
  BY DEF Init
<1>2. Count = 0 /\ Existing = {}
  BY <1>1, CountOf DEF Count, Existing
<1>3. \A b \in Blocks: Free(b) = Cell
  BY DEF Init, Free
<1>4. \A b \in Blocks: head[b] = 0 /\ used[b] = 0 /\ link[b] = FreshLinks
  BY DEF Init
<1>5. PoolTypes
  BY CellFacts DEF Init, PoolTypes, CellsAreSeveral
<1>6. PlacesInv
  BY <1>1, <1>2 DEF Init, PlacesInv, None
<1>7. BlockInv(Cell, 0, 0, FreshLinks)
  BY FreshList, CellFacts DEF BlockInv, CellsAreSeveral
<1>8. CellsInv
  BY <1>3, <1>4, <1>7 DEF CellsInv
<1>. QED BY <1>1, <1>2, <1>3, <1>4, <1>5, <1>6, <1>8 DEF Inv, OrderInv, EmptyInv, FreshInv

(* What an action does to the cells of the block b.                          *)
LEMMA Taken ==
  ASSUME CellsAreSeveral, Inv, NEW b \in Blocks, used[b] < Cells, NEW i, NEW n, TakeFrom(b, i, n)
  PROVE  /\ PoolTypes' /\ CellsInv'
         /\ used'[b] = used[b] + 1
         /\ \A x \in Blocks \ {b}:
              head'[x] = head[x] /\ used'[x] = used[x] /\ link'[x] = link[x] /\ Free(x)' = Free(x)
         /\ \E c \in Cell: taken' = taken \cup {<<b, c>>}
<1>1. /\ head[b] \in Cell /\ used[b] \in 0 .. Cells - 1 /\ link[b] \in [Cell -> Cell \cup {Garbage}]
      /\ Free(b) \in SUBSET Cell /\ BlockInv(Free(b), used[b], head[b], link[b])
  BY DEF Inv, PoolTypes, CellsInv, CellsAreSeveral, Free
<1>2. /\ head[b] \in Free(b) /\ link[b][head[b]] \in Cell
      /\ BlockInv(Free(b) \ {head[b]}, used[b] + 1, link[b][head[b]], [link[b] EXCEPT ![head[b]] = Garbage])
  BY <1>1, Taking
<1>3. /\ head' = [head EXCEPT ![b] = link[b][head[b]]]
      /\ used' = [used EXCEPT ![b] = used[b] + 1]
      /\ link' = [link EXCEPT ![b] = [link[b] EXCEPT ![head[b]] = Garbage]]
      /\ taken' = taken \cup {<<b, head[b]>>}
  BY DEF TakeFrom
<1>4. PoolTypes'
  BY <1>1, <1>2, <1>3 DEF Inv, PoolTypes, CellsAreSeveral
<1>5. /\ head'[b] = link[b][head[b]] /\ used'[b] = used[b] + 1
      /\ link'[b] = [link[b] EXCEPT ![head[b]] = Garbage]
      /\ \A x \in Blocks \ {b}: head'[x] = head[x] /\ used'[x] = used[x] /\ link'[x] = link[x]
  BY <1>3 DEF Inv, PoolTypes
<1>6. Free(b)' = Free(b) \ {head[b]} /\ \A x \in Blocks \ {b}: Free(x)' = Free(x)
  BY <1>3 DEF Free
<1>7. CellsInv'
  BY <1>2, <1>5, <1>6 DEF Inv, CellsInv
<1>. QED BY <1>1, <1>3, <1>4, <1>5, <1>6, <1>7

LEMMA Given ==
  ASSUME CellsAreSeveral, Inv, NEW b \in Blocks, NEW c \in Cell, <<b, c>> \in taken, GiveBack(b, c),
         taken' = taken \ {<<b, c>>}
  PROVE  /\ PoolTypes' /\ CellsInv'
         /\ used'[b] = used[b] - 1
         /\ \A x \in Blocks \ {b}:
              head'[x] = head[x] /\ used'[x] = used[x] /\ link'[x] = link[x] /\ Free(x)' = Free(x)
<1>1. /\ head[b] \in Cell /\ used[b] \in 0 .. Cells /\ link[b] \in [Cell -> Cell \cup {Garbage}]
      /\ Free(b) \in SUBSET Cell /\ BlockInv(Free(b), used[b], head[b], link[b]) /\ c \in Cell \ Free(b)
  BY DEF Inv, PoolTypes, CellsInv, CellsAreSeveral, Free
<1>2. used[b] > 0 /\ BlockInv(Free(b) \cup {c}, used[b] - 1, c, [link[b] EXCEPT ![c] = head[b]])
  BY <1>1, Giving
<1>8. [link[b] EXCEPT ![c] = head[b]] \in [Cell -> Cell \cup {Garbage}] /\ used[b] - 1 \in 0 .. Cells
  BY <1>1, <1>2 DEF CellsAreSeveral
<1>3. /\ head' = [head EXCEPT ![b] = c]
      /\ used' = [used EXCEPT ![b] = used[b] - 1]
      /\ link' = [link EXCEPT ![b] = [link[b] EXCEPT ![c] = head[b]]]
  BY DEF GiveBack
<1>4. PoolTypes'
  BY <1>3, <1>8 DEF Inv, PoolTypes
<1>5. /\ head'[b] = c /\ used'[b] = used[b] - 1
      /\ link'[b] = [link[b] EXCEPT ![c] = head[b]]
      /\ \A x \in Blocks \ {b}: head'[x] = head[x] /\ used'[x] = used[x] /\ link'[x] = link[x]
  BY <1>3 DEF Inv, PoolTypes
<1>6. Free(b)' = Free(b) \cup {c} /\ \A x \in Blocks \ {b}: Free(x)' = Free(x)
  <2>1. \A x, d: <<x, d>> \notin taken' <=> <<x, d>> \notin taken \/ (x = b /\ d = c)
    OBVIOUS
  <2>. QED BY <2>1, Zenon DEF Free
<1>7. CellsInv'
  <2>1. BlockInv(Free(b)', used'[b], head'[b], link'[b])
    BY <1>2, <1>5, <1>6
  <2>2. ASSUME NEW x \in Blocks \ {b} PROVE BlockInv(Free(x)', used'[x], head'[x], link'[x])
    BY <1>5, <1>6 DEF Inv, CellsInv
  <2>. QED BY <2>1, <2>2 DEF CellsInv
<1>. QED BY <1>4, <1>5, <1>6, <1>7

(* Who frees a cell finds its block.                                         *)
LEMMA PlaceOf ==
  ASSUME CellsAreSeveral, Inv, NEW b \in Blocks, NEW c \in Cell, <<b, c>> \in taken
  PROVE  /\ b \in Existing /\ place[b] \in 0 .. Count - 1 /\ poolBlocks[place[b]] = b
         /\ \A i \in 0 .. Count - 1: poolBlocks[i] = b => i = place[b]
BY DEF Inv, FreshInv, Free, PlacesInv, Existing

LEMMA AllocKeeps == ASSUME CellsAreSeveral, Inv, Alloc PROVE Inv'
<1> DEFINE n == Count
           b == poolBlocks[firstFree]
<1>1. /\ n \in Nat /\ firstFree \in 0 .. n - 1 /\ DOMAIN poolBlocks = 0 .. n - 1
      /\ b \in Blocks /\ place[b] = firstFree /\ b \in Existing
  BY DEF Alloc, Inv, PlacesInv, None, Existing
<1>2. /\ poolBlocks' = poolBlocks /\ place' = place
      /\ TakeFrom(b, firstFree, n)
      /\ Count' = n /\ Existing' = Existing
  BY DEF Alloc, Count, Existing
<1>3. used[b] \in 0 .. Cells - 1 /\ used[b] < Cells
  BY <1>1 DEF Inv, PoolTypes, OrderInv, CellsAreSeveral, None
<1>4. /\ PoolTypes' /\ CellsInv'
      /\ used'[b] = used[b] + 1
      /\ \A x \in Blocks \ {b}:
           head'[x] = head[x] /\ used'[x] = used[x] /\ link'[x] = link[x] /\ Free(x)' = Free(x)
  BY <1>1, <1>2, <1>3, Taken
<1>5. firstFree' = IF used[b] + 1 < Cells THEN firstFree ELSE IF firstFree < n - 1 THEN firstFree + 1 ELSE None
  BY <1>2 DEF TakeFrom
<1>6. \A i \in 0 .. n - 1: poolBlocks[i] \in Blocks /\ (poolBlocks[i] = b <=> i = firstFree)
  BY <1>1 DEF Inv, PlacesInv
<1>7. PlacesInv'
  BY <1>1, <1>2, <1>5 DEF Inv, PlacesInv, None
<1>8. OrderInv'
  <2> SUFFICES ASSUME NEW i \in 0 .. n - 1
               PROVE  used'[poolBlocks[i]] = Cells <=> (firstFree' = None \/ i < firstFree')
    BY <1>1, <1>2 DEF OrderInv
  <2>1. used[poolBlocks[i]] = Cells <=> i < firstFree
    BY <1>1 DEF Inv, OrderInv, None
  <2>2. CASE i = firstFree
    BY <1>1, <1>3, <1>4, <1>5, <2>2 DEF None, CellsAreSeveral
  <2>3. CASE i # firstFree
    <3>1. used'[poolBlocks[i]] = used[poolBlocks[i]]
      BY <1>4, <1>6, <2>3
    <3>. QED BY <1>1, <1>5, <2>1, <2>3, <3>1 DEF None, CellsAreSeveral
  <2>. QED BY <2>2, <2>3
<1>9. EmptyInv'
  <2>1. \A x \in Existing: used'[x] = 0 => used[x] = 0
    BY <1>1, <1>3, <1>4 DEF Inv, PlacesInv, Existing
  <2>. QED BY <1>2, <2>1 DEF Inv, EmptyInv
<1>10. FreshInv'
  BY <1>1, <1>2, <1>4 DEF Inv, FreshInv
<1>. QED BY <1>4, <1>7, <1>8, <1>9, <1>10 DEF Inv

LEMMA AllocInNewBlockKeeps == ASSUME CellsAreSeveral, Inv, AllocInNewBlock PROVE Inv'
<1> DEFINE n == Count
<1>1. PICK b \in Blocks \ Existing:
        /\ poolBlocks' = [i \in 0 .. n |-> IF i = n THEN b ELSE poolBlocks[i]]
        /\ place' = [place EXCEPT ![b] = n]
        /\ TakeFrom(b, n, n + 1)
  BY DEF AllocInNewBlock
<1>2. /\ n \in Nat /\ DOMAIN poolBlocks = 0 .. n - 1 /\ firstFree = None
      /\ \A i \in 0 .. n - 1: poolBlocks[i] \in Existing /\ poolBlocks[i] \in Blocks
  BY DEF AllocInNewBlock, Inv, PlacesInv, Existing
<1>3. DOMAIN poolBlocks' = 0 .. (n + 1) - 1 /\ Count' = n + 1
  <2>1. DOMAIN poolBlocks' = 0 .. (n + 1) - 1
    BY <1>1, <1>2
  <2>. QED BY <1>2, <2>1, CountOf DEF Count
<1>4. Existing' = Existing \cup {b}
  <2>1. \A i \in 0 .. n - 1: poolBlocks'[i] = poolBlocks[i]
    BY <1>1, <1>2
  <2>2. poolBlocks'[n] = b
    BY <1>1, <1>2
  <2>3. DOMAIN poolBlocks' = (0 .. n - 1) \cup {n}
    BY <1>2, <1>3
  <2>. QED BY <1>2, <2>1, <2>2, <2>3 DEF Existing
<1>5. used[b] = 0 /\ used[b] < Cells
  BY <1>1 DEF Inv, FreshInv, CellsAreSeveral
<1>6. /\ PoolTypes' /\ CellsInv'
      /\ used'[b] = 1
      /\ \A x \in Blocks \ {b}:
           head'[x] = head[x] /\ used'[x] = used[x] /\ link'[x] = link[x] /\ Free(x)' = Free(x)
  BY <1>1, <1>5, Taken
<1>7. firstFree' = n
  BY <1>1, <1>5 DEF TakeFrom, CellsAreSeveral
<1>8. \A i \in 0 .. n: poolBlocks'[i] = IF i = n THEN b ELSE poolBlocks[i]
  BY <1>1
<1>9. PlacesInv'
  <2>1. \A i \in DOMAIN poolBlocks': poolBlocks'[i] \in Blocks /\ place'[poolBlocks'[i]] = i
    BY <1>1, <1>2, <1>3, <1>8 DEF Inv, PlacesInv
  <2>. QED BY <1>1, <1>2, <1>3, <1>7, <2>1 DEF Inv, PlacesInv
<1>10. OrderInv'
  <2> SUFFICES ASSUME NEW i \in 0 .. n PROVE used'[poolBlocks'[i]] = Cells <=> i < n
    BY <1>2, <1>3, <1>7 DEF OrderInv, None
  <2>1. CASE i = n
    BY <1>6, <1>8, <2>1 DEF CellsAreSeveral
  <2>2. CASE i < n
    BY <1>1, <1>2, <1>6, <1>8, <2>2 DEF Inv, OrderInv
  <2>. QED BY <1>2, <2>1, <2>2
<1>11. EmptyInv'
  <2>1. \A x \in Existing: used'[x] = Cells
    BY <1>1, <1>2, <1>6 DEF Inv, OrderInv, Existing
  <2>. QED BY <1>4, <1>6, <2>1 DEF EmptyInv, CellsAreSeveral
<1>12. FreshInv'
  BY <1>4, <1>6 DEF Inv, FreshInv
<1>. QED BY <1>6, <1>9, <1>10, <1>11, <1>12 DEF Inv

LEMMA FreeAnyKeeps ==
  ASSUME CellsAreSeveral, Inv, NEW b \in Blocks, NEW c \in Cell, FreeAny(b, c) PROVE Inv'
<1>1. /\ <<b, c>> \in taken /\ used[b] \in 2 .. Cells - 1 /\ GiveBack(b, c) /\ taken' = taken \ {<<b, c>>}
      /\ poolBlocks' = poolBlocks /\ place' = place /\ firstFree' = firstFree
      /\ Count' = Count /\ Existing' = Existing
  BY DEF FreeAny, Count, Existing
<1>2. /\ PoolTypes' /\ CellsInv'
      /\ used'[b] = used[b] - 1
      /\ \A x \in Blocks \ {b}:
           head'[x] = head[x] /\ used'[x] = used[x] /\ link'[x] = link[x] /\ Free(x)' = Free(x)
  BY <1>1, Given
<1>3. \A x \in Blocks: (used'[x] = 0 <=> used[x] = 0) /\ (used'[x] = Cells <=> used[x] = Cells)
  BY <1>1, <1>2 DEF CellsAreSeveral
<1>4. \A x \in Existing: x \in Blocks
  BY DEF Inv, PlacesInv, Existing
<1>5. b \in Existing
  BY <1>1, PlaceOf
<1>6. PlacesInv'
  BY <1>1 DEF Inv, PlacesInv
<1>7. OrderInv'
  BY <1>1, <1>3, <1>4 DEF Inv, OrderInv, Existing
<1>8. EmptyInv'
  BY <1>1, <1>3, <1>4 DEF Inv, EmptyInv
<1>9. FreshInv'
  BY <1>1, <1>2, <1>5 DEF Inv, FreshInv
<1>. QED BY <1>2, <1>6, <1>7, <1>8, <1>9 DEF Inv

LEMMA FreeInFullKeeps ==
  ASSUME CellsAreSeveral, Inv, NEW b \in Blocks, NEW c \in Cell, FreeInFull(b, c) PROVE Inv'
<1> DEFINE n == Count
           p == place[b]
           border == IF firstFree > 0 THEN firstFree - 1 ELSE n - 1
           other == poolBlocks[border]
<1>1. /\ <<b, c>> \in taken /\ used[b] = Cells /\ GiveBack(b, c) /\ taken' = taken \ {<<b, c>>}
      /\ firstFree' = border
      /\ poolBlocks' = [poolBlocks EXCEPT ![p] = other, ![border] = b]
      /\ place' = [place EXCEPT ![other] = p, ![b] = border]
  BY DEF FreeInFull
<1>2. /\ n \in Nat /\ DOMAIN poolBlocks = 0 .. n - 1 /\ p \in 0 .. n - 1 /\ poolBlocks[p] = b
      /\ b \in Existing
  BY <1>1, PlaceOf DEF Inv, PlacesInv
<1>3. firstFree \in -1 .. n - 1 /\ (firstFree = None \/ p < firstFree)
  BY <1>1, <1>2 DEF Inv, OrderInv, PlacesInv
<1>4. border \in 0 .. n - 1 /\ p <= border /\ (firstFree # None => firstFree = border + 1) /\ (firstFree = None => border = n - 1)
  BY <1>2, <1>3 DEF None
<1> HIDE DEF border
<1>5. \A i \in 0 .. n - 1: /\ poolBlocks[i] \in Blocks /\ place[poolBlocks[i]] = i
                           /\ (used[poolBlocks[i]] = Cells <=> i <= border)
  BY <1>2, <1>3, <1>4 DEF Inv, PlacesInv, OrderInv, None
<1>6. /\ PoolTypes' /\ CellsInv'
      /\ used'[b] = used[b] - 1
      /\ \A x \in Blocks \ {b}:
           head'[x] = head[x] /\ used'[x] = used[x] /\ link'[x] = link[x] /\ Free(x)' = Free(x)
  BY <1>1, Given
<1>7. DOMAIN poolBlocks' = 0 .. n - 1 /\ Count' = n
  <2>1. DOMAIN poolBlocks' = DOMAIN poolBlocks
    BY <1>1
  <2>. QED BY <1>2, <2>1 DEF Count
<1>8. \A i \in 0 .. n - 1: poolBlocks'[i] = IF i = border THEN b ELSE IF i = p THEN other ELSE poolBlocks[i]
  BY <1>1, <1>2
<1>9. Existing' = Existing
  <2>1. \A i \in 0 .. n - 1: poolBlocks'[i] \in Existing
    BY <1>2, <1>4, <1>8 DEF Existing
  <2>2. ASSUME NEW i \in 0 .. n - 1 PROVE \E j \in 0 .. n - 1: poolBlocks'[j] = poolBlocks[i]
    <3>1. CASE i = border
      <4>1. poolBlocks'[p] = other
        BY <1>2, <1>8
      <4>. QED BY <1>2, <3>1, <4>1
    <3>2. CASE i = p
      BY <1>2, <1>4, <1>8, <3>2
    <3>3. CASE i # p /\ i # border
      BY <1>8, <3>3
    <3>. QED BY <3>1, <3>2, <3>3
  <2>. QED BY <1>2, <1>7, <2>1, <2>2 DEF Existing
<1>10. \A i \in 0 .. n - 1: poolBlocks'[i] \in Blocks /\ place'[poolBlocks'[i]] = i
  <2> TAKE i \in 0 .. n - 1
  <2>1. CASE i = border
    BY <1>1, <1>2, <1>5, <1>8, <2>1 DEF Inv, PlacesInv
  <2>2. CASE i = p /\ i # border
    <3>1. other # b /\ other \in Blocks
      BY <1>2, <1>4, <1>5, <2>2
    <3>. QED BY <1>1, <1>2, <1>5, <1>8, <2>2, <3>1 DEF Inv, PlacesInv
  <2>3. CASE i # p /\ i # border
    <3>1. poolBlocks[i] # other /\ poolBlocks[i] # b
      BY <1>2, <1>4, <1>5, <2>3
    <3>. QED BY <1>1, <1>2, <1>5, <1>8, <2>3, <3>1 DEF Inv, PlacesInv
  <2>. QED BY <2>1, <2>2, <2>3
<1>11. PlacesInv'
  <2>1. place' \in [Blocks -> Int]
    BY <1>1, <1>2, <1>4 DEF Inv, PlacesInv
  <2>. QED BY <1>1, <1>2, <1>4, <1>7, <1>10, <2>1 DEF PlacesInv
<1>12. OrderInv'
  <2> SUFFICES ASSUME NEW i \in 0 .. n - 1 PROVE used'[poolBlocks'[i]] = Cells <=> i < border
    BY <1>1, <1>4, <1>7 DEF OrderInv, None
  <2>1. CASE i = border
    <3>1. used'[b] # Cells
      BY <1>1, <1>6 DEF CellsAreSeveral
    <3>2. poolBlocks'[i] = b
      BY <1>8, <2>1
    <3>. QED BY <2>1, <3>1, <3>2
  <2>2. CASE i = p /\ i # border
    <3>1. other # b /\ other \in Blocks /\ used[other] = Cells
      BY <1>2, <1>4, <1>5, <2>2
    <3>. QED BY <1>2, <1>4, <1>6, <1>8, <2>2, <3>1
  <2>3. CASE i # p /\ i # border
    <3>1. poolBlocks[i] # b /\ poolBlocks[i] \in Blocks
      BY <1>2, <1>5, <2>3
    <3>. QED BY <1>4, <1>5, <1>6, <1>8, <2>3, <3>1
  <2>. QED BY <2>1, <2>2, <2>3
<1>13. EmptyInv'
  <2>1. \A x \in Existing: x \in Blocks /\ (used'[x] = 0 => used[x] = 0)
    BY <1>1, <1>2, <1>5, <1>6 DEF Existing, CellsAreSeveral
  <2>. QED BY <1>9, <2>1 DEF Inv, EmptyInv
<1>14. FreshInv'
  BY <1>2, <1>6, <1>9 DEF Inv, FreshInv
<1>. QED BY <1>6, <1>11, <1>12, <1>13, <1>14 DEF Inv

LEMMA FreeLastKeeps ==
  ASSUME CellsAreSeveral, Inv, NEW b \in Blocks, NEW c \in Cell, FreeLast(b, c) PROVE Inv'
<1> DEFINE n == Count
           p == place[b]
           last == poolBlocks[n - 1]
<1>1. <<b, c>> \in taken /\ used[b] = 1 /\ taken' = taken \ {<<b, c>>}
  BY DEF FreeLast
<1>2. /\ n \in Nat /\ DOMAIN poolBlocks = 0 .. n - 1 /\ p \in 0 .. n - 1 /\ poolBlocks[p] = b
      /\ b \in Existing
  BY <1>1, PlaceOf DEF Inv, PlacesInv
<1>3. firstFree \in 0 .. n - 1 /\ firstFree <= p
  BY <1>1, <1>2 DEF Inv, OrderInv, PlacesInv, CellsAreSeveral, None
<1>4. \A i \in 0 .. n - 1: /\ poolBlocks[i] \in Blocks /\ place[poolBlocks[i]] = i
                           /\ (used[poolBlocks[i]] = Cells <=> i < firstFree)
  BY <1>2, <1>3 DEF Inv, PlacesInv, OrderInv, None
<1>5. CASE n - firstFree > 1
  <2>1. /\ poolBlocks' = [i \in 0 .. n - 2 |-> IF i = p THEN last ELSE poolBlocks[i]]
        /\ place' = [[place EXCEPT ![last] = p] EXCEPT ![b] = None]
        /\ firstFree' = firstFree
        /\ head' = [head EXCEPT ![b] = 0]
        /\ used' = [used EXCEPT ![b] = 0]
        /\ link' = [link EXCEPT ![b] = FreshLinks]
    <3>1. Count - firstFree > 1 /\ firstFree # Count - 1
      BY <1>2, <1>3, <1>5
    <3>. QED BY <3>1 DEF FreeLast
  <2>2. DOMAIN poolBlocks' = 0 .. (n - 1) - 1 /\ Count' = n - 1 /\ n - 1 \in Nat
    <3>1. n - 2 = (n - 1) - 1 /\ n - 1 \in Nat
      BY <1>2, <1>3, <1>5
    <3>2. DOMAIN poolBlocks' = 0 .. (n - 1) - 1
      BY <2>1, <3>1
    <3>. QED BY <3>1, <3>2, CountOf DEF Count
  <2>3. /\ head'[b] = 0 /\ used'[b] = 0 /\ link'[b] = FreshLinks
        /\ \A x \in Blocks \ {b}: head'[x] = head[x] /\ used'[x] = used[x] /\ link'[x] = link[x]
    BY <2>1 DEF Inv, PoolTypes
  <2>4. Free(b)' = Cell /\ \A x \in Blocks \ {b}: Free(x)' = Free(x)
    <3>1. \A x, d: <<x, d>> \notin taken' <=> <<x, d>> \notin taken \/ (x = b /\ d = c)
      BY <1>1
    <3>2. Free(b)' = Free(b) \cup {c} /\ \A x \in Blocks \ {b}: Free(x)' = Free(x)
      BY <3>1, Zenon DEF Free
    <3>3. /\ head[b] \in Cell /\ used[b] \in 0 .. Cells /\ link[b] \in [Cell -> Cell \cup {Garbage}]
          /\ Free(b) \in SUBSET Cell /\ BlockInv(Free(b), used[b], head[b], link[b]) /\ c \in Cell \ Free(b)
      BY <1>1 DEF Inv, PoolTypes, CellsInv, CellsAreSeveral, Free
    <3>4. Free(b) \cup {c} = Cell
      BY <1>1, <3>3, Giving
    <3>. QED BY <3>2, <3>4
  <2>5. CellsInv'
    <3>1. BlockInv(Cell, 0, 0, FreshLinks)
      BY FreshList, CellFacts DEF BlockInv, CellsAreSeveral
    <3>. QED BY <2>3, <2>4, <3>1 DEF Inv, CellsInv
  <2>6. PoolTypes'
    BY <1>1, <2>1, CellFacts DEF Inv, PoolTypes, CellsAreSeveral
  <2>7. \A i \in 0 .. n - 2: poolBlocks'[i] = IF i = p THEN last ELSE poolBlocks[i]
    BY <2>1
  <2>8. last \in Blocks /\ place[last] = n - 1 /\ n - 1 \in 0 .. n - 1 /\ last \in Existing
    BY <1>2, <1>4 DEF Existing
  <2>9. Existing' = Existing \ {b}
    <3>1. ASSUME NEW i \in 0 .. n - 2 PROVE poolBlocks'[i] \in Existing \ {b}
      <4>1. CASE i = p
        BY <1>2, <2>7, <2>8, <4>1
      <4>2. CASE i # p
        <5>1. poolBlocks[i] # b /\ i \in 0 .. n - 1
          BY <1>2, <1>4, <4>2
        <5>. QED BY <1>2, <2>7, <4>2, <5>1 DEF Existing
      <4>. QED BY <4>1, <4>2
    <3>2. ASSUME NEW i \in 0 .. n - 1, poolBlocks[i] # b PROVE \E j \in 0 .. n - 2: poolBlocks'[j] = poolBlocks[i]
      <4>1. CASE i = n - 1
        <5>1. p \in 0 .. n - 2
          BY <1>2, <3>2, <4>1
        <5>. QED BY <2>7, <4>1, <5>1
      <4>2. CASE i # n - 1
        <5>1. i \in 0 .. n - 2 /\ i # p
          BY <1>2, <3>2, <4>2
        <5>. QED BY <2>7, <5>1
      <4>. QED BY <4>1, <4>2
    <3>3. DOMAIN poolBlocks' = 0 .. n - 2
      BY <2>1
    <3>4. \A x: x \in Existing' <=> \E i \in 0 .. n - 2: x = poolBlocks'[i]
      BY <3>3 DEF Existing
    <3>5. \A x: x \in Existing <=> \E i \in 0 .. n - 1: x = poolBlocks[i]
      BY <1>2 DEF Existing
    <3>6. ASSUME NEW x \in Existing' PROVE x \in Existing \ {b}
      BY <3>1, <3>4
    <3>7. ASSUME NEW x \in Existing \ {b} PROVE x \in Existing'
      <4>1. PICK i \in 0 .. n - 1: x = poolBlocks[i]
        BY <3>5
      <4>2. PICK j \in 0 .. n - 2: poolBlocks'[j] = poolBlocks[i]
        BY <3>2, <4>1
      <4>. QED BY <3>4, <4>1, <4>2
    <3>. QED BY <3>6, <3>7
  <2>10. ASSUME NEW i \in 0 .. n - 2 PROVE poolBlocks'[i] \in Blocks /\ place'[poolBlocks'[i]] = i
    <3>1. CASE i = p
      <4>1. last # b
        BY <1>2, <2>8, <3>1
      <4>. QED BY <2>1, <2>7, <2>8, <3>1, <4>1 DEF Inv, PlacesInv
    <3>2. CASE i # p
      <4>1. i \in 0 .. n - 1 /\ poolBlocks[i] # b /\ poolBlocks[i] # last
        BY <1>2, <1>4, <2>8, <3>2
      <4>. QED BY <1>4, <2>1, <2>7, <3>2, <4>1 DEF Inv, PlacesInv
    <3>. QED BY <3>1, <3>2
  <2>11. PlacesInv'
    <3>1. place' \in [Blocks -> Int]
      BY <1>2, <2>1 DEF Inv, PlacesInv, None
    <3>2. firstFree' \in -1 .. (n - 1) - 1
      BY <1>2, <1>3, <1>5, <2>1
    <3>3. DOMAIN poolBlocks' = 0 .. n - 2
      BY <2>1
    <3>. QED BY <2>2, <2>10, <3>1, <3>2, <3>3 DEF PlacesInv
  <2>12. OrderInv'
    <3> SUFFICES ASSUME NEW i \in 0 .. n - 2 PROVE used'[poolBlocks'[i]] = Cells <=> i < firstFree
      BY <1>3, <2>1, <2>2 DEF OrderInv, None
    <3>1. CASE i = p
      <4>1. last # b
        BY <1>2, <2>8, <3>1
      <4>2. used'[last] = used[last] /\ used[last] # Cells
        BY <1>3, <1>4, <1>5, <2>3, <2>8, <4>1
      <4>. QED BY <1>2, <1>3, <2>7, <3>1, <4>2
    <3>2. CASE i # p
      <4>1. i \in 0 .. n - 1 /\ poolBlocks[i] # b
        BY <1>2, <1>4, <3>2
      <4>. QED BY <1>4, <2>3, <2>7, <3>2, <4>1
    <3>. QED BY <3>1, <3>2
  <2>13. EmptyInv'
    <3>1. \A x \in Existing': x \in Existing /\ used'[x] = used[x]
      BY <1>2, <1>4, <2>3, <2>9 DEF Existing
    <3>. QED BY <3>1 DEF Inv, EmptyInv
  <2>14. FreshInv'
    BY <2>3, <2>4, <2>9 DEF Inv, FreshInv
  <2>. QED BY <2>5, <2>6, <2>11, <2>12, <2>13, <2>14 DEF Inv
<1>6. CASE ~(n - firstFree > 1)
  <2>1. /\ GiveBack(b, c) /\ poolBlocks' = poolBlocks /\ place' = place /\ firstFree' = firstFree
        /\ Count' = Count /\ Existing' = Existing
    BY <1>6 DEF FreeLast, Count, Existing
  <2>2. firstFree = n - 1 /\ p = n - 1
    BY <1>2, <1>3, <1>6
  <2>3. /\ PoolTypes' /\ CellsInv'
        /\ used'[b] = 0
        /\ \A x \in Blocks \ {b}:
             head'[x] = head[x] /\ used'[x] = used[x] /\ link'[x] = link[x] /\ Free(x)' = Free(x)
    BY <1>1, <2>1, Given
  <2>4. PlacesInv'
    BY <2>1 DEF Inv, PlacesInv
  <2>5. OrderInv'
    <3> SUFFICES ASSUME NEW i \in 0 .. n - 1 PROVE used'[poolBlocks[i]] = Cells <=> i < firstFree
      BY <1>2, <1>3, <2>1 DEF OrderInv, None
    <3>1. CASE poolBlocks[i] = b
      BY <1>1, <1>4, <2>3, <3>1 DEF CellsAreSeveral
    <3>2. CASE poolBlocks[i] # b
      BY <1>4, <2>3, <3>2
    <3>. QED BY <3>1, <3>2
  <2>6. EmptyInv'
    <3>1. ASSUME NEW x \in Existing, x # b PROVE used'[x] # 0
      <4>1. PICK i \in 0 .. n - 1: x = poolBlocks[i]
        BY <1>2 DEF Existing
      <4>2. i < firstFree
        BY <1>2, <2>2, <3>1, <4>1
      <4>. QED BY <1>4, <2>3, <3>1, <4>1, <4>2 DEF CellsAreSeveral
    <3>. QED BY <2>1, <3>1 DEF EmptyInv
  <2>7. FreshInv'
    BY <1>2, <2>1, <2>3 DEF Inv, FreshInv
  <2>. QED BY <2>3, <2>4, <2>5, <2>6, <2>7 DEF Inv
<1>. QED BY <1>5, <1>6

LEMMA NextInv == ASSUME CellsAreSeveral, Inv, [Next]_poolVars PROVE Inv'
<1>1. CASE UNCHANGED poolVars
  BY <1>1 DEF poolVars, Inv, PoolTypes, PlacesInv, OrderInv, EmptyInv, FreshInv, CellsInv, Free,
              Count, Existing
<1>. QED BY <1>1, AllocKeeps, AllocInNewBlockKeeps, FreeAnyKeeps, FreeInFullKeeps, FreeLastKeeps DEF Next

-----------------------------------------------------------------------------
(* The list of the invariant is the one that the links lead to.              *)
LEMMA ListedCells == ASSUME CellsAreSeveral, Inv PROVE FreeCellsAreListed
<1> SUFFICES ASSUME NEW b \in Existing
             PROVE  {FreeList(b)[i]: i \in DOMAIN FreeList(b)} = Free(b)
  BY DEF FreeCellsAreListed, Free
<1> DEFINE n == Cells - used[b]
<1>1. b \in Blocks /\ n \in 0 .. Cells
  BY DEF Inv, PlacesInv, PoolTypes, Existing, CellsAreSeveral
<1>2. PICK l: IsList(l, n, head[b], link[b], Free(b))
  BY <1>1 DEF Inv, CellsInv, BlockInv
<1>3. PICK w: w = Walk(b) /\ w[0] = head[b] /\ \A i \in 1 .. Cells: w[i] = link[b][w[i - 1]]
  <2>1. Cells \in Nat
    BY DEF CellsAreSeveral
  <2>2. \E f: f = [i \in 0 .. Cells |-> IF i = 0 THEN head[b] ELSE link[b][f[i - 1]]]
    <3>1. PICK f: IsIteration(f, Cells, head[b], link[b])
      BY <2>1, Iterates, Zenon
    <3>2. ASSUME NEW i \in 0 .. Cells PROVE f[i] = IF i = 0 THEN head[b] ELSE link[b][f[i - 1]]
      <4>1. CASE i = 0
        BY <4>1, <3>1 DEF IsIteration
      <4>2. CASE i # 0
        <5>1. i \in 1 .. Cells
          BY <4>2, <2>1
        <5>2. f[i] = link[b][f[i - 1]]
          BY <5>1, <3>1 DEF IsIteration
        <5>. QED BY <4>2, <5>2
      <4>. QED BY <4>1, <4>2
    <3>3. f = [i \in 0 .. Cells |-> f[i]]
      BY <3>1 DEF IsIteration
    <3>. QED BY <3>2, <3>3
  <2>3. Walk(b) = CHOOSE f: f = [i \in 0 .. Cells |-> IF i = 0 THEN head[b] ELSE link[b][f[i - 1]]]
    BY Zenon DEF Walk
  <2>4. PICK w: w = Walk(b) /\ w = [i \in 0 .. Cells |-> IF i = 0 THEN head[b] ELSE link[b][w[i - 1]]]
    BY <2>2, <2>3, Zenon
  <2>5. w[0] = head[b]
    BY <2>1, <2>4
  <2>6. ASSUME NEW i \in 1 .. Cells PROVE w[i] = link[b][w[i - 1]]
    <3>1. i \in 0 .. Cells /\ i # 0
      BY <2>1
    <3>. QED BY <2>4, <3>1
  <2>. QED BY <2>4, <2>5, <2>6
<1>4. FreeList(b) = [i \in 0 .. n - 1 |-> w[i]]
  BY <1>3 DEF FreeList, n
<1> HIDE DEF n
<1>9. n \in Nat /\ n <= Cells /\ Cells \in Nat
  BY <1>1 DEF CellsAreSeveral
<1>5. ASSUME n > 0 PROVE \A i \in 0 .. n - 1: w[i] = l[i]
  <2> DEFINE S == {i \in 0 .. n - 1: w[i] = l[i]}
  <2>1. 0 \in S
    <3>1. l[0] = head[b]
      BY <1>2, <1>5 DEF IsList
    <3>. QED BY <1>3, <1>9, <1>5, <3>1
  <2>2. ASSUME NEW i \in 0 .. (n - 1) - 1, i \in S PROVE i + 1 \in S
    <3>1. i + 1 \in 1 .. Cells /\ i + 1 - 1 = i /\ i \in 0 .. n - 2 /\ i + 1 \in 0 .. n - 1
      BY <1>9
    <3>2. w[i + 1] = link[b][w[i]]
      BY <1>3, <3>1
    <3>3. link[b][l[i]] = l[i + 1]
      BY <1>2, <3>1 DEF IsList
    <3>. QED BY <2>2, <3>1, <3>2, <3>3
  <2>3. 0 .. n - 1 \subseteq S
    <3>1. n - 1 \in Nat
      BY <1>9, <1>5
    <3> HIDE DEF S
    <3>. QED BY <2>1, <2>2, <3>1, SetInduction
  <2>. QED BY <2>3
<1>6. \A i \in 0 .. n - 1: w[i] = l[i]
  BY <1>9, <1>5
<1>7. {l[i]: i \in 0 .. n - 1} = Free(b)
  BY <1>2 DEF IsList
<1>. QED BY <1>4, <1>6, <1>7

LEMMA OrderedBlocks == ASSUME CellsAreSeveral, Inv PROVE FullBlocksComeFirst
<1>1. ASSUME NEW t \in taken PROVE t[1] \in Existing
  <2>1. t[1] \in Blocks /\ t[2] \in Cell /\ t = <<t[1], t[2]>>
    BY <1>1 DEF Inv, PoolTypes
  <2>. QED BY <1>1, <2>1, PlaceOf
<1>. QED BY <1>1 DEF Inv, PlacesInv, OrderInv, FullBlocksComeFirst

LEMMA SmallWhenUnused == ASSUME CellsAreSeveral, Inv PROVE UnusedPoolIsSmall
<1> SUFFICES ASSUME taken = {} PROVE Count <= 1 /\ firstFree = Count - 1
  BY DEF UnusedPoolIsSmall
<1>1. ASSUME NEW i \in 0 .. Count - 1 PROVE used[poolBlocks[i]] = 0 /\ poolBlocks[i] \in Existing
  <2>1. poolBlocks[i] \in Blocks /\ poolBlocks[i] \in Existing
    BY DEF Inv, PlacesInv, Existing
  <2>2. Cardinality(Cell) = Cells - used[poolBlocks[i]]
    BY <2>1 DEF Inv, CellsInv, BlockInv, Free
  <2>. QED BY <2>1, <2>2, CellFacts DEF Inv, PoolTypes, CellsAreSeveral
<1>2. \A i, j \in 0 .. Count - 1: i = j
  BY <1>1 DEF Inv, PlacesInv, EmptyInv
<1>3. Count \in Nat /\ Count <= 1
  <2>1. Count \in Nat
    BY DEF Inv, PlacesInv
  <2>2. Count > 1 => 0 \in 0 .. Count - 1 /\ 1 \in 0 .. Count - 1
    BY <2>1
  <2>. QED BY <1>2, <2>1, <2>2
<1>4. CASE Count = 0
  BY <1>4 DEF Inv, PlacesInv
<1>5. CASE Count = 1
  BY <1>1, <1>5 DEF Inv, PlacesInv, OrderInv, None, CellsAreSeveral
<1>. QED BY <1>3, <1>4, <1>5

(* The variables keep their types.                                           *)
THEOREM TypeCorrect == ASSUME CellsAreSeveral PROVE Spec => []TypeOK
<1>1. Init => Inv
  BY InitInv
<1>2. Inv /\ [Next]_poolVars => Inv'
  BY NextInv
<1>3. Inv => TypeOK
  BY DEF Inv, PoolTypes, PlacesInv, Existing, TypeOK
<1>. QED BY <1>1, <1>2, <1>3, PTL DEF Spec

(* The free cells of each block are those its list leads to, blocks with     *)
(* space come last, and a pool that is not used any more is small.           *)
THEOREM PoolCorrect ==
  ASSUME CellsAreSeveral
  PROVE  Spec => [](FreeCellsAreListed /\ FullBlocksComeFirst /\ UnusedPoolIsSmall)
<1>1. Init => Inv
  BY InitInv
<1>2. Inv /\ [Next]_poolVars => Inv'
  BY NextInv
<1>3. Inv => FreeCellsAreListed /\ FullBlocksComeFirst /\ UnusedPoolIsSmall
  BY ListedCells, OrderedBlocks, SmallWhenUnused
<1>. QED BY <1>1, <1>2, <1>3, PTL DEF Spec
=============================================================================
