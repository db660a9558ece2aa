----------------------- MODULE HOrderedHashContainer ------------------------
(***************************************************************************)
(* HOrderedHashContainer of src/hcore/horderedhashcontainer.hxx: values in *)
(* the order of their insertion in _store, with gaps where values were     *)
(* erased, and _indexMap, an open-addressing table of places in the store. *)
(* A value is its key; places count from 0.                                *)
(***************************************************************************)
EXTENDS Integers, Sequences, FiniteSets, Functions, SequencesExt

CONSTANTS
  Keys,
  Hash,         \* the hash of each key, at most HASH_MASK
  Sizes,        \* arguments of resize()
  MaxStore      \* bound: length of the store

VARIABLES
  store,        \* _store up to _size + _erased, EMPTY where erased
  storeSize,    \* the length of _store
  indexMap,     \* _indexMap, a function on 0 .. _cover - 1
  inserted      \* history: the keys in the order of their insertion

hashVars == <<store, storeSize, indexMap, inserted>>

EMPTY   == "empty"
INVALID == -1
ERASED  == -2
START_PRIME == 3
HASH_PERTURBATION_SHIFT == 5

Init ==
  /\ store = <<>> /\ storeSize = 0
  /\ indexMap = [i \in {} |-> 0]
  /\ inserted = <<>>

Cover(map) == Cardinality(DOMAIN map)
At(s, i) == s[i + 1]
Occupied(s) == {i \in 0 .. Len(s) - 1: At(s, i) # EMPTY}
Size == Cardinality(Occupied(store))
Erased == Len(store) - Size

Larger(a, b) == IF a > b THEN a ELSE b
(* 1 << bit::most_significant( n ) *)
MostSignificant(n) == CHOOSE p \in {2 ^ i: i \in 0 .. 30}: p <= n /\ n < 2 * p

(* The slots that are looked at for a hash, until they repeat: 13 shifts     *)
(* clear its 63 bits, cover more steps come to every slot.                   *)
Probe(hash, cover) ==
  LET from[i \in 0 .. cover + 13] ==
        IF i = 0 THEN [slot |-> hash % cover, rest |-> hash]
        ELSE LET last == from[i - 1]
                 rest == last.rest \div (2 ^ HASH_PERTURBATION_SHIFT)
             IN [slot |-> (5 * last.slot + 1 + rest) % cover, rest |-> rest]
  IN [i \in 0 .. cover + 13 |-> from[i].slot]

(* find_projection(), on any store and index. *)
Found(k, s, map) ==
  LET path == Probe(Hash[k], Cover(map))
      Stops(i) == map[path[i]] = INVALID \/ (map[path[i]] >= 0 /\ At(s, map[path[i]]) = k)
      stop == CHOOSE i \in DOMAIN path: Stops(i) /\ \A j \in 0 .. i - 1: ~Stops(j)
      gaps == {j \in 0 .. stop - 1: map[path[j]] = ERASED}
      lastGap == CHOOSE j \in gaps: \A l \in gaps: l <= j
  IN [mapIndex   |-> IF map[path[stop]] = INVALID /\ gaps # {} THEN path[lastGap] ELSE path[stop],
      storeIndex |-> map[path[stop]]]

Find(k) == IF DOMAIN indexMap = {} THEN INVALID ELSE Found(k, store, indexMap).storeIndex

(* set_index() of place n - 1 in the first slot of its value's probe that is *)
(* still INVALID; nothing for a gap.                                        *)
WithPlace(map, s, n, cover) ==
  LET path == Probe(Hash[s[n]], cover)
      slot == CHOOSE i \in DOMAIN path:
                /\ map[path[i]] = INVALID
                /\ \A j \in 0 .. i - 1: map[path[j]] # INVALID
  IN IF s[n] = EMPTY THEN map ELSE [map EXCEPT ![path[slot]] = n - 1]

(* rebuild_index(), after prune_index(): every value of s in turn. *)
RebuiltIndex(s, cover) ==
  LET after[n \in 0 .. Len(s)] ==
        IF n = 0 THEN [i \in 0 .. cover - 1 |-> INVALID]
                 ELSE WithPlace(after[n - 1], s, n, cover)
  IN after[Len(s)]

(* copy_store(): every value in turn, without the gaps. *)
WithValue(t, s, n) == IF s[n] = EMPTY THEN t ELSE Append(t, s[n])

Compacted(s) ==
  LET after[n \in 0 .. Len(s)] == IF n = 0 THEN <<>> ELSE WithValue(after[n - 1], s, n)
  IN after[Len(s)]

(* provide_storage(): the new length, 0 when nothing is to be done. *)
NewStoreSize(size) ==
  LET power == MostSignificant(Larger(size, START_PRIME))
  IN IF storeSize >= size THEN 0 ELSE IF power < size THEN 2 * power ELSE power

(* grow_index_map(): the new cover, 0 when the old one will do. *)
NewCover(size) ==
  IF size <= (Cover(indexMap) * 2) \div 3 THEN 0
  ELSE 2 * MostSignificant((Larger(size, START_PRIME) * 3) \div 2 + 1)

-----------------------------------------------------------------------------
(* insert_impl() *)
Insert(k) ==
  LET next == Len(store)
      newSize == NewStoreSize(next + 1)
      kept == IF newSize > 0 THEN Compacted(store) ELSE store
      cover == Larger(NewCover(next + 1), Cover(indexMap))
      map == IF newSize > 0 \/ NewCover(next + 1) > 0 THEN RebuiltIndex(kept, cover) ELSE indexMap
  IN /\ Find(k) = INVALID
     /\ newSize <= MaxStore
     /\ storeSize' = Larger(newSize, storeSize)
     /\ store' = Append(kept, k)
     /\ indexMap' = [map EXCEPT ![Found(k, kept, map).mapIndex] = Len(kept)]
     /\ inserted' = Append(inserted, k)

(* erase( find( k ) ): follows the probe to the slot with that place. *)
Erase(k) ==
  /\ Find(k) # INVALID
  /\ LET path == Probe(Hash[k], Cover(indexMap))
         slot == CHOOSE i \in DOMAIN path:
                   /\ indexMap[path[i]] = Find(k)
                   /\ \A j \in 0 .. i - 1: indexMap[path[j]] # Find(k)
     IN indexMap' = [indexMap EXCEPT ![path[slot]] = ERASED]
  /\ store' = [store EXCEPT ![Find(k) + 1] = EMPTY]
  /\ inserted' = RemoveAt(inserted, CHOOSE i \in DOMAIN inserted: inserted[i] = k)
  /\ UNCHANGED storeSize

Compact ==
  /\ Size \div 2 <= Erased
  /\ store' = Compacted(store)
  /\ indexMap' = RebuiltIndex(store', Cover(indexMap))
  /\ UNCHANGED <<storeSize, inserted>>

Resize(size) ==
  /\ NewCover(size) > 0
  /\ indexMap' = RebuiltIndex(store, NewCover(size))
  /\ UNCHANGED <<store, storeSize, inserted>>

Clear ==
  /\ store' = <<>>
  /\ indexMap' = [i \in DOMAIN indexMap |-> INVALID]
  /\ inserted' = <<>>
  /\ UNCHANGED storeSize

Next ==
  \/ \E k \in Keys: Insert(k) \/ Erase(k)
  \/ Compact \/ Clear
  \/ \E size \in Sizes: Resize(size)

Spec == Init /\ [][Next]_hashVars

-----------------------------------------------------------------------------
TypeOK ==
  /\ store \in Seq(Keys \cup {EMPTY}) /\ Len(store) <= storeSize
  /\ storeSize \in 0 .. MaxStore
  /\ indexMap \in [DOMAIN indexMap -> {ERASED, INVALID} \cup (0 .. Len(store) - 1)]
  /\ inserted \in Seq(Keys)

(* A value that was inserted and not erased is found, and nothing else is,  *)
(* whatever collisions, erased slots and rebuilt indices lie between.       *)
LookupIsRight ==
  \A k \in Keys: IF k \in Range(inserted) THEN Find(k) >= 0 /\ At(store, Find(k)) = k
                 ELSE Find(k) = INVALID

(* The values come in the order they were inserted in.                      *)
OrderIsKept == Compacted(store) = inserted

(* Every probe ends: there is a slot that was never used.                   *)
ProbeEnds == DOMAIN indexMap = {} \/ \E i \in DOMAIN indexMap: indexMap[i] = INVALID
=============================================================================
