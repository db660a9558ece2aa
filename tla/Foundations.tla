---------------------------- MODULE Foundations ------------------------------
(***************************************************************************)
(* What the rest of the library is built with: the semaphore, the pool of  *)
(* memory, the pointers that own objects, the cache, the streams and the   *)
(* hash container.                                                         *)
(* Parts that share no state are together the conjunction of their         *)
(* specifications.                                                         *)
(***************************************************************************)
EXTENDS HSemaphore, Sequences

CONSTANTS
  Blocks, Cells,                  \* of the pool
  Objects, Holders, Observers,    \* of the pointers
  CacheKeys, FetchedWith, MaxEntries,    \* of the cache
  Bytes, RingSize, MaxProvided,   \* of the streams in memory
  Inputs, IOSize, Everything, MaxWritten,    \* of the buffered streams
  Keys, HashOf, Sizes, MaxStore   \* of the hash containers

VARIABLES
  poolBlocks, firstFree, head, used, place, link, taken,
  target, holders, observers, object, shared, todo, faulty,
  entries, lookup, fetching, recent,
  observer, memory, memorySize, validBytes, cursorRead, cursorWrite, pending, ahead,
  cache, room, cacheContent, bufferedIO, blocking, valid, request, got, input, rest, output,
  consumed, written,
  store, storeSize, indexMap, inserted

poolVars    == <<poolBlocks, firstFree, head, used, place, link, taken>>
pointerVars == <<target, holders, observers, object, shared, todo, faulty>>
cacheVars   == <<entries, lookup, fetching, recent>>
memoryVars  == <<observer, memory, memorySize, validBytes, cursorRead, cursorWrite, pending,
  ahead>>
hashVars    == <<store, storeSize, indexMap, inserted>>
streamVars  == <<cache, room, cacheContent, bufferedIO, blocking, valid, request, got, input,
  rest, output, consumed, written>>

(* The instances of modules of proofs are instances of the component with    *)
(* what is proved about it.                                                  *)
Pool    == INSTANCE HPoolProofs
Pointer == INSTANCE HPointerProofs WITH FromMembers <- FALSE, Cycles <- FALSE
Cache   == INSTANCE HCache
Memory  == INSTANCE HMemory WITH Overwrites <- FALSE
Hash    == INSTANCE HOrderedHashContainer WITH Hash <- HashOf
Stream  == INSTANCE HStreamInterface WITH IllUses <- {}

ASSUME CellsAssumption == Pool!CellsAreSeveral

(* The names of the program's pointers are none of those in objects.         *)
ASSUME PointersAssumption == Pointer!PointersAreApart

(* A fetcher obtains no key whose fetcher it runs for: of keys that are      *)
(* obtained in turn there is one whose fetcher needs none of them.           *)
ASSUME CacheAssumption ==
  /\ MaxEntries \in Nat \ {0} /\ FetchedWith \in [CacheKeys -> SUBSET CacheKeys]
  /\ \A S \in (SUBSET CacheKeys) \ {{}}: \E k \in S: FetchedWith[k] \cap S = {}

ASSUME BytesAssumption ==
  Bytes \in (SUBSET Nat) \ {{}} /\ RingSize \in Nat \ {0} /\ MaxProvided \in Nat

ASSUME InputsAssumption ==
  Inputs \subseteq Seq(Stream!Chars) /\ IOSize \in Nat \ {0} /\ Everything \in Nat

(* As many values as there are numbers for in 32 bits.                       *)
ASSUME KeysAssumption ==
  /\ Hash!EMPTY \notin Keys
  /\ MaxStore \in 0 .. 2 ^ 29 /\ Sizes \subseteq 1 .. 2 ^ 29

(* A probe comes to every slot: x -> 5 * x + 1 does, modulo a power of two,  *)
(* after the hash is shifted out.                                            *)
Covers ==
  {2 * Hash!MostSignificant((Hash!Larger(n, Hash!START_PRIME) * 3) \div 2 + 1):
     n \in (1 .. MaxStore) \cup Sizes}

ASSUME ProbesAssumption ==
  \A k \in Keys, c \in Covers: {Hash!Probe(HashOf[k], c)[i]: i \in 0 .. c + 13} = 0 .. c - 1

MemorySpec == Pool!Spec /\ Pointer!Spec

(* Cells, counters and objects are there while they are used, and what is    *)
(* not used is given back: HPool gives out no cell twice, and HPointer       *)
(* neither uses nor deletes an object that is deleted.                       *)
MemoryIsAccountedFor ==
  /\ Pool!FreeCellsAreListed /\ Pool!FullBlocksComeFirst /\ Pool!UnusedPoolIsSmall
  /\ Pointer!NoMemoryIsMissed /\ Pointer!HeldIsAlive

ValuesSpec == Cache!Spec /\ Memory!Spec /\ Stream!Spec /\ Hash!Spec

(* The cache has the entries that were asked for last, and of a stream       *)
(* nothing is lost, repeated or reordered, in memory or in the buffer of a   *)
(* device, whatever both directions do in turn; a stream whose device blocks *)
(* is called bad at the end of its input only.  The hash container finds     *)
(* what was inserted and not erased, in the order of insertion, and every    *)
(* search of it ends.                                                        *)
ValuesAreKept ==
  /\ Cache!EntriesAreRecent /\ Memory!UnreadIsKept
  /\ Stream!InputIsKept /\ Stream!OutputIsKept /\ Stream!NothingIsHeldBack
  /\ Stream!BadIsAtTheEnd
  /\ Hash!LookupIsRight /\ Hash!OrderIsKept /\ Hash!ProbeEnds

(* A message read from a stream ends where it was asked to, however it       *)
(* comes in and whatever was read ahead before, or where the device gave     *)
(* nothing: with the input, if it blocks, and the stream is called bad.      *)
MessagesEnd == Stream!MessagesEnd
=============================================================================
