------------------------------- MODULE HCache --------------------------------
(***************************************************************************)
(* HCache of src/hcore/hcache.hxx: a bounded number of values, from which  *)
(* the one that was not used for the longest time goes.  The fetcher that  *)
(* gives a value may obtain others from the same cache, and may throw.     *)
(***************************************************************************)
EXTENDS Naturals, Sequences, FiniteSets, SequencesExt

CONSTANTS
  CacheKeys,     \* keys
  FetchedWith,   \* the keys that the fetcher of a key obtains for it
  MaxEntries     \* _maxEntriesCount

VARIABLES
  entries,       \* _store, from its front: the keys of the entries
  lookup,        \* _lookup: the keys that have an entry
  fetching,      \* keys whose fetchers run, each called by the one before it
  recent         \* all keys, the last used first

cacheVars == <<entries, lookup, fetching, recent>>

Init == entries = <<>> /\ lookup = {} /\ fetching = <<>> /\ recent = <<>>

MayObtain(k) == fetching # <<>> => k \in FetchedWith[Last(fetching)]

(* The place of k, one behind the last when it has none. *)
PlaceOf(s, k) ==
  CHOOSE i \in 1 .. Len(s) + 1: /\ i <= Len(s) => s[i] = k
                                /\ \A j \in 1 .. i - 1: s[j] # k

ToFront(s, k) ==
  <<k>> \o SubSeq(s, 1, PlaceOf(s, k) - 1) \o SubSeq(s, PlaceOf(s, k) + 1, Len(s))

(* obtain() of a key that is there. *)
Hit(k) ==
  /\ MayObtain(k) /\ k \in lookup
  /\ entries' = ToFront(entries, k)
  /\ recent' = ToFront(recent, k)
  /\ UNCHANGED <<lookup, fetching>>

(* Of another one: the fetcher is called before the entry is made. *)
Miss(k) ==
  /\ MayObtain(k) /\ k \notin lookup
  /\ fetching' = Append(fetching, k)
  /\ UNCHANGED <<entries, lookup, recent>>

Fetched ==
  /\ fetching # <<>>
  /\ LET k == Last(fetching)
         all == <<k>> \o entries
         full == Len(all) > MaxEntries
     IN /\ entries' = IF full THEN Front(all) ELSE all
        /\ lookup' = (lookup \cup {k}) \ (IF full THEN {Last(all)} ELSE {})
        /\ recent' = ToFront(recent, k)
  /\ fetching' = Front(fetching)

(* It throws, and so do those that called it. *)
FetcherThrows ==
  /\ fetching # <<>>
  /\ fetching' = <<>>
  /\ UNCHANGED <<entries, lookup, recent>>

Clear ==
  /\ fetching = <<>>
  /\ entries' = <<>> /\ lookup' = {} /\ recent' = <<>>
  /\ UNCHANGED fetching

Next == (\E k \in CacheKeys: Hit(k) \/ Miss(k)) \/ Fetched \/ FetcherThrows \/ Clear

Spec == Init /\ [][Next]_cacheVars

-----------------------------------------------------------------------------
TypeOK ==
  /\ entries \in Seq(CacheKeys) /\ recent \in Seq(CacheKeys) /\ fetching \in Seq(CacheKeys)
  /\ lookup \subseteq CacheKeys

(* The entries are those of the keys that were used last, each once and in *)
(* this order, and all of them are found: also when fetchers put others    *)
(* before, or let the oldest go, while a value was on its way.             *)
EntriesAreRecent ==
  /\ entries = SubSeq(recent, 1, Len(entries))
  /\ lookup = ToSet(entries) /\ Cardinality(lookup) = Len(entries)
  /\ Len(entries) = MaxEntries \/ Len(entries) = Len(recent)
=============================================================================
