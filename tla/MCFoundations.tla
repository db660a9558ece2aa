---------------------------- MODULE MCFoundations ----------------------------
(* Model-checking instance of what the rest of the library stands on: the    *)
(* semaphore, events, containers, streams, algorithms, numbers and grammars. *)
(* They share no state, so a behaviour is one of a single part, its subject. *)
EXTENDS Foundations

VARIABLES
  subject,
  eventMutex, signaled, waiter, signaller, signals,
  cells, ringStart, ringSize, ringContent,
  chunks, dequeStart, dequeSize, allocated, dequeContent,
  tree, treeStage, pivot, removed, treeContent,
  range, number, grammar,
  log, said, saying, closed,
  listHeap, listValue, listContent

eventVars   == <<eventMutex, signaled, waiter, signaller, signals>>
ringVars    == <<cells, ringStart, ringSize, ringContent>>
dequeVars   == <<chunks, dequeStart, dequeSize, allocated, dequeContent>>
treeVars    == <<tree, treeStage, pivot, removed, treeContent>>
listVars    == <<listHeap, listValue, listContent>>
logVars     == <<log, said, saying, closed>>

(* Three hashes that collide in the small tables and one that does not. *)
HashesCollide == [k \in Keys |-> CASE k = "k1" -> 0 [] k = "k2" -> 8 [] k = "k3" -> 32 [] OTHER -> 1]

Event   == INSTANCE HEvent WITH Signallers <- {"s1", "s2"}, MaxSignals <- 2
Ring    == INSTANCE HRing WITH
             Values <- {"v1", "v2", "v3"}, Capacities <- {2, 3}, MaxCapacity <- 4,
             BeyondTheEnd <- FALSE,
             start <- ringStart, size <- ringSize, content <- ringContent
Deque   == INSTANCE HDeque WITH
             Values <- {"v1", "v2"}, ValuesPerChunk <- 2, MinChunks <- 4, MaxSize <- 7,
             ResizedToNothing <- FALSE,
             start <- dequeStart, size <- dequeSize, content <- dequeContent
Tree    == INSTANCE HSBBSTree WITH Keys <- 1 .. 7, stage <- treeStage, content <- treeContent
List    == INSTANCE HList WITH
             Lists <- {"l1", "l2"}, Nodes <- 1 .. 4, ListKeys <- 1 .. 2,
             SortThresholds <- {1, 2, 7}, MovesToOwnEnd <- FALSE,
             heap <- listHeap, value <- listValue, content <- listContent
(* The fetcher of a key needs all that come before it.                       *)
FetchedBefore == [k \in CacheKeys |-> 1 .. (k - 1)]

(* A message in two pieces of the buffer, and one after an empty one.        *)
StreamInputs == {<<"c", "c", "d">>, <<"d", "c", "d">>}
Log     == INSTANCE HLog WITH IllLogs <- {}, MaxStatements <- 4, MaxPieces <- 2
Ranges  == INSTANCE Algorithm WITH
             SortKeys <- 1 .. 4, MaxRange <- 5, SortThreshold <- 3, MergeThreshold <- 3,
             Repeated <- FALSE, FullAtEnd <- FALSE
(* Whole numbers of up to three leafs and fractions, exact and not.          *)
Written(negative, integral, fractional) ==
  [negative |-> negative, integral |-> integral, fractional |-> fractional]
Numbers == INSTANCE HNumber WITH
             Radix <- 2, LeafDigits <- 2, DefaultPrecision <- 3, MinPrecision <- 2,
             KaratsubaThreshold <- 2, MaxIntegral <- 2, MaxFractional <- 2, IllNumbers <- {},
             Literals <- {Written(FALSE, <<1>>, <<>>), Written(TRUE, <<1, 1>>, <<>>),
               Written(FALSE, <<>>, <<1>>), Written(TRUE, <<>>, <<0, 0, 1>>),
               Written(FALSE, <<1, 1, 0, 1>>, <<0, 1, 1>>),
               Written(FALSE, <<1, 0, 1, 1, 1, 1>>, <<>>)}

(* Every input of one letter, and some that end rules at other places.       *)
Grammar == INSTANCE ExecutingParser WITH
             Characters <- {<<"a", TRUE>>, <<"b", TRUE>>, <<"b", FALSE>>},
             MaxRules <- 4, IllUses <- {},
             ParserInputs <- {<<>>, <<"a">>, <<"b">>, <<"a", "_">>, <<"_", "b">>, <<"a", "b">>,
                              <<"a", "a", "b">>, <<"b", "_", "a">>, <<"a", "_", "a", "a">>}

Subjects == {"semaphore", "event", "pool", "hash", "pointer", "ring", "deque", "list", "tree",
             "cache", "stream", "memory", "log", "algorithms", "numbers", "grammar"}

FoundationsInit ==
  /\ subject \in Subjects
  /\ Init /\ Event!Init
  /\ Pool!Init /\ Hash!Init /\ Pointer!Init /\ Ring!Init /\ Deque!Init /\ List!Init /\ Tree!Init
  /\ Cache!Init /\ Stream!Init /\ Memory!Init
  /\ Log!Init /\ Ranges!InitRange
  /\ Numbers!InitNumber /\ Grammar!InitGrammar
  /\ subject # "stream" => input = <<"c", "c", "d">> /\ bufferedIO /\ blocking
  /\ subject # "memory" => observer

Synchronisation == <<vars, eventVars>>
Containers      == <<poolVars, hashVars, pointerVars, ringVars, dequeVars, listVars, treeVars, cacheVars>>
Data            == <<streamVars, memoryVars, logVars, range, number, grammar>>

FoundationsNext ==
  /\ UNCHANGED subject
  /\ \/ /\ subject = "semaphore" /\ Next
        /\ UNCHANGED <<eventVars, Containers, Data>>
     \/ /\ subject = "event" /\ Event!Next
        /\ UNCHANGED <<vars, Containers, Data>>
     \/ /\ subject = "pool" /\ Pool!Next
        /\ UNCHANGED <<hashVars, pointerVars, ringVars, dequeVars, listVars, treeVars, cacheVars, Synchronisation, Data>>
     \/ /\ subject = "hash" /\ Hash!Next
        /\ UNCHANGED <<poolVars, pointerVars, ringVars, dequeVars, listVars, treeVars, cacheVars, Synchronisation, Data>>
     \/ /\ subject = "pointer" /\ Pointer!Next
        /\ UNCHANGED <<poolVars, hashVars, ringVars, dequeVars, listVars, treeVars, cacheVars, Synchronisation, Data>>
     \/ /\ subject = "ring" /\ Ring!Next
        /\ UNCHANGED <<poolVars, hashVars, pointerVars, dequeVars, listVars, treeVars, cacheVars, Synchronisation, Data>>
     \/ /\ subject = "deque" /\ Deque!Next
        /\ UNCHANGED <<poolVars, hashVars, pointerVars, ringVars, listVars, treeVars, cacheVars, Synchronisation, Data>>
     \/ /\ subject = "list" /\ List!Next
        /\ UNCHANGED <<poolVars, hashVars, pointerVars, ringVars, dequeVars, treeVars, cacheVars, Synchronisation, Data>>
     \/ /\ subject = "tree" /\ Tree!Next
        /\ UNCHANGED <<poolVars, hashVars, pointerVars, ringVars, dequeVars, listVars, cacheVars, Synchronisation, Data>>
     \/ /\ subject = "cache" /\ Cache!Next
        /\ UNCHANGED <<poolVars, hashVars, pointerVars, ringVars, dequeVars, listVars, treeVars, Synchronisation, Data>>
     \/ /\ subject = "stream" /\ Stream!Next
        /\ UNCHANGED <<memoryVars, logVars, range, number, grammar, Synchronisation, Containers>>
     \/ /\ subject = "memory" /\ Memory!Next
        /\ UNCHANGED <<streamVars, logVars, range, number, grammar, Synchronisation, Containers>>
     \/ /\ subject = "log" /\ Log!Next
        /\ UNCHANGED <<streamVars, memoryVars, range, number, grammar, Synchronisation, Containers>>
     \/ /\ subject = "algorithms" /\ Ranges!Extend
        /\ UNCHANGED <<streamVars, memoryVars, logVars, number, grammar, Synchronisation, Containers>>
     \/ /\ subject = "numbers" /\ Numbers!NextNumber
        /\ UNCHANGED <<streamVars, memoryVars, logVars, range, grammar, Synchronisation, Containers>>
     \/ /\ subject = "grammar" /\ (Grammar!Make \/ Grammar!Define)
        /\ UNCHANGED <<streamVars, memoryVars, logVars, range, number, Synchronisation, Containers>>

FoundationsSpec ==
  /\ FoundationsInit
  /\ [][FoundationsNext]_<<subject, Synchronisation, Containers, Data>>
  /\ Fairness
  /\ Event!Promptness /\ WF_eventVars(subject = "event" /\ Event!Wait)

-----------------------------------------------------------------------------
(* The variables of every part keep their types. *)
TypesOK ==
  /\ TypeOK /\ Event!TypeOK
  /\ Pool!TypeOK /\ Hash!TypeOK /\ Pointer!TypeOK /\ Ring!TypeOK /\ Deque!TypeOK /\ List!TypeOK
  /\ Tree!TypeOK /\ Cache!TypeOK /\ Stream!TypeOK /\ Memory!TypeOK
  /\ Log!TypeOK /\ Ranges!RangeType /\ Numbers!NumberType /\ Grammar!TypeOK

(* Those who wait go on: units of the semaphore are taken, and what          *)
(* HEvent::signal() signals is consumed.                                     *)
WaitersGoOn == UnitsAreTaken /\ Event!SignalIsConsumed

(* Each container holds the sequence or the set that the calls made of it,   *)
(* in the chunks and elements it allocated and did not free; searches of the *)
(* tree are short, and the log has every line.                               *)
ContentsAreKept ==
  /\ Ring!RingIsASequence
  /\ Deque!DequeIsASequence /\ Deque!ChunksAreUsed
  /\ List!ListIsASequence /\ List!ErasedIsGone
  /\ Log!LinesAreLogged
  /\ subject = "tree" => Tree!TreeIsASet /\ Tree!TreeIsBalanced

(* The algorithms on ranges do what their comments say, and the arithmetic  *)
(* of HNumber is that of the values its numbers stand for.                  *)
AlgorithmsAreRight ==
  /\ subject = "algorithms" =>
       /\ Ranges!RotatesParts /\ Ranges!SearchesAreRight /\ Ranges!MergesAreStable
       /\ Ranges!SortsAreRight /\ Ranges!PlacesAreRight /\ Ranges!NthIsRight
       /\ Ranges!PartitionsAreRight /\ Ranges!PermutationsFollow
  /\ subject = "numbers" =>
       /\ Numbers!NumberIsNormal /\ Numbers!OrderIsRight /\ Numbers!SumsAreRight
       /\ Numbers!ProductsAreRight /\ Numbers!QuotientsAreRight /\ Numbers!ModulosAreRight
       /\ Numbers!IntegralsAreRight /\ Numbers!RoundingIsRight /\ Numbers!PowersAreRight

(* A rule that calls itself for ever is refused, and what is executed is     *)
(* what the grammar derives.                                                 *)
GrammarsAreObeyed == Grammar!RecursionIsRefused /\ Grammar!StepsAreDerived
=============================================================================
