-------------------------------- MODULE HLog --------------------------------
(***************************************************************************)
(* HLog of src/hcore/hlog.cxx, a stream of lines with a level each.  Until *)
(* rehash() names the file of the log, lines go to a temporary file with   *)
(* their level before them; rehash() moves those that are important enough *)
(* to the log.  Text goes through two buffers: that of the HLog, which is  *)
(* an HStreamInterface, and that of the HFile it writes to.  Whether a     *)
(* piece of text fills a buffer is left open.  One thread at a time makes  *)
(* a statement, as under acquire() of HSynchronizedStream.                 *)
(***************************************************************************)
EXTENDS Naturals, Sequences, SequencesExt

CONSTANTS
  IllLogs,       \* uses that mix up lines and are made nonetheless, of AllIllLogs
  MaxStatements, \* bound: statements
  MaxPieces      \* bound: pieces of text of one statement

(* Levels: one that is named in the log, the default one, and one too low.  *)
Levels == 0 .. 2
Warning == 0
LogLevel == 1

AllIllLogs == {"no level after a dropped line", "level within line", "printf within line",
  "rehash within line", "exit before rehash"}

VARIABLES
  log,           \* the HLog, see LogStates
  said,          \* the statements that were made: level and number of pieces
  saying,        \* whether the last of them goes on
  closed         \* whether ~HLog() has run

logVars == <<log, said, saying, closed>>

(* Text is a sequence of pieces, line ends and what is written before lines.*)
End        == <<"end", 0>>
Text(n, k) == <<"text", n, k>>
Level(l)   == <<"level", l>>
Time(l)    == <<"time", IF l <= Warning THEN l ELSE LogLevel>>

(* cache and fileCache are the two buffers, disk is what the system has of  *)
(* the file, and the others are _realMode, _newLine and _type.              *)
LogStates ==
  [cache: Seq(Seq(STRING \cup Nat)), fileCache: Seq(Seq(STRING \cup Nat)),
   disk: Seq(Seq(STRING \cup Nat)), realMode: BOOLEAN, newLine: BOOLEAN, type: Levels]

(* The constructor has logged that the process was started. *)
Init ==
  /\ log = [cache |-> <<>>, fileCache |-> <<>>, disk |-> <<Level(LogLevel), Text(1, 1), End>>,
            realMode |-> FALSE, newLine |-> TRUE, type |-> LogLevel]
  /\ said = <<[level |-> LogLevel, pieces |-> 1]>>
  /\ saying = FALSE /\ closed = FALSE

-----------------------------------------------------------------------------
(* timestamp() *)
Stamp(g) == IF ~ g.newLine THEN <<>>
            ELSE IF g.realMode THEN <<Time(g.type)>> ELSE <<Level(g.type)>>

(* _file::ref().write(), which may fill the buffer; and flush() of it.      *)
InFile(g, text, full) ==
  IF full THEN [g EXCEPT !.disk = @ \o g.fileCache \o text, !.fileCache = <<>>]
          ELSE [g EXCEPT !.fileCache = @ \o text]

(* do_write() and eol_reset(): a line that is not important enough is       *)
(* dropped, and the end of a line puts the level back and flushes.          *)
Filtered(g) == g.realMode /\ g.type > LogLevel

DoWrite(g, text, full) ==
  IF Filtered(g) THEN g
  ELSE LET ends == Last(text) = End
       IN [InFile(g, Stamp(g) \o text, ends \/ full) EXCEPT
             !.newLine = ends, !.type = IF ends THEN LogLevel ELSE @]

(* do_output() of HStreamInterface: the text stays in the buffer, or fills  *)
(* it, or comes after what was there and did not leave enough room.         *)
Emptied(g, full) ==
  IF g.cache = <<>> THEN g ELSE [DoWrite(g, g.cache, full) EXCEPT !.cache = <<>>]

Put(g, text, full) ==
  LET longer(h) == [h EXCEPT !.cache = @ \o text]
  IN {longer(g), Emptied(longer(g), full), longer(Emptied(g, full)),
      Emptied(longer(Emptied(g, full)), full)}

(* flush() of both. *)
Flushed(g) ==
  LET h == Emptied(g, TRUE)
  IN [h EXCEPT !.disk = @ \o h.fileCache, !.fileCache = <<>>]

-----------------------------------------------------------------------------
(* log( level ) or log alone, which take the level of the next line.        *)
Begin(l) ==
  /\ ~ saying /\ ~ closed
  /\ Len(said) < MaxStatements
  /\ said' = Append(said, [level |-> l, pieces |-> 0])
  /\ saying' = TRUE
  /\ UNCHANGED closed

WithLevel == \E l \in Levels: Begin(l) /\ log' = [log EXCEPT !.type = l]

WithoutLevel ==
  /\ log.type = LogLevel \/ "no level after a dropped line" \in IllLogs
  /\ Begin(LogLevel) /\ UNCHANGED log

(* << text, after another thread called log( level ), which takes no lock,  *)
(* or vformat(), which goes past the buffer of the HLog.                     *)
Meanwhile ==
  {log} \cup IF "level within line" \in IllLogs THEN {[log EXCEPT !.type = l] : l \in Levels}
             ELSE {}

PutBy(g, text, full) ==
  Put(g, text, full)
    \cup IF "printf within line" \in IllLogs THEN {DoWrite(g, text, full)} ELSE {}

Say ==
  /\ saying
  /\ Last(said).pieces < MaxPieces
  /\ said' = [said EXCEPT ![Len(said)].pieces = @ + 1]
  /\ \E full \in BOOLEAN, g \in Meanwhile: log' \in PutBy(g, <<Text(Len(said), Last(said').pieces)>>, full)
  /\ UNCHANGED <<saying, closed>>

(* << flush *)
Flush ==
  /\ saying
  /\ log' = Flushed(log)
  /\ UNCHANGED <<said, saying, closed>>

(* << endl *)
Endl ==
  /\ saying
  /\ \E full \in BOOLEAN: \E g \in Put(log, <<End>>, full): log' = Flushed(g)
  /\ saying' = FALSE
  /\ UNCHANGED <<said, closed>>

(* log( level, "...\n" ), vformat(): past the buffer of the HLog.           *)
Printf(l) ==
  /\ ~ saying /\ ~ closed
  /\ Len(said) < MaxStatements
  /\ said' = Append(said, [level |-> l, pieces |-> 1])
  /\ log' = DoWrite([log EXCEPT !.type = l], <<Text(Len(said) + 1, 1), End>>, TRUE)
  /\ UNCHANGED <<saying, closed>>

-----------------------------------------------------------------------------
(* The lines of a text, the last one without its end where it has none.     *)
LinesOf(text) ==
  LET add(lines, t) ==
        IF lines = <<>> \/ Last(Last(lines)) = End THEN Append(lines, <<t>>)
        ELSE [lines EXCEPT ![Len(lines)] = Append(@, t)]
  IN FoldLeft(add, <<>>, text)

(* The first ten characters of a line are its level. *)
LevelOf(line) == IF line[1][1] = "level" THEN line[1][2] ELSE 0

Moved(line) == IF LevelOf(line) > LogLevel THEN <<>> ELSE <<Time(LevelOf(line))>> \o Tail(line)

(* release() leaves the buffer of the file as it is. *)
Rehashed(g) ==
  LET lines == LinesOf(g.disk)
  IN [g EXCEPT
        !.realMode = TRUE,
        !.disk = g.fileCache \o FlattenSeq([i \in DOMAIN lines |-> Moved(lines[i])]),
        !.fileCache = <<>>,
        !.type = IF Last(Last(lines)) = End THEN LogLevel ELSE LevelOf(Last(lines))]

Rehash ==
  /\ ~ closed /\ ~ log.realMode
  /\ saying => "rehash within line" \in IllLogs
  /\ log' = Rehashed(log)
  /\ UNCHANGED <<said, saying, closed>>

(* ~HLog(): the last line goes past the buffer of the HLog and is flushed   *)
(* when the file is closed.  What was not moved yet is moved to stderr.     *)
Close ==
  /\ ~ saying /\ ~ closed
  /\ log.realMode \/ "exit before rehash" \in IllLogs
  /\ said' = Append(said, [level |-> LogLevel, pieces |-> 1])
  /\ LET g == InFile(log, Stamp(log) \o <<Text(Len(said) + 1, 1), End>>, FALSE)
     IN log' = Flushed(IF g.realMode THEN g ELSE Rehashed(g))
  /\ closed' = TRUE
  /\ UNCHANGED saying

Next ==
  \/ WithLevel \/ WithoutLevel
  \/ Say \/ Flush \/ Endl
  \/ \E l \in Levels: Printf(l)
  \/ Rehash \/ Close

Spec == Init /\ [][Next]_logVars

-----------------------------------------------------------------------------
TypeOK ==
  /\ log.realMode \in BOOLEAN /\ log.newLine \in BOOLEAN /\ log.type \in Levels
  /\ saying \in BOOLEAN /\ closed \in BOOLEAN
  /\ said \in Seq([level: Levels, pieces: 0 .. MaxPieces])

(* A line of the log, or of the temporary file, for a statement.            *)
LineFor(i) ==
  LET l == said[i].level
  IN IF log.realMode /\ l > LogLevel THEN <<>>
     ELSE <<IF log.realMode THEN Time(l) ELSE Level(l)>>
            \o [k \in 1 .. said[i].pieces |-> Text(i, k)] \o <<End>>

(* The log has a line for every statement of sufficient level, with the     *)
(* level of that statement and all of its text, in the order of the         *)
(* statements, whether they were made before rehash() or after it.          *)
LinesAreLogged ==
  ~ saying => /\ log.disk = FlattenSeq([i \in DOMAIN said |-> LineFor(i)])
              /\ log.cache = <<>> /\ log.fileCache = <<>>
=============================================================================
