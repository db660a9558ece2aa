-------------------------- MODULE HStreamInterface --------------------------
(***************************************************************************)
(* HStreamInterface of src/hcore/hstreaminterface.cxx: the buffer between  *)
(* an application and a device that is read from and written to, such as   *)
(* a socket.  One buffer, _cache, holds either input that was read ahead   *)
(* or output that was not written yet; _cacheContent tells which.          *)
(* A character is "d", the one that read_until() stops at, or another.     *)
(* The device gives the input in pieces of any size and may be interrupted.*)
(* It gives nothing once the input has ended, and one that does not block, *)
(* such as HZipStream, may give nothing at any time.                       *)
(***************************************************************************)
EXTENDS Integers, Sequences, FiniteSets, SequencesExt, FiniteSetsExt

CONSTANTS
  Inputs,        \* what the device may have for the application
  IOSize,        \* _ioBufferSize
  Everything,    \* the maximum that read_until() sets, greater than any input
  IllUses,       \* uses that lose data and are made nonetheless, of AllIllUses
  MaxWritten     \* bound: characters written by the application

VARIABLES
  cache,         \* the first _cachedBytes of _cache
  room,          \* size of _cache
  cacheContent,  \* _cacheContent
  bufferedIO,    \* _bufferedIO
  blocking,      \* whether the device gives nothing at the end of input only
  valid,         \* _valid
  request,       \* the read that is being made
  got,           \* its result
  input,         \* all input of the device
  rest,          \* what of it was not read
  output,        \* what the device was given
  consumed,      \* what the application read
  written        \* what the application wrote (bounded by MaxWritten)

streamVars == <<cache, room, cacheContent, bufferedIO, blocking, valid, request, got, input,
  rest, output, consumed, written>>

AllIllUses ==
  {"reset unwritten", "unread after write", "read some", "stop at first", "short write"}

Kinds    == {"until", "until and with", "while"}
Requests == [kind: Kinds, max: {2, Everything}]
NoRequest == [kind |-> "none", max |-> 0]
NoResult  == [text |-> <<>>, by |-> "none"]

Init ==
  /\ cache = <<>> /\ room = 1 /\ cacheContent = "read"
  /\ bufferedIO \in BOOLEAN /\ blocking \in BOOLEAN /\ valid = TRUE
  /\ request = NoRequest /\ got = NoResult
  /\ input \in Inputs /\ rest = input
  /\ output = <<>> /\ consumed = <<>> /\ written = <<>>

Idle == request = NoRequest

(* HChunk::realloc() takes powers of two and gives nothing back. *)
Grown(n) == IF n <= room THEN room ELSE Min({2 ^ k: k \in {j \in 0 .. n: 2 ^ j >= n}})

-----------------------------------------------------------------------------
(* Output.  What does not fit is written, with what was there before it.   *)
MaxWrite == Max({IOSize, room}) - Len(cache)

Write(data) ==
  /\ Idle
  /\ Len(written) + Len(data) <= MaxWritten
  /\ written' = written \o data
  /\ IF ~ bufferedIO \/ (cacheContent = "read" /\ cache # <<>>)
     THEN output' = output \o data /\ UNCHANGED <<cache, room, cacheContent>>
     ELSE LET kept  == IF Len(data) > MaxWrite THEN <<>> ELSE cache
              space == IF Len(data) > MaxWrite THEN MaxWrite + Len(cache) ELSE MaxWrite
              both  == kept \o data
              done  == IF kept = cache THEN output ELSE output \o cache
          IN IF Len(data) > space
             THEN /\ output' = done \o data /\ cache' = <<>>
                  /\ UNCHANGED <<room, cacheContent>>
             ELSE /\ room' = Grown(Len(both))
                  /\ IF Len(both) = room'
                     THEN output' = done \o both /\ cache' = <<>> /\ cacheContent' = "read"
                     ELSE output' = done /\ cache' = both /\ cacheContent' = "write"
  /\ UNCHANGED <<bufferedIO, blocking, valid, request, got, input, rest, consumed>>

(* The device throws, for a time-out, and has taken nothing.  The caller    *)
(* of write() does not know whether the data will be written: it will be,  *)
(* when the buffer was filled with it.                                     *)
WriteThrows(data) ==
  /\ Idle /\ bufferedIO /\ (cacheContent = "read" => cache = <<>>)
  /\ Len(written) + Len(data) <= MaxWritten
  /\ LET both == cache \o data
     IN \/ /\ Len(data) > MaxWrite + Len(cache) /\ cache # <<>>
           /\ output' = output \o cache /\ cache' = <<>>
           /\ UNCHANGED <<room, cacheContent, written>>
        \/ /\ Len(data) <= MaxWrite /\ Len(both) = Grown(Len(both))
           /\ room' = Grown(Len(both)) /\ cache' = both /\ cacheContent' = "write"
           /\ written' = written \o data
           /\ UNCHANGED output
  /\ UNCHANGED <<bufferedIO, blocking, valid, request, got, input, rest, consumed>>

Unwritten == cacheContent = "write" /\ cache # <<>>

(* flush(), and flush_write_buffer() before everything that reads.  If it  *)
(* throws, nothing has changed.  How much the device took is not looked at. *)
Taken == IF "short write" \in IllUses THEN 1 .. Len(cache) ELSE {Len(cache)}

FlushWriteBuffer ==
  IF Unwritten
  THEN /\ \E n \in Taken: output' = output \o SubSeq(cache, 1, n)
       /\ cache' = <<>> /\ cacheContent' = "read"
  ELSE UNCHANGED <<output, cache, cacheContent>>

Flush ==
  /\ Idle /\ FlushWriteBuffer
  /\ UNCHANGED <<room, bufferedIO, blocking, valid, request, got, input, rest, consumed, written>>

SetBufferedIO ==
  /\ Idle /\ FlushWriteBuffer
  /\ bufferedIO' = ~ bufferedIO
  /\ UNCHANGED <<room, blocking, valid, request, got, input, rest, consumed, written>>

-----------------------------------------------------------------------------
(* read_until_n() and read_while_n(), semantic_read().                     *)
StopsAt(kind, c) == (c = "d") = (kind # "while")

(* find_delim(): where the first such character is, 0 if there is none.    *)
FirstStop(kind, text) ==
  LET at == {i \in DOMAIN text: StopsAt(kind, text[i])}
  IN IF at = {} THEN 0 ELSE Min(at)

(* How much of the text is the answer, given where it stops. *)
UpTo(kind, stop) == IF kind = "until and with" THEN stop ELSE stop - 1

Prefix(text, n) == SubSeq(text, 1, n)
Without(text, n) == SubSeq(text, n + 1, Len(text))

Answer(text, n, by) ==
  /\ consumed' = consumed \o Prefix(text, n)
  /\ cache' = Without(text, n)
  /\ got' = [text |-> Prefix(text, n), by |-> by]
  /\ request' = NoRequest

(* From the buffer, if it has the delimiter or as much as was asked for.   *)
Ask(r) ==
  /\ Idle
  /\ LET ahead == IF Unwritten THEN <<>> ELSE cache
         part  == Prefix(ahead, Min({Len(ahead), r.max}))
         stop  == FirstStop(r.kind, part)
     IN /\ (r.kind = "until" /\ ahead = <<>> /\ IsPrefix(<<"d">>, rest)) => "stop at first" \in IllUses
        /\ output' = IF Unwritten THEN output \o cache ELSE output
        /\ cacheContent' = IF Unwritten THEN "read" ELSE cacheContent
        /\ IF stop > 0 THEN Answer(ahead, UpTo(r.kind, stop), "delimiter")
           ELSE IF Len(part) = r.max THEN Answer(ahead, r.max, "count")
           ELSE cache' = ahead /\ request' = r /\ got' = NoResult /\ UNCHANGED consumed
  /\ UNCHANGED <<room, bufferedIO, blocking, valid, input, rest, written>>

(* Mutated form: what was read before is not counted. *)
ReadSizeAsAsked == Min({IF bufferedIO THEN IOSize ELSE 1, request.max})

ReadSize == Min({IF bufferedIO THEN IOSize ELSE 1, request.max - Len(cache)})

(* do_read_some() or do_read() of the device gave n characters.            *)
ReadMore(n) ==
  /\ ~ Idle
  /\ n \in 1 .. Min({ReadSize, Len(rest)})
  /\ LET text == cache \o Prefix(rest, n)
         stop == FirstStop(request.kind, Prefix(rest, n))
         size == UpTo(request.kind, Len(cache) + stop)
     IN IF stop > 0
        THEN /\ valid' = (size > 0 \/ request.kind = "while")
             /\ Answer(text, size, "delimiter")
        ELSE IF Len(text) >= request.max
        THEN valid' = TRUE /\ Answer(text, Len(text), "count")
        ELSE cache' = text /\ UNCHANGED <<valid, consumed, got, request>>
  /\ rest' = Without(rest, n)
  /\ cacheContent' = "read"
  /\ room' = Grown(Len(cache) + ReadSize)
  /\ UNCHANGED <<bufferedIO, blocking, input, output, written>>

MayGiveNothing == rest = <<>> \/ ~ blocking

(* It gave nothing: what there is is the answer, and the stream is bad.    *)
ReadEnd ==
  /\ ~ Idle /\ MayGiveNothing
  /\ valid' = FALSE
  /\ Answer(cache, Len(cache), "end")
  /\ room' = Grown(Len(cache) + ReadSize)
  /\ UNCHANGED <<cacheContent, bufferedIO, blocking, input, rest, output, written>>

(* It was interrupted: there is no answer, and the buffer keeps what came. *)
ReadInterrupted ==
  /\ ~ Idle
  /\ request' = NoRequest /\ got' = [text |-> <<>>, by |-> "error"]
  /\ room' = Grown(Len(cache) + ReadSize)
  /\ UNCHANGED <<cache, cacheContent, bufferedIO, blocking, valid, input, rest, output, consumed, written>>

-----------------------------------------------------------------------------
(* do_peek(): one character is in the buffer afterwards, if one was given. *)
Peek ==
  /\ Idle
  /\ LET ahead == IF Unwritten THEN <<>> ELSE cache
     IN \E n \in 0 .. 1:
        /\ IF n = 1 THEN ahead = <<>> /\ valid /\ rest # <<>>
                    ELSE ahead # <<>> \/ ~ valid \/ MayGiveNothing
        /\ cache' = ahead \o Prefix(rest, n)
        /\ rest' = Without(rest, n)
        /\ cacheContent' = IF Unwritten \/ n = 1 THEN "read" ELSE cacheContent
  /\ output' = IF Unwritten THEN output \o cache ELSE output
  /\ UNCHANGED <<room, bufferedIO, blocking, valid, request, got, input, consumed, written>>

(* read(), do_input(): what the buffer has, and once from the device for   *)
(* the part that is missing.  The device gives some of it, is interrupted  *)
(* and gives none, or has nothing to give.                                 *)
Input(size, n) ==
  /\ Idle
  /\ LET ahead == IF Unwritten THEN <<>> ELSE cache
         fromCache == Min({Len(ahead), size})
         missing == size - fromCache
     IN /\ n \in 0 .. Min({missing, Len(rest)})
        /\ consumed' = consumed \o Prefix(ahead, fromCache) \o Prefix(rest, n)
        /\ cache' = Without(ahead, fromCache)
        /\ rest' = Without(rest, n)
        /\ \/ valid' = valid
           \/ n = 0 /\ missing > 0 /\ MayGiveNothing /\ valid' = FALSE
  /\ output' = IF Unwritten THEN output \o cache ELSE output
  /\ cacheContent' = IF Unwritten THEN "read" ELSE cacheContent
  /\ UNCHANGED <<room, bufferedIO, blocking, request, got, input, written>>

(* unread(): the last character read is put back.                          *)
Unread ==
  /\ Idle /\ consumed # <<>>
  /\ cacheContent = "read" \/ Unwritten \/ "unread after write" \in IllUses
  /\ cache' = <<Last(consumed)>> \o (IF Unwritten THEN <<>> ELSE cache)
  /\ cacheContent' = IF Unwritten THEN "read" ELSE cacheContent
  /\ output' = IF Unwritten THEN output \o cache ELSE output
  /\ consumed' = Front(consumed)
  /\ room' = Grown(Len(cache'))
  /\ UNCHANGED <<bufferedIO, blocking, valid, request, got, input, rest, written>>

(* read_some() asks the device at once, whatever the buffer has.           *)
ReadSome ==
  /\ Idle /\ rest # <<>>
  /\ cache = <<>> \/ "read some" \in IllUses
  /\ consumed' = Append(consumed, Head(rest)) /\ rest' = Tail(rest)
  /\ UNCHANGED <<cache, room, cacheContent, bufferedIO, blocking, valid, request, got, input, output,
                 written>>

(* reset() forgets the buffer; seek() calls it.                            *)
Reset ==
  /\ Idle
  /\ cache = <<>> \/ (Unwritten /\ "reset unwritten" \in IllUses)
  /\ cache' = <<>> /\ valid' = TRUE
  /\ UNCHANGED <<room, cacheContent, bufferedIO, blocking, request, got, input, rest, output, consumed,
                 written>>

Next ==
  \/ \E data \in {<<"x">>, <<"x", "y", "z">>}: Write(data) \/ WriteThrows(data)
  \/ Flush \/ SetBufferedIO
  \/ \E r \in Requests: Ask(r)
  \/ \E n \in 1 .. IOSize: ReadMore(n)
  \/ ReadEnd \/ ReadInterrupted
  \/ Peek \/ Unread \/ ReadSome \/ Reset
  \/ \E size \in {1, 3}, n \in 0 .. 3: Input(size, n)

Spec == Init /\ [][Next]_streamVars

-----------------------------------------------------------------------------
Chars == {"c", "d"}

TypeOK ==
  /\ cache \in Seq({"c", "d", "x", "y", "z"}) /\ room \in Nat /\ Len(cache) <= room
  /\ cacheContent \in {"read", "write"}
  /\ bufferedIO \in BOOLEAN /\ blocking \in BOOLEAN /\ valid \in BOOLEAN
  /\ request \in Requests \cup {NoRequest}
  /\ got.text \in Seq(Chars) /\ got.by \in {"none", "delimiter", "count", "end", "error"}
  /\ rest \in Seq(Chars) /\ consumed \in Seq(Chars)
  /\ IsPrefix(output, written)

(* The application reads the input of the device in its order and misses   *)
(* nothing: however it mixes its reads, and across interruptions and       *)
(* flushes of the buffer that both directions share, what it read, what    *)
(* was read ahead and the rest make up the input.                          *)
InputIsKept == input = consumed \o (IF cacheContent = "read" THEN cache ELSE <<>>) \o rest

(* The device gets what the application writes, in order and once; at most *)
(* the buffer is missing.                                                  *)
OutputIsKept == written = output \o (IF cacheContent = "write" THEN cache ELSE <<>>)

(* While the stream waits for the device nothing of the output is held     *)
(* back: the other side may wait for it before it answers.                 *)
NothingIsHeldBack == ~ Idle => output = written

(* A message ends where it was asked to, whatever the pieces were that it  *)
(* came in: at the first delimiter, by its length, or where the device     *)
(* gave nothing.  Then all that was read ahead is in it, the stream is     *)
(* called bad, and if the device blocks it is the end of the input.        *)
MessagesEnd ==
  [][ request # NoRequest /\ request' = NoRequest /\ got'.by # "error" =>
        LET text == got'.text
            stop == FirstStop(request.kind, text)
        IN /\ stop \in {0, Len(text)}
           /\ stop > 0 => request.kind = "until and with" /\ got'.by = "delimiter"
           /\ Len(text) <= request.max
           /\ \/ Len(text) = request.max \/ stop > 0
              \/ got'.by = "end"
              \/ cache' \o rest' # <<>> /\ StopsAt(request.kind, Head(cache' \o rest'))
           /\ got'.by = "end" => ~ valid' /\ cache' = <<>> /\ (blocking => rest' = <<>>) ]_streamVars

(* The stream is called bad only when the device has no more input, or has *)
(* given nothing without blocking.                                         *)
BadIsAtTheEnd == ~ valid => MayGiveNothing
=============================================================================
