----------------------------- MODULE EventStream -----------------------------
(***************************************************************************)
(* The answer of a streaming endpoint as the SSE runners of the e2e        *)
(* harness read it: bytes come in chunks, LineBuffer makes lines of them   *)
(* and SSEParser events of the lines.  A byte stands for a piece of text:  *)
(* a field with its value, a comment, a space ("sp"), the ends of a line   *)
(* ("cr", "nl"), or one half of a character of two bytes ("h1", "h2").     *)
(***************************************************************************)
EXTENDS Integers, SequencesExt

CONSTANTS
  Bytes,      \* the bytes the service sends
  Fields,     \* the field a line has that begins with such a byte
  MaxText,    \* bound on the bytes of an answer
  MaxChunk    \* bound on the bytes of a chunk

ASSUME ChunkAssumption == MaxChunk \in Nat

VARIABLES
  text,     \* all that was received: Outcome.raw
  buf,      \* LineBuffer._buf
  parser,   \* the state of SSEParser
  events,   \* the events collected and given to on_event, in order
  reading   \* "off", "on", "done" at the end of the answer, "broken" by an error

stream == <<text, buf, parser, events, reading>>

-----------------------------------------------------------------------------
(* LineBuffer. *)

\* A half of a character without the other one is replaced.
Decode(line) ==
  [i \in DOMAIN line |->
     IF \/ line[i] = "h1" /\ ~(i < Len(line) /\ line[i + 1] = "h2")
        \/ line[i] = "h2" /\ ~(i > 1 /\ line[i - 1] = "h1")
     THEN "?" ELSE line[i]]

\* The text of a line without the carriage return before its end.
Line(bytes) == Decode(IF bytes # <<>> /\ Last(bytes) = "cr" THEN Front(bytes) ELSE bytes)

Nothing == [lines |-> <<>>, rest |-> <<>>]
TakeByte(b, byte) ==
  IF byte = "nl" THEN [lines |-> Append(b.lines, Line(b.rest)), rest |-> <<>>]
  ELSE [b EXCEPT !.rest = Append(@, byte)]

\* mutant: every chunk is decoded as it comes
BufferDecoding(bytes) == FoldLeft(TakeByte, Nothing, Decode(bytes))

\* The complete lines, and the bytes that wait for the end of theirs.
Buffer(bytes) == FoldLeft(TakeByte, Nothing, bytes)

\* The line the answer ends with although no line end follows it.
Trailing == IF buf = <<>> THEN <<>> ELSE <<Line(buf)>>

-----------------------------------------------------------------------------
(* SSEParser. *)

Fresh == [event |-> "message", data |-> <<>>, id |-> ""]

\* White space at the end of a line does not count.
Stripped(line) ==
  SubSeq(line, 1, Max({0} \cup {i \in DOMAIN line : line[i] \notin {"sp", "cr"}}))

Field(line) == Fields[Head(line)]

AddField(state, line) ==
  CASE Field(line) = "event" -> [state EXCEPT !.event = line]
    [] Field(line) = "data"  -> [state EXCEPT !.data = Append(@, line)]
    [] Field(line) = "id"    -> [state EXCEPT !.id = line]
    [] OTHER                 -> state

\* One line: it ends the event there is data of, or adds a field to it.
FeedLine(p, raw) ==
  LET line == Stripped(raw) IN
  IF line = <<>>
  THEN IF p.state.data = <<>> THEN p
       ELSE [state |-> Fresh, out |-> Append(p.out, p.state)]
  ELSE [p EXCEPT !.state = AddField(@, line)]

\* The state after some lines, and the events they end.
Parse(lines) == FoldLeft(FeedLine, [state |-> parser, out |-> <<>>], lines)

\* The event the answer ends with although no blank line follows it.
Flush(p) == IF p.state.data = <<>> THEN p
            ELSE [state |-> Fresh, out |-> Append(p.out, p.state)]

-----------------------------------------------------------------------------
(* The runner, sync or async. *)

StreamInit == /\ text = <<>> /\ buf = <<>> /\ parser = Fresh
              /\ events = <<>> /\ reading = "on"

\* The caller gets the events one by one, until its callback raises.
Dispatch(p, then) ==
  \/ /\ events' = events \o p.out /\ parser' = p.state /\ reading' = then
  \/ \E n \in DOMAIN p.out :
       /\ events' = events \o SubSeq(p.out, 1, n)
       /\ parser' = parser /\ reading' = "broken"

Receive ==
  /\ reading = "on"
  /\ \E n \in 1 .. MaxChunk : \E chunk \in [1 .. n -> Bytes] :
       LET b == Buffer(buf \o chunk) IN
       /\ Len(text) + n <= MaxText
       /\ text' = text \o chunk /\ buf' = b.rest
       /\ Dispatch(Parse(b.lines), "on")

EndOfStream ==
  /\ reading = "on"
  /\ Dispatch(Flush(Parse(Trailing)), "done")
  /\ buf' = <<>> /\ UNCHANGED text

\* The connection fails: trigger raises, and there is no outcome.
Break ==
  /\ reading = "on" /\ reading' = "broken"
  /\ UNCHANGED <<text, buf, parser, events>>

StreamNext == Receive \/ EndOfStream \/ Break

-----------------------------------------------------------------------------
\* The k-th element of S by size, and the elements of s at the places of S.
Nth(S, k) == CHOOSE e \in S : Cardinality({f \in S : f < e}) = k - 1
InOrder(s, S) == [k \in 1 .. Cardinality(S) |-> s[Nth(S, k)]]

LineEnds(t) == {0} \cup {i \in DOMAIN t : t[i] = "nl"}

\* The lines of a text, those that are complete or all of them.
LinesOf(t, all) ==
  LET ends == LineEnds(t) \cup IF all THEN {Len(t) + 1} ELSE {}
  IN  [k \in 1 .. Cardinality(ends) - 1 |->
         Stripped(Line(SubSeq(t, Nth(ends, k) + 1, Nth(ends, k + 1) - 1)))]

\* The events of a text by their definition: a block of lines between blank ones
\* is an event if it has data.  The name and the id are the last ones since the
\* event before.
Is(lines, i, f) == lines[i] # <<>> /\ Field(lines[i]) = f
Blank(lines) == {i \in DOMAIN lines : lines[i] = <<>>}
HasData(lines, j) ==
  \E i \in DOMAIN lines :
     i < j /\ Is(lines, i, "data") /\ \A k \in Blank(lines) : ~(i < k /\ k < j)
EventEnds(lines) == {j \in Blank(lines) : HasData(lines, j)}

Before(lines, j) == Max({0} \cup {e \in EventEnds(lines) : e < j})
Block(lines, j, f) == {i \in Before(lines, j) + 1 .. j - 1 : Is(lines, i, f)}
Newest(lines, j, f, none) ==
  IF Block(lines, j, f) = {} THEN none ELSE lines[Max(Block(lines, j, f))]
EventAt(lines, j) ==
  [event |-> Newest(lines, j, "event", "message"), id |-> Newest(lines, j, "id", ""),
   data |-> InOrder(lines, Block(lines, j, "data"))]

EventsIn(lines, all) ==
  LET last == Len(lines) + 1
      ends == EventEnds(lines) \cup IF all /\ HasData(lines, last) THEN {last} ELSE {}
  IN  InOrder([j \in 1 .. last |-> EventAt(lines, j)], ends)
EventsOf(all) == EventsIn(LinesOf(text, all), all)

\* Where the network cuts the bytes makes no difference: the caller has got the
\* events of the complete lines, each once and in order; an answer that ended
\* has given all of them, the last one included though nothing ended its line or
\* its block; one that broke off gave no event that was not sent.
StreamIsLossless ==
  /\ reading = "on" => events = EventsOf(FALSE)
  /\ reading = "done" => events = EventsOf(TRUE)
  /\ reading = "broken" => IsPrefix(events, EventsOf(TRUE))
=============================================================================
