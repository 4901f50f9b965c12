------------------------------- MODULE CutText -------------------------------
(***************************************************************************)
(* Text that is cut and put together: the line parsers of the socket and   *)
(* of the MCP transport, which get bytes in chunks of any size, Docker's   *)
(* log frames, and the pieces of a message for Telegram.                   *)
(*                                                                         *)
(* Four characters stand for all: "x"; "wide", which is two bytes long;    *)
(* "space", which trim() removes; and the end of a line.  The bytes of a   *)
(* text are its characters, but for "wide".  A byte of it that is decoded  *)
(* without the other one becomes the replacement character "bad".          *)
(***************************************************************************)
EXTENDS Naturals, Sequences, FiniteSets, SequencesExt

Char == {"x", "wide", "space", "newline"}

Bytes(char) == IF char = "wide" THEN <<"lead", "trail">> ELSE <<char>>
Encode(text) == FlattenSeq([i \in 1..Len(text) |-> Bytes(text[i])])

\* The character that byte i of a chunk becomes; none, if it is the second
\* byte of a whole one.
Decoded(chunk, i) ==
    LET Opens(j) == /\ {j, j + 1} \subseteq 1..Len(chunk)
                    /\ chunk[j] = "lead" /\ chunk[j + 1] = "trail"
    IN  CASE Opens(i) -> <<"wide">>
          [] Opens(i - 1) -> <<>>
          [] OTHER -> IF chunk[i] \in {"lead", "trail"} THEN <<"bad">>
                      ELSE <<chunk[i]>>

Decode(chunk) == FlattenSeq([i \in 1..Len(chunk) |-> Decoded(chunk, i)])

\* The pieces between the newlines; one more than there are newlines.
Lines(text) ==
    LET upTo[n \in 0..Len(text)] ==
           IF n = 0 THEN <<<<>>>>
           ELSE LET lines == upTo[n - 1]
                IN  IF text[n] = "newline" THEN Append(lines, <<>>)
                    ELSE Append(Front(lines), Append(Last(lines), text[n]))
    IN  upTo[Len(text)]

\* trim(), and the test for what is left of a line.
Trim(line) ==
    LET solid == {i \in 1..Len(line) : line[i] # "space"}
    IN  IF solid = {} THEN <<>>
        ELSE SubSeq(line, CHOOSE i \in solid : \A j \in solid : i <= j,
                          CHOOSE i \in solid : \A j \in solid : j <= i)

Solid(lines) ==
    FlattenSeq([i \in 1..Len(lines) |->
       IF Trim(lines[i]) = <<>> THEN <<>> ELSE <<Trim(lines[i])>>])

-----------------------------------------------------------------------------
(* The parsers.  A state is the buffer and the lines handed on so far.     *)

NoInput == [buffer |-> <<>>, lines |-> <<>>]

\* Variant of SocketChunk: the rest of a chunk is not kept for the next one.
SocketChunkForgets(state, chunk) ==
    LET lines == Lines(state.buffer \o Decode(chunk))
    IN  [buffer |-> <<>>, lines |-> state.lines \o Solid(lines)]

\* createLineParser: split at the newlines, keep what follows the last one.
SocketChunk(state, chunk) ==
    LET lines == Lines(state.buffer \o Decode(chunk))
    IN  [buffer |-> Last(lines),
         lines |-> state.lines \o Solid(Front(lines))]

\* processBuffer: one line after the other while there is a newline.
McpChunk(state, chunk) ==
    LET buffer == state.buffer \o Decode(chunk)
        NewlineFrom(p) == {i \in p..Len(buffer) : buffer[i] = "newline"}
        rest[p \in 1..(Len(buffer) + 1)] ==
           IF NewlineFrom(p) = {}
           THEN [buffer |-> SubSeq(buffer, p, Len(buffer)), lines |-> <<>>]
           ELSE LET i == CHOOSE i \in NewlineFrom(p) :
                            \A j \in NewlineFrom(p) : i <= j
                IN  [rest[i + 1] EXCEPT
                       !.lines = Solid(<<SubSeq(buffer, p, i - 1)>>) \o @]
    IN  [rest[1] EXCEPT !.lines = state.lines \o @]

\* The cut before place i of a stream, where the chunk that ends at i begins.
LastCut(cuts, i) == Max({0} \cup {m \in cuts : m < i})

\* The lines of a stream that is cut at these places: the state at a place is
\* what the chunk that ends there makes of the state at the cut before it.
SocketLines(bytes, cuts) ==
    LET at[i \in 0..Len(bytes)] ==
           IF i = 0 THEN NoInput
           ELSE LET m == LastCut(cuts, i)
                IN  SocketChunk(at[m], SubSeq(bytes, m + 1, i))
    IN  at[Len(bytes)].lines

McpLines(bytes, cuts) ==
    LET at[i \in 0..Len(bytes)] ==
           IF i = 0 THEN NoInput
           ELSE LET m == LastCut(cuts, i)
                IN  McpChunk(at[m], SubSeq(bytes, m + 1, i))
    IN  at[Len(bytes)].lines

-----------------------------------------------------------------------------
(* demuxDockerLogs.  A frame is its stream, its size and its payload; the  *)
(* header takes two places here.                                           *)

Frame(stream, payload) == <<stream, Len(payload)>> \o payload

\* Payloads of the stream in the buffer, after so many rounds of the loop; a
\* frame that is cut off ends it.
Demux(buffer, stream) ==
    LET after[n \in 0..Len(buffer)] ==
           IF n = 0 THEN [offset |-> 0, out |-> <<>>]
           ELSE LET s == after[n - 1]
                    end == s.offset + 2 + buffer[s.offset + 2]
                IN  IF s.offset + 2 > Len(buffer) \/ end > Len(buffer) THEN s
                    ELSE [offset |-> end,
                          out |-> IF buffer[s.offset + 1] # stream THEN s.out
                                  ELSE s.out \o Decode(SubSeq(buffer,
                                                         s.offset + 3, end))]
    IN  after[Len(buffer)].out

-----------------------------------------------------------------------------
(* splitMessage: pieces of at most limit characters, cut at the last       *)
(* newline there is, which is dropped.                                     *)

\* Offset of the cut in what remains from place p on.
SplitAt(text, p, limit) ==
    LET newlines == {k \in 0..limit : text[p + k] = "newline"}
        last == CHOOSE k \in newlines : \A j \in newlines : j <= k
    IN  IF newlines \subseteq {0} THEN limit ELSE last

SplitMessage(text, limit) ==
    LET from[p \in 1..(Len(text) + 1)] ==
           IF p > Len(text) /\ p > 1 THEN <<>>
           ELSE IF Len(text) - p + 1 <= limit
           THEN <<SubSeq(text, p, Len(text))>>
           ELSE LET next == p + SplitAt(text, p, limit)
                    skip == IF text[next] = "newline" THEN 1 ELSE 0
                IN  <<SubSeq(text, p, next - 1)>> \o from[next + skip]
    IN  from[1]

-----------------------------------------------------------------------------
(* What the cuts must not change.                                          *)

\* Places of a cut in the middle of a character.
CutsInside(bytes, cuts) == {i \in cuts : bytes[i] = "lead"}

\* The same parts, left and right of the characters that a cut can break.
Plain(line) ==
    FlattenSeq([i \in 1..Len(line) |->
       IF line[i] \in {"wide", "bad"} THEN <<>> ELSE <<line[i]>>])
Alike(line, other) == Plain(line) = Plain(other)

\* However the stream is cut, both parsers hand on as many lines as were sent,
\* in order and made of the same parts, none merged, split or lost; and they
\* are the lines that were sent unless a cut is inside a character, which the
\* parsers break (theorem CutCharactersBreak).
LinesAreWhole(text, cuts) ==
    LET bytes == Encode(text)
        sent == Solid(Front(Lines(text)))
        received == SocketLines(bytes, cuts)
    IN  /\ received = McpLines(bytes, cuts)
        /\ Len(received) = Len(sent)
        /\ \A i \in 1..Len(sent) : Alike(received[i], sent[i])
        /\ CutsInside(bytes, cuts) = {} => received = sent

\* Each stream of a log is the payloads of its frames, whatever the frames
\* of the other one.
StreamsAreApart(first, second, stream) ==
    LET buffer == Frame(1, Encode(first)) \o Frame(stream, Encode(second))
    IN  /\ Demux(buffer, 1) = IF stream = 1 THEN first \o second ELSE first
        /\ Demux(buffer, 2) = IF stream = 2 THEN second ELSE <<>>
        /\ \A n \in 1..Len(buffer) :
              n < Len(buffer) =>
                 Demux(SubSeq(buffer, 1, n), 1) \in {<<>>, first}

\* The pieces of a message fit, none is empty, and together they are the
\* message but for one newline where it was cut.
PiecesFit(text, limit) ==
    LET pieces == SplitMessage(text, limit)
        places == 1..Len(pieces)
    IN  /\ text # <<>> => \A i \in places : Len(pieces[i]) \in 1..limit
        /\ \E dropped \in [places -> {<<>>, <<"newline">>}] :
              text = FlattenSeq([i \in places |-> pieces[i] \o dropped[i]])

=============================================================================
