------------------------------ MODULE WebOutput ------------------------------
(***************************************************************************)
(* What the LLM gets to read of a web page: the web executor turns what it *)
(* captured into text of at most the bytes of its capability, and the      *)
(* gateway marks that text as untrusted and cuts it to the same number.    *)
(*                                                                         *)
(* Text is a sequence of UTF-16 units: "x" is one byte long in UTF-8,      *)
(* "wide" and the ellipsis are three, and "high" and "low" are the halves  *)
(* of a character of four bytes.  The warning of the gateway, the suffix   *)
(* of a cut text and the frame of a payload, its security block included,  *)
(* are one unit each; their sizes are constants.  A page is its URL, its   *)
(* title, the lines of its tree, its interactive elements, its text, and   *)
(* whether a screenshot of it was taken.                                   *)
(***************************************************************************)
EXTENDS Naturals, Sequences, SequencesExt

CONSTANTS
    WarningBytes, SuffixBytes, FrameBytes,
    TreeLines, TextChars, Elements,    \* limits of each level of detail
    MinimalElements                    \* elements of the smallest payload

Level == {"detailed", "compact", "reduced"}

ASSUME WebOutputAssumption ==
    /\ {WarningBytes, SuffixBytes, FrameBytes, MinimalElements} \subseteq Nat
    /\ {TreeLines, TextChars, Elements} \subseteq [Level -> Nat]

\* Bytes of a unit; the braces of a payload count as part of its frame.
Width(unit) ==
    CASE unit \in {"{", "}"} -> 0
      [] unit \in {"wide", "ellipsis", "high", "low"} -> 3
      [] unit = "warning" -> WarningBytes
      [] unit = "suffix" -> SuffixBytes
      [] unit = "frame" -> FrameBytes
      [] OTHER -> 1

\* Buffer.byteLength: a lone half is encoded as the replacement character.
ByteLength(units) ==
    LET from[i \in 1..(Len(units) + 1)] ==
           IF i > Len(units) THEN 0
           ELSE IF i < Len(units) /\ SubSeq(units, i, i + 1) = <<"high", "low">>
           THEN 4 + from[i + 2]
           ELSE Width(units[i]) + from[i + 1]
    IN  from[1]

-----------------------------------------------------------------------------
(* Cutting.                                                                *)

\* The longest prefix of at most these bytes, by bisection.
FittingLength(value, bytes) ==
    LET Length == 0..Len(value)
        between[range \in Length \X Length] ==
           LET low == range[1]
               high == range[2]
               mid == (low + high + 1) \div 2
           IN  IF low >= high THEN low
               ELSE IF ByteLength(SubSeq(value, 1, mid)) <= bytes
               THEN between[<<mid, high>>]
               ELSE between[<<low, mid - 1>>]
    IN  between[<<0, Len(value)>>]

\* truncateUtf8 of the executor; the one of the gateway has no suffix.
TruncateUtf8(value, maxBytes, suffix) ==
    LET suffixBytes == ByteLength(suffix)
        target == IF maxBytes > suffixBytes THEN maxBytes - suffixBytes ELSE 0
    IN  IF maxBytes = 0 THEN <<>>
        ELSE IF ByteLength(value) <= maxBytes THEN value
        ELSE SubSeq(value, 1, FittingLength(value, target)) \o suffix

\* truncate
Truncate(text, maxChars) ==
    IF Len(text) <= maxChars THEN text
    ELSE SubSeq(text, 1, IF maxChars > 0 THEN maxChars - 1 ELSE 0)
         \o <<"ellipsis">>

\* limitLines
LimitLines(lines, maxLines) ==
    IF maxLines = 0 THEN <<>>
    ELSE IF Len(lines) <= maxLines THEN lines
    ELSE Append(SubSeq(lines, 1, maxLines), <<"suffix">>)

FirstOf(seq, n) == IF Len(seq) <= n THEN seq ELSE SubSeq(seq, 1, n)

-----------------------------------------------------------------------------
(* The executor.                                                           *)

JoinLines(lines) ==
    FlattenSeq([i \in 1..Len(lines) |->
                  IF i = 1 THEN lines[i] ELSE <<"newline">> \o lines[i]])

\* createStructuredPayload, serialized; it opens and closes like any object.
StructuredPayload(page, level) ==
    <<"{", "frame">> \o page.url \o page.title
    \o FlattenSeq(FirstOf(page.elements, Elements[level]))
    \o JoinLines(LimitLines(page.tree, TreeLines[level]))
    \o Truncate(page.text, TextChars[level]) \o <<"}">>

MinimalPayload(page) ==
    <<"{", "frame">> \o page.url \o page.title
    \o FlattenSeq(FirstOf(page.elements, MinimalElements)) \o <<"}">>

\* Variant of BuildStructuredOutput: the smallest payload is not measured.
BuildStructuredUnmeasured(page, mode, maxBytes) ==
    LET levels == {l \in {mode, "reduced"} :
                     ByteLength(StructuredPayload(page, l)) <= maxBytes}
    IN  IF levels = {} THEN MinimalPayload(page)
        ELSE StructuredPayload(page, IF mode \in levels THEN mode
                                     ELSE "reduced")

\* buildStructuredOutput: the first of three payloads that fits.
BuildStructuredOutput(page, mode, maxBytes) ==
    LET levels == {l \in {mode, "reduced"} :
                     ByteLength(StructuredPayload(page, l)) <= maxBytes}
    IN  IF levels # {}
        THEN StructuredPayload(page, IF mode \in levels THEN mode
                                     ELSE "reduced")
        ELSE IF ByteLength(MinimalPayload(page)) <= maxBytes
        THEN MinimalPayload(page)
        ELSE TruncateUtf8(MinimalPayload(page), maxBytes, <<>>)

\* buildLegacyOutput.  The line that tells of a screenshot is a single unit.
BuildLegacyOutput(page, maxBytes) ==
    LET extracted == IF page.text = <<>> THEN <<>>
                     ELSE <<"newline">> \o page.text
        marker == IF page.screenshot THEN <<"newline">> ELSE <<>>
    IN  TruncateUtf8(JoinLines(page.tree) \o extracted \o marker,
                     maxBytes, <<"suffix">>)

\* The bytes of an output when the capability has no limit.
DefaultMaxOutput == 1048576

\* The output of a successful run.  A capability of 0 bytes has no limit; the
\* pages of the model never reach the one that is used then.
ExecutorOutput(page, format, mode, maxOutputBytes) ==
    LET maxOutput == IF maxOutputBytes = 0 THEN DefaultMaxOutput
                     ELSE maxOutputBytes
    IN  IF format = "structured"
        THEN BuildStructuredOutput(page, mode, maxOutput)
        ELSE BuildLegacyOutput(page, maxOutput)

-----------------------------------------------------------------------------
(* The gateway.                                                            *)

\* isStructuredWebPayload: no strict prefix of an object can be parsed.
IsStructuredWebPayload(raw) ==
    raw # <<>> /\ raw[1] = "{" /\ Last(raw) = "}"

\* The content of the tool result of browse_web.
ResultContent(raw, limit) ==
    IF IsStructuredWebPayload(raw) THEN raw
    ELSE TruncateUtf8(<<"warning">> \o raw, limit, <<>>)

-----------------------------------------------------------------------------
\* Bisection finds the longest prefix that fits, and with it the longest cut.
LongestPrefixFits(value, bytes) ==
    LET n == FittingLength(value, bytes)
        Fits(k) == ByteLength(SubSeq(value, 1, k)) <= bytes
    IN  /\ Fits(n)
        /\ n < Len(value) => ~Fits(n + 1)

\* Whatever the page and the limit, its content comes in a whole payload,
\* which says that it is untrusted, or behind the warning; it is within the
\* limit; and it is a payload whenever the smallest one fits.
ContentIsMarked(page, format, mode, limit) ==
    LET shown == ResultContent(ExecutorOutput(page, format, mode, limit), limit)
        whole == {StructuredPayload(page, l) : l \in {mode, "reduced"}}
                 \cup {MinimalPayload(page)}
    IN  /\ shown \in whole \/ shown = <<>> \/ shown[1] = "warning"
        /\ limit > 0 => ByteLength(shown) <= limit
        /\ shown \in whole <=>
              /\ format = "structured"
              /\ limit = 0 \/ \E p \in whole : ByteLength(p) <= limit

=============================================================================
