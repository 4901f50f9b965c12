---------------------------- MODULE MCAlgorithms -----------------------------
(***************************************************************************)
(* The pure algorithms of CutText, WebOutput and ToolNames on small        *)
(* inputs: each step picks an input, and the properties hold of all.       *)
(***************************************************************************)
EXTENDS CutText, WebOutput, ToolNames

VARIABLE input

WarningSize == 4
SuffixSize == 2
FrameSize == 3
TreeLimits == [detailed |-> 3, compact |-> 2, reduced |-> 1]
TextLimits == [detailed |-> 5, compact |-> 4, reduced |-> 2]
ElementLimits == [detailed |-> 3, compact |-> 2, reduced |-> 2]

PieceLimit == 3
MaxOutput == 24     \* bound on the limits of an output

Init == input = [kind |-> "none"]

\* A stream of up to five characters that ends with a line, cut anywhere.
PickStream ==
    \E text \in SeqOf(Char, 4) :
       \E cuts \in SUBSET (1..(Len(Encode(text)))) :
          input' = [kind |-> "stream", text |-> Append(text, "newline"),
                    cuts |-> cuts]

\* Two frames of a log.
PickFrames ==
    \E first, second \in SeqOf({"x", "wide", "newline"}, 2), stream \in {1, 2} :
       input' = [kind |-> "frames", first |-> first, second |-> second,
                 stream |-> stream]

\* A message of up to three pieces and some more.
PickMessage ==
    \E text \in SeqOf({"x", "newline"}, 9) :
       input' = [kind |-> "message", text |-> text]

\* A text with characters of one to four bytes.
PickText ==
    \E text \in SeqOf({"x", "wide", "high", "low"}, 4), bytes \in 0..13 :
       input' = [kind |-> "text", text |-> text, bytes |-> bytes]

\* A page whose parts are short or long, wide or not.
SmallLists == {[i \in 1..n |-> <<"x">>] : n \in 0..4}
SmallPages ==
    [url : {<<"x">>, <<"x", "wide">>}, title : {<<>>, <<"x", "x">>},
     tree : SmallLists, elements : SmallLists,
     text : {[i \in 1..n |-> u] : n \in 0..6, u \in {"x", "wide"}},
     screenshot : BOOLEAN]

PickPage ==
    \E page \in SmallPages, format \in {"structured", "legacy"},
       mode \in {"detailed", "compact"}, limit \in 0..MaxOutput :
          input' = [kind |-> "page", page |-> page, format |-> format,
                    mode |-> mode, limit |-> limit]

\* Two servers, the first with a filter.
NameUpTo(n) == SeqOf({"x", "_"}, n) \ {<<>>}
ServerNames == {s \in NameUpTo(3) : Tellable(s)}
ToolLists == {t \in SeqOf(NameUpTo(2), 2) : IsInjective(t)}
Filters == [include : SUBSET {<<"x">>, <<"_", "x">>},
            exclude : SUBSET {<<"x">>, <<"_", "_">>}, max : 0..2]
NoFilter == [include |-> {}, exclude |-> {}, max |-> 2]

PickServers ==
    \E first, second \in ServerNames, tools \in ToolLists,
       config \in Filters, other \in NameUpTo(2) :
       /\ first # second
       /\ input' = [kind |-> "servers",
                    servers |->
                       [s \in {first, second} |->
                          IF s = first
                          THEN [tools |-> tools, config |-> config]
                          ELSE [tools |-> <<other>>, config |-> NoFilter]]]

Next ==
    /\ input.kind = "none"
    /\ \/ PickStream \/ PickFrames \/ PickMessage
       \/ PickText \/ PickPage \/ PickServers

Spec == Init /\ [][Next]_input

-----------------------------------------------------------------------------
\* The chunks of a stream, cut anywhere, neither merge nor split nor lose a
\* line, and leave every line what it was as long as no cut is inside a
\* character; a log cut into frames and a message cut into pieces keep their
\* text (createLineParser, processBuffer, demuxDockerLogs, splitMessage).
CutsKeepText ==
    /\ input.kind = "stream" => LinesAreWhole(input.text, input.cuts)
    /\ input.kind = "frames" =>
          StreamsAreApart(input.first, input.second, input.stream)
    /\ input.kind = "message" => PiecesFit(input.text, PieceLimit)

\* What the LLM reads of a page comes in a whole payload or behind the
\* warning, and within the limit; the bisection behind it finds the longest
\* text that fits (buildStructuredOutput, buildLegacyOutput, truncateUtf8,
\* runLoop).
WebContentIsMarked ==
    /\ input.kind = "text" => LongestPrefixFits(input.text, input.bytes)
    /\ input.kind = "page" =>
          ContentIsMarked(input.page, input.format, input.mode, input.limit)

\* A tool offered by an MCP server can be called by the name it was offered
\* under, and exactly the tools the configuration leaves are offered
\* (translateTools, getServerName, stripPrefix, callTool).
CallsReachTheirTool ==
    input.kind = "servers" => CallReachesItsTool(input.servers)

=============================================================================
