------------------------------ MODULE ToolNames ------------------------------
(***************************************************************************)
(* The tools of MCP servers under the names the LLM sees, as McpManager    *)
(* filters, prefixes and routes them.  A name is a sequence of "x" and     *)
(* "_"; the prefix mcp_ is one character here.  A server has its raw tools *)
(* and the filter of its configuration; an empty list of tools to include  *)
(* or to exclude is the same as none.                                      *)
(***************************************************************************)
EXTENDS Naturals, Sequences, FiniteSets, SequencesExt

ToolPrefix == <<"mcp_">>
Separator == <<"_", "_">>

Prefix(server) == ToolPrefix \o server \o Separator

\* The places of the separator in a name.
Separators(name) ==
    {i \in 1..(Len(name) - 1) : SubSeq(name, i, i + 1) = Separator}

\* The names of a list that are in a set, in the order of the list.
Selected(list, names) ==
    LET first[n \in 0..Len(list)] ==
           IF n = 0 THEN <<>>
           ELSE IF list[n] \in names THEN Append(first[n - 1], list[n])
           ELSE first[n - 1]
    IN  first[Len(list)]

\* Raw names of the tools that are offered: the filters, then the cap.
Filtered(tools, config) ==
    LET included == IF config.include = {} THEN ToSet(tools)
                    ELSE config.include
        allowed == Selected(tools, included \ config.exclude)
    IN  IF Len(allowed) > config.max THEN SubSeq(allowed, 1, config.max)
        ELSE allowed

\* translateTools
TranslateTools(server, tools, config) ==
    LET filtered == Filtered(tools, config)
    IN  [i \in 1..Len(filtered) |-> Prefix(server) \o filtered[i]]

NoServer == <<>>

\* Variant of GetServerName: the last separator counts.
LastServerName(name) ==
    LET rest == Tail(name)
    IN  IF ~IsStrictPrefix(ToolPrefix, name) \/ Separators(rest) = {}
        THEN NoServer
        ELSE SubSeq(rest, 1, (CHOOSE i \in Separators(rest) :
                                 \A j \in Separators(rest) : j <= i) - 1)

\* getServerName: what is before the first separator.
GetServerName(name) ==
    LET rest == Tail(name)
    IN  IF ~IsStrictPrefix(ToolPrefix, name) \/ Separators(rest) = {}
        THEN NoServer
        ELSE SubSeq(rest, 1, (CHOOSE i \in Separators(rest) :
                                 \A j \in Separators(rest) : i <= j) - 1)

StripPrefix(name, server) ==
    IF IsPrefix(Prefix(server), name)
    THEN SubSeq(name, Len(Prefix(server)) + 1, Len(name))
    ELSE name

\* callTool: the server and the raw name a call goes to.
Route(servers, name) ==
    LET server == GetServerName(name)
    IN  IF server = NoServer \/ server \notin DOMAIN servers
        THEN <<NoServer, name>>
        ELSE <<server, StripPrefix(name, server)>>

Offered(servers, server) ==
    TranslateTools(server, servers[server].tools, servers[server].config)

-----------------------------------------------------------------------------
\* A name whose end can be told: the separator is not in it, nor does it run
\* into the one that follows.
Tellable(server) == Separators(server \o <<"_">>) = {} /\ server # <<>>

\* Every name offered to the LLM leads back to the server and the tool it was
\* made from, and the tools offered are those the configuration leaves, up to
\* the cap, in the server's order.
CallReachesItsTool(servers) ==
    \A s \in DOMAIN servers :
       LET raw == servers[s].tools
           config == servers[s].config
           offered == Offered(servers, s)
           wanted == {i \in 1..Len(raw) :
                        /\ config.include # {} => raw[i] \in config.include
                        /\ raw[i] \notin config.exclude}
           Rank(i) == Cardinality({j \in wanted : j <= i})
           kept == {i \in wanted : Rank(i) <= config.max}
       IN  /\ Len(offered) = Cardinality(kept)
           /\ \A i \in kept :
                 Route(servers, offered[Rank(i)]) = <<s, raw[i]>>

=============================================================================
