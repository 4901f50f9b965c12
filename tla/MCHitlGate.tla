----------------------------- MODULE MCHitlGate -----------------------------
(* Instances of HitlGate for TLC.                                          *)
EXTENDS HitlGateRefinement, TLC

CONSTANTS c1, c2, c3, c4, u1, u2     \* model values

\* The tool calls of the instances: two pages, of which the second is on a
\* subdomain of the first; the domain requests for them; a shell command; a
\* tool of an MCP server whose defaultTier is auto-approve; a file read.
BrowseSite == "browse site"
BrowseSub  == "browse sub"
AskSite    == "ask site"
AskSub     == "ask sub"
Shell      == "shell"
McpQuery   == "mcp query"

MCToolOf == (BrowseSite :> "browse_web" @@ BrowseSub :> "browse_web"
             @@ AskSite :> "__domain_request" @@ AskSub :> "__domain_request"
             @@ Shell :> "run_shell_command" @@ McpQuery :> "mcp_db__query")
MCKeyOf == (BrowseSite :> "site" @@ BrowseSub :> "sub"
            @@ AskSite :> "*" @@ AskSub :> "*"
            @@ Shell :> "/workspace" @@ McpQuery :> "*")
MCHostOf == (BrowseSite :> "site" @@ BrowseSub :> "sub"
             @@ AskSite :> "site" @@ AskSub :> "sub"
             @@ Shell :> NoHost @@ McpQuery :> NoHost)
MCMcpTier == (BrowseSite :> NoTier @@ BrowseSub :> NoTier
              @@ AskSite :> NoTier @@ AskSub :> NoTier
              @@ Shell :> NoTier @@ McpQuery :> "auto-approve")
MCTool == {MCToolOf[a] : a \in DOMAIN MCToolOf}
MCKey == {"*", "site", "sub", "/workspace"}
MCHost == {"site", "sub"}
MCWithin == {<<"site", "site">>, <<"sub", "sub">>, <<"sub", "site">>}

MCRuleTier == [a \in DOMAIN MCToolOf |-> "require-approval"]

\* The actions of each instance.
GateActions   == {BrowseSite, BrowseSub, AskSite, McpQuery}
GrantActions  == {BrowseSite, BrowseSub, AskSite}
DomainActions == {BrowseSite, AskSite, BrowseSub, AskSub}

GateSymmetry == Permutations(Call) \cup Permutations(User)
=============================================================================
