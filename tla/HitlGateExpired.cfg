CONSTANTS
    c1 = c1
    c2 = c2
    c3 = c3
    c4 = c4
    u1 = u1
    u2 = u2
    Call = {c1, c2}
    User = {u1}
    Action <- GrantActions
    Tool <- MCTool
    Key <- MCKey
    Host <- MCHost
    ToolOf <- MCToolOf
    KeyOf <- MCKeyOf
    HostOf <- MCHostOf
    RuleTier <- MCRuleTier
    Explicit = {}
    McpTier <- MCMcpTier
    BrowseWeb = "browse_web"
    DomainRequest = "__domain_request"
    AnyKey = "*"
    AllowedDomains = {}
    TrustedDomains = {}
    Within <- MCWithin
    MaxSessions = 1
    NoHost = NoHost
    NoTier = NoTier
    NoUser = NoUser
    NoAction = NoAction
SPECIFICATION Spec
SYMMETRY GateSymmetry
INVARIANTS ExpiredRowsSayExpired
CHECK_DEADLOCK FALSE
