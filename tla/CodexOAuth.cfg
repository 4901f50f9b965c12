CONSTANTS
    u1 = u1
    u2 = u2
    l1 = l1
    l2 = l2
    l3 = l3
    d1 = d1
    d2 = d2
    c1 = c1
    c2 = c2
    User = {u1, u2}
    Login = {l1, l2, l3}
    Delivery = {d1, d2}
    Caller = {c1, c2}
    MaxRefreshes = 2
    DefaultPort = DefaultPort
    NoPort = NoPort
    NoUser = NoUser
    NoLogin = NoLogin
    NoCaller = NoCaller
    NoToken = NoToken
SPECIFICATION Spec
VIEW OAuthView
SYMMETRY OAuthSymmetry
INVARIANTS
    TypeOK
    PortIsServed
    CodesAreUsedOnce
    RefreshTokensAreUsedOnce
CHECK_DEADLOCK FALSE
