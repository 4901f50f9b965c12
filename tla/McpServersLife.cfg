CONSTANTS
    s1 = s1
    s2 = s2
    k1 = k1
    k2 = k2
    k3 = k3
    k4 = k4
    k5 = k5
    i1 = i1
    i2 = i2
    f1 = f1
    f2 = f2
    f3 = f3
    f4 = f4
    Server = {s1, s2}
    NetServer = {s1, s2}
    Container = {k1, k2, k3}
    Ip = {i1, i2}
    Flow = {f1, f2}
    MaxRestarts = 2
    MaxProbes = 2
    MaxExits = 1
    Failing = {"create", "inspect", "remove", "probe"}
    NoContainer = NoContainer
    NoServer = NoServer
    NoIp = NoIp
SPECIFICATION Spec
CONSTRAINT NothingSeenTwice
SYMMETRY McpSymmetry
INVARIANTS TypeOK OneContainerPerServer ReadyHasItsContainer RunningIsWatched OnlyReuseUnregisters
CHECK_DEADLOCK FALSE
