CONSTANTS
    Asked <- OneOfEach
    Target = {"unlisted"}
    MaxIterations = 2
    MaxCalls = 2
    WithUser = TRUE
    DockerFails = TRUE
    MaxChanges = 1
SPECIFICATION FairSpec
INVARIANTS TypeOK ConsentComesFirst ResultsTellEffects ContainersAreRemoved
PROPERTIES EveryRunReturns
CHECK_DEADLOCK FALSE
