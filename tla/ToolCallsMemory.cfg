CONSTANTS
    Asked = {"save_memory", "send_email"}
    Target = {"unlisted"}
    MaxIterations = 1
    MaxCalls = 2
    WithUser = TRUE
    DockerFails = FALSE
    MaxChanges = 0
SPECIFICATION Spec
INVARIANTS EveryEffectHasConsent
CHECK_DEADLOCK FALSE
