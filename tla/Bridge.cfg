CONSTANTS
    a1 = a1
    r1 = r1
    none = none
    NoRequest = none
    Approval <- OneApproval
    Request <- OneRequest
    Decision = {"approved", "rejected"}
    TelegramFails = TRUE
    MaxItems = 1
    MaxPresses = 2
    MaxFaults = 2
    MinDelay = 1
    MaxDelay = 3
SPECIFICATION FairSpec
INVARIANTS TypeOK NeverGivesUp ShownDecisionCounts OneDecisionPerProcess
PROPERTIES RequestsAreAnswered
CHECK_DEADLOCK FALSE
