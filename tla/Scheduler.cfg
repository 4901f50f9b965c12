CONSTANTS
    Name = {morning, inbox}
    Schedule <- Schedules
    Period = 5
    MaxTimeout = 2
    MaxConfigs = 2
    MaxRuns = 2
    Timer = {1, 2, 3}
    NoTimer = NoTimer
SPECIFICATION FairSpec
INVARIANTS TypeOK TimersDoNotMultiply NextOccurrenceIsArmed
PROPERTIES EnabledRunsAgain
CHECK_DEADLOCK FALSE
