CONSTANTS
    r1 = r1
    r2 = r2
    telegram = telegram
    web = web
    Request = {r1, r2}
    User = {telegram, web}
    WebUser = web
    MaxIterations = 3
    MaxMessages = 5
    Turn <- EveryTurn
    NoUser = NoUser
SPECIFICATION FairSpec
INVARIANTS
    TypeOK
    RowsTellTasks
    WebHistoryIsComplete
PROPERTIES
    NoStepAfterStop
    EveryRequestIsAnswered
