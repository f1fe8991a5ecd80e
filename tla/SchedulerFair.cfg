SPECIFICATION FairSpecO
CONSTANTS
    Tasks = {t1, t2}
    Firings = {f1, f2}
    Requests = {r1}
    Conversations = {c1}
    NoConv = NoConv
    NoTask = NoTask
    Templates <- RecurringTemplates
    EditKinds <- NoKinds
    NextCron <- EveryInstant
    Batch = 1
    MinInterval = 1
    Horizon = 2
    MaxFailures = 1
    MaxTurns = 2
    MaxActive = 2
    Retention = 0
    UserOps = {}
    MaxTime = 2
    MaxOps = 2
    MaxFaults = 0
CHECK_DEADLOCK FALSE
INVARIANTS
    OvertakenOnce
PROPERTIES
    DueIsServed
    FiringEnds
