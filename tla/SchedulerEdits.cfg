SPECIFICATION Spec
CONSTANTS
    Tasks = {t1}
    Firings = {f1, f2}
    Requests = {r1}
    Conversations = {c1, c2}
    NoConv = NoConv
    NoTask = NoTask
    Templates <- MixedTemplates
    EditKinds <- AllKinds
    NextCron <- EveryInstant
    Batch = 1
    MinInterval = 1
    Horizon = 2
    MaxFailures = 2
    MaxTurns = 2
    MaxActive = 1
    Retention = 0
    UserOps = {"update", "delete", "chat", "delete_conversation"}
    MaxTime = 2
    MaxOps = 2
    MaxFaults = 1
SYMMETRY Symmetry
CHECK_DEADLOCK FALSE
INVARIANTS
    EveryShotWasArmed
    OncePerOccurrence
    CapIsExact
PROPERTIES
    OnlyUsersEnable
