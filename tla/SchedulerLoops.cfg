SPECIFICATION Spec
CONSTANTS
    Tasks = {t1}
    Firings = {f1, f2}
    Requests = {r1}
    Conversations = {c1, c2}
    NoConv = NoConv
    NoTask = NoTask
    Templates <- LoopTemplates
    EditKinds <- NoKinds
    NextCron <- MCNextCron
    Batch = 1
    MinInterval = 1
    Horizon = 2
    MaxFailures = 2
    MaxTurns = 1
    MaxActive = 1
    Retention = 1
    UserOps = {"update", "run_now"}
    MaxTime = 3
    MaxOps = 2
    MaxFaults = 0
SYMMETRY Symmetry
CHECK_DEADLOCK FALSE
INVARIANTS
    LoopIsHeld
    LoopEndsAtHorizon
    TurnIsNotReclaimed
    GoalTurnsBounded
