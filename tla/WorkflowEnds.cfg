SPECIFICATION Live
CONSTANTS
    t1 = t1
    t2 = t2
    Threads <- OneThread
    Handles <- MCHandles
    Plans <- ShortPlans
    MaxElicits = 2
    MaxMishaps = 2
PROPERTIES
    RunnerEnds
    RunSettles
CHECK_DEADLOCK FALSE
