SPECIFICATION Spec
CONSTANTS
    t1 = t1
    t2 = t2
    Threads <- MCThreads
    Handles <- MCHandles
    Plans <- ShortPlans
    MaxElicits = 1
    MaxMishaps = 0
INVARIANTS
    OneRunnerAlways
CHECK_DEADLOCK FALSE
