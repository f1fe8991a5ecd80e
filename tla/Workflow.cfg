SPECIFICATION Spec
CONSTANTS
    t1 = t1
    t2 = t2
    Threads <- MCThreads
    Handles <- MCHandles
    Plans <- MCPlans
    MaxElicits = 2
    MaxMishaps = 1
SYMMETRY ThreadSymmetry
INVARIANTS
    CancelIsSeen
    OneRunner
    SavedStepIsNotRedone
    SlotBeforeRecord
    WaitingHasQuestion
    NotAbandoned
PROPERTIES
    TerminalIsFinal
CHECK_DEADLOCK FALSE
