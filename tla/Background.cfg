SPECIFICATION FairSpec
CONSTANTS
    r1 = r1
    r2 = r2
    c1 = c1
    s1 = s1
    s2 = s2
    Runs <- MCRuns
    Conversations <- MCConversations
    NoConv = NoConv
    Specs <- MCSpecs
    SubAgents <- MCSubAgents
    Caps <- MCCaps
    ResumeEnabled = TRUE
    MaxSteps = 2
    MaxMishaps = 1
INVARIANTS
    DriverAgreesWithRow
PROPERTIES
    NoRespawn
    CapHolds
    DeletedIsStopped
    RunSettles
CHECK_DEADLOCK FALSE
