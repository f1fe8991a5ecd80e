SPECIFICATION FairSpec
CONSTANTS
    Conns = {}
    Users = {u1}
    Conversations = {c1}
    Turns = {t1, t2}
    Puts = {}
    NoTurn = NoTurn
    NoConv = NoConv
    Owner <- OneOwner
    Host = "legacy"
    UserCap = 2
    GlobalCap = 2
    QueueCap = 3
    BufferCap = 1
    MaxChunks = 1
    MaxRaw = 0
    Resumes = TRUE
    Stops = TRUE
    Disconnects = TRUE
    Panics = TRUE
CHECK_DEADLOCK FALSE
INVARIANTS
    OneTurnPerConversation
    SlotFollowsTurns
    StopReachesTurn
    NoStaleToken
    CompletedIsSaved
PROPERTIES
    ImplementsTurnLock
    StopEndsTurn
    GeneratorEndsTurn
