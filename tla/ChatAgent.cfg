SPECIFICATION FairSpec
CONSTANTS
    Conns = {k1}
    Users = {u1}
    Conversations = {c1}
    Turns = {t1, t2}
    Puts = {p1}
    NoTurn = NoTurn
    NoConv = NoConv
    Owner <- OneOwner
    Host = "agent_core"
    UserCap = 2
    GlobalCap = 2
    QueueCap = 2
    BufferCap = 1
    MaxChunks = 1
    MaxRaw = 1
    Resumes = FALSE
    Stops = TRUE
    Disconnects = TRUE
    Panics = TRUE
CHECK_DEADLOCK FALSE
PROPERTIES
    RemovedStreamEnds
