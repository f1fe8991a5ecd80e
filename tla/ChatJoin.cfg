SPECIFICATION Spec
CONSTANTS
    Conns = {k1}
    Users = {u1}
    Conversations = {c1, c2}
    Turns = {t1, t2}
    Puts = {p1}
    NoTurn = NoTurn
    NoConv = NoConv
    Owner <- OneOwner
    Host = "legacy"
    UserCap = 2
    GlobalCap = 2
    QueueCap = 3
    BufferCap = 1
    MaxChunks = 2
    MaxRaw = 0
    Resumes = FALSE
    Stops = FALSE
    Disconnects = FALSE
    Panics = FALSE
SYMMETRY Symmetry
CHECK_DEADLOCK FALSE
INVARIANTS
    TypeOK
    CaughtUp
