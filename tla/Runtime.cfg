SPECIFICATION Spec
CONSTANTS
    Tasks = {t1, t2}
    Engines = {e1, e2}
    NoEngine = NoEngine
    NoCell = NoCell
    Kinds = {"proxy", "validate", "start", "stop", "restart", "clear", "reap"}
    FlapMax = 1
    Failures = TRUE
    Hangups = {"proxy"}
    Restarts = TRUE
SYMMETRY Symmetry
CHECK_DEADLOCK FALSE
INVARIANTS
    EnginesAreTracked
    DrainSparesRequests
    OneHolderPerCell
