SPECIFICATION Spec
CONSTANTS
    Tasks = {t1, t2}
    Engines = {e1, e2}
    NoEngine = NoEngine
    NoCell = NoCell
    Kinds = {"proxy", "stop"}
    FlapMax = 0
    Failures = TRUE
    Hangups = {"proxy"}
    Restarts = FALSE
CHECK_DEADLOCK FALSE
PROPERTIES
    TaskEnds
