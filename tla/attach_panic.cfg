CONSTANTS
    Clients = {c1}
    OwnOffset = TRUE
    QueueLen = 2
    MaxLog = 2
    MaxConns = 1
    MaxKills = 0
    MaxRestarts = 0
SPECIFICATION Spec
INVARIANT DaemonSurvives
CHECK_DEADLOCK FALSE
