CONSTANTS
    Calls = {c1}
    Handlers = {h1}
    Llms = {"on"}
    Stream = TRUE
    MaxIters = 1
    History = 2
    Cap = 2
    WireCap = 1
    Old <- NoEvents
    NoCall = NoCall
    MaxTurns = 1
    MaxSaid = 1
    MaxAsked = 2
SPECIFICATION FairSpec
PROPERTY AbandonedTurnsEnd
 
CHECK_DEADLOCK FALSE
