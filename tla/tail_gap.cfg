SPECIFICATION Spec
CONSTANTS
    Jobs = {j1}
    Rpcs = {s1}
    Clients = {c1}
    ChanCap = 8
    WireCap = 1
    MaxLines <- OneLine
    ExitCodes = {0, 1}
    StartOffsets = {0}
INVARIANT
    TailIsComplete
