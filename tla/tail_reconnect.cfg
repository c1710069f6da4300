SPECIFICATION Spec
CONSTANTS
    Jobs = {j1}
    Rpcs = {s1, s2}
    Clients = {c1}
    ChanCap = 1
    WireCap = 1
    MaxLines <- OneLine
    ExitCodes = {0, 1}
    StartOffsets = {0, 3}
INVARIANTS
    CursorIsReceived
    PrintedFromLog
    StreamInOrder
