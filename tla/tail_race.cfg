SPECIFICATION Spec
CONSTANTS
    Jobs = {j1}
    Rpcs = {s1}
    Clients = {c1}
    ChanCap = 8
    WireCap = 2
    MaxLines <- BothFds
    ExitCodes = {0, 1}
    StartOffsets = {0}
INVARIANTS
    TypeOK
    NoPanic
    AllOutputStored
    NoLiveGap
    DenseOffsets
    EarlyTailIsComplete
PROPERTY
    ImplementsLifecycle
