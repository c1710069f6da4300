SPECIFICATION Spec
CONSTANTS
    Jobs = {j1}
    Rpcs = {s1}
    ChanCap = 1
    Watched = {j1}
    MaxLog = 1
    MaxBatch = 1
    MaxCrashes = 1
    MaxFaults = 0
INVARIANT
    ResumesWhereLeftOff
