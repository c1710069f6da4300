SPECIFICATION Spec
CONSTANTS
    Jobs = {j1, j2}
    MaxDepth = 3
    MaxStarts = 2
INVARIANT WorkerSurvives
CHECK_DEADLOCK FALSE
