SPECIFICATION Spec
CONSTANTS
    c1 = c1
    c2 = c2
    h1 = h1
    h2 = h2
    none = none
    TurnsCalls = {c1, c2}
    TurnsHandlers = {h1}
    TurnsLlms = {"off", "broken", "on"}
    TurnsStream = TRUE
    TurnsMaxIters = 2
    TurnsHistory = 2
    TurnsCap = 2
    TurnsWireCap = 1
    TurnsNoCall = none
    TurnsMaxTurns = 2
    TurnsMaxSaid = 1
    TurnsMaxAsked = 2
    BothCalls = {c1}
    BothHandlers = {h1, h2}
    BothLlms = {"on"}
    BothStream = TRUE
    BothMaxIters = 1
    BothHistory = 2
    BothCap = 2
    BothWireCap = 1
    BothNoCall = none
    BothMaxTurns = 1
    BothMaxSaid = 0
    BothMaxAsked = 2
    PrinterMaxEvents = 4
    ConnectCommands = {"a", "b"}
    ConnectLocally = FALSE
    ConnectSaved = TRUE
    ConnectUsrBin = TRUE
    ConnectMaxFaults = 1
    ExecQueueCap = 1
    ExecMaxBuf = 2
    ExecSizes = {1, 3}
    ExecMaxChunks = 3
    InstallMaxRuns = 2
    InstallMaxCuts = 1
    DurableSmall = 2
    DurableSendCap = 1
    DurableDoneCap = 1
    DurableMaxLog = 3
    DurableMaxRuns = 2
    DurableMaxOthers = 1
    ChatCmds = {1, 2}
    ChatMaxLog = 3
    ChatMaxHooks = 1
    ChatMaxEvents = 1
    MirrorJobs = {"j1", "j2"}
    MirrorRpcs = {"s1"}
    MirrorChanCap = 1
    MirrorMaxLog = 3
    MirrorWatched = {"j1"}
    MirrorMaxBatch = 2
    MirrorMaxCrashes = 1
    MirrorMaxFaults = 1
    ProcessesJobs = {"j1", "j2"}
    ProcessesMaxStarts = 4
    ProcessesMaxKills = 1
INVARIANTS
    TurnsCallsAreWhole
    TurnsPromptHasQuestion
    
    
    
    
    ExecIsComplete
    
    
    ChatShellIsSound
    MirrorIsFaithful
    StopsAreClean
CHECK_DEADLOCK FALSE
