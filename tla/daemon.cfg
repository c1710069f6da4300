SPECIFICATION Spec
CONSTANTS
    EventsProducers = {"p1", "p2"}
    EventsStreams = {"h1"}
    EventsNoStream = "none"
    EventsAfters = {1}
    EventsCap = 1
    EventsMaxEvents = 2
    LogSessions = {"x1"}
    LogReaders = {"r1"}
    LogAfters = {0, 1}
    LogMaxEvents = 3
    LogMaxCrashes = 2
    LogNoSession = "none"
    AttachClients = {"c1"}
    AttachQueueLen = 1
    AttachMaxLog = 2
    AttachMaxConns = 2
    AttachMaxKills = 1
    AttachMaxRestarts = 1
    RunShellCalls = {"r1", "r2"}
    RunShellTails = {"t1"}
    RunShellHooks = TRUE
    RunShellTimeouts = TRUE
    RunShellMaxOut = 1
    TerminalsClients = {"a", "b"}
    TerminalsOwner = "a"
    TerminalsMaxChunk = 2
    TerminalsMaxOut = 2
    ToolLimit = 2
    ToolMaxOut = 3
    FilesWriters = {"w1", "t1"}
    FilesTools = {"t1"}
    FilesMaxStops = 2
    BundlesCalls = {"k1", "k2"}
    BundlesMaxStops = 1
    BundlesMaxChanges = 1
    CommandJobs = {"j1", "j2"}
    CommandMaxDepth = 3
    CommandMaxStarts = 2
    ConfigMaxStarts = 3
INVARIANTS
    EventsAreDelivered
    LogKeepsAcked
    LogReplayIsComplete
    AttachMissesNothing
    RunsAreRight
    MarkersAreFound
    TextIsFound
    TerminalsAreRead
    ToolResultsAreRight
    FilesAreReplaced
    BundlesAreEnforced
    
    
    SettingsArrive
CHECK_DEADLOCK FALSE
