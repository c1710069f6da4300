--------------------------- MODULE MCDaemonProofs ---------------------------
(***************************************************************************)
(* The theorems about the components of the daemon as theorems about what  *)
(* MCDaemon checks, for every value of its constants.  A behaviour of the  *)
(* run stays in the part it begins in, and there it is a behaviour of the  *)
(* component; the variables of the others are left to part, which no       *)
(* theorem looks at.                                                       *)
(***************************************************************************)
EXTENDS MCDaemon, TLAPS

-----------------------------------------------------------------------------
\* The session log.
LogP == INSTANCE SessionLogProofs WITH
    Sessions <- LogSessions, Readers <- LogReaders, Afters <- LogAfters,
    MaxEvents <- LogMaxEvents, MaxCrashes <- LogMaxCrashes,
    NoSession <- LogNoSession, meta <- v1, file <- v2, torn <- v3,
    durable <- v4, loaded <- v5, nextID <- v6, buf <- v7, wedged <- v8,
    holder <- v9, stage <- v10, crashes <- v11, rpc <- v12, rsess <- v13,
    rafter <- v14, rpos <- v15, got <- v16, acked <- v17, seen0 <- v18

\* One component, seen from the run and from its theorems.
LEMMA LogSame ==
    /\ Log!Init <=> LogP!Init
    /\ Log!Next <=> LogP!Next
    /\ Log!vars = LogP!vars
    /\ Log!TypeOK <=> LogP!TypeOK
    /\ Log!IdsAreDense <=> LogP!IdsAreDense
    /\ Log!AckedIsDurable <=> LogP!AckedIsDurable
    /\ Log!ReplayIsComplete <=> LogP!ReplayIsComplete
  <1>1. Log!Init <=> LogP!Init
    BY DEF Log!Init, LogP!Init
  <1>2. Log!Next <=> LogP!Next
    BY DEF Log!logVars, Log!readVars, Log!Orphan, Log!Parts, Log!Unlocked, Log!Ids,
           Log!scanNextID, Log!ReadsToEnd, Log!Loadable, Log!NextId, Log!Create, Log!WriteOut,
           Log!Stamped, Log!Buffered, Log!AppendWrite, Log!AppendWriteFails, Log!AppendRefused,
           Log!AppendFlush, Log!AppendSync, Log!AppendFlushFails, Log!AppendSyncFails,
           Log!Delete, Log!Stop, Log!Leave, Log!ProcessCrash, Log!PowerLoss, Log!ReplayStart,
           Log!ReplayOpen, Log!ReplayRecord, Log!ReplayEnd, Log!ReplaySendFails, Log!AppendStep,
           Log!ReplayStep, Log!Next, LogP!logVars, LogP!readVars, LogP!Orphan, LogP!Parts,
           LogP!Unlocked, LogP!Ids, LogP!scanNextID, LogP!ReadsToEnd, LogP!Loadable,
           LogP!NextId, LogP!Create, LogP!WriteOut, LogP!Stamped, LogP!Buffered,
           LogP!AppendWrite, LogP!AppendWriteFails, LogP!AppendRefused, LogP!AppendFlush,
           LogP!AppendSync, LogP!AppendFlushFails, LogP!AppendSyncFails, LogP!Delete, LogP!Stop,
           LogP!Leave, LogP!ProcessCrash, LogP!PowerLoss, LogP!ReplayStart, LogP!ReplayOpen,
           LogP!ReplayRecord, LogP!ReplayEnd, LogP!ReplaySendFails, LogP!AppendStep,
           LogP!ReplayStep, LogP!Next
  <1>3. Log!TypeOK <=> LogP!TypeOK
    BY DEF Log!Events, Log!Orphan, Log!Records, Log!Parts, Log!TypeOK, LogP!Events, LogP!Orphan,
           LogP!Records, LogP!Parts, LogP!TypeOK
  <1>4. Log!IdsAreDense <=> LogP!IdsAreDense
    BY DEF Log!Orphan, Log!IdsAreDense, LogP!Orphan, LogP!IdsAreDense
  <1>5. Log!AckedIsDurable <=> LogP!AckedIsDurable
    BY DEF Log!AckedIsDurable, LogP!AckedIsDurable
  <1>6. Log!ReplayIsComplete <=> LogP!ReplayIsComplete
    BY DEF Log!Increasing, Log!ReplayIsComplete, LogP!Increasing, LogP!ReplayIsComplete
  <1>7. Log!vars = LogP!vars
    BY DEF Log!logVars, Log!readVars, Log!vars, LogP!logVars, LogP!readVars, LogP!vars
  <1>8. QED
    BY <1>1, <1>2, <1>3, <1>4, <1>5, <1>6, <1>7

\* A behaviour of the run that begins in this part is one of the component.
LEMMA LogSteps ==
    /\ Init /\ part = "Log" => LogP!Init
    /\ [Next]_vars /\ part = "Log" => [LogP!Next]_(LogP!vars)
    /\ [Next]_vars /\ part = "Log" => (part = "Log")'
    /\ [Next]_vars /\ ~(part = "Log") => ~(part = "Log")'
  <1>1. Init /\ part = "Log" => LogP!Init
    BY LogSame DEF Init
  <1>2. [Next]_vars => part' = part
    BY DEF Next, vars
  <1>3. [Next]_vars /\ part = "Log" => [LogP!Next]_(LogP!vars)
    <2>1. Next /\ part = "Log" => Log!Next
      BY DEF Next
    <2>2. UNCHANGED vars => UNCHANGED Log!vars
      BY DEF vars, Log!logVars, Log!readVars, Log!vars
    <2>3. UNCHANGED Log!vars => UNCHANGED LogP!vars
      BY DEF Log!logVars, Log!readVars, Log!vars, LogP!logVars, LogP!readVars, LogP!vars
    <2>4. QED
      BY <2>1, <2>2, <2>3, LogSame
  <1>4. QED
    BY <1>1, <1>2, <1>3

\* Acknowledged events survive crashes and power losses, and records keep the ids 1, 2, 3,
\* ... (Append, scanNextID).
THEOREM LogAlwaysKeepsAcked == Spec => []LogKeepsAcked
  <1>1. LogP!Spec =>
          [](LogP!TypeOK /\ LogP!IdsAreDense /\ LogP!AckedIsDurable)
    BY LogP!TypeCorrect, LogP!IdsStayDense, LogP!AckedStaysDurable, LogConstants, PTL
  <1>2. (part = "Log" =>
           LogP!TypeOK /\ LogP!IdsAreDense /\ LogP!AckedIsDurable)
        => LogKeepsAcked
    BY LogSame DEF LogKeepsAcked
  <1>3. ~(part = "Log") => LogKeepsAcked
    BY DEF LogKeepsAcked
  <1>4. QED
    BY <1>1, <1>2, <1>3, LogSteps, PTL DEF Spec, LogP!Spec

\* A replay that ends has sent what was acknowledged before it began (Replay).
THEOREM LogReplaysAreAlwaysComplete == Spec => []LogReplayIsComplete
  <1>1. LogP!Spec =>
          [](LogP!ReplayIsComplete)
    BY LogP!ReplaysAreComplete, LogConstants, PTL
  <1>2. (part = "Log" =>
           LogP!ReplayIsComplete)
        => LogReplayIsComplete
    BY LogSame DEF LogReplayIsComplete
  <1>3. ~(part = "Log") => LogReplayIsComplete
    BY DEF LogReplayIsComplete
  <1>4. QED
    BY <1>1, <1>2, <1>3, LogSteps, PTL DEF Spec, LogP!Spec

-----------------------------------------------------------------------------
\* The components of RemoteProofs, each with the constants and variables it has in the run.
Remotes == INSTANCE RemoteProofs WITH
    eventsExists <- v1, eventsLog <- v2, eventsFlushed <- v3, eventsNextID <- v4,
    eventsSaid <- v5, eventsPpc <- v6, eventsCur <- v7, eventsTodo <- v8, eventsAt <- v9,
    eventsSpc <- v10, eventsAfter <- v11, eventsRpos <- v12, eventsCh <- v13, eventsSubs <- v14,
    eventsSent <- v15, eventsPanicked <- v16, eventsCopied <- v17, eventsSpilled <- v18,
    filesAt <- v1, filesOld <- v2, filesTemp <- v3, filesSynced <- v4, filesFile <- v5,
    filesDisk <- v6, filesDiffs <- v7, filesStops <- v8, commandDefault <- v1,
    commandFallback <- v2, commandHas <- v3, commandFlags <- v4, commandAt <- v5,
    commandSpec <- v6, commandDepth <- v7, commandRuns <- v8, commandDirs <- v9,
    commandWorker <- v10, commandStarts <- v11, toolMode <- v1, toolCapture <- v2, toolProc <- v3,
    toolChild <- v4, toolWritten <- v5, toolRead <- v6, toolEvents <- v7, toolKept <- v8,
    toolCut <- v9, toolReader <- v10, toolCanceled <- v11, toolResult <- v12, bundlesPath <- v1,
    bundlesFile <- v2, bundlesTmp <- v3, bundlesCreate <- v4, bundlesGot <- v5,
    bundlesSession <- v6, bundlesCache <- v7, bundlesTold <- v8, bundlesCall <- v9,
    bundlesEarly <- v10, bundlesStops <- v11, bundlesChanges <- v12, configLocal <- v1,
    configHost <- v2, configMode <- v3, configFile <- v4, configCfg <- v5, configClient <- v6,
    configOrigin <- v7, configStarts <- v8, AttachOwnOffset <- TRUE, attAlive <- v1,
    attExists <- v2, attGen <- v3, attSize <- v4, attLastAck <- v5, attConn <- v6, attUsed <- v7,
    attRestarts <- v8, attOwn <- v9, attGot <- v10, attPanicked <- v11,
    RunShellRuns <- RunShellCalls, RunShellTorn <- FALSE, cmdLog <- v1, cmdTyped <- v2,
    cmdRunning <- v3, cmdRun <- v4, cmdTail <- v5, cmdWriting <- v6, cmdTimeline <- v7,
    ttyProc <- v1, ttyChild <- v2, ttyTty <- v3, ttyRd <- v4, ttyClosed <- v5, ttyTimer <- v6,
    ttySession <- v7, ttyCall <- v8, ttyPending <- v9, ttySent <- v10, ttyResult <- v11,
    ttyCmd <- v12, ttyRecv <- v13, ttyGot <- v14, ttyGiven <- v15, ttyPrinted <- v16,
    ttyWhy <- v17

-----------------------------------------------------------------------------
\* Events on their way to the clients.
\* One component, seen from the run and from its theorems.
LEMMA EventsSame ==
    /\ Events!Init <=> Remotes!Events!Init
    /\ Events!Next <=> Remotes!Events!Next
    /\ Events!vars = Remotes!Events!vars
    /\ Events!TypeOK <=> Remotes!Events!TypeOK
    /\ Events!ProducerOrder <=> Remotes!Events!ProducerOrder
    /\ Events!LiveIsComplete <=> Remotes!Events!LiveIsComplete
  <1>1. Events!Init <=> Remotes!Events!Init
    BY DEF Events!Init, Remotes!Events!Init
  <1>2. Events!Next <=> Remotes!Events!Next
    BY DEF Events!store, Events!producer, Events!stream, Events!history, Events!Says,
           Events!Produce, Events!Idle, Events!AppendEvent, Events!AppendFails,
           Events!BroadcastEphemeral, Events!Served, Events!CopyTargets, Events!Closed,
           Events!SendOn, Events!TrySend, Events!DropOldest, Events!Retry, Events!DeleteSession,
           Events!StreamEvents, Events!ReplayRecord, Events!ReplayEnd, Events!Subscribe,
           Events!Forward, Events!Leave, Events!ProducerStep, Events!StreamStep, Events!Next,
           Remotes!Events!store, Remotes!Events!producer, Remotes!Events!stream,
           Remotes!Events!history, Remotes!Events!Says, Remotes!Events!Produce,
           Remotes!Events!Idle, Remotes!Events!AppendEvent, Remotes!Events!AppendFails,
           Remotes!Events!BroadcastEphemeral, Remotes!Events!Served, Remotes!Events!CopyTargets,
           Remotes!Events!Closed, Remotes!Events!SendOn, Remotes!Events!TrySend,
           Remotes!Events!DropOldest, Remotes!Events!Retry, Remotes!Events!DeleteSession,
           Remotes!Events!StreamEvents, Remotes!Events!ReplayRecord, Remotes!Events!ReplayEnd,
           Remotes!Events!Subscribe, Remotes!Events!Forward, Remotes!Events!Leave,
           Remotes!Events!ProducerStep, Remotes!Events!StreamStep, Remotes!Events!Next
  <1>3. Events!TypeOK <=> Remotes!Events!TypeOK
    BY DEF Events!Events, Events!TypeOK, Remotes!Events!Events, Remotes!Events!TypeOK
  <1>4. Events!ProducerOrder <=> Remotes!Events!ProducerOrder
    BY DEF Events!Arriving, Events!ProducerOrder, Remotes!Events!Arriving,
           Remotes!Events!ProducerOrder
  <1>5. Events!LiveIsComplete <=> Remotes!Events!LiveIsComplete
    BY DEF Events!Arriving, Events!LiveIsComplete, Remotes!Events!Arriving,
           Remotes!Events!LiveIsComplete
  <1>6. Events!vars = Remotes!Events!vars
    BY DEF Events!store, Events!producer, Events!stream, Events!history, Events!vars,
           Remotes!Events!store, Remotes!Events!producer, Remotes!Events!stream,
           Remotes!Events!history, Remotes!Events!vars
  <1>7. QED
    BY <1>1, <1>2, <1>3, <1>4, <1>5, <1>6

\* A behaviour of the run that begins in this part is one of the component.
LEMMA EventsSteps ==
    /\ Init /\ part = "Events" => Remotes!Events!Init
    /\ [Next]_vars /\ part = "Events" => [Remotes!Events!Next]_(Remotes!Events!vars)
    /\ [Next]_vars /\ part = "Events" => (part = "Events")'
    /\ [Next]_vars /\ ~(part = "Events") => ~(part = "Events")'
  <1>1. Init /\ part = "Events" => Remotes!Events!Init
    BY EventsSame DEF Init
  <1>2. [Next]_vars => part' = part
    BY DEF Next, vars
  <1>3. [Next]_vars /\ part = "Events" => [Remotes!Events!Next]_(Remotes!Events!vars)
    <2>1. Next /\ part = "Events" => Events!Next
      BY DEF Next
    <2>2. UNCHANGED vars => UNCHANGED Events!vars
      BY DEF vars, Events!store, Events!producer, Events!stream, Events!history, Events!vars
    <2>3. UNCHANGED Events!vars => UNCHANGED Remotes!Events!vars
      BY DEF Events!store, Events!producer, Events!stream, Events!history, Events!vars,
           Remotes!Events!store, Remotes!Events!producer, Remotes!Events!stream,
           Remotes!Events!history, Remotes!Events!vars
    <2>4. QED
      BY <2>1, <2>2, <2>3, EventsSame
  <1>4. QED
    BY <1>1, <1>2, <1>3

\* The events of a producer reach a client in order, and a subscribed stream misses none
\* unless its own channel overflowed (broadcast, sendDropOldest, StreamEvents).
THEOREM EventsAreAlwaysDelivered == Spec => []EventsAreDelivered
  <1>1. Remotes!Events!Spec =>
          [](Remotes!Events!TypeOK /\ Remotes!Events!ProducerOrder /\ Remotes!Events!LiveIsComplete)
    <2>1. Remotes!EventsBounds
      BY EventsConstants DEF Remotes!EventsBounds
    <2>2. QED
      BY <2>1, Remotes!EventsHold, PTL
  <1>2. (part = "Events" =>
           Remotes!Events!TypeOK /\ Remotes!Events!ProducerOrder /\ Remotes!Events!LiveIsComplete)
        => EventsAreDelivered
    BY EventsSame DEF EventsAreDelivered
  <1>3. ~(part = "Events") => EventsAreDelivered
    BY DEF EventsAreDelivered
  <1>4. QED
    BY <1>1, <1>2, <1>3, EventsSteps, PTL DEF Spec, Remotes!Events!Spec

-----------------------------------------------------------------------------
\* The file writers.
\* One component, seen from the run and from its theorems.
LEMMA FilesSame ==
    /\ Files!Init <=> Remotes!Files!Init
    /\ Files!Next <=> Remotes!Files!Next
    /\ Files!vars = Remotes!Files!vars
    /\ Files!TypeOK <=> Remotes!Files!TypeOK
    /\ Files!FilesAreWhole <=> Remotes!Files!FilesAreWhole
    /\ Files!NoTempIsLeft <=> Remotes!Files!NoTempIsLeft
    /\ Files!DiffsAreOfThePath <=> Remotes!Files!DiffsAreOfThePath
  <1>1. Files!Init <=> Remotes!Files!Init
    BY DEF Files!Init, Remotes!Files!Init
  <1>2. Files!Next <=> Remotes!Files!Next
    BY DEF Files!Goes, Files!Refuse, Files!ReadOld, Files!CreateTemp, Files!WriteTemp,
           Files!SyncTemp, Files!Rename, Files!WriteFails, Files!Report, Files!DirReachesDisk,
           Files!Stopped, Files!Crash, Files!PowerLoss, Files!WriteFileAtomic, Files!Next,
           Remotes!Files!Goes, Remotes!Files!Refuse, Remotes!Files!ReadOld,
           Remotes!Files!CreateTemp, Remotes!Files!WriteTemp, Remotes!Files!SyncTemp,
           Remotes!Files!Rename, Remotes!Files!WriteFails, Remotes!Files!Report,
           Remotes!Files!DirReachesDisk, Remotes!Files!Stopped, Remotes!Files!Crash,
           Remotes!Files!PowerLoss, Remotes!Files!WriteFileAtomic, Remotes!Files!Next
  <1>3. Files!TypeOK <=> Remotes!Files!TypeOK
    BY DEF Files!TypeOK, Remotes!Files!TypeOK
  <1>4. Files!FilesAreWhole <=> Remotes!Files!FilesAreWhole
    BY DEF Files!FilesAreWhole, Remotes!Files!FilesAreWhole
  <1>5. Files!NoTempIsLeft <=> Remotes!Files!NoTempIsLeft
    BY DEF Files!NoTempIsLeft, Remotes!Files!NoTempIsLeft
  <1>6. Files!DiffsAreOfThePath <=> Remotes!Files!DiffsAreOfThePath
    BY DEF Files!DiffsAreOfThePath, Remotes!Files!DiffsAreOfThePath
  <1>7. Files!vars = Remotes!Files!vars
    BY DEF Files!vars, Remotes!Files!vars
  <1>8. QED
    BY <1>1, <1>2, <1>3, <1>4, <1>5, <1>6, <1>7

\* A behaviour of the run that begins in this part is one of the component.
LEMMA FilesSteps ==
    /\ Init /\ part = "Files" => Remotes!Files!Init
    /\ [Next]_vars /\ part = "Files" => [Remotes!Files!Next]_(Remotes!Files!vars)
    /\ [Next]_vars /\ part = "Files" => (part = "Files")'
    /\ [Next]_vars /\ ~(part = "Files") => ~(part = "Files")'
  <1>1. Init /\ part = "Files" => Remotes!Files!Init
    BY FilesSame DEF Init
  <1>2. [Next]_vars => part' = part
    BY DEF Next, vars
  <1>3. [Next]_vars /\ part = "Files" => [Remotes!Files!Next]_(Remotes!Files!vars)
    <2>1. Next /\ part = "Files" => Files!Next
      BY DEF Next
    <2>2. UNCHANGED vars => UNCHANGED Files!vars
      BY DEF vars, Files!vars
    <2>3. UNCHANGED Files!vars => UNCHANGED Remotes!Files!vars
      BY DEF Files!vars, Remotes!Files!vars
    <2>4. QED
      BY <2>1, <2>2, <2>3, FilesSame
  <1>4. QED
    BY <1>1, <1>2, <1>3

\* Readers of a path find whole files, whatever fails or stops, and what is told of a
\* change is true (WriteFileAtomic, execWriteFileToolInternal).
THEOREM FilesAreAlwaysReplaced == Spec => []FilesAreReplaced
  <1>1. Remotes!Files!Spec =>
          [](Remotes!Files!TypeOK /\ Remotes!Files!FilesAreWhole /\ Remotes!Files!NoTempIsLeft /\
            Remotes!Files!DiffsAreOfThePath)
    <2>1. Remotes!FilesOwnContents
      BY Zenon, FilesConstants DEF Remotes!FilesOwnContents
    <2>2. FilesMaxStops \in Nat
      BY Zenon, FilesConstants
    <2>3. QED
      BY <2>1, <2>2, Remotes!FilesTypeCorrect, Remotes!ReadersSeeWholeFiles,
         Remotes!CallsCleanUp, Remotes!DiffsAreTrue, PTL
  <1>2. (part = "Files" =>
           Remotes!Files!TypeOK /\ Remotes!Files!FilesAreWhole /\ Remotes!Files!NoTempIsLeft /\
           Remotes!Files!DiffsAreOfThePath)
        => FilesAreReplaced
    BY FilesSame DEF FilesAreReplaced
  <1>3. ~(part = "Files") => FilesAreReplaced
    BY DEF FilesAreReplaced
  <1>4. QED
    BY <1>1, <1>2, <1>3, FilesSteps, PTL DEF Spec, Remotes!Files!Spec

-----------------------------------------------------------------------------
\* The command lines of jobs.
\* One component, seen from the run and from its theorems.
LEMMA CommandSame ==
    /\ Command!Init <=> Remotes!Command!Init
    /\ Command!Next <=> Remotes!Command!Next
    /\ Command!vars = Remotes!Command!vars
    /\ Command!TypeOK <=> Remotes!Command!TypeOK
    /\ Command!HostNeedsLeave <=> Remotes!Command!HostNeedsLeave
    /\ Command!SandboxIsAsAsked <=> Remotes!Command!SandboxIsAsAsked
    /\ Command!WorkspacesAreRemoved <=> Remotes!Command!WorkspacesAreRemoved
  <1>1. Command!Init <=> Remotes!Command!Init
    BY DEF Command!Nothing, Command!Flags, Command!parseSandboxType,
           Command!buildDefaultSandbox, Command!Init, Remotes!Command!Nothing,
           Remotes!Command!Flags, Remotes!Command!parseSandboxType,
           Remotes!Command!buildDefaultSandbox, Remotes!Command!Init
  <1>2. Command!Next <=> Remotes!Command!Next
    BY DEF Command!config, Command!Nothing, Command!InFlight, Command!parseSandboxTypeFlag,
           Command!buildSandbox, Command!SubmitIsSound, Command!Goes, Command!SubmitFails,
           Command!SubmitJob, Command!Dispatch, Command!PrepareWorkspace, Command!BuildCommand,
           Command!Effective, Command!Bin, Command!RunsIn, Command!WrapPlain,
           Command!WrapNsjail, Command!SandboxMissing, Command!FallBack, Command!StackOverflow,
           Command!StartWorker, Command!Start, Command!End, Command!Client,
           Command!wrapWithSandbox, Command!Execute, Command!Next, Remotes!Command!config,
           Remotes!Command!Nothing, Remotes!Command!InFlight,
           Remotes!Command!parseSandboxTypeFlag, Remotes!Command!buildSandbox,
           Remotes!Command!SubmitIsSound, Remotes!Command!Goes, Remotes!Command!SubmitFails,
           Remotes!Command!SubmitJob, Remotes!Command!Dispatch,
           Remotes!Command!PrepareWorkspace, Remotes!Command!BuildCommand,
           Remotes!Command!Effective, Remotes!Command!Bin, Remotes!Command!RunsIn,
           Remotes!Command!WrapPlain, Remotes!Command!WrapNsjail,
           Remotes!Command!SandboxMissing, Remotes!Command!FallBack,
           Remotes!Command!StackOverflow, Remotes!Command!StartWorker, Remotes!Command!Start,
           Remotes!Command!End, Remotes!Command!Client, Remotes!Command!wrapWithSandbox,
           Remotes!Command!Execute, Remotes!Command!Next
  <1>3. Command!TypeOK <=> Remotes!Command!TypeOK
    BY DEF Command!Nothing, Command!Specs, Command!Flags, Command!InFlight, Command!TypeOK,
           Remotes!Command!Nothing, Remotes!Command!Specs, Remotes!Command!Flags,
           Remotes!Command!InFlight, Remotes!Command!TypeOK
  <1>4. Command!HostNeedsLeave <=> Remotes!Command!HostNeedsLeave
    BY DEF Command!Nothing, Command!parseSandboxTypeFlag, Command!buildSandbox, Command!Asked,
           Command!HostNeedsLeave, Remotes!Command!Nothing,
           Remotes!Command!parseSandboxTypeFlag, Remotes!Command!buildSandbox,
           Remotes!Command!Asked, Remotes!Command!HostNeedsLeave
  <1>5. Command!SandboxIsAsAsked <=> Remotes!Command!SandboxIsAsAsked
    BY DEF Command!Nothing, Command!parseSandboxTypeFlag, Command!buildSandbox, Command!Bin,
           Command!Asked, Command!SandboxIsAsAsked, Remotes!Command!Nothing,
           Remotes!Command!parseSandboxTypeFlag, Remotes!Command!buildSandbox,
           Remotes!Command!Bin, Remotes!Command!Asked, Remotes!Command!SandboxIsAsAsked
  <1>6. Command!WorkspacesAreRemoved <=> Remotes!Command!WorkspacesAreRemoved
    BY DEF Command!InFlight, Command!WorkspacesAreRemoved, Remotes!Command!InFlight,
           Remotes!Command!WorkspacesAreRemoved
  <1>7. Command!vars = Remotes!Command!vars
    BY DEF Command!vars, Remotes!Command!vars
  <1>8. QED
    BY <1>1, <1>2, <1>3, <1>4, <1>5, <1>6, <1>7

\* A behaviour of the run that begins in this part is one of the component.
LEMMA CommandSteps ==
    /\ Init /\ part = "Command" => Remotes!Command!Init
    /\ [Next]_vars /\ part = "Command" => [Remotes!Command!Next]_(Remotes!Command!vars)
    /\ [Next]_vars /\ part = "Command" => (part = "Command")'
    /\ [Next]_vars /\ ~(part = "Command") => ~(part = "Command")'
  <1>1. Init /\ part = "Command" => Remotes!Command!Init
    BY CommandSame DEF Init
  <1>2. [Next]_vars => part' = part
    BY DEF Next, vars
  <1>3. [Next]_vars /\ part = "Command" => [Remotes!Command!Next]_(Remotes!Command!vars)
    <2>1. Next /\ part = "Command" => Command!Next
      BY DEF Next
    <2>2. UNCHANGED vars => UNCHANGED Command!vars
      BY DEF vars, Command!vars
    <2>3. UNCHANGED Command!vars => UNCHANGED Remotes!Command!vars
      BY DEF Command!vars, Remotes!Command!vars
    <2>4. QED
      BY <2>1, <2>2, <2>3, CommandSame
  <1>4. QED
    BY <1>1, <1>2, <1>3

\* A process runs outside the sandbox asked for only where somebody allowed it, and the
\* workspace of a job that has ended is removed (wrapWithSandbox, Execute).
THEOREM CommandsAreAlwaysSandboxed == Spec => []CommandsAreSandboxed
  <1>1. Remotes!Command!Spec =>
          [](Remotes!Command!TypeOK /\ Remotes!Command!HostNeedsLeave /\
            Remotes!Command!SandboxIsAsAsked /\ Remotes!Command!WorkspacesAreRemoved)
    BY Remotes!CommandTypeCorrect, Remotes!CommandsStaySandboxed, Remotes!WorkspacesGo,
       CommandConstants, PTL
  <1>2. (part = "Command" =>
           Remotes!Command!TypeOK /\ Remotes!Command!HostNeedsLeave /\
           Remotes!Command!SandboxIsAsAsked /\ Remotes!Command!WorkspacesAreRemoved)
        => CommandsAreSandboxed
    BY CommandSame DEF CommandsAreSandboxed
  <1>3. ~(part = "Command") => CommandsAreSandboxed
    BY DEF CommandsAreSandboxed
  <1>4. QED
    BY <1>1, <1>2, <1>3, CommandSteps, PTL DEF Spec, Remotes!Command!Spec

-----------------------------------------------------------------------------
\* The shell tool.
\* One component, seen from the run and from its theorems.
LEMMA ToolSame ==
    /\ Tool!Init <=> Remotes!Tool!Init
    /\ Tool!Next <=> Remotes!Tool!Next
    /\ Tool!vars = Remotes!Tool!vars
    /\ Tool!TypeOK <=> Remotes!Tool!TypeOK
    /\ Tool!ResultComesLast <=> Remotes!Tool!ResultComesLast
    /\ Tool!OutputIsWhole <=> Remotes!Tool!OutputIsWhole
  <1>1. Tool!Init <=> Remotes!Tool!Init
    BY DEF Tool!All, Tool!Init, Remotes!Tool!All, Remotes!Tool!Init
  <1>2. Tool!Next <=> Remotes!Tool!Next
    BY DEF Tool!Streams, Tool!All, Tool!Holds, Tool!Write, Tool!ProcessEnds, Tool!Cancel,
           Tool!Closed, Tool!Read, Tool!LimitedWrite, Tool!Say, Tool!ReadEnds, Tool!PTYDeadline,
           Tool!Wait, Tool!Return, Tool!Reader, Tool!Next, Remotes!Tool!Streams,
           Remotes!Tool!All, Remotes!Tool!Holds, Remotes!Tool!Write, Remotes!Tool!ProcessEnds,
           Remotes!Tool!Cancel, Remotes!Tool!Closed, Remotes!Tool!Read,
           Remotes!Tool!LimitedWrite, Remotes!Tool!Say, Remotes!Tool!ReadEnds,
           Remotes!Tool!PTYDeadline, Remotes!Tool!Wait, Remotes!Tool!Return,
           Remotes!Tool!Reader, Remotes!Tool!Next
  <1>3. Tool!TypeOK <=> Remotes!Tool!TypeOK
    BY DEF Tool!All, Tool!TypeOK, Remotes!Tool!All, Remotes!Tool!TypeOK
  <1>4. Tool!ResultComesLast <=> Remotes!Tool!ResultComesLast
    BY DEF Tool!Streams, Tool!ResultComesLast, Remotes!Tool!Streams,
           Remotes!Tool!ResultComesLast
  <1>5. Tool!OutputIsWhole <=> Remotes!Tool!OutputIsWhole
    BY DEF Tool!Streams, Tool!OutputIsWhole, Remotes!Tool!Streams, Remotes!Tool!OutputIsWhole
  <1>6. Tool!vars = Remotes!Tool!vars
    BY DEF Tool!vars, Remotes!Tool!vars
  <1>7. QED
    BY <1>1, <1>2, <1>3, <1>4, <1>5, <1>6

\* A behaviour of the run that begins in this part is one of the component.
LEMMA ToolSteps ==
    /\ Init /\ part = "Tool" => Remotes!Tool!Init
    /\ [Next]_vars /\ part = "Tool" => [Remotes!Tool!Next]_(Remotes!Tool!vars)
    /\ [Next]_vars /\ part = "Tool" => (part = "Tool")'
    /\ [Next]_vars /\ ~(part = "Tool") => ~(part = "Tool")'
  <1>1. Init /\ part = "Tool" => Remotes!Tool!Init
    BY ToolSame DEF Init
  <1>2. [Next]_vars => part' = part
    BY DEF Next, vars
  <1>3. [Next]_vars /\ part = "Tool" => [Remotes!Tool!Next]_(Remotes!Tool!vars)
    <2>1. Next /\ part = "Tool" => Tool!Next
      BY DEF Next
    <2>2. UNCHANGED vars => UNCHANGED Tool!vars
      BY DEF vars, Tool!vars
    <2>3. UNCHANGED Tool!vars => UNCHANGED Remotes!Tool!vars
      BY DEF Tool!vars, Remotes!Tool!vars
    <2>4. QED
      BY <2>1, <2>2, <2>3, ToolSame
  <1>4. QED
    BY <1>1, <1>2, <1>3

\* The result of a shell call is its last event, and a model is shown the beginning of
\* what the events hold (execShell*, limitedBuffer).
THEOREM ToolResultsAreAlwaysRight == Spec => []ToolResultsAreRight
  <1>1. Remotes!Tool!Spec =>
          [](Remotes!Tool!TypeOK /\ Remotes!Tool!ResultComesLast /\ Remotes!Tool!OutputIsWhole)
    <2>1. Remotes!ToolToolBounds
      BY ToolConstants DEF Remotes!ToolToolBounds
    <2>2. QED
      BY <2>1, Remotes!ToolResults, PTL
  <1>2. (part = "Tool" =>
           Remotes!Tool!TypeOK /\ Remotes!Tool!ResultComesLast /\ Remotes!Tool!OutputIsWhole)
        => ToolResultsAreRight
    BY ToolSame DEF ToolResultsAreRight
  <1>3. ~(part = "Tool") => ToolResultsAreRight
    BY DEF ToolResultsAreRight
  <1>4. QED
    BY <1>1, <1>2, <1>3, ToolSteps, PTL DEF Spec, Remotes!Tool!Spec

-----------------------------------------------------------------------------
\* The tool bundle of a session.
\* One component, seen from the run and from its theorems.
LEMMA BundlesSame ==
    /\ Bundles!Init <=> Remotes!Bundles!Init
    /\ Bundles!Next <=> Remotes!Bundles!Next
    /\ Bundles!vars = Remotes!Bundles!vars
    /\ Bundles!TypeOK <=> Remotes!Bundles!TypeOK
    /\ Bundles!NoToolWithoutBundle <=> Remotes!Bundles!NoToolWithoutBundle
    /\ Bundles!AnnouncedIsEnforced <=> Remotes!Bundles!AnnouncedIsEnforced
  <1>1. Bundles!Init <=> Remotes!Bundles!Init
    BY DEF Bundles!Versions, Bundles!Content, Bundles!Idle, Bundles!Init,
           Remotes!Bundles!Versions, Remotes!Bundles!Content, Remotes!Bundles!Idle,
           Remotes!Bundles!Init
  <1>2. Bundles!Next <=> Remotes!Bundles!Next
    BY DEF Bundles!Versions, Bundles!Tools, Bundles!bundleAllows, Bundles!Create,
           Bundles!SessionStarted, Bundles!LoadBundle, Bundles!KeepBundle,
           Bundles!ToolBundleLoaded, Bundles!DeleteSession, Bundles!Goes, Bundles!ToolInvoke,
           Bundles!LookInCache, Bundles!LookInStore, Bundles!ReadBundle, Bundles!CacheBundle,
           Bundles!Judge, Bundles!Work, Bundles!WriteBundle, Bundles!RenameBundle,
           Bundles!EditFile, Bundles!Restart, Bundles!CreateSession, Bundles!bundleForSession,
           Bundles!Next, Remotes!Bundles!Versions, Remotes!Bundles!Tools,
           Remotes!Bundles!bundleAllows, Remotes!Bundles!Create, Remotes!Bundles!SessionStarted,
           Remotes!Bundles!LoadBundle, Remotes!Bundles!KeepBundle,
           Remotes!Bundles!ToolBundleLoaded, Remotes!Bundles!DeleteSession,
           Remotes!Bundles!Goes, Remotes!Bundles!ToolInvoke, Remotes!Bundles!LookInCache,
           Remotes!Bundles!LookInStore, Remotes!Bundles!ReadBundle, Remotes!Bundles!CacheBundle,
           Remotes!Bundles!Judge, Remotes!Bundles!Work, Remotes!Bundles!WriteBundle,
           Remotes!Bundles!RenameBundle, Remotes!Bundles!EditFile, Remotes!Bundles!Restart,
           Remotes!Bundles!CreateSession, Remotes!Bundles!bundleForSession, Remotes!Bundles!Next
  <1>3. Bundles!TypeOK <=> Remotes!Bundles!TypeOK
    BY DEF Bundles!Versions, Bundles!Tools, Bundles!Content, Bundles!TypeOK,
           Remotes!Bundles!Versions, Remotes!Bundles!Tools, Remotes!Bundles!Content,
           Remotes!Bundles!TypeOK
  <1>4. Bundles!NoToolWithoutBundle <=> Remotes!Bundles!NoToolWithoutBundle
    BY DEF Bundles!bundleAllows, Bundles!NoToolWithoutBundle, Remotes!Bundles!bundleAllows,
           Remotes!Bundles!NoToolWithoutBundle
  <1>5. Bundles!AnnouncedIsEnforced <=> Remotes!Bundles!AnnouncedIsEnforced
    BY DEF Bundles!Versions, Bundles!AnnouncedIsEnforced, Remotes!Bundles!Versions,
           Remotes!Bundles!AnnouncedIsEnforced
  <1>6. Bundles!vars = Remotes!Bundles!vars
    BY DEF Bundles!vars, Remotes!Bundles!vars
  <1>7. QED
    BY <1>1, <1>2, <1>3, <1>4, <1>5, <1>6

\* A behaviour of the run that begins in this part is one of the component.
LEMMA BundlesSteps ==
    /\ Init /\ part = "Bundles" => Remotes!Bundles!Init
    /\ [Next]_vars /\ part = "Bundles" => [Remotes!Bundles!Next]_(Remotes!Bundles!vars)
    /\ [Next]_vars /\ part = "Bundles" => (part = "Bundles")'
    /\ [Next]_vars /\ ~(part = "Bundles") => ~(part = "Bundles")'
  <1>1. Init /\ part = "Bundles" => Remotes!Bundles!Init
    BY BundlesSame DEF Init
  <1>2. [Next]_vars => part' = part
    BY DEF Next, vars
  <1>3. [Next]_vars /\ part = "Bundles" => [Remotes!Bundles!Next]_(Remotes!Bundles!vars)
    <2>1. Next /\ part = "Bundles" => Bundles!Next
      BY DEF Next
    <2>2. UNCHANGED vars => UNCHANGED Bundles!vars
      BY DEF vars, Bundles!vars
    <2>3. UNCHANGED Bundles!vars => UNCHANGED Remotes!Bundles!vars
      BY DEF Bundles!vars, Remotes!Bundles!vars
    <2>4. QED
      BY <2>1, <2>2, <2>3, BundlesSame
  <1>4. QED
    BY <1>1, <1>2, <1>3

\* In a session that names a bundle no tool runs without a valid one that allows it, and
\* until a restart the announced one decides (bundleForSession).
THEOREM BundlesAreAlwaysEnforced == Spec => []BundlesAreEnforced
  <1>1. Remotes!Bundles!Spec =>
          [](Remotes!Bundles!TypeOK /\ Remotes!Bundles!NoToolWithoutBundle /\
            Remotes!Bundles!AnnouncedIsEnforced)
    BY Remotes!BundlesHold, PTL
  <1>2. (part = "Bundles" =>
           Remotes!Bundles!TypeOK /\ Remotes!Bundles!NoToolWithoutBundle /\
           Remotes!Bundles!AnnouncedIsEnforced)
        => BundlesAreEnforced
    BY BundlesSame DEF BundlesAreEnforced
  <1>3. ~(part = "Bundles") => BundlesAreEnforced
    BY DEF BundlesAreEnforced
  <1>4. QED
    BY <1>1, <1>2, <1>3, BundlesSteps, PTL DEF Spec, Remotes!Bundles!Spec

-----------------------------------------------------------------------------
\* The settings of the language model.
\* What the actions are built from.
LEMMA ConfigValues ==
    /\ Config!Unset = Remotes!Config!Unset
    /\ \A e : Config!FromEnv(e) = Remotes!Config!FromEnv(e)
    /\ \A c : Config!NewClient(c) = Remotes!Config!NewClient(c)
    /\ \A s : Config!Lines(s) = Remotes!Config!Lines(s)
    /\ \A s, t : Config!Over(s, t) = Remotes!Config!Over(s, t)
    /\ \A s : Config!Accepted(s) <=> Remotes!Config!Accepted(s)
  <1>1. Config!Unset = Remotes!Config!Unset
    BY Zenon DEF Config!Unset, Remotes!Config!Unset
  <1>2. \A e : Config!FromEnv(e) = Remotes!Config!FromEnv(e)
    BY Zenon DEF Config!FromEnv, Config!Default, Remotes!Config!FromEnv, Remotes!Config!Default
  <1>3. \A c : Config!NewClient(c) = Remotes!Config!NewClient(c)
    BY Zenon DEF Config!NewClient, Config!Validate, Config!Complete,
           Config!ValidateOpenAICompatBaseURL, Config!Default, Remotes!Config!NewClient,
           Remotes!Config!Validate, Remotes!Config!Complete,
           Remotes!Config!ValidateOpenAICompatBaseURL, Remotes!Config!Default
  <1>4. \A s : Config!Lines(s) = Remotes!Config!Lines(s)
    BY <1>1, <1>2, Zenon DEF Config!Lines, Remotes!Config!Lines
  <1>5. \A s, t : Config!Over(s, t) = Remotes!Config!Over(s, t)
    BY <1>1, Zenon DEF Config!Over, Config!Default, Remotes!Config!Over, Remotes!Config!Default
  <1>6. \A s : Config!Accepted(s) <=> Remotes!Config!Accepted(s)
    BY <1>2, Zenon DEF Config!Accepted, Config!Complete, Config!ValidateOpenAICompatBaseURL,
           Config!Default, Remotes!Config!Accepted, Remotes!Config!Complete,
           Remotes!Config!ValidateOpenAICompatBaseURL, Remotes!Config!Default
  <1>7. QED
    BY <1>1, <1>2, <1>3, <1>4, <1>5, <1>6

\* One component, seen from the run and from its theorems.
LEMMA ConfigSame ==
    /\ Config!Init <=> Remotes!Config!Init
    /\ Config!Next <=> Remotes!Config!Next
    /\ Config!vars = Remotes!Config!vars
    /\ Config!TypeOK <=> Remotes!Config!TypeOK
    /\ Config!AcceptedIsUsable <=> Remotes!Config!AcceptedIsUsable
    /\ Config!ForwardedIsLocal <=> Remotes!Config!ForwardedIsLocal
    /\ Config!ClientsAreComplete <=> Remotes!Config!ClientsAreComplete
  <1>1. Config!Init <=> Remotes!Config!Init
    BY Zenon DEF Config!Settings, Config!Unset, Config!HostEnvs, Config!Default, Config!FromEnv,
           Config!Init, Remotes!Config!Settings, Remotes!Config!Unset, Remotes!Config!HostEnvs,
           Remotes!Config!Default, Remotes!Config!FromEnv, Remotes!Config!Init
  <1>2. Config!Next <=> Remotes!Config!Next
    <2>1. \A e, b : Config!Start(e, b) <=> Remotes!Config!Start(e, b)
      BY ConfigValues, Zenon DEF Config!Start, Remotes!Config!Start
    <2>2. Config!Forwarded = Remotes!Config!Forwarded /\ (Config!Foreign <=> Remotes!Config!Foreign)
      BY Zenon DEF Config!Forwarded, Config!Foreign, Remotes!Config!Forwarded,
             Remotes!Config!Foreign
    <2>3. \A f : Config!Environment(f) = Remotes!Config!Environment(f)
      BY ConfigValues, Zenon DEF Config!Environment, Remotes!Config!Environment
    <2>4. /\ Config!BootstrapWithLLM <=> Remotes!Config!BootstrapWithLLM
          /\ Config!BootstrapBesideForeign <=> Remotes!Config!BootstrapBesideForeign
      BY ConfigValues, <2>1, <2>2, <2>3, Zenon
         DEF Config!BootstrapWithLLM, Config!BootstrapBesideForeign,
             Remotes!Config!BootstrapWithLLM, Remotes!Config!BootstrapBesideForeign
    <2>5. Config!BootstrapWithout <=> Remotes!Config!BootstrapWithout
      BY ConfigValues, <2>1, <2>2, <2>3, Zenon
         DEF Config!BootstrapWithout, Remotes!Config!BootstrapWithout
    <2>6. /\ Config!UnitStarts <=> Remotes!Config!UnitStarts
          /\ Config!StartOverSSH <=> Remotes!Config!StartOverSSH
          /\ Config!Stops <=> Remotes!Config!Stops
      BY ConfigValues, <2>1, <2>2, Zenon
         DEF Config!UnitStarts, Config!StartOverSSH, Config!Stops,
             Remotes!Config!UnitStarts, Remotes!Config!StartOverSSH, Remotes!Config!Stops
    <2>7. QED
      BY <2>4, <2>5, <2>6, Zenon DEF Config!Next, Remotes!Config!Next
  <1>3. Config!TypeOK <=> Remotes!Config!TypeOK
    BY Zenon DEF Config!Settings, Config!Unset, Config!HostEnvs, Config!TypeOK,
           Remotes!Config!Settings, Remotes!Config!Unset, Remotes!Config!HostEnvs,
           Remotes!Config!TypeOK
  <1>4. Config!AcceptedIsUsable <=> Remotes!Config!AcceptedIsUsable
    BY Zenon DEF Config!Unset, Config!Default, Config!FromEnv, Config!Understood,
           Config!AcceptedIsUsable, Remotes!Config!Unset, Remotes!Config!Default,
           Remotes!Config!FromEnv, Remotes!Config!Understood, Remotes!Config!AcceptedIsUsable
  <1>5. Config!ForwardedIsLocal <=> Remotes!Config!ForwardedIsLocal
    BY Zenon DEF Config!Unset, Config!Default, Config!FromEnv, Config!ValidateOpenAICompatBaseURL,
           Config!Complete, Config!Validate, Config!NewClient, Config!ForwardedIsLocal,
           Remotes!Config!Unset, Remotes!Config!Default, Remotes!Config!FromEnv,
           Remotes!Config!ValidateOpenAICompatBaseURL, Remotes!Config!Complete,
           Remotes!Config!Validate, Remotes!Config!NewClient, Remotes!Config!ForwardedIsLocal
  <1>6. Config!ClientsAreComplete <=> Remotes!Config!ClientsAreComplete
    BY Zenon DEF Config!Complete, Config!ClientsAreComplete, Remotes!Config!Complete,
           Remotes!Config!ClientsAreComplete
  <1>7. Config!vars = Remotes!Config!vars
    BY DEF Config!vars, Remotes!Config!vars
  <1>8. QED
    BY <1>1, <1>2, <1>3, <1>4, <1>5, <1>6, <1>7

\* A behaviour of the run that begins in this part is one of the component.
LEMMA ConfigSteps ==
    /\ Init /\ part = "Config" => Remotes!Config!Init
    /\ [Next]_vars /\ part = "Config" => [Remotes!Config!Next]_(Remotes!Config!vars)
    /\ [Next]_vars /\ part = "Config" => (part = "Config")'
    /\ [Next]_vars /\ ~(part = "Config") => ~(part = "Config")'
  <1>1. Init /\ part = "Config" => Remotes!Config!Init
    BY ConfigSame DEF Init
  <1>2. [Next]_vars => part' = part
    BY DEF Next, vars
  <1>3. [Next]_vars /\ part = "Config" => [Remotes!Config!Next]_(Remotes!Config!vars)
    <2>1. Next /\ part = "Config" => Config!Next
      BY DEF Next
    <2>2. UNCHANGED vars => UNCHANGED Config!vars
      BY DEF vars, Config!vars
    <2>3. UNCHANGED Config!vars => UNCHANGED Remotes!Config!vars
      BY DEF Config!vars, Remotes!Config!vars
    <2>4. QED
      BY <2>1, <2>2, <2>3, ConfigSame
  <1>4. QED
    BY <1>1, <1>2, <1>3

\* What the bootstrap accepts on the laptop is what the daemon uses (writeLLMConfig,
\* NewClient).
THEOREM SettingsAlwaysArrive == Spec => []SettingsArrive
  <1>1. Remotes!Config!Spec =>
          [](Remotes!Config!TypeOK /\ Remotes!Config!AcceptedIsUsable /\
            Remotes!Config!ForwardedIsLocal /\ Remotes!Config!ClientsAreComplete)
    BY Remotes!SettingsHold, ConfigConstants, PTL
  <1>2. (part = "Config" =>
           Remotes!Config!TypeOK /\ Remotes!Config!AcceptedIsUsable /\
           Remotes!Config!ForwardedIsLocal /\ Remotes!Config!ClientsAreComplete)
        => SettingsArrive
    BY ConfigSame DEF SettingsArrive
  <1>3. ~(part = "Config") => SettingsArrive
    BY DEF SettingsArrive
  <1>4. QED
    BY <1>1, <1>2, <1>3, ConfigSteps, PTL DEF Spec, Remotes!Config!Spec

-----------------------------------------------------------------------------
\* The attachments of a shell; the clients give their offsets.
\* One component, seen from the run and from its theorems.
LEMMA AttachSame ==
    /\ Attach!Init <=> Remotes!Attach!Init
    /\ Attach!Next <=> Remotes!Attach!Next
    /\ Attach!vars = Remotes!Attach!vars
    /\ Attach!TypeOK <=> Remotes!Attach!TypeOK
    /\ Attach!NothingSkipped <=> Remotes!Attach!NothingSkipped
    /\ Attach!HeldIsContiguous <=> Remotes!Attach!HeldIsContiguous
  <1>1. Attach!Init <=> Remotes!Attach!Init
    BY DEF Attach!Conns, Attach!NoConn, Attach!Init, Remotes!Attach!Conns,
           Remotes!Attach!NoConn, Remotes!Attach!Init
  <1>2. Attach!Next <=> Remotes!Attach!Next
    BY DEF Attach!Conns, Attach!NoConn, Attach!Larger, Attach!Smaller, Attach!SetLastAck,
           Attach!Output, Attach!CloseShell, Attach!EnsureShellSession, Attach!StartOffset,
           Attach!Attach, Attach!OpenLog, Attach!OpenLogFails, Attach!Read, Attach!Flush,
           Attach!ProcessEnds, Attach!FlushStopped, Attach!TailEnds, Attach!Sender,
           Attach!RecvAck, Attach!StopSend, Attach!Recv, Attach!Disconnect, Attach!Restart,
           Attach!ServerStep, Attach!Next, Remotes!Attach!Conns, Remotes!Attach!NoConn,
           Remotes!Attach!Larger, Remotes!Attach!Smaller, Remotes!Attach!SetLastAck,
           Remotes!Attach!Output, Remotes!Attach!CloseShell, Remotes!Attach!EnsureShellSession,
           Remotes!Attach!StartOffset, Remotes!Attach!Attach, Remotes!Attach!OpenLog,
           Remotes!Attach!OpenLogFails, Remotes!Attach!Read, Remotes!Attach!Flush,
           Remotes!Attach!ProcessEnds, Remotes!Attach!FlushStopped, Remotes!Attach!TailEnds,
           Remotes!Attach!Sender, Remotes!Attach!RecvAck, Remotes!Attach!StopSend,
           Remotes!Attach!Recv, Remotes!Attach!Disconnect, Remotes!Attach!Restart,
           Remotes!Attach!ServerStep, Remotes!Attach!Next
  <1>3. Attach!TypeOK <=> Remotes!Attach!TypeOK
    BY DEF Attach!Conns, Attach!Chunks, Attach!TypeOK, Remotes!Attach!Conns,
           Remotes!Attach!Chunks, Remotes!Attach!TypeOK
  <1>4. Attach!NothingSkipped <=> Remotes!Attach!NothingSkipped
    BY DEF Attach!NothingSkipped, Remotes!Attach!NothingSkipped
  <1>5. Attach!HeldIsContiguous <=> Remotes!Attach!HeldIsContiguous
    BY DEF Attach!Conns, Attach!HeldIsContiguous, Remotes!Attach!Conns,
           Remotes!Attach!HeldIsContiguous
  <1>6. Attach!vars = Remotes!Attach!vars
    BY DEF Attach!vars, Remotes!Attach!vars
  <1>7. QED
    BY <1>1, <1>2, <1>3, <1>4, <1>5, <1>6

\* A behaviour of the run that begins in this part is one of the component.
LEMMA AttachSteps ==
    /\ Init /\ part = "Attach" => Remotes!Attach!Init
    /\ [Next]_vars /\ part = "Attach" => [Remotes!Attach!Next]_(Remotes!Attach!vars)
    /\ [Next]_vars /\ part = "Attach" => (part = "Attach")'
    /\ [Next]_vars /\ ~(part = "Attach") => ~(part = "Attach")'
  <1>1. Init /\ part = "Attach" => Remotes!Attach!Init
    BY AttachSame DEF Init
  <1>2. [Next]_vars => part' = part
    BY DEF Next, vars
  <1>3. [Next]_vars /\ part = "Attach" => [Remotes!Attach!Next]_(Remotes!Attach!vars)
    <2>1. Next /\ part = "Attach" => Attach!Next
      BY DEF Next
    <2>2. UNCHANGED vars => UNCHANGED Attach!vars
      BY DEF vars, Attach!vars
    <2>3. UNCHANGED Attach!vars => UNCHANGED Remotes!Attach!vars
      BY DEF Attach!vars, Remotes!Attach!vars
    <2>4. QED
      BY <2>1, <2>2, <2>3, AttachSame
  <1>4. QED
    BY <1>1, <1>2, <1>3

\* A client that gives its own offset misses nothing over disconnects unless the shell is
\* killed, and what an attachment holds fits together (AttachShell).
THEOREM AttachmentsAlwaysMissNothing == Spec => []AttachMissesNothing
  <1>1. Remotes!Attach!Spec =>
          [](Remotes!Attach!TypeOK /\ Remotes!Attach!NothingSkipped /\
            Remotes!Attach!HeldIsContiguous)
    <2>1. Remotes!AttachBounds
      BY AttachConstants DEF Remotes!AttachBounds
    <2>2. QED
      BY <2>1, Remotes!AttachmentsHold, PTL
  <1>2. (part = "Attach" =>
           Remotes!Attach!TypeOK /\ Remotes!Attach!NothingSkipped /\
           Remotes!Attach!HeldIsContiguous)
        => AttachMissesNothing
    BY AttachSame DEF AttachMissesNothing
  <1>3. ~(part = "Attach") => AttachMissesNothing
    BY DEF AttachMissesNothing
  <1>4. QED
    BY <1>1, <1>2, <1>3, AttachSteps, PTL DEF Spec, Remotes!Attach!Spec

-----------------------------------------------------------------------------
\* The commands of a shell; lines reach the log whole.
\* The same operator of the library.
LEMMA RunShellCardinality == \A s : RunShell!Cardinality(s) = Remotes!RunShell!Cardinality(s)
  BY Zenon DEF RunShell!Cardinality, Remotes!RunShell!Cardinality

\* One component, seen from the run and from its theorems.
LEMMA RunShellSame ==
    /\ RunShell!Init <=> Remotes!RunShell!Init
    /\ RunShell!Next <=> Remotes!RunShell!Next
    /\ RunShell!vars = Remotes!RunShell!vars
    /\ RunShell!TypeOK <=> Remotes!RunShell!TypeOK
    /\ RunShell!RangeHoldsOutput <=> Remotes!RunShell!RangeHoldsOutput
    /\ RunShell!ExitCodeIsRight <=> Remotes!RunShell!ExitCodeIsRight
  <1>1. RunShell!Init <=> Remotes!RunShell!Init
    BY DEF RunShell!None, RunShell!Init, Remotes!RunShell!None, Remotes!RunShell!Init
  <1>2. RunShell!Next <=> Remotes!RunShell!Next
    BY RunShellCardinality DEF RunShell!ExitCode, RunShell!None, RunShell!Tok, RunShell!Outputs, RunShell!Write,
           RunShell!Execute, RunShell!RunLine, RunShell!CommandEnds, RunShell!Shell,
           RunShell!RunShell, RunShell!Seen, RunShell!Parsed, RunShell!WaitForRunEnd,
           RunShell!RunTimesOut, RunShell!BeginRecord, RunShell!AppendBody, RunShell!RecordRun,
           RunShell!AttachShell, RunShell!TailRead, RunShell!Next, Remotes!RunShell!ExitCode,
           Remotes!RunShell!None, Remotes!RunShell!Tok, Remotes!RunShell!Outputs,
           Remotes!RunShell!Write, Remotes!RunShell!Execute, Remotes!RunShell!RunLine,
           Remotes!RunShell!CommandEnds, Remotes!RunShell!Shell, Remotes!RunShell!RunShell,
           Remotes!RunShell!Seen, Remotes!RunShell!Parsed, Remotes!RunShell!WaitForRunEnd,
           Remotes!RunShell!RunTimesOut, Remotes!RunShell!BeginRecord,
           Remotes!RunShell!AppendBody, Remotes!RunShell!RecordRun,
           Remotes!RunShell!AttachShell, Remotes!RunShell!TailRead, Remotes!RunShell!Next
  <1>3. RunShell!TypeOK <=> Remotes!RunShell!TypeOK
    BY RunShellCardinality DEF RunShell!ExitCode, RunShell!None, RunShell!Tokens, RunShell!Stages, RunShell!TypeOK,
           Remotes!RunShell!ExitCode, Remotes!RunShell!None, Remotes!RunShell!Tokens,
           Remotes!RunShell!Stages, Remotes!RunShell!TypeOK
  <1>4. RunShell!RangeHoldsOutput <=> Remotes!RunShell!RangeHoldsOutput
    BY DEF RunShell!Tok, RunShell!Recorded, RunShell!RangeHoldsOutput, Remotes!RunShell!Tok,
           Remotes!RunShell!Recorded, Remotes!RunShell!RangeHoldsOutput
  <1>5. RunShell!ExitCodeIsRight <=> Remotes!RunShell!ExitCodeIsRight
    BY DEF RunShell!ExitCode, RunShell!Recorded, RunShell!ExitCodeIsRight,
           Remotes!RunShell!ExitCode, Remotes!RunShell!Recorded,
           Remotes!RunShell!ExitCodeIsRight
  <1>6. RunShell!vars = Remotes!RunShell!vars
    BY DEF RunShell!vars, Remotes!RunShell!vars
  <1>7. QED
    BY <1>1, <1>2, <1>3, <1>4, <1>5, <1>6

\* A behaviour of the run that begins in this part is one of the component.
LEMMA RunShellSteps ==
    /\ Init /\ part = "RunShell" => Remotes!RunShell!Init
    /\ [Next]_vars /\ part = "RunShell" => [Remotes!RunShell!Next]_(Remotes!RunShell!vars)
    /\ [Next]_vars /\ part = "RunShell" => (part = "RunShell")'
    /\ [Next]_vars /\ ~(part = "RunShell") => ~(part = "RunShell")'
  <1>1. Init /\ part = "RunShell" => Remotes!RunShell!Init
    BY RunShellSame DEF Init
  <1>2. [Next]_vars => part' = part
    BY DEF Next, vars
  <1>3. [Next]_vars /\ part = "RunShell" => [Remotes!RunShell!Next]_(Remotes!RunShell!vars)
    <2>1. Next /\ part = "RunShell" => RunShell!Next
      BY DEF Next
    <2>2. UNCHANGED vars => UNCHANGED RunShell!vars
      BY DEF vars, RunShell!vars
    <2>3. UNCHANGED RunShell!vars => UNCHANGED Remotes!RunShell!vars
      BY DEF RunShell!vars, Remotes!RunShell!vars
    <2>4. QED
      BY <2>1, <2>2, <2>3, RunShellSame
  <1>4. QED
    BY <1>1, <1>2, <1>3

\* The range of a finished command holds its output, and its exit code is its own
\* (RunShell, waitForRunEnd).
THEOREM RunsAreAlwaysRight == Spec => []RunsAreRight
  <1>1. Remotes!RunShell!Spec =>
          [](Remotes!RunShell!TypeOK /\ Remotes!RunShell!RangeHoldsOutput /\
            Remotes!RunShell!ExitCodeIsRight)
    <2>1. Remotes!RunShellFinite
      BY RunShellConstants DEF Remotes!RunShellFinite, Remotes!IsFiniteSet, IsFiniteSet
    <2>2. QED
      BY <2>1, Remotes!RunsHold, PTL
  <1>2. (part = "RunShell" =>
           Remotes!RunShell!TypeOK /\ Remotes!RunShell!RangeHoldsOutput /\
           Remotes!RunShell!ExitCodeIsRight)
        => RunsAreRight
    BY RunShellSame DEF RunsAreRight
  <1>3. ~(part = "RunShell") => RunsAreRight
    BY DEF RunsAreRight
  <1>4. QED
    BY <1>1, <1>2, <1>3, RunShellSteps, PTL DEF Spec, Remotes!RunShell!Spec

-----------------------------------------------------------------------------
\* The terminals.
\* The same operator of the library.
LEMMA TerminalsRange == \A s : Terminals!Range(s) = Remotes!Terminals!Range(s)
  BY Zenon DEF Terminals!Range, Remotes!Terminals!Range

\* One component, seen from the run and from its theorems.
LEMMA TerminalsSame ==
    /\ Terminals!Init <=> Remotes!Terminals!Init
    /\ Terminals!Next <=> Remotes!Terminals!Next
    /\ Terminals!vars = Remotes!Terminals!vars
    /\ Terminals!TypeOK <=> Remotes!Terminals!TypeOK
    /\ Terminals!ReadIsSentOnce <=> Remotes!Terminals!ReadIsSentOnce
    /\ Terminals!EndedAttachHasPrinted <=> Remotes!Terminals!EndedAttachHasPrinted
  <1>1. Terminals!Init <=> Remotes!Terminals!Init
    BY DEF Terminals!Init, Remotes!Terminals!Init
  <1>2. Terminals!Next <=> Remotes!Terminals!Next
    BY DEF Terminals!server, Terminals!calls, Terminals!clients, Terminals!HasTerminal,
           Terminals!Connected, Terminals!Output, Terminals!ProcessExits, Terminals!ChildEnds,
           Terminals!EndOnce, Terminals!Reap, Terminals!CleanupPTY, Terminals!TimerFires,
           Terminals!ClosePTY, Terminals!Flush, Terminals!StreamPTY, Terminals!ReadData,
           Terminals!ReadTimesOut, Terminals!ReadFails, Terminals!Ends, Terminals!Check,
           Terminals!RecvChunk, Terminals!WriteBatch, Terminals!RecvEnds, Terminals!PumpReturns,
           Terminals!CloseWriter, Terminals!Process, Terminals!Session, Terminals!Stream,
           Terminals!Attach, Terminals!Next, Remotes!Terminals!server, Remotes!Terminals!calls,
           Remotes!Terminals!clients, Remotes!Terminals!HasTerminal,
           Remotes!Terminals!Connected, Remotes!Terminals!Output,
           Remotes!Terminals!ProcessExits, Remotes!Terminals!ChildEnds,
           Remotes!Terminals!EndOnce, Remotes!Terminals!Reap, Remotes!Terminals!CleanupPTY,
           Remotes!Terminals!TimerFires, Remotes!Terminals!ClosePTY, Remotes!Terminals!Flush,
           Remotes!Terminals!StreamPTY, Remotes!Terminals!ReadData,
           Remotes!Terminals!ReadTimesOut, Remotes!Terminals!ReadFails, Remotes!Terminals!Ends,
           Remotes!Terminals!Check, Remotes!Terminals!RecvChunk, Remotes!Terminals!WriteBatch,
           Remotes!Terminals!RecvEnds, Remotes!Terminals!PumpReturns,
           Remotes!Terminals!CloseWriter, Remotes!Terminals!Process, Remotes!Terminals!Session,
           Remotes!Terminals!Stream, Remotes!Terminals!Attach, Remotes!Terminals!Next
  <1>3. Terminals!TypeOK <=> Remotes!Terminals!TypeOK
    BY DEF Terminals!TypeOK, Remotes!Terminals!TypeOK
  <1>4. Terminals!ReadIsSentOnce <=> Remotes!Terminals!ReadIsSentOnce
    BY TerminalsRange, Zenon DEF Terminals!ReadIsSentOnce, Remotes!Terminals!ReadIsSentOnce
  <1>5. Terminals!EndedAttachHasPrinted <=> Remotes!Terminals!EndedAttachHasPrinted
    BY DEF Terminals!HasTerminal, Terminals!EndedAttachHasPrinted,
           Remotes!Terminals!HasTerminal, Remotes!Terminals!EndedAttachHasPrinted
  <1>6. Terminals!vars = Remotes!Terminals!vars
    BY DEF Terminals!server, Terminals!calls, Terminals!clients, Terminals!vars,
           Remotes!Terminals!server, Remotes!Terminals!calls, Remotes!Terminals!clients,
           Remotes!Terminals!vars
  <1>7. QED
    BY <1>1, <1>2, <1>3, <1>4, <1>5, <1>6

\* A behaviour of the run that begins in this part is one of the component.
LEMMA TerminalsSteps ==
    /\ Init /\ part = "Terminals" => Remotes!Terminals!Init
    /\ [Next]_vars /\ part = "Terminals" => [Remotes!Terminals!Next]_(Remotes!Terminals!vars)
    /\ [Next]_vars /\ part = "Terminals" => (part = "Terminals")'
    /\ [Next]_vars /\ ~(part = "Terminals") => ~(part = "Terminals")'
  <1>1. Init /\ part = "Terminals" => Remotes!Terminals!Init
    BY TerminalsSame DEF Init
  <1>2. [Next]_vars => part' = part
    BY DEF Next, vars
  <1>3. [Next]_vars /\ part = "Terminals" => [Remotes!Terminals!Next]_(Remotes!Terminals!vars)
    <2>1. Next /\ part = "Terminals" => Terminals!Next
      BY DEF Next
    <2>2. UNCHANGED vars => UNCHANGED Terminals!vars
      BY DEF vars, Terminals!server, Terminals!calls, Terminals!clients, Terminals!vars
    <2>3. UNCHANGED Terminals!vars => UNCHANGED Remotes!Terminals!vars
      BY DEF Terminals!server, Terminals!calls, Terminals!clients, Terminals!vars,
           Remotes!Terminals!server, Remotes!Terminals!calls, Remotes!Terminals!clients,
           Remotes!Terminals!vars
    <2>4. QED
      BY <2>1, <2>2, <2>3, TerminalsSame
  <1>4. QED
    BY <1>1, <1>2, <1>3

\* What is read from a terminal is sent once, in order, and printed before the attach
\* command ends (StreamPTY, pumpPTY).
THEOREM TerminalsAreAlwaysRead == Spec => []TerminalsAreRead
  <1>1. Remotes!Terminals!Spec =>
          [](Remotes!Terminals!TypeOK /\ Remotes!Terminals!ReadIsSentOnce /\
            Remotes!Terminals!EndedAttachHasPrinted)
    <2>1. Remotes!TerminalsBounds
      BY TerminalsConstants DEF Remotes!TerminalsBounds
    <2>2. QED
      BY <2>1, Remotes!TerminalsHold, PTL
  <1>2. (part = "Terminals" =>
           Remotes!Terminals!TypeOK /\ Remotes!Terminals!ReadIsSentOnce /\
           Remotes!Terminals!EndedAttachHasPrinted)
        => TerminalsAreRead
    BY TerminalsSame DEF TerminalsAreRead
  <1>3. ~(part = "Terminals") => TerminalsAreRead
    BY DEF TerminalsAreRead
  <1>4. QED
    BY <1>1, <1>2, <1>3, TerminalsSteps, PTL DEF Spec, Remotes!Terminals!Spec
=============================================================================
