------------------------------ MODULE MCDaemon ------------------------------
(***************************************************************************)
(* The components of xrunner-remote for TLC.  They share no state in this  *)
(* model, so one run explores them side by side: part says which component *)
(* a behaviour belongs to, and v1, v2, ... hold its variables.             *)
(***************************************************************************)
EXTENDS FiniteSets, Integers, Sequences

\* The constants of the parts with theorems.
CONSTANTS
    EventsProducers, EventsStreams, EventsNoStream, EventsAfters, EventsCap,
    EventsMaxEvents, LogSessions, LogReaders, LogAfters, LogMaxEvents,
    LogMaxCrashes, LogNoSession, AttachClients, AttachQueueLen, AttachMaxLog,
    AttachMaxConns, AttachMaxKills, AttachMaxRestarts, RunShellCalls,
    RunShellTails, RunShellHooks, RunShellTimeouts, RunShellMaxOut,
    TerminalsClients, TerminalsOwner, TerminalsMaxChunk, TerminalsMaxOut,
    ToolLimit, ToolMaxOut, FilesWriters, FilesTools, FilesMaxStops,
    BundlesCalls, BundlesMaxStops, BundlesMaxChanges, CommandJobs,
    CommandMaxDepth, CommandMaxStarts, ConfigMaxStarts

ASSUME EventsConstants == EventsCap \in Nat /\ EventsMaxEvents \in Nat /\ EventsAfters \subseteq Nat
ASSUME LogConstants == LogNoSession \notin LogSessions /\ LogAfters \subseteq Nat
ASSUME AttachConstants == AttachClients # {}
                           /\ {AttachQueueLen, AttachMaxLog, AttachMaxConns} \subseteq Nat
                           /\ {AttachMaxKills, AttachMaxRestarts} \subseteq Nat
ASSUME RunShellConstants == IsFiniteSet(RunShellCalls) /\ IsFiniteSet(RunShellTails)
ASSUME TerminalsConstants == TerminalsMaxChunk \in Nat \ {0} /\ TerminalsMaxOut \in Nat
ASSUME ToolConstants == ToolLimit \in Nat /\ ToolMaxOut \in Nat
ASSUME FilesConstants == "" \notin FilesWriters /\ "first" \notin FilesWriters /\ FilesMaxStops \in Nat
ASSUME CommandConstants == CommandMaxDepth \in Nat \ {0} /\ CommandMaxStarts \in Nat \ {0}
ASSUME ConfigConstants == ConfigMaxStarts \in Nat

VARIABLES
    part, \* the component a behaviour belongs to
    v1, v2, v3, v4, v5, v6, v7, v8, v9, v10, v11, v12, v13, v14, v15, v16,
    v17, v18

vars == <<part,
        v1, v2, v3, v4, v5, v6, v7, v8, v9, v10, v11, v12, v13, v14, v15, v16,
        v17, v18>>

\* Events to subscribers: two producers, one client that has the first event,
\* replays the others, subscribes and leaves, a channel of one event.
Events == INSTANCE SessionEvents WITH
    Producers <- EventsProducers, Streams <- EventsStreams,
    NoStream <- EventsNoStream, Afters <- EventsAfters, Cap <- EventsCap,
    MaxEvents <- EventsMaxEvents, exists <- v1, log <- v2, flushed <- v3,
    nextID <- v4, said <- v5, ppc <- v6, cur <- v7, todo <- v8, at <- v9,
    spc <- v10, after <- v11, rpos <- v12, ch <- v13, subs <- v14,
    sent <- v15, panicked <- v16, copied <- v17, spilled <- v18

\* The event log of one session over two crashes or power losses, with spills, failed
\* writes and syncs, a removal and a concurrent replay.
Log == INSTANCE SessionLog WITH
    Sessions <- LogSessions, Readers <- LogReaders, Afters <- LogAfters,
    MaxEvents <- LogMaxEvents, MaxCrashes <- LogMaxCrashes,
    NoSession <- LogNoSession, meta <- v1, file <- v2, torn <- v3,
    durable <- v4, loaded <- v5, nextID <- v6, buf <- v7, wedged <- v8,
    holder <- v9, stage <- v10, crashes <- v11, rpc <- v12, rsess <- v13,
    rafter <- v14, rpos <- v15, got <- v16, acked <- v17, seen0 <- v18

\* AttachShell: one client that gives its own offset, two attachments, a kill, a
\* restart, a channel of one chunk.
Attach == INSTANCE ShellAttach WITH
    Clients <- AttachClients, OwnOffset <- TRUE, QueueLen <- AttachQueueLen,
    MaxLog <- AttachMaxLog, MaxConns <- AttachMaxConns,
    MaxKills <- AttachMaxKills, MaxRestarts <- AttachMaxRestarts, alive <- v1,
    exists <- v2, gen <- v3, size <- v4, lastAck <- v5, conn <- v6,
    used <- v7, restarts <- v8, own <- v9, got <- v10, panicked <- v11

\* RunShell: two commands typed ahead of each other, timeouts, one attachment;
\* lines reach the log whole.
RunShell == INSTANCE ShellRuns WITH
    Runs <- RunShellCalls, Tails <- RunShellTails, Hooks <- RunShellHooks,
    Torn <- FALSE, Timeouts <- RunShellTimeouts, MaxOut <- RunShellMaxOut,
    log <- v1, typed <- v2, running <- v3, run <- v4, tail <- v5,
    writing <- v6, timeline <- v7

\* Markers in the output: data, bells, whole markers and frames without a payload,
\* read in any portions that leave prefixes whole.
Markers == INSTANCE ShellMarkers WITH
    Pieces <- {<<"x">>, <<"B">>, <<"E", "R", "p", "p", "B">>, <<"E", "R", "B">>},
    MaxPieces <- 3, MaxTail <- 5, CutsPrefix <- FALSE, log <- v1,
    offset <- v2, pending <- v3, chunks <- v4, markers <- v5

\* Searches and tails: every log of up to five letters, every range, windows of two
\* bytes.
Text == INSTANCE ShellText WITH
    Letters <- {"a", "b", "n"}, MaxLen <- 5, Query <- <<"a", "a">>,
    Chunk <- 2, Context <- 1, Limit <- 4, TailMax <- 9, log <- v1, from <- v2,
    to <- v3, base <- v4, carry <- v5, found <- v6, done <- v7

\* Terminals: two attach commands on one session, two bytes of output, a process
\* that ends or is killed, a child that keeps the terminal.
Terminals == INSTANCE PtyService WITH
    Clients <- TerminalsClients, Owner <- TerminalsOwner,
    MaxChunk <- TerminalsMaxChunk, MaxOut <- TerminalsMaxOut, proc <- v1,
    child <- v2, tty <- v3, rd <- v4, closed <- v5, timer <- v6,
    session <- v7, call <- v8, pending <- v9, sent <- v10, result <- v11,
    cmd <- v12, recv <- v13, got <- v14, given <- v15, printed <- v16,
    why <- v17

\* The shell tool: pipes and terminals, captured or not, three bytes on each stream,
\* cancels, and children that hold the output.
Tool == INSTANCE ToolExec WITH
    Limit <- ToolLimit, MaxOut <- ToolMaxOut, mode <- v1, capture <- v2,
    proc <- v3, child <- v4, written <- v5, read <- v6, events <- v7,
    kept <- v8, cut <- v9, reader <- v10, canceled <- v11, result <- v12

\* Files: one WriteFileAtomic and one write_file of the same path, two stops.
Files == INSTANCE FileWrites WITH
    Writers <- FilesWriters, Tools <- FilesTools, MaxStops <- FilesMaxStops,
    at <- v1, old <- v2, temp <- v3, synced <- v4, file <- v5, disk <- v6,
    diffs <- v7, stops <- v8

\* The tool bundle of a session: two calls, one change of its file, one restart.
Bundles == INSTANCE ToolBundles WITH
    Calls <- BundlesCalls, MaxStops <- BundlesMaxStops,
    MaxChanges <- BundlesMaxChanges, path <- v1, file <- v2, tmp <- v3,
    create <- v4, got <- v5, session <- v6, cache <- v7, told <- v8,
    call <- v9, early <- v10, stops <- v11, changes <- v12

\* The command line of a job: two jobs, any sandbox flags, any default, one restart
\* of a worker whose stack holds three calls.
Command == INSTANCE JobCommand WITH
    Jobs <- CommandJobs, MaxDepth <- CommandMaxDepth,
    MaxStarts <- CommandMaxStarts, default <- v1, fallback <- v2, has <- v3,
    flags <- v4, at <- v5, spec <- v6, depth <- v7, runs <- v8, dirs <- v9,
    worker <- v10, starts <- v11

\* One answer of a language model: three units of text, two calls of two fragments,
\* one frame of junk, every provider.
Llm == INSTANCE LlmStream WITH
    MaxText <- 3, MaxFrag <- 2, MaxJunk <- 1, provider <- v1, style <- v2,
    pc <- v3, frame <- v4, left <- v5, data <- v6, said <- v7, frags <- v8,
    junk <- v9, text <- v10, toolCalls <- v11, deltas <- v12, lastLen <- v13,
    seen <- v14, result <- v15

\* The language model's settings: any on the laptop, three kinds of host, three starts
\* of the daemon.
Config == INSTANCE LlmConfig WITH
    MaxStarts <- ConfigMaxStarts, local <- v1, host <- v2, mode <- v3,
    file <- v4, cfg <- v5, client <- v6, origin <- v7, starts <- v8

-----------------------------------------------------------------------------
Init ==
    \/ /\ part = "Events" /\ Events!Init
    \/ /\ part = "Log" /\ Log!Init
    \/ /\ part = "Attach" /\ Attach!Init
       /\ v12 = 0 /\ v13 = 0 /\ v14 = 0 /\ v15 = 0 /\ v16 = 0 /\ v17 = 0
       /\ v18 = 0
    \/ /\ part = "RunShell" /\ RunShell!Init
       /\ v8 = 0 /\ v9 = 0 /\ v10 = 0 /\ v11 = 0 /\ v12 = 0 /\ v13 = 0
       /\ v14 = 0 /\ v15 = 0 /\ v16 = 0 /\ v17 = 0 /\ v18 = 0
    \/ /\ part = "Markers" /\ Markers!Init
       /\ v6 = 0 /\ v7 = 0 /\ v8 = 0 /\ v9 = 0 /\ v10 = 0 /\ v11 = 0
       /\ v12 = 0 /\ v13 = 0 /\ v14 = 0 /\ v15 = 0 /\ v16 = 0 /\ v17 = 0
       /\ v18 = 0
    \/ /\ part = "Text" /\ Text!Init
       /\ v8 = 0 /\ v9 = 0 /\ v10 = 0 /\ v11 = 0 /\ v12 = 0 /\ v13 = 0
       /\ v14 = 0 /\ v15 = 0 /\ v16 = 0 /\ v17 = 0 /\ v18 = 0
    \/ /\ part = "Terminals" /\ Terminals!Init
       /\ v18 = 0
    \/ /\ part = "Tool" /\ Tool!Init
       /\ v13 = 0 /\ v14 = 0 /\ v15 = 0 /\ v16 = 0 /\ v17 = 0 /\ v18 = 0
    \/ /\ part = "Files" /\ Files!Init
       /\ v9 = 0 /\ v10 = 0 /\ v11 = 0 /\ v12 = 0 /\ v13 = 0 /\ v14 = 0
       /\ v15 = 0 /\ v16 = 0 /\ v17 = 0 /\ v18 = 0
    \/ /\ part = "Bundles" /\ Bundles!Init
       /\ v13 = 0 /\ v14 = 0 /\ v15 = 0 /\ v16 = 0 /\ v17 = 0 /\ v18 = 0
    \/ /\ part = "Command" /\ Command!Init
       /\ v12 = 0 /\ v13 = 0 /\ v14 = 0 /\ v15 = 0 /\ v16 = 0 /\ v17 = 0
       /\ v18 = 0
    \/ /\ part = "Llm" /\ Llm!Init
       /\ v16 = 0 /\ v17 = 0 /\ v18 = 0
    \/ /\ part = "Config" /\ Config!Init
       /\ v9 = 0 /\ v10 = 0 /\ v11 = 0 /\ v12 = 0 /\ v13 = 0 /\ v14 = 0
       /\ v15 = 0 /\ v16 = 0 /\ v17 = 0 /\ v18 = 0

Next ==
    \/ /\ part = "Events" /\ Events!Next
       /\ UNCHANGED <<part>>
    \/ /\ part = "Log" /\ Log!Next
       /\ UNCHANGED <<part>>
    \/ /\ part = "Attach" /\ Attach!Next
       /\ UNCHANGED <<part, v12, v13, v14, v15, v16, v17, v18>>
    \/ /\ part = "RunShell" /\ RunShell!Next
       /\ UNCHANGED <<part, v8, v9, v10, v11, v12, v13, v14, v15, v16, v17,
                       v18>>
    \/ /\ part = "Markers" /\ Markers!Next
       /\ UNCHANGED <<part, v6, v7, v8, v9, v10, v11, v12, v13, v14, v15,
                       v16, v17, v18>>
    \/ /\ part = "Text" /\ Text!Next
       /\ UNCHANGED <<part, v8, v9, v10, v11, v12, v13, v14, v15, v16, v17,
                       v18>>
    \/ /\ part = "Terminals" /\ Terminals!Next
       /\ UNCHANGED <<part, v18>>
    \/ /\ part = "Tool" /\ Tool!Next
       /\ UNCHANGED <<part, v13, v14, v15, v16, v17, v18>>
    \/ /\ part = "Files" /\ Files!Next
       /\ UNCHANGED <<part, v9, v10, v11, v12, v13, v14, v15, v16, v17, v18>>
    \/ /\ part = "Bundles" /\ Bundles!Next
       /\ UNCHANGED <<part, v13, v14, v15, v16, v17, v18>>
    \/ /\ part = "Command" /\ Command!Next
       /\ UNCHANGED <<part, v12, v13, v14, v15, v16, v17, v18>>
    \/ /\ part = "Llm" /\ Llm!Next
       /\ UNCHANGED <<part, v16, v17, v18>>
    \/ /\ part = "Config" /\ Config!Next
       /\ UNCHANGED <<part, v9, v10, v11, v12, v13, v14, v15, v16, v17, v18>>

Spec == Init /\ [][Next]_vars

-----------------------------------------------------------------------------
\* Each producer's events reach a client in order, and all that is broadcast to it
\* unless its channel overflowed (broadcast, sendDropOldest, StreamEvents).
EventsAreDelivered == part = "Events" =>
    Events!TypeOK /\ Events!ProducerOrder /\ Events!LiveIsComplete

\* Records carry the ids 1, 2, 3, ..., and what was acknowledged with a sync
\* survives crashes (Append, scanNextID).
LogKeepsAcked == part = "Log" =>
    Log!TypeOK /\ Log!IdsAreDense /\ Log!AckedIsDurable

\* A replay sends what was acknowledged before it began (Replay).
LogReplayIsComplete == part = "Log" => Log!ReplayIsComplete

\* A client misses nothing over disconnects unless the shell is killed, and what an
\* attachment holds fits together, kills included (AttachShell).
AttachMissesNothing == part = "Attach" =>
    Attach!TypeOK /\ Attach!NothingSkipped /\ Attach!HeldIsContiguous

\* The range of a finished command holds its output, and its exit code is its own
\* (RunShell, waitForRunEnd).
RunsAreRight == part = "RunShell" =>
    RunShell!TypeOK /\ RunShell!RangeHoldsOutput /\ RunShell!ExitCodeIsRight

\* Markers are found and not shown, nothing is kept back for ever, and the chunks
\* cover the log, however reads cut it (stripXRMarkers, flushablePrefixLen).
MarkersAreFound == part = "Markers" =>
    Markers!TypeOK /\ Markers!MarkersAreWhole /\ Markers!NothingIsKept /\ Markers!ChunksCoverLog

\* No window boundary hides a match, and a tail is the last lines of the log
\* (searchLogRange, tailFileLines).
TextIsFound == part = "Text" =>
    Text!TypeOK /\ Text!SearchFindsAll /\ Text!TailIsLastLines

\* What is read from a terminal is sent once, in order, and printed before the attach
\* command ends (StreamPTY, pumpPTY, batchWriter).
TerminalsAreRead == part = "Terminals" =>
    Terminals!TypeOK /\ Terminals!ReadIsSentOnce /\ Terminals!EndedAttachHasPrinted

\* The result of a shell call is its last event, and a model is shown the beginning
\* of what the events hold (execShell*, limitedBuffer).
ToolResultsAreRight == part = "Tool" =>
    Tool!TypeOK /\ Tool!ResultComesLast /\ Tool!OutputIsWhole

\* Readers of a path find whole files, whatever fails or stops (WriteFileAtomic,
\* execWriteFileToolInternal).
FilesAreReplaced == part = "Files" =>
    Files!TypeOK /\ Files!FilesAreWhole /\ Files!NoTempIsLeft /\ Files!DiffsAreOfThePath

\* In a session that names a bundle no tool runs without a valid one that allows it,
\* and until a restart the announced one decides (bundleForSession).
BundlesAreEnforced == part = "Bundles" =>
    Bundles!TypeOK /\ Bundles!NoToolWithoutBundle /\ Bundles!AnnouncedIsEnforced

\* A process runs outside the sandbox asked for only where somebody allowed it, and
\* the workspace of a job that has ended is removed (wrapWithSandbox, Execute).
CommandsAreSandboxed == part = "Command" =>
    Command!TypeOK /\ Command!HostNeedsLeave /\ Command!SandboxIsAsAsked /\ Command!WorkspacesAreRemoved

\* What was shown is what is returned, whole after DONE, with the tool calls put
\* together in order, and an error is no answer (readStream, readGeminiSSE).
AnswersAreWhole == part = "Llm" =>
    Llm!TypeOK /\ Llm!TextIsTheAnswer /\ Llm!CallsAreWhole /\ Llm!ErrorsFail

\* Settings that the laptop accepted give the daemon a client that uses just these, and
\* every client is complete (llmEnvForBootstrap, forwardedEnv, NewClient).
SettingsArrive == part = "Config" =>
    Config!TypeOK /\ Config!AcceptedIsUsable /\ Config!ForwardedIsLocal /\ Config!ClientsAreComplete
=============================================================================
