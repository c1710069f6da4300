----------------------------- MODULE MCClients ------------------------------
(***************************************************************************)
(* Sessions and their clients, and the command line, for TLC, side by side *)
(* like the components of the daemon in MCDaemon.                          *)
(***************************************************************************)
EXTENDS FiniteSets, Integers, Sequences

CONSTANTS c1, c2, h1, h2, none \* model values

\* The constants of the parts with theorems.
CONSTANTS
    TurnsCalls, TurnsHandlers, TurnsLlms, TurnsStream, TurnsMaxIters,
    TurnsHistory, TurnsCap, TurnsWireCap, TurnsNoCall, TurnsMaxTurns,
    TurnsMaxSaid, TurnsMaxAsked, BothCalls, BothHandlers, BothLlms,
    BothStream, BothMaxIters, BothHistory, BothCap, BothWireCap, BothNoCall,
    BothMaxTurns, BothMaxSaid, BothMaxAsked, PrinterMaxEvents,
    ConnectCommands, ConnectLocally, ConnectSaved, ConnectUsrBin,
    ConnectMaxFaults, ExecQueueCap, ExecMaxBuf, ExecSizes, ExecMaxChunks,
    InstallMaxRuns, InstallMaxCuts, DurableSmall, DurableSendCap,
    DurableDoneCap, DurableMaxLog, DurableMaxRuns, DurableMaxOthers, ChatCmds,
    ChatMaxLog, ChatMaxHooks, ChatMaxEvents, MirrorJobs, MirrorRpcs,
    MirrorChanCap, MirrorMaxLog, MirrorWatched, MirrorMaxBatch,
    MirrorMaxCrashes, MirrorMaxFaults, ProcessesJobs, ProcessesMaxStarts,
    ProcessesMaxKills

ASSUME TurnsConstants == 
    /\ TurnsMaxTurns \in Nat /\ TurnsMaxSaid \in Nat /\ TurnsMaxAsked \in Nat
    /\ TurnsMaxIters \in Nat \ {0} /\ TurnsCap \in Nat \ {0}
    /\ IsFiniteSet(TurnsCalls) /\ TurnsCalls \cap 0..TurnsMaxTurns = {}
    /\ TurnsNoCall \notin TurnsCalls /\ TurnsHandlers \cap TurnsCalls = {}
    /\ TurnsHistory \in Nat /\ TurnsHistory >= 2
ASSUME BothConstants == 
    /\ BothMaxTurns \in Nat /\ BothMaxSaid \in Nat /\ BothMaxAsked \in Nat
    /\ BothMaxIters \in Nat \ {0} /\ BothCap \in Nat \ {0}
    /\ IsFiniteSet(BothCalls) /\ BothCalls \cap 0..BothMaxTurns = {}
    /\ BothNoCall \notin BothCalls /\ BothHandlers \cap BothCalls = {}
ASSUME PrinterConstants == PrinterMaxEvents \in Nat
ASSUME ExecConstants == ExecQueueCap \in Nat /\ ExecMaxBuf \in Nat /\ ExecMaxChunks \in Nat
           /\ ExecSizes \subseteq Nat
ASSUME DurableConstants == {DurableSmall, DurableSendCap, DurableDoneCap} \subseteq Nat
                            /\ {DurableMaxLog, DurableMaxRuns, DurableMaxOthers} \subseteq Nat
ASSUME ChatConstants == ChatCmds \subseteq Nat \ {0} /\ ChatMaxLog \in Nat /\ ChatMaxHooks \in Nat
           /\ ChatMaxEvents \in Nat
ASSUME MirrorConstants == MirrorMaxBatch \in Nat /\ MirrorMaxCrashes \in Nat /\ MirrorMaxFaults \in Nat
ASSUME ProcessesConstants == ProcessesJobs # {} /\ ProcessesMaxStarts \in Nat /\ ProcessesMaxKills \in Nat

VARIABLES
    part, \* the component a behaviour belongs to
    v1, v2, v3, v4, v5, v6, v7, v8, v9, v10, v11, v12, v13, v14, v15, v16,
    v17, v18, v19, v20, v21

vars == <<part,
        v1, v2, v3, v4, v5, v6, v7, v8, v9, v10, v11, v12, v13, v14, v15, v16,
        v17, v18, v19, v20, v21>>

\* Turns of a session with one client: two tool calls, two turns of two iterations,
\* every configuration of the LLM, a channel of two events.
Turns == INSTANCE SessionTurns WITH
    Calls <- TurnsCalls, Handlers <- TurnsHandlers, Llms <- TurnsLlms,
    Stream <- TurnsStream, MaxIters <- TurnsMaxIters, History <- TurnsHistory,
    Cap <- TurnsCap, WireCap <- TurnsWireCap, Old <- <<>>,
    NoCall <- TurnsNoCall, MaxTurns <- TurnsMaxTurns, MaxSaid <- TurnsMaxSaid,
    MaxAsked <- TurnsMaxAsked, llm <- v1, log <- v2, out <- v3, hpc <- v4,
    turn <- v5, turns <- v6, iter <- v7, more <- v8, cur <- v9, prompt <- v10,
    cs <- v11, canceled <- v12, said <- v13, q <- v14, wire <- v15,
    inbox <- v16, left <- v17, asked <- v18

\* The same with two clients of one session and one tool call.
Both == INSTANCE SessionTurns WITH
    Calls <- BothCalls, Handlers <- BothHandlers, Llms <- BothLlms,
    Stream <- BothStream, MaxIters <- BothMaxIters, History <- BothHistory,
    Cap <- BothCap, WireCap <- BothWireCap, Old <- <<>>, NoCall <- BothNoCall,
    MaxTurns <- BothMaxTurns, MaxSaid <- BothMaxSaid,
    MaxAsked <- BothMaxAsked, llm <- v1, log <- v2, out <- v3, hpc <- v4,
    turn <- v5, turns <- v6, iter <- v7, more <- v8, cur <- v9, prompt <- v10,
    cs <- v11, canceled <- v12, said <- v13, q <- v14, wire <- v15,
    inbox <- v16, left <- v17, asked <- v18

\* xrunner ssh chat --prompt in a new session, without streaming.
Prompt == INSTANCE ChatPrompt WITH
    Calls <- {c1, c2}, Handlers <- {h1}, Llms <- {"broken", "on"},
    Stream <- FALSE, MaxIters <- 2, History <- 2, Cap <- 2, WireCap <- 2,
    Old <- <<>>, NoCall <- none, MaxTurns <- 1, MaxSaid <- 2, MaxAsked <- 1,
    llm <- v1, log <- v2, out <- v3, hpc <- v4, turn <- v5, turns <- v6,
    iter <- v7, more <- v8, cur <- v9, prompt <- v10, cs <- v11,
    canceled <- v12, said <- v13, q <- v14, wire <- v15, inbox <- v16,
    left <- v17, asked <- v18, ppc <- v19, text <- v20, streamed <- v21

\* The chat printer on an output that is not a terminal.
Printer == INSTANCE ChatPrinter WITH
    Interactive <- FALSE, Texts <- {<<"a">>, <<"b">>, <<"a", "b">>},
    MaxEvents <- PrinterMaxEvents, mu <- v1, rpc <- v2, ev <- v3,
    received <- v4, spinning <- v5, active <- v6, full <- v7, line <- v8,
    deltas <- v9

\* Two commands reach for the daemon of one host; one crash or broken tunnel.
Connect == INSTANCE SshConnect WITH
    Commands <- ConnectCommands, Local <- ConnectLocally,
    Saved <- ConnectSaved, UsrBin <- ConnectUsrBin,
    MaxFaults <- ConnectMaxFaults, cmd <- v1, at <- v2, fwd <- v3, conn <- v4,
    bin <- v5, port <- v6, origin <- v7, faults <- v8

\* xrunner ssh exec: three chunks that fit or do not fit the batch buffers.
Exec == INSTANCE SshExec WITH
    QueueCap <- ExecQueueCap, MaxBuf <- ExecMaxBuf, Sizes <- ExecSizes,
    MaxChunks <- ExecMaxChunks, shared <- v1, tool <- v2, said <- v3,
    code <- v4, wire <- v5, pc <- v6, status <- v7, ch <- v8, buf <- v9,
    size <- v10, printed <- v11, open <- v12

\* Two bootstraps and uninstalls of one host, versions that work, do not start or
\* die, one broken connection.
Install == INSTANCE HostInstall WITH
    MaxRuns <- InstallMaxRuns, MaxCuts <- InstallMaxCuts, health <- v1,
    hasSS <- v2, disk <- v3, backup <- v4, before <- v5, want <- v6,
    unit <- v7, runs <- v8, home <- v9, homeUp <- v10, op <- v11, run <- v12,
    said <- v13, cuts <- v14, saved <- v15

\* attach --resume and its command mode: three units of output, two commands, one
\* completion of somebody else, channels of one message.
Durable == INSTANCE ShellClient WITH
    Small <- DurableSmall, SendCap <- DurableSendCap,
    DoneCap <- DurableDoneCap, MaxLog <- DurableMaxLog,
    MaxRuns <- DurableMaxRuns, MaxOthers <- DurableMaxOthers, mode <- v1,
    zstd <- v2, at <- v3, log <- v4, tail <- v5, from <- v6, shown <- v7,
    rd <- v8, wire <- v9, owed <- v10, sendCh <- v11, acked <- v12,
    run <- v13, wait <- v14, completedCh <- v15, dropped <- v16, others <- v17

\* chat --resume: two commands of the chat, one of somebody else, one event of the
\* session.
Chat == INSTANCE ChatShell WITH
    Cmds <- ChatCmds, MaxLog <- ChatMaxLog, MaxHooks <- ChatMaxHooks,
    MaxEvents <- ChatMaxEvents, quiet <- v1, printMu <- v2, mu <- v3,
    main <- v4, recvLoop <- v5, events <- v6, left <- v7, hooks <- v8,
    run <- v9, begin <- v10, end <- v11, log <- v12, wire <- v13, byID <- v14,
    waiters <- v15, told <- v16, replay <- v17

\* The JetStream mirror of the control plane: two jobs with three chunks between
\* them, one crash, one failed publish or early end of a replay.
Mirror == INSTANCE JobMirror WITH
    Jobs <- MirrorJobs, Rpcs <- MirrorRpcs, ChanCap <- MirrorChanCap,
    MaxLog <- MirrorMaxLog, Watched <- MirrorWatched,
    MaxBatch <- MirrorMaxBatch, MaxCrashes <- MirrorMaxCrashes,
    MaxFaults <- MirrorMaxFaults, jobs <- v1, jobVersions <- v2, logs <- v3,
    logOffsets <- v4, logSubs <- v5, logCh <- v6, chOpen <- v7,
    inflight <- v8, proc <- v9, wpc <- v10, outbox <- v11, jobsStream <- v12,
    logsStream <- v13, replayPos <- v14, crashes <- v15, faults <- v16,
    everLog <- v17, shownLog <- v18

\* The daemons as processes: two jobs, one follower, four starts, one kill.
Processes == INSTANCE Daemons WITH
    Jobs <- ProcessesJobs, MaxStarts <- ProcessesMaxStarts,
    MaxKills <- ProcessesMaxKills, worker <- v1, api <- v2, remote <- v3,
    exit <- v4, job <- v5, late <- v6, known <- v7, follower <- v8,
    starts <- v9, kills <- v10

-----------------------------------------------------------------------------
Init ==
    \/ /\ part = "Turns" /\ Turns!Init
       /\ v19 = 0 /\ v20 = 0 /\ v21 = 0
    \/ /\ part = "Both" /\ Both!Init
       /\ v19 = 0 /\ v20 = 0 /\ v21 = 0
    \/ /\ part = "Prompt" /\ Prompt!PromptInit
    \/ /\ part = "Printer" /\ Printer!Init
       /\ v10 = 0 /\ v11 = 0 /\ v12 = 0 /\ v13 = 0 /\ v14 = 0 /\ v15 = 0
       /\ v16 = 0 /\ v17 = 0 /\ v18 = 0 /\ v19 = 0 /\ v20 = 0 /\ v21 = 0
    \/ /\ part = "Connect" /\ Connect!Init
       /\ v9 = 0 /\ v10 = 0 /\ v11 = 0 /\ v12 = 0 /\ v13 = 0 /\ v14 = 0
       /\ v15 = 0 /\ v16 = 0 /\ v17 = 0 /\ v18 = 0 /\ v19 = 0 /\ v20 = 0
       /\ v21 = 0
    \/ /\ part = "Exec" /\ Exec!Init
       /\ v13 = 0 /\ v14 = 0 /\ v15 = 0 /\ v16 = 0 /\ v17 = 0 /\ v18 = 0
       /\ v19 = 0 /\ v20 = 0 /\ v21 = 0
    \/ /\ part = "Install" /\ Install!Init
       /\ v16 = 0 /\ v17 = 0 /\ v18 = 0 /\ v19 = 0 /\ v20 = 0 /\ v21 = 0
    \/ /\ part = "Durable" /\ Durable!Init
       /\ v18 = 0 /\ v19 = 0 /\ v20 = 0 /\ v21 = 0
    \/ /\ part = "Chat" /\ Chat!Init
       /\ v18 = 0 /\ v19 = 0 /\ v20 = 0 /\ v21 = 0
    \/ /\ part = "Mirror" /\ Mirror!Init
       /\ v19 = 0 /\ v20 = 0 /\ v21 = 0
    \/ /\ part = "Processes" /\ Processes!Init
       /\ v11 = 0 /\ v12 = 0 /\ v13 = 0 /\ v14 = 0 /\ v15 = 0 /\ v16 = 0
       /\ v17 = 0 /\ v18 = 0 /\ v19 = 0 /\ v20 = 0 /\ v21 = 0

Next ==
    \/ /\ part = "Turns" /\ Turns!Next
       /\ UNCHANGED <<part, v19, v20, v21>>
    \/ /\ part = "Both" /\ Both!Next
       /\ UNCHANGED <<part, v19, v20, v21>>
    \/ /\ part = "Prompt" /\ Prompt!PromptNext
       /\ UNCHANGED <<part>>
    \/ /\ part = "Printer" /\ Printer!Next
       /\ UNCHANGED <<part, v10, v11, v12, v13, v14, v15, v16, v17, v18, v19,
                       v20, v21>>
    \/ /\ part = "Connect" /\ Connect!Next
       /\ UNCHANGED <<part, v9, v10, v11, v12, v13, v14, v15, v16, v17, v18,
                       v19, v20, v21>>
    \/ /\ part = "Exec" /\ Exec!Next
       /\ UNCHANGED <<part, v13, v14, v15, v16, v17, v18, v19, v20, v21>>
    \/ /\ part = "Install" /\ Install!Next
       /\ UNCHANGED <<part, v16, v17, v18, v19, v20, v21>>
    \/ /\ part = "Durable" /\ Durable!Next
       /\ UNCHANGED <<part, v18, v19, v20, v21>>
    \/ /\ part = "Chat" /\ Chat!Next
       /\ UNCHANGED <<part, v18, v19, v20, v21>>
    \/ /\ part = "Mirror" /\ Mirror!Next
       /\ UNCHANGED <<part, v19, v20, v21>>
    \/ /\ part = "Processes" /\ Processes!Next
       /\ UNCHANGED <<part, v11, v12, v13, v14, v15, v16, v17, v18, v19, v20,
                       v21>>

Spec == Init /\ [][Next]_vars

-----------------------------------------------------------------------------
\* A call is announced, runs, has one result and is idle, in this order
\* (execToolSync, handleToolInvoke).
TurnsCallsAreWhole == part = "Turns" =>
    Turns!TypeOK /\ Turns!CallsAreWhole

\* The prompt of a turn ends with its question (buildLLMMessages).
TurnsPromptHasQuestion == part = "Turns" => Turns!PromptHasQuestion

\* A session at rest says that it is idle, and what an overflow drops is never its
\* last event (Interact, sendDropOldest).
BothEndIdle == part = "Both" =>
    Both!QuietIsIdle /\ Both!LastIsDelivered

\* What is printed is the final message of the turn, and a command that has its
\* answer, or an error, does not wait on (runPromptOnce).
PromptPrintsFinal == part = "Prompt" =>
    Prompt!PromptTypeOK /\ Prompt!PromptPrintsFinal /\ Prompt!AnsweredPromptExits

\* The line holds the deltas, one after the other (streamingChatPrinter.Handle).
PrinterRendersDeltas == part = "Printer" =>
    Printer!TypeOK /\ Printer!DeltasAreRendered

\* Commands that start the daemon at once share it, and none leaves an ssh process or
\* a connection behind (connect, ensureRemoteDaemonViaSSH).
DaemonsAreReached == part = "Connect" =>
    Connect!TypeOK /\ Connect!NothingIsLeft /\ Connect!StartingIsShared

\* Batches keep the order of each stream, and a command alone in its session prints
\* all of its call's output before it returns its status (newSSHExecCmd).
ExecIsComplete == part = "Exec" =>
    Exec!TypeOK /\ Exec!BatchesKeepOrder /\ Exec!ExecPrintsAll

\* bootstrap ok means the new version serves, a rollback restores the old one, two
\* versions never serve together, and an uninstall of the system leaves nothing.
InstallsAreTrue == part = "Install" =>
    Install!TypeOK /\ Install!OkMeansNew /\ Install!RollbackRestores /\ Install!NoMixtureRuns /\ Install!PurgeIsComplete

\* A resumed shell shows the log in order and once, acknowledges what it has shown,
\* and its command prompt runs one command after the other (pumpShell,
\* runShellCommandMode).
ResumesAreFaithful == part = "Durable" =>
    Durable!TypeOK /\ Durable!ScreenFollowsTheLog /\ Durable!AcksAreShown /\ Durable!RunsOneAtATime /\ Durable!PromptIsAnswered

\* Whoever waits for a command is told when it completes, replays are whole, and no
\* lock is kept before a command completes (chatShell).
ChatShellIsSound == part = "Chat" =>
    Chat!TypeOK /\ Chat!WaitersAreTold /\ Chat!RunsHaveEnded /\ Chat!ReplayIsWhole /\ Chat!LocksAreGivenBack

\* While nothing failed the memory is what a replay would restore and what is about to
\* be published, and a finished job comes back whole; whatever failed, a chunk keeps its
\* offset over restarts (AppendLogs, hydrate, applyReplayedLog).
MirrorIsFaithful == part = "Mirror" =>
    Mirror!TypeOK /\ Mirror!MemoryIsMirrorPlusOutbox /\ Mirror!FinishedIsWhole /\ Mirror!OffsetsSurvive

\* An API that stops by itself loses no job it accepted before the signal, and a
\* follower that is told the end was told the truth (Close, jobProxy).
StopsAreClean == part = "Processes" =>
    Processes!TypeOK /\ Processes!StopsKeepJobs /\ Processes!EndIsTheEnd
=============================================================================
