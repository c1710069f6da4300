-------------------------- MODULE MCClientsProofs ---------------------------
(***************************************************************************)
(* The same for MCClients.                                                 *)
(***************************************************************************)
EXTENDS MCClients, TLAPS

-----------------------------------------------------------------------------
\* The components of ClientProofs, each with the constants and variables it has in the run.
Clients == INSTANCE ClientProofs WITH
    TurnsOld <- <<>>, turnsLlm <- v1, turnsLog <- v2, turnsOut <- v3, turnsHpc <- v4,
    turnsTurn <- v5, turnsTurns <- v6, turnsIter <- v7, turnsMore <- v8, turnsCur <- v9,
    turnsPrompt <- v10, turnsCs <- v11, turnsCanceled <- v12, turnsSaid <- v13, turnsQ <- v14,
    turnsWire <- v15, turnsInbox <- v16, turnsLeft <- v17, turnsAsked <- v18,
    processesWorker <- v1, processesApi <- v2, processesRemote <- v3, processesExit <- v4,
    processesJob <- v5, processesLate <- v6, processesKnown <- v7, processesFollower <- v8,
    processesStarts <- v9, processesKills <- v10, mirrorJobs <- v1, mirrorJobVersions <- v2,
    mirrorLogs <- v3, mirrorLogOffsets <- v4, mirrorLogSubs <- v5, mirrorLogCh <- v6,
    mirrorChOpen <- v7, mirrorInflight <- v8, mirrorProc <- v9, mirrorWpc <- v10,
    mirrorOutbox <- v11, mirrorJobsStream <- v12, mirrorLogsStream <- v13, mirrorReplayPos <- v14,
    mirrorCrashes <- v15, mirrorFaults <- v16, mirrorEverLog <- v17, mirrorShownLog <- v18

-----------------------------------------------------------------------------
\* The turns of a session.
\* Its calls are finite, and it begins with no events.
LEMMA TurnsFinite == Clients!IsFiniteSet(TurnsCalls)
  BY TurnsConstants DEF Clients!IsFiniteSet, IsFiniteSet

LEMMA TurnsEmpty ==
    /\ <<>> \in Seq(Clients!Turns!Events) /\ \A i \in 1..Len(<<>>) : FALSE
    /\ \A K : Clients!Turns!Indices(<<>>, K) = {}
  BY DEF Clients!Turns!Indices

\* The same operator of the library.
LEMMA TurnsCardinality == \A s : Turns!Cardinality(s) = Clients!Turns!Cardinality(s)
  BY Zenon DEF Turns!Cardinality, Clients!Turns!Cardinality

\* One component, seen from the run and from its theorems.
LEMMA TurnsSame ==
    /\ Turns!Init <=> Clients!Turns!Init
    /\ Turns!Next <=> Clients!Turns!Next
    /\ Turns!vars = Clients!Turns!vars
    /\ Turns!TypeOK <=> Clients!Turns!TypeOK
    /\ Turns!CallsAreWhole <=> Clients!Turns!CallsAreWhole
    /\ Turns!PromptHasQuestion <=> Clients!Turns!PromptHasQuestion
  <1>1. Turns!Init <=> Clients!Turns!Init
    BY DEF Turns!Actors, Turns!Init, Clients!Turns!Actors, Clients!Turns!Init
  <1>2. Turns!Next <=> Clients!Turns!Next
    <2>1. \A a : Turns!Say(a) <=> Clients!Turns!Say(a)
      BY DEF Turns!turnVars, Turns!callVars, Turns!Stored, Turns!Broadcast, Turns!Subscribed,
             Turns!Offer, Turns!Say, Clients!Turns!turnVars, Clients!Turns!callVars,
             Clients!Turns!Stored, Clients!Turns!Broadcast, Clients!Turns!Subscribed,
             Clients!Turns!Offer, Clients!Turns!Say
    <2>2. \A h : Turns!Loop(h) <=> Clients!Turns!Loop(h)
      BY DEF Turns!turnVars, Turns!callVars, Turns!Ev, Turns!At, Turns!Goes, Turns!Hello,
             Turns!Forward, Turns!Return, Turns!Takes, Turns!OnUserMessage, Turns!Announced,
             Turns!OnToolInvoke, Turns!OnToolInvokeRefused, Turns!Spawn, Turns!OnCancel,
             Turns!Loop, Clients!Turns!turnVars, Clients!Turns!callVars, Clients!Turns!Ev,
             Clients!Turns!At, Clients!Turns!Goes, Clients!Turns!Hello, Clients!Turns!Forward,
             Clients!Turns!Return, Clients!Turns!Takes, Clients!Turns!OnUserMessage,
             Clients!Turns!Announced, Clients!Turns!OnToolInvoke,
             Clients!Turns!OnToolInvokeRefused, Clients!Turns!Spawn, Clients!Turns!OnCancel,
             Clients!Turns!Loop
    <2>3. \A h : Turns!Turn(h) <=> Clients!Turns!Turn(h)
      BY TurnsCardinality DEF Turns!turnVars, Turns!callVars, Turns!Ev, Turns!Piece, Turns!At, Turns!Goes,
             Turns!IsMessage, Turns!Window, Turns!BuildMessages, Turns!BuildMessagesFails,
             Turns!GenerateDelta, Turns!Idle, Turns!GenerateFails, Turns!Answer,
             Turns!AskForTools, Turns!Announced, Turns!SyncTool, Turns!SyncToolRefused,
             Turns!SyncToolOutput, Turns!SyncToolEnds, Turns!ToolsDone, Turns!Turn,
             Clients!Turns!turnVars, Clients!Turns!callVars, Clients!Turns!Ev,
             Clients!Turns!Piece, Clients!Turns!At, Clients!Turns!Goes, Clients!Turns!IsMessage,
             Clients!Turns!Window, Clients!Turns!BuildMessages,
             Clients!Turns!BuildMessagesFails, Clients!Turns!GenerateDelta, Clients!Turns!Idle,
             Clients!Turns!GenerateFails, Clients!Turns!Answer, Clients!Turns!AskForTools,
             Clients!Turns!Announced, Clients!Turns!SyncTool, Clients!Turns!SyncToolRefused,
             Clients!Turns!SyncToolOutput, Clients!Turns!SyncToolEnds, Clients!Turns!ToolsDone,
             Clients!Turns!Turn
    <2>4. \A c : Turns!ToolCall(c) <=> Clients!Turns!ToolCall(c)
      BY DEF Turns!turnVars, Turns!callVars, Turns!Ev, Turns!Piece, Turns!Register,
             Turns!ToolOutput, Turns!ToolEnds, Turns!Unregister, Turns!ToolCall,
             Clients!Turns!turnVars, Clients!Turns!callVars, Clients!Turns!Ev,
             Clients!Turns!Piece, Clients!Turns!Register, Clients!Turns!ToolOutput,
             Clients!Turns!ToolEnds, Clients!Turns!Unregister, Clients!Turns!ToolCall
    <2>5. \A h : Turns!AnyClient(h) <=> Clients!Turns!AnyClient(h)
      BY DEF Turns!turnVars, Turns!callVars, Turns!Messages, Turns!ClientSends,
             Turns!ClientReceives, Turns!ClientLeaves, Turns!AnyClient, Clients!Turns!turnVars,
             Clients!Turns!callVars, Clients!Turns!Messages, Clients!Turns!ClientSends,
             Clients!Turns!ClientReceives, Clients!Turns!ClientLeaves, Clients!Turns!AnyClient
    <2>6. QED
      BY <2>1, <2>2, <2>3, <2>4, <2>5, Zenon DEF Turns!Next, Turns!Server, Turns!Actors, Clients!Turns!Next, Clients!Turns!Server,
             Clients!Turns!Actors
  <1>3. Turns!TypeOK <=> Clients!Turns!TypeOK
    BY TurnsCardinality DEF Turns!Actors, Turns!Kinds, Turns!Events, Turns!Messages, Turns!TypeOK,
           Clients!Turns!Actors, Clients!Turns!Kinds, Clients!Turns!Events,
           Clients!Turns!Messages, Clients!Turns!TypeOK
  <1>4. Turns!CallsAreWhole <=> Clients!Turns!CallsAreWhole
    BY DEF Turns!Actors, Turns!Ev, Turns!Life, Turns!CallsAreWhole, Clients!Turns!Actors,
           Clients!Turns!Ev, Clients!Turns!Life, Clients!Turns!CallsAreWhole
  <1>5. Turns!PromptHasQuestion <=> Clients!Turns!PromptHasQuestion
    BY DEF Turns!Ev, Turns!At, Turns!IsMessage, Turns!Window, Turns!Indices,
           Turns!PromptHasQuestion, Clients!Turns!Ev, Clients!Turns!At, Clients!Turns!IsMessage,
           Clients!Turns!Window, Clients!Turns!Indices, Clients!Turns!PromptHasQuestion
  <1>6. Turns!vars = Clients!Turns!vars
    BY DEF Turns!turnVars, Turns!callVars, Turns!vars, Clients!Turns!turnVars,
           Clients!Turns!callVars, Clients!Turns!vars
  <1>7. QED
    BY <1>1, <1>2, <1>3, <1>4, <1>5, <1>6

\* A behaviour of the run that begins in this part is one of the component.
LEMMA TurnsSteps ==
    /\ Init /\ part = "Turns" => Clients!Turns!Init
    /\ [Next]_vars /\ part = "Turns" => [Clients!Turns!Next]_(Clients!Turns!vars)
    /\ [Next]_vars /\ part = "Turns" => (part = "Turns")'
    /\ [Next]_vars /\ ~(part = "Turns") => ~(part = "Turns")'
  <1>1. Init /\ part = "Turns" => Clients!Turns!Init
    BY TurnsSame DEF Init
  <1>2. [Next]_vars => part' = part
    BY DEF Next, vars
  <1>3. [Next]_vars /\ part = "Turns" => [Clients!Turns!Next]_(Clients!Turns!vars)
    <2>1. Next /\ part = "Turns" => Turns!Next
      BY DEF Next
    <2>2. UNCHANGED vars => UNCHANGED Turns!vars
      BY DEF vars, Turns!turnVars, Turns!callVars, Turns!vars
    <2>3. UNCHANGED Turns!vars => UNCHANGED Clients!Turns!vars
      BY DEF Turns!turnVars, Turns!callVars, Turns!vars, Clients!Turns!turnVars,
           Clients!Turns!callVars, Clients!Turns!vars
    <2>4. QED
      BY <2>1, <2>2, <2>3, TurnsSame
  <1>4. QED
    BY <1>1, <1>2, <1>3

\* What the log says of a tool call is a beginning of its life, and all of it when the call
\* is over (execToolSync, handleToolInvoke).
THEOREM CallsAreAlwaysWhole == Spec => []TurnsCallsAreWhole
  <1>1. Clients!Turns!Spec =>
          [](Clients!Turns!TypeOK /\ Clients!Turns!CallsAreWhole)
    <2>1. Clients!TurnsBounds
      BY Zenon, TurnsFinite, TurnsEmpty, TurnsConstants DEF Clients!TurnsBounds, Clients!TurnsOldIsOver
    <2>2. TurnsHistory \in Nat /\ TurnsHistory >= 2
      BY TurnsConstants
    <2>3. QED
      BY <2>1, <2>2, Clients!TurnsEndIdle, Clients!CallsStayWhole, PTL
  <1>2. (part = "Turns" =>
           Clients!Turns!TypeOK /\ Clients!Turns!CallsAreWhole)
        => TurnsCallsAreWhole
    BY TurnsSame DEF TurnsCallsAreWhole
  <1>3. ~(part = "Turns") => TurnsCallsAreWhole
    BY DEF TurnsCallsAreWhole
  <1>4. QED
    BY <1>1, <1>2, <1>3, TurnsSteps, PTL DEF Spec, Clients!Turns!Spec

\* The prompt of a turn ends with its question, if nobody else speaks and the window takes
\* two events (buildLLMMessages).
THEOREM PromptsAlwaysHaveQuestions == Spec => []TurnsPromptHasQuestion
  <1>1. Clients!Turns!Spec =>
          [](Clients!Turns!PromptHasQuestion)
    <2>1. Clients!TurnsBounds
      BY Zenon, TurnsFinite, TurnsEmpty, TurnsConstants DEF Clients!TurnsBounds, Clients!TurnsOldIsOver
    <2>2. TurnsHistory \in Nat /\ TurnsHistory >= 2
      BY TurnsConstants
    <2>3. QED
      BY <2>1, <2>2, Clients!PromptsHaveQuestions, PTL
  <1>2. (part = "Turns" =>
           Clients!Turns!PromptHasQuestion)
        => TurnsPromptHasQuestion
    BY TurnsSame DEF TurnsPromptHasQuestion
  <1>3. ~(part = "Turns") => TurnsPromptHasQuestion
    BY DEF TurnsPromptHasQuestion
  <1>4. QED
    BY <1>1, <1>2, <1>3, TurnsSteps, PTL DEF Spec, Clients!Turns!Spec

-----------------------------------------------------------------------------
\* The components of ClientProofs, each with the constants and variables it has in the run.
BothP == INSTANCE ClientProofs WITH
    TurnsHandlers <- BothHandlers, TurnsCalls <- BothCalls, TurnsLlms <- BothLlms,
    TurnsStream <- BothStream, TurnsMaxIters <- BothMaxIters, TurnsHistory <- BothHistory,
    TurnsCap <- BothCap, TurnsWireCap <- BothWireCap, TurnsOld <- <<>>, TurnsNoCall <- BothNoCall,
    TurnsMaxTurns <- BothMaxTurns, TurnsMaxSaid <- BothMaxSaid, TurnsMaxAsked <- BothMaxAsked,
    turnsLlm <- v1, turnsLog <- v2, turnsOut <- v3, turnsHpc <- v4, turnsTurn <- v5,
    turnsTurns <- v6, turnsIter <- v7, turnsMore <- v8, turnsCur <- v9, turnsPrompt <- v10,
    turnsCs <- v11, turnsCanceled <- v12, turnsSaid <- v13, turnsQ <- v14, turnsWire <- v15,
    turnsInbox <- v16, turnsLeft <- v17, turnsAsked <- v18, ProcessesJobs <- {},
    ProcessesMaxStarts <- {}, ProcessesMaxKills <- {}, processesWorker <- part,
    processesApi <- part, processesRemote <- part, processesExit <- part, processesJob <- part,
    processesLate <- part, processesKnown <- part, processesFollower <- part,
    processesStarts <- part, processesKills <- part, MirrorJobs <- {}, MirrorRpcs <- {},
    MirrorChanCap <- {}, MirrorWatched <- {}, MirrorMaxLog <- {}, MirrorMaxBatch <- {},
    MirrorMaxCrashes <- {}, MirrorMaxFaults <- {}, mirrorJobs <- part, mirrorJobVersions <- part,
    mirrorLogs <- part, mirrorLogOffsets <- part, mirrorLogSubs <- part, mirrorLogCh <- part,
    mirrorChOpen <- part, mirrorInflight <- part, mirrorProc <- part, mirrorWpc <- part,
    mirrorOutbox <- part, mirrorJobsStream <- part, mirrorLogsStream <- part,
    mirrorReplayPos <- part, mirrorCrashes <- part, mirrorFaults <- part, mirrorEverLog <- part,
    mirrorShownLog <- part

-----------------------------------------------------------------------------
\* The same with two clients.
\* Its calls are finite, and it begins with no events.
LEMMA BothFinite == BothP!IsFiniteSet(BothCalls)
  BY BothConstants DEF BothP!IsFiniteSet, IsFiniteSet

LEMMA BothEmpty ==
    /\ <<>> \in Seq(BothP!Turns!Events) /\ \A i \in 1..Len(<<>>) : FALSE
    /\ \A K : BothP!Turns!Indices(<<>>, K) = {}
  BY DEF BothP!Turns!Indices

\* The same operator of the library.
LEMMA BothCardinality == \A s : Both!Cardinality(s) = BothP!Turns!Cardinality(s)
  BY Zenon DEF Both!Cardinality, BothP!Turns!Cardinality

\* One component, seen from the run and from its theorems.
LEMMA BothSame ==
    /\ Both!Init <=> BothP!Turns!Init
    /\ Both!Next <=> BothP!Turns!Next
    /\ Both!vars = BothP!Turns!vars
    /\ Both!QuietIsIdle <=> BothP!Turns!QuietIsIdle
    /\ Both!LastIsDelivered <=> BothP!Turns!LastIsDelivered
  <1>1. Both!Init <=> BothP!Turns!Init
    BY DEF Both!Actors, Both!Init, BothP!Turns!Actors, BothP!Turns!Init
  <1>2. Both!Next <=> BothP!Turns!Next
    <2>1. \A a : Both!Say(a) <=> BothP!Turns!Say(a)
      BY DEF Both!turnVars, Both!callVars, Both!Stored, Both!Broadcast, Both!Subscribed,
             Both!Offer, Both!Say, BothP!Turns!turnVars, BothP!Turns!callVars,
             BothP!Turns!Stored, BothP!Turns!Broadcast, BothP!Turns!Subscribed,
             BothP!Turns!Offer, BothP!Turns!Say
    <2>2. \A h : Both!Loop(h) <=> BothP!Turns!Loop(h)
      BY DEF Both!turnVars, Both!callVars, Both!Ev, Both!At, Both!Goes, Both!Hello,
             Both!Forward, Both!Return, Both!Takes, Both!OnUserMessage, Both!Announced,
             Both!OnToolInvoke, Both!OnToolInvokeRefused, Both!Spawn, Both!OnCancel, Both!Loop,
             BothP!Turns!turnVars, BothP!Turns!callVars, BothP!Turns!Ev, BothP!Turns!At,
             BothP!Turns!Goes, BothP!Turns!Hello, BothP!Turns!Forward, BothP!Turns!Return,
             BothP!Turns!Takes, BothP!Turns!OnUserMessage, BothP!Turns!Announced,
             BothP!Turns!OnToolInvoke, BothP!Turns!OnToolInvokeRefused, BothP!Turns!Spawn,
             BothP!Turns!OnCancel, BothP!Turns!Loop
    <2>3. \A h : Both!Turn(h) <=> BothP!Turns!Turn(h)
      BY BothCardinality DEF Both!turnVars, Both!callVars, Both!Ev, Both!Piece, Both!At, Both!Goes,
             Both!IsMessage, Both!Window, Both!BuildMessages, Both!BuildMessagesFails,
             Both!GenerateDelta, Both!Idle, Both!GenerateFails, Both!Answer, Both!AskForTools,
             Both!Announced, Both!SyncTool, Both!SyncToolRefused, Both!SyncToolOutput,
             Both!SyncToolEnds, Both!ToolsDone, Both!Turn, BothP!Turns!turnVars,
             BothP!Turns!callVars, BothP!Turns!Ev, BothP!Turns!Piece, BothP!Turns!At,
             BothP!Turns!Goes, BothP!Turns!IsMessage, BothP!Turns!Window,
             BothP!Turns!BuildMessages, BothP!Turns!BuildMessagesFails,
             BothP!Turns!GenerateDelta, BothP!Turns!Idle, BothP!Turns!GenerateFails,
             BothP!Turns!Answer, BothP!Turns!AskForTools, BothP!Turns!Announced,
             BothP!Turns!SyncTool, BothP!Turns!SyncToolRefused, BothP!Turns!SyncToolOutput,
             BothP!Turns!SyncToolEnds, BothP!Turns!ToolsDone, BothP!Turns!Turn
    <2>4. \A c : Both!ToolCall(c) <=> BothP!Turns!ToolCall(c)
      BY DEF Both!turnVars, Both!callVars, Both!Ev, Both!Piece, Both!Register, Both!ToolOutput,
             Both!ToolEnds, Both!Unregister, Both!ToolCall, BothP!Turns!turnVars,
             BothP!Turns!callVars, BothP!Turns!Ev, BothP!Turns!Piece, BothP!Turns!Register,
             BothP!Turns!ToolOutput, BothP!Turns!ToolEnds, BothP!Turns!Unregister,
             BothP!Turns!ToolCall
    <2>5. \A h : Both!AnyClient(h) <=> BothP!Turns!AnyClient(h)
      BY DEF Both!turnVars, Both!callVars, Both!Messages, Both!ClientSends, Both!ClientReceives,
             Both!ClientLeaves, Both!AnyClient, BothP!Turns!turnVars, BothP!Turns!callVars,
             BothP!Turns!Messages, BothP!Turns!ClientSends, BothP!Turns!ClientReceives,
             BothP!Turns!ClientLeaves, BothP!Turns!AnyClient
    <2>6. QED
      BY <2>1, <2>2, <2>3, <2>4, <2>5, Zenon DEF Both!Next, Both!Server, Both!Actors, BothP!Turns!Next, BothP!Turns!Server,
             BothP!Turns!Actors
  <1>3. Both!QuietIsIdle <=> BothP!Turns!QuietIsIdle
    BY DEF Both!Actors, Both!Statuses, Both!Indices, Both!AtRest, Both!QuietIsIdle,
           BothP!Turns!Actors, BothP!Turns!Statuses, BothP!Turns!Indices, BothP!Turns!AtRest,
           BothP!Turns!QuietIsIdle
  <1>4. Both!LastIsDelivered <=> BothP!Turns!LastIsDelivered
    BY DEF Both!Actors, Both!Broadcast, Both!AtRest, Both!LastIsDelivered, BothP!Turns!Actors,
           BothP!Turns!Broadcast, BothP!Turns!AtRest, BothP!Turns!LastIsDelivered
  <1>5. Both!vars = BothP!Turns!vars
    BY DEF Both!turnVars, Both!callVars, Both!vars, BothP!Turns!turnVars, BothP!Turns!callVars,
           BothP!Turns!vars
  <1>6. QED
    BY <1>1, <1>2, <1>3, <1>4, <1>5

\* A behaviour of the run that begins in this part is one of the component.
LEMMA BothSteps ==
    /\ Init /\ part = "Both" => BothP!Turns!Init
    /\ [Next]_vars /\ part = "Both" => [BothP!Turns!Next]_(BothP!Turns!vars)
    /\ [Next]_vars /\ part = "Both" => (part = "Both")'
    /\ [Next]_vars /\ ~(part = "Both") => ~(part = "Both")'
  <1>1. Init /\ part = "Both" => BothP!Turns!Init
    BY BothSame DEF Init
  <1>2. [Next]_vars => part' = part
    BY DEF Next, vars
  <1>3. [Next]_vars /\ part = "Both" => [BothP!Turns!Next]_(BothP!Turns!vars)
    <2>1. Next /\ part = "Both" => Both!Next
      BY DEF Next
    <2>2. UNCHANGED vars => UNCHANGED Both!vars
      BY DEF vars, Both!turnVars, Both!callVars, Both!vars
    <2>3. UNCHANGED Both!vars => UNCHANGED BothP!Turns!vars
      BY DEF Both!turnVars, Both!callVars, Both!vars, BothP!Turns!turnVars, BothP!Turns!callVars,
           BothP!Turns!vars
    <2>4. QED
      BY <2>1, <2>2, <2>3, BothSame
  <1>4. QED
    BY <1>1, <1>2, <1>3

\* A session at rest says that it is idle, and what an overflow drops is never its last
\* event (Interact, sendDropOldest).
THEOREM SessionsAlwaysEndIdle == Spec => []BothEndIdle
  <1>1. BothP!Turns!Spec =>
          [](BothP!Turns!QuietIsIdle /\ BothP!Turns!LastIsDelivered)
    <2>1. BothP!TurnsBounds
      BY Zenon, BothFinite, BothEmpty, BothConstants DEF BothP!TurnsBounds, BothP!TurnsOldIsOver
    <2>2. QED
      BY <2>1, BothP!TurnsEndIdle, PTL
  <1>2. (part = "Both" =>
           BothP!Turns!QuietIsIdle /\ BothP!Turns!LastIsDelivered)
        => BothEndIdle
    BY BothSame DEF BothEndIdle
  <1>3. ~(part = "Both") => BothEndIdle
    BY DEF BothEndIdle
  <1>4. QED
    BY <1>1, <1>2, <1>3, BothSteps, PTL DEF Spec, BothP!Turns!Spec

-----------------------------------------------------------------------------
\* The daemons as processes.
\* One component, seen from the run and from its theorems.
LEMMA ProcessesSame ==
    /\ Processes!Init <=> Clients!Processes!Init
    /\ Processes!Next <=> Clients!Processes!Next
    /\ Processes!vars = Clients!Processes!vars
    /\ Processes!TypeOK <=> Clients!Processes!TypeOK
    /\ Processes!StopsKeepJobs <=> Clients!Processes!StopsKeepJobs
    /\ Processes!EndIsTheEnd <=> Clients!Processes!EndIsTheEnd
  <1>1. Processes!Init <=> Clients!Processes!Init
    BY DEF Processes!Processes, Processes!Init, Clients!Processes!Processes,
           Clients!Processes!Init
  <1>2. Processes!Next <=> Clients!Processes!Next
    BY DEF Processes!procs, Processes!counts, Processes!Terminal, Processes!Accepting,
           Processes!Busy, Processes!Follows, Processes!Open, Processes!StartWorker,
           Processes!StartAPI, Processes!DialWorker, Processes!ServeAPI, Processes!StartRemote,
           Processes!DialJobService, Processes!SubmitJob, Processes!Ends, Processes!RunJob,
           Processes!JobEnds, Processes!StreamJobLogs, Processes!Forward, Processes!LogsEnd,
           Processes!Leave, Processes!APIEnds, Processes!SignalAPI, Processes!SignalStartingAPI,
           Processes!WaitReturns, Processes!GracefulStopAPI, Processes!APIStops,
           Processes!SignalWorker, Processes!WorkerStops, Processes!SignalRemote,
           Processes!Proxied, Processes!RemoteStops, Processes!Killed, Processes!KillWorker,
           Processes!KillAPI, Processes!KillRemote, Processes!Starting, Processes!Calls,
           Processes!StopAPI, Processes!Stopping, Processes!Killing, Processes!Next,
           Clients!Processes!procs, Clients!Processes!counts, Clients!Processes!Terminal,
           Clients!Processes!Accepting, Clients!Processes!Busy, Clients!Processes!Follows,
           Clients!Processes!Open, Clients!Processes!StartWorker, Clients!Processes!StartAPI,
           Clients!Processes!DialWorker, Clients!Processes!ServeAPI,
           Clients!Processes!StartRemote, Clients!Processes!DialJobService,
           Clients!Processes!SubmitJob, Clients!Processes!Ends, Clients!Processes!RunJob,
           Clients!Processes!JobEnds, Clients!Processes!StreamJobLogs,
           Clients!Processes!Forward, Clients!Processes!LogsEnd, Clients!Processes!Leave,
           Clients!Processes!APIEnds, Clients!Processes!SignalAPI,
           Clients!Processes!SignalStartingAPI, Clients!Processes!WaitReturns,
           Clients!Processes!GracefulStopAPI, Clients!Processes!APIStops,
           Clients!Processes!SignalWorker, Clients!Processes!WorkerStops,
           Clients!Processes!SignalRemote, Clients!Processes!Proxied,
           Clients!Processes!RemoteStops, Clients!Processes!Killed,
           Clients!Processes!KillWorker, Clients!Processes!KillAPI,
           Clients!Processes!KillRemote, Clients!Processes!Starting, Clients!Processes!Calls,
           Clients!Processes!StopAPI, Clients!Processes!Stopping, Clients!Processes!Killing,
           Clients!Processes!Next
  <1>3. Processes!TypeOK <=> Clients!Processes!TypeOK
    BY DEF Processes!Processes, Processes!Terminal, Processes!Accepting, Processes!TypeOK,
           Clients!Processes!Processes, Clients!Processes!Terminal, Clients!Processes!Accepting,
           Clients!Processes!TypeOK
  <1>4. Processes!StopsKeepJobs <=> Clients!Processes!StopsKeepJobs
    BY DEF Processes!StopsKeepJobs, Clients!Processes!StopsKeepJobs
  <1>5. Processes!EndIsTheEnd <=> Clients!Processes!EndIsTheEnd
    BY DEF Processes!Terminal, Processes!EndIsTheEnd, Clients!Processes!Terminal,
           Clients!Processes!EndIsTheEnd
  <1>6. Processes!vars = Clients!Processes!vars
    BY DEF Processes!vars, Clients!Processes!vars
  <1>7. QED
    BY <1>1, <1>2, <1>3, <1>4, <1>5, <1>6

\* A behaviour of the run that begins in this part is one of the component.
LEMMA ProcessesSteps ==
    /\ Init /\ part = "Processes" => Clients!Processes!Init
    /\ [Next]_vars /\ part = "Processes" => [Clients!Processes!Next]_(Clients!Processes!vars)
    /\ [Next]_vars /\ part = "Processes" => (part = "Processes")'
    /\ [Next]_vars /\ ~(part = "Processes") => ~(part = "Processes")'
  <1>1. Init /\ part = "Processes" => Clients!Processes!Init
    BY ProcessesSame DEF Init
  <1>2. [Next]_vars => part' = part
    BY DEF Next, vars
  <1>3. [Next]_vars /\ part = "Processes" => [Clients!Processes!Next]_(Clients!Processes!vars)
    <2>1. Next /\ part = "Processes" => Processes!Next
      BY DEF Next
    <2>2. UNCHANGED vars => UNCHANGED Processes!vars
      BY DEF vars, Processes!vars
    <2>3. UNCHANGED Processes!vars => UNCHANGED Clients!Processes!vars
      BY DEF Processes!vars, Clients!Processes!vars
    <2>4. QED
      BY <2>1, <2>2, <2>3, ProcessesSame
  <1>4. QED
    BY <1>1, <1>2, <1>3

\* An API that stops by itself loses no job it accepted before the signal, and a follower
\* that is told the end was told the truth (Close, jobProxy).
THEOREM StopsAreAlwaysClean == Spec => []StopsAreClean
  <1>1. Clients!Processes!Spec =>
          [](Clients!Processes!TypeOK /\ Clients!Processes!StopsKeepJobs /\
            Clients!Processes!EndIsTheEnd)
    BY Clients!ProcessesTypeCorrect, Clients!AcceptedJobsAreKept, Clients!EndsAreTrue,
       ProcessesConstants, PTL
  <1>2. (part = "Processes" =>
           Clients!Processes!TypeOK /\ Clients!Processes!StopsKeepJobs /\
           Clients!Processes!EndIsTheEnd)
        => StopsAreClean
    BY ProcessesSame DEF StopsAreClean
  <1>3. ~(part = "Processes") => StopsAreClean
    BY DEF StopsAreClean
  <1>4. QED
    BY <1>1, <1>2, <1>3, ProcessesSteps, PTL DEF Spec, Clients!Processes!Spec

-----------------------------------------------------------------------------
\* The components of ShellProofs, each with the constants and variables it has in the run.
Shells == INSTANCE ShellProofs WITH
    ConnectLocal <- ConnectLocally, connectCmd <- v1, connectAt <- v2, connectFwd <- v3,
    connectConn <- v4, connectBin <- v5, connectPort <- v6, connectOrigin <- v7,
    connectFaults <- v8, installHealth <- v1, installHasSS <- v2, installDisk <- v3,
    installBackup <- v4, installBefore <- v5, installWant <- v6, installUnit <- v7,
    installRuns <- v8, installHome <- v9, installHomeUp <- v10, installOp <- v11,
    installRun <- v12, installSaid <- v13, installCuts <- v14, installSaved <- v15,
    durableMode <- v1, durableZstd <- v2, durableAt <- v3, durableLog <- v4, durableTail <- v5,
    durableFrom <- v6, durableShown <- v7, durableRd <- v8, durableWire <- v9, durableOwed <- v10,
    durableSendCh <- v11, durableAcked <- v12, durableRun <- v13, durableWait <- v14,
    durableCompletedCh <- v15, durableDropped <- v16, durableOthers <- v17, execShared <- v1,
    execTool <- v2, execSaid <- v3, execCode <- v4, execWire <- v5, execPc <- v6,
    execStatus <- v7, execCh <- v8, execBuf <- v9, execSize <- v10, execPrinted <- v11,
    execOpen <- v12, chatQuiet <- v1, chatPrintMu <- v2, chatMu <- v3, chatMain <- v4,
    chatRecvLoop <- v5, chatEvents <- v6, chatLeft <- v7, chatHooks <- v8, chatRun <- v9,
    chatBegin <- v10, chatEnd <- v11, chatLog <- v12, chatWire <- v13, chatByID <- v14,
    chatWaiters <- v15, chatTold <- v16, chatReplay <- v17, PrinterInteractive <- FALSE,
    PrinterTexts <- {<<"a">>, <<"b">>, <<"a", "b">>}, printerMu <- v1, printerRpc <- v2,
    printerEv <- v3, printerReceived <- v4, printerSpinning <- v5, printerActive <- v6,
    printerFull <- v7, printerLine <- v8, printerDeltas <- v9

-----------------------------------------------------------------------------
\* Commands that reach for the daemon.
\* One component, seen from the run and from its theorems.
LEMMA ConnectSame ==
    /\ Connect!Init <=> Shells!Connect!Init
    /\ Connect!Next <=> Shells!Connect!Next
    /\ Connect!vars = Shells!Connect!vars
    /\ Connect!TypeOK <=> Shells!Connect!TypeOK
    /\ Connect!NothingIsLeft <=> Shells!Connect!NothingIsLeft
    /\ Connect!StartingIsShared <=> Shells!Connect!StartingIsShared
  <1>1. Connect!Init <=> Shells!Connect!Init
    BY DEF Connect!Flags, Connect!Init, Shells!Connect!Flags, Shells!Connect!Init
  <1>2. Connect!Next <=> Shells!Connect!Next
    BY DEF Connect!Goes, Connect!remote, Connect!ConnectProxy, Connect!ConnectLocal,
           Connect!StartTunnel, Connect!StartProxy, Connect!Probe, Connect!Install,
           Connect!Installed, Connect!CheckBin, Connect!StartDaemon, Connect!AwaitPort,
           Connect!Dial, Connect!Forward, Connect!Ping, Connect!Ends, Connect!DaemonIsReady,
           Connect!Fault, Connect!Connect, Connect!EnsureRemoteDaemonViaSSH, Connect!Next,
           Shells!Connect!Goes, Shells!Connect!remote, Shells!Connect!ConnectProxy,
           Shells!Connect!ConnectLocal, Shells!Connect!StartTunnel, Shells!Connect!StartProxy,
           Shells!Connect!Probe, Shells!Connect!Install, Shells!Connect!Installed,
           Shells!Connect!CheckBin, Shells!Connect!StartDaemon, Shells!Connect!AwaitPort,
           Shells!Connect!Dial, Shells!Connect!Forward, Shells!Connect!Ping,
           Shells!Connect!Ends, Shells!Connect!DaemonIsReady, Shells!Connect!Fault,
           Shells!Connect!Connect, Shells!Connect!EnsureRemoteDaemonViaSSH, Shells!Connect!Next
  <1>3. Connect!TypeOK <=> Shells!Connect!TypeOK
    BY DEF Connect!Flags, Connect!TypeOK, Shells!Connect!Flags, Shells!Connect!TypeOK
  <1>4. Connect!NothingIsLeft <=> Shells!Connect!NothingIsLeft
    BY DEF Connect!Ended, Connect!NothingIsLeft, Shells!Connect!Ended,
           Shells!Connect!NothingIsLeft
  <1>5. Connect!StartingIsShared <=> Shells!Connect!StartingIsShared
    BY DEF Connect!StartingIsShared, Shells!Connect!StartingIsShared
  <1>6. Connect!vars = Shells!Connect!vars
    BY DEF Connect!vars, Shells!Connect!vars
  <1>7. QED
    BY <1>1, <1>2, <1>3, <1>4, <1>5, <1>6

\* A behaviour of the run that begins in this part is one of the component.
LEMMA ConnectSteps ==
    /\ Init /\ part = "Connect" => Shells!Connect!Init
    /\ [Next]_vars /\ part = "Connect" => [Shells!Connect!Next]_(Shells!Connect!vars)
    /\ [Next]_vars /\ part = "Connect" => (part = "Connect")'
    /\ [Next]_vars /\ ~(part = "Connect") => ~(part = "Connect")'
  <1>1. Init /\ part = "Connect" => Shells!Connect!Init
    BY ConnectSame DEF Init
  <1>2. [Next]_vars => part' = part
    BY DEF Next, vars
  <1>3. [Next]_vars /\ part = "Connect" => [Shells!Connect!Next]_(Shells!Connect!vars)
    <2>1. Next /\ part = "Connect" => Connect!Next
      BY DEF Next
    <2>2. UNCHANGED vars => UNCHANGED Connect!vars
      BY DEF vars, Connect!vars
    <2>3. UNCHANGED Connect!vars => UNCHANGED Shells!Connect!vars
      BY DEF Connect!vars, Shells!Connect!vars
    <2>4. QED
      BY <2>1, <2>2, <2>3, ConnectSame
  <1>4. QED
    BY <1>1, <1>2, <1>3

\* Commands that start the daemon at once share it, and none leaves an ssh process or a
\* connection behind (connect, ensureRemoteDaemonViaSSH).
THEOREM DaemonsAreAlwaysReached == Spec => []DaemonsAreReached
  <1>1. Shells!Connect!Spec =>
          [](Shells!Connect!TypeOK /\ Shells!Connect!NothingIsLeft /\
            Shells!Connect!StartingIsShared)
    BY Shells!ConnectHolds, PTL
  <1>2. (part = "Connect" =>
           Shells!Connect!TypeOK /\ Shells!Connect!NothingIsLeft /\
           Shells!Connect!StartingIsShared)
        => DaemonsAreReached
    BY ConnectSame DEF DaemonsAreReached
  <1>3. ~(part = "Connect") => DaemonsAreReached
    BY DEF DaemonsAreReached
  <1>4. QED
    BY <1>1, <1>2, <1>3, ConnectSteps, PTL DEF Spec, Shells!Connect!Spec

-----------------------------------------------------------------------------
\* Bootstraps and uninstalls.
\* One component, seen from the run and from its theorems.
LEMMA InstallSame ==
    /\ Install!Init <=> Shells!Install!Init
    /\ Install!Next <=> Shells!Install!Next
    /\ Install!vars = Shells!Install!vars
    /\ Install!TypeOK <=> Shells!Install!TypeOK
    /\ Install!OkMeansNew <=> Shells!Install!OkMeansNew
    /\ Install!RollbackRestores <=> Shells!Install!RollbackRestores
    /\ Install!NoMixtureRuns <=> Shells!Install!NoMixtureRuns
    /\ Install!PurgeIsComplete <=> Shells!Install!PurgeIsComplete
  <1>1. Install!Init <=> Shells!Install!Init
    BY DEF Install!Services, Install!Kinds, Install!None, Install!Init, Shells!Install!Services,
           Shells!Install!Kinds, Shells!Install!None, Shells!Install!Init
  <1>2. Install!Next <=> Shells!Install!Next
    BY DEF Install!system, Install!services, Install!user, Install!Services, Install!Kinds,
           Install!None, Install!Order, Install!Goes, Install!Ends, Install!Keeps,
           Install!Files, Install!StartState, Install!Dies, Install!RestartOnFailure,
           Install!StopUnits, Install!StartUnits, Install!Bootstrap, Install!Refused,
           Install!StopServices, Install!BackUp, Install!PortTaken, Install!Next3,
           Install!InstallFile, Install!TryOut, Install!Restart, Install!CheckUnit,
           Install!WaitPorts, Install!RollBack, Install!VerifyFails, Install!WriteConfig,
           Install!StopPidfiles, Install!InstallHome, Install!StartHome, Install!Uninstall,
           Install!DetectMode, Install!KillByName, Install!StopDisable, Install!PurgeSystemd,
           Install!PurgeUser, Install!Cut, Install!SystemdScript, Install!UserScript,
           Install!UninstallScript, Install!Next, Shells!Install!system,
           Shells!Install!services, Shells!Install!user, Shells!Install!Services,
           Shells!Install!Kinds, Shells!Install!None, Shells!Install!Order, Shells!Install!Goes,
           Shells!Install!Ends, Shells!Install!Keeps, Shells!Install!Files,
           Shells!Install!StartState, Shells!Install!Dies, Shells!Install!RestartOnFailure,
           Shells!Install!StopUnits, Shells!Install!StartUnits, Shells!Install!Bootstrap,
           Shells!Install!Refused, Shells!Install!StopServices, Shells!Install!BackUp,
           Shells!Install!PortTaken, Shells!Install!Next3, Shells!Install!InstallFile,
           Shells!Install!TryOut, Shells!Install!Restart, Shells!Install!CheckUnit,
           Shells!Install!WaitPorts, Shells!Install!RollBack, Shells!Install!VerifyFails,
           Shells!Install!WriteConfig, Shells!Install!StopPidfiles, Shells!Install!InstallHome,
           Shells!Install!StartHome, Shells!Install!Uninstall, Shells!Install!DetectMode,
           Shells!Install!KillByName, Shells!Install!StopDisable, Shells!Install!PurgeSystemd,
           Shells!Install!PurgeUser, Shells!Install!Cut, Shells!Install!SystemdScript,
           Shells!Install!UserScript, Shells!Install!UninstallScript, Shells!Install!Next
  <1>3. Install!TypeOK <=> Shells!Install!TypeOK
    BY DEF Install!Services, Install!Kinds, Install!TypeOK, Shells!Install!Services,
           Shells!Install!Kinds, Shells!Install!TypeOK
  <1>4. Install!OkMeansNew <=> Shells!Install!OkMeansNew
    BY DEF Install!Services, Install!Files, Install!Last, Install!OkMeansNew,
           Shells!Install!Services, Shells!Install!Files, Shells!Install!Last,
           Shells!Install!OkMeansNew
  <1>5. Install!RollbackRestores <=> Shells!Install!RollbackRestores
    BY DEF Install!Services, Install!Kinds, Install!Last, Install!RollbackRestores,
           Shells!Install!Services, Shells!Install!Kinds, Shells!Install!Last,
           Shells!Install!RollbackRestores
  <1>6. Install!NoMixtureRuns <=> Shells!Install!NoMixtureRuns
    BY DEF Install!Services, Install!NoMixtureRuns, Shells!Install!Services,
           Shells!Install!NoMixtureRuns
  <1>7. Install!PurgeIsComplete <=> Shells!Install!PurgeIsComplete
    BY DEF Install!Services, Install!Kinds, Install!None, Install!Last, Install!PurgeIsComplete,
           Shells!Install!Services, Shells!Install!Kinds, Shells!Install!None,
           Shells!Install!Last, Shells!Install!PurgeIsComplete
  <1>8. Install!vars = Shells!Install!vars
    BY DEF Install!system, Install!services, Install!user, Install!vars, Shells!Install!system,
           Shells!Install!services, Shells!Install!user, Shells!Install!vars
  <1>9. QED
    BY <1>1, <1>2, <1>3, <1>4, <1>5, <1>6, <1>7, <1>8

\* A behaviour of the run that begins in this part is one of the component.
LEMMA InstallSteps ==
    /\ Init /\ part = "Install" => Shells!Install!Init
    /\ [Next]_vars /\ part = "Install" => [Shells!Install!Next]_(Shells!Install!vars)
    /\ [Next]_vars /\ part = "Install" => (part = "Install")'
    /\ [Next]_vars /\ ~(part = "Install") => ~(part = "Install")'
  <1>1. Init /\ part = "Install" => Shells!Install!Init
    BY InstallSame DEF Init
  <1>2. [Next]_vars => part' = part
    BY DEF Next, vars
  <1>3. [Next]_vars /\ part = "Install" => [Shells!Install!Next]_(Shells!Install!vars)
    <2>1. Next /\ part = "Install" => Install!Next
      BY DEF Next
    <2>2. UNCHANGED vars => UNCHANGED Install!vars
      BY DEF vars, Install!system, Install!services, Install!user, Install!vars
    <2>3. UNCHANGED Install!vars => UNCHANGED Shells!Install!vars
      BY DEF Install!system, Install!services, Install!user, Install!vars, Shells!Install!system,
           Shells!Install!services, Shells!Install!user, Shells!Install!vars
    <2>4. QED
      BY <2>1, <2>2, <2>3, InstallSame
  <1>4. QED
    BY <1>1, <1>2, <1>3

\* bootstrap ok is the truth, a rollback restores, versions never serve together and an
\* uninstall is complete (renderRemoteSystemdInstallScript, renderRemoteUninstallScript).
THEOREM InstallsAreAlwaysTrue == Spec => []InstallsAreTrue
  <1>1. Shells!Install!Spec =>
          [](Shells!Install!TypeOK /\ Shells!Install!OkMeansNew /\
            Shells!Install!RollbackRestores /\ Shells!Install!NoMixtureRuns /\
            Shells!Install!PurgeIsComplete)
    BY Shells!InstallTypeCorrect, Shells!InstallsHold, PTL
  <1>2. (part = "Install" =>
           Shells!Install!TypeOK /\ Shells!Install!OkMeansNew /\
           Shells!Install!RollbackRestores /\ Shells!Install!NoMixtureRuns /\
           Shells!Install!PurgeIsComplete)
        => InstallsAreTrue
    BY InstallSame DEF InstallsAreTrue
  <1>3. ~(part = "Install") => InstallsAreTrue
    BY DEF InstallsAreTrue
  <1>4. QED
    BY <1>1, <1>2, <1>3, InstallSteps, PTL DEF Spec, Shells!Install!Spec

-----------------------------------------------------------------------------
\* The mirror of the control plane.
\* The same operator of the library.
LEMMA MirrorCardinality == \A s : Mirror!Cardinality(s) = Clients!Mirror!Cardinality(s)
  BY Zenon DEF Mirror!Cardinality, Clients!Mirror!Cardinality

\* One component, seen from the run and from its theorems.
LEMMA MirrorSame ==
    /\ Mirror!Init <=> Clients!Mirror!Init
    /\ Mirror!Next <=> Clients!Mirror!Next
    /\ Mirror!vars = Clients!Mirror!vars
    /\ Mirror!TypeOK <=> Clients!Mirror!TypeOK
    /\ Mirror!MemoryIsMirrorPlusOutbox <=> Clients!Mirror!MemoryIsMirrorPlusOutbox
    /\ Mirror!FinishedIsWhole <=> Clients!Mirror!FinishedIsWhole
    /\ Mirror!OffsetsSurvive <=> Clients!Mirror!OffsetsSurvive
  <1>1. Mirror!Init <=> Clients!Mirror!Init
    BY DEF Mirror!StoreInit, Mirror!Init, Clients!Mirror!StoreInit, Clients!Mirror!Init
  <1>2. Mirror!Next <=> Clients!Mirror!Next
    <2>1. Mirror!Appended = Clients!Mirror!Appended
      BY MirrorCardinality, Zenon DEF Mirror!Appended, Clients!Mirror!Appended
    <2>2. QED
      BY <2>1 DEF Mirror!storeVars, Mirror!Terminal, Mirror!Unlocked, Mirror!Put, Mirror!Stamped,
             Mirror!AppendLogs, Mirror!mirrorVars, Mirror!history, Mirror!vars, Mirror!Ready,
             Mirror!PutJob, Mirror!SubmitJob, Mirror!DispatchStart, Mirror!DispatchFinish,
             Mirror!DispatchLogs, Mirror!Publish, Mirror!PublishFails, Mirror!ShowLog,
             Mirror!Stop, Mirror!Crash, Mirror!Restart, Mirror!applyReplayedJob,
             Mirror!applyReplayedLog, Mirror!ReplayJob, Mirror!ReplayLog, Mirror!DrainEnds,
             Mirror!JobsDrained, Mirror!LogsDrained, Mirror!HydrateFails, Mirror!Write,
             Mirror!Hydrate, Mirror!Idle, Mirror!Next, Clients!Mirror!storeVars,
             Clients!Mirror!Terminal, Clients!Mirror!Unlocked, Clients!Mirror!Put,
             Clients!Mirror!Stamped, Clients!Mirror!AppendLogs, Clients!Mirror!mirrorVars,
             Clients!Mirror!history, Clients!Mirror!vars, Clients!Mirror!Ready,
             Clients!Mirror!PutJob, Clients!Mirror!SubmitJob, Clients!Mirror!DispatchStart,
             Clients!Mirror!DispatchFinish, Clients!Mirror!DispatchLogs, Clients!Mirror!Publish,
             Clients!Mirror!PublishFails, Clients!Mirror!ShowLog, Clients!Mirror!Stop,
             Clients!Mirror!Crash, Clients!Mirror!Restart, Clients!Mirror!applyReplayedJob,
             Clients!Mirror!applyReplayedLog, Clients!Mirror!ReplayJob,
             Clients!Mirror!ReplayLog, Clients!Mirror!DrainEnds, Clients!Mirror!JobsDrained,
             Clients!Mirror!LogsDrained, Clients!Mirror!HydrateFails, Clients!Mirror!Write,
             Clients!Mirror!Hydrate, Clients!Mirror!Idle, Clients!Mirror!Next
  <1>3. Mirror!TypeOK <=> Clients!Mirror!TypeOK
    BY DEF Mirror!States, Mirror!Fds, Mirror!Lines, Mirror!Chunks, Mirror!Snapshots,
           Mirror!StoreTypeOK, Mirror!JobEvents, Mirror!LogEvents, Mirror!TypeOK,
           Clients!Mirror!States, Clients!Mirror!Fds, Clients!Mirror!Lines,
           Clients!Mirror!Chunks, Clients!Mirror!Snapshots, Clients!Mirror!StoreTypeOK,
           Clients!Mirror!JobEvents, Clients!Mirror!LogEvents, Clients!Mirror!TypeOK
  <1>4. Mirror!MemoryIsMirrorPlusOutbox <=> Clients!Mirror!MemoryIsMirrorPlusOutbox
    BY DEF Mirror!Mirrored, Mirror!MirroredChunks, Mirror!MemoryIsMirrorPlusOutbox,
           Clients!Mirror!Mirrored, Clients!Mirror!MirroredChunks,
           Clients!Mirror!MemoryIsMirrorPlusOutbox
  <1>5. Mirror!FinishedIsWhole <=> Clients!Mirror!FinishedIsWhole
    BY DEF Mirror!Terminal, Mirror!FinishedIsWhole, Clients!Mirror!Terminal,
           Clients!Mirror!FinishedIsWhole
  <1>6. Mirror!OffsetsSurvive <=> Clients!Mirror!OffsetsSurvive
    BY DEF Mirror!OffsetsSurvive, Clients!Mirror!OffsetsSurvive
  <1>7. Mirror!vars = Clients!Mirror!vars
    BY DEF Mirror!storeVars, Mirror!mirrorVars, Mirror!history, Mirror!vars,
           Clients!Mirror!storeVars, Clients!Mirror!mirrorVars, Clients!Mirror!history,
           Clients!Mirror!vars
  <1>8. QED
    BY <1>1, <1>2, <1>3, <1>4, <1>5, <1>6, <1>7

\* A behaviour of the run that begins in this part is one of the component.
LEMMA MirrorSteps ==
    /\ Init /\ part = "Mirror" => Clients!Mirror!Init
    /\ [Next]_vars /\ part = "Mirror" => [Clients!Mirror!Next]_(Clients!Mirror!vars)
    /\ [Next]_vars /\ part = "Mirror" => (part = "Mirror")'
    /\ [Next]_vars /\ ~(part = "Mirror") => ~(part = "Mirror")'
  <1>1. Init /\ part = "Mirror" => Clients!Mirror!Init
    BY MirrorSame DEF Init
  <1>2. [Next]_vars => part' = part
    BY DEF Next, vars
  <1>3. [Next]_vars /\ part = "Mirror" => [Clients!Mirror!Next]_(Clients!Mirror!vars)
    <2>1. Next /\ part = "Mirror" => Mirror!Next
      BY DEF Next
    <2>2. UNCHANGED vars => UNCHANGED Mirror!vars
      BY DEF vars, Mirror!storeVars, Mirror!mirrorVars, Mirror!history, Mirror!vars
    <2>3. UNCHANGED Mirror!vars => UNCHANGED Clients!Mirror!vars
      BY DEF Mirror!storeVars, Mirror!mirrorVars, Mirror!history, Mirror!vars,
           Clients!Mirror!storeVars, Clients!Mirror!mirrorVars, Clients!Mirror!history,
           Clients!Mirror!vars
    <2>4. QED
      BY <2>1, <2>2, <2>3, MirrorSame
  <1>4. QED
    BY <1>1, <1>2, <1>3

\* While nothing failed the memory is what a replay would restore and what is about to be
\* published, and a finished job comes back whole; whatever failed, a chunk keeps its offset
\* over restarts (AppendLogs, hydrate, applyReplayedLog).
THEOREM MirrorsAreAlwaysFaithful == Spec => []MirrorIsFaithful
  <1>1. Clients!Mirror!Spec =>
          [](Clients!Mirror!TypeOK /\ Clients!Mirror!MemoryIsMirrorPlusOutbox /\
            Clients!Mirror!FinishedIsWhole /\ Clients!Mirror!OffsetsSurvive)
    <2>1. Clients!MirrorBounds
      BY MirrorConstants DEF Clients!MirrorBounds
    <2>2. QED
      BY <2>1, Clients!MirrorHolds, PTL
  <1>2. (part = "Mirror" =>
           Clients!Mirror!TypeOK /\ Clients!Mirror!MemoryIsMirrorPlusOutbox /\
           Clients!Mirror!FinishedIsWhole /\ Clients!Mirror!OffsetsSurvive)
        => MirrorIsFaithful
    BY MirrorSame DEF MirrorIsFaithful
  <1>3. ~(part = "Mirror") => MirrorIsFaithful
    BY DEF MirrorIsFaithful
  <1>4. QED
    BY <1>1, <1>2, <1>3, MirrorSteps, PTL DEF Spec, Clients!Mirror!Spec

-----------------------------------------------------------------------------
\* attach --resume.
\* The same operator of the library.
LEMMA DurableCardinality == \A s : Durable!Cardinality(s) = Shells!Durable!Cardinality(s)
  BY Zenon DEF Durable!Cardinality, Shells!Durable!Cardinality

\* The same operator of the library.
LEMMA DurableLast == \A s : Durable!Last(s) = Shells!Durable!Last(s)
  BY Zenon DEF Durable!Last, Shells!Durable!Last

\* The same operator of the library.
LEMMA DurableRange == \A s : Durable!Range(s) = Shells!Durable!Range(s)
  BY Zenon DEF Durable!Range, Shells!Durable!Range

\* One component, seen from the run and from its theorems.
LEMMA DurableSame ==
    /\ Durable!Init <=> Shells!Durable!Init
    /\ Durable!Next <=> Shells!Durable!Next
    /\ Durable!vars = Shells!Durable!vars
    /\ Durable!TypeOK <=> Shells!Durable!TypeOK
    /\ Durable!ScreenFollowsTheLog <=> Shells!Durable!ScreenFollowsTheLog
    /\ Durable!AcksAreShown <=> Shells!Durable!AcksAreShown
    /\ Durable!RunsOneAtATime <=> Shells!Durable!RunsOneAtATime
    /\ Durable!PromptIsAnswered <=> Shells!Durable!PromptIsAnswered
  <1>1. Durable!Init <=> Shells!Durable!Init
    BY DEF Durable!Runs, Durable!Init, Shells!Durable!Runs, Shells!Durable!Init
  <1>2. Durable!Next <=> Shells!Durable!Next
    BY DEF Durable!server, Durable!prompt, Durable!Runs, Durable!Chunk, Durable!Completed,
           Durable!Output, Durable!SendChunk, Durable!StartRun, Durable!CompleteRun,
           Durable!RunTimesOut, Durable!CompleteOther, Durable!EnsureShellSession,
           Durable!TailFileLines, Durable!TailShell, Durable!ReplayFails, Durable!AttachShell,
           Durable!Streams, Durable!RecvChunk, Durable!DecodeFails, Durable!Enqueue,
           Durable!Send, Durable!SendAck, Durable!RecvCompleted, Durable!Scan,
           Durable!TakeCompleted, Durable!Ends, Durable!PromptEnds, Durable!CloseSendCh,
           Durable!PumpReturns, Durable!Shell, Durable!Replay, Durable!pumpShell,
           Durable!runShellCommandMode, Durable!Next, Shells!Durable!server,
           Shells!Durable!prompt, Shells!Durable!Runs, Shells!Durable!Chunk,
           Shells!Durable!Completed, Shells!Durable!Output, Shells!Durable!SendChunk,
           Shells!Durable!StartRun, Shells!Durable!CompleteRun, Shells!Durable!RunTimesOut,
           Shells!Durable!CompleteOther, Shells!Durable!EnsureShellSession,
           Shells!Durable!TailFileLines, Shells!Durable!TailShell, Shells!Durable!ReplayFails,
           Shells!Durable!AttachShell, Shells!Durable!Streams, Shells!Durable!RecvChunk,
           Shells!Durable!DecodeFails, Shells!Durable!Enqueue, Shells!Durable!Send,
           Shells!Durable!SendAck, Shells!Durable!RecvCompleted, Shells!Durable!Scan,
           Shells!Durable!TakeCompleted, Shells!Durable!Ends, Shells!Durable!PromptEnds,
           Shells!Durable!CloseSendCh, Shells!Durable!PumpReturns, Shells!Durable!Shell,
           Shells!Durable!Replay, Shells!Durable!pumpShell, Shells!Durable!runShellCommandMode,
           Shells!Durable!Next
  <1>3. Durable!TypeOK <=> Shells!Durable!TypeOK
    BY DurableRange DEF Durable!Runs, Durable!Phases, Durable!TypeOK, Shells!Durable!Runs,
           Shells!Durable!Phases, Shells!Durable!TypeOK
  <1>4. Durable!ScreenFollowsTheLog <=> Shells!Durable!ScreenFollowsTheLog
    BY DEF Durable!ScreenFollowsTheLog, Shells!Durable!ScreenFollowsTheLog
  <1>5. Durable!AcksAreShown <=> Shells!Durable!AcksAreShown
    BY DurableRange, DurableLast DEF Durable!AcksAreShown, Shells!Durable!AcksAreShown
  <1>6. Durable!RunsOneAtATime <=> Shells!Durable!RunsOneAtATime
    BY DurableCardinality DEF Durable!Runs, Durable!RunsOneAtATime, Shells!Durable!Runs,
           Shells!Durable!RunsOneAtATime
  <1>7. Durable!PromptIsAnswered <=> Shells!Durable!PromptIsAnswered
    BY DurableRange DEF Durable!Completed, Durable!PromptIsAnswered, Shells!Durable!Completed,
           Shells!Durable!PromptIsAnswered
  <1>8. Durable!vars = Shells!Durable!vars
    BY DEF Durable!vars, Shells!Durable!vars
  <1>9. QED
    BY <1>1, <1>2, <1>3, <1>4, <1>5, <1>6, <1>7, <1>8

\* A behaviour of the run that begins in this part is one of the component.
LEMMA DurableSteps ==
    /\ Init /\ part = "Durable" => Shells!Durable!Init
    /\ [Next]_vars /\ part = "Durable" => [Shells!Durable!Next]_(Shells!Durable!vars)
    /\ [Next]_vars /\ part = "Durable" => (part = "Durable")'
    /\ [Next]_vars /\ ~(part = "Durable") => ~(part = "Durable")'
  <1>1. Init /\ part = "Durable" => Shells!Durable!Init
    BY DurableSame DEF Init
  <1>2. [Next]_vars => part' = part
    BY DEF Next, vars
  <1>3. [Next]_vars /\ part = "Durable" => [Shells!Durable!Next]_(Shells!Durable!vars)
    <2>1. Next /\ part = "Durable" => Durable!Next
      BY DEF Next
    <2>2. UNCHANGED vars => UNCHANGED Durable!vars
      BY DEF vars, Durable!vars
    <2>3. UNCHANGED Durable!vars => UNCHANGED Shells!Durable!vars
      BY DEF Durable!vars, Shells!Durable!vars
    <2>4. QED
      BY <2>1, <2>2, <2>3, DurableSame
  <1>4. QED
    BY <1>1, <1>2, <1>3

\* A resumed shell shows the log in order and once but for what was written while its tail was
\* read, acknowledges what it has shown, and its prompt runs one command after the other
\* (pumpShell, runShellCommandMode).
THEOREM ResumesAreAlwaysFaithful == Spec => []ResumesAreFaithful
  <1>1. Shells!Durable!Spec =>
          [](Shells!Durable!TypeOK /\ Shells!Durable!ScreenFollowsTheLog /\
            Shells!Durable!AcksAreShown /\ Shells!Durable!RunsOneAtATime /\
            Shells!Durable!PromptIsAnswered)
    <2>1. Shells!DurableBounds
      BY DurableConstants DEF Shells!DurableBounds
    <2>2. QED
      BY <2>1, Shells!DurableHolds, PTL
  <1>2. (part = "Durable" =>
           Shells!Durable!TypeOK /\ Shells!Durable!ScreenFollowsTheLog /\
           Shells!Durable!AcksAreShown /\ Shells!Durable!RunsOneAtATime /\
           Shells!Durable!PromptIsAnswered)
        => ResumesAreFaithful
    BY DurableSame DEF ResumesAreFaithful
  <1>3. ~(part = "Durable") => ResumesAreFaithful
    BY DEF ResumesAreFaithful
  <1>4. QED
    BY <1>1, <1>2, <1>3, DurableSteps, PTL DEF Spec, Shells!Durable!Spec

-----------------------------------------------------------------------------
\* xrunner ssh exec.
\* One component, seen from the run and from its theorems.
LEMMA ExecSame ==
    /\ Exec!Init <=> Shells!Exec!Init
    /\ Exec!Next <=> Shells!Exec!Next
    /\ Exec!vars = Shells!Exec!vars
    /\ Exec!TypeOK <=> Shells!Exec!TypeOK
    /\ Exec!BatchesKeepOrder <=> Shells!Exec!BatchesKeepOrder
    /\ Exec!ExecPrintsAll <=> Shells!Exec!ExecPrintsAll
  <1>1. Exec!Init <=> Shells!Exec!Init
    BY DEF Exec!Writers, Exec!Init, Shells!Exec!Writers, Shells!Exec!Init
  <1>2. Exec!Next <=> Shells!Exec!Next
    BY DEF Exec!Writers, Exec!Chunk, Exec!server, Exec!writers, Exec!Say, Exec!Result,
           Exec!OtherResult, Exec!Writes, Exec!Keeps, Exec!BatchTakes, Exec!Flush,
           Exec!BatchTicks, Exec!BatchEnds, Exec!Exec, Exec!PrintEventHuman, Exec!TakeResult,
           Exec!Close, Exec!RecvFails, Exec!Batch, Exec!Command, Exec!Next, Shells!Exec!Writers,
           Shells!Exec!Chunk, Shells!Exec!server, Shells!Exec!writers, Shells!Exec!Say,
           Shells!Exec!Result, Shells!Exec!OtherResult, Shells!Exec!Writes, Shells!Exec!Keeps,
           Shells!Exec!BatchTakes, Shells!Exec!Flush, Shells!Exec!BatchTicks,
           Shells!Exec!BatchEnds, Shells!Exec!Exec, Shells!Exec!PrintEventHuman,
           Shells!Exec!TakeResult, Shells!Exec!Close, Shells!Exec!RecvFails, Shells!Exec!Batch,
           Shells!Exec!Command, Shells!Exec!Next
  <1>3. Exec!TypeOK <=> Shells!Exec!TypeOK
    BY DEF Exec!Writers, Exec!TypeOK, Shells!Exec!Writers, Shells!Exec!TypeOK
  <1>4. Exec!BatchesKeepOrder <=> Shells!Exec!BatchesKeepOrder
    BY DEF Exec!Writers, Exec!Numbers, Exec!Prefix, Exec!BatchesKeepOrder, Shells!Exec!Writers,
           Shells!Exec!Numbers, Shells!Exec!Prefix, Shells!Exec!BatchesKeepOrder
  <1>5. Exec!ExecPrintsAll <=> Shells!Exec!ExecPrintsAll
    BY DEF Exec!Writers, Exec!ExecPrintsAll, Shells!Exec!Writers, Shells!Exec!ExecPrintsAll
  <1>6. Exec!vars = Shells!Exec!vars
    BY DEF Exec!vars, Shells!Exec!vars
  <1>7. QED
    BY <1>1, <1>2, <1>3, <1>4, <1>5, <1>6

\* A behaviour of the run that begins in this part is one of the component.
LEMMA ExecSteps ==
    /\ Init /\ part = "Exec" => Shells!Exec!Init
    /\ [Next]_vars /\ part = "Exec" => [Shells!Exec!Next]_(Shells!Exec!vars)
    /\ [Next]_vars /\ part = "Exec" => (part = "Exec")'
    /\ [Next]_vars /\ ~(part = "Exec") => ~(part = "Exec")'
  <1>1. Init /\ part = "Exec" => Shells!Exec!Init
    BY ExecSame DEF Init
  <1>2. [Next]_vars => part' = part
    BY DEF Next, vars
  <1>3. [Next]_vars /\ part = "Exec" => [Shells!Exec!Next]_(Shells!Exec!vars)
    <2>1. Next /\ part = "Exec" => Exec!Next
      BY DEF Next
    <2>2. UNCHANGED vars => UNCHANGED Exec!vars
      BY DEF vars, Exec!vars
    <2>3. UNCHANGED Exec!vars => UNCHANGED Shells!Exec!vars
      BY DEF Exec!vars, Shells!Exec!vars
    <2>4. QED
      BY <2>1, <2>2, <2>3, ExecSame
  <1>4. QED
    BY <1>1, <1>2, <1>3

\* Batches keep the order of each stream, and a command alone in its session prints all of
\* its call's output before it returns its status (newSSHExecCmd).
THEOREM ExecsAreAlwaysComplete == Spec => []ExecIsComplete
  <1>1. Shells!Exec!Spec =>
          [](Shells!Exec!TypeOK /\ Shells!Exec!BatchesKeepOrder /\ Shells!Exec!ExecPrintsAll)
    <2>1. Shells!ExecBounds
      BY ExecConstants DEF Shells!ExecBounds
    <2>2. QED
      BY <2>1, Shells!ExecHolds, PTL
  <1>2. (part = "Exec" =>
           Shells!Exec!TypeOK /\ Shells!Exec!BatchesKeepOrder /\ Shells!Exec!ExecPrintsAll)
        => ExecIsComplete
    BY ExecSame DEF ExecIsComplete
  <1>3. ~(part = "Exec") => ExecIsComplete
    BY DEF ExecIsComplete
  <1>4. QED
    BY <1>1, <1>2, <1>3, ExecSteps, PTL DEF Spec, Shells!Exec!Spec

-----------------------------------------------------------------------------
\* The commands of a chat.
\* One component, seen from the run and from its theorems.
LEMMA ChatSame ==
    /\ Chat!Init <=> Shells!Chat!Init
    /\ Chat!Next <=> Shells!Chat!Next
    /\ Chat!vars = Shells!Chat!vars
    /\ Chat!TypeOK <=> Shells!Chat!TypeOK
    /\ Chat!WaitersAreTold <=> Shells!Chat!WaitersAreTold
    /\ Chat!RunsHaveEnded <=> Shells!Chat!RunsHaveEnded
    /\ Chat!ReplayIsWhole <=> Shells!Chat!ReplayIsWhole
    /\ Chat!LocksAreGivenBack <=> Shells!Chat!LocksAreGivenBack
  <1>1. Chat!Init <=> Shells!Chat!Init
    BY DEF Chat!Ids, Chat!Init, Shells!Chat!Ids, Shells!Chat!Init
  <1>2. Chat!Next <=> Shells!Chat!Next
    BY DEF Chat!locks, Chat!shell, Chat!records, Chat!At, Chat!Output, Chat!StartRun,
           Chat!EndRun, Chat!GiveUp, Chat!HookEnd, Chat!RecvStarted, Chat!RecvCompleted,
           Chat!PrintCompletion, Chat!UnlockRecords, Chat!RecvFails, Chat!RecvEvent,
           Chat!HandleEvent, Chat!EventPrompt, Chat!Prompt, Chat!NextCmd, Chat!CmdsLeft,
           Chat!ReadCommand, Chat!ReadTimeline, Chat!PrintTimeline, Chat!ReadRecords, Chat!Run,
           Chat!RunReturns, Chat!RunTimesOut, Chat!Compare, Chat!FindRecord, Chat!Replay,
           Chat!Fails, Chat!Shell, Chat!RecvLoop, Chat!Events, Chat!handleChatCommand,
           Chat!Next, Shells!Chat!locks, Shells!Chat!shell, Shells!Chat!records, Shells!Chat!At,
           Shells!Chat!Output, Shells!Chat!StartRun, Shells!Chat!EndRun, Shells!Chat!GiveUp,
           Shells!Chat!HookEnd, Shells!Chat!RecvStarted, Shells!Chat!RecvCompleted,
           Shells!Chat!PrintCompletion, Shells!Chat!UnlockRecords, Shells!Chat!RecvFails,
           Shells!Chat!RecvEvent, Shells!Chat!HandleEvent, Shells!Chat!EventPrompt,
           Shells!Chat!Prompt, Shells!Chat!NextCmd, Shells!Chat!CmdsLeft,
           Shells!Chat!ReadCommand, Shells!Chat!ReadTimeline, Shells!Chat!PrintTimeline,
           Shells!Chat!ReadRecords, Shells!Chat!Run, Shells!Chat!RunReturns,
           Shells!Chat!RunTimesOut, Shells!Chat!Compare, Shells!Chat!FindRecord,
           Shells!Chat!Replay, Shells!Chat!Fails, Shells!Chat!Shell, Shells!Chat!RecvLoop,
           Shells!Chat!Events, Shells!Chat!handleChatCommand, Shells!Chat!Next
  <1>3. Chat!TypeOK <=> Shells!Chat!TypeOK
    BY DEF Chat!MainAt, Chat!Ids, Chat!TypeOK, Shells!Chat!MainAt, Shells!Chat!Ids,
           Shells!Chat!TypeOK
  <1>4. Chat!WaitersAreTold <=> Shells!Chat!WaitersAreTold
    BY DEF Chat!WaitersAreTold, Shells!Chat!WaitersAreTold
  <1>5. Chat!RunsHaveEnded <=> Shells!Chat!RunsHaveEnded
    BY DEF Chat!RunsHaveEnded, Shells!Chat!RunsHaveEnded
  <1>6. Chat!ReplayIsWhole <=> Shells!Chat!ReplayIsWhole
    BY DEF Chat!ReplayIsWhole, Shells!Chat!ReplayIsWhole
  <1>7. Chat!LocksAreGivenBack <=> Shells!Chat!LocksAreGivenBack
    BY DEF Chat!Ids, Chat!LocksAreGivenBack, Shells!Chat!Ids, Shells!Chat!LocksAreGivenBack
  <1>8. Chat!vars = Shells!Chat!vars
    BY DEF Chat!vars, Shells!Chat!vars
  <1>9. QED
    BY <1>1, <1>2, <1>3, <1>4, <1>5, <1>6, <1>7, <1>8

\* A behaviour of the run that begins in this part is one of the component.
LEMMA ChatSteps ==
    /\ Init /\ part = "Chat" => Shells!Chat!Init
    /\ [Next]_vars /\ part = "Chat" => [Shells!Chat!Next]_(Shells!Chat!vars)
    /\ [Next]_vars /\ part = "Chat" => (part = "Chat")'
    /\ [Next]_vars /\ ~(part = "Chat") => ~(part = "Chat")'
  <1>1. Init /\ part = "Chat" => Shells!Chat!Init
    BY ChatSame DEF Init
  <1>2. [Next]_vars => part' = part
    BY DEF Next, vars
  <1>3. [Next]_vars /\ part = "Chat" => [Shells!Chat!Next]_(Shells!Chat!vars)
    <2>1. Next /\ part = "Chat" => Chat!Next
      BY DEF Next
    <2>2. UNCHANGED vars => UNCHANGED Chat!vars
      BY DEF vars, Chat!vars
    <2>3. UNCHANGED Chat!vars => UNCHANGED Shells!Chat!vars
      BY DEF Chat!vars, Shells!Chat!vars
    <2>4. QED
      BY <2>1, <2>2, <2>3, ChatSame
  <1>4. QED
    BY <1>1, <1>2, <1>3

\* Whoever waits for a command is told when it completes, replays are whole, and no lock is
\* kept before a command completes (chatShell).
THEOREM ChatShellsAreAlwaysSound == Spec => []ChatShellIsSound
  <1>1. Shells!Chat!Spec =>
          [](Shells!Chat!TypeOK /\ Shells!Chat!WaitersAreTold /\ Shells!Chat!RunsHaveEnded /\
            Shells!Chat!ReplayIsWhole /\ Shells!Chat!LocksAreGivenBack)
    <2>1. Shells!ChatBounds
      BY ChatConstants DEF Shells!ChatBounds
    <2>2. QED
      BY <2>1, Shells!ChatShellHolds, PTL
  <1>2. (part = "Chat" =>
           Shells!Chat!TypeOK /\ Shells!Chat!WaitersAreTold /\ Shells!Chat!RunsHaveEnded /\
           Shells!Chat!ReplayIsWhole /\ Shells!Chat!LocksAreGivenBack)
        => ChatShellIsSound
    BY ChatSame DEF ChatShellIsSound
  <1>3. ~(part = "Chat") => ChatShellIsSound
    BY DEF ChatShellIsSound
  <1>4. QED
    BY <1>1, <1>2, <1>3, ChatSteps, PTL DEF Spec, Shells!Chat!Spec

-----------------------------------------------------------------------------
\* The chat printer, not on a terminal; the texts are letters.
\* The same operator of the library.
LEMMA PrinterRange == \A s : Printer!Range(s) = Shells!Printer!Range(s)
  BY Zenon DEF Printer!Range, Shells!Printer!Range

\* One component, seen from the run and from its theorems.
LEMMA PrinterSame ==
    /\ Printer!Init <=> Shells!Printer!Init
    /\ Printer!Next <=> Shells!Printer!Next
    /\ Printer!vars = Shells!Printer!vars
    /\ Printer!TypeOK <=> Shells!Printer!TypeOK
    /\ Printer!DeltasAreRendered <=> Shells!Printer!DeltasAreRendered
  <1>1. Printer!Init <=> Shells!Printer!Init
    BY DEF Printer!Init, Shells!Printer!Init
  <1>2. Printer!Next <=> Shells!Printer!Next
    BY DEF Printer!Events, Printer!Recv, Printer!EndsLine, Printer!Handle, Printer!ClearSpinner,
           Printer!News, Printer!Render, Printer!Prompt, Printer!Next, Shells!Printer!Events,
           Shells!Printer!Recv, Shells!Printer!EndsLine, Shells!Printer!Handle,
           Shells!Printer!ClearSpinner, Shells!Printer!News, Shells!Printer!Render,
           Shells!Printer!Prompt, Shells!Printer!Next
  <1>3. Printer!TypeOK <=> Shells!Printer!TypeOK
    <2>1. Printer!Letters = Shells!Printer!Letters
      BY PrinterRange, Zenon DEF Printer!Letters, Shells!Printer!Letters
    <2>2. QED
      BY <2>1 DEF Printer!Events, Printer!TypeOK, Shells!Printer!Events, Shells!Printer!TypeOK
  <1>4. Printer!DeltasAreRendered <=> Shells!Printer!DeltasAreRendered
    BY DEF Printer!DeltasAreRendered, Shells!Printer!DeltasAreRendered
  <1>5. Printer!vars = Shells!Printer!vars
    BY DEF Printer!vars, Shells!Printer!vars
  <1>6. QED
    BY <1>1, <1>2, <1>3, <1>4, <1>5

\* A behaviour of the run that begins in this part is one of the component.
LEMMA PrinterSteps ==
    /\ Init /\ part = "Printer" => Shells!Printer!Init
    /\ [Next]_vars /\ part = "Printer" => [Shells!Printer!Next]_(Shells!Printer!vars)
    /\ [Next]_vars /\ part = "Printer" => (part = "Printer")'
    /\ [Next]_vars /\ ~(part = "Printer") => ~(part = "Printer")'
  <1>1. Init /\ part = "Printer" => Shells!Printer!Init
    BY PrinterSame DEF Init
  <1>2. [Next]_vars => part' = part
    BY DEF Next, vars
  <1>3. [Next]_vars /\ part = "Printer" => [Shells!Printer!Next]_(Shells!Printer!vars)
    <2>1. Next /\ part = "Printer" => Printer!Next
      BY DEF Next
    <2>2. UNCHANGED vars => UNCHANGED Printer!vars
      BY DEF vars, Printer!vars
    <2>3. UNCHANGED Printer!vars => UNCHANGED Shells!Printer!vars
      BY DEF Printer!vars, Shells!Printer!vars
    <2>4. QED
      BY <2>1, <2>2, <2>3, PrinterSame
  <1>4. QED
    BY <1>1, <1>2, <1>3

\* The line holds the deltas, one after the other (streamingChatPrinter.Handle).
THEOREM DeltasAreAlwaysRendered == Spec => []PrinterRendersDeltas
  <1>1. Shells!Printer!Spec =>
          [](Shells!Printer!TypeOK /\ Shells!Printer!DeltasAreRendered)
    <2>1. \A S : \A a, b \in S : <<a>> \in Seq(S) /\ <<b>> \in Seq(S) /\ <<a, b>> \in Seq(S)
      OBVIOUS
    <2>2. \A x : x \in Shells!Printer!Range(<<x>>)
      BY DEF Shells!Printer!Range
    <2>3. "a" \in Shells!Printer!Letters /\ "b" \in Shells!Printer!Letters
      BY <2>2, Zenon DEF Shells!Printer!Letters
    <2>4. {<<"a">>, <<"b">>, <<"a", "b">>} \subseteq Seq(Shells!Printer!Letters)
      BY <2>1, <2>3, Zenon
    <2>5. Shells!PrinterWords
      BY <2>4, PrinterConstants, Zenon DEF Shells!PrinterWords
    <2>6. QED
      BY <2>1, <2>2, <2>3, <2>4, <2>5, Shells!PrinterHolds, PTL
  <1>2. (part = "Printer" =>
           Shells!Printer!TypeOK /\ Shells!Printer!DeltasAreRendered)
        => PrinterRendersDeltas
    BY PrinterSame DEF PrinterRendersDeltas
  <1>3. ~(part = "Printer") => PrinterRendersDeltas
    BY DEF PrinterRendersDeltas
  <1>4. QED
    BY <1>1, <1>2, <1>3, PrinterSteps, PTL DEF Spec, Shells!Printer!Spec
=============================================================================
