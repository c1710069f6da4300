---------------------------- MODULE ClientProofs ----------------------------
(***************************************************************************)
(* Proofs about the turns of a session, the processes of the daemons and   *)
(* the mirror of the control plane, for every value of their constants;    *)
(* the sections are as in RemoteProofs.                                    *)
(***************************************************************************)
EXTENDS FiniteSets, FiniteSetTheorems, Integers, Sequences, TLAPS

CONSTANTS
    TurnsHandlers, TurnsCalls, TurnsLlms, TurnsStream, TurnsMaxIters,
    TurnsHistory, TurnsCap, TurnsWireCap, TurnsOld, TurnsNoCall,
    TurnsMaxTurns, TurnsMaxSaid, TurnsMaxAsked, ProcessesJobs,
    ProcessesMaxStarts, ProcessesMaxKills, MirrorJobs, MirrorRpcs,
    MirrorChanCap, MirrorWatched, MirrorMaxLog, MirrorMaxBatch,
    MirrorMaxCrashes, MirrorMaxFaults

VARIABLES
    turnsLlm, turnsLog, turnsOut, turnsHpc, turnsTurn, turnsTurns, turnsIter,
    turnsMore, turnsCur, turnsPrompt, turnsCs, turnsCanceled, turnsSaid,
    turnsQ, turnsWire, turnsInbox, turnsLeft, turnsAsked, processesWorker,
    processesApi, processesRemote, processesExit, processesJob, processesLate,
    processesKnown, processesFollower, processesStarts, processesKills,
    mirrorJobs, mirrorJobVersions, mirrorLogs, mirrorLogOffsets,
    mirrorLogSubs, mirrorLogCh, mirrorChOpen, mirrorInflight, mirrorProc,
    mirrorWpc, mirrorOutbox, mirrorJobsStream, mirrorLogsStream,
    mirrorReplayPos, mirrorCrashes, mirrorFaults, mirrorEverLog,
    mirrorShownLog

Turns == INSTANCE SessionTurns WITH
    Handlers <- TurnsHandlers, Calls <- TurnsCalls, Llms <- TurnsLlms,
    Stream <- TurnsStream, MaxIters <- TurnsMaxIters, History <- TurnsHistory,
    Cap <- TurnsCap, WireCap <- TurnsWireCap, Old <- TurnsOld,
    NoCall <- TurnsNoCall, MaxTurns <- TurnsMaxTurns, MaxSaid <- TurnsMaxSaid,
    MaxAsked <- TurnsMaxAsked, llm <- turnsLlm, log <- turnsLog,
    out <- turnsOut, hpc <- turnsHpc, turn <- turnsTurn, turns <- turnsTurns,
    iter <- turnsIter, more <- turnsMore, cur <- turnsCur,
    prompt <- turnsPrompt, cs <- turnsCs, canceled <- turnsCanceled,
    said <- turnsSaid, q <- turnsQ, wire <- turnsWire, inbox <- turnsInbox,
    left <- turnsLeft, asked <- turnsAsked

Processes == INSTANCE Daemons WITH
    Jobs <- ProcessesJobs, MaxStarts <- ProcessesMaxStarts,
    MaxKills <- ProcessesMaxKills, worker <- processesWorker,
    api <- processesApi, remote <- processesRemote, exit <- processesExit,
    job <- processesJob, late <- processesLate, known <- processesKnown,
    follower <- processesFollower, starts <- processesStarts,
    kills <- processesKills

Mirror == INSTANCE JobMirror WITH
    Jobs <- MirrorJobs, Rpcs <- MirrorRpcs, ChanCap <- MirrorChanCap,
    Watched <- MirrorWatched, MaxLog <- MirrorMaxLog,
    MaxBatch <- MirrorMaxBatch, MaxCrashes <- MirrorMaxCrashes,
    MaxFaults <- MirrorMaxFaults, jobs <- mirrorJobs,
    jobVersions <- mirrorJobVersions, logs <- mirrorLogs,
    logOffsets <- mirrorLogOffsets, logSubs <- mirrorLogSubs,
    logCh <- mirrorLogCh, chOpen <- mirrorChOpen, inflight <- mirrorInflight,
    proc <- mirrorProc, wpc <- mirrorWpc, outbox <- mirrorOutbox,
    jobsStream <- mirrorJobsStream, logsStream <- mirrorLogsStream,
    replayPos <- mirrorReplayPos, crashes <- mirrorCrashes,
    faults <- mirrorFaults, everLog <- mirrorEverLog,
    shownLog <- mirrorShownLog

-----------------------------------------------------------------------------
(***************************************************************************)
(* Proofs about SessionTurns, for any number of clients, tool calls, turns *)
(* and iterations.                                                         *)
(***************************************************************************)

\* What ends a status.
TurnsEnds == {"idle", "canceled", "error"}

\* A session that begins at rest, and whose events are of other turns and calls.
TurnsOldIsOver ==
    /\ TurnsOld \in Seq(Turns!Events)
    /\ \A i \in 1..Len(TurnsOld) : TurnsOld[i].of \notin TurnsCalls \cup 1..TurnsMaxTurns
    /\ \A i \in Turns!Indices(TurnsOld, Turns!Statuses) :
           \/ TurnsOld[i].kind \in {"idle", "canceled"}
           \/ \E j \in Turns!Indices(TurnsOld, Turns!Statuses \cup {"error"}) : j > i

TurnsBounds ==
    /\ TurnsMaxTurns \in Nat /\ TurnsMaxSaid \in Nat /\ TurnsMaxAsked \in Nat
    /\ TurnsMaxIters \in Nat \ {0} /\ TurnsCap \in Nat \ {0}
    /\ IsFiniteSet(TurnsCalls) /\ TurnsCalls \cap 0..TurnsMaxTurns = {}
    /\ TurnsNoCall \notin TurnsCalls /\ TurnsHandlers \cap TurnsCalls = {}
    /\ TurnsOldIsOver

-----------------------------------------------------------------------------
\* What a handler has still to append, by where it is.
TurnsOutput(c) == {[kind |-> "output", of |-> c, n |-> n] : n \in 1..TurnsMaxSaid}
TurnsDelta(t) == {[kind |-> "delta", of |-> t, n |-> n] : n \in 1..TurnsMaxSaid}

TurnsInTurn(h) ==
    LET t == turnsTurn[h] IN
    /\ turnsHpc[h] = "context" =>
           /\ t # 0
           /\ turnsOut[h] \in {<<>>, <<Turns!Ev("thinking", t)>>, <<Turns!Ev("user", t),
                Turns!Ev("thinking", t)>>}
    /\ turnsHpc[h] = "generate" =>
         turnsOut[h] = <<>> \/ \E e \in TurnsDelta(t) : turnsOut[h] = <<e>>
    /\ turnsHpc[h] = "tools" =>
           \/ turnsOut[h] = <<>>
           \/ \E c \in TurnsCalls :
                  /\ turnsCs[c] = "done"
                  /\ turnsOut[h] \in {<<Turns!Ev("idle", c)>>, <<Turns!Ev("result", c),
                       Turns!Ev("idle", c)>>}

TurnsInLoop(h) ==
    LET t == turnsTurn[h] IN
    /\ turnsHpc[h] \in {"hello", "gone"} => turnsOut[h] = <<>>
    /\ turnsHpc[h] = "loop" =>
           \/ turnsOut[h] \in {<<>>, <<Turns!Ev("user", t), Turns!Ev("assistant", t)>>,
                          <<Turns!Ev("user", t), Turns!Ev("error", t)>>,
                          <<Turns!Ev("assistant", t)>>, <<Turns!Ev("error", t)>>,
                            <<Turns!Ev("idle", t)>>,
                          <<Turns!Ev("error", t), Turns!Ev("idle", t)>>, <<Turns!Ev("assistant",
                            t), Turns!Ev("idle", t)>>}
           \/ \E c \in TurnsCalls : turnsOut[h] = <<Turns!Ev("canceled", c)>>

TurnsInCall(h) ==
    /\ turnsHpc[h] \in {"tool", "spawn"} =>
           /\ turnsCur[h] \in TurnsCalls
           /\ \/ turnsOut[h] \in {<<>>, <<Turns!Ev("running", turnsCur[h])>>,
                   Turns!Announced(turnsCur[h])}
              \/ turnsHpc[h] = "tool" /\ \E e \in TurnsOutput(turnsCur[h]) : turnsOut[h] = <<e>>
    /\ turnsHpc[h] = "tool" => turnsMore[h] > 0
    /\ turnsHpc[h] \notin {"tool", "spawn"} => turnsCur[h] = TurnsNoCall

\* The same of the goroutine of a call.
TurnsInTool(c) ==
    /\ turnsCs[c] \in {"unused", "sync", "spawned", "done"} => turnsOut[c] = <<>>
    /\ turnsCs[c] = "registered" =>
         turnsOut[c] = <<>> \/ \E e \in TurnsOutput(c) : turnsOut[c] = <<e>>
    /\ turnsCs[c] = "ended" =>
         turnsOut[c] \in {<<>>, <<Turns!Ev("idle", c)>>, <<Turns!Ev("result", c), Turns!Ev("idle",
           c)>>}

TurnsShaped ==
    /\ \A h \in TurnsHandlers : TurnsInTurn(h) /\ TurnsInLoop(h) /\ TurnsInCall(h)
    /\ \A c \in TurnsCalls : TurnsInTool(c)

-----------------------------------------------------------------------------
\* Somebody will say that the session is idle, or that there was an error.
TurnsPromises(a) == \E k \in 1..Len(turnsOut[a]) : turnsOut[a][k].kind \in TurnsEnds
TurnsOwes ==
    \/ \E h \in TurnsHandlers : turnsHpc[h] \in {"context", "generate", "tools", "tool"}
    \/ \E c \in TurnsCalls : turnsCs[c] \in {"spawned", "registered"}
    \/ \E a \in Turns!Actors : TurnsPromises(a)

\* As long as a status is the last one, somebody does.
TurnsFollowed ==
    \A i \in 1..Len(turnsLog) : turnsLog[i].kind \in {"thinking", "running"} =>
        TurnsOwes \/ \E j \in 1..Len(turnsLog) : j > i /\
          turnsLog[j].kind \in Turns!Statuses \cup {"error"}

\* And as long as the end of a channel is not the end of the log.
TurnsDelivered(h) ==
    /\ turnsHpc[h] \in {"hello", "gone"} => turnsQ[h] = <<>>
    /\ turnsQ[h] # <<>> =>
           \/ TurnsOwes
           \/ /\ turnsLog # <<>>
              /\ \/ turnsQ[h][Len(turnsQ[h])] = turnsLog[Len(turnsLog)]
                 \/ ~Turns!Broadcast(turnsLog[Len(turnsLog)])

-----------------------------------------------------------------------------
\* Turns have numbers of their own.
TurnsNumbered ==
    /\ \A h \in TurnsHandlers : turnsTurn[h] <= turnsTurns
    /\ \A g, h \in TurnsHandlers : g # h /\ turnsTurn[h] # 0 => turnsTurn[g] # turnsTurn[h]
    /\ \A i \in 1..Len(turnsLog) : turnsLog[i].of \notin turnsTurns + 1 .. TurnsMaxTurns

\* What has been said of a turn when its prompt is built.
TurnsAsked(h) ==
    LET t == turnsTurn[h]
        of == {i \in 1..Len(turnsLog) : turnsLog[i].of = t} IN
    turnsHpc[h] = "context" =>
        /\ turnsOut[h] = <<Turns!Ev("user", t), Turns!Ev("thinking", t)>> => of = {}
        /\ turnsOut[h] = <<Turns!Ev("thinking", t)>> =>
             \E i \in of : turnsLog[i] = Turns!Ev("user", t) /\ of = {i}
        /\ turnsOut[h] = <<>> =>
               \E i, k \in of :
                   /\ i < k /\ of = {i, k}
                   /\ turnsLog[i] = Turns!Ev("user", t) /\ turnsLog[k] = Turns!Ev("thinking", t)

-----------------------------------------------------------------------------
\* Nobody but a has or says anything of call c.
TurnsFree(a, c) ==
    /\ \A k \in 1..Len(turnsOut[a]) : turnsOut[a][k].of = c => turnsOut[a][k].kind = "canceled"
    /\ a \in TurnsHandlers => turnsCur[a] # c
TurnsOnly(a, c) == \A b \in Turns!Actors \ {a} : TurnsFree(b, c)

\* The log has the first n events of the life of c, and its outputs.
TurnsTold(c, n) ==
    /\ \A i \in 1..Len(turnsLog) : turnsLog[i].of = c =>
           turnsLog[i].kind \in {"output", "canceled"} \/
             \E k \in 1..n : turnsLog[i] = Turns!Ev(Turns!Life[k], c)
    /\ \A k \in 1..n : \E i \in 1..Len(turnsLog) : turnsLog[i] = Turns!Ev(Turns!Life[k], c)
    /\ \A i, j \in 1..Len(turnsLog), k, l \in 1..n :
           turnsLog[i] = Turns!Ev(Turns!Life[k], c) /\ turnsLog[j] = Turns!Ev(Turns!Life[l], c) /\
             k <= l => i <= j
    /\ \A i, j \in 1..Len(turnsLog), k \in 1..n :
           turnsLog[i].of = c /\ turnsLog[i].kind = "output" /\
             turnsLog[j] = Turns!Ev(Turns!Life[k], c) =>
               (k <= 2 => j < i) /\ (k >= 3 => i < j)
    /\ \A i \in 1..Len(turnsLog) : turnsLog[i].of = c /\ turnsLog[i].kind = "output" => n >= 2

TurnsWhole(c) ==
    \/ turnsCs[c] = "unused" /\ TurnsTold(c, 0) /\ \A a \in Turns!Actors : TurnsFree(a, c)
    \/ \E h \in TurnsHandlers :
           /\ turnsCs[c] = IF turnsHpc[h] = "tool" THEN "sync" ELSE "spawned"
           /\ turnsCur[h] = c /\ TurnsOnly(h, c)
           /\ TurnsTold(c, IF turnsOut[h] = Turns!Announced(c) THEN 0
                      ELSE IF turnsOut[h] = <<Turns!Ev("running", c)>> THEN 1 ELSE 2)
    \/ turnsCs[c] \in {"spawned", "registered"} /\ TurnsOnly(c, c) /\ TurnsTold(c, 2)
    \/ turnsCs[c] = "ended" /\ TurnsOnly(c, c) /\ TurnsTold(c, 4 - Len(turnsOut[c]))
    \/ \E h \in TurnsHandlers :
           /\ turnsCs[c] = "done" /\ turnsHpc[h] = "tools" /\ TurnsOnly(h, c)
           /\ turnsOut[h] \in {<<Turns!Ev("idle", c)>>, <<Turns!Ev("result", c), Turns!Ev("idle",
                c)>>}
           /\ TurnsTold(c, 4 - Len(turnsOut[h]))
    \/ turnsCs[c] = "done" /\ TurnsTold(c, 4) /\ \A a \in Turns!Actors : TurnsFree(a, c)

TurnsInv ==
    /\ Turns!TypeOK /\ TurnsShaped /\ TurnsFollowed /\ TurnsNumbered
    /\ \A h \in TurnsHandlers : TurnsDelivered(h) /\ TurnsAsked(h)
    /\ \A c \in TurnsCalls : TurnsWhole(c)

-----------------------------------------------------------------------------
\* Events.
LEMMA TurnsEvTyped ==
    ASSUME TurnsBounds, NEW kind \in Turns!Kinds, NEW of \in 0..TurnsMaxTurns \cup TurnsCalls
    PROVE  Turns!Ev(kind, of) \in Turns!Events
  BY DEF TurnsBounds, Turns!Events, Turns!Ev

LEMMA TurnsPieceTyped ==
    ASSUME TurnsBounds, NEW kind \in Turns!Kinds, NEW of \in 0..TurnsMaxTurns \cup TurnsCalls,
           turnsSaid \in 0..TurnsMaxSaid, turnsSaid < TurnsMaxSaid
    PROVE  Turns!Piece(kind, of) \in Turns!Events
  BY DEF TurnsBounds, Turns!Events, Turns!Piece

LEMMA TurnsEventFields ==
    /\ \A kind, of : Turns!Ev(kind, of).kind = kind /\ Turns!Ev(kind, of).of = of /\
         Turns!Ev(kind, of).n = 0
    /\ \A kind, of : Turns!Piece(kind, of).kind = kind /\ Turns!Piece(kind, of).of = of
    /\ \A e \in Turns!Events : e.kind \in Turns!Kinds /\ e.of \in 0..TurnsMaxTurns \cup TurnsCalls
  BY DEF Turns!Ev, Turns!Piece, Turns!Events

\* A queue, and a queue and one more.
LEMMA TurnsGrown ==
    ASSUME NEW S, NEW s \in Seq(S), NEW e \in S
    PROVE  /\ Append(s, e) \in Seq(S) /\ Len(Append(s, e)) = Len(s) + 1
           /\ Append(s, e) # <<>> /\ Append(s, e)[Len(s) + 1] = e
           /\ \A i \in 1..Len(s) : Append(s, e)[i] = s[i]
  OBVIOUS

LEMMA TurnsShrunk ==
    ASSUME NEW S, NEW s \in Seq(S), s # <<>>
    PROVE  /\ Head(s) \in S /\ Head(s) = s[1] /\ Tail(s) \in Seq(S)
           /\ Len(s) \in Nat \ {0} /\ Len(Tail(s)) = Len(s) - 1
           /\ \A i \in 1..Len(s) - 1 : Tail(s)[i] = s[i + 1]
  OBVIOUS

\* The sequences of events the handlers begin with.
LEMMA TurnsShort ==
    /\ <<>> \in Seq(Turns!Events)
    /\ \A e \in Turns!Events : <<e>> \in Seq(Turns!Events)
    /\ \A e, f \in Turns!Events : <<e, f>> \in Seq(Turns!Events)
  OBVIOUS

\* sendDropOldest keeps the newest.
LEMMA TurnsOffered ==
    ASSUME TurnsBounds, NEW s \in Seq(Turns!Events), NEW e \in Turns!Events, Len(s) <= TurnsCap
    PROVE  /\ Turns!Offer(s, e) \in Seq(Turns!Events) /\ Len(Turns!Offer(s, e)) <= TurnsCap
           /\ Turns!Offer(s, e) # <<>> /\ Turns!Offer(s, e)[Len(Turns!Offer(s, e))] = e
  <1>1. CASE Len(s) < TurnsCap
    BY <1>1, TurnsGrown DEF Turns!Offer, TurnsBounds
  <1>2. CASE ~(Len(s) < TurnsCap)
    <2>1. s # <<>> /\ Len(s) \in Nat
      BY <1>2 DEF TurnsBounds
    <2>2. Tail(s) \in Seq(Turns!Events) /\ Len(Tail(s)) = Len(s) - 1
      BY <2>1, TurnsShrunk
    <2>3. QED
      BY <1>2, <2>1, <2>2, TurnsGrown DEF Turns!Offer, TurnsBounds
  <1>3. QED
    BY <1>1, <1>2

-----------------------------------------------------------------------------
(* Types.                                                                  *)

LEMMA TurnsCardinalityTyped ==
    ASSUME TurnsBounds PROVE Turns!Cardinality(TurnsCalls) \in Nat
  <1>1. Turns!Cardinality(TurnsCalls) = Cardinality(TurnsCalls)
    BY Zenon DEF Turns!Cardinality, Cardinality
  <1>2. QED
    BY <1>1, FS_CardinalityType DEF TurnsBounds

LEMMA TurnsInitTypes == TurnsBounds /\ Turns!Init => Turns!TypeOK
  <1>1. SUFFICES ASSUME TurnsBounds, Turns!Init PROVE Turns!TypeOK
    OBVIOUS
  <1>2. Turns!Cardinality(TurnsCalls) \in Nat
    BY <1>1, TurnsCardinalityTyped
  <1>3. /\ turnsLog \in Seq(Turns!Events) /\ turnsOut \in [Turns!Actors -> Seq(Turns!Events)] /\
             turnsWire = turnsQ
        /\ turnsQ \in [TurnsHandlers -> Seq(Turns!Events)] /\
             \A h \in TurnsHandlers : Len(turnsQ[h]) <= TurnsCap
    BY <1>1, TurnsShort DEF TurnsBounds, TurnsOldIsOver, Turns!Init
  <1>4. /\ turnsInbox \in [TurnsHandlers -> Seq(Turns!Messages)] /\
             turnsLeft \in SUBSET TurnsHandlers
        /\ turnsPrompt \in [TurnsHandlers -> SUBSET Nat]
    BY <1>1 DEF Turns!Init
  <1>5. /\ turnsTurn \in [TurnsHandlers -> 0..TurnsMaxTurns] /\ turnsTurns \in 0..TurnsMaxTurns
        /\ turnsIter \in [TurnsHandlers -> 0..TurnsMaxIters] /\
             turnsMore \in [TurnsHandlers -> 0..Turns!Cardinality(TurnsCalls)]
        /\ turnsSaid \in 0..TurnsMaxSaid /\ turnsAsked \in 0..TurnsMaxAsked
    BY <1>1, <1>2 DEF TurnsBounds, Turns!Init
  <1>6. QED
    BY <1>1, <1>3, <1>4, <1>5 DEF Turns!Init, Turns!TypeOK

LEMMA TurnsSayTypes ==
    ASSUME TurnsBounds, Turns!TypeOK, NEW a \in Turns!Actors, Turns!Say(a)
    PROVE  Turns!TypeOK'
  <1>1. /\ Head(turnsOut[a]) \in Turns!Events /\ Tail(turnsOut[a]) \in Seq(Turns!Events)
    BY TurnsShrunk DEF Turns!TypeOK, Turns!Say
  <1>2. turnsLog' \in Seq(Turns!Events)
    BY <1>1, TurnsGrown DEF Turns!TypeOK, Turns!Say
  <1>3. turnsOut' \in [Turns!Actors -> Seq(Turns!Events)]
    BY <1>1 DEF Turns!TypeOK, Turns!Say
  <1>4. turnsQ' \in [TurnsHandlers -> Seq(Turns!Events)] /\
          \A h \in TurnsHandlers : Len(turnsQ'[h]) <= TurnsCap
    <2>1. \A h \in TurnsHandlers : Turns!Offer(turnsQ[h], Head(turnsOut[a])) \in Seq(Turns!Events)
                               /\ Len(Turns!Offer(turnsQ[h], Head(turnsOut[a]))) <= TurnsCap
      BY <1>1, TurnsOffered DEF Turns!TypeOK
    <2>2. QED
      BY <2>1 DEF Turns!TypeOK, Turns!Say
  <1>5. QED
    BY <1>2, <1>3, <1>4 DEF Turns!TypeOK, Turns!Say, Turns!turnVars, Turns!callVars

TurnsPlaces == {"hello", "loop", "context", "generate", "tools", "tool", "spawn", "gone"}

LEMMA TurnsWent ==
    ASSUME Turns!TypeOK, NEW h \in TurnsHandlers, NEW p \in TurnsPlaces,
             NEW evs \in Seq(Turns!Events), Turns!Goes(h, p, evs)
    PROVE  turnsOut' \in [Turns!Actors -> Seq(Turns!Events)] /\
             turnsHpc' \in [TurnsHandlers -> TurnsPlaces]
  BY DEF Turns!TypeOK, Turns!Goes, Turns!Actors, TurnsPlaces

\* The loop of a handler.
LEMMA TurnsLoopTypes ==
    ASSUME TurnsBounds, Turns!TypeOK, TurnsShaped, NEW h \in TurnsHandlers, Turns!Loop(h)
    PROVE  Turns!TypeOK'
  <1>0. turnsTurn[h] \in 0..TurnsMaxTurns /\ h \in Turns!Actors
    BY DEF Turns!TypeOK, Turns!Actors
  <1>1. CASE Turns!Hello(h)
    BY <1>0, <1>1 DEF Turns!TypeOK, Turns!Hello, Turns!At, Turns!Goes, Turns!turnVars,
       Turns!callVars
  <1>2. CASE Turns!Forward(h)
    <2>1. Head(turnsQ[h]) \in Turns!Events /\ Tail(turnsQ[h]) \in Seq(Turns!Events) /\
            Len(Tail(turnsQ[h])) <= TurnsCap
      BY <1>2, TurnsShrunk DEF Turns!TypeOK, Turns!Forward, TurnsBounds
    <2>2. Append(turnsWire[h], Head(turnsQ[h])) \in Seq(Turns!Events)
      BY <2>1, TurnsGrown DEF Turns!TypeOK
    <2>3. QED
      BY <1>2, <2>1, <2>2 DEF Turns!TypeOK, Turns!Forward, Turns!turnVars, Turns!callVars
  <1>3. CASE Turns!Return(h)
    BY <1>0, <1>3, SMTT(60) DEF Turns!TypeOK, Turns!Return, Turns!At, Turns!Goes, Turns!turnVars,
       Turns!callVars, TurnsBounds
  <1>4. CASE Turns!OnUserMessage(h)
    <2>1. turnsTurns + 1 \in 0..TurnsMaxTurns
      BY <1>4 DEF Turns!TypeOK, Turns!OnUserMessage, TurnsBounds
    <2>2. /\ Turns!Ev("user", turnsTurns + 1) \in Turns!Events /\
               Turns!Ev("assistant", turnsTurns + 1) \in Turns!Events
          /\ Turns!Ev("error", turnsTurns + 1) \in Turns!Events /\
               Turns!Ev("thinking", turnsTurns + 1) \in Turns!Events
      BY <2>1, TurnsEvTyped DEF Turns!Kinds
    <2>3. Tail(turnsInbox[h]) \in Seq(Turns!Messages)
      BY <1>4, TurnsShrunk DEF Turns!TypeOK, Turns!OnUserMessage, Turns!Takes
    <2>4. /\ turnsOut' \in [Turns!Actors -> Seq(Turns!Events)]
          /\ turnsHpc' \in [TurnsHandlers -> TurnsPlaces]
      <3>1. \E p \in {"loop", "context"}, evs \in Seq(Turns!Events) : Turns!Goes(h, p, evs)
        BY <1>4, <2>2, TurnsShort, Zenon DEF Turns!OnUserMessage
      <3>2. QED
        BY <3>1, TurnsWent DEF TurnsPlaces
    <2>5. turnsInbox' \in [TurnsHandlers -> Seq(Turns!Messages)]
      BY <1>4, <2>3 DEF Turns!TypeOK, Turns!OnUserMessage, Turns!Takes
    <2>6. turnsTurn' \in [TurnsHandlers -> 0..TurnsMaxTurns] /\ turnsTurns' \in 0..TurnsMaxTurns
      BY <1>4, <2>1 DEF Turns!TypeOK, Turns!OnUserMessage
    <2>7. QED
      BY <1>4, <2>4, <2>5, <2>6, Zenon DEF Turns!TypeOK, Turns!OnUserMessage, Turns!callVars,
         TurnsPlaces
  <1>5. CASE Turns!OnToolInvokeRefused(h)
    <2>1. Turns!Ev("error", turnsTurn[h]) \in Turns!Events
      BY <1>0, TurnsEvTyped DEF Turns!Kinds
    <2>2. Tail(turnsInbox[h]) \in Seq(Turns!Messages)
      BY <1>5, TurnsShrunk DEF Turns!TypeOK, Turns!OnToolInvokeRefused, Turns!Takes
    <2>3. QED
      BY <1>0, <1>5, <2>1, <2>2, TurnsShort, TurnsWent
         DEF TurnsPlaces, Turns!TypeOK, Turns!OnToolInvokeRefused, Turns!Takes, Turns!turnVars,
         Turns!callVars
  <1>6. CASE Turns!Spawn(h)
    BY <1>0, <1>6 DEF Turns!TypeOK, Turns!Spawn, Turns!At, Turns!Goes, Turns!turnVars,
       Turns!callVars
  <1>7. CASE Turns!OnCancel(h)
    <2>1. Head(turnsInbox[h]) \in Turns!Messages /\ Tail(turnsInbox[h]) \in Seq(Turns!Messages)
      BY <1>7, TurnsShrunk DEF Turns!TypeOK, Turns!OnCancel, Turns!Takes
    <2>2. Head(turnsInbox[h]).of \in TurnsCalls \cup {TurnsNoCall}
      BY <2>1 DEF Turns!Messages
    <2>3. Head(turnsInbox[h]).of \in TurnsCalls =>
            Turns!Ev("canceled", Head(turnsInbox[h]).of) \in Turns!Events
      BY TurnsEvTyped DEF Turns!Kinds
    <2>4. QED
      <3>1. \E evs \in Seq(Turns!Events) : Turns!Goes(h, "loop", evs)
        BY <1>7, <2>2, <2>3, TurnsShort, Zenon DEF Turns!OnCancel
      <3>2. turnsCanceled' \in SUBSET TurnsCalls
        BY <1>7, <2>2 DEF Turns!TypeOK, Turns!OnCancel
      <3>3. QED
        BY <1>7, <2>1, <3>1, <3>2, TurnsWent DEF TurnsPlaces, Turns!TypeOK, Turns!OnCancel,
           Turns!Takes, Turns!turnVars
  <1>8. CASE \E c \in TurnsCalls : Turns!OnToolInvoke(h, c)
    <2>1. PICK c \in TurnsCalls : Turns!OnToolInvoke(h, c)
      BY <1>8
    <2>2. Turns!Ev("started", c) \in Turns!Events /\ Turns!Ev("running", c) \in Turns!Events
      BY TurnsEvTyped DEF Turns!Kinds
    <2>3. Tail(turnsInbox[h]) \in Seq(Turns!Messages)
      BY <2>1, TurnsShrunk DEF Turns!TypeOK, Turns!OnToolInvoke, Turns!Takes
    <2>4. QED
      BY <2>1, <2>2, <2>3, TurnsShort, TurnsWent DEF TurnsPlaces, Turns!TypeOK, Turns!OnToolInvoke,
         Turns!Takes, Turns!Announced, Turns!turnVars
  <1>9. QED
    BY <1>1, <1>2, <1>3, <1>4, <1>5, <1>6, <1>7, <1>8 DEF Turns!Loop

\* A turn.
LEMMA TurnsTurnTypes ==
    ASSUME TurnsBounds, Turns!TypeOK, TurnsShaped, NEW h \in TurnsHandlers, Turns!Turn(h)
    PROVE  Turns!TypeOK'
  <1>0. /\ turnsTurn[h] \in 0..TurnsMaxTurns /\ h \in Turns!Actors
        /\ turnsHpc[h] = "tool" => turnsCur[h] \in TurnsCalls /\ turnsMore[h] > 0
        /\ Turns!Cardinality(TurnsCalls) \in Nat
    BY TurnsCardinalityTyped DEF Turns!TypeOK, Turns!Actors, TurnsShaped, TurnsInCall
  <1>1. /\ Turns!Ev("error", turnsTurn[h]) \in Turns!Events /\
             Turns!Ev("idle", turnsTurn[h]) \in Turns!Events
        /\ Turns!Ev("assistant", turnsTurn[h]) \in Turns!Events
    BY <1>0, TurnsEvTyped DEF Turns!Kinds
  <1>2. CASE Turns!BuildMessages(h)
    <2>1. Turns!Window \in SUBSET Nat
      BY DEF Turns!Window, Turns!TypeOK
    <2>2. QED
      BY <1>0, <1>2, <2>1, SMTT(60) DEF Turns!TypeOK, Turns!BuildMessages, Turns!At, Turns!Goes,
         Turns!callVars, TurnsBounds
  <1>3. CASE Turns!BuildMessagesFails(h)
    <2>1. \E evs \in Seq(Turns!Events) : Turns!Goes(h, "loop", evs)
      BY <1>1, <1>3, TurnsShort, Zenon DEF Turns!BuildMessagesFails
    <2>2. QED
      BY <1>3, <2>1, TurnsWent DEF TurnsPlaces, Turns!TypeOK, Turns!BuildMessagesFails,
         Turns!turnVars, Turns!callVars
  <1>4. CASE Turns!GenerateDelta(h)
    <2>1. Turns!Piece("delta", turnsTurn[h]) \in Turns!Events
      BY <1>0, <1>4, TurnsPieceTyped DEF Turns!Kinds, Turns!TypeOK, Turns!GenerateDelta
    <2>2. QED
      <3>1. turnsSaid' \in 0..TurnsMaxSaid
        BY <1>4 DEF Turns!TypeOK, Turns!GenerateDelta, TurnsBounds
      <3>2. QED
        BY <1>4, <2>1, <3>1, TurnsShort, TurnsWent DEF TurnsPlaces, Turns!TypeOK,
           Turns!GenerateDelta, Turns!turnVars, Turns!callVars
  <1>5. CASE Turns!GenerateFails(h)
    <2>1. \E evs \in Seq(Turns!Events) : Turns!Goes(h, "loop", evs)
      BY <1>1, <1>5, TurnsShort, Zenon DEF Turns!GenerateFails, Turns!Idle
    <2>2. QED
      BY <1>5, <2>1, TurnsWent DEF TurnsPlaces, Turns!TypeOK, Turns!GenerateFails, Turns!turnVars,
         Turns!callVars
  <1>6. CASE Turns!Answer(h)
    <2>1. \E evs \in Seq(Turns!Events) : Turns!Goes(h, "loop", evs)
      BY <1>1, <1>6, TurnsShort, Zenon DEF Turns!Answer, Turns!Idle
    <2>2. QED
      BY <1>6, <2>1, TurnsWent DEF TurnsPlaces, Turns!TypeOK, Turns!Answer, Turns!turnVars,
         Turns!callVars
  <1>7. CASE \E n \in 1..Turns!Cardinality(TurnsCalls) : Turns!AskForTools(h, n)
    BY <1>0, <1>7, SMTT(60) DEF Turns!TypeOK, Turns!AskForTools, Turns!At, Turns!Goes,
       Turns!callVars
  <1>8. CASE \E c \in TurnsCalls : Turns!SyncTool(h, c)
    <2>1. PICK c \in TurnsCalls : Turns!SyncTool(h, c)
      BY <1>8
    <2>2. Turns!Ev("started", c) \in Turns!Events /\ Turns!Ev("running", c) \in Turns!Events
      BY TurnsEvTyped DEF Turns!Kinds
    <2>3. turnsCs' \in [TurnsCalls -> {"unused", "sync", "spawned", "registered", "ended", "done"}]
      BY <2>1 DEF Turns!TypeOK, Turns!SyncTool
    <2>4. turnsCur' \in [TurnsHandlers -> TurnsCalls \cup {TurnsNoCall}]
      BY <2>1 DEF Turns!TypeOK, Turns!SyncTool
    <2>5. \E evs \in Seq(Turns!Events) : Turns!Goes(h, "tool", evs)
      BY <2>1, <2>2, TurnsShort, Zenon DEF Turns!SyncTool, Turns!Announced
    <2>6. QED
      BY <2>1, <2>3, <2>4, <2>5, TurnsWent DEF TurnsPlaces, Turns!TypeOK, Turns!SyncTool,
         Turns!turnVars
  <1>9. CASE Turns!SyncToolRefused(h)
    <2>1. turnsMore' \in [TurnsHandlers -> 0..Turns!Cardinality(TurnsCalls)]
      BY <1>0, <1>9 DEF Turns!TypeOK, Turns!SyncToolRefused
    <2>2. QED
      BY <1>9, <2>1 DEF Turns!TypeOK, Turns!SyncToolRefused, Turns!callVars
  <1>10. CASE Turns!SyncToolOutput(h)
    <2>1. Turns!Piece("output", turnsCur[h]) \in Turns!Events
      BY <1>0, <1>10, TurnsPieceTyped DEF Turns!Kinds, Turns!TypeOK, Turns!SyncToolOutput, Turns!At
    <2>2. QED
      BY <1>0, <1>10, <2>1 DEF Turns!TypeOK, Turns!SyncToolOutput, Turns!At, Turns!Goes,
         Turns!turnVars, Turns!callVars, TurnsBounds
  <1>11. CASE Turns!SyncToolEnds(h)
    <2>1. Turns!Ev("result", turnsCur[h]) \in Turns!Events /\
            Turns!Ev("idle", turnsCur[h]) \in Turns!Events
      BY <1>0, <1>11, TurnsEvTyped DEF Turns!Kinds, Turns!SyncToolEnds, Turns!At
    <2>2. QED
      <3>1. turnsMore' \in [TurnsHandlers -> 0..Turns!Cardinality(TurnsCalls)]
        BY <1>0, <1>11 DEF Turns!TypeOK, Turns!SyncToolEnds, Turns!At
      <3>2. turnsCs' \in [TurnsCalls -> {"unused", "sync", "spawned", "registered", "ended",
              "done"}]
        BY <1>0, <1>11 DEF Turns!TypeOK, Turns!SyncToolEnds, Turns!At
      <3>3. turnsCur' \in [TurnsHandlers -> TurnsCalls \cup {TurnsNoCall}]
        BY <1>0, <1>11 DEF Turns!TypeOK, Turns!SyncToolEnds, Turns!At
      <3>4. \E evs \in Seq(Turns!Events) : Turns!Goes(h, "tools", evs)
        BY <1>11, <2>1, TurnsShort, Zenon DEF Turns!SyncToolEnds
      <3>5. QED
        BY <1>11, <3>1, <3>2, <3>3, <3>4, TurnsWent DEF TurnsPlaces, Turns!TypeOK,
           Turns!SyncToolEnds
  <1>12. CASE Turns!ToolsDone(h)
    <2>1. turnsIter' \in [TurnsHandlers -> 0..TurnsMaxIters]
      <3>1. turnsIter[h] < TurnsMaxIters =>
              [turnsIter EXCEPT ![h] = @ + 1] \in [TurnsHandlers -> 0..TurnsMaxIters]
        BY DEF Turns!TypeOK, TurnsBounds
      <3>2. turnsIter' = turnsIter \/ (turnsIter[h] < TurnsMaxIters /\
              turnsIter' = [turnsIter EXCEPT ![h] = @ + 1])
        BY <1>12, Zenon DEF Turns!ToolsDone
      <3>3. QED
        BY <3>1, <3>2 DEF Turns!TypeOK
    <2>2. \E p \in {"generate", "loop"}, evs \in Seq(Turns!Events) : Turns!Goes(h, p, evs)
      BY <1>1, <1>12, TurnsShort, Zenon DEF Turns!ToolsDone, Turns!Idle
    <2>3. QED
      BY <1>12, <2>1, <2>2, TurnsWent DEF TurnsPlaces, Turns!TypeOK, Turns!ToolsDone, Turns!callVars
  <1>13. QED
    BY <1>2, <1>3, <1>4, <1>5, <1>6, <1>7, <1>8, <1>9, <1>10, <1>11, <1>12 DEF Turns!Turn

\* The goroutine of a call.
LEMMA TurnsCallTypes ==
    ASSUME TurnsBounds, Turns!TypeOK, NEW c \in TurnsCalls, Turns!ToolCall(c)
    PROVE  Turns!TypeOK'
  <1>0. c \in Turns!Actors
    BY DEF Turns!Actors
  <1>1. CASE Turns!Register(c)
    BY <1>1 DEF Turns!TypeOK, Turns!Register, Turns!turnVars
  <1>2. CASE Turns!ToolOutput(c)
    <2>1. Turns!Piece("output", c) \in Turns!Events
      BY <1>2, TurnsPieceTyped DEF Turns!Kinds, Turns!TypeOK, Turns!ToolOutput
    <2>2. QED
      BY <1>0, <1>2, <2>1 DEF Turns!TypeOK, Turns!ToolOutput, Turns!turnVars, Turns!callVars,
         TurnsBounds
  <1>3. CASE Turns!ToolEnds(c)
    <2>1. Turns!Ev("result", c) \in Turns!Events /\ Turns!Ev("idle", c) \in Turns!Events
      BY TurnsEvTyped DEF Turns!Kinds
    <2>2. QED
      BY <1>0, <1>3, <2>1 DEF Turns!TypeOK, Turns!ToolEnds, Turns!turnVars
  <1>4. CASE Turns!Unregister(c)
    BY <1>4 DEF Turns!TypeOK, Turns!Unregister, Turns!turnVars
  <1>5. QED
    BY <1>1, <1>2, <1>3, <1>4 DEF Turns!ToolCall

\* A client.
LEMMA TurnsClientTypes ==
    ASSUME TurnsBounds, Turns!TypeOK, NEW h \in TurnsHandlers, Turns!AnyClient(h)
    PROVE  Turns!TypeOK'
  <1>1. CASE \E m \in Turns!Messages : Turns!ClientSends(h, m)
    <2>1. PICK m \in Turns!Messages : Turns!ClientSends(h, m)
      BY <1>1
    <2>2. Append(turnsInbox[h], m) \in Seq(Turns!Messages)
      BY TurnsGrown DEF Turns!TypeOK
    <2>3. QED
      BY <2>1, <2>2 DEF Turns!TypeOK, Turns!ClientSends, Turns!turnVars, Turns!callVars, TurnsBounds
  <1>2. CASE Turns!ClientReceives(h)
    <2>1. Tail(turnsWire[h]) \in Seq(Turns!Events)
      BY <1>2, TurnsShrunk DEF Turns!TypeOK, Turns!ClientReceives
    <2>2. QED
      BY <1>2, <2>1 DEF Turns!TypeOK, Turns!ClientReceives, Turns!turnVars, Turns!callVars
  <1>3. CASE Turns!ClientLeaves(h)
    BY <1>3, SMTT(60) DEF Turns!TypeOK, Turns!ClientLeaves, Turns!turnVars, Turns!callVars
  <1>4. QED
    BY <1>1, <1>2, <1>3 DEF Turns!AnyClient

-----------------------------------------------------------------------------
(* What a step that appends nothing leaves alone.                          *)

\* Of the actors only a moves.
TurnsMoves(a) ==
    /\ UNCHANGED <<turnsLlm, turnsLog>>
    /\ \A b \in Turns!Actors : b # a => turnsOut'[b] = turnsOut[b]
    /\ \A g \in TurnsHandlers : g # a =>
           /\ turnsHpc'[g] = turnsHpc[g] /\ turnsCur'[g] = turnsCur[g]
           /\ turnsTurn'[g] = turnsTurn[g] /\ turnsMore'[g] = turnsMore[g]

\* What is left in a channel ends as before.
TurnsKeepsEnds ==
    \A h \in TurnsHandlers :
        /\ turnsQ'[h] # <<>> =>
             turnsQ[h] # <<>> /\ turnsQ'[h][Len(turnsQ'[h])] = turnsQ[h][Len(turnsQ[h])]
        /\ turnsHpc'[h] \in {"hello", "gone"} => turnsQ'[h] = <<>>

TurnsTurnAt == {"context", "generate", "tools", "tool"}

LEMMA TurnsShapeFrame ==
    ASSUME TurnsBounds, TurnsShaped, NEW h \in TurnsHandlers, TurnsMoves(h),
           TurnsInTurn(h)' /\ TurnsInLoop(h)' /\ TurnsInCall(h)',
           \A c \in TurnsCalls :
               \/ turnsCs'[c] = turnsCs[c]
               \/ turnsCs[c] \in {"unused", "sync"} /\ turnsCs'[c] \in {"sync", "spawned", "done"}
    PROVE  TurnsShaped'
  <1>1. \A g \in TurnsHandlers : g # h => TurnsInTurn(g)' /\ TurnsInLoop(g)' /\ TurnsInCall(g)'
    <2>1. SUFFICES ASSUME NEW g \in TurnsHandlers, g # h
      PROVE TurnsInTurn(g)' /\ TurnsInLoop(g)' /\ TurnsInCall(g)'
      OBVIOUS
    <2>2. /\ turnsOut'[g] = turnsOut[g] /\ turnsHpc'[g] = turnsHpc[g] /\
               turnsCur'[g] = turnsCur[g] /\ turnsTurn'[g] = turnsTurn[g]
          /\ turnsMore'[g] = turnsMore[g]
      BY <2>1 DEF TurnsMoves, Turns!Actors
    <2>3. \A c \in TurnsCalls : turnsCs[c] = "done" => turnsCs'[c] = "done"
      OBVIOUS
    <2>4. TurnsInTurn(g)'
      BY <2>2, <2>3 DEF TurnsShaped, TurnsInTurn
    <2>5. TurnsInLoop(g)' /\ TurnsInCall(g)'
      BY <2>2 DEF TurnsShaped, TurnsInLoop, TurnsInCall
    <2>6. QED
      BY <2>4, <2>5
  <1>2. \A c \in TurnsCalls : TurnsInTool(c)'
    <2>1. SUFFICES ASSUME NEW c \in TurnsCalls PROVE TurnsInTool(c)'
      OBVIOUS
    <2>2. turnsOut'[c] = turnsOut[c]
      BY DEF TurnsMoves, Turns!Actors, TurnsBounds
    <2>3. TurnsInTool(c)
      BY DEF TurnsShaped
    <2>4. QED
      BY <2>2, <2>3 DEF TurnsInTool
  <1>3. QED
    BY <1>1, <1>2 DEF TurnsShaped

LEMMA TurnsShapeFrameCall ==
    ASSUME TurnsBounds, TurnsShaped, NEW c \in TurnsCalls, TurnsMoves(c), TurnsInTool(c)',
           \A b \in TurnsCalls : b # c => turnsCs'[b] = turnsCs[b],
           turnsCs[c] = "done" => turnsCs'[c] = "done"
    PROVE  TurnsShaped'
  <1>1. \A g \in TurnsHandlers :
            /\ turnsOut'[g] = turnsOut[g] /\ turnsHpc'[g] = turnsHpc[g] /\
                 turnsCur'[g] = turnsCur[g]
            /\ turnsTurn'[g] = turnsTurn[g] /\ turnsMore'[g] = turnsMore[g]
    BY DEF TurnsMoves, Turns!Actors, TurnsBounds
  <1>2. \A b \in TurnsCalls : turnsCs[b] = "done" => turnsCs'[b] = "done"
    OBVIOUS
  <1>3. \A g \in TurnsHandlers : TurnsInTurn(g)'
    BY <1>1, <1>2 DEF TurnsShaped, TurnsInTurn
  <1>4. \A g \in TurnsHandlers : TurnsInLoop(g)' /\ TurnsInCall(g)'
    BY <1>1 DEF TurnsShaped, TurnsInLoop, TurnsInCall
  <1>5. \A b \in TurnsCalls : b # c => TurnsInTool(b)'
    BY DEF TurnsShaped, TurnsInTool, TurnsMoves, Turns!Actors
  <1>6. QED
    BY <1>3, <1>4, <1>5 DEF TurnsShaped

\* The end of the log and of the channels.
LEMMA TurnsEndFrame ==
    ASSUME TurnsFollowed, \A h \in TurnsHandlers : TurnsDelivered(h), UNCHANGED <<turnsLlm,
             turnsLog>>, TurnsKeepsEnds,
           TurnsOwes => TurnsOwes'
    PROVE  TurnsFollowed' /\ \A h \in TurnsHandlers : TurnsDelivered(h)'
  <1>1. TurnsFollowed'
    BY DEF TurnsFollowed
  <1>2. ASSUME NEW h \in TurnsHandlers PROVE TurnsDelivered(h)'
    BY <1>2 DEF TurnsDelivered, TurnsKeepsEnds, Turns!Broadcast
  <1>3. QED
    BY <1>1, <1>2

LEMMA TurnsOwesFrame ==
    ASSUME TurnsBounds, NEW a \in Turns!Actors, TurnsMoves(a), TurnsPromises(a) =>
             TurnsPromises(a)',
           a \in TurnsHandlers /\ turnsHpc[a] \in TurnsTurnAt =>
             turnsHpc'[a] \in TurnsTurnAt \/ TurnsPromises(a)',
           \A c \in TurnsCalls : turnsCs[c] \in {"spawned", "registered"} =>
               turnsCs'[c] \in {"spawned", "registered"} \/ TurnsPromises(c)'
    PROVE  TurnsOwes => TurnsOwes'
  <1>1. \A b \in Turns!Actors : b # a /\ TurnsPromises(b) => TurnsPromises(b)'
    BY DEF TurnsPromises, TurnsMoves
  <1>2. CASE \E b \in Turns!Actors : TurnsPromises(b)
    BY <1>1, <1>2 DEF TurnsOwes
  <1>3. CASE \E c \in TurnsCalls : turnsCs[c] \in {"spawned", "registered"}
    BY <1>3 DEF TurnsOwes, Turns!Actors
  <1>4. CASE \E h \in TurnsHandlers : turnsHpc[h] \in TurnsTurnAt
    BY <1>4 DEF TurnsOwes, TurnsTurnAt, TurnsMoves, Turns!Actors
  <1>5. QED
    BY <1>2, <1>3, <1>4 DEF TurnsOwes, TurnsTurnAt

\* What was said of a turn, and of a call.
LEMMA TurnsAskedFrame ==
    ASSUME NEW h \in TurnsHandlers, TurnsAsked(h), turnsLog' = turnsLog,
           turnsHpc'[h] = turnsHpc[h] /\ turnsOut'[h] = turnsOut[h] /\ turnsTurn'[h] = turnsTurn[h]
    PROVE  TurnsAsked(h)'
  BY DEF TurnsAsked

LEMMA TurnsToldFrame ==
    ASSUME NEW c, NEW n, TurnsTold(c, n), turnsLog' = turnsLog
    PROVE  TurnsTold(c, n)'
  BY DEF TurnsTold

LEMMA TurnsFreeFrame ==
    ASSUME NEW a, NEW c, TurnsFree(a, c), turnsOut'[a] = turnsOut[a], a \in TurnsHandlers =>
             turnsCur'[a] = turnsCur[a]
    PROVE  TurnsFree(a, c)'
  BY DEF TurnsFree

LEMMA TurnsWholeFrame ==
    ASSUME TurnsBounds, NEW c \in TurnsCalls, TurnsWhole(c), turnsLog' = turnsLog,
             turnsCs'[c] = turnsCs[c], turnsOut'[c] = turnsOut[c],
           \A a \in Turns!Actors :
               \/ turnsOut'[a] = turnsOut[a] /\ (a \in TurnsHandlers =>
                    turnsHpc'[a] = turnsHpc[a] /\ turnsCur'[a] = turnsCur[a])
               \/ TurnsFree(a, c) /\ TurnsFree(a, c)'
    PROVE  TurnsWhole(c)'
  <1>1. \A a \in Turns!Actors : TurnsFree(a, c) => TurnsFree(a, c)'
    BY TurnsFreeFrame
  <1>2. \A a \in Turns!Actors : TurnsOnly(a, c) => TurnsOnly(a, c)'
    BY <1>1 DEF TurnsOnly
  <1>3. \A n : TurnsTold(c, n) => TurnsTold(c, n)'
    BY TurnsToldFrame
  <1>4. \A h \in TurnsHandlers : ~TurnsFree(h, c) =>
          turnsOut'[h] = turnsOut[h] /\ turnsHpc'[h] = turnsHpc[h] /\ turnsCur'[h] = turnsCur[h]
    BY DEF Turns!Actors
  <1>5. c \in Turns!Actors /\ TurnsHandlers \subseteq Turns!Actors
    BY DEF Turns!Actors
  <1>6. CASE turnsCs[c] = "unused" /\ TurnsTold(c, 0) /\ \A a \in Turns!Actors : TurnsFree(a, c)
    BY <1>1, <1>3, <1>6 DEF TurnsWhole
  <1>7. ASSUME NEW h \in TurnsHandlers,
               turnsCs[c] = IF turnsHpc[h] = "tool" THEN "sync" ELSE "spawned", turnsCur[h] = c,
                 TurnsOnly(h, c),
               TurnsTold(c, IF turnsOut[h] = Turns!Announced(c) THEN 0
                       ELSE IF turnsOut[h] = <<Turns!Ev("running", c)>> THEN 1 ELSE 2)
        PROVE  TurnsWhole(c)'
    <2>1. turnsOut'[h] = turnsOut[h] /\ turnsHpc'[h] = turnsHpc[h] /\ turnsCur'[h] = turnsCur[h]
      BY <1>4, <1>7 DEF TurnsFree
    <2>2. Turns!Announced(c)' = Turns!Announced(c) /\
            Turns!Ev("running", c)' = Turns!Ev("running", c)
      BY DEF Turns!Announced, Turns!Ev
    <2>3. QED
      BY <1>2, <1>3, <1>5, <1>7, <2>1, <2>2 DEF TurnsWhole
  <1>8. CASE turnsCs[c] \in {"spawned", "registered"} /\ TurnsOnly(c, c) /\ TurnsTold(c, 2)
    BY <1>2, <1>3, <1>5, <1>8 DEF TurnsWhole
  <1>9. CASE turnsCs[c] = "ended" /\ TurnsOnly(c, c) /\ TurnsTold(c, 4 - Len(turnsOut[c]))
    BY <1>2, <1>3, <1>5, <1>9 DEF TurnsWhole
  <1>10. ASSUME NEW h \in TurnsHandlers, turnsCs[c] = "done", turnsHpc[h] = "tools", TurnsOnly(h,
                  c),
                turnsOut[h] \in {<<Turns!Ev("idle", c)>>, <<Turns!Ev("result", c), Turns!Ev("idle",
                  c)>>},
                TurnsTold(c, 4 - Len(turnsOut[h]))
         PROVE  TurnsWhole(c)'
    <2>1. ~TurnsFree(h, c)
      BY <1>10, TurnsEventFields DEF TurnsFree
    <2>2. turnsOut'[h] = turnsOut[h] /\ turnsHpc'[h] = turnsHpc[h]
      BY <1>4, <2>1
    <2>3. QED
      BY <1>2, <1>3, <1>5, <1>10, <2>2 DEF TurnsWhole
  <1>11. CASE turnsCs[c] = "done" /\ TurnsTold(c, 4) /\ \A a \in Turns!Actors : TurnsFree(a, c)
    BY <1>1, <1>3, <1>11 DEF TurnsWhole
  <1>12. QED
    BY <1>6, <1>7, <1>8, <1>9, <1>10, <1>11 DEF TurnsWhole

\* A step that touches no event, no status of a call and no place of a handler.
LEMMA TurnsStillInv ==
    ASSUME TurnsBounds, TurnsInv, Turns!TypeOK', TurnsKeepsEnds,
           UNCHANGED <<turnsLlm, turnsLog, turnsOut, turnsHpc, turnsCur, turnsCs, turnsTurn,
             turnsTurns>>,
           \A h \in TurnsHandlers : turnsHpc[h] = "tool" => turnsMore'[h] = turnsMore[h]
    PROVE  TurnsInv'
  <1>1. TurnsShaped'
    <2>1. \A h \in TurnsHandlers : TurnsInTurn(h)' /\ TurnsInLoop(h)' /\ TurnsInCall(h)'
      BY DEF TurnsInv, TurnsShaped, TurnsInTurn, TurnsInLoop, TurnsInCall
    <2>2. \A c \in TurnsCalls : TurnsInTool(c)'
      BY DEF TurnsInv, TurnsShaped, TurnsInTool
    <2>3. QED
      BY <2>1, <2>2 DEF TurnsShaped
  <1>2. TurnsOwes => TurnsOwes'
    BY DEF TurnsOwes, TurnsPromises
  <1>3. TurnsFollowed' /\ \A h \in TurnsHandlers : TurnsDelivered(h)'
    BY <1>2, TurnsEndFrame DEF TurnsInv
  <1>4. TurnsNumbered' /\ \A h \in TurnsHandlers : TurnsAsked(h)'
    BY DEF TurnsInv, TurnsNumbered, TurnsAsked
  <1>5. \A c \in TurnsCalls : TurnsWhole(c)'
    BY TurnsWholeFrame DEF TurnsInv
  <1>6. QED
    BY <1>1, <1>3, <1>4, <1>5 DEF TurnsInv

\* A step of handler h within its loop or a turn, which has to do with no call.
TurnsSteps(h) ==
    /\ TurnsMoves(h) /\ turnsOut[h] = <<>> /\ turnsHpc[h] \notin {"tool", "spawn"}
    /\ UNCHANGED <<turnsCur, turnsCs, turnsTurn, turnsTurns>>
    /\ turnsHpc[h] \in TurnsTurnAt => turnsHpc'[h] \in TurnsTurnAt \/ TurnsPromises(h)'

LEMMA TurnsStepsInv ==
    ASSUME TurnsBounds, TurnsInv, Turns!TypeOK', TurnsKeepsEnds, NEW h \in TurnsHandlers,
             TurnsSteps(h),
           turnsHpc'[h] # "context", TurnsInTurn(h)' /\ TurnsInLoop(h)' /\ TurnsInCall(h)',
           \A c \in TurnsCalls : \A k \in 1..Len(turnsOut'[h]) :
               turnsOut'[h][k].of = c => turnsOut'[h][k].kind = "canceled"
    PROVE  TurnsInv'
  <1>0. h \in Turns!Actors /\ h \notin TurnsCalls
    BY DEF TurnsBounds, Turns!Actors
  <1>1. TurnsShaped'
    BY TurnsShapeFrame DEF TurnsInv, TurnsSteps
  <1>2. TurnsOwes => TurnsOwes'
    <2>1. ~TurnsPromises(h)
      BY DEF TurnsSteps, TurnsPromises
    <2>2. QED
      BY <1>0, <2>1, TurnsOwesFrame DEF TurnsSteps
  <1>3. TurnsFollowed' /\ \A g \in TurnsHandlers : TurnsDelivered(g)'
    BY <1>2, TurnsEndFrame DEF TurnsInv, TurnsSteps, TurnsMoves
  <1>4. TurnsNumbered'
    BY DEF TurnsInv, TurnsNumbered, TurnsSteps, TurnsMoves
  <1>5. \A g \in TurnsHandlers : TurnsAsked(g)'
    <2>1. \A g \in TurnsHandlers : g # h => TurnsAsked(g)'
      BY TurnsAskedFrame DEF TurnsInv, TurnsSteps, TurnsMoves, Turns!Actors
    <2>2. TurnsAsked(h)'
      BY DEF TurnsAsked
    <2>3. QED
      BY <2>1, <2>2
  <1>6. ASSUME NEW c \in TurnsCalls PROVE TurnsWhole(c)'
    <2>1. turnsCur[h] = TurnsNoCall /\ c # TurnsNoCall
      BY <1>6 DEF TurnsInv, TurnsShaped, TurnsInCall, TurnsSteps, TurnsBounds
    <2>2. TurnsFree(h, c) /\ TurnsFree(h, c)'
      BY <1>0, <1>6, <2>1 DEF TurnsFree, TurnsSteps
    <2>3. \A a \in Turns!Actors : a # h =>
              turnsOut'[a] = turnsOut[a] /\ (a \in TurnsHandlers =>
                turnsHpc'[a] = turnsHpc[a] /\ turnsCur'[a] = turnsCur[a])
      BY DEF TurnsSteps, TurnsMoves
    <2>4. TurnsWhole(c) /\ turnsLog' = turnsLog /\ turnsCs'[c] = turnsCs[c] /\
            turnsOut'[c] = turnsOut[c]
      BY <1>0, <1>6, <2>3 DEF TurnsInv, TurnsSteps, TurnsMoves, Turns!Actors
    <2>5. QED
      BY <2>2, <2>3, <2>4, TurnsWholeFrame
  <1>7. QED
    BY <1>1, <1>3, <1>4, <1>5, <1>6 DEF TurnsInv

-----------------------------------------------------------------------------
(* Every step keeps the invariant.                                         *)

\* The channels are as they were.
LEMMA TurnsSameEnds ==
    ASSUME \A h \in TurnsHandlers : TurnsDelivered(h), turnsQ' = turnsQ,
           \A h \in TurnsHandlers : turnsHpc'[h] \in {"hello", "gone"} =>
             turnsHpc[h] \in {"hello", "gone"}
    PROVE  TurnsKeepsEnds
  BY DEF TurnsKeepsEnds, TurnsDelivered

\* What goes to a client, and what clients do.
LEMMA TurnsForwardInv ==
    ASSUME TurnsBounds, TurnsInv, Turns!TypeOK', NEW h \in TurnsHandlers, Turns!Forward(h)
      PROVE TurnsInv'
  <1>1. /\ turnsQ' = [turnsQ EXCEPT ![h] = Tail(@)] /\ turnsQ[h] # <<>> /\
             turnsQ \in [TurnsHandlers -> Seq(Turns!Events)]
        /\ UNCHANGED <<turnsLlm, turnsLog, turnsOut, turnsHpc, turnsCur, turnsCs, turnsTurn,
             turnsTurns, turnsMore>> /\ turnsHpc[h] = "loop"
    BY DEF Turns!Forward, Turns!At, Turns!turnVars, Turns!callVars, TurnsInv, Turns!TypeOK
  <1>2. ASSUME NEW g \in TurnsHandlers
        PROVE  /\ turnsQ'[g] # <<>> =>
                    turnsQ[g] # <<>> /\ turnsQ'[g][Len(turnsQ'[g])] = turnsQ[g][Len(turnsQ[g])]
               /\ turnsHpc'[g] \in {"hello", "gone"} => turnsQ'[g] = <<>>
    <2>1. CASE g # h
      BY <1>1, <1>2, <2>1 DEF TurnsInv, TurnsDelivered
    <2>2. CASE g = h
      <3>1. turnsQ'[h] = Tail(turnsQ[h]) /\ turnsQ[h] \in Seq(Turns!Events)
        BY <1>1
      <3>2. turnsQ'[h] # <<>> => turnsQ'[h][Len(turnsQ'[h])] = turnsQ[h][Len(turnsQ[h])]
        BY <1>1, <3>1, TurnsShrunk
      <3>3. QED
        BY <1>1, <2>2, <3>2
    <2>3. QED
      BY <2>1, <2>2
  <1>3. TurnsKeepsEnds
    BY <1>2 DEF TurnsKeepsEnds
  <1>4. QED
    BY <1>1, <1>3, TurnsStillInv

LEMMA TurnsClientInv ==
    ASSUME TurnsBounds, TurnsInv, Turns!TypeOK', NEW h \in TurnsHandlers, Turns!AnyClient(h)
      PROVE TurnsInv'
  <1>1. UNCHANGED <<turnsLlm, turnsLog, turnsOut, turnsHpc, turnsCur, turnsCs, turnsTurn,
          turnsTurns, turnsMore, turnsQ>>
    BY DEF Turns!AnyClient, Turns!ClientSends, Turns!ClientReceives, Turns!ClientLeaves,
       Turns!turnVars, Turns!callVars
  <1>2. TurnsKeepsEnds
    BY <1>1, TurnsSameEnds DEF TurnsInv
  <1>3. QED
    BY <1>1, <1>2, TurnsStillInv

LEMMA TurnsSyncToolRefusedInv ==
    ASSUME TurnsBounds, TurnsInv, Turns!TypeOK', NEW h \in TurnsHandlers,
             Turns!SyncToolRefused(h) PROVE TurnsInv'
  <1>1. /\
             UNCHANGED <<turnsLlm, turnsLog, turnsOut, turnsHpc, turnsCur, turnsCs, turnsTurn,
               turnsTurns, turnsQ>>
        /\ turnsHpc[h] = "tools" /\ turnsMore' = [turnsMore EXCEPT ![h] = @ - 1]
    BY DEF Turns!SyncToolRefused, Turns!At, Turns!callVars
  <1>2. TurnsKeepsEnds
    BY <1>1, TurnsSameEnds DEF TurnsInv
  <1>3. \A g \in TurnsHandlers : turnsHpc[g] = "tool" => turnsMore'[g] = turnsMore[g]
    BY <1>1 DEF TurnsInv, Turns!TypeOK
  <1>4. QED
    BY <1>1, <1>2, <1>3, TurnsStillInv

\* Where a step of h goes.
LEMMA TurnsGoesTo ==
    ASSUME Turns!TypeOK, NEW h \in TurnsHandlers, NEW p, NEW evs, Turns!Goes(h, p, evs)
    PROVE  /\ turnsHpc'[h] = p /\ turnsOut'[h] = evs
           /\ \A g \in TurnsHandlers : g # h => turnsHpc'[g] = turnsHpc[g]
           /\ \A a \in Turns!Actors : a # h => turnsOut'[a] = turnsOut[a]
  BY DEF Turns!Goes, Turns!TypeOK, Turns!Actors

\* The steps of a handler that have to do with no call.
LEMMA TurnsPlainInv ==
    ASSUME TurnsBounds, TurnsInv, Turns!TypeOK', NEW h \in TurnsHandlers, NEW p, NEW evs,
             Turns!Goes(h, p, evs),
           turnsOut[h] = <<>>, turnsHpc[h] \notin {"tool", "spawn"}, TurnsKeepsEnds,
           UNCHANGED <<turnsLlm, turnsLog, turnsCur, turnsCs, turnsTurn, turnsTurns>>,
           \A g \in TurnsHandlers : g # h => turnsMore'[g] = turnsMore[g],
           p \notin {"context", "tool", "spawn"},
           turnsHpc[h] \in TurnsTurnAt =>
             p \in TurnsTurnAt \/ \E k \in 1..Len(evs) : evs[k].kind \in TurnsEnds,
           p \in {"gone", "tools"} => evs = <<>>,
           p = "generate" => evs = <<>> \/ \E e \in TurnsDelta(turnsTurn[h]) : evs = <<e>>,
           p = "loop" =>
              \/ evs \in {<<>>, <<Turns!Ev("user", turnsTurn[h]), Turns!Ev("assistant",
                   turnsTurn[h])>>,
                         <<Turns!Ev("user", turnsTurn[h]), Turns!Ev("error", turnsTurn[h])>>,
                         <<Turns!Ev("assistant", turnsTurn[h])>>, <<Turns!Ev("error",
                           turnsTurn[h])>>,
                         <<Turns!Ev("idle", turnsTurn[h])>>,
                         <<Turns!Ev("error", turnsTurn[h]), Turns!Ev("idle", turnsTurn[h])>>,
                         <<Turns!Ev("assistant", turnsTurn[h]), Turns!Ev("idle", turnsTurn[h])>>}
              \/ \E c \in TurnsCalls : evs = <<Turns!Ev("canceled", c)>>,
           p \in {"loop", "gone", "tools", "generate"}
    PROVE  TurnsInv'
  <1>1. /\ turnsHpc'[h] = p /\ turnsOut'[h] = evs
        /\ \A g \in TurnsHandlers : g # h => turnsHpc'[g] = turnsHpc[g]
        /\ \A a \in Turns!Actors : a # h => turnsOut'[a] = turnsOut[a]
    BY TurnsGoesTo DEF TurnsInv
  <1>2. turnsCur'[h] = TurnsNoCall
    BY DEF TurnsInv, TurnsShaped, TurnsInCall
  <1>3. TurnsInTurn(h)' /\ TurnsInLoop(h)' /\ TurnsInCall(h)'
    <2>1. TurnsInTurn(h)'
      BY <1>1 DEF TurnsInTurn, TurnsDelta
    <2>2. TurnsInLoop(h)'
      BY <1>1, Zenon DEF TurnsInLoop, Turns!Ev
    <2>3. TurnsInCall(h)'
      BY <1>1, <1>2 DEF TurnsInCall
    <2>4. QED
      BY <2>1, <2>2, <2>3
  <1>4. TurnsSteps(h)
    BY <1>1 DEF TurnsSteps, TurnsMoves, TurnsPromises
  <1>5. turnsTurn[h] \in 0..TurnsMaxTurns /\ \A c \in TurnsCalls : turnsTurn[h] # c
    BY DEF TurnsInv, Turns!TypeOK, TurnsBounds
  <1>6. \A k \in 1..Len(evs) : evs[k].of = turnsTurn[h] \/ evs[k].kind = "canceled"
    <2>1. CASE p \in {"gone", "tools"}
      BY <2>1
    <2>2. CASE p = "generate"
      BY <2>2 DEF TurnsDelta
    <2>3. CASE p = "loop"
      BY <2>3, TurnsEventFields
    <2>4. QED
      BY <2>1, <2>2, <2>3
  <1>7. QED
    BY <1>1, <1>3, <1>4, <1>5, <1>6, TurnsStepsInv

\* The loop: replay and subscribe, return, answer what is refused, cancel.
LEMMA TurnsHelloInv ==
    ASSUME TurnsBounds, TurnsInv, Turns!TypeOK', NEW h \in TurnsHandlers, Turns!Hello(h)
      PROVE TurnsInv'
  <1>1. /\ Turns!Goes(h, "loop", <<>>) /\ turnsOut[h] = <<>> /\ turnsHpc[h] = "hello"
        /\ UNCHANGED <<turnsLlm, turnsLog, turnsCur, turnsCs, turnsTurn, turnsTurns, turnsMore,
             turnsQ>>
    BY DEF Turns!Hello, Turns!At, Turns!turnVars, Turns!callVars
  <1>2. TurnsKeepsEnds
    BY <1>1, TurnsGoesTo, TurnsSameEnds DEF TurnsInv
  <1>3. QED
    BY <1>1, <1>2, TurnsPlainInv DEF TurnsTurnAt

LEMMA TurnsReturnInv ==
    ASSUME TurnsBounds, TurnsInv, Turns!TypeOK', NEW h \in TurnsHandlers, Turns!Return(h)
      PROVE TurnsInv'
  <1>1. /\ Turns!Goes(h, "gone", <<>>) /\ turnsOut[h] = <<>> /\ turnsHpc[h] \in {"hello", "loop"}
        /\ UNCHANGED <<turnsLlm, turnsLog, turnsCur, turnsCs, turnsTurn, turnsTurns, turnsMore>>
        /\ turnsQ' = [turnsQ EXCEPT ![h] = <<>>]
    BY DEF Turns!Return, Turns!At, Turns!turnVars, Turns!callVars
  <1>2. /\ turnsQ' \in [TurnsHandlers -> Seq(Turns!Events)] /\ turnsQ'[h] = <<>>
        /\ \A g \in TurnsHandlers : g # h => turnsQ'[g] = turnsQ[g]
    BY <1>1 DEF TurnsInv, Turns!TypeOK
  <1>3. TurnsKeepsEnds
    BY <1>1, <1>2, TurnsGoesTo DEF TurnsInv, TurnsKeepsEnds, TurnsDelivered
  <1>4. QED
    BY <1>1, <1>3, TurnsPlainInv DEF TurnsTurnAt

LEMMA TurnsOnToolInvokeRefusedInv ==
    ASSUME TurnsBounds, TurnsInv, Turns!TypeOK', NEW h \in TurnsHandlers,
             Turns!OnToolInvokeRefused(h) PROVE TurnsInv'
  <1>1. /\ Turns!Goes(h, "loop", <<Turns!Ev("error", turnsTurn[h])>>) /\ turnsOut[h] = <<>> /\
             turnsHpc[h] = "loop"
        /\ UNCHANGED <<turnsLlm, turnsLog, turnsCur, turnsCs, turnsTurn, turnsTurns, turnsMore,
             turnsQ>>
    BY DEF Turns!OnToolInvokeRefused, Turns!Takes, Turns!At, Turns!turnVars, Turns!callVars
  <1>2. TurnsKeepsEnds
    BY <1>1, TurnsGoesTo, TurnsSameEnds DEF TurnsInv
  <1>3. QED
    BY <1>1, <1>2, TurnsPlainInv DEF TurnsTurnAt

LEMMA TurnsOnCancelInv ==
    ASSUME TurnsBounds, TurnsInv, Turns!TypeOK', NEW h \in TurnsHandlers, Turns!OnCancel(h)
      PROVE TurnsInv'
  <1>1. /\ turnsOut[h] = <<>> /\ turnsHpc[h] = "loop" /\ turnsInbox[h] # <<>> /\
             Head(turnsInbox[h]).kind = "cancel"
        /\ UNCHANGED <<turnsLlm, turnsLog, turnsCur, turnsCs, turnsTurn, turnsTurns, turnsMore,
             turnsQ>>
    BY DEF Turns!OnCancel, Turns!Takes, Turns!At, Turns!turnVars
  <1>2. Head(turnsInbox[h]).of \in TurnsCalls \cup {TurnsNoCall}
    <2>1. Head(turnsInbox[h]) \in Turns!Messages
      BY <1>1, TurnsShrunk DEF TurnsInv, Turns!TypeOK
    <2>2. QED
      BY <2>1 DEF Turns!Messages
  <1>3. PICK evs :
            /\ Turns!Goes(h, "loop", evs)
            /\ evs = <<>> \/ \E c \in TurnsCalls : evs = <<Turns!Ev("canceled", c)>>
    BY <1>2, Zenon DEF Turns!OnCancel
  <1>4. TurnsKeepsEnds
    BY <1>1, <1>3, TurnsGoesTo, TurnsSameEnds DEF TurnsInv
  <1>5. QED
    BY <1>1, <1>3, <1>4, TurnsPlainInv DEF TurnsTurnAt

\* A turn, as far as it has to do with no call.
LEMMA TurnsBuildMessagesInv ==
    ASSUME TurnsBounds, TurnsInv, Turns!TypeOK', NEW h \in TurnsHandlers,
             Turns!BuildMessages(h) PROVE TurnsInv'
  <1>1. /\ Turns!Goes(h, "generate", <<>>) /\ turnsOut[h] = <<>> /\ turnsHpc[h] = "context"
        /\ UNCHANGED <<turnsLlm, turnsLog, turnsCur, turnsCs, turnsTurn, turnsTurns, turnsMore,
             turnsQ>>
    BY DEF Turns!BuildMessages, Turns!At, Turns!callVars
  <1>2. TurnsKeepsEnds
    BY <1>1, TurnsGoesTo, TurnsSameEnds DEF TurnsInv
  <1>3. QED
    BY <1>1, <1>2, TurnsPlainInv DEF TurnsTurnAt

LEMMA TurnsBuildMessagesFailsInv ==
    ASSUME TurnsBounds, TurnsInv, Turns!TypeOK', NEW h \in TurnsHandlers,
             Turns!BuildMessagesFails(h) PROVE TurnsInv'
  <1>1. /\ Turns!Goes(h, "loop", <<Turns!Ev("error", turnsTurn[h])>>) /\ turnsOut[h] = <<>> /\
             turnsHpc[h] = "context"
        /\ UNCHANGED <<turnsLlm, turnsLog, turnsCur, turnsCs, turnsTurn, turnsTurns, turnsMore,
             turnsQ>>
    BY DEF Turns!BuildMessagesFails, Turns!At, Turns!turnVars, Turns!callVars
  <1>2. TurnsKeepsEnds
    BY <1>1, TurnsGoesTo, TurnsSameEnds DEF TurnsInv
  <1>3. \E k \in 1..Len(<<Turns!Ev("error", turnsTurn[h])>>) : <<Turns!Ev("error",
          turnsTurn[h])>>[k].kind \in TurnsEnds
    BY TurnsEventFields DEF TurnsEnds
  <1>4. QED
    BY <1>1, <1>2, <1>3, TurnsPlainInv

LEMMA TurnsGenerateDeltaInv ==
    ASSUME TurnsBounds, TurnsInv, Turns!TypeOK', NEW h \in TurnsHandlers,
             Turns!GenerateDelta(h) PROVE TurnsInv'
  <1>1. /\ Turns!Goes(h, "generate", <<Turns!Piece("delta", turnsTurn[h])>>) /\
             turnsOut[h] = <<>> /\ turnsHpc[h] = "generate"
        /\ UNCHANGED <<turnsLlm, turnsLog, turnsCur, turnsCs, turnsTurn, turnsTurns, turnsMore,
             turnsQ>>
    BY DEF Turns!GenerateDelta, Turns!At, Turns!turnVars, Turns!callVars
  <1>2. TurnsKeepsEnds
    BY <1>1, TurnsGoesTo, TurnsSameEnds DEF TurnsInv
  <1>3. Turns!Piece("delta", turnsTurn[h]) \in TurnsDelta(turnsTurn[h])
    BY DEF Turns!GenerateDelta, Turns!Piece, TurnsDelta, TurnsInv, Turns!TypeOK, TurnsBounds
  <1>4. QED
    BY <1>1, <1>2, <1>3, TurnsPlainInv DEF TurnsTurnAt

LEMMA TurnsGenerateFailsInv ==
    ASSUME TurnsBounds, TurnsInv, Turns!TypeOK', NEW h \in TurnsHandlers,
             Turns!GenerateFails(h) PROVE TurnsInv'
  <1>1. /\
             Turns!Goes(h, "loop", <<Turns!Ev("error", turnsTurn[h]), Turns!Ev("idle",
               turnsTurn[h])>>)
        /\ turnsOut[h] = <<>> /\ turnsHpc[h] = "generate"
        /\ UNCHANGED <<turnsLlm, turnsLog, turnsCur, turnsCs, turnsTurn, turnsTurns, turnsMore,
             turnsQ>>
    BY DEF Turns!GenerateFails, Turns!Idle, Turns!At, Turns!turnVars, Turns!callVars
  <1>2. TurnsKeepsEnds
    BY <1>1, TurnsGoesTo, TurnsSameEnds DEF TurnsInv
  <1>3. \E k \in 1..Len(<<Turns!Ev("error", turnsTurn[h]), Turns!Ev("idle", turnsTurn[h])>>) :
            <<Turns!Ev("error", turnsTurn[h]), Turns!Ev("idle",
              turnsTurn[h])>>[k].kind \in TurnsEnds
    BY TurnsEventFields DEF TurnsEnds
  <1>4. QED
    BY <1>1, <1>2, <1>3, TurnsPlainInv

LEMMA TurnsAnswerInv ==
    ASSUME TurnsBounds, TurnsInv, Turns!TypeOK', NEW h \in TurnsHandlers, Turns!Answer(h)
      PROVE TurnsInv'
  <1>1. /\ turnsOut[h] = <<>> /\ turnsHpc[h] = "generate"
        /\ UNCHANGED <<turnsLlm, turnsLog, turnsCur, turnsCs, turnsTurn, turnsTurns, turnsMore,
             turnsQ>>
    BY DEF Turns!Answer, Turns!At, Turns!turnVars, Turns!callVars
  <1>2. PICK evs :
            /\ Turns!Goes(h, "loop", evs)
            /\ \/ evs = <<Turns!Ev("assistant", turnsTurn[h]), Turns!Ev("idle", turnsTurn[h])>>
               \/ evs = <<Turns!Ev("idle", turnsTurn[h])>>
    BY Zenon DEF Turns!Answer, Turns!Idle
  <1>3. TurnsKeepsEnds
    BY <1>1, <1>2, TurnsGoesTo, TurnsSameEnds DEF TurnsInv
  <1>4. \E k \in 1..Len(evs) : evs[k].kind \in TurnsEnds
    BY <1>2, TurnsEventFields DEF TurnsEnds
  <1>5. QED
    BY <1>1, <1>2, <1>3, <1>4, TurnsPlainInv

LEMMA TurnsAskForToolsInv ==
    ASSUME TurnsBounds, TurnsInv, Turns!TypeOK', NEW h \in TurnsHandlers, NEW n,
             Turns!AskForTools(h, n) PROVE TurnsInv'
  <1>1. /\ Turns!Goes(h, "tools", <<>>) /\ turnsOut[h] = <<>> /\ turnsHpc[h] = "generate"
        /\ UNCHANGED <<turnsLlm, turnsLog, turnsCur, turnsCs, turnsTurn, turnsTurns, turnsQ>> /\
             turnsMore' = [turnsMore EXCEPT ![h] = n]
    BY DEF Turns!AskForTools, Turns!At, Turns!callVars
  <1>2. TurnsKeepsEnds
    BY <1>1, TurnsGoesTo, TurnsSameEnds DEF TurnsInv
  <1>3. \A g \in TurnsHandlers : g # h => turnsMore'[g] = turnsMore[g]
    BY <1>1 DEF TurnsInv, Turns!TypeOK
  <1>4. QED
    BY <1>1, <1>2, <1>3, TurnsPlainInv DEF TurnsTurnAt

LEMMA TurnsToolsDoneInv ==
    ASSUME TurnsBounds, TurnsInv, Turns!TypeOK', NEW h \in TurnsHandlers, Turns!ToolsDone(h)
      PROVE TurnsInv'
  <1>1. /\ turnsOut[h] = <<>> /\ turnsHpc[h] = "tools"
        /\ UNCHANGED <<turnsLlm, turnsLog, turnsCur, turnsCs, turnsTurn, turnsTurns, turnsMore,
             turnsQ>>
    BY DEF Turns!ToolsDone, Turns!At, Turns!callVars
  <1>2. Turns!Goes(h, "generate", <<>>) \/ Turns!Goes(h, "loop", <<Turns!Ev("idle", turnsTurn[h])>>)
    BY Zenon DEF Turns!ToolsDone, Turns!Idle
  <1>3. TurnsKeepsEnds
    BY <1>1, <1>2, TurnsGoesTo, TurnsSameEnds DEF TurnsInv
  <1>4. \E k \in 1..Len(<<Turns!Ev("idle", turnsTurn[h])>>) : <<Turns!Ev("idle",
          turnsTurn[h])>>[k].kind \in TurnsEnds
    BY TurnsEventFields DEF TurnsEnds
  <1>5. CASE Turns!Goes(h, "generate", <<>>)
    BY <1>1, <1>3, <1>5, TurnsPlainInv DEF TurnsTurnAt
  <1>6. CASE Turns!Goes(h, "loop", <<Turns!Ev("idle", turnsTurn[h])>>)
    BY <1>1, <1>3, <1>4, <1>6, TurnsPlainInv
  <1>7. QED
    BY <1>2, <1>5, <1>6

-----------------------------------------------------------------------------
(* The steps of a handler that have to do with a call.                     *)

\* All but what they say of the call.
LEMMA TurnsCallStep ==
    ASSUME TurnsBounds, TurnsInv, NEW h \in TurnsHandlers, NEW c \in TurnsCalls, NEW p, NEW evs,
             Turns!Goes(h, p, evs),
           turnsOut[h] = <<>>, p \notin {"hello", "gone", "context"}, turnsQ' = turnsQ,
           UNCHANGED <<turnsLlm, turnsLog, turnsTurn, turnsTurns>>,
           \A g \in TurnsHandlers : g # h =>
             turnsCur'[g] = turnsCur[g] /\ turnsMore'[g] = turnsMore[g],
           turnsHpc[h] \in TurnsTurnAt => p \in TurnsTurnAt,
           TurnsInTurn(h)' /\ TurnsInLoop(h)' /\ TurnsInCall(h)',
           \A b \in TurnsCalls : b # c => turnsCs'[b] = turnsCs[b],
           \/ turnsCs'[c] = turnsCs[c]
           \/ turnsCs[c] \in {"unused", "sync"} /\ turnsCs'[c] \in {"sync", "spawned", "done"},
           \A b \in TurnsCalls : b # c => TurnsFree(h, b) /\ TurnsFree(h, b)',
           TurnsWhole(c)'
    PROVE  TurnsInv' \/ ~Turns!TypeOK'
  <1>0. h \in Turns!Actors /\ h \notin TurnsCalls
    BY DEF TurnsBounds, Turns!Actors
  <1>1. /\ turnsHpc'[h] = p /\ turnsOut'[h] = evs
        /\ \A g \in TurnsHandlers : g # h => turnsHpc'[g] = turnsHpc[g]
        /\ \A a \in Turns!Actors : a # h => turnsOut'[a] = turnsOut[a]
    BY TurnsGoesTo DEF TurnsInv
  <1>2. TurnsMoves(h)
    BY <1>1 DEF TurnsMoves
  <1>3. TurnsShaped'
    BY <1>2, TurnsShapeFrame DEF TurnsInv
  <1>4. TurnsOwes => TurnsOwes'
    <2>1. ~TurnsPromises(h)
      BY DEF TurnsPromises
    <2>2. \A b \in TurnsCalls :
              turnsCs[b] \in {"spawned", "registered"} => turnsCs'[b] \in {"spawned", "registered"}
      OBVIOUS
    <2>3. QED
      BY <1>0, <1>1, <1>2, <2>1, <2>2, TurnsOwesFrame
  <1>5. TurnsFollowed' /\ \A g \in TurnsHandlers : TurnsDelivered(g)'
    <2>1. TurnsKeepsEnds
      BY <1>1, TurnsSameEnds DEF TurnsInv
    <2>2. QED
      BY <1>4, <2>1, TurnsEndFrame DEF TurnsInv
  <1>6. TurnsNumbered'
    BY DEF TurnsInv, TurnsNumbered
  <1>7. \A g \in TurnsHandlers : TurnsAsked(g)'
    <2>1. \A g \in TurnsHandlers : g # h => TurnsAsked(g)'
      BY <1>1, TurnsAskedFrame DEF TurnsInv, Turns!Actors
    <2>2. TurnsAsked(h)'
      BY <1>1 DEF TurnsAsked
    <2>3. QED
      BY <2>1, <2>2
  <1>8. ASSUME NEW b \in TurnsCalls, b # c PROVE TurnsWhole(b)'
    <2>1. TurnsFree(h, b) /\ TurnsFree(h, b)'
      BY <1>8
    <2>2. \A a \in Turns!Actors : a # h =>
              turnsOut'[a] = turnsOut[a] /\ (a \in TurnsHandlers =>
                turnsHpc'[a] = turnsHpc[a] /\ turnsCur'[a] = turnsCur[a])
      BY <1>1
    <2>3. TurnsWhole(b) /\ turnsCs'[b] = turnsCs[b] /\ turnsOut'[b] = turnsOut[b]
      BY <1>0, <1>8, <2>2 DEF TurnsInv, Turns!Actors
    <2>4. QED
      BY <2>1, <2>2, <2>3, TurnsWholeFrame
  <1>9. QED
    BY <1>3, <1>5, <1>6, <1>7, <1>8 DEF TurnsInv

\* What is known of a call by its status.
LEMMA TurnsUnused ==
    ASSUME NEW c \in TurnsCalls, TurnsWhole(c), turnsCs[c] = "unused"
    PROVE  TurnsTold(c, 0) /\ \A a \in Turns!Actors : TurnsFree(a, c)
  BY DEF TurnsWhole

LEMMA TurnsHeld ==
    ASSUME TurnsBounds, NEW h \in TurnsHandlers, TurnsInCall(h), turnsCur[h] \in TurnsCalls,
             TurnsWhole(turnsCur[h])
    PROVE  /\ turnsCs[turnsCur[h]] = IF turnsHpc[h] = "tool" THEN "sync" ELSE "spawned"
           /\ TurnsOnly(h, turnsCur[h])
           /\ turnsOut[h] = <<>> => TurnsTold(turnsCur[h], 2)
  <1>0. h \in Turns!Actors /\ h # turnsCur[h] /\ ~TurnsFree(h, turnsCur[h]) /\ turnsHpc[h] # "tools"
    BY DEF TurnsBounds, Turns!Actors, TurnsFree, TurnsInCall
  <1>1. PICK g \in TurnsHandlers :
           /\ turnsCs[turnsCur[h]] = IF turnsHpc[g] = "tool" THEN "sync" ELSE "spawned"
           /\ turnsCur[g] = turnsCur[h] /\ TurnsOnly(g, turnsCur[h])
           /\ TurnsTold(turnsCur[h], IF turnsOut[g] = Turns!Announced(turnsCur[h]) THEN 0
                           ELSE IF turnsOut[g] = <<Turns!Ev("running", turnsCur[h])>> THEN 1 ELSE 2)
    <2>1. ~TurnsOnly(turnsCur[h], turnsCur[h])
      BY <1>0 DEF TurnsOnly
    <2>2. \A g \in TurnsHandlers : turnsHpc[g] = "tools" /\ TurnsOnly(g, turnsCur[h]) /\ g # h =>
            FALSE
      BY <1>0 DEF TurnsOnly
    <2>3. QED
      BY <1>0, <2>1, <2>2 DEF TurnsWhole
  <1>2. g = h
    BY <1>0, <1>1 DEF TurnsOnly
  <1>3. <<>> # Turns!Announced(turnsCur[h]) /\ <<>> # <<Turns!Ev("running", turnsCur[h])>>
    BY DEF Turns!Announced
  <1>4. QED
    BY <1>1, <1>2, <1>3

LEMMA TurnsOnItsOwn ==
    ASSUME TurnsBounds, NEW c \in TurnsCalls, TurnsWhole(c),
             \A h \in TurnsHandlers : turnsCur[h] # c
    PROVE  /\ turnsCs[c] \in {"spawned", "registered"} => TurnsOnly(c, c) /\ TurnsTold(c, 2)
           /\ turnsCs[c] = "ended" => TurnsOnly(c, c) /\ TurnsTold(c, 4 - Len(turnsOut[c]))
  BY DEF TurnsWhole

\* A call is announced.
LEMMA TurnsAnnouncedInv ==
    ASSUME TurnsBounds, TurnsInv, Turns!TypeOK', NEW h \in TurnsHandlers, NEW c \in TurnsCalls,
             NEW p \in {"tool", "spawn"},
           Turns!Goes(h, p, Turns!Announced(c)), turnsOut[h] = <<>>,
             turnsHpc[h] = IF p = "tool" THEN "tools" ELSE "loop",
           turnsCur' = [turnsCur EXCEPT ![h] = c], turnsCs[c] = "unused",
           turnsCs' = [turnsCs EXCEPT ![c] = IF p = "tool" THEN "sync" ELSE "spawned"],
           UNCHANGED <<turnsLlm, turnsLog, turnsTurn, turnsTurns, turnsMore, turnsQ>>,
             p = "tool" => turnsMore[h] > 0
    PROVE  TurnsInv'
  <1>0. h \in Turns!Actors /\ h \notin TurnsCalls /\ turnsCur[h] = TurnsNoCall /\
          c # TurnsNoCall /\ TurnsNoCall \notin TurnsCalls
    BY DEF TurnsBounds, Turns!Actors, TurnsInv, TurnsShaped, TurnsInCall
  <1>1. /\ turnsHpc'[h] = p /\ turnsOut'[h] = Turns!Announced(c)
        /\ \A g \in TurnsHandlers : g # h => turnsHpc'[g] = turnsHpc[g]
        /\ \A a \in Turns!Actors : a # h => turnsOut'[a] = turnsOut[a]
    BY TurnsGoesTo DEF TurnsInv
  <1>2. /\ turnsCur'[h] = c /\ \A g \in TurnsHandlers : g # h => turnsCur'[g] = turnsCur[g]
        /\ turnsCs'[c] = IF p = "tool" THEN "sync" ELSE "spawned"
        /\ \A b \in TurnsCalls : b # c => turnsCs'[b] = turnsCs[b]
    BY DEF TurnsInv, Turns!TypeOK
  <1>3. TurnsInTurn(h)' /\ TurnsInLoop(h)' /\ TurnsInCall(h)'
    <2>1. TurnsInTurn(h)' /\ TurnsInLoop(h)'
      BY <1>1 DEF TurnsInTurn, TurnsInLoop
    <2>2. TurnsInCall(h)'
      BY <1>1, <1>2 DEF TurnsInCall, Turns!Announced, Turns!Ev
    <2>3. QED
      BY <2>1, <2>2
  <1>4. ASSUME NEW b \in TurnsCalls, b # c PROVE TurnsFree(h, b) /\ TurnsFree(h, b)'
    <2>1. \A k \in 1..Len(Turns!Announced(c)) : Turns!Announced(c)[k].of = c
      BY TurnsEventFields DEF Turns!Announced
    <2>2. QED
      BY <1>0, <1>1, <1>2, <1>4, <2>1 DEF TurnsFree
  <1>5. TurnsWhole(c)'
    <2>1. TurnsTold(c, 0) /\ \A a \in Turns!Actors : TurnsFree(a, c)
      BY TurnsUnused DEF TurnsInv
    <2>2. TurnsTold(c, 0)'
      BY <2>1, TurnsToldFrame
    <2>3. ASSUME NEW a \in Turns!Actors, a # h PROVE TurnsFree(a, c)'
      BY <1>1, <1>2, <2>1, <2>3, TurnsFreeFrame
    <2>4. TurnsOnly(h, c)'
      BY <2>3 DEF TurnsOnly, Turns!Actors
    <2>5. Turns!Announced(c)' = Turns!Announced(c)
      BY DEF Turns!Announced, Turns!Ev
    <2>6. QED
      BY <1>1, <1>2, <2>2, <2>4, <2>5 DEF TurnsWhole
  <1>6. turnsHpc[h] \in TurnsTurnAt => p \in TurnsTurnAt
    BY DEF TurnsTurnAt
  <1>7. QED
    BY <1>1, <1>2, <1>3, <1>4, <1>5, <1>6, TurnsCallStep

LEMMA TurnsSyncToolInv ==
    ASSUME TurnsBounds, TurnsInv, Turns!TypeOK', NEW h \in TurnsHandlers, NEW c \in TurnsCalls,
             Turns!SyncTool(h, c) PROVE TurnsInv'
  BY TurnsAnnouncedInv DEF Turns!SyncTool, Turns!At, Turns!turnVars

LEMMA TurnsOnToolInvokeInv ==
    ASSUME TurnsBounds, TurnsInv, Turns!TypeOK', NEW h \in TurnsHandlers, NEW c \in TurnsCalls,
             Turns!OnToolInvoke(h, c)
    PROVE  TurnsInv'
  BY TurnsAnnouncedInv DEF Turns!OnToolInvoke, Turns!Takes, Turns!At, Turns!turnVars

\* The goroutine takes over.
LEMMA TurnsSpawnInv ==
    ASSUME TurnsBounds, TurnsInv, Turns!TypeOK', NEW h \in TurnsHandlers, Turns!Spawn(h)
      PROVE TurnsInv'
  <1>1. /\ turnsHpc[h] = "spawn" /\ turnsOut[h] = <<>> /\ Turns!Goes(h, "loop", <<>>)
        /\ turnsCur' = [turnsCur EXCEPT ![h] = TurnsNoCall]
        /\ UNCHANGED <<turnsLlm, turnsLog, turnsTurn, turnsTurns, turnsMore, turnsCs, turnsQ>>
    BY DEF Turns!Spawn, Turns!At, Turns!turnVars, Turns!callVars
  <1>2. /\ turnsHpc'[h] = "loop" /\ turnsOut'[h] = <<>>
        /\ \A g \in TurnsHandlers : g # h => turnsHpc'[g] = turnsHpc[g]
        /\ \A a \in Turns!Actors : a # h => turnsOut'[a] = turnsOut[a]
    BY <1>1, TurnsGoesTo DEF TurnsInv
  <1>3. turnsCur'[h] = TurnsNoCall /\ \A g \in TurnsHandlers : g # h => turnsCur'[g] = turnsCur[g]
    BY <1>1 DEF TurnsInv, Turns!TypeOK
  <1>4. PICK c \in TurnsCalls : c = turnsCur[h]
    BY <1>1 DEF TurnsInv, TurnsShaped, TurnsInCall
  <1>5. turnsCs[c] = "spawned" /\ TurnsOnly(h, c) /\ TurnsTold(c, 2)
    BY <1>1, <1>4, TurnsHeld DEF TurnsInv, TurnsShaped
  <1>6. TurnsInTurn(h)' /\ TurnsInLoop(h)' /\ TurnsInCall(h)'
    BY <1>2, <1>3 DEF TurnsInTurn, TurnsInLoop, TurnsInCall
  <1>7. \A b \in TurnsCalls : TurnsFree(h, b)' /\ (b # c => TurnsFree(h, b))
    BY <1>1, <1>2, <1>3, <1>4 DEF TurnsFree, TurnsBounds
  <1>8. TurnsWhole(c)'
    <2>1. \A a \in Turns!Actors : a # h => TurnsFree(a, c)'
      BY <1>2, <1>3, <1>5, TurnsFreeFrame DEF TurnsOnly
    <2>2. TurnsOnly(c, c)'
      BY <1>7, <2>1 DEF TurnsOnly, Turns!Actors
    <2>3. TurnsTold(c, 2)'
      BY <1>1, <1>5, TurnsToldFrame
    <2>4. QED
      BY <1>1, <1>5, <2>2, <2>3 DEF TurnsWhole
  <1>9. QED
    BY <1>1, <1>2, <1>3, <1>6, <1>7, <1>8, TurnsCallStep DEF TurnsTurnAt

\* A tool of a turn says something.
LEMMA TurnsSyncToolOutputInv ==
    ASSUME TurnsBounds, TurnsInv, Turns!TypeOK', NEW h \in TurnsHandlers,
             Turns!SyncToolOutput(h) PROVE TurnsInv'
  <1>0. h \in Turns!Actors /\ h \notin TurnsCalls
    BY DEF TurnsBounds, Turns!Actors
  <1>1. PICK c \in TurnsCalls : c = turnsCur[h]
    BY DEF Turns!SyncToolOutput, Turns!At, TurnsInv, TurnsShaped, TurnsInCall
  <1>2. /\ turnsHpc[h] = "tool" /\ turnsOut[h] = <<>> /\
             Turns!Goes(h, "tool", <<Turns!Piece("output", c)>>)
        /\ UNCHANGED <<turnsLlm, turnsLog, turnsTurn, turnsTurns, turnsMore, turnsCur, turnsCs,
             turnsQ>>
    BY <1>1 DEF Turns!SyncToolOutput, Turns!At, Turns!turnVars, Turns!callVars
  <1>3. /\ turnsHpc'[h] = "tool" /\ turnsOut'[h] = <<Turns!Piece("output", c)>>
        /\ \A g \in TurnsHandlers : g # h => turnsHpc'[g] = turnsHpc[g]
        /\ \A a \in Turns!Actors : a # h => turnsOut'[a] = turnsOut[a]
    BY <1>2, TurnsGoesTo DEF TurnsInv
  <1>4. turnsCs[c] = "sync" /\ TurnsOnly(h, c) /\ TurnsTold(c, 2)
    BY <1>1, <1>2, TurnsHeld DEF TurnsInv, TurnsShaped
  <1>5. TurnsInTurn(h)' /\ TurnsInLoop(h)' /\ TurnsInCall(h)'
    <2>1. TurnsInTurn(h)' /\ TurnsInLoop(h)'
      BY <1>3 DEF TurnsInTurn, TurnsInLoop
    <2>2. Turns!Piece("output", c) \in TurnsOutput(c)
      BY DEF Turns!Piece, TurnsOutput, Turns!SyncToolOutput, TurnsInv, Turns!TypeOK, TurnsBounds
    <2>3. TurnsInCall(h)
      BY DEF TurnsInv, TurnsShaped
    <2>4. TurnsInCall(h)'
      BY <1>1, <1>2, <1>3, <2>2, <2>3 DEF TurnsInCall, TurnsOutput
    <2>5. QED
      BY <2>1, <2>4
  <1>6. ASSUME NEW b \in TurnsCalls, b # c PROVE TurnsFree(h, b) /\ TurnsFree(h, b)'
    <2>1. \A k \in 1..Len(<<Turns!Piece("output", c)>>) : <<Turns!Piece("output", c)>>[k].of = c
      BY TurnsEventFields
    <2>2. QED
      BY <1>1, <1>2, <1>3, <1>6, <2>1 DEF TurnsFree
  <1>7. TurnsWhole(c)'
    <2>1. \A a \in Turns!Actors : a # h => TurnsFree(a, c)'
      BY <1>2, <1>3, <1>4, TurnsFreeFrame DEF TurnsOnly
    <2>2. TurnsOnly(h, c)'
      BY <2>1 DEF TurnsOnly, Turns!Actors
    <2>3. TurnsTold(c, 2)'
      BY <1>2, <1>4, TurnsToldFrame
    <2>4. Turns!Announced(c)' # turnsOut'[h] /\ <<Turns!Ev("running", c)>>' # turnsOut'[h]
      BY <1>3, TurnsEventFields DEF Turns!Announced
    <2>5. QED
      BY <1>1, <1>2, <1>3, <1>4, <2>2, <2>3, <2>4 DEF TurnsWhole
  <1>8. QED
    BY <1>2, <1>3, <1>5, <1>6, <1>7, TurnsCallStep DEF TurnsTurnAt

\* A tool of a turn ends.
LEMMA TurnsSyncToolEndsInv ==
    ASSUME TurnsBounds, TurnsInv, Turns!TypeOK', NEW h \in TurnsHandlers,
             Turns!SyncToolEnds(h) PROVE TurnsInv'
  <1>0. h \in Turns!Actors /\ h \notin TurnsCalls
    BY DEF TurnsBounds, Turns!Actors
  <1>1. PICK c \in TurnsCalls : c = turnsCur[h]
    BY DEF Turns!SyncToolEnds, Turns!At, TurnsInv, TurnsShaped, TurnsInCall
  <1>2. /\ turnsHpc[h] = "tool" /\ turnsOut[h] = <<>>
        /\ Turns!Goes(h, "tools", <<Turns!Ev("result", c), Turns!Ev("idle", c)>>)
        /\ UNCHANGED <<turnsLlm, turnsLog, turnsTurn, turnsTurns, turnsQ>>
        /\ turnsCur' = [turnsCur EXCEPT ![h] = TurnsNoCall] /\
             turnsCs' = [turnsCs EXCEPT ![c] = "done"]
        /\ turnsMore' = [turnsMore EXCEPT ![h] = @ - 1]
    BY <1>1 DEF Turns!SyncToolEnds, Turns!At
  <1>3. /\ turnsHpc'[h] = "tools" /\ turnsOut'[h] = <<Turns!Ev("result", c), Turns!Ev("idle", c)>>
        /\ \A g \in TurnsHandlers : g # h => turnsHpc'[g] = turnsHpc[g]
        /\ \A a \in Turns!Actors : a # h => turnsOut'[a] = turnsOut[a]
    BY <1>2, TurnsGoesTo DEF TurnsInv
  <1>4. /\ turnsCur'[h] = TurnsNoCall /\ \A g \in TurnsHandlers : g # h =>
             turnsCur'[g] = turnsCur[g] /\ turnsMore'[g] = turnsMore[g]
        /\ turnsCs'[c] = "done" /\ \A b \in TurnsCalls : b # c => turnsCs'[b] = turnsCs[b]
    BY <1>2 DEF TurnsInv, Turns!TypeOK
  <1>5. turnsCs[c] = "sync" /\ TurnsOnly(h, c) /\ TurnsTold(c, 2)
    BY <1>1, <1>2, TurnsHeld DEF TurnsInv, TurnsShaped
  <1>6. TurnsInTurn(h)' /\ TurnsInLoop(h)' /\ TurnsInCall(h)'
    <2>1. TurnsInTurn(h)'
      BY <1>3, <1>4 DEF TurnsInTurn, Turns!Ev
    <2>2. TurnsInLoop(h)' /\ TurnsInCall(h)'
      BY <1>3, <1>4 DEF TurnsInLoop, TurnsInCall
    <2>3. QED
      BY <2>1, <2>2
  <1>7. ASSUME NEW b \in TurnsCalls, b # c PROVE TurnsFree(h, b) /\ TurnsFree(h, b)'
    <2>1. \A k \in 1..Len(<<Turns!Ev("result", c), Turns!Ev("idle", c)>>) :
              <<Turns!Ev("result", c), Turns!Ev("idle", c)>>[k].of = c
      BY TurnsEventFields
    <2>2. QED
      BY <1>1, <1>2, <1>3, <1>4, <1>7, <2>1 DEF TurnsFree, TurnsBounds
  <1>8. TurnsWhole(c)'
    <2>1. \A a \in Turns!Actors : a # h => TurnsFree(a, c)'
      BY <1>3, <1>4, <1>5, TurnsFreeFrame DEF TurnsOnly
    <2>2. TurnsOnly(h, c)'
      BY <2>1 DEF TurnsOnly, Turns!Actors
    <2>3. TurnsTold(c, 2)'
      BY <1>2, <1>5, TurnsToldFrame
    <2>4. 4 - Len(turnsOut'[h]) = 2
      BY <1>3
    <2>5. turnsOut'[h] = <<Turns!Ev("result", c), Turns!Ev("idle", c)>>'
      BY <1>3 DEF Turns!Ev
    <2>6. QED
      BY <1>3, <1>4, <2>2, <2>3, <2>4, <2>5 DEF TurnsWhole
  <1>9. QED
    BY <1>2, <1>3, <1>4, <1>5, <1>6, <1>7, <1>8, TurnsCallStep DEF TurnsTurnAt

-----------------------------------------------------------------------------
(* The goroutine of a call.                                                *)

LEMMA TurnsGoroutineStep ==
    ASSUME TurnsBounds, TurnsInv, Turns!TypeOK', NEW c \in TurnsCalls,
           UNCHANGED <<turnsLlm, turnsLog, turnsHpc, turnsCur, turnsTurn, turnsTurns, turnsMore,
             turnsQ>>,
           \A a \in Turns!Actors : a # c => turnsOut'[a] = turnsOut[a],
           \A b \in TurnsCalls : b # c => turnsCs'[b] = turnsCs[b],
           turnsCs[c] = "done" => turnsCs'[c] = "done", TurnsInTool(c)', turnsOut[c] = <<>>,
           turnsCs[c] \in {"spawned", "registered"} =>
               turnsCs'[c] \in {"spawned", "registered"} \/ TurnsPromises(c)',
           \A b \in TurnsCalls : b # c => TurnsFree(c, b) /\ TurnsFree(c, b)',
           TurnsWhole(c)'
    PROVE  TurnsInv'
  <1>0. c \in Turns!Actors /\ c \notin TurnsHandlers
    BY DEF TurnsBounds, Turns!Actors
  <1>1. TurnsMoves(c)
    BY DEF TurnsMoves
  <1>2. TurnsShaped'
    BY <1>1, TurnsShapeFrameCall DEF TurnsInv
  <1>3. TurnsOwes => TurnsOwes'
    <2>1. ~TurnsPromises(c)
      BY DEF TurnsPromises
    <2>2. \A b \in TurnsCalls : turnsCs[b] \in {"spawned", "registered"} =>
              turnsCs'[b] \in {"spawned", "registered"} \/ TurnsPromises(b)'
      OBVIOUS
    <2>3. QED
      BY <1>0, <1>1, <2>1, <2>2, TurnsOwesFrame
  <1>4. TurnsFollowed' /\ \A g \in TurnsHandlers : TurnsDelivered(g)'
    <2>1. TurnsKeepsEnds
      BY TurnsSameEnds DEF TurnsInv
    <2>2. QED
      BY <1>3, <2>1, TurnsEndFrame DEF TurnsInv
  <1>5. TurnsNumbered'
    BY DEF TurnsInv, TurnsNumbered
  <1>6. \A g \in TurnsHandlers : TurnsAsked(g)'
    <2>1. \A g \in TurnsHandlers : turnsOut'[g] = turnsOut[g]
      BY <1>0 DEF Turns!Actors
    <2>2. QED
      BY <2>1, TurnsAskedFrame DEF TurnsInv
  <1>7. ASSUME NEW b \in TurnsCalls, b # c PROVE TurnsWhole(b)'
    <2>1. TurnsFree(c, b) /\ TurnsFree(c, b)'
      BY <1>7
    <2>2. TurnsWhole(b) /\ turnsCs'[b] = turnsCs[b] /\ turnsOut'[b] = turnsOut[b]
      BY <1>0, <1>7 DEF TurnsInv, Turns!Actors
    <2>3. QED
      BY <2>1, <2>2, TurnsWholeFrame
  <1>8. QED
    BY <1>2, <1>4, <1>5, <1>6, <1>7 DEF TurnsInv

\* It begins.
LEMMA TurnsRegisterInv ==
    ASSUME TurnsBounds, TurnsInv, Turns!TypeOK', NEW c \in TurnsCalls, Turns!Register(c)
      PROVE TurnsInv'
  <1>0. c \in Turns!Actors /\ c \notin TurnsHandlers
    BY DEF TurnsBounds, Turns!Actors
  <1>1. /\ turnsCs[c] = "spawned" /\ turnsCs'[c] = "registered" /\ \A b \in TurnsCalls : b # c =>
             turnsCs'[b] = turnsCs[b]
        /\ UNCHANGED <<turnsLlm, turnsLog, turnsOut, turnsHpc, turnsCur, turnsTurn, turnsTurns,
             turnsMore, turnsQ>>
        /\ \A h \in TurnsHandlers : turnsCur[h] # c
    BY DEF Turns!Register, Turns!turnVars, TurnsInv, Turns!TypeOK
  <1>2. turnsOut[c] = <<>>
    BY <1>1 DEF TurnsInv, TurnsShaped, TurnsInTool
  <1>3. TurnsOnly(c, c) /\ TurnsTold(c, 2)
    BY <1>1, TurnsOnItsOwn DEF TurnsInv
  <1>4. TurnsOnly(c, c)' /\ TurnsTold(c, 2)'
    BY <1>1, <1>3 DEF TurnsOnly, TurnsFree, TurnsTold
  <1>5. TurnsWhole(c)'
    BY <1>1, <1>4 DEF TurnsWhole
  <1>6. TurnsInTool(c)' /\ \A b \in TurnsCalls : TurnsFree(c, b) /\ TurnsFree(c, b)'
    BY <1>0, <1>1, <1>2 DEF TurnsInTool, TurnsFree
  <1>7. QED
    BY <1>1, <1>2, <1>5, <1>6, TurnsGoroutineStep

\* It says evs about itself.
LEMMA TurnsSaysInv ==
    ASSUME TurnsBounds, TurnsInv, Turns!TypeOK', NEW c \in TurnsCalls, NEW evs, NEW s,
           turnsCs[c] = "registered", turnsOut[c] = <<>>, turnsOut' = [turnsOut EXCEPT ![c] = evs],
           turnsCs' = [turnsCs EXCEPT ![c] = s],
           UNCHANGED <<turnsLlm, turnsLog, turnsHpc, turnsCur, turnsTurn, turnsTurns, turnsMore,
             turnsQ>>,
           \/ s = "registered" /\ \E e \in TurnsOutput(c) : evs = <<e>>
           \/ s = "ended" /\ evs = <<Turns!Ev("result", c), Turns!Ev("idle", c)>>
    PROVE  TurnsInv'
  <1>0. c \in Turns!Actors /\ c \notin TurnsHandlers
    BY DEF TurnsBounds, Turns!Actors
  <1>1. /\ turnsCs'[c] = s /\ \A b \in TurnsCalls : b # c => turnsCs'[b] = turnsCs[b]
        /\ turnsOut'[c] = evs /\ \A a \in Turns!Actors : a # c => turnsOut'[a] = turnsOut[a]
    BY <1>0 DEF TurnsInv, Turns!TypeOK
  <1>2. \A h \in TurnsHandlers : turnsCur[h] # c
    BY TurnsHeld DEF TurnsInv, TurnsShaped
  <1>3. TurnsOnly(c, c) /\ TurnsTold(c, 2)
    BY <1>2, TurnsOnItsOwn DEF TurnsInv
  <1>4. TurnsOnly(c, c)'
    BY <1>1, <1>3, TurnsFreeFrame DEF TurnsOnly
  <1>5. TurnsTold(c, 2)'
    BY <1>3, TurnsToldFrame
  <1>6. TurnsWhole(c)'
    <2>1. CASE s = "registered"
      BY <1>1, <1>4, <1>5, <2>1 DEF TurnsWhole
    <2>2. CASE s = "ended"
      <3>1. evs = <<Turns!Ev("result", c), Turns!Ev("idle", c)>>
        BY <2>2
      <3>2. 4 - Len(turnsOut'[c]) = 2
        BY <1>1, <3>1
      <3>3. QED
        BY <1>1, <1>4, <1>5, <2>2, <3>2 DEF TurnsWhole
    <2>3. QED
      BY <2>1, <2>2
  <1>7. TurnsInTool(c)'
    BY <1>1, Zenon DEF TurnsInTool, TurnsOutput, Turns!Ev
  <1>8. ASSUME NEW b \in TurnsCalls, b # c PROVE TurnsFree(c, b) /\ TurnsFree(c, b)'
    <2>1. \A k \in 1..Len(evs) : evs[k].of = c
      BY TurnsEventFields DEF TurnsOutput
    <2>2. QED
      BY <1>0, <1>1, <1>8, <2>1 DEF TurnsFree
  <1>9. s = "ended" => TurnsPromises(c)'
    <2>1. SUFFICES ASSUME s = "ended" PROVE TurnsPromises(c)'
      OBVIOUS
    <2>2. evs = <<Turns!Ev("result", c), Turns!Ev("idle", c)>>
      BY <2>1
    <2>3. Len(evs) = 2 /\ evs[2].kind \in TurnsEnds
      BY <2>2, TurnsEventFields DEF TurnsEnds
    <2>4. \E k \in 1..Len(evs) : evs[k].kind \in TurnsEnds
      BY <2>3
    <2>5. QED
      BY <1>1, <2>4 DEF TurnsPromises
  <1>10. QED
    BY <1>1, <1>6, <1>7, <1>8, <1>9, TurnsGoroutineStep

LEMMA TurnsToolOutputInv ==
    ASSUME TurnsBounds, TurnsInv, Turns!TypeOK', NEW c \in TurnsCalls, Turns!ToolOutput(c)
      PROVE TurnsInv'
  <1>1. /\ turnsOut' = [turnsOut EXCEPT ![c] = <<Turns!Piece("output", c)>>]
        /\ turnsCs[c] = "registered" /\ turnsOut[c] = <<>>
        /\ UNCHANGED <<turnsLlm, turnsLog, turnsHpc, turnsCur, turnsTurn, turnsTurns, turnsMore,
             turnsQ, turnsCs>>
    BY DEF Turns!ToolOutput, Turns!turnVars, Turns!callVars
  <1>2. Turns!Piece("output", c) \in TurnsOutput(c)
    BY DEF Turns!Piece, TurnsOutput, Turns!ToolOutput, TurnsInv, Turns!TypeOK, TurnsBounds
  <1>3. turnsCs' = [turnsCs EXCEPT ![c] = "registered"]
    BY <1>1 DEF TurnsInv, Turns!TypeOK
  <1>4. QED
    BY <1>1, <1>2, <1>3, TurnsSaysInv

LEMMA TurnsToolEndsInv ==
    ASSUME TurnsBounds, TurnsInv, Turns!TypeOK', NEW c \in TurnsCalls, Turns!ToolEnds(c)
      PROVE TurnsInv'
  BY TurnsSaysInv DEF Turns!ToolEnds, Turns!turnVars

\* It is over.
LEMMA TurnsUnregisterInv ==
    ASSUME TurnsBounds, TurnsInv, Turns!TypeOK', NEW c \in TurnsCalls, Turns!Unregister(c)
      PROVE TurnsInv'
  <1>0. c \in Turns!Actors /\ c \notin TurnsHandlers
    BY DEF TurnsBounds, Turns!Actors
  <1>1. /\ turnsCs[c] = "ended" /\ turnsCs'[c] = "done" /\ \A b \in TurnsCalls : b # c =>
             turnsCs'[b] = turnsCs[b]
        /\ UNCHANGED <<turnsLlm, turnsLog, turnsOut, turnsHpc, turnsCur, turnsTurn, turnsTurns,
             turnsMore, turnsQ>> /\ turnsOut[c] = <<>>
    BY DEF Turns!Unregister, Turns!turnVars, TurnsInv, Turns!TypeOK
  <1>2. \A h \in TurnsHandlers : turnsCur[h] # c
    BY <1>1, TurnsHeld DEF TurnsInv, TurnsShaped
  <1>3. TurnsOnly(c, c) /\ TurnsTold(c, 4)
    <2>1. 4 - Len(turnsOut[c]) = 4
      BY <1>1
    <2>2. QED
      BY <1>1, <1>2, <2>1, TurnsOnItsOwn DEF TurnsInv
  <1>4. \A b \in TurnsCalls : TurnsFree(c, b) /\ TurnsFree(c, b)'
    BY <1>0, <1>1 DEF TurnsFree
  <1>5. TurnsTold(c, 4)' /\ \A a \in Turns!Actors : TurnsFree(a, c)'
    <2>1. \A a \in Turns!Actors : TurnsFree(a, c)
      BY <1>3, <1>4 DEF TurnsOnly
    <2>2. QED
      BY <1>1, <1>3, <2>1, TurnsFreeFrame, TurnsToldFrame
  <1>6. TurnsWhole(c)'
    BY <1>1, <1>5 DEF TurnsWhole
  <1>7. TurnsInTool(c)'
    BY <1>1 DEF TurnsInTool
  <1>8. QED
    BY <1>1, <1>4, <1>6, <1>7, TurnsGoroutineStep

-----------------------------------------------------------------------------
\* A new turn.
LEMMA TurnsOnUserMessageInv ==
    ASSUME TurnsBounds, TurnsInv, Turns!TypeOK', NEW h \in TurnsHandlers,
             Turns!OnUserMessage(h) PROVE TurnsInv'
  <1>0. h \in Turns!Actors /\ h \notin TurnsCalls
    BY DEF TurnsBounds, Turns!Actors
  <1>1. /\ turnsOut[h] = <<>> /\ turnsHpc[h] = "loop" /\ turnsTurns + 1 <= TurnsMaxTurns
        /\ turnsTurns' = turnsTurns + 1 /\ turnsTurns \in Nat /\ TurnsMaxTurns \in Nat
        /\ UNCHANGED <<turnsLlm, turnsLog, turnsCur, turnsCs, turnsMore, turnsQ>>
        /\ turnsTurn'[h] = turnsTurns + 1 /\ \A g \in TurnsHandlers : g # h =>
             turnsTurn'[g] = turnsTurn[g]
    BY DEF Turns!OnUserMessage, Turns!Takes, Turns!At, Turns!callVars, TurnsInv, Turns!TypeOK,
       TurnsBounds
  <1>2. PICK t : t = turnsTurns + 1
    OBVIOUS
  <1>3. PICK p, evs :
        /\ Turns!Goes(h, p, evs)
        /\ \/ p = "loop" /\ evs = <<Turns!Ev("user", t), Turns!Ev("assistant", t)>>
           \/ p = "loop" /\ evs = <<Turns!Ev("user", t), Turns!Ev("error", t)>>
           \/ p = "context" /\ evs = <<Turns!Ev("user", t), Turns!Ev("thinking", t)>>
    BY <1>2, Zenon DEF Turns!OnUserMessage
  <1>4. /\ turnsHpc'[h] = p /\ turnsOut'[h] = evs
        /\ \A g \in TurnsHandlers : g # h => turnsHpc'[g] = turnsHpc[g]
        /\ \A a \in Turns!Actors : a # h => turnsOut'[a] = turnsOut[a]
    BY <1>3, TurnsGoesTo DEF TurnsInv
  <1>5. TurnsMoves(h)
    BY <1>1, <1>4 DEF TurnsMoves
  <1>6. turnsCur[h] = TurnsNoCall /\ turnsCur'[h] = TurnsNoCall
    BY <1>1 DEF TurnsInv, TurnsShaped, TurnsInCall
  <1>7. TurnsInTurn(h)' /\ TurnsInLoop(h)' /\ TurnsInCall(h)'
    <2>1. turnsTurn'[h] = t /\ t # 0
      BY <1>1, <1>2
    <2>2. Turns!Ev("user", t)' = Turns!Ev("user", t) /\
            Turns!Ev("thinking", t)' = Turns!Ev("thinking", t)
      BY DEF Turns!Ev
    <2>3. TurnsInTurn(h)'
      BY <1>3, <1>4, <2>1 DEF TurnsInTurn, Turns!Ev
    <2>4. TurnsInLoop(h)'
      BY <1>3, <1>4, <2>1, Zenon DEF TurnsInLoop, Turns!Ev
    <2>5. TurnsInCall(h)'
      BY <1>3, <1>4, <1>6 DEF TurnsInCall
    <2>6. QED
      BY <2>3, <2>4, <2>5
  <1>8. TurnsShaped'
    BY <1>1, <1>5, <1>7, TurnsShapeFrame DEF TurnsInv
  <1>9. TurnsOwes => TurnsOwes'
    <2>1. ~TurnsPromises(h) /\ turnsHpc[h] \notin TurnsTurnAt
      BY <1>1 DEF TurnsPromises, TurnsTurnAt
    <2>2. QED
      BY <1>0, <1>1, <1>5, <2>1, TurnsOwesFrame
  <1>10. TurnsFollowed' /\ \A g \in TurnsHandlers : TurnsDelivered(g)'
    <2>1. TurnsKeepsEnds
      BY <1>1, <1>3, <1>4, TurnsSameEnds DEF TurnsInv
    <2>2. QED
      BY <1>1, <1>9, <2>1, TurnsEndFrame DEF TurnsInv
  <1>11. TurnsNumbered'
    <2>1. \A g \in TurnsHandlers : turnsTurn[g] \in Nat /\ turnsTurn[g] <= turnsTurns
      BY DEF TurnsInv, Turns!TypeOK, TurnsNumbered
    <2>2. \A i \in 1..Len(turnsLog) : turnsLog[i].of \notin turnsTurns + 1 .. TurnsMaxTurns
      BY DEF TurnsInv, TurnsNumbered
    <2>3. turnsTurns + 2 .. TurnsMaxTurns \subseteq turnsTurns + 1 .. TurnsMaxTurns
      BY <1>1
    <2>4. QED
      BY <1>1, <2>1, <2>2, <2>3 DEF TurnsInv, TurnsNumbered
  <1>12. \A g \in TurnsHandlers : TurnsAsked(g)'
    <2>1. \A g \in TurnsHandlers : g # h => TurnsAsked(g)'
      BY <1>1, <1>4, TurnsAskedFrame DEF TurnsInv, Turns!Actors
    <2>2. \A i \in 1..Len(turnsLog) : turnsLog[i].of # t
      BY <1>1, <1>2 DEF TurnsInv, TurnsNumbered
    <2>3. CASE p = "loop"
      BY <1>4, <2>1, <2>3 DEF TurnsAsked
    <2>4. CASE p = "context"
      <3>1. turnsOut'[h] # <<>> /\ turnsOut'[h] # <<Turns!Ev("thinking", turnsTurn'[h])>>
        BY <1>3, <1>4, <2>4
      <3>2. Turns!Ev("thinking", turnsTurn[h])' = Turns!Ev("thinking", turnsTurn'[h])
        BY DEF Turns!Ev
      <3>3. TurnsAsked(h)'
        BY <1>1, <1>2, <2>2, <3>1, <3>2 DEF TurnsAsked
      <3>4. QED
        BY <2>1, <3>3
    <2>5. QED
      BY <1>3, <2>3, <2>4
  <1>13. ASSUME NEW c \in TurnsCalls PROVE TurnsWhole(c)'
    <2>1. t \in 0..TurnsMaxTurns /\ c # t /\ c # TurnsNoCall
      BY <1>1, <1>2 DEF TurnsBounds
    <2>2. \A k \in 1..Len(evs) : evs[k].of = t
      BY <1>3, TurnsEventFields
    <2>3. TurnsFree(h, c) /\ TurnsFree(h, c)'
      BY <1>0, <1>1, <1>4, <1>6, <2>1, <2>2 DEF TurnsFree
    <2>4. TurnsWhole(c) /\ turnsCs'[c] = turnsCs[c] /\ turnsOut'[c] = turnsOut[c]
      BY <1>0, <1>1, <1>4 DEF TurnsInv, Turns!Actors
    <2>5. QED
      BY <1>1, <1>4, <2>3, <2>4, TurnsWholeFrame
  <1>14. QED
    BY <1>8, <1>10, <1>11, <1>12, <1>13 DEF TurnsInv

-----------------------------------------------------------------------------
(* An event is appended and broadcast.                                     *)

\* What is left of a short queue.
LEMMA TurnsRest ==
    /\ \A e : Head(<<e>>) = e /\ Tail(<<e>>) = <<>>
    /\ \A e, f : Head(<<e, f>>) = e /\ Tail(<<e, f>>) = <<f>>
  OBVIOUS

LEMMA TurnsLengths ==
    /\ 4 - Len(<<>>) = 4 /\ {2, 3, 4} \subseteq 0..4
    /\ \A e : 4 - Len(<<e>>) = 3
    /\ \A e, f : 4 - Len(<<e, f>>) = 2
  OBVIOUS

\* Actor a says e.
TurnsSpeaks(a, e) ==
    /\ turnsOut[a] # <<>> /\ e = Head(turnsOut[a]) /\ e \in Turns!Events
    /\ turnsOut'[a] = Tail(turnsOut[a]) /\ \A b \in Turns!Actors : b # a =>
         turnsOut'[b] = turnsOut[b]
    /\ turnsLog' = IF Turns!Stored(e) THEN Append(turnsLog, e) ELSE turnsLog
    /\ UNCHANGED <<turnsLlm, turnsHpc, turnsCur, turnsCs, turnsTurn, turnsTurns, turnsMore>>

LEMMA TurnsSaySpeaks ==
    ASSUME Turns!TypeOK, NEW a \in Turns!Actors, Turns!Say(a)
    PROVE  TurnsSpeaks(a, Head(turnsOut[a]))
  <1>1. turnsOut[a] \in Seq(Turns!Events) /\ turnsOut[a] # <<>>
    BY DEF Turns!TypeOK, Turns!Say
  <1>2. Head(turnsOut[a]) \in Turns!Events
    BY <1>1, TurnsShrunk
  <1>3. turnsOut'[a] = Tail(turnsOut[a]) /\ \A b \in Turns!Actors : b # a =>
          turnsOut'[b] = turnsOut[b]
    BY DEF Turns!TypeOK, Turns!Say
  <1>4. QED
    BY <1>1, <1>2, <1>3 DEF Turns!Say, TurnsSpeaks, Turns!turnVars, Turns!callVars

\* What it can be.
LEMMA TurnsSpoken ==
    ASSUME TurnsBounds, Turns!TypeOK, TurnsShaped, NEW a \in Turns!Actors, turnsOut[a] # <<>>
    PROVE  LET e == Head(turnsOut[a]) IN
           \/ /\ a \in TurnsHandlers /\ turnsHpc[a] \in {"context", "generate", "loop"} /\
                   e.of = turnsTurn[a]
              /\ e.kind # "running" /\ (e.kind \in {"thinking", "delta"} =>
                   turnsHpc[a] \in TurnsTurnAt)
           \/ a \in TurnsHandlers /\ turnsHpc[a] = "loop" /\ e.of \in TurnsCalls /\
                e.kind = "canceled"
           \/ /\ a \in TurnsHandlers /\ turnsHpc[a] \in {"tool", "spawn"} /\ e.of = turnsCur[a] /\
                   turnsCur[a] \in TurnsCalls
              /\ \/ turnsOut[a] = Turns!Announced(turnsCur[a]) \/
                      turnsOut[a] = <<Turns!Ev("running", turnsCur[a])>>
                 \/ \E f \in TurnsOutput(turnsCur[a]) : turnsOut[a] = <<f>>
              /\ e.kind \in {"started", "running", "output"}
           \/ /\ a \in TurnsHandlers /\ turnsHpc[a] = "tools"
              /\ \E c \in TurnsCalls :
                     /\ turnsCs[c] = "done" /\ e.of = c /\ e.kind \in {"result", "idle"}
                     /\ turnsOut[a] \in {<<Turns!Ev("idle", c)>>, <<Turns!Ev("result", c),
                          Turns!Ev("idle", c)>>}
           \/ /\ a \in TurnsCalls /\ turnsCs[a] = "registered" /\ e.of = a /\ e.kind = "output"
              /\ \E f \in TurnsOutput(a) : turnsOut[a] = <<f>>
           \/ /\ a \in TurnsCalls /\ turnsCs[a] = "ended" /\ e.of = a /\
                   e.kind \in {"result", "idle"}
              /\ turnsOut[a] \in {<<Turns!Ev("idle", a)>>, <<Turns!Ev("result", a),
                   Turns!Ev("idle", a)>>}
  <1>1. CASE a \in TurnsHandlers
    <2>0. TurnsInTurn(a) /\ TurnsInLoop(a) /\ TurnsInCall(a)
      BY <1>1 DEF TurnsShaped
    <2>1. CASE turnsHpc[a] = "context"
      BY <1>1, <2>0, <2>1, TurnsEventFields, TurnsRest DEF TurnsInTurn, TurnsTurnAt
    <2>2. CASE turnsHpc[a] = "generate"
      <3>1. PICK e \in TurnsDelta(turnsTurn[a]) : turnsOut[a] = <<e>>
        BY <2>0, <2>2 DEF TurnsInTurn
      <3>2. e.of = turnsTurn[a] /\ e.kind = "delta" /\ Head(turnsOut[a]) = e
        BY <3>1, TurnsRest DEF TurnsDelta
      <3>3. QED
        BY <1>1, <2>2, <3>2 DEF TurnsTurnAt
    <2>3. CASE turnsHpc[a] = "tools"
      <3>1. PICK c \in TurnsCalls : turnsCs[c] = "done"
                               /\ turnsOut[a] \in {<<Turns!Ev("idle", c)>>, <<Turns!Ev("result",
                                    c), Turns!Ev("idle", c)>>}
        BY <2>0, <2>3 DEF TurnsInTurn
      <3>2. Head(turnsOut[a]) \in {Turns!Ev("idle", c), Turns!Ev("result", c)}
        BY <3>1, TurnsRest
      <3>3. Head(turnsOut[a]).of = c /\ Head(turnsOut[a]).kind \in {"result", "idle"}
        BY <3>2, TurnsEventFields
      <3>4. QED
        BY <1>1, <2>3, <3>1, <3>3
    <2>4. CASE turnsHpc[a] = "loop"
      <3>1. CASE \E c \in TurnsCalls : turnsOut[a] = <<Turns!Ev("canceled", c)>>
        <4>1. PICK c \in TurnsCalls : turnsOut[a] = <<Turns!Ev("canceled", c)>>
          BY <3>1
        <4>2. Head(turnsOut[a]) = Turns!Ev("canceled", c)
          BY <4>1, TurnsRest
        <4>3. Head(turnsOut[a]).of = c /\ Head(turnsOut[a]).kind = "canceled"
          BY <4>2, TurnsEventFields
        <4>4. QED
          BY <1>1, <2>4, <4>3
      <3>2. CASE ~\E c \in TurnsCalls : turnsOut[a] = <<Turns!Ev("canceled", c)>>
        <4>1. Head(turnsOut[a]) \in {Turns!Ev("user", turnsTurn[a]), Turns!Ev("assistant",
                turnsTurn[a]),
                                Turns!Ev("error", turnsTurn[a]), Turns!Ev("idle", turnsTurn[a])}
          BY <2>0, <2>4, <3>2, TurnsRest DEF TurnsInLoop
        <4>2. /\ Head(turnsOut[a]).of = turnsTurn[a]
              /\ Head(turnsOut[a]).kind \in {"user", "assistant", "error", "idle"}
          BY <4>1, TurnsEventFields
        <4>3. QED
          BY <1>1, <2>4, <4>2
      <3>3. QED
        BY <3>1, <3>2
    <2>5. CASE turnsHpc[a] \in {"tool", "spawn"}
      <3>1. CASE turnsOut[a] \in {<<Turns!Ev("running", turnsCur[a])>>,
                   Turns!Announced(turnsCur[a])}
        <4>1. Head(turnsOut[a]) \in {Turns!Ev("started", turnsCur[a]), Turns!Ev("running",
                turnsCur[a])}
          BY <3>1, TurnsRest DEF Turns!Announced
        <4>2. Head(turnsOut[a]).of = turnsCur[a] /\
                Head(turnsOut[a]).kind \in {"started", "running", "output"}
          BY <4>1, TurnsEventFields
        <4>3. QED
          BY <1>1, <2>0, <2>5, <3>1, <4>2 DEF TurnsInCall
      <3>2. CASE \E f \in TurnsOutput(turnsCur[a]) : turnsOut[a] = <<f>>
        <4>1. PICK f \in TurnsOutput(turnsCur[a]) : turnsOut[a] = <<f>>
          BY <3>2
        <4>2. f.of = turnsCur[a] /\ f.kind = "output" /\ Head(turnsOut[a]) = f
          BY <4>1, TurnsRest DEF TurnsOutput
        <4>3. QED
          BY <1>1, <2>0, <2>5, <4>1, <4>2 DEF TurnsInCall
      <3>3. QED
        BY <2>0, <2>5, <3>1, <3>2 DEF TurnsInCall
    <2>6. CASE turnsHpc[a] \in {"hello", "gone"}
      BY <2>0, <2>6 DEF TurnsInLoop
    <2>7. turnsHpc[a] \in TurnsTurnAt \cup {"loop", "spawn", "hello", "gone"}
      BY <1>1 DEF Turns!TypeOK, TurnsTurnAt
    <2>8. QED
      BY <2>1, <2>2, <2>3, <2>4, <2>5, <2>6, <2>7 DEF TurnsTurnAt
  <1>2. CASE a \in TurnsCalls
    <2>0. TurnsInTool(a)
      BY <1>2 DEF TurnsShaped
    <2>1. CASE turnsCs[a] = "registered"
      <3>1. PICK f \in TurnsOutput(a) : turnsOut[a] = <<f>>
        BY <2>0, <2>1 DEF TurnsInTool
      <3>2. f.of = a /\ f.kind = "output" /\ Head(turnsOut[a]) = f
        BY <3>1, TurnsRest DEF TurnsOutput
      <3>3. QED
        BY <1>2, <2>1, <3>1, <3>2
    <2>2. CASE turnsCs[a] = "ended"
      <3>1. Head(turnsOut[a]) \in {Turns!Ev("idle", a), Turns!Ev("result", a)}
        BY <2>0, <2>2, TurnsRest DEF TurnsInTool
      <3>2. Head(turnsOut[a]).of = a /\ Head(turnsOut[a]).kind \in {"result", "idle"}
        BY <3>1, TurnsEventFields
      <3>3. QED
        BY <1>2, <2>0, <2>2, <3>2 DEF TurnsInTool
    <2>3. QED
      BY <1>2, <2>0, <2>1, <2>2 DEF TurnsInTool, Turns!TypeOK
  <1>3. QED
    BY <1>1, <1>2 DEF Turns!Actors

LEMMA TurnsSpeaksShaped ==
    ASSUME TurnsBounds, TurnsShaped, NEW a \in Turns!Actors, NEW e, TurnsSpeaks(a, e)
    PROVE  TurnsShaped'
  <1>1. /\ UNCHANGED <<turnsHpc, turnsCur, turnsCs, turnsTurn, turnsMore>> /\
             turnsOut'[a] = Tail(turnsOut[a])
        /\ turnsOut[a] # <<>> /\ \A b \in Turns!Actors : b # a => turnsOut'[b] = turnsOut[b]
    BY DEF TurnsSpeaks
  <1>2. ASSUME NEW h \in TurnsHandlers PROVE TurnsInTurn(h)' /\ TurnsInLoop(h)' /\ TurnsInCall(h)'
    <2>1. TurnsInTurn(h) /\ TurnsInLoop(h) /\ TurnsInCall(h)
      BY <1>2 DEF TurnsShaped
    <2>2. CASE h # a
      <3>1. turnsOut'[h] = turnsOut[h]
        BY <1>1, <2>2 DEF Turns!Actors
      <3>2. QED
        BY <1>1, <2>1, <3>1 DEF TurnsInTurn, TurnsInLoop, TurnsInCall
    <2>3. CASE h = a
      <3>1. TurnsInTurn(h)'
        <4>1. turnsHpc[h] = "context" =>
                  turnsTurn[h] # 0 /\
                    Tail(turnsOut[h]) \in {<<>>, <<Turns!Ev("thinking", turnsTurn[h])>>}
          BY <1>1, <2>1, <2>3, TurnsRest, ZenonT(60) DEF TurnsInTurn
        <4>2. turnsHpc[h] = "generate" => Tail(turnsOut[h]) = <<>>
          BY <1>1, <2>1, <2>3, TurnsRest DEF TurnsInTurn
        <4>3. turnsHpc[h] = "tools" =>
                  \/ Tail(turnsOut[h]) = <<>>
                  \/ \E c \in TurnsCalls : turnsCs[c] = "done" /\
                       Tail(turnsOut[h]) = <<Turns!Ev("idle", c)>>
          BY <1>1, <2>1, <2>3, TurnsRest DEF TurnsInTurn
        <4>4. QED
          BY <1>1, <2>3, <4>1, <4>2, <4>3 DEF TurnsInTurn, Turns!Ev
      <3>2. TurnsInLoop(h)'
        <4>1. turnsHpc[h] = "loop" =>
                  Tail(turnsOut[h]) \in {<<>>, <<Turns!Ev("assistant", turnsTurn[h])>>,
                    <<Turns!Ev("error", turnsTurn[h])>>,
                                    <<Turns!Ev("idle", turnsTurn[h])>>}
          <5>1. CASE \E c \in TurnsCalls : turnsOut[h] = <<Turns!Ev("canceled", c)>>
            BY <5>1, TurnsRest, Zenon
          <5>2. CASE ~\E c \in TurnsCalls : turnsOut[h] = <<Turns!Ev("canceled", c)>>
            <6> DEFINE t == turnsTurn[h]
            <6>1. /\
                       Tail(<<Turns!Ev("user", t), Turns!Ev("assistant",
                         t)>>) = <<Turns!Ev("assistant", t)>>
                  /\ Tail(<<Turns!Ev("user", t), Turns!Ev("error", t)>>) = <<Turns!Ev("error", t)>>
                  /\ Tail(<<Turns!Ev("error", t), Turns!Ev("idle", t)>>) = <<Turns!Ev("idle", t)>>
                  /\ Tail(<<Turns!Ev("assistant", t), Turns!Ev("idle", t)>>) = <<Turns!Ev("idle",
                       t)>>
                  /\ Tail(<<Turns!Ev("assistant", t)>>) = <<>> /\
                       Tail(<<Turns!Ev("error", t)>>) = <<>>
                  /\ Tail(<<Turns!Ev("idle", t)>>) = <<>>
              BY TurnsRest, Zenon
            <6>2. turnsHpc[h] = "loop" =>
                      turnsOut[h] \in {<<Turns!Ev("user", t), Turns!Ev("assistant", t)>>,
                                  <<Turns!Ev("user", t), Turns!Ev("error", t)>>,
                                  <<Turns!Ev("assistant", t)>>, <<Turns!Ev("error", t)>>,
                                    <<Turns!Ev("idle", t)>>,
                                  <<Turns!Ev("error", t), Turns!Ev("idle", t)>>,
                                  <<Turns!Ev("assistant", t), Turns!Ev("idle", t)>>}
              BY <1>1, <2>1, <2>3, <5>2, Zenon DEF TurnsInLoop
            <6>3. QED
              BY <6>1, <6>2, Zenon
          <5>3. QED
            BY <5>1, <5>2
        <4>2. turnsHpc[h] \notin {"hello", "gone"}
          BY <1>1, <2>1, <2>3 DEF TurnsInLoop
        <4>3. QED
          BY <1>1, <2>3, <4>1, <4>2, Zenon DEF TurnsInLoop, Turns!Ev
      <3>3. TurnsInCall(h)'
        <4>1. turnsHpc[h] \in {"tool", "spawn"} =>
                Tail(turnsOut[h]) \in {<<>>, <<Turns!Ev("running", turnsCur[h])>>}
          BY <1>1, <2>1, <2>3, TurnsRest DEF TurnsInCall, Turns!Announced
        <4>2. QED
          BY <1>1, <2>1, <2>3, <4>1 DEF TurnsInCall, Turns!Ev
      <3>4. QED
        BY <3>1, <3>2, <3>3
    <2>4. QED
      BY <2>2, <2>3
  <1>3. ASSUME NEW c \in TurnsCalls PROVE TurnsInTool(c)'
    <2>1. TurnsInTool(c)
      BY <1>3 DEF TurnsShaped
    <2>2. CASE c # a
      <3>1. turnsOut'[c] = turnsOut[c]
        BY <1>1, <2>2 DEF Turns!Actors
      <3>2. QED
        BY <1>1, <2>1, <3>1 DEF TurnsInTool
    <2>3. CASE c = a
      <3>1. /\ turnsCs[c] = "registered" => Tail(turnsOut[c]) = <<>>
            /\ turnsCs[c] = "ended" => Tail(turnsOut[c]) \in {<<>>, <<Turns!Ev("idle", c)>>}
            /\ turnsCs[c] \notin {"unused", "sync", "spawned", "done"}
        BY <1>1, <2>1, <2>3, TurnsRest DEF TurnsInTool
      <3>2. QED
        BY <1>1, <2>3, <3>1, Zenon DEF TurnsInTool, Turns!Ev
    <2>4. QED
      BY <2>2, <2>3
  <1>4. QED
    BY <1>2, <1>3 DEF TurnsShaped

\* The end of the log.
LEMMA TurnsSpeaksLog ==
    ASSUME turnsLog \in Seq(Turns!Events), NEW a, NEW e, TurnsSpeaks(a, e)
    PROVE  /\ ~Turns!Stored(e) => turnsLog' = turnsLog
           /\ Turns!Stored(e) =>
                  /\ Len(turnsLog') = Len(turnsLog) + 1 /\ turnsLog'[Len(turnsLog')] = e /\
                       turnsLog' # <<>>
                  /\ \A i \in 1..Len(turnsLog) : turnsLog'[i] = turnsLog[i]
  BY TurnsGrown DEF TurnsSpeaks

LEMMA TurnsSpeaksOwes ==
    ASSUME Turns!TypeOK, NEW a \in Turns!Actors, NEW e, TurnsSpeaks(a, e), e.kind \notin TurnsEnds,
             TurnsOwes
    PROVE  TurnsOwes'
  <1>1. CASE \E h \in TurnsHandlers : turnsHpc[h] \in {"context", "generate", "tools", "tool"}
    BY <1>1 DEF TurnsOwes, TurnsSpeaks
  <1>2. CASE \E c \in TurnsCalls : turnsCs[c] \in {"spawned", "registered"}
    BY <1>2 DEF TurnsOwes, TurnsSpeaks
  <1>3. CASE \E b \in Turns!Actors : TurnsPromises(b)
    <2>1. PICK b \in Turns!Actors : TurnsPromises(b)
      BY <1>3
    <2>2. CASE b # a
      BY <2>1, <2>2 DEF TurnsOwes, TurnsPromises, TurnsSpeaks
    <2>3. CASE b = a
      <3>1. PICK k \in 1..Len(turnsOut[a]) : turnsOut[a][k].kind \in TurnsEnds
        BY <2>1, <2>3 DEF TurnsPromises
      <3>2. turnsOut[a] \in Seq(Turns!Events) /\ turnsOut[a] # <<>> /\ e = turnsOut[a][1] /\
              turnsOut'[a] = Tail(turnsOut[a])
        BY TurnsShrunk DEF Turns!TypeOK, TurnsSpeaks
      <3>3. /\ Len(turnsOut'[a]) = Len(turnsOut[a]) - 1
            /\ \A i \in 1..Len(turnsOut[a]) - 1 : turnsOut'[a][i] = turnsOut[a][i + 1]
        BY <3>2, TurnsShrunk
      <3>4. k # 1
        BY <3>1, <3>2
      <3>5. k - 1 \in 1..Len(turnsOut'[a]) /\ turnsOut'[a][k - 1] = turnsOut[a][k]
        BY <3>1, <3>2, <3>3, <3>4
      <3>6. QED
        BY <3>1, <3>5 DEF TurnsOwes, TurnsPromises
    <2>4. QED
      BY <2>2, <2>3
  <1>4. QED
    BY <1>1, <1>2, <1>3 DEF TurnsOwes

LEMMA TurnsSpeaksFollowed ==
    ASSUME TurnsBounds, TurnsInv, NEW a \in Turns!Actors, NEW e, TurnsSpeaks(a, e)
    PROVE  TurnsFollowed'
  <1>0. Turns!TypeOK /\ TurnsShaped /\ TurnsFollowed
    BY DEF TurnsInv
  <1>1. /\ ~Turns!Stored(e) => turnsLog' = turnsLog
        /\ Turns!Stored(e) =>
               /\ Len(turnsLog') = Len(turnsLog) + 1 /\ turnsLog'[Len(turnsLog')] = e
               /\ \A i \in 1..Len(turnsLog) : turnsLog'[i] = turnsLog[i]
        /\ Len(turnsLog) \in Nat
    BY <1>0, TurnsSpeaksLog DEF Turns!TypeOK
  <1>2. CASE e.kind \in TurnsEnds
    BY <1>0, <1>1, <1>2 DEF TurnsFollowed, TurnsEnds, Turns!Statuses, Turns!Stored
  <1>3. CASE e.kind \notin TurnsEnds
    <2>1. TurnsOwes => TurnsOwes'
      BY <1>0, <1>3, TurnsSpeaksOwes
    <2>2. e.kind \in {"thinking", "running"} => TurnsOwes'
      <3>1. ASSUME e.kind \in {"thinking", "running"}
            PROVE  \/ a \in TurnsHandlers /\ turnsHpc[a] \in TurnsTurnAt
                   \/ a \in TurnsHandlers /\ turnsHpc[a] = "spawn" /\ turnsCur[a] \in TurnsCalls
        BY <1>0, <3>1, TurnsSpoken DEF TurnsSpeaks, TurnsTurnAt
      <3>2. ASSUME a \in TurnsHandlers, turnsHpc[a] = "spawn", turnsCur[a] \in TurnsCalls
        PROVE turnsCs[turnsCur[a]] = "spawned"
        BY <1>0, <3>2, TurnsHeld DEF TurnsInv, TurnsShaped
      <3>3. QED
        BY <3>1, <3>2 DEF TurnsSpeaks, TurnsOwes, TurnsTurnAt
    <2>3. QED
      BY <1>0, <1>1, <2>1, <2>2 DEF TurnsFollowed
  <1>4. QED
    BY <1>2, <1>3

LEMMA TurnsSpeaksDelivered ==
    ASSUME TurnsBounds, TurnsInv, NEW a \in Turns!Actors, Turns!Say(a), NEW h \in TurnsHandlers
    PROVE  TurnsDelivered(h)'
  <1> DEFINE e == Head(turnsOut[a])
  <1>0. /\ Turns!TypeOK /\ TurnsShaped /\ TurnsDelivered(h) /\ TurnsSpeaks(a, e) /\
             e \in Turns!Events
        /\ turnsQ[h] \in Seq(Turns!Events) /\ Len(turnsQ[h]) <= TurnsCap /\
             turnsLog \in Seq(Turns!Events)
    BY TurnsSaySpeaks DEF TurnsInv, Turns!TypeOK, TurnsSpeaks
  <1>1. /\ turnsHpc'[h] = turnsHpc[h] /\ turnsLlm' = turnsLlm
        /\ turnsQ'[h] = IF Turns!Subscribed(h) /\
             Turns!Broadcast(e) THEN Turns!Offer(turnsQ[h], e) ELSE turnsQ[h]
    BY <1>0 DEF Turns!Say, TurnsSpeaks, Turns!TypeOK
  <1>2. turnsHpc'[h] \in {"hello", "gone"} => turnsQ'[h] = <<>>
    BY <1>0, <1>1 DEF TurnsDelivered, Turns!Subscribed
  <1>3. ASSUME turnsQ'[h] # <<>>
        PROVE  \/ TurnsOwes'
               \/ /\ turnsLog' # <<>>
                  /\ turnsQ'[h][Len(turnsQ'[h])] = turnsLog'[Len(turnsLog')] \/
                       ~Turns!Broadcast(turnsLog'[Len(turnsLog')])
    <2>1. CASE Turns!Stored(e)
      <3>1. turnsLog' # <<>> /\ turnsLog'[Len(turnsLog')] = e
        BY <1>0, <2>1, TurnsSpeaksLog
      <3>2. CASE Turns!Broadcast(e)
        <4>1. Turns!Subscribed(h)
          BY <1>0, <1>1, <1>3 DEF TurnsDelivered, Turns!Subscribed
        <4>2. turnsQ'[h] = Turns!Offer(turnsQ[h], e)
          BY <1>1, <3>2, <4>1
        <4>3. turnsQ'[h][Len(turnsQ'[h])] = e
          BY <1>0, <4>2, TurnsOffered
        <4>4. QED
          BY <3>1, <4>3
      <3>3. CASE ~Turns!Broadcast(e)
        BY <3>1, <3>3
      <3>4. QED
        BY <3>2, <3>3
    <2>2. CASE ~Turns!Stored(e)
      <3>1. e.kind = "delta"
        BY <2>2 DEF Turns!Stored
      <3>2. a \in TurnsHandlers /\ turnsHpc[a] \in TurnsTurnAt
        BY <1>0, <3>1, TurnsSpoken DEF TurnsSpeaks
      <3>3. QED
        BY <1>0, <3>2 DEF TurnsOwes, TurnsSpeaks, TurnsTurnAt
    <2>3. QED
      BY <2>1, <2>2
  <1>4. \A f : Turns!Broadcast(f)' = Turns!Broadcast(f)
    BY <1>1 DEF Turns!Broadcast
  <1>5. QED
    BY <1>1, <1>2, <1>3 DEF TurnsDelivered, Turns!Broadcast

LEMMA TurnsSpeaksNumbered ==
    ASSUME TurnsBounds, TurnsInv, NEW a \in Turns!Actors, NEW e, TurnsSpeaks(a, e)
    PROVE  TurnsNumbered'
  <1>0. Turns!TypeOK /\ TurnsShaped /\ TurnsNumbered /\ turnsLog \in Seq(Turns!Events) /\
          turnsTurns \in 0..TurnsMaxTurns
    BY DEF TurnsInv, Turns!TypeOK
  <1>1. e.of \in TurnsCalls \/ (a \in TurnsHandlers /\ e.of = turnsTurn[a])
    BY <1>0, TurnsSpoken DEF TurnsSpeaks
  <1>2. e.of \notin turnsTurns + 1 .. TurnsMaxTurns
    BY <1>0, <1>1 DEF TurnsBounds, TurnsNumbered, Turns!TypeOK
  <1>3. \A i \in 1..Len(turnsLog') : turnsLog'[i].of \notin turnsTurns + 1 .. TurnsMaxTurns
    BY <1>0, <1>2, TurnsSpeaksLog DEF TurnsNumbered
  <1>4. QED
    BY <1>0, <1>3 DEF TurnsNumbered, TurnsSpeaks

LEMMA TurnsSpeaksAsked ==
    ASSUME TurnsBounds, TurnsInv, NEW a \in Turns!Actors, NEW e, TurnsSpeaks(a, e),
             NEW h \in TurnsHandlers
    PROVE  TurnsAsked(h)'
  <1>0. /\ Turns!TypeOK /\ TurnsShaped /\ TurnsNumbered /\ TurnsAsked(h) /\ TurnsInTurn(h) /\
             turnsLog \in Seq(Turns!Events)
        /\ Len(turnsLog) \in Nat /\ turnsTurn[h] \in 0..TurnsMaxTurns /\ h \in Turns!Actors
        /\ turnsHpc' = turnsHpc /\ turnsTurn' = turnsTurn
    <2>1. Turns!TypeOK /\ TurnsShaped /\ TurnsNumbered /\ TurnsAsked(h)
      BY DEF TurnsInv
    <2>2. turnsLog \in Seq(Turns!Events) /\ Len(turnsLog) \in Nat /\
            turnsTurn[h] \in 0..TurnsMaxTurns
      BY <2>1 DEF Turns!TypeOK
    <2>3. TurnsInTurn(h) /\ h \in Turns!Actors /\ turnsHpc' = turnsHpc /\ turnsTurn' = turnsTurn
      BY <2>1 DEF TurnsShaped, Turns!Actors, TurnsSpeaks
    <2>4. QED
      BY <2>1, <2>2, <2>3
  <1>1. SUFFICES ASSUME turnsHpc[h] = "context" PROVE TurnsAsked(h)'
    BY <1>0 DEF TurnsAsked
  <1> DEFINE t == turnsTurn[h]
             of == {i \in 1..Len(turnsLog) : turnsLog[i].of = t}
  <1>2. t # 0 /\
          turnsOut[h] \in {<<>>, <<Turns!Ev("thinking", t)>>, <<Turns!Ev("user", t),
            Turns!Ev("thinking", t)>>}
    BY <1>0, <1>1 DEF TurnsInTurn
  <1>3. CASE a # h
    <2>1. e.of \in TurnsCalls \/ (a \in TurnsHandlers /\ e.of = turnsTurn[a])
      BY <1>0, TurnsSpoken DEF TurnsSpeaks
    <2>2. e.of # t
      BY <1>0, <1>2, <1>3, <2>1 DEF TurnsBounds, TurnsNumbered
    <2>3. turnsOut'[h] = turnsOut[h]
      BY <1>0, <1>3 DEF TurnsSpeaks
    <2>4. /\ {i \in 1..Len(turnsLog') : turnsLog'[i].of = t} = of
          /\ \A i \in of : turnsLog'[i] = turnsLog[i]
      BY <1>0, <2>2, TurnsSpeaksLog
    <2>5. QED
      BY <1>0, <1>1, <2>3, <2>4, SMTT(60) DEF TurnsAsked, Turns!Ev
  <1>4. CASE a = h
    <2>1. e = Head(turnsOut[h]) /\ turnsOut'[h] = Tail(turnsOut[h]) /\ turnsOut[h] # <<>>
      BY <1>4 DEF TurnsSpeaks
    <2> DEFINE last == Len(turnsLog) + 1
    <2>2. CASE turnsOut[h] = <<Turns!Ev("user", t), Turns!Ev("thinking", t)>>
      <3>1. e = Turns!Ev("user", t) /\ turnsOut'[h] = <<Turns!Ev("thinking", t)>> /\ Turns!Stored(e)
        BY <2>1, <2>2, TurnsRest, TurnsEventFields DEF Turns!Stored
      <3>2. of = {}
        BY <1>0, <1>1, <2>2 DEF TurnsAsked
      <3>3. /\ Len(turnsLog') = last /\ turnsLog'[last] = Turns!Ev("user", t)
            /\ \A i \in 1..Len(turnsLog) : turnsLog'[i] = turnsLog[i]
        BY <1>0, <3>1, TurnsSpeaksLog
      <3>4. {i \in 1..Len(turnsLog') : turnsLog'[i].of = t} = {last}
        BY <1>0, <3>2, <3>3, TurnsEventFields, SMTT(60)
      <3>5. /\ <<Turns!Ev("thinking", t)>> # <<Turns!Ev("user", t), Turns!Ev("thinking", t)>>
            /\ <<Turns!Ev("thinking", t)>> # <<>>
        OBVIOUS
      <3>6. last \in {i \in 1..Len(turnsLog') : turnsLog'[i].of = t}
        BY <3>4
      <3>7. QED
        BY <1>0, <1>1, <3>1, <3>3, <3>4, <3>5, <3>6 DEF TurnsAsked, Turns!Ev
    <2>3. CASE turnsOut[h] = <<Turns!Ev("thinking", t)>>
      <3>1. e = Turns!Ev("thinking", t) /\ turnsOut'[h] = <<>> /\ Turns!Stored(e)
        BY <2>1, <2>3, TurnsRest, TurnsEventFields DEF Turns!Stored
      <3>2. PICK i \in of : turnsLog[i] = Turns!Ev("user", t) /\ of = {i}
        BY <1>0, <1>1, <2>3 DEF TurnsAsked
      <3>3. /\ Len(turnsLog') = last /\ turnsLog'[last] = Turns!Ev("thinking", t)
            /\ \A j \in 1..Len(turnsLog) : turnsLog'[j] = turnsLog[j]
        BY <1>0, <3>1, TurnsSpeaksLog
      <3>4. {j \in 1..Len(turnsLog') : turnsLog'[j].of = t} = {i, last} /\ i < last
        BY <1>0, <3>2, <3>3, TurnsEventFields, SMTT(60)
      <3>5. turnsLog'[i] = Turns!Ev("user", t)
        BY <3>2, <3>3
      <3>6. <<>> # <<Turns!Ev("user", t), Turns!Ev("thinking", t)>> /\
              <<>> # <<Turns!Ev("thinking", t)>>
        OBVIOUS
      <3>7. QED
        BY <1>0, <1>1, <3>1, <3>3, <3>4, <3>5, <3>6 DEF TurnsAsked, Turns!Ev
    <2>4. QED
      BY <1>2, <2>1, <2>2, <2>3
  <1>5. QED
    BY <1>3, <1>4

-----------------------------------------------------------------------------
(* What has been told of a call.                                           *)

LEMMA TurnsLifeKinds ==
    /\ Turns!Life[1] = "started" /\ Turns!Life[2] = "running" /\ Turns!Life[3] = "result" /\
         Turns!Life[4] = "idle"
    /\ \A k \in 1..4 : Turns!Life[k] \notin {"output", "canceled"}
    /\ \A k, l \in 1..4 : Turns!Life[k] = Turns!Life[l] => k = l
  BY DEF Turns!Life

LEMMA TurnsToldOther ==
    ASSUME turnsLog \in Seq(Turns!Events), NEW a, NEW e, TurnsSpeaks(a, e), NEW c, NEW n \in 0..4,
             TurnsTold(c, n),
           e.of # c \/ e.kind = "canceled"
    PROVE  TurnsTold(c, n)'
  <1>1. CASE ~Turns!Stored(e)
    <2>1. turnsLog' = turnsLog
      BY <1>1, TurnsSpeaksLog
    <2>2. QED
      BY <2>1, TurnsToldFrame
  <1>2. CASE Turns!Stored(e)
    <2>1. /\ Len(turnsLog') = Len(turnsLog) + 1 /\ turnsLog'[Len(turnsLog')] = e /\
               Len(turnsLog) \in Nat
          /\ \A i \in 1..Len(turnsLog) : turnsLog'[i] = turnsLog[i]
      BY <1>2, TurnsSpeaksLog
    <2>2. \A k \in 1..n : e # Turns!Ev(Turns!Life[k], c)
      BY TurnsLifeKinds, TurnsEventFields
    <2>3. \A i \in 1..Len(turnsLog') : i \in 1..Len(turnsLog) \/ turnsLog'[i] = e
      BY <2>1
    <2>4. \A i \in 1..Len(turnsLog'), k \in 1..n :
              turnsLog'[i] = Turns!Ev(Turns!Life[k], c) =>
                i \in 1..Len(turnsLog) /\ turnsLog[i] = Turns!Ev(Turns!Life[k], c)
      BY <2>1, <2>2, <2>3
    <2>5. \A i \in 1..Len(turnsLog') : turnsLog'[i].of = c /\ turnsLog'[i].kind # "canceled" =>
              i \in 1..Len(turnsLog) /\ turnsLog[i] = turnsLog'[i]
      BY <2>1, <2>3
    <2>6. \A i \in 1..Len(turnsLog') : turnsLog'[i].of = c =>
              turnsLog'[i].kind \in {"output", "canceled"} \/
                \E k \in 1..n : turnsLog'[i] = Turns!Ev(Turns!Life[k], c)
      <3>1. SUFFICES ASSUME NEW i \in 1..Len(turnsLog'), turnsLog'[i].of = c,
                       turnsLog'[i].kind # "canceled"
                     PROVE  turnsLog'[i].kind = "output" \/
                              \E k \in 1..n : turnsLog'[i] = Turns!Ev(Turns!Life[k], c)
        OBVIOUS
      <3>2. i \in 1..Len(turnsLog) /\ turnsLog[i] = turnsLog'[i]
        BY <2>5, <3>1
      <3>3. QED
        BY <3>1, <3>2 DEF TurnsTold
    <2>7. \A k \in 1..n : \E i \in 1..Len(turnsLog') : turnsLog'[i] = Turns!Ev(Turns!Life[k], c)
      BY <2>1 DEF TurnsTold
    <2>8. \A i, j \in 1..Len(turnsLog'), k, l \in 1..n :
              turnsLog'[i] = Turns!Ev(Turns!Life[k], c) /\
                turnsLog'[j] = Turns!Ev(Turns!Life[l], c) /\ k <= l => i <= j
      BY <2>4 DEF TurnsTold
    <2>9. \A i, j \in 1..Len(turnsLog'), k \in 1..n :
              turnsLog'[i].of = c /\ turnsLog'[i].kind = "output" /\
                turnsLog'[j] = Turns!Ev(Turns!Life[k], c) =>
                  (k <= 2 => j < i) /\ (k >= 3 => i < j)
      BY <2>4, <2>5 DEF TurnsTold
    <2>10. \A i \in 1..Len(turnsLog') : turnsLog'[i].of = c /\ turnsLog'[i].kind = "output" =>
             n >= 2
      BY <2>5 DEF TurnsTold
    <2>11. QED
      BY <2>6, <2>7, <2>8, <2>9, <2>10 DEF TurnsTold, Turns!Ev
  <1>3. QED
    BY <1>1, <1>2

LEMMA TurnsToldOutput ==
    ASSUME turnsLog \in Seq(Turns!Events), NEW a, NEW e, TurnsSpeaks(a, e), NEW c, TurnsTold(c, 2),
             e \in TurnsOutput(c)
    PROVE  TurnsTold(c, 2)'
  <1>1. e.of = c /\ e.kind = "output" /\ Turns!Stored(e)
    BY DEF TurnsOutput, Turns!Stored
  <1>2. /\ Len(turnsLog') = Len(turnsLog) + 1 /\ turnsLog'[Len(turnsLog')] = e /\
             Len(turnsLog) \in Nat
        /\ \A i \in 1..Len(turnsLog) : turnsLog'[i] = turnsLog[i]
    BY <1>1, TurnsSpeaksLog
  <1>3. \A k \in 1..2 : e # Turns!Ev(Turns!Life[k], c)
    BY <1>1, TurnsLifeKinds, TurnsEventFields
  <1>4. \A i \in 1..Len(turnsLog') : i \in 1..Len(turnsLog) \/ (i = Len(turnsLog) + 1 /\
          turnsLog'[i] = e)
    BY <1>2
  <1>5. \A i \in 1..Len(turnsLog'), k \in 1..2 :
            turnsLog'[i] = Turns!Ev(Turns!Life[k], c) =>
              i \in 1..Len(turnsLog) /\ turnsLog[i] = Turns!Ev(Turns!Life[k], c)
    BY <1>2, <1>3, <1>4
  <1>6. \A i \in 1..Len(turnsLog') : turnsLog'[i].of = c =>
            turnsLog'[i].kind \in {"output", "canceled"} \/
              \E k \in 1..2 : turnsLog'[i] = Turns!Ev(Turns!Life[k], c)
    BY <1>1, <1>2, <1>4 DEF TurnsTold
  <1>7. \A k \in 1..2 : \E i \in 1..Len(turnsLog') : turnsLog'[i] = Turns!Ev(Turns!Life[k], c)
    BY <1>2 DEF TurnsTold
  <1>8. \A i, j \in 1..Len(turnsLog'), k, l \in 1..2 :
            turnsLog'[i] = Turns!Ev(Turns!Life[k], c) /\
              turnsLog'[j] = Turns!Ev(Turns!Life[l], c) /\ k <= l => i <= j
    BY <1>5 DEF TurnsTold
  <1>9. \A i, j \in 1..Len(turnsLog'), k \in 1..2 :
            turnsLog'[i].of = c /\ turnsLog'[i].kind = "output" /\
              turnsLog'[j] = Turns!Ev(Turns!Life[k], c) =>
                (k <= 2 => j < i) /\ (k >= 3 => i < j)
    <2>1. SUFFICES ASSUME NEW i \in 1..Len(turnsLog'), NEW j \in 1..Len(turnsLog'), NEW k \in 1..2,
                          turnsLog'[i].of = c, turnsLog'[i].kind = "output",
                            turnsLog'[j] = Turns!Ev(Turns!Life[k], c)
                   PROVE  j < i /\ k < 3
      OBVIOUS
    <2>2. j \in 1..Len(turnsLog) /\ turnsLog[j] = Turns!Ev(Turns!Life[k], c)
      BY <1>5, <2>1
    <2>3. CASE i \in 1..Len(turnsLog)
      BY <1>2, <2>1, <2>2, <2>3 DEF TurnsTold
    <2>4. CASE i = Len(turnsLog) + 1
      BY <1>2, <2>2, <2>4
    <2>5. QED
      BY <1>4, <2>3, <2>4
  <1>10. \A i \in 1..Len(turnsLog') : turnsLog'[i].of = c /\ turnsLog'[i].kind = "output" => 2 >= 2
    OBVIOUS
  <1>11. QED
    BY <1>6, <1>7, <1>8, <1>9, <1>10, Zenon DEF TurnsTold, Turns!Ev, Turns!Life

LEMMA TurnsToldNext ==
    ASSUME turnsLog \in Seq(Turns!Events), NEW a, NEW e, TurnsSpeaks(a, e), NEW c, NEW n \in 0..3,
             TurnsTold(c, n),
           e = Turns!Ev(Turns!Life[n + 1], c)
    PROVE  TurnsTold(c, n + 1)'
  <1>1. e.of = c /\ e.kind \notin {"output", "canceled", "delta"} /\ Turns!Stored(e) /\
          n + 1 \in 1..4
    BY TurnsEventFields DEF Turns!Life, Turns!Stored
  <1>2. /\ Len(turnsLog') = Len(turnsLog) + 1 /\ turnsLog'[Len(turnsLog')] = e /\
             Len(turnsLog) \in Nat
        /\ \A i \in 1..Len(turnsLog) : turnsLog'[i] = turnsLog[i]
    BY <1>1, TurnsSpeaksLog
  <1>3. \A i \in 1..Len(turnsLog') : i \in 1..Len(turnsLog) \/ (i = Len(turnsLog) + 1 /\
          turnsLog'[i] = e)
    BY <1>2
  <1>4. \A k \in 1..n + 1 : k \in 1..4 /\ (k \in 1..n \/ k = n + 1)
    OBVIOUS
  <1>5. \A k \in 1..n : e # Turns!Ev(Turns!Life[k], c)
    <2>1. SUFFICES ASSUME NEW k \in 1..n, e = Turns!Ev(Turns!Life[k], c) PROVE FALSE
      OBVIOUS
    <2>2. Turns!Life[k] = Turns!Life[n + 1]
      BY <2>1 DEF Turns!Ev
    <2>3. QED
      BY <1>1, <2>2, TurnsLifeKinds
  <1>6. \A i \in 1..Len(turnsLog) : turnsLog[i] # e
    <2>1. SUFFICES ASSUME NEW i \in 1..Len(turnsLog), turnsLog[i] = e PROVE FALSE
      OBVIOUS
    <2>2. PICK k \in 1..n : turnsLog[i] = Turns!Ev(Turns!Life[k], c)
      BY <1>1, <2>1 DEF TurnsTold
    <2>3. QED
      BY <1>5, <2>1, <2>2
  <1>7. \A i \in 1..Len(turnsLog'), k \in 1..n + 1 : turnsLog'[i] = Turns!Ev(Turns!Life[k], c) =>
            \/ k \in 1..n /\ i \in 1..Len(turnsLog) /\ turnsLog[i] = Turns!Ev(Turns!Life[k], c)
            \/ k = n + 1 /\ i = Len(turnsLog) + 1
    <2>1. SUFFICES ASSUME NEW i \in 1..Len(turnsLog'), NEW k \in 1..n + 1,
                     turnsLog'[i] = Turns!Ev(Turns!Life[k], c)
                   PROVE  \/ k \in 1..n /\ i \in 1..Len(turnsLog) /\
                               turnsLog[i] = Turns!Ev(Turns!Life[k], c)
                          \/ k = n + 1 /\ i = Len(turnsLog) + 1
      OBVIOUS
    <2>2. CASE i \in 1..Len(turnsLog)
      BY <1>2, <1>4, <1>6, <2>1, <2>2
    <2>3. CASE i = Len(turnsLog) + 1
      BY <1>2, <1>4, <1>5, <2>1, <2>3
    <2>4. QED
      BY <1>3, <2>2, <2>3
  <1>8. \A i \in 1..Len(turnsLog') : turnsLog'[i].of = c =>
            turnsLog'[i].kind \in {"output", "canceled"} \/
              \E k \in 1..n + 1 : turnsLog'[i] = Turns!Ev(Turns!Life[k], c)
    BY <1>2, <1>3 DEF TurnsTold
  <1>9. \A k \in 1..n + 1 : \E i \in 1..Len(turnsLog') : turnsLog'[i] = Turns!Ev(Turns!Life[k], c)
    <2>1. \A k \in 1..n : \E i \in 1..Len(turnsLog') : turnsLog'[i] = Turns!Ev(Turns!Life[k], c)
      <3>1. SUFFICES ASSUME NEW k \in 1..n
        PROVE \E i \in 1..Len(turnsLog') : turnsLog'[i] = Turns!Ev(Turns!Life[k], c)
        OBVIOUS
      <3>2. PICK i \in 1..Len(turnsLog) : turnsLog[i] = Turns!Ev(Turns!Life[k], c)
        BY DEF TurnsTold
      <3>3. i \in 1..Len(turnsLog') /\ turnsLog'[i] = Turns!Ev(Turns!Life[k], c)
        BY <1>2, <3>2
      <3>4. QED
        BY <3>3
    <2>2. \E i \in 1..Len(turnsLog') : turnsLog'[i] = Turns!Ev(Turns!Life[n + 1], c)
      BY <1>2
    <2>3. QED
      BY <1>4, <2>1, <2>2
  <1>10. \A i, j \in 1..Len(turnsLog'), k, l \in 1..n + 1 :
             turnsLog'[i] = Turns!Ev(Turns!Life[k], c) /\
               turnsLog'[j] = Turns!Ev(Turns!Life[l], c) /\ k <= l => i <= j
    <2>1. SUFFICES ASSUME NEW i \in 1..Len(turnsLog'), NEW j \in 1..Len(turnsLog'),
                          NEW k \in 1..n + 1, NEW l \in 1..n + 1,
                          turnsLog'[i] = Turns!Ev(Turns!Life[k], c),
                            turnsLog'[j] = Turns!Ev(Turns!Life[l], c), k <= l
                   PROVE  i <= j
      OBVIOUS
    <2>2. CASE l = n + 1
      BY <1>2, <1>7, <2>1, <2>2
    <2>3. CASE l \in 1..n
      <3>1. k \in 1..n
        BY <2>1, <2>3
      <3>2. /\ i \in 1..Len(turnsLog) /\ turnsLog[i] = Turns!Ev(Turns!Life[k], c)
            /\ j \in 1..Len(turnsLog) /\ turnsLog[j] = Turns!Ev(Turns!Life[l], c)
        BY <1>7, <2>1, <2>3, <3>1
      <3>3. QED
        BY <2>1, <2>3, <3>1, <3>2 DEF TurnsTold
    <2>4. QED
      BY <1>4, <2>2, <2>3
  <1>11. \A i \in 1..Len(turnsLog') : turnsLog'[i].of = c /\ turnsLog'[i].kind = "output" =>
             i \in 1..Len(turnsLog) /\ turnsLog[i] = turnsLog'[i]
    BY <1>1, <1>2, <1>3
  <1>12. \A i, j \in 1..Len(turnsLog'), k \in 1..n + 1 :
             turnsLog'[i].of = c /\ turnsLog'[i].kind = "output" /\
               turnsLog'[j] = Turns!Ev(Turns!Life[k], c) =>
                 (k <= 2 => j < i) /\ (k >= 3 => i < j)
    <2>1. SUFFICES ASSUME NEW i \in 1..Len(turnsLog'), NEW j \in 1..Len(turnsLog'),
                     NEW k \in 1..n + 1,
                          turnsLog'[i].of = c, turnsLog'[i].kind = "output",
                            turnsLog'[j] = Turns!Ev(Turns!Life[k], c)
                   PROVE  (k <= 2 => j < i) /\ (k >= 3 => i < j)
      OBVIOUS
    <2>2. i \in 1..Len(turnsLog) /\ turnsLog[i].of = c /\ turnsLog[i].kind = "output"
      BY <1>11, <2>1
    <2>3. n >= 2
      BY <2>2 DEF TurnsTold
    <2>4. CASE k \in 1..n
      <3>1. j \in 1..Len(turnsLog) /\ turnsLog[j] = Turns!Ev(Turns!Life[k], c)
        BY <1>7, <2>1, <2>4
      <3>2. QED
        BY <2>2, <2>4, <3>1 DEF TurnsTold
    <2>5. CASE k = n + 1
      <3>1. j = Len(turnsLog) + 1
        BY <1>7, <2>1, <2>5
      <3>2. QED
        BY <1>2, <2>2, <2>3, <2>5, <3>1
    <2>6. QED
      BY <1>4, <2>4, <2>5
  <1>13. \A i \in 1..Len(turnsLog') : turnsLog'[i].of = c /\ turnsLog'[i].kind = "output" =>
           n + 1 >= 2
    BY <1>11 DEF TurnsTold
  <1>14. QED
    BY <1>8, <1>9, <1>10, <1>12, <1>13 DEF TurnsTold, Turns!Ev

\* What a has left to say is less.
LEMMA TurnsSpeaksFree ==
    ASSUME Turns!TypeOK, NEW a \in Turns!Actors, NEW e, TurnsSpeaks(a, e), NEW b \in Turns!Actors,
             NEW c, TurnsFree(b, c)
    PROVE  TurnsFree(b, c)'
  <1>1. CASE b # a
    BY <1>1, TurnsFreeFrame DEF TurnsSpeaks
  <1>2. CASE b = a
    <2>1. turnsOut[a] \in Seq(Turns!Events) /\ turnsOut[a] # <<>> /\
            turnsOut'[a] = Tail(turnsOut[a]) /\ turnsCur' = turnsCur
      BY DEF Turns!TypeOK, TurnsSpeaks
    <2>2. /\ Len(turnsOut'[a]) = Len(turnsOut[a]) - 1 /\ Len(turnsOut[a]) \in Nat
          /\ \A k \in 1..Len(turnsOut[a]) - 1 : turnsOut'[a][k] = turnsOut[a][k + 1]
      BY <2>1, TurnsShrunk
    <2>3. \A k \in 1..Len(turnsOut'[a]) : k + 1 \in 1..Len(turnsOut[a]) /\
            turnsOut'[a][k] = turnsOut[a][k + 1]
      BY <2>2
    <2>4. QED
      BY <1>2, <2>1, <2>3 DEF TurnsFree
  <1>3. QED
    BY <1>1, <1>2

\* What a says of a call that it is free of.
LEMMA TurnsFreeOther ==
    ASSUME Turns!TypeOK, NEW a \in Turns!Actors, NEW e, TurnsSpeaks(a, e), NEW c, TurnsFree(a, c)
    PROVE  e.of # c \/ e.kind = "canceled"
  <1>1. turnsOut[a] \in Seq(Turns!Events) /\ turnsOut[a] # <<>> /\ e = Head(turnsOut[a])
    BY DEF Turns!TypeOK, TurnsSpeaks
  <1>2. 1 \in 1..Len(turnsOut[a]) /\ turnsOut[a][1] = e
    BY <1>1, TurnsShrunk
  <1>3. QED
    BY <1>2 DEF TurnsFree

LEMMA TurnsSpeaksWhole ==
    ASSUME TurnsBounds, TurnsInv, NEW a \in Turns!Actors, NEW e, TurnsSpeaks(a, e),
             NEW c \in TurnsCalls
    PROVE  TurnsWhole(c)'
  <1>0. /\ Turns!TypeOK /\ TurnsShaped /\ TurnsWhole(c) /\ turnsLog \in Seq(Turns!Events) /\
             c \in Turns!Actors
        /\ TurnsHandlers \subseteq Turns!Actors /\ TurnsHandlers \cap TurnsCalls = {} /\
             TurnsNoCall \notin TurnsCalls
    <2>1. Turns!TypeOK /\ TurnsShaped /\ TurnsWhole(c)
      BY DEF TurnsInv
    <2>2. QED
      BY <2>1 DEF Turns!TypeOK, Turns!Actors, TurnsBounds
  <1>1. /\ turnsHpc' = turnsHpc /\ turnsCur' = turnsCur /\ turnsCs' = turnsCs /\
             turnsOut'[a] = Tail(turnsOut[a])
        /\ turnsOut[a] # <<>> /\ e = Head(turnsOut[a]) /\ \A b \in Turns!Actors : b # a =>
             turnsOut'[b] = turnsOut[b]
    BY DEF TurnsSpeaks
  <1>2. \A b \in Turns!Actors : TurnsFree(b, c) => TurnsFree(b, c)'
    BY <1>0, TurnsSpeaksFree
  <1>3. \A b \in Turns!Actors : TurnsOnly(b, c) => TurnsOnly(b, c)'
    BY <1>2 DEF TurnsOnly
  <1>4. TurnsFree(a, c) => \A n \in 0..4 : TurnsTold(c, n) => TurnsTold(c, n)'
    BY <1>0, TurnsFreeOther, TurnsToldOther
  <1>5. CASE turnsCs[c] = "unused" /\ TurnsTold(c, 0) /\ \A b \in Turns!Actors : TurnsFree(b, c)
    BY <1>1, <1>2, <1>4, <1>5 DEF TurnsWhole
  <1>6. ASSUME NEW h \in TurnsHandlers,
               turnsCs[c] = IF turnsHpc[h] = "tool" THEN "sync" ELSE "spawned", turnsCur[h] = c,
                 TurnsOnly(h, c),
               TurnsTold(c, IF turnsOut[h] = Turns!Announced(c) THEN 0
                       ELSE IF turnsOut[h] = <<Turns!Ev("running", c)>> THEN 1 ELSE 2)
        PROVE  TurnsWhole(c)'
    <2>1. Turns!Announced(c)' = Turns!Announced(c) /\
            Turns!Ev("running", c)' = Turns!Ev("running", c)
      BY DEF Turns!Announced, Turns!Ev
    <2>2. TurnsOnly(h, c)'
      BY <1>0, <1>3, <1>6
    <2>3. CASE a # h
      <3>1. TurnsFree(a, c) /\ turnsOut'[h] = turnsOut[h]
        BY <1>0, <1>1, <1>6, <2>3 DEF TurnsOnly
      <3>2. TurnsTold(c, IF turnsOut[h] = Turns!Announced(c) THEN 0
                    ELSE IF turnsOut[h] = <<Turns!Ev("running", c)>> THEN 1 ELSE 2)'
        BY <1>4, <1>6, <2>1, <3>1
      <3>3. QED
        BY <1>1, <1>6, <2>1, <2>2, <3>2 DEF TurnsWhole
    <2>4. CASE a = h
      <3>1. TurnsInCall(h) /\ turnsHpc[h] \in {"tool", "spawn"}
        BY <1>0, <1>6 DEF TurnsShaped, TurnsInCall
      <3>2. \/ turnsOut[h] = Turns!Announced(c) \/ turnsOut[h] = <<Turns!Ev("running", c)>>
            \/ \E f \in TurnsOutput(c) : turnsOut[h] = <<f>>
        BY <1>1, <1>6, <2>4, <3>1 DEF TurnsInCall
      <3>3. <<Turns!Ev("running", c)>> # Turns!Announced(c)
        BY DEF Turns!Announced
      <3>4. CASE turnsOut[h] = Turns!Announced(c)
        <4>1. e = Turns!Ev(Turns!Life[0 + 1], c) /\ turnsOut'[h] = <<Turns!Ev("running", c)>>
          BY <1>1, <2>4, <3>4, TurnsRest DEF Turns!Announced, Turns!Life
        <4>2. TurnsTold(c, 0)
          BY <1>6, <3>4
        <4>3. TurnsTold(c, 0 + 1)'
          BY <1>0, <4>1, <4>2, TurnsToldNext
        <4>4. TurnsTold(c, IF turnsOut[h] = Turns!Announced(c) THEN 0
                      ELSE IF turnsOut[h] = <<Turns!Ev("running", c)>> THEN 1 ELSE 2)'
          BY <2>1, <3>3, <4>1, <4>3
        <4>5. QED
          BY <1>1, <1>6, <2>1, <2>2, <4>4 DEF TurnsWhole
      <3>5. CASE turnsOut[h] # Turns!Announced(c)
        <4>1. e = Head(turnsOut[h]) /\ turnsOut'[h] = <<>>
          BY <1>1, <2>4, <3>2, <3>5, TurnsRest
        <4>2. <<>> # Turns!Announced(c) /\ <<>> # <<Turns!Ev("running", c)>>
          BY DEF Turns!Announced
        <4>3. TurnsTold(c, 2)'
          <5>1. CASE turnsOut[h] = <<Turns!Ev("running", c)>>
            <6>1. e = Turns!Ev(Turns!Life[1 + 1], c)
              BY <4>1, <5>1, TurnsRest DEF Turns!Life
            <6>2. TurnsTold(c, 1)
              BY <1>6, <3>5, <5>1
            <6>3. TurnsTold(c, 1 + 1)'
              BY <1>0, <6>1, <6>2, TurnsToldNext
            <6>4. QED
              BY <6>3
          <5>2. CASE turnsOut[h] # <<Turns!Ev("running", c)>>
            <6>1. e \in TurnsOutput(c)
              BY <3>2, <3>5, <4>1, <5>2, TurnsRest
            <6>2. TurnsTold(c, 2)
              BY <1>6, <3>5, <5>2
            <6>3. QED
              BY <1>0, <6>1, <6>2, TurnsToldOutput
          <5>3. QED
            BY <5>1, <5>2
        <4>4. TurnsTold(c, IF turnsOut[h] = Turns!Announced(c) THEN 0
                      ELSE IF turnsOut[h] = <<Turns!Ev("running", c)>> THEN 1 ELSE 2)'
          BY <2>1, <4>1, <4>2, <4>3
        <4>5. QED
          BY <1>1, <1>6, <2>1, <2>2, <4>4 DEF TurnsWhole
      <3>6. QED
        BY <3>4, <3>5
    <2>5. QED
      BY <2>3, <2>4
  <1>7. CASE turnsCs[c] \in {"spawned", "registered"} /\ TurnsOnly(c, c) /\ TurnsTold(c, 2)
    <2>1. TurnsTold(c, 2)'
      <3>1. CASE a = c
        <4>1. TurnsInTool(c) /\ turnsOut[c] # <<>>
          BY <1>0, <1>1, <3>1 DEF TurnsShaped
        <4>2. PICK f \in TurnsOutput(c) : turnsOut[c] = <<f>>
          BY <1>7, <4>1 DEF TurnsInTool
        <4>3. e = f
          BY <1>1, <3>1, <4>2, TurnsRest
        <4>4. QED
          BY <1>0, <1>7, <4>2, <4>3, TurnsToldOutput
      <3>2. CASE a # c
        BY <1>4, <1>7, <3>2 DEF TurnsOnly
      <3>3. QED
        BY <3>1, <3>2
    <2>2. QED
      BY <1>0, <1>1, <1>3, <1>7, <2>1 DEF TurnsWhole
  <1>8. CASE turnsCs[c] = "ended" /\ TurnsOnly(c, c) /\ TurnsTold(c, 4 - Len(turnsOut[c]))
    <2>1. TurnsTold(c, 4 - Len(turnsOut[c]))'
      <3>1. turnsOut[c] \in {<<>>, <<Turns!Ev("idle", c)>>, <<Turns!Ev("result", c),
              Turns!Ev("idle", c)>>}
        BY <1>0, <1>8 DEF TurnsShaped, TurnsInTool
      <3>2. CASE a = c
        <4>1. CASE turnsOut[c] = <<Turns!Ev("idle", c)>>
          <5>1. e = Turns!Ev(Turns!Life[3 + 1], c) /\ turnsOut'[c] = <<>> /\
                  4 - Len(turnsOut[c]) = 3
            BY <1>1, <3>2, <4>1, TurnsRest DEF Turns!Life
          <5>2. TurnsTold(c, 3 + 1)'
            BY <1>0, <1>8, <5>1, TurnsToldNext
          <5>3. 4 - Len(turnsOut'[c]) = 3 + 1
            BY <5>1
          <5>4. QED
            BY <5>2, <5>3
        <4>2. CASE turnsOut[c] = <<Turns!Ev("result", c), Turns!Ev("idle", c)>>
          <5>1. e = Turns!Ev(Turns!Life[2 + 1], c) /\ turnsOut'[c] = <<Turns!Ev("idle", c)>> /\
                  4 - Len(turnsOut[c]) = 2
            BY <1>1, <3>2, <4>2, TurnsRest DEF Turns!Life
          <5>2. TurnsTold(c, 2 + 1)'
            BY <1>0, <1>8, <5>1, TurnsToldNext
          <5>3. 4 - Len(turnsOut'[c]) = 2 + 1
            BY <5>1
          <5>4. QED
            BY <5>2, <5>3
        <4>3. QED
          BY <1>1, <3>1, <3>2, <4>1, <4>2
      <3>3. CASE a # c
        <4>1. 4 - Len(turnsOut[c]) \in 0..4 /\ turnsOut'[c] = turnsOut[c]
          <5>1. 4 - Len(turnsOut[c]) \in {2, 3, 4} /\ {2, 3, 4} \subseteq 0..4
            BY <3>1, TurnsLengths, Zenon
          <5>2. 4 - Len(turnsOut[c]) \in 0..4
            BY <5>1, Zenon
          <5>3. QED
            BY <1>0, <1>1, <3>3, <5>2
        <4>2. TurnsFree(a, c)
          BY <1>8, <3>3 DEF TurnsOnly
        <4>3. QED
          BY <1>4, <1>8, <4>1, <4>2
      <3>4. QED
        BY <3>2, <3>3
    <2>2. QED
      BY <1>0, <1>1, <1>3, <1>8, <2>1 DEF TurnsWhole
  <1>9. ASSUME NEW h \in TurnsHandlers, turnsCs[c] = "done", turnsHpc[h] = "tools", TurnsOnly(h, c),
               turnsOut[h] \in {<<Turns!Ev("idle", c)>>, <<Turns!Ev("result", c), Turns!Ev("idle",
                 c)>>},
               TurnsTold(c, 4 - Len(turnsOut[h]))
        PROVE  TurnsWhole(c)'
    <2>1. Turns!Ev("idle", c)' = Turns!Ev("idle", c) /\ TurnsOnly(h, c)' /\ h \in Turns!Actors
      BY <1>0, <1>3, <1>9 DEF Turns!Ev
    <2>2. CASE a # h
      <3>1. TurnsFree(a, c) /\ turnsOut'[h] = turnsOut[h] /\ 4 - Len(turnsOut[h]) \in 0..4
        <4>1. 4 - Len(turnsOut[h]) \in {2, 3} /\ {2, 3, 4} \subseteq 0..4
          BY <1>9, TurnsLengths, Zenon
        <4>2. 4 - Len(turnsOut[h]) \in 0..4
          BY <4>1, Zenon
        <4>3. h \in Turns!Actors
          BY <1>0
        <4>4. TurnsFree(a, c)
          BY <1>9, <2>2 DEF TurnsOnly
        <4>5. QED
          BY <1>1, <2>2, <4>2, <4>3, <4>4
      <3>2. TurnsTold(c, 4 - Len(turnsOut[h]))'
        BY <1>4, <1>9, <3>1
      <3>3. Turns!Ev("result", c)' = Turns!Ev("result", c)
        BY DEF Turns!Ev
      <3>4. QED
        BY <1>1, <1>9, <2>1, <3>1, <3>2, <3>3 DEF TurnsWhole
    <2>3. CASE a = h /\ turnsOut[h] = <<Turns!Ev("result", c), Turns!Ev("idle", c)>>
      <3>1. e = Turns!Ev(Turns!Life[2 + 1], c) /\ turnsOut'[h] = <<Turns!Ev("idle", c)>> /\
              4 - Len(turnsOut[h]) = 2
        BY <1>1, <2>3, TurnsRest DEF Turns!Life
      <3>2. TurnsTold(c, 2 + 1)'
        BY <1>0, <1>9, <3>1, TurnsToldNext
      <3>3. 4 - Len(turnsOut'[h]) = 2 + 1
        BY <3>1
      <3>4. TurnsTold(c, 4 - Len(turnsOut[h]))'
        BY <3>2, <3>3
      <3>5. (turnsOut[h] \in {<<Turns!Ev("idle", c)>>, <<Turns!Ev("result", c), Turns!Ev("idle",
              c)>>})'
        BY <2>1, <3>1
      <3>6. QED
        BY <1>1, <1>9, <2>1, <3>4, <3>5 DEF TurnsWhole
    <2>4. CASE a = h /\ turnsOut[h] = <<Turns!Ev("idle", c)>>
      <3>1. e = Turns!Ev(Turns!Life[3 + 1], c) /\ turnsOut'[h] = <<>> /\ 4 - Len(turnsOut[h]) = 3
        BY <1>1, <2>4, TurnsRest DEF Turns!Life
      <3>2. TurnsTold(c, 3 + 1)'
        BY <1>0, <1>9, <3>1, TurnsToldNext
      <3>3. TurnsTold(c, 4)'
        BY <3>2
      <3>4. turnsCur'[h] # c
        BY <1>0, <1>1, <1>9 DEF TurnsShaped, TurnsInCall
      <3>5. TurnsFree(h, c)'
        BY <3>1, <3>4 DEF TurnsFree
      <3>6. \A b \in Turns!Actors : TurnsFree(b, c)'
        BY <2>1, <3>5 DEF TurnsOnly
      <3>7. QED
        BY <1>1, <1>9, <3>3, <3>6 DEF TurnsWhole
    <2>5. QED
      BY <1>9, <2>2, <2>3, <2>4
  <1>10. CASE turnsCs[c] = "done" /\ TurnsTold(c, 4) /\ \A b \in Turns!Actors : TurnsFree(b, c)
    BY <1>1, <1>2, <1>4, <1>10 DEF TurnsWhole
  <1>11. QED
    BY <1>0, <1>5, <1>6, <1>7, <1>8, <1>9, <1>10 DEF TurnsWhole

LEMMA TurnsSayInv ==
    ASSUME TurnsBounds, TurnsInv, Turns!TypeOK', NEW a \in Turns!Actors, Turns!Say(a)
      PROVE TurnsInv'
  <1>1. TurnsSpeaks(a, Head(turnsOut[a])) /\ TurnsShaped
    BY TurnsSaySpeaks DEF TurnsInv
  <1>2. TurnsShaped' /\ TurnsFollowed' /\ TurnsNumbered'
    BY <1>1, TurnsSpeaksShaped, TurnsSpeaksFollowed, TurnsSpeaksNumbered
  <1>3. \A h \in TurnsHandlers : TurnsDelivered(h)' /\ TurnsAsked(h)'
    BY <1>1, TurnsSpeaksDelivered, TurnsSpeaksAsked
  <1>4. \A c \in TurnsCalls : TurnsWhole(c)'
    BY <1>1, TurnsSpeaksWhole
  <1>5. QED
    BY <1>2, <1>3, <1>4 DEF TurnsInv

-----------------------------------------------------------------------------
(* The invariant.                                                          *)

LEMMA TurnsInitInv == TurnsBounds /\ Turns!Init => TurnsInv
  <1> SUFFICES ASSUME TurnsBounds, Turns!Init PROVE TurnsInv
    OBVIOUS
  <1>1. Turns!TypeOK
    BY TurnsInitTypes
  <1>2. /\ turnsLog = TurnsOld /\ turnsCs = [c \in TurnsCalls |-> "unused"] /\ turnsTurns = 0
        /\ \A a \in Turns!Actors : turnsOut[a] = <<>>
        /\ \A h \in TurnsHandlers : turnsHpc[h] = "hello" /\ turnsCur[h] = TurnsNoCall /\
             turnsQ[h] = <<>> /\ turnsTurn[h] = 0
    BY DEF Turns!Init
  <1>3. TurnsShaped
    <2>1. \A h \in TurnsHandlers : TurnsInTurn(h) /\ TurnsInLoop(h) /\ TurnsInCall(h)
      BY <1>2 DEF TurnsInTurn, TurnsInLoop, TurnsInCall, Turns!Actors
    <2>2. \A c \in TurnsCalls : TurnsInTool(c)
      BY <1>2 DEF TurnsInTool, Turns!Actors
    <2>3. QED
      BY <2>1, <2>2 DEF TurnsShaped
  <1>4. TurnsFollowed
    BY <1>2 DEF TurnsBounds, TurnsOldIsOver, TurnsFollowed, Turns!Indices, Turns!Statuses
  <1>5. TurnsNumbered
    BY <1>2 DEF TurnsBounds, TurnsOldIsOver, TurnsNumbered
  <1>6. \A h \in TurnsHandlers : TurnsDelivered(h) /\ TurnsAsked(h)
    BY <1>2 DEF TurnsDelivered, TurnsAsked
  <1>7. ASSUME NEW c \in TurnsCalls PROVE TurnsWhole(c)
    <2>1. \A i \in 1..Len(turnsLog) : turnsLog[i].of # c
      BY <1>2, <1>7 DEF TurnsBounds, TurnsOldIsOver
    <2>2. TurnsTold(c, 0)
      BY <2>1 DEF TurnsTold
    <2>3. \A a \in Turns!Actors : TurnsFree(a, c)
      BY <1>2, <1>7 DEF TurnsFree, TurnsBounds
    <2>4. QED
      BY <1>2, <1>7, <2>2, <2>3 DEF TurnsWhole
  <1>8. QED
    BY <1>1, <1>3, <1>4, <1>5, <1>6, <1>7 DEF TurnsInv

LEMMA TurnsNextInv == TurnsBounds /\ TurnsInv /\ [Turns!Next]_Turns!vars => TurnsInv'
  <1> SUFFICES ASSUME TurnsBounds, TurnsInv, [Turns!Next]_Turns!vars PROVE TurnsInv'
    OBVIOUS
  <1>0. Turns!TypeOK /\ TurnsShaped
    BY DEF TurnsInv
  <1>1. CASE UNCHANGED Turns!vars
    <2>1. /\
               UNCHANGED <<turnsLlm, turnsLog, turnsOut, turnsHpc, turnsCur, turnsCs, turnsTurn,
                 turnsTurns, turnsMore, turnsQ>>
          /\ UNCHANGED <<turnsIter, turnsPrompt, turnsCanceled, turnsSaid, turnsWire, turnsInbox,
               turnsLeft, turnsAsked>>
      BY <1>1 DEF Turns!vars, Turns!turnVars, Turns!callVars
    <2>2. Turns!TypeOK'
      BY <1>0, <2>1 DEF Turns!TypeOK
    <2>3. TurnsKeepsEnds
      BY <2>1, TurnsSameEnds DEF TurnsInv
    <2>4. QED
      BY <2>1, <2>2, <2>3, TurnsStillInv
  <1>2. ASSUME NEW a \in Turns!Actors, Turns!Say(a) PROVE TurnsInv'
    <2>1. Turns!TypeOK'
      BY <1>0, <1>2, TurnsSayTypes
    <2>2. QED
      BY <1>2, <2>1, TurnsSayInv
  <1>3. ASSUME NEW h \in TurnsHandlers, Turns!Loop(h) PROVE TurnsInv'
    <2>1. Turns!TypeOK'
      BY <1>0, <1>3, TurnsLoopTypes
    <2>2. CASE Turns!Hello(h)
      BY <2>1, <2>2, TurnsHelloInv
    <2>3. CASE Turns!Forward(h)
      BY <2>1, <2>3, TurnsForwardInv
    <2>4. CASE Turns!Return(h)
      BY <2>1, <2>4, TurnsReturnInv
    <2>5. CASE Turns!OnUserMessage(h)
      BY <2>1, <2>5, TurnsOnUserMessageInv
    <2>6. CASE Turns!OnToolInvokeRefused(h)
      BY <2>1, <2>6, TurnsOnToolInvokeRefusedInv
    <2>7. CASE Turns!Spawn(h)
      BY <2>1, <2>7, TurnsSpawnInv
    <2>8. CASE Turns!OnCancel(h)
      BY <2>1, <2>8, TurnsOnCancelInv
    <2>9. CASE \E c \in TurnsCalls : Turns!OnToolInvoke(h, c)
      BY <2>1, <2>9, TurnsOnToolInvokeInv
    <2>10. QED
      BY <1>3, <2>2, <2>3, <2>4, <2>5, <2>6, <2>7, <2>8, <2>9 DEF Turns!Loop
  <1>4. ASSUME NEW h \in TurnsHandlers, Turns!Turn(h) PROVE TurnsInv'
    <2>1. Turns!TypeOK'
      BY <1>0, <1>4, TurnsTurnTypes
    <2>2. CASE Turns!BuildMessages(h)
      BY <2>1, <2>2, TurnsBuildMessagesInv
    <2>3. CASE Turns!BuildMessagesFails(h)
      BY <2>1, <2>3, TurnsBuildMessagesFailsInv
    <2>4. CASE Turns!GenerateDelta(h)
      BY <2>1, <2>4, TurnsGenerateDeltaInv
    <2>5. CASE Turns!GenerateFails(h)
      BY <2>1, <2>5, TurnsGenerateFailsInv
    <2>6. CASE Turns!Answer(h)
      BY <2>1, <2>6, TurnsAnswerInv
    <2>7. CASE \E n \in 1..Turns!Cardinality(TurnsCalls) : Turns!AskForTools(h, n)
      BY <2>1, <2>7, TurnsAskForToolsInv
    <2>8. CASE \E c \in TurnsCalls : Turns!SyncTool(h, c)
      BY <2>1, <2>8, TurnsSyncToolInv
    <2>9. CASE Turns!SyncToolRefused(h)
      BY <2>1, <2>9, TurnsSyncToolRefusedInv
    <2>10. CASE Turns!SyncToolOutput(h)
      BY <2>1, <2>10, TurnsSyncToolOutputInv
    <2>11. CASE Turns!SyncToolEnds(h)
      BY <2>1, <2>11, TurnsSyncToolEndsInv
    <2>12. CASE Turns!ToolsDone(h)
      BY <2>1, <2>12, TurnsToolsDoneInv
    <2>13. QED
      BY <1>4, <2>2, <2>3, <2>4, <2>5, <2>6, <2>7, <2>8, <2>9, <2>10, <2>11, <2>12 DEF Turns!Turn
  <1>5. ASSUME NEW c \in TurnsCalls, Turns!ToolCall(c) PROVE TurnsInv'
    <2>1. Turns!TypeOK'
      BY <1>0, <1>5, TurnsCallTypes
    <2>2. QED
      BY <1>5, <2>1, TurnsRegisterInv, TurnsToolOutputInv, TurnsToolEndsInv,
         TurnsUnregisterInv DEF Turns!ToolCall
  <1>6. ASSUME NEW h \in TurnsHandlers, Turns!AnyClient(h) PROVE TurnsInv'
    <2>1. Turns!TypeOK'
      BY <1>0, <1>6, TurnsClientTypes
    <2>2. QED
      BY <1>6, <2>1, TurnsClientInv
  <1>7. QED
    BY <1>1, <1>2, <1>3, <1>4, <1>5, <1>6 DEF Turns!Next, Turns!Server

-----------------------------------------------------------------------------
(* What it means.                                                          *)

LEMMA TurnsRestOwesNothing ==
    ASSUME Turns!AtRest PROVE ~TurnsOwes
  <1>1. \A a \in Turns!Actors : ~TurnsPromises(a)
    BY DEF Turns!AtRest, TurnsPromises
  <1>2. QED
    BY <1>1 DEF Turns!AtRest, TurnsOwes

LEMMA TurnsEndsMeaning ==
    ASSUME TurnsInv PROVE Turns!QuietIsIdle /\ Turns!LastIsDelivered
  <1>1. Turns!TypeOK /\ TurnsFollowed
    BY DEF TurnsInv
  <1>2. Turns!QuietIsIdle
    <2>1. SUFFICES ASSUME Turns!AtRest, NEW i \in Turns!Indices(turnsLog, Turns!Statuses)
                   PROVE  \/ turnsLog[i].kind \in {"idle", "canceled"}
                          \/ \E j \in Turns!Indices(turnsLog, Turns!Statuses \cup {"error"}) : j > i
      BY DEF Turns!QuietIsIdle
    <2>2. ~TurnsOwes
      BY <2>1, TurnsRestOwesNothing
    <2>3. i \in 1..Len(turnsLog) /\ turnsLog[i].kind \in Turns!Statuses
      BY <2>1 DEF Turns!Indices
    <2>4. QED
      BY <1>1, <2>2, <2>3 DEF TurnsFollowed, Turns!Statuses, Turns!Indices
  <1>3. Turns!LastIsDelivered
    BY TurnsRestOwesNothing DEF TurnsInv, Turns!LastIsDelivered, TurnsDelivered
  <1>4. QED
    BY <1>2, <1>3

\* How far the life of a call has got.
LEMMA TurnsStages ==
    ASSUME TurnsInv, TurnsBounds, NEW c \in TurnsCalls
    PROVE  /\ \E n \in 0..4 : TurnsTold(c, n)
           /\ turnsCs[c] = "done" /\ (\A a \in Turns!Actors : turnsOut[a] = <<>>) => TurnsTold(c, 4)
  <1>1. TurnsWhole(c) /\ TurnsInTool(c)
    BY DEF TurnsInv, TurnsShaped
  <1>2. CASE turnsCs[c] = "unused" /\ TurnsTold(c, 0)
    BY <1>2
  <1>3. ASSUME NEW h \in TurnsHandlers,
                 turnsCs[c] = IF turnsHpc[h] = "tool" THEN "sync" ELSE "spawned",
               TurnsTold(c, IF turnsOut[h] = Turns!Announced(c) THEN 0
                       ELSE IF turnsOut[h] = <<Turns!Ev("running", c)>> THEN 1 ELSE 2)
        PROVE  turnsCs[c] # "done" /\ \E n \in 0..4 : TurnsTold(c, n)
    BY <1>3
  <1>4. CASE turnsCs[c] \in {"spawned", "registered"} /\ TurnsTold(c, 2)
    BY <1>4
  <1>5. CASE turnsCs[c] = "ended" /\ TurnsTold(c, 4 - Len(turnsOut[c]))
    <2>1. 4 - Len(turnsOut[c]) \in {2, 3, 4} /\ {2, 3, 4} \subseteq 0..4
      BY <1>1, <1>5, TurnsLengths, Zenon DEF TurnsInTool
    <2>2. QED
      BY <1>5, <2>1, Zenon
  <1>6. ASSUME NEW h \in TurnsHandlers, turnsCs[c] = "done", turnsHpc[h] = "tools",
               turnsOut[h] \in {<<Turns!Ev("idle", c)>>, <<Turns!Ev("result", c), Turns!Ev("idle",
                 c)>>},
               TurnsTold(c, 4 - Len(turnsOut[h]))
        PROVE  (\E n \in 0..4 : TurnsTold(c, n)) /\ \E a \in Turns!Actors : turnsOut[a] # <<>>
    <2>1. 4 - Len(turnsOut[h]) \in {2, 3} /\ {2, 3, 4} \subseteq 0..4
      BY <1>6, TurnsLengths, Zenon
    <2>2. h \in Turns!Actors /\ turnsOut[h] # <<>>
      BY <1>6 DEF Turns!Actors
    <2>3. QED
      BY <1>6, <2>1, <2>2, Zenon
  <1>7. CASE turnsCs[c] = "done" /\ TurnsTold(c, 4)
    BY <1>7
  <1>8. QED
    BY <1>1, <1>2, <1>3, <1>4, <1>5, <1>6, <1>7 DEF TurnsWhole

LEMMA TurnsCallsMeaning ==
    ASSUME TurnsBounds, TurnsInv PROVE Turns!CallsAreWhole
  <1> SUFFICES ASSUME NEW c \in TurnsCalls
               PROVE  LET of == {i \in 1..Len(turnsLog) : turnsLog[i].of = c /\
                        turnsLog[i].kind # "canceled"}
                          pos(k) == {i \in of : turnsLog[i] = Turns!Ev(Turns!Life[k], c)} IN
                      /\ \A i \in of : turnsLog[i].kind = "output" \/ \E k \in 1..4 : i \in pos(k)
                      /\ \A k \in 1..4 : \A i, j \in pos(k) : i = j
                      /\ \A k \in 2..4 : \A i \in pos(k) : \E j \in pos(k - 1) : j < i
                      /\ \A i \in of : turnsLog[i].kind = "output" =>
                             (\E j \in pos(2) : j < i) /\ (\A j \in pos(3) : i < j)
                      /\ (turnsCs[c] = "done" /\ \A a \in Turns!Actors : turnsOut[a] = <<>>) =>
                           pos(4) # {}
    BY DEF Turns!CallsAreWhole
  <1> DEFINE of == {i \in 1..Len(turnsLog) : turnsLog[i].of = c /\ turnsLog[i].kind # "canceled"}
             pos(k) == {i \in of : turnsLog[i] = Turns!Ev(Turns!Life[k], c)}
  <1>1. PICK n \in 0..4 :
            /\ TurnsTold(c, n)
            /\ turnsCs[c] = "done" /\ (\A a \in Turns!Actors : turnsOut[a] = <<>>) => n = 4
    BY TurnsStages
  <1>2. \A k \in 1..4, i \in 1..Len(turnsLog) : turnsLog[i] = Turns!Ev(Turns!Life[k],
          c) <=> i \in pos(k)
    BY TurnsLifeKinds, TurnsEventFields
  <1>3. \A k \in 1..4 : \A i \in pos(k) : k \in 1..n
    <2>1. SUFFICES ASSUME NEW k \in 1..4, NEW i \in pos(k) PROVE k \in 1..n
      OBVIOUS
    <2>2. turnsLog[i] = Turns!Ev(Turns!Life[k], c) /\ i \in 1..Len(turnsLog)
      OBVIOUS
    <2>3. turnsLog[i].of = c /\ turnsLog[i].kind \notin {"output", "canceled"}
      BY <2>2, TurnsLifeKinds, TurnsEventFields
    <2>4. PICK l \in 1..n : turnsLog[i] = Turns!Ev(Turns!Life[l], c)
      BY <1>1, <2>2, <2>3 DEF TurnsTold
    <2>5. Turns!Life[k] = Turns!Life[l]
      BY <2>2, <2>4 DEF Turns!Ev
    <2>6. QED
      BY <2>4, <2>5, TurnsLifeKinds
  <1>4. \A k \in 1..n : \E i \in 1..Len(turnsLog) : i \in pos(k)
    <2>1. SUFFICES ASSUME NEW k \in 1..n PROVE \E i \in 1..Len(turnsLog) : i \in pos(k)
      OBVIOUS
    <2>2. PICK i \in 1..Len(turnsLog) : turnsLog[i] = Turns!Ev(Turns!Life[k], c)
      BY <1>1 DEF TurnsTold
    <2>3. QED
      BY <1>2, <2>2
  <1>5. \A k, l \in 1..4 : k <= l => \A i \in pos(k), j \in pos(l) : i <= j /\ (k # l => i # j)
    <2>1. SUFFICES ASSUME NEW k \in 1..4, NEW l \in 1..4, k <= l, NEW i \in pos(k), NEW j \in pos(l)
                   PROVE  i <= j /\ (k # l => i # j)
      OBVIOUS
    <2>2. /\ turnsLog[i] = Turns!Ev(Turns!Life[k], c) /\ i \in 1..Len(turnsLog) /\ k \in 1..n
          /\ turnsLog[j] = Turns!Ev(Turns!Life[l], c) /\ j \in 1..Len(turnsLog) /\ l \in 1..n
      BY <1>3
    <2>3. i <= j
      BY <1>1, <2>1, <2>2 DEF TurnsTold
    <2>4. i = j => Turns!Life[k] = Turns!Life[l]
      BY <2>2 DEF Turns!Ev
    <2>5. QED
      BY <2>3, <2>4, TurnsLifeKinds
  <1>6. \A i \in of : turnsLog[i].kind = "output" \/ \E k \in 1..4 : i \in pos(k)
    <2>1. SUFFICES ASSUME NEW i \in of, turnsLog[i].kind # "output"
      PROVE \E k \in 1..4 : i \in pos(k)
      OBVIOUS
    <2>2. PICK k \in 1..n : turnsLog[i] = Turns!Ev(Turns!Life[k], c)
      BY <1>1, <2>1 DEF TurnsTold
    <2>3. QED
      BY <2>2
  <1>7. \A k \in 1..4 : \A i, j \in pos(k) : i = j
    <2>1. SUFFICES ASSUME NEW k \in 1..4, NEW i \in pos(k), NEW j \in pos(k) PROVE i = j
      OBVIOUS
    <2>2. i <= j /\ j <= i /\ i \in Nat /\ j \in Nat
      BY <1>5
    <2>3. QED
      BY <2>2
  <1>8. \A k \in 2..4 : \A i \in pos(k) : \E j \in pos(k - 1) : j < i
    <2>1. SUFFICES ASSUME NEW k \in 2..4, NEW i \in pos(k) PROVE \E j \in pos(k - 1) : j < i
      OBVIOUS
    <2>2. k - 1 \in 1..n /\ k - 1 \in 1..4 /\ k \in 1..4 /\ k - 1 <= k /\ k - 1 # k
      BY <1>3
    <2>3. PICK j \in 1..Len(turnsLog) : j \in pos(k - 1)
      BY <1>4, <2>2
    <2>4. j <= i /\ j # i /\ i \in Nat
      BY <1>5, <2>2, <2>3
    <2>5. QED
      BY <2>3, <2>4
  <1>9. \A i \in of : turnsLog[i].kind = "output" =>
          (\E j \in pos(2) : j < i) /\ (\A j \in pos(3) : i < j)
    <2>1. SUFFICES ASSUME NEW i \in of, turnsLog[i].kind = "output"
                   PROVE  (\E j \in pos(2) : j < i) /\ (\A j \in pos(3) : i < j)
      OBVIOUS
    <2>2. n >= 2
      BY <1>1, <2>1 DEF TurnsTold
    <2>3. PICK j \in 1..Len(turnsLog) : j \in pos(2)
      BY <1>4, <2>2
    <2>4. j < i
      BY <1>1, <2>1, <2>2, <2>3 DEF TurnsTold
    <2>5. ASSUME NEW k \in pos(3) PROVE i < k
      <3>1. k \in 1..Len(turnsLog) /\ turnsLog[k] = Turns!Ev(Turns!Life[3], c) /\ 3 \in 1..n
        BY <1>3, <2>5
      <3>2. QED
        BY <1>1, <2>1, <3>1 DEF TurnsTold
    <2>6. QED
      BY <2>3, <2>4, <2>5
  <1>10. (turnsCs[c] = "done" /\ \A a \in Turns!Actors : turnsOut[a] = <<>>) => pos(4) # {}
    BY <1>1, <1>4
  <1>11. QED
    BY <1>6, <1>7, <1>8, <1>9, <1>10

LEMMA TurnsPromptMeaning ==
    ASSUME TurnsInv, TurnsHistory \in Nat, TurnsHistory >= 2 PROVE Turns!PromptHasQuestion
  <1> SUFFICES ASSUME NEW h \in TurnsHandlers, Turns!At(h, "context"),
                      \A i \in Turns!Indices(turnsLog, {"user"}), j \in 1..Len(turnsLog) :
                          turnsLog[i].of = turnsTurn[h] /\ j > i => turnsLog[j].of = turnsTurn[h]
               PROVE  \E i \in Turns!Window : turnsLog[i] = Turns!Ev("user", turnsTurn[h]) /\
                        \A j \in Turns!Window : j <= i
    BY DEF Turns!PromptHasQuestion
  <1> DEFINE t == turnsTurn[h]
             of == {i \in 1..Len(turnsLog) : turnsLog[i].of = t}
  <1>1. PICK i \in of, k \in of :
            i < k /\ of = {i, k} /\ turnsLog[i] = Turns!Ev("user", t) /\
              turnsLog[k] = Turns!Ev("thinking", t)
    BY DEF TurnsInv, TurnsAsked, Turns!At
  <1>2. turnsLog \in Seq(Turns!Events) /\ Len(turnsLog) \in Nat
    BY DEF TurnsInv, Turns!TypeOK
  <1>3. i \in Turns!Indices(turnsLog, {"user"}) /\ turnsLog[i].of = t
    BY <1>1, TurnsEventFields DEF Turns!Indices
  <1>4. \A j \in 1..Len(turnsLog) : j > i => j = k
    <2>1. \A j \in 1..Len(turnsLog) : j > i => j \in of
      BY <1>3
    <2>2. QED
      BY <1>1, <2>1
  <1>5. k = Len(turnsLog) /\ k = i + 1
    <2>1. /\ k \in 1..Len(turnsLog) /\ i \in 1..Len(turnsLog)
          /\ Len(turnsLog) \in 1..Len(turnsLog) /\ i + 1 \in 1..Len(turnsLog)
      BY <1>1, <1>2
    <2>2. Len(turnsLog) > i /\ i + 1 > i
      BY <1>1, <2>1
    <2>3. QED
      BY <1>4, <2>1, <2>2
  <1>6. i \in Turns!Window
    BY <1>1, <1>2, <1>5, TurnsEventFields DEF Turns!Window, Turns!IsMessage
  <1>7. k \notin Turns!Window
    BY <1>1, TurnsEventFields DEF Turns!Window, Turns!IsMessage
  <1>8. \A j \in Turns!Window : j <= i
    <2>1. \A j \in Turns!Window : j \in 1..Len(turnsLog) /\ j # k
      BY <1>7 DEF Turns!Window
    <2>2. QED
      BY <1>1, <1>4, <2>1
  <1>9. QED
    BY <1>1, <1>6, <1>8

-----------------------------------------------------------------------------
(* The theorems.                                                           *)

\* A session at rest - no turn, no tool and no event under way - ends with idle, a cancellation
\* or an error, and what a front end receives last is the end of the session, with any number
\* of clients, tools and dropped events (sendDropOldest).
THEOREM TurnsEndIdle ==
    ASSUME TurnsBounds
      PROVE Turns!Spec => [](Turns!TypeOK /\ Turns!QuietIsIdle /\ Turns!LastIsDelivered)
  <1>1. TurnsInv => Turns!TypeOK /\ Turns!QuietIsIdle /\ Turns!LastIsDelivered
    BY TurnsEndsMeaning DEF TurnsInv
  <1>2. QED
    BY <1>1, TurnsInitInv, TurnsNextInv, PTL DEF Turns!Spec

\* What the log says of a tool call is always a beginning of its life - started, running, its
\* outputs, one result, idle - and all of it once the call is over (execTool, execToolSync).
THEOREM CallsStayWhole ==
    ASSUME TurnsBounds PROVE Turns!Spec => []Turns!CallsAreWhole
  <1>1. TurnsInv => Turns!CallsAreWhole
    BY TurnsCallsMeaning
  <1>2. QED
    BY <1>1, TurnsInitInv, TurnsNextInv, PTL DEF Turns!Spec

\* The prompt of a turn ends with the question it is to answer, if nobody else said anything
\* (buildLLMMessages), provided that the window takes two events: the question is followed by
\* "thinking", and with XR_LLM_MAX_HISTORY_EVENTS=1 the prompt would be empty.
THEOREM PromptsHaveQuestions ==
    ASSUME TurnsBounds, TurnsHistory \in Nat, TurnsHistory >= 2
      PROVE Turns!Spec => []Turns!PromptHasQuestion
  <1>1. TurnsInv => Turns!PromptHasQuestion
    BY TurnsPromptMeaning
  <1>2. QED
    BY <1>1, TurnsInitInv, TurnsNextInv, PTL DEF Turns!Spec

-----------------------------------------------------------------------------
(***************************************************************************)
(* Proofs about Daemons, for every number of jobs, starts and kills.       *)
(***************************************************************************)

(* An API that has not begun to serve knows no job.  One that has been     *)
(* through Wait is busy only with jobs that were submitted after the       *)
(* signal: Wait returns, or wakes, when nothing else is left.              *)

ProcessesKnownIsEmpty == processesApi \in {"down", "dialing", "opening"} => processesKnown = {}
ProcessesWaitedIsLate == processesApi \in {"woken", "waited", "graceful"} =>
  Processes!Busy \subseteq processesLate

ProcessesInv == Processes!TypeOK /\ ProcessesKnownIsEmpty /\ ProcessesWaitedIsLate /\
  Processes!StopsKeepJobs /\ Processes!EndIsTheEnd

\* No process runs.
LEMMA ProcessesInitInv ==
    ASSUME ProcessesJobs # {}, ProcessesMaxStarts \in Nat, ProcessesMaxKills \in Nat, Processes!Init
    PROVE  ProcessesInv
  <1>1. (CHOOSE j \in ProcessesJobs : TRUE) \in ProcessesJobs
    OBVIOUS
  <1>2. Processes!TypeOK
    <2>1. processesFollower \in [at : {"idle", "waiting", "open", "ended", "cut", "left"},
                         via : {"api", "remote"}, of : ProcessesJobs]
      BY <1>1 DEF Processes!Init
    <2>2. processesStarts \in 0..ProcessesMaxStarts /\ processesKills \in 0..ProcessesMaxKills
      <3>1. 0 \in 0..ProcessesMaxStarts /\ 0 \in 0..ProcessesMaxKills
        OBVIOUS
      <3>2. QED BY <3>1, Zenon DEF Processes!Init
    <2>3. processesExit \in [Processes!Processes -> {"", "ok", "failed", "panicked", "killed"}] /\
            processesJob \in [ProcessesJobs -> {"none"}]
      BY DEF Processes!Init
    <2>4. QED BY <2>1, <2>2, <2>3 DEF Processes!Init, Processes!TypeOK
  <1>3. ProcessesKnownIsEmpty /\ ProcessesWaitedIsLate /\ Processes!StopsKeepJobs /\
          Processes!EndIsTheEnd
    BY DEF Processes!Init, ProcessesKnownIsEmpty, ProcessesWaitedIsLate, Processes!StopsKeepJobs,
       Processes!EndIsTheEnd, Processes!Processes
  <1>4. QED BY <1>2, <1>3 DEF ProcessesInv

\* The processes have their names.
LEMMA ProcessesProcessNames == "worker" \in Processes!Processes /\ "api" \in Processes!Processes /\
  "remote" \in Processes!Processes
  BY DEF Processes!Processes

\* A start or a kill is counted, anything else leaves the counters alone.
LEMMA ProcessesCounted ==
    ASSUME ProcessesMaxStarts \in Nat, ProcessesMaxKills \in Nat,
             processesStarts \in 0..ProcessesMaxStarts, processesKills \in 0..ProcessesMaxKills,
           \/ processesStarts' = processesStarts /\ processesKills' = processesKills
           \/ processesStarts < ProcessesMaxStarts /\ processesStarts' = processesStarts + 1 /\
                processesKills' = processesKills
           \/ processesKills < ProcessesMaxKills /\ processesKills' = processesKills + 1 /\
                processesStarts' = processesStarts
    PROVE  processesStarts' \in 0..ProcessesMaxStarts /\ processesKills' \in 0..ProcessesMaxKills
  OBVIOUS

\* Jobs that have ended stay as they are, and no follower is told an end.
LEMMA ProcessesEndsKept ==
    ASSUME ProcessesInv, \A j \in ProcessesJobs : processesJob[j] \in Processes!Terminal =>
             processesJob'[j] = processesJob[j],
           processesFollower'.at = "ended" => processesFollower' = processesFollower
    PROVE  Processes!EndIsTheEnd'
  <1>1. processesFollower.of \in ProcessesJobs
    BY DEF ProcessesInv, Processes!TypeOK
  <1>2. QED BY <1>1 DEF ProcessesInv, Processes!EndIsTheEnd

\* A step of the worker or of xrunner-remote that no job and no follower notices.
LEMMA ProcessesElsewhere ==
    ASSUME ProcessesInv, UNCHANGED <<processesApi, processesJob, processesLate, processesKnown,
             processesFollower>>, processesExit'["api"] = processesExit["api"]
    PROVE  ProcessesKnownIsEmpty' /\ ProcessesWaitedIsLate' /\ Processes!StopsKeepJobs' /\
             Processes!EndIsTheEnd'
  BY DEF ProcessesInv, ProcessesKnownIsEmpty, ProcessesWaitedIsLate, Processes!Busy,
     Processes!StopsKeepJobs, Processes!EndIsTheEnd

\* A step of the follower alone.
LEMMA ProcessesFollowerOnly ==
    ASSUME ProcessesInv, UNCHANGED <<processesApi, processesJob, processesLate, processesKnown,
             processesExit>>
    PROVE  ProcessesKnownIsEmpty' /\ ProcessesWaitedIsLate' /\ Processes!StopsKeepJobs'
  BY DEF ProcessesInv, ProcessesKnownIsEmpty, ProcessesWaitedIsLate, Processes!Busy,
     Processes!StopsKeepJobs

-----------------------------------------------------------------------------
(* One lemma per action, with a step per conjunct it can disturb.          *)

LEMMA ProcessesStartWorkerInv ==
    ASSUME ProcessesMaxStarts \in Nat, ProcessesMaxKills \in Nat, ProcessesInv,
             Processes!StartWorker
    PROVE  ProcessesInv'
  <1>1. Processes!TypeOK'
    <2>1. processesStarts' \in 0..ProcessesMaxStarts /\ processesKills' \in 0..ProcessesMaxKills
      BY ProcessesCounted, Zenon DEF ProcessesInv, Processes!TypeOK, Processes!StartWorker
    <2>2. QED BY <2>1, ProcessesProcessNames DEF ProcessesInv, Processes!TypeOK,
      Processes!StartWorker, Processes!Terminal, Processes!Accepting
  <1>2. UNCHANGED <<processesApi, processesJob, processesLate, processesKnown,
          processesFollower>> /\ processesExit'["api"] = processesExit["api"]
    BY ProcessesProcessNames DEF ProcessesInv, Processes!TypeOK, Processes!StartWorker
  <1>3. QED BY <1>1, <1>2, ProcessesElsewhere DEF ProcessesInv

LEMMA ProcessesStartAPIInv ==
    ASSUME ProcessesMaxStarts \in Nat, ProcessesMaxKills \in Nat, ProcessesInv, Processes!StartAPI
    PROVE  ProcessesInv'
  <1>1. Processes!TypeOK'
    <2>1. processesStarts' \in 0..ProcessesMaxStarts /\ processesKills' \in 0..ProcessesMaxKills
      BY ProcessesCounted, Zenon DEF ProcessesInv, Processes!TypeOK, Processes!StartAPI
    <2>2. QED BY <2>1, ProcessesProcessNames DEF ProcessesInv, Processes!TypeOK,
      Processes!StartAPI, Processes!Terminal, Processes!Accepting
  <1>2. ProcessesKnownIsEmpty'
    BY DEF ProcessesInv, Processes!TypeOK, ProcessesKnownIsEmpty, Processes!StartAPI,
       Processes!Accepting
  <1>3. ProcessesWaitedIsLate'
    BY DEF ProcessesInv, Processes!TypeOK, ProcessesKnownIsEmpty, ProcessesWaitedIsLate,
       Processes!StartAPI, Processes!Busy, Processes!Terminal, Processes!Accepting
  <1>4. Processes!StopsKeepJobs'
    BY DEF ProcessesInv, Processes!TypeOK, ProcessesKnownIsEmpty, ProcessesWaitedIsLate,
       Processes!StopsKeepJobs, Processes!StartAPI, Processes!Processes, Processes!Terminal,
       Processes!Busy
  <1>5. Processes!EndIsTheEnd'
    BY DEF ProcessesInv, Processes!TypeOK, Processes!EndIsTheEnd, Processes!StartAPI,
       Processes!Terminal
  <1>6. QED BY <1>1, <1>2, <1>3, <1>4, <1>5 DEF ProcessesInv

LEMMA ProcessesDialWorkerInv ==
    ASSUME ProcessesMaxStarts \in Nat, ProcessesMaxKills \in Nat, ProcessesInv, Processes!DialWorker
    PROVE  ProcessesInv'
  <1>1. Processes!TypeOK'
    <2>1. processesStarts' \in 0..ProcessesMaxStarts /\ processesKills' \in 0..ProcessesMaxKills
      BY ProcessesCounted, Zenon DEF ProcessesInv, Processes!TypeOK, Processes!DialWorker,
         Processes!counts
    <2>2. QED BY <2>1, ProcessesProcessNames DEF ProcessesInv, Processes!TypeOK,
      Processes!DialWorker, Processes!counts, Processes!Terminal, Processes!Accepting
  <1>2. ProcessesKnownIsEmpty'
    BY DEF ProcessesInv, Processes!TypeOK, ProcessesKnownIsEmpty, Processes!DialWorker,
       Processes!Accepting
  <1>3. ProcessesWaitedIsLate'
    BY DEF ProcessesInv, Processes!TypeOK, ProcessesKnownIsEmpty, ProcessesWaitedIsLate,
       Processes!DialWorker, Processes!Busy, Processes!Terminal, Processes!Accepting
  <1>4. Processes!StopsKeepJobs'
    BY DEF ProcessesInv, Processes!TypeOK, ProcessesKnownIsEmpty, ProcessesWaitedIsLate,
       Processes!StopsKeepJobs, Processes!DialWorker, Processes!Processes, Processes!Terminal,
       Processes!Busy
  <1>5. Processes!EndIsTheEnd'
    BY DEF ProcessesInv, Processes!TypeOK, Processes!EndIsTheEnd, Processes!DialWorker,
       Processes!Terminal
  <1>6. QED BY <1>1, <1>2, <1>3, <1>4, <1>5 DEF ProcessesInv

LEMMA ProcessesServeAPIInv ==
    ASSUME ProcessesMaxStarts \in Nat, ProcessesMaxKills \in Nat, ProcessesInv, Processes!ServeAPI
    PROVE  ProcessesInv'
  <1>1. Processes!TypeOK'
    <2>1. processesStarts' \in 0..ProcessesMaxStarts /\ processesKills' \in 0..ProcessesMaxKills
      BY ProcessesCounted, Zenon DEF ProcessesInv, Processes!TypeOK, Processes!ServeAPI,
         Processes!counts
    <2>2. QED BY <2>1, ProcessesProcessNames DEF ProcessesInv, Processes!TypeOK,
      Processes!ServeAPI, Processes!counts, Processes!Terminal, Processes!Accepting
  <1>2. ProcessesKnownIsEmpty'
    BY DEF ProcessesInv, Processes!TypeOK, ProcessesKnownIsEmpty, Processes!ServeAPI,
       Processes!Accepting
  <1>3. ProcessesWaitedIsLate'
    BY DEF ProcessesInv, Processes!TypeOK, ProcessesKnownIsEmpty, ProcessesWaitedIsLate,
       Processes!ServeAPI, Processes!Busy, Processes!Terminal, Processes!Accepting
  <1>4. Processes!StopsKeepJobs'
    BY DEF ProcessesInv, Processes!TypeOK, ProcessesKnownIsEmpty, ProcessesWaitedIsLate,
       Processes!StopsKeepJobs, Processes!ServeAPI, Processes!Processes, Processes!Terminal,
       Processes!Busy
  <1>5. Processes!EndIsTheEnd'
    BY DEF ProcessesInv, Processes!TypeOK, Processes!EndIsTheEnd, Processes!ServeAPI,
       Processes!Terminal
  <1>6. QED BY <1>1, <1>2, <1>3, <1>4, <1>5 DEF ProcessesInv

LEMMA ProcessesStartRemoteInv ==
    ASSUME ProcessesMaxStarts \in Nat, ProcessesMaxKills \in Nat, ProcessesInv,
             Processes!StartRemote
    PROVE  ProcessesInv'
  <1>1. Processes!TypeOK'
    <2>1. processesStarts' \in 0..ProcessesMaxStarts /\ processesKills' \in 0..ProcessesMaxKills
      BY ProcessesCounted, Zenon DEF ProcessesInv, Processes!TypeOK, Processes!StartRemote
    <2>2. QED BY <2>1, ProcessesProcessNames DEF ProcessesInv, Processes!TypeOK,
      Processes!StartRemote, Processes!Terminal, Processes!Accepting
  <1>2. UNCHANGED <<processesApi, processesJob, processesLate, processesKnown,
          processesFollower>> /\ processesExit'["api"] = processesExit["api"]
    BY ProcessesProcessNames DEF ProcessesInv, Processes!TypeOK, Processes!StartRemote
  <1>3. QED BY <1>1, <1>2, ProcessesElsewhere DEF ProcessesInv

LEMMA ProcessesDialJobServiceInv ==
    ASSUME ProcessesMaxStarts \in Nat, ProcessesMaxKills \in Nat, ProcessesInv,
             Processes!DialJobService
    PROVE  ProcessesInv'
  <1>1. Processes!TypeOK'
    <2>1. processesStarts' \in 0..ProcessesMaxStarts /\ processesKills' \in 0..ProcessesMaxKills
      BY ProcessesCounted, Zenon DEF ProcessesInv, Processes!TypeOK, Processes!DialJobService,
         Processes!counts
    <2>2. QED BY <2>1, ProcessesProcessNames DEF ProcessesInv, Processes!TypeOK,
      Processes!DialJobService, Processes!Accepting, Processes!counts, Processes!Terminal
  <1>2. UNCHANGED <<processesApi, processesJob, processesLate, processesKnown,
          processesFollower>> /\ processesExit'["api"] = processesExit["api"]
    BY ProcessesProcessNames DEF ProcessesInv, Processes!TypeOK, Processes!DialJobService
  <1>3. QED BY <1>1, <1>2, ProcessesElsewhere DEF ProcessesInv

\* A job submitted after the signal is late.
LEMMA ProcessesSubmitJobInv ==
    ASSUME ProcessesMaxStarts \in Nat, ProcessesMaxKills \in Nat, ProcessesInv,
             NEW j \in ProcessesJobs, Processes!SubmitJob(j)
    PROVE  ProcessesInv'
  <1>1. Processes!TypeOK'
    <2>1. processesStarts' \in 0..ProcessesMaxStarts /\ processesKills' \in 0..ProcessesMaxKills
      BY ProcessesCounted, Zenon DEF ProcessesInv, Processes!TypeOK, Processes!SubmitJob,
         Processes!procs, Processes!counts
    <2>2. QED BY <2>1, ProcessesProcessNames DEF ProcessesInv, Processes!TypeOK,
      Processes!SubmitJob, Processes!Accepting, Processes!procs, Processes!counts,
      Processes!Terminal
  <1>2. ProcessesKnownIsEmpty'
    BY DEF ProcessesInv, Processes!TypeOK, ProcessesKnownIsEmpty, Processes!SubmitJob,
       Processes!Accepting, Processes!procs
  <1>3. ProcessesWaitedIsLate'
    BY DEF ProcessesInv, Processes!TypeOK, ProcessesKnownIsEmpty, ProcessesWaitedIsLate,
       Processes!SubmitJob, Processes!Accepting, Processes!procs, Processes!Busy, Processes!Terminal
  <1>4. Processes!StopsKeepJobs'
    BY DEF ProcessesInv, Processes!TypeOK, ProcessesKnownIsEmpty, ProcessesWaitedIsLate,
       Processes!StopsKeepJobs, Processes!SubmitJob, Processes!Accepting, Processes!procs,
       Processes!Processes, Processes!Terminal, Processes!Busy
  <1>5. Processes!EndIsTheEnd'
    BY DEF ProcessesInv, Processes!TypeOK, Processes!EndIsTheEnd, Processes!SubmitJob,
       Processes!Accepting, Processes!procs, Processes!Terminal
  <1>6. QED BY <1>1, <1>2, <1>3, <1>4, <1>5 DEF ProcessesInv

LEMMA ProcessesRunJobInv ==
    ASSUME ProcessesMaxStarts \in Nat, ProcessesMaxKills \in Nat, ProcessesInv,
             NEW j \in ProcessesJobs, Processes!RunJob(j)
    PROVE  ProcessesInv'
  <1>1. Processes!TypeOK'
    <2>1. processesStarts' \in 0..ProcessesMaxStarts /\ processesKills' \in 0..ProcessesMaxKills
      BY ProcessesCounted, Zenon DEF ProcessesInv, Processes!TypeOK, Processes!RunJob,
         Processes!Ends, Processes!Busy, Processes!procs, Processes!counts
    <2>2. QED BY <2>1, ProcessesProcessNames DEF ProcessesInv, Processes!TypeOK, Processes!RunJob,
      Processes!Ends, Processes!Busy, Processes!procs, Processes!counts, Processes!Terminal,
      Processes!Accepting
  <1>2. ProcessesKnownIsEmpty'
    BY DEF ProcessesInv, Processes!TypeOK, ProcessesKnownIsEmpty, Processes!RunJob, Processes!Ends,
       Processes!Busy, Processes!procs, Processes!Accepting
  <1>3. ProcessesWaitedIsLate'
    BY DEF ProcessesInv, Processes!TypeOK, ProcessesKnownIsEmpty, ProcessesWaitedIsLate,
       Processes!RunJob, Processes!Ends, Processes!Busy, Processes!procs, Processes!Terminal,
       Processes!Accepting
  <1>4. Processes!StopsKeepJobs'
    BY DEF ProcessesInv, Processes!TypeOK, ProcessesKnownIsEmpty, ProcessesWaitedIsLate,
       Processes!StopsKeepJobs, Processes!RunJob, Processes!Ends, Processes!Busy, Processes!procs,
       Processes!Processes, Processes!Terminal
  <1>5. Processes!EndIsTheEnd'
    <2>1. processesFollower' = processesFollower
      BY DEF Processes!RunJob, Processes!Ends
    <2>2. \A k \in ProcessesJobs : processesJob[k] \in Processes!Terminal =>
            processesJob'[k] = processesJob[k]
      BY DEF ProcessesInv, Processes!TypeOK, Processes!RunJob, Processes!Ends, Processes!Terminal
    <2>3. QED BY <2>1, <2>2, ProcessesEndsKept
  <1>6. QED BY <1>1, <1>2, <1>3, <1>4, <1>5 DEF ProcessesInv

LEMMA ProcessesJobEndsInv ==
    ASSUME ProcessesMaxStarts \in Nat, ProcessesMaxKills \in Nat, ProcessesInv,
             NEW j \in ProcessesJobs, Processes!JobEnds(j)
    PROVE  ProcessesInv'
  <1>1. Processes!TypeOK'
    <2>1. processesStarts' \in 0..ProcessesMaxStarts /\ processesKills' \in 0..ProcessesMaxKills
      BY ProcessesCounted, Zenon DEF ProcessesInv, Processes!TypeOK, Processes!JobEnds,
         Processes!Ends, Processes!Busy, Processes!counts
    <2>2. QED BY <2>1, ProcessesProcessNames, ZenonT(60) DEF ProcessesInv, Processes!TypeOK,
      Processes!JobEnds, Processes!Ends, Processes!Busy, Processes!Terminal, Processes!counts,
      Processes!Accepting
  <1>2. ProcessesKnownIsEmpty'
    BY DEF ProcessesInv, Processes!TypeOK, ProcessesKnownIsEmpty, Processes!JobEnds,
       Processes!Ends, Processes!Busy, Processes!Terminal, Processes!Accepting
  <1>3. ProcessesWaitedIsLate'
    <2>1. PICK state \in Processes!Terminal : Processes!Ends(j, state)
      BY DEF Processes!JobEnds
    <2>2. Processes!Busy' \subseteq Processes!Busy \ {j}
      BY <2>1 DEF ProcessesInv, Processes!TypeOK, Processes!Ends, Processes!Busy, Processes!Terminal
    <2>3. CASE processesApi = "closing" /\ Processes!Busy = {j}
      BY <2>2, <2>3, <2>1 DEF Processes!Ends, ProcessesWaitedIsLate
    <2>4. CASE UNCHANGED processesApi
      BY <2>1, <2>2, <2>4 DEF Processes!Ends, ProcessesInv, ProcessesWaitedIsLate
    <2>5. QED BY <2>1, <2>3, <2>4 DEF Processes!Ends
  <1>4. Processes!StopsKeepJobs'
    BY DEF ProcessesInv, Processes!TypeOK, ProcessesKnownIsEmpty, ProcessesWaitedIsLate,
       Processes!StopsKeepJobs, Processes!JobEnds, Processes!Ends, Processes!Busy,
       Processes!Terminal, Processes!Processes
  <1>5. Processes!EndIsTheEnd'
    <2>1. processesFollower' = processesFollower
      BY DEF Processes!JobEnds, Processes!Ends
    <2>2. \A k \in ProcessesJobs : processesJob[k] \in Processes!Terminal =>
            processesJob'[k] = processesJob[k]
      BY DEF ProcessesInv, Processes!TypeOK, Processes!JobEnds, Processes!Ends, Processes!Terminal
    <2>3. QED BY <2>1, <2>2, ProcessesEndsKept
  <1>6. QED BY <1>1, <1>2, <1>3, <1>4, <1>5 DEF ProcessesInv

LEMMA ProcessesStreamJobLogsInv ==
    ASSUME ProcessesMaxStarts \in Nat, ProcessesMaxKills \in Nat, ProcessesInv,
             Processes!StreamJobLogs
    PROVE  ProcessesInv'
  <1>1. Processes!TypeOK'
    <2>1. processesStarts' \in 0..ProcessesMaxStarts /\ processesKills' \in 0..ProcessesMaxKills
      BY ProcessesCounted, Zenon DEF ProcessesInv, Processes!TypeOK, Processes!StreamJobLogs,
         Processes!procs, Processes!counts
    <2>2. processesFollower' \in [at : {"idle", "waiting", "open", "ended", "cut", "left"},
                          via : {"api", "remote"}, of : ProcessesJobs]
      BY DEF Processes!StreamJobLogs
    <2>3. QED BY <2>1, <2>2 DEF ProcessesInv, Processes!TypeOK, Processes!StreamJobLogs,
      Processes!procs, Processes!counts
  <1>2. UNCHANGED <<processesApi, processesJob, processesLate, processesKnown, processesExit>>
    BY DEF Processes!StreamJobLogs, Processes!procs
  <1>3. Processes!EndIsTheEnd'
    <2>1. processesFollower'.at # "ended" /\ processesJob' = processesJob
      BY DEF Processes!StreamJobLogs
    <2>2. QED BY <2>1 DEF Processes!EndIsTheEnd
  <1>4. QED BY <1>1, <1>2, <1>3, ProcessesFollowerOnly DEF ProcessesInv

LEMMA ProcessesForwardInv ==
    ASSUME ProcessesMaxStarts \in Nat, ProcessesMaxKills \in Nat, ProcessesInv, Processes!Forward
    PROVE  ProcessesInv'
  <1>1. Processes!TypeOK'
    <2>1. processesStarts' \in 0..ProcessesMaxStarts /\ processesKills' \in 0..ProcessesMaxKills
      BY ProcessesCounted, Zenon DEF ProcessesInv, Processes!TypeOK, Processes!Forward,
         Processes!Follows, Processes!procs, Processes!counts
    <2>2. QED BY <2>1, ProcessesProcessNames DEF ProcessesInv, Processes!TypeOK, Processes!Forward,
      Processes!Follows, Processes!Accepting, Processes!procs, Processes!counts, Processes!Terminal
  <1>2. UNCHANGED <<processesApi, processesJob, processesLate, processesKnown, processesExit>>
    BY DEF Processes!Forward, Processes!procs
  <1>3. Processes!EndIsTheEnd'
    BY DEF ProcessesInv, Processes!TypeOK, Processes!EndIsTheEnd, Processes!Forward,
       Processes!Follows, Processes!Accepting, Processes!procs, Processes!Terminal
  <1>4. QED BY <1>1, <1>2, <1>3, ProcessesFollowerOnly DEF ProcessesInv

LEMMA ProcessesLogsEndInv ==
    ASSUME ProcessesMaxStarts \in Nat, ProcessesMaxKills \in Nat, ProcessesInv, Processes!LogsEnd
    PROVE  ProcessesInv'
  <1>1. Processes!TypeOK'
    <2>1. processesStarts' \in 0..ProcessesMaxStarts /\ processesKills' \in 0..ProcessesMaxKills
      BY ProcessesCounted, Zenon DEF ProcessesInv, Processes!TypeOK, Processes!LogsEnd,
         Processes!Follows, Processes!Open, Processes!procs, Processes!counts
    <2>2. QED BY <2>1, ProcessesProcessNames DEF ProcessesInv, Processes!TypeOK, Processes!LogsEnd,
      Processes!Follows, Processes!Open, Processes!procs, Processes!counts, Processes!Terminal,
      Processes!Accepting
  <1>2. UNCHANGED <<processesApi, processesJob, processesLate, processesKnown, processesExit>>
    BY DEF Processes!LogsEnd, Processes!procs
  <1>3. Processes!EndIsTheEnd'
    BY DEF ProcessesInv, Processes!TypeOK, Processes!EndIsTheEnd, Processes!LogsEnd,
       Processes!Follows, Processes!Open, Processes!procs, Processes!Terminal
  <1>4. QED BY <1>1, <1>2, <1>3, ProcessesFollowerOnly DEF ProcessesInv

LEMMA ProcessesLeaveInv ==
    ASSUME ProcessesMaxStarts \in Nat, ProcessesMaxKills \in Nat, ProcessesInv, Processes!Leave
    PROVE  ProcessesInv'
  <1>1. Processes!TypeOK'
    <2>1. processesStarts' \in 0..ProcessesMaxStarts /\ processesKills' \in 0..ProcessesMaxKills
      BY ProcessesCounted, Zenon DEF ProcessesInv, Processes!TypeOK, Processes!Leave,
         Processes!Follows, Processes!procs, Processes!counts
    <2>2. QED BY <2>1, ProcessesProcessNames DEF ProcessesInv, Processes!TypeOK, Processes!Leave,
      Processes!Follows, Processes!procs, Processes!counts, Processes!Terminal, Processes!Accepting
  <1>2. UNCHANGED <<processesApi, processesJob, processesLate, processesKnown, processesExit>>
    BY DEF Processes!Leave, Processes!procs
  <1>3. Processes!EndIsTheEnd'
    BY DEF ProcessesInv, Processes!TypeOK, Processes!EndIsTheEnd, Processes!Leave,
       Processes!Follows, Processes!procs, Processes!Terminal
  <1>4. QED BY <1>1, <1>2, <1>3, ProcessesFollowerOnly DEF ProcessesInv

LEMMA ProcessesSignalAPIInv ==
    ASSUME ProcessesMaxStarts \in Nat, ProcessesMaxKills \in Nat, ProcessesInv, Processes!SignalAPI
    PROVE  ProcessesInv'
  <1>1. Processes!TypeOK'
    <2>1. processesStarts' \in 0..ProcessesMaxStarts /\ processesKills' \in 0..ProcessesMaxKills
      BY ProcessesCounted, Zenon DEF ProcessesInv, Processes!TypeOK, Processes!SignalAPI,
         Processes!Busy, Processes!counts
    <2>2. QED BY <2>1, ProcessesProcessNames DEF ProcessesInv, Processes!TypeOK,
      Processes!SignalAPI, Processes!Busy, Processes!counts, Processes!Terminal, Processes!Accepting
  <1>2. ProcessesKnownIsEmpty'
    BY DEF ProcessesInv, Processes!TypeOK, ProcessesKnownIsEmpty, Processes!SignalAPI,
       Processes!Busy, Processes!Accepting
  <1>3. ProcessesWaitedIsLate'
    BY DEF ProcessesInv, Processes!TypeOK, ProcessesKnownIsEmpty, ProcessesWaitedIsLate,
       Processes!SignalAPI, Processes!Busy, Processes!Terminal, Processes!Accepting
  <1>4. Processes!StopsKeepJobs'
    BY DEF ProcessesInv, Processes!TypeOK, ProcessesKnownIsEmpty, ProcessesWaitedIsLate,
       Processes!StopsKeepJobs, Processes!SignalAPI, Processes!Busy, Processes!Processes,
       Processes!Terminal
  <1>5. Processes!EndIsTheEnd'
    BY DEF ProcessesInv, Processes!TypeOK, Processes!EndIsTheEnd, Processes!SignalAPI,
       Processes!Busy, Processes!Terminal
  <1>6. QED BY <1>1, <1>2, <1>3, <1>4, <1>5 DEF ProcessesInv

LEMMA ProcessesSignalStartingAPIInv ==
    ASSUME ProcessesMaxStarts \in Nat, ProcessesMaxKills \in Nat, ProcessesInv,
             Processes!SignalStartingAPI
    PROVE  ProcessesInv'
  <1>1. Processes!TypeOK'
    <2>1. processesStarts' \in 0..ProcessesMaxStarts /\ processesKills' \in 0..ProcessesMaxKills
      BY ProcessesCounted, Zenon DEF ProcessesInv, Processes!TypeOK, Processes!SignalStartingAPI,
         Processes!APIEnds, Processes!Follows, Processes!Open, Processes!Busy, Processes!counts
    <2>2. QED BY <2>1, ProcessesProcessNames DEF ProcessesInv, Processes!TypeOK,
      Processes!SignalStartingAPI, Processes!APIEnds, Processes!Follows, Processes!Open,
      Processes!Busy, Processes!counts, Processes!Terminal, Processes!Accepting
  <1>2. ProcessesKnownIsEmpty'
    BY DEF ProcessesInv, Processes!TypeOK, ProcessesKnownIsEmpty, Processes!SignalStartingAPI,
       Processes!APIEnds, Processes!Follows, Processes!Open, Processes!Busy, Processes!Accepting
  <1>3. ProcessesWaitedIsLate'
    BY DEF ProcessesInv, Processes!TypeOK, ProcessesKnownIsEmpty, ProcessesWaitedIsLate,
       Processes!SignalStartingAPI, Processes!APIEnds, Processes!Follows, Processes!Open,
       Processes!Busy, Processes!Terminal, Processes!Accepting
  <1>4. Processes!StopsKeepJobs'
    BY DEF ProcessesInv, Processes!TypeOK, ProcessesKnownIsEmpty, ProcessesWaitedIsLate,
       Processes!StopsKeepJobs, Processes!SignalStartingAPI, Processes!APIEnds, Processes!Follows,
       Processes!Open, Processes!Busy, Processes!Processes, Processes!Terminal
  <1>5. Processes!EndIsTheEnd'
    BY DEF ProcessesInv, Processes!TypeOK, Processes!EndIsTheEnd, Processes!SignalStartingAPI,
       Processes!APIEnds, Processes!Follows, Processes!Open, Processes!Busy, Processes!Terminal
  <1>6. QED BY <1>1, <1>2, <1>3, <1>4, <1>5 DEF ProcessesInv

\* No job is busy that was submitted before the signal.
LEMMA ProcessesWaitReturnsInv ==
    ASSUME ProcessesMaxStarts \in Nat, ProcessesMaxKills \in Nat, ProcessesInv,
             Processes!WaitReturns
    PROVE  ProcessesInv'
  <1>1. Processes!TypeOK'
    <2>1. processesStarts' \in 0..ProcessesMaxStarts /\ processesKills' \in 0..ProcessesMaxKills
      BY ProcessesCounted, Zenon DEF ProcessesInv, Processes!TypeOK, Processes!WaitReturns,
         Processes!APIEnds, Processes!Follows, Processes!Open, Processes!Busy, Processes!counts
    <2>2. CASE Processes!Busy = {} /\ processesApi' = "waited" /\
                 UNCHANGED <<processesExit, processesJob, processesKnown, processesFollower>>
      BY <2>1, <2>2 DEF ProcessesInv, Processes!TypeOK, Processes!WaitReturns, Processes!Accepting
    <2>3. CASE Processes!APIEnds("panicked", "lost")
      BY <2>1, <2>3, ProcessesProcessNames DEF ProcessesInv, Processes!TypeOK,
         Processes!WaitReturns, Processes!APIEnds, Processes!Follows, Processes!Open, Processes!Busy
    <2>4. QED BY <2>2, <2>3 DEF Processes!WaitReturns
  <1>2. ProcessesKnownIsEmpty'
    BY DEF ProcessesInv, Processes!TypeOK, ProcessesKnownIsEmpty, Processes!WaitReturns,
       Processes!APIEnds, Processes!Follows, Processes!Open, Processes!Busy, Processes!Accepting
  <1>3. ProcessesWaitedIsLate'
    BY DEF ProcessesInv, Processes!TypeOK, ProcessesKnownIsEmpty, ProcessesWaitedIsLate,
       Processes!WaitReturns, Processes!APIEnds, Processes!Follows, Processes!Open, Processes!Busy,
       Processes!Terminal, Processes!Accepting
  <1>4. Processes!StopsKeepJobs'
    BY DEF ProcessesInv, Processes!TypeOK, ProcessesKnownIsEmpty, ProcessesWaitedIsLate,
       Processes!StopsKeepJobs, Processes!WaitReturns, Processes!APIEnds, Processes!Follows,
       Processes!Open, Processes!Busy, Processes!Processes, Processes!Terminal
  <1>5. Processes!EndIsTheEnd'
    <2>1. processesFollower'.at = "ended" => processesFollower' = processesFollower
      BY DEF ProcessesInv, Processes!TypeOK, Processes!WaitReturns, Processes!APIEnds,
         Processes!Follows, Processes!Open
    <2>2. \A k \in ProcessesJobs : processesJob[k] \in Processes!Terminal =>
            processesJob'[k] = processesJob[k]
      BY DEF Processes!WaitReturns, Processes!APIEnds, Processes!Busy, Processes!Terminal
    <2>3. QED BY <2>1, <2>2, ProcessesEndsKept
  <1>6. QED BY <1>1, <1>2, <1>3, <1>4, <1>5 DEF ProcessesInv

LEMMA ProcessesGracefulStopAPIInv ==
    ASSUME ProcessesMaxStarts \in Nat, ProcessesMaxKills \in Nat, ProcessesInv,
             Processes!GracefulStopAPI
    PROVE  ProcessesInv'
  <1>1. Processes!TypeOK'
    <2>1. processesStarts' \in 0..ProcessesMaxStarts /\ processesKills' \in 0..ProcessesMaxKills
      BY ProcessesCounted, Zenon DEF ProcessesInv, Processes!TypeOK, Processes!GracefulStopAPI,
         Processes!counts
    <2>2. QED BY <2>1, ProcessesProcessNames DEF ProcessesInv, Processes!TypeOK,
      Processes!GracefulStopAPI, Processes!counts, Processes!Terminal, Processes!Accepting
  <1>2. ProcessesKnownIsEmpty'
    BY DEF ProcessesInv, Processes!TypeOK, ProcessesKnownIsEmpty, Processes!GracefulStopAPI,
       Processes!Accepting
  <1>3. ProcessesWaitedIsLate'
    BY DEF ProcessesInv, Processes!TypeOK, ProcessesKnownIsEmpty, ProcessesWaitedIsLate,
       Processes!GracefulStopAPI, Processes!Busy, Processes!Terminal, Processes!Accepting
  <1>4. Processes!StopsKeepJobs'
    BY DEF ProcessesInv, Processes!TypeOK, ProcessesKnownIsEmpty, ProcessesWaitedIsLate,
       Processes!StopsKeepJobs, Processes!GracefulStopAPI, Processes!Processes, Processes!Terminal,
       Processes!Busy
  <1>5. Processes!EndIsTheEnd'
    BY DEF ProcessesInv, Processes!TypeOK, Processes!EndIsTheEnd, Processes!GracefulStopAPI,
       Processes!Terminal
  <1>6. QED BY <1>1, <1>2, <1>3, <1>4, <1>5 DEF ProcessesInv

LEMMA ProcessesAPIStopsInv ==
    ASSUME ProcessesMaxStarts \in Nat, ProcessesMaxKills \in Nat, ProcessesInv, Processes!APIStops
    PROVE  ProcessesInv'
  <1>1. Processes!TypeOK'
    <2>1. processesStarts' \in 0..ProcessesMaxStarts /\ processesKills' \in 0..ProcessesMaxKills
      BY ProcessesCounted, Zenon DEF ProcessesInv, Processes!TypeOK, Processes!APIStops,
         Processes!APIEnds, Processes!Follows, Processes!Open, Processes!Busy, Processes!counts
    <2>2. QED BY <2>1, ProcessesProcessNames DEF ProcessesInv, Processes!TypeOK,
      Processes!APIStops, Processes!APIEnds, Processes!Follows, Processes!Open, Processes!Busy,
      Processes!counts, Processes!Terminal, Processes!Accepting
  <1>2. ProcessesKnownIsEmpty'
    BY DEF ProcessesInv, Processes!TypeOK, ProcessesKnownIsEmpty, Processes!APIStops,
       Processes!APIEnds, Processes!Follows, Processes!Open, Processes!Busy, Processes!Accepting
  <1>3. ProcessesWaitedIsLate'
    BY DEF ProcessesInv, Processes!TypeOK, ProcessesKnownIsEmpty, ProcessesWaitedIsLate,
       Processes!APIStops, Processes!APIEnds, Processes!Follows, Processes!Open, Processes!Busy,
       Processes!Terminal, Processes!Accepting
  <1>4. Processes!StopsKeepJobs'
    BY DEF ProcessesInv, Processes!TypeOK, ProcessesKnownIsEmpty, ProcessesWaitedIsLate,
       Processes!StopsKeepJobs, Processes!APIStops, Processes!APIEnds, Processes!Follows,
       Processes!Open, Processes!Busy, Processes!Processes, Processes!Terminal
  <1>5. Processes!EndIsTheEnd'
    BY DEF ProcessesInv, Processes!TypeOK, Processes!EndIsTheEnd, Processes!APIStops,
       Processes!APIEnds, Processes!Follows, Processes!Open, Processes!Busy, Processes!Terminal
  <1>6. QED BY <1>1, <1>2, <1>3, <1>4, <1>5 DEF ProcessesInv

LEMMA ProcessesSignalWorkerInv ==
    ASSUME ProcessesMaxStarts \in Nat, ProcessesMaxKills \in Nat, ProcessesInv,
             Processes!SignalWorker
    PROVE  ProcessesInv'
  <1>1. Processes!TypeOK'
    <2>1. processesStarts' \in 0..ProcessesMaxStarts /\ processesKills' \in 0..ProcessesMaxKills
      BY ProcessesCounted, Zenon DEF ProcessesInv, Processes!TypeOK, Processes!SignalWorker,
         Processes!counts
    <2>2. QED BY <2>1, ProcessesProcessNames DEF ProcessesInv, Processes!TypeOK,
      Processes!SignalWorker, Processes!counts, Processes!Terminal, Processes!Accepting
  <1>2. UNCHANGED <<processesApi, processesJob, processesLate, processesKnown,
          processesFollower>> /\ processesExit'["api"] = processesExit["api"]
    BY ProcessesProcessNames DEF ProcessesInv, Processes!TypeOK, Processes!SignalWorker
  <1>3. QED BY <1>1, <1>2, ProcessesElsewhere DEF ProcessesInv

LEMMA ProcessesWorkerStopsInv ==
    ASSUME ProcessesMaxStarts \in Nat, ProcessesMaxKills \in Nat, ProcessesInv,
             Processes!WorkerStops
    PROVE  ProcessesInv'
  <1>1. Processes!TypeOK'
    <2>1. processesStarts' \in 0..ProcessesMaxStarts /\ processesKills' \in 0..ProcessesMaxKills
      BY ProcessesCounted, Zenon DEF ProcessesInv, Processes!TypeOK, Processes!WorkerStops,
         Processes!counts
    <2>2. QED BY <2>1, ProcessesProcessNames DEF ProcessesInv, Processes!TypeOK,
      Processes!WorkerStops, Processes!counts, Processes!Terminal, Processes!Accepting
  <1>2. UNCHANGED <<processesApi, processesJob, processesLate, processesKnown,
          processesFollower>> /\ processesExit'["api"] = processesExit["api"]
    BY ProcessesProcessNames DEF ProcessesInv, Processes!TypeOK, Processes!WorkerStops
  <1>3. QED BY <1>1, <1>2, ProcessesElsewhere DEF ProcessesInv

LEMMA ProcessesSignalRemoteInv ==
    ASSUME ProcessesMaxStarts \in Nat, ProcessesMaxKills \in Nat, ProcessesInv,
             Processes!SignalRemote
    PROVE  ProcessesInv'
  <1>1. Processes!TypeOK'
    <2>1. processesStarts' \in 0..ProcessesMaxStarts /\ processesKills' \in 0..ProcessesMaxKills
      BY ProcessesCounted, Zenon DEF ProcessesInv, Processes!TypeOK, Processes!SignalRemote,
         Processes!counts
    <2>2. QED BY <2>1, ProcessesProcessNames DEF ProcessesInv, Processes!TypeOK,
      Processes!SignalRemote, Processes!counts, Processes!Terminal, Processes!Accepting
  <1>2. UNCHANGED <<processesApi, processesJob, processesLate, processesKnown,
          processesFollower>> /\ processesExit'["api"] = processesExit["api"]
    BY ProcessesProcessNames DEF ProcessesInv, Processes!TypeOK, Processes!SignalRemote
  <1>3. QED BY <1>1, <1>2, ProcessesElsewhere DEF ProcessesInv

LEMMA ProcessesRemoteStopsInv ==
    ASSUME ProcessesMaxStarts \in Nat, ProcessesMaxKills \in Nat, ProcessesInv,
             Processes!RemoteStops
    PROVE  ProcessesInv'
  <1>1. Processes!TypeOK'
    <2>1. processesStarts' \in 0..ProcessesMaxStarts /\ processesKills' \in 0..ProcessesMaxKills
      BY ProcessesCounted, Zenon DEF ProcessesInv, Processes!TypeOK, Processes!RemoteStops,
         Processes!counts
    <2>2. QED BY <2>1, ProcessesProcessNames DEF ProcessesInv, Processes!TypeOK,
      Processes!RemoteStops, Processes!counts, Processes!Terminal, Processes!Accepting
  <1>2. UNCHANGED <<processesApi, processesJob, processesLate, processesKnown,
          processesFollower>> /\ processesExit'["api"] = processesExit["api"]
    BY ProcessesProcessNames DEF ProcessesInv, Processes!TypeOK, Processes!RemoteStops
  <1>3. QED BY <1>1, <1>2, ProcessesElsewhere DEF ProcessesInv

LEMMA ProcessesKillWorkerInv ==
    ASSUME ProcessesMaxStarts \in Nat, ProcessesMaxKills \in Nat, ProcessesInv, Processes!KillWorker
    PROVE  ProcessesInv'
  <1>1. Processes!TypeOK'
    <2>1. processesStarts' \in 0..ProcessesMaxStarts /\ processesKills' \in 0..ProcessesMaxKills
      BY ProcessesCounted, Zenon DEF ProcessesInv, Processes!TypeOK, Processes!KillWorker,
         Processes!Killed, Processes!Busy
    <2>2. QED BY <2>1, ProcessesProcessNames DEF ProcessesInv, Processes!TypeOK,
      Processes!KillWorker, Processes!Killed, Processes!Busy, Processes!Terminal,
      Processes!Accepting
  <1>2. ProcessesKnownIsEmpty'
    BY DEF ProcessesInv, Processes!TypeOK, ProcessesKnownIsEmpty, Processes!KillWorker,
       Processes!Killed, Processes!Busy, Processes!Accepting
  <1>3. ProcessesWaitedIsLate'
    BY DEF ProcessesInv, Processes!TypeOK, ProcessesKnownIsEmpty, ProcessesWaitedIsLate,
       Processes!KillWorker, Processes!Killed, Processes!Busy, Processes!Terminal,
       Processes!Accepting
  <1>4. Processes!StopsKeepJobs'
    BY DEF ProcessesInv, Processes!TypeOK, ProcessesKnownIsEmpty, ProcessesWaitedIsLate,
       Processes!StopsKeepJobs, Processes!KillWorker, Processes!Killed, Processes!Busy,
       Processes!Processes, Processes!Terminal
  <1>5. Processes!EndIsTheEnd'
    BY DEF ProcessesInv, Processes!TypeOK, Processes!EndIsTheEnd, Processes!KillWorker,
       Processes!Killed, Processes!Busy, Processes!Terminal
  <1>6. QED BY <1>1, <1>2, <1>3, <1>4, <1>5 DEF ProcessesInv

LEMMA ProcessesKillAPIInv ==
    ASSUME ProcessesMaxStarts \in Nat, ProcessesMaxKills \in Nat, ProcessesInv, Processes!KillAPI
    PROVE  ProcessesInv'
  <1>1. Processes!TypeOK'
    <2>1. processesStarts' \in 0..ProcessesMaxStarts /\ processesKills' \in 0..ProcessesMaxKills
      BY ProcessesCounted, Zenon DEF ProcessesInv, Processes!TypeOK, Processes!KillAPI,
         Processes!Killed, Processes!APIEnds, Processes!Follows, Processes!Open, Processes!Busy
    <2>2. QED BY <2>1, ProcessesProcessNames DEF ProcessesInv, Processes!TypeOK, Processes!KillAPI,
      Processes!Killed, Processes!APIEnds, Processes!Follows, Processes!Open, Processes!Busy,
      Processes!Terminal, Processes!Accepting
  <1>2. ProcessesKnownIsEmpty'
    BY DEF ProcessesInv, Processes!TypeOK, ProcessesKnownIsEmpty, Processes!KillAPI,
       Processes!Killed, Processes!APIEnds, Processes!Follows, Processes!Open, Processes!Busy,
       Processes!Accepting
  <1>3. ProcessesWaitedIsLate'
    BY DEF ProcessesInv, Processes!TypeOK, ProcessesKnownIsEmpty, ProcessesWaitedIsLate,
       Processes!KillAPI, Processes!Killed, Processes!APIEnds, Processes!Follows, Processes!Open,
       Processes!Busy, Processes!Terminal, Processes!Accepting
  <1>4. Processes!StopsKeepJobs'
    BY DEF ProcessesInv, Processes!TypeOK, ProcessesKnownIsEmpty, ProcessesWaitedIsLate,
       Processes!StopsKeepJobs, Processes!KillAPI, Processes!Killed, Processes!APIEnds,
       Processes!Follows, Processes!Open, Processes!Busy, Processes!Processes, Processes!Terminal
  <1>5. Processes!EndIsTheEnd'
    BY DEF ProcessesInv, Processes!TypeOK, Processes!EndIsTheEnd, Processes!KillAPI,
       Processes!Killed, Processes!APIEnds, Processes!Follows, Processes!Open, Processes!Busy,
       Processes!Terminal
  <1>6. QED BY <1>1, <1>2, <1>3, <1>4, <1>5 DEF ProcessesInv

LEMMA ProcessesKillRemoteInv ==
    ASSUME ProcessesMaxStarts \in Nat, ProcessesMaxKills \in Nat, ProcessesInv, Processes!KillRemote
    PROVE  ProcessesInv'
  <1>1. Processes!TypeOK'
    <2>1. processesStarts' \in 0..ProcessesMaxStarts /\ processesKills' \in 0..ProcessesMaxKills
      BY ProcessesCounted, Zenon DEF ProcessesInv, Processes!TypeOK, Processes!KillRemote,
         Processes!Killed, Processes!Proxied, Processes!Follows
    <2>2. QED BY <2>1, ProcessesProcessNames DEF ProcessesInv, Processes!TypeOK,
      Processes!KillRemote, Processes!Killed, Processes!Proxied, Processes!Follows,
      Processes!Terminal, Processes!Accepting
  <1>2. ProcessesKnownIsEmpty'
    BY DEF ProcessesInv, Processes!TypeOK, ProcessesKnownIsEmpty, Processes!KillRemote,
       Processes!Killed, Processes!Proxied, Processes!Follows, Processes!Accepting
  <1>3. ProcessesWaitedIsLate'
    BY DEF ProcessesInv, Processes!TypeOK, ProcessesKnownIsEmpty, ProcessesWaitedIsLate,
       Processes!KillRemote, Processes!Killed, Processes!Proxied, Processes!Follows,
       Processes!Busy, Processes!Terminal, Processes!Accepting
  <1>4. Processes!StopsKeepJobs'
    BY DEF ProcessesInv, Processes!TypeOK, ProcessesKnownIsEmpty, ProcessesWaitedIsLate,
       Processes!StopsKeepJobs, Processes!KillRemote, Processes!Killed, Processes!Proxied,
       Processes!Follows, Processes!Processes, Processes!Terminal, Processes!Busy
  <1>5. Processes!EndIsTheEnd'
    BY DEF ProcessesInv, Processes!TypeOK, Processes!EndIsTheEnd, Processes!KillRemote,
       Processes!Killed, Processes!Proxied, Processes!Follows, Processes!Terminal
  <1>6. QED BY <1>1, <1>2, <1>3, <1>4, <1>5 DEF ProcessesInv

\* Every step keeps the invariant.
LEMMA ProcessesNextInv ==
    ASSUME ProcessesMaxStarts \in Nat, ProcessesMaxKills \in Nat, ProcessesInv,
             [Processes!Next]_Processes!vars
    PROVE  ProcessesInv'
  <1>1. CASE Processes!Starting
    BY <1>1, ProcessesStartWorkerInv, ProcessesStartAPIInv, ProcessesDialWorkerInv,
       ProcessesServeAPIInv, ProcessesStartRemoteInv,
       ProcessesDialJobServiceInv
       DEF Processes!Starting
  <1>2. CASE Processes!Calls
    BY <1>2, ProcessesSubmitJobInv, ProcessesRunJobInv, ProcessesJobEndsInv,
       ProcessesStreamJobLogsInv, ProcessesForwardInv, ProcessesLogsEndInv,
       ProcessesLeaveInv
       DEF Processes!Calls
  <1>3. CASE Processes!Stopping
    BY <1>3, ProcessesSignalAPIInv, ProcessesSignalStartingAPIInv, ProcessesWaitReturnsInv,
       ProcessesGracefulStopAPIInv,
       ProcessesAPIStopsInv, ProcessesSignalWorkerInv, ProcessesWorkerStopsInv,
       ProcessesSignalRemoteInv,
       ProcessesRemoteStopsInv
       DEF Processes!Stopping, Processes!StopAPI
  <1>4. CASE Processes!Killing
    BY <1>4, ProcessesKillWorkerInv, ProcessesKillAPIInv,
       ProcessesKillRemoteInv DEF Processes!Killing
  <1>5. CASE UNCHANGED Processes!vars
    <2>1. Processes!TypeOK'
      BY <1>5 DEF Processes!vars, ProcessesInv, Processes!TypeOK
    <2>2. ProcessesKnownIsEmpty' /\ ProcessesWaitedIsLate'
      BY <1>5 DEF Processes!vars, ProcessesInv, ProcessesKnownIsEmpty, ProcessesWaitedIsLate,
         Processes!Busy
    <2>3. Processes!StopsKeepJobs' /\ Processes!EndIsTheEnd'
      BY <1>5 DEF Processes!vars, ProcessesInv, Processes!StopsKeepJobs, Processes!EndIsTheEnd
    <2>4. QED BY <2>1, <2>2, <2>3 DEF ProcessesInv
  <1>6. QED BY <1>1, <1>2, <1>3, <1>4, <1>5 DEF Processes!Next

-----------------------------------------------------------------------------
\* Every state is well typed, however many jobs, starts and kills there are.
THEOREM ProcessesTypeCorrect ==
    ASSUME ProcessesJobs # {}, ProcessesMaxStarts \in Nat, ProcessesMaxKills \in Nat
    PROVE  Processes!Spec => []Processes!TypeOK
  <1>1. ProcessesInv => Processes!TypeOK
    BY DEF ProcessesInv
  <1>2. QED BY <1>1, ProcessesInitInv, ProcessesNextInv, PTL DEF Processes!Spec

\* An API that ends by itself loses, or panics over, only jobs that were submitted after
\* its signal to stop (jobService.Close and the shutdown of cmd/api/main.go).
THEOREM AcceptedJobsAreKept ==
    ASSUME ProcessesJobs # {}, ProcessesMaxStarts \in Nat, ProcessesMaxKills \in Nat
    PROVE  Processes!Spec => []Processes!StopsKeepJobs
  <1>1. ProcessesInv => Processes!StopsKeepJobs
    BY DEF ProcessesInv
  <1>2. QED BY <1>1, ProcessesInitInv, ProcessesNextInv, PTL DEF Processes!Spec

\* Whoever is told the end of a log, by the API or through the proxy, follows a job that
\* has ended (StreamJobLogs of job_proxy.go).
THEOREM EndsAreTrue ==
    ASSUME ProcessesJobs # {}, ProcessesMaxStarts \in Nat, ProcessesMaxKills \in Nat
    PROVE  Processes!Spec => []Processes!EndIsTheEnd
  <1>1. ProcessesInv => Processes!EndIsTheEnd
    BY DEF ProcessesInv
  <1>2. QED BY <1>1, ProcessesInitInv, ProcessesNextInv, PTL DEF Processes!Spec

-----------------------------------------------------------------------------
(***************************************************************************)
(* Proofs about JobMirror, for any number of jobs, chunks, crashes, failed *)
(* publishes and replays that end early.                                   *)
(***************************************************************************)

MirrorBounds == MirrorMaxBatch \in Nat /\ MirrorMaxCrashes \in Nat /\ MirrorMaxFaults \in Nat

\* Where the stream of the logs, and what is about to be published, have chunks of j.
MirrorStreamAt(j) == {p \in 1..Len(mirrorLogsStream) : mirrorLogsStream[p].job = j}
MirrorOwedAt(j) == {k \in 1..Len(mirrorOutbox[j]) : "chunk" \in DOMAIN mirrorOutbox[j][k]}

MirrorStreamed(j, o) == \E p \in MirrorStreamAt(j) : mirrorLogsStream[p].chunk.offset = o
MirrorOwed(j, o) == \E k \in MirrorOwedAt(j) : mirrorOutbox[j][k].chunk.offset = o

\* A chunk of j as it was first appended.
MirrorKept(j, x) == x.offset \in 1..Len(mirrorEverLog[j]) /\ x = mirrorEverLog[j][x.offset]

\* What the stream holds of j.
MirrorInStream(j) ==
    /\ \A p \in MirrorStreamAt(j) : MirrorKept(j, mirrorLogsStream[p].chunk)
    /\ \A p, r \in MirrorStreamAt(j) : p < r =>
         mirrorLogsStream[p].chunk.offset < mirrorLogsStream[r].chunk.offset

\* What the writer of j has still to publish: the chunks of one batch, after those in
\* the stream, or one snapshot.
MirrorInOutbox(j) ==
    /\ \A k \in 1..Len(mirrorOutbox[j]) : mirrorOutbox[j][k].job = j
    /\ \/ MirrorOwedAt(j) = 1..Len(mirrorOutbox[j])
       \/ Len(mirrorOutbox[j]) = 1 /\ "snapshot" \in DOMAIN mirrorOutbox[j][1]
    /\ mirrorProc # "serving" => mirrorOutbox[j] = <<>>
    /\ \A k \in MirrorOwedAt(j) : MirrorKept(j, mirrorOutbox[j][k].chunk)
    /\ \A k, l \in MirrorOwedAt(j) : k < l =>
         mirrorOutbox[j][k].chunk.offset < mirrorOutbox[j][l].chunk.offset
    /\ \A p \in MirrorStreamAt(j), k \in MirrorOwedAt(j) :
           mirrorLogsStream[p].chunk.offset < mirrorOutbox[j][k].chunk.offset

\* The log of j in memory, and what a replay has still to add to it.
MirrorInMemory(j) ==
    /\ \A i \in 1..Len(mirrorLogs[j]) : MirrorKept(j, mirrorLogs[j][i]) /\
         mirrorLogs[j][i].offset <= mirrorLogOffsets[j]
    /\ \A i, k \in 1..Len(mirrorLogs[j]) : i < k =>
         mirrorLogs[j][i].offset < mirrorLogs[j][k].offset
    /\ mirrorProc \in {"down", "jobs"} => mirrorLogs[j] = <<>>
    /\ mirrorProc = "logs" =>
           \A p \in MirrorStreamAt(j), i \in 1..Len(mirrorLogs[j]) :
               p > mirrorReplayPos => mirrorLogs[j][i].offset < mirrorLogsStream[p].chunk.offset

\* A job is written by one incarnation of the process, which has its whole log.
MirrorWriting(j) ==
    /\ \A i \in 1..Len(mirrorEverLog[j]) : mirrorEverLog[j][i].offset = i
    /\ mirrorWpc[j] \in {"none", "accepted", "running"} =>
           mirrorLogs[j] = mirrorEverLog[j] /\ mirrorLogOffsets[j] = Len(mirrorEverLog[j])
    /\ mirrorWpc[j] = "none" => mirrorEverLog[j] = <<>> /\ mirrorOutbox[j] = <<>>
    /\ mirrorWpc[j] \in {"accepted", "running"} => mirrorProc = "serving"

\* Nobody says that j has ended before its writer says so, and then the stream has all
\* of its chunks.
MirrorEnding(j) ==
    /\ \/ mirrorJobs[j].state \in Mirror!Terminal
       \/ \E p \in 1..Len(mirrorJobsStream) :
              mirrorJobsStream[p].job = j /\ mirrorJobsStream[p].snapshot.state \in Mirror!Terminal
       \/ \E k \in 1..Len(mirrorOutbox[j]) :
              "snapshot" \in DOMAIN mirrorOutbox[j][k] /\
                mirrorOutbox[j][k].snapshot.state \in Mirror!Terminal
       => mirrorWpc[j] = "finished"
    /\ mirrorFaults = 0 /\ mirrorWpc[j] = "finished" =>
         \A o \in 1..Len(mirrorEverLog[j]) : MirrorStreamed(j, o)

\* While nothing failed no offset is missing: in the stream before one that is there,
\* in memory, and - while the process serves, or in what has been replayed - from both.
MirrorComplete(j) ==
    /\ \A p \in MirrorStreamAt(j) : \A o \in 1..mirrorLogsStream[p].chunk.offset :
         MirrorStreamed(j, o)
    /\ \A i \in 1..Len(mirrorLogs[j]) : mirrorLogs[j][i].offset = i
    /\ mirrorProc = "serving" =>
           /\ \A p \in MirrorStreamAt(j) : mirrorLogsStream[p].chunk.offset <= Len(mirrorLogs[j])
           /\ \A k \in MirrorOwedAt(j) : mirrorOutbox[j][k].chunk.offset <= Len(mirrorLogs[j])
           /\ \A o \in 1..Len(mirrorLogs[j]) : MirrorStreamed(j, o) \/ MirrorOwed(j, o)
    /\ mirrorProc = "logs" =>
           /\ \A p \in MirrorStreamAt(j) :
                mirrorLogsStream[p].chunk.offset <= Len(mirrorLogs[j]) <=> p <= mirrorReplayPos
           /\ \A o \in 1..Len(mirrorLogs[j]) : MirrorStreamed(j, o)

MirrorJobInv(j) ==
    /\ MirrorInStream(j) /\ MirrorInOutbox(j) /\ MirrorInMemory(j) /\ MirrorWriting(j) /\
         MirrorEnding(j)
    /\ mirrorFaults = 0 => MirrorComplete(j)

MirrorInv == Mirror!TypeOK /\ \A j \in MirrorJobs : MirrorJobInv(j)
-----------------------------------------------------------------------------
LEMMA MirrorEventFields ==
    /\ \A e \in Mirror!JobEvents : "snapshot" \in DOMAIN e /\ "chunk" \notin DOMAIN e
    /\ \A e \in Mirror!LogEvents : "chunk" \in DOMAIN e /\ "snapshot" \notin DOMAIN e
    /\ \A e \in Mirror!JobEvents : e.job \in MirrorJobs /\ e.snapshot \in Mirror!Snapshots /\
         e.version \in Nat
    /\ \A e \in Mirror!LogEvents : e.job \in MirrorJobs /\ e.chunk \in Mirror!Chunks /\
         e.chunk.offset \in Nat
    /\ \A e \in Mirror!JobEvents \cup Mirror!LogEvents : "chunk" \in DOMAIN e =>
         e \in Mirror!LogEvents
    /\ \A e \in Mirror!JobEvents \cup Mirror!LogEvents : "snapshot" \in DOMAIN e =>
         e \in Mirror!JobEvents
  BY DEF Mirror!JobEvents, Mirror!LogEvents, Mirror!Chunks

\* The types of what the proofs look at.
LEMMA MirrorTyped ==
    ASSUME Mirror!TypeOK, NEW j \in MirrorJobs
    PROVE  /\ mirrorLogs[j] \in Seq(Mirror!Chunks) /\ mirrorEverLog[j] \in Seq(Mirror!Chunks)
           /\ Len(mirrorLogs[j]) \in Nat /\ Len(mirrorEverLog[j]) \in Nat /\
                mirrorLogOffsets[j] \in Nat
           /\ \A i \in 1..Len(mirrorLogs[j]) : mirrorLogs[j][i] \in Mirror!Chunks /\
                mirrorLogs[j][i].offset \in Nat
           /\ \A i \in 1..Len(mirrorEverLog[j]) : mirrorEverLog[j][i] \in Mirror!Chunks /\
                mirrorEverLog[j][i].offset \in Nat
           /\ mirrorOutbox[j] \in Seq(Mirror!JobEvents \cup Mirror!LogEvents) /\
                Len(mirrorOutbox[j]) \in Nat
           /\ \A k \in 1..Len(mirrorOutbox[j]) :
                mirrorOutbox[j][k] \in Mirror!JobEvents \cup Mirror!LogEvents
           /\ \A k \in MirrorOwedAt(j) :
                  /\ k \in 1..Len(mirrorOutbox[j]) /\ mirrorOutbox[j][k] \in Mirror!LogEvents
                  /\ mirrorOutbox[j][k].chunk.offset \in Nat
           /\ mirrorLogsStream \in Seq(Mirror!LogEvents) /\ Len(mirrorLogsStream) \in Nat
           /\ \A p \in 1..Len(mirrorLogsStream) :
                  mirrorLogsStream[p] \in Mirror!LogEvents /\
                    mirrorLogsStream[p].chunk.offset \in Nat
           /\ mirrorJobsStream \in Seq(Mirror!JobEvents) /\ Len(mirrorJobsStream) \in Nat
           /\ \A p \in 1..Len(mirrorJobsStream) : mirrorJobsStream[p] \in Mirror!JobEvents
  <1>1. /\ mirrorLogs[j] \in Seq(Mirror!Chunks) /\ mirrorEverLog[j] \in Seq(Mirror!Chunks) /\
             mirrorLogOffsets[j] \in Nat
        /\ mirrorOutbox[j] \in Seq(Mirror!JobEvents \cup Mirror!LogEvents)
        /\ mirrorLogsStream \in Seq(Mirror!LogEvents) /\ mirrorJobsStream \in Seq(Mirror!JobEvents)
    BY DEF Mirror!TypeOK, Mirror!StoreTypeOK
  <1>2. \A x \in Mirror!Chunks : x.offset \in Nat
    BY DEF Mirror!Chunks
  <1>3. QED
    BY <1>1, <1>2, MirrorEventFields DEF MirrorOwedAt

\* A step that changes nothing of j, and adds nothing of j to the streams.
LEMMA MirrorFrame ==
    ASSUME NEW j \in MirrorJobs, MirrorJobInv(j), mirrorProc' = mirrorProc, mirrorFaults' = 0 =>
             mirrorFaults = 0,
           MirrorStreamAt(j)' = MirrorStreamAt(j),
           \A p \in MirrorStreamAt(j) :
               /\ mirrorLogsStream'[p] = mirrorLogsStream[p]
               /\ (p > mirrorReplayPos' <=> p > mirrorReplayPos) /\
                    (p <= mirrorReplayPos' <=> p <= mirrorReplayPos),
           \A p \in 1..Len(mirrorJobsStream') :
               mirrorJobsStream'[p].job = j =>
                 p \in 1..Len(mirrorJobsStream) /\ mirrorJobsStream'[p] = mirrorJobsStream[p],
           mirrorJobs'[j] = mirrorJobs[j], mirrorLogs'[j] = mirrorLogs[j],
             mirrorLogOffsets'[j] = mirrorLogOffsets[j],
           mirrorWpc'[j] = mirrorWpc[j], mirrorOutbox'[j] = mirrorOutbox[j],
             mirrorEverLog'[j] = mirrorEverLog[j]
    PROVE  MirrorJobInv(j)'
  <1>1. MirrorOwedAt(j)' = MirrorOwedAt(j)
    BY DEF MirrorOwedAt
  <1>2. MirrorInStream(j)'
    BY DEF MirrorJobInv, MirrorInStream, MirrorKept
  <1>3. MirrorInOutbox(j)'
    BY <1>1 DEF MirrorJobInv, MirrorInOutbox, MirrorKept
  <1>4. MirrorInMemory(j)'
    BY DEF MirrorJobInv, MirrorInMemory, MirrorKept
  <1>5. MirrorWriting(j)'
    BY DEF MirrorJobInv, MirrorWriting
  <1>6. \A o : (MirrorStreamed(j, o)' <=> MirrorStreamed(j, o)) /\
          (MirrorOwed(j, o)' <=> MirrorOwed(j, o))
    BY <1>1 DEF MirrorStreamed, MirrorOwed
  <1>7. MirrorEnding(j)'
    BY <1>6 DEF MirrorJobInv, MirrorEnding
  <1>8. mirrorFaults' = 0 => MirrorComplete(j)'
    BY <1>1, <1>6 DEF MirrorJobInv, MirrorComplete
  <1>9. QED
    BY <1>2, <1>3, <1>4, <1>5, <1>7, <1>8 DEF MirrorJobInv

LEMMA MirrorInitInv == ASSUME MirrorBounds, Mirror!Init PROVE MirrorInv
  <1>1. Mirror!TypeOK
    BY DEF Mirror!Init, Mirror!StoreInit, Mirror!TypeOK, Mirror!StoreTypeOK, MirrorBounds,
       Mirror!Snapshots, Mirror!States
  <1>2. ASSUME NEW j \in MirrorJobs PROVE MirrorJobInv(j)
    BY DEF Mirror!Init, Mirror!StoreInit, MirrorJobInv, MirrorInStream, MirrorInOutbox,
       MirrorInMemory, MirrorWriting, MirrorEnding, MirrorComplete,
           MirrorStreamAt, MirrorOwedAt, Mirror!Terminal
  <1>3. QED
    BY <1>1, <1>2 DEF MirrorInv

-----------------------------------------------------------------------------
\* The writer stores a snapshot; what it had to publish has been.
LEMMA MirrorPutInv ==
    ASSUME MirrorInv, NEW j \in MirrorJobs, NEW snapshot \in Mirror!Snapshots, NEW was, NEW new,
           Mirror!Ready(j, was), Mirror!PutJob(j, snapshot, new),
           \/ was = "none" /\ new = "accepted" /\ snapshot.state \notin Mirror!Terminal
           \/ was = "accepted" /\ new = "running" /\ snapshot.state \notin Mirror!Terminal
           \/ was = "running" /\ new = "finished"
    PROVE  MirrorInv'
  <1>1. PICK e \in Mirror!JobEvents :
           /\ e.job = j /\ e.snapshot = snapshot /\ "snapshot" \in DOMAIN e
           /\ "chunk" \notin DOMAIN e /\ mirrorOutbox' = [mirrorOutbox EXCEPT ![j] = <<e>>]
    <2>1. PICK e : e = [job |-> j, snapshot |-> snapshot, version |-> mirrorJobVersions[j] + 1]
      OBVIOUS
    <2>2. e \in Mirror!JobEvents
      BY <2>1 DEF MirrorInv, Mirror!TypeOK, Mirror!StoreTypeOK, Mirror!JobEvents
    <2>3. QED
      BY <2>1, <2>2, MirrorEventFields DEF Mirror!PutJob
  <1>2. Mirror!TypeOK'
    <2>1. mirrorOutbox' \in [MirrorJobs -> Seq(Mirror!JobEvents \cup Mirror!LogEvents)]
      BY <1>1 DEF MirrorInv, Mirror!TypeOK
    <2>2. /\ mirrorJobs' \in [MirrorJobs -> Mirror!Snapshots] /\
               mirrorJobVersions' \in [MirrorJobs -> Nat]
          /\ mirrorWpc' \in [MirrorJobs -> {"none", "accepted", "running", "finished", "lost"}]
      BY DEF MirrorInv, Mirror!TypeOK, Mirror!StoreTypeOK, Mirror!PutJob, Mirror!Put
    <2>3. UNCHANGED <<mirrorLogs, mirrorLogOffsets, mirrorLogSubs, mirrorLogCh, mirrorChOpen,
            mirrorInflight, mirrorProc, mirrorJobsStream,
                      mirrorLogsStream, mirrorReplayPos, mirrorCrashes, mirrorFaults,
                        mirrorEverLog, mirrorShownLog>>
      BY DEF Mirror!PutJob, Mirror!Put, Mirror!history
    <2>4. QED
      BY <2>1, <2>2, <2>3 DEF MirrorInv, Mirror!TypeOK, Mirror!StoreTypeOK
  <1>3. /\ mirrorProc = "serving" /\ mirrorProc' = mirrorProc /\ mirrorWpc[j] = was /\
             mirrorOutbox[j] = <<>>
        /\ UNCHANGED <<mirrorJobsStream, mirrorLogsStream, mirrorReplayPos, mirrorFaults,
             mirrorLogs, mirrorLogOffsets, mirrorEverLog>>
        /\ mirrorJobs' = [mirrorJobs EXCEPT ![j] = snapshot] /\
             mirrorWpc' = [mirrorWpc EXCEPT ![j] = new]
    BY DEF Mirror!Ready, Mirror!PutJob, Mirror!Put, Mirror!history
  <1>4. ASSUME NEW k \in MirrorJobs, k # j PROVE MirrorJobInv(k)'
    <2>1. /\ mirrorJobs'[k] = mirrorJobs[k] /\ mirrorWpc'[k] = mirrorWpc[k] /\
               mirrorOutbox'[k] = mirrorOutbox[k]
          /\ MirrorStreamAt(k)' = MirrorStreamAt(k)
      BY <1>1, <1>3, <1>4 DEF MirrorInv, Mirror!TypeOK, Mirror!StoreTypeOK, MirrorStreamAt
    <2>2. QED
      BY <1>3, <2>1, MirrorFrame DEF MirrorInv
  <1>5. /\ mirrorJobs'[j] = snapshot /\ mirrorWpc'[j] = new /\ mirrorOutbox'[j] = <<e>>
        /\ Len(mirrorOutbox'[j]) = 1 /\ mirrorOutbox'[j][1] = e
        /\ MirrorOwedAt(j) = {} /\ MirrorOwedAt(j)' = {} /\ MirrorStreamAt(j)' = MirrorStreamAt(j)
    <2>1. mirrorJobs'[j] = snapshot /\ mirrorWpc'[j] = new /\ mirrorOutbox'[j] = <<e>>
      BY <1>1, <1>3 DEF MirrorInv, Mirror!TypeOK, Mirror!StoreTypeOK
    <2>2. QED
      BY <1>1, <1>3, <2>1 DEF MirrorOwedAt, MirrorStreamAt
  <1>6. MirrorJobInv(j)
    BY DEF MirrorInv
  <1>7. MirrorInStream(j)'
    BY <1>3, <1>5, <1>6 DEF MirrorJobInv, MirrorInStream, MirrorKept
  <1>8. MirrorInOutbox(j)'
    BY <1>1, <1>3, <1>5 DEF MirrorInOutbox
  <1>9. MirrorInMemory(j)'
    BY <1>3, <1>5, <1>6 DEF MirrorJobInv, MirrorInMemory, MirrorKept
  <1>10. MirrorWriting(j)'
    BY <1>3, <1>5, <1>6 DEF MirrorJobInv, MirrorWriting
  <1>11. \A o : (MirrorStreamed(j, o)' <=> MirrorStreamed(j, o)) /\ ~MirrorOwed(j, o) /\
           ~MirrorOwed(j, o)'
    BY <1>3, <1>5 DEF MirrorStreamed, MirrorOwed
  <1>12. MirrorEnding(j)'
    <2>1. CASE new = "finished"
      BY <1>3, <1>5, <1>6, <1>11, <2>1 DEF MirrorJobInv, MirrorEnding, MirrorComplete, MirrorWriting
    <2>2. CASE new # "finished"
      BY <1>1, <1>3, <1>5, <1>6, <2>2 DEF MirrorJobInv, MirrorEnding
    <2>3. QED
      BY <2>1, <2>2
  <1>13. mirrorFaults' = 0 => MirrorComplete(j)'
    BY <1>3, <1>5, <1>6, <1>11 DEF MirrorJobInv, MirrorComplete
  <1>14. QED
    BY <1>2, <1>4, <1>7, <1>8, <1>9, <1>10, <1>12, <1>13 DEF MirrorInv, MirrorJobInv

\* The sequences that are joined: what is appended to a log.
LEMMA MirrorJoined ==
    ASSUME NEW s \in Seq(Mirror!Chunks), NEW t \in Seq(Mirror!Chunks)
    PROVE  /\ s \o t \in Seq(Mirror!Chunks) /\ Len(s \o t) = Len(s) + Len(t)
           /\ Len(s) \in Nat /\ Len(t) \in Nat
           /\ \A i \in 1..Len(s) : (s \o t)[i] = s[i]
           /\ \A i \in 1..Len(t) : (s \o t)[Len(s) + i] = t[i]
           /\ \A i \in 1..Len(s \o t) :
                  i \in 1..Len(s) \/ (i - Len(s) \in 1..Len(t) /\ (s \o t)[i] = t[i - Len(s)])
  OBVIOUS

\* The chunks of a batch have the offsets that follow.
LEMMA MirrorBatch ==
    ASSUME MirrorInv, MirrorBounds, NEW j \in MirrorJobs, NEW n \in 1..MirrorMaxBatch,
             Mirror!DispatchLogs(j, n)
    PROVE  \E b \in Seq(Mirror!Chunks) :
             /\ Len(b) = n /\ \A i \in 1..n : b[i].offset = mirrorLogOffsets[j] + i
             /\ mirrorLogs' = [mirrorLogs EXCEPT ![j] = @ \o b]
             /\ mirrorLogOffsets' = [mirrorLogOffsets EXCEPT ![j] = @ + n]
             /\ mirrorEverLog' = [mirrorEverLog EXCEPT ![j] = @ \o b]
             /\ mirrorOutbox' = [mirrorOutbox EXCEPT ![j] = [i \in 1..n |-> [job |-> j,
                  chunk |-> b[i]]]]
             /\ mirrorInflight' \in [MirrorRpcs -> Seq(Mirror!Chunks)]
  <1>1. PICK ls : ls = [i \in 1..n |-> <<"stdout", Len(mirrorEverLog[j]) + i>>]
    OBVIOUS
  <1>2. n \in Nat /\ Len(ls) = n /\ \A i \in 1..n : ls[i] \in Mirror!Lines
    <2>1. n \in Nat
      BY DEF MirrorBounds
    <2>2. ls \in Seq(Mirror!Lines) /\ Len(ls) = n
      <3>1. \A i \in 1..n : <<"stdout", Len(mirrorEverLog[j]) + i>> \in Mirror!Lines
        BY <2>1, MirrorTyped DEF MirrorInv, Mirror!Lines, Mirror!Fds
      <3>2. ls \in [1..n -> Mirror!Lines]
        BY <1>1, <3>1
      <3>3. QED
        BY <2>1, <3>2
    <2>3. QED
      BY <2>1, <2>2
  <1>3. PICK b : b = Mirror!Stamped(j, ls)
    OBVIOUS
  <1>4. b = [i \in 1..n |-> [offset |-> mirrorLogOffsets[j] + i, line |-> ls[i]]]
    BY <1>2, <1>3 DEF Mirror!Stamped
  <1>5. \A i \in 1..n : b[i] \in Mirror!Chunks /\ b[i].offset = mirrorLogOffsets[j] + i
    <2>1. mirrorLogOffsets[j] \in Nat
      BY MirrorTyped DEF MirrorInv
    <2>2. QED
      BY <1>2, <1>4, <2>1 DEF Mirror!Chunks
  <1>6. b \in Seq(Mirror!Chunks) /\ Len(b) = n
    BY <1>2, <1>4, <1>5
  <1>7. /\ mirrorLogs' = [mirrorLogs EXCEPT ![j] = @ \o b]
        /\ mirrorLogOffsets' = [mirrorLogOffsets EXCEPT ![j] = @ + n]
        /\ mirrorEverLog' = [mirrorEverLog EXCEPT ![j] = @ \o b]
        /\ mirrorOutbox' = [mirrorOutbox EXCEPT ![j] = [i \in 1..n |-> [job |-> j, chunk |-> b[i]]]]
        /\ mirrorInflight' = [s \in MirrorRpcs |-> IF s \in mirrorLogSubs[j] THEN b ELSE <<>>]
    BY <1>1, <1>2, <1>3 DEF Mirror!DispatchLogs, Mirror!AppendLogs
  <1>8. mirrorInflight' \in [MirrorRpcs -> Seq(Mirror!Chunks)]
    <2>1. <<>> \in Seq(Mirror!Chunks)
      OBVIOUS
    <2>2. QED
      BY <1>6, <1>7, <2>1
  <1>9. QED
    BY <1>5, <1>6, <1>7, <1>8, Zenon

\* A batch of chunks is appended; nothing of j was waiting to be published.
LEMMA MirrorDispatchLogsInv ==
    ASSUME MirrorInv, MirrorBounds, NEW j \in MirrorJobs, NEW n \in 1..MirrorMaxBatch,
             Mirror!DispatchLogs(j, n)
    PROVE  MirrorInv'
  <1>1. PICK b \in Seq(Mirror!Chunks) :
             /\ Len(b) = n /\ \A i \in 1..n : b[i].offset = mirrorLogOffsets[j] + i
             /\ mirrorLogs' = [mirrorLogs EXCEPT ![j] = @ \o b]
             /\ mirrorLogOffsets' = [mirrorLogOffsets EXCEPT ![j] = @ + n]
             /\ mirrorEverLog' = [mirrorEverLog EXCEPT ![j] = @ \o b]
             /\ mirrorOutbox' = [mirrorOutbox EXCEPT ![j] = [i \in 1..n |-> [job |-> j,
                  chunk |-> b[i]]]]
             /\ mirrorInflight' \in [MirrorRpcs -> Seq(Mirror!Chunks)]
    BY MirrorBatch
  <1>2. n \in Nat /\ n >= 1 /\ \A i \in 1..n : b[i] \in Mirror!Chunks
    BY <1>1 DEF MirrorBounds
  <1>3. PICK box : box = [i \in 1..n |-> [job |-> j, chunk |-> b[i]]]
    OBVIOUS
  <1>4. /\ box \in Seq(Mirror!LogEvents) /\ Len(box) = n
        /\ \A i \in 1..n :
             /\ box[i] \in Mirror!LogEvents
             /\ "chunk" \in DOMAIN box[i]
             /\ box[i].job = j
             /\ box[i].chunk = b[i]
    <2>1. \A i \in 1..n : box[i] \in Mirror!LogEvents /\ box[i].job = j /\ box[i].chunk = b[i]
      BY <1>2, <1>3 DEF Mirror!LogEvents
    <2>2. box \in Seq(Mirror!LogEvents) /\ Len(box) = n
      BY <1>2, <1>3, <2>1
    <2>3. QED
      BY <2>1, <2>2, MirrorEventFields
  <1>5. /\ mirrorProc = "serving" /\ mirrorWpc[j] = "running" /\ mirrorOutbox[j] = <<>>
        /\ UNCHANGED <<mirrorProc, mirrorWpc, mirrorJobsStream, mirrorLogsStream, mirrorReplayPos,
             mirrorCrashes, mirrorFaults, mirrorShownLog,
                       mirrorJobs, mirrorJobVersions, mirrorLogSubs, mirrorLogCh, mirrorChOpen>>
    BY DEF Mirror!Ready, Mirror!DispatchLogs, Mirror!AppendLogs
  <1>6. /\ mirrorLogs'[j] = mirrorLogs[j] \o b /\ mirrorLogOffsets'[j] = mirrorLogOffsets[j] + n
        /\ mirrorEverLog'[j] = mirrorEverLog[j] \o b /\ mirrorOutbox'[j] = box
    BY <1>1, <1>3 DEF MirrorInv, Mirror!TypeOK, Mirror!StoreTypeOK
  <1>7. ASSUME NEW k \in MirrorJobs, k # j PROVE MirrorJobInv(k)'
    <2>1. /\ mirrorLogs'[k] = mirrorLogs[k] /\ mirrorLogOffsets'[k] = mirrorLogOffsets[k] /\
               mirrorEverLog'[k] = mirrorEverLog[k]
          /\ mirrorOutbox'[k] = mirrorOutbox[k]
      BY <1>1, <1>7 DEF MirrorInv, Mirror!TypeOK, Mirror!StoreTypeOK
    <2>2. MirrorStreamAt(k)' = MirrorStreamAt(k)
      BY <1>5 DEF MirrorStreamAt
    <2>3. QED
      BY <1>5, <2>1, <2>2, MirrorFrame DEF MirrorInv
  <1>8. PICK m \in Nat : m = Len(mirrorEverLog[j])
    BY MirrorTyped DEF MirrorInv
  <1>9. PICK e \in Seq(Mirror!Chunks) :
           /\ e = mirrorEverLog'[j] /\ e = mirrorLogs'[j] /\ Len(e) = m + n /\
                mirrorLogOffsets'[j] = m + n
           /\ \A i \in 1..m : e[i] = mirrorEverLog[j][i] /\ e[i].offset = i
           /\ \A i \in 1..n : e[m + i] = b[i] /\ b[i].offset = m + i
           /\ \A i \in 1..m + n : i \in 1..m \/ (i - m \in 1..n /\ e[i] = b[i - m])
    <2>1. mirrorLogs[j] = mirrorEverLog[j] /\ mirrorLogOffsets[j] = m /\
            \A i \in 1..m : mirrorEverLog[j][i].offset = i
      BY <1>5, <1>8 DEF MirrorInv, MirrorJobInv, MirrorWriting
    <2>2. mirrorEverLog[j] \in Seq(Mirror!Chunks)
      BY MirrorTyped DEF MirrorInv
    <2>3. PICK e : e = mirrorEverLog[j] \o b
      OBVIOUS
    <2>4. /\ e \in Seq(Mirror!Chunks) /\ Len(e) = Len(mirrorEverLog[j]) + Len(b)
          /\ \A i \in 1..Len(mirrorEverLog[j]) : e[i] = mirrorEverLog[j][i]
          /\ \A i \in 1..Len(b) : e[Len(mirrorEverLog[j]) + i] = b[i]
          /\ \A i \in 1..Len(e) :
                 \/ i \in 1..Len(mirrorEverLog[j])
                 \/ i - Len(mirrorEverLog[j]) \in 1..Len(b) /\ e[i] = b[i - Len(mirrorEverLog[j])]
      BY <2>2, <2>3, MirrorJoined, Zenon
    <2>5. /\ Len(e) = m + n
          /\ \A i \in 1..m : e[i] = mirrorEverLog[j][i]
          /\ \A i \in 1..n : e[m + i] = b[i]
          /\ \A i \in 1..m + n : i \in 1..m \/ (i - m \in 1..n /\ e[i] = b[i - m])
      BY <1>1, <1>8, <2>4, Zenon
    <2>6. e = mirrorEverLog'[j] /\ e = mirrorLogs'[j] /\ mirrorLogOffsets'[j] = m + n
      BY <1>6, <2>1, <2>3
    <2>7. \A i \in 1..n : b[i].offset = m + i
      BY <1>1, <2>1
    <2>8. \A i \in 1..m : e[i].offset = i
      BY <2>1, <2>5
    <2>9. QED
      BY <2>4, <2>5, <2>6, <2>7, <2>8, Zenon
  <1>10. \A i \in 1..m + n : e[i].offset = i /\ e[i] \in Mirror!Chunks
    <2>1. ASSUME NEW i \in 1..m + n PROVE e[i].offset = i
      <3>1. CASE i \in 1..m
        BY <1>9, <3>1
      <3>2. CASE i - m \in 1..n /\ e[i] = b[i - m]
        <4>1. b[i - m].offset = m + (i - m)
          BY <1>9, <3>2
        <4>2. QED
          BY <3>2, <4>1
      <3>3. QED
        BY <1>9, <3>1, <3>2
    <2>2. QED
      BY <1>9, <2>1
  <1>11. /\ MirrorJobInv(j) /\ MirrorStreamAt(j)' = MirrorStreamAt(j)
         /\ MirrorOwedAt(j)' = 1..n /\ Len(mirrorOutbox'[j]) = n /\ MirrorOwedAt(j) = {}
    BY <1>4, <1>5, <1>6 DEF MirrorInv, MirrorStreamAt, MirrorOwedAt
  <1>12. \A x \in Mirror!Chunks : MirrorKept(j, x) => x.offset \in 1..m /\ MirrorKept(j, x)'
    BY <1>8, <1>9 DEF MirrorKept
  <1>13. \A i \in 1..n : MirrorKept(j, b[i])'
    <2>1. \A i \in 1..n : m + i \in 1..Len(e) /\ e[m + i] = b[i] /\ b[i].offset = m + i
      BY <1>2, <1>9
    <2>2. QED
      BY <1>9, <2>1 DEF MirrorKept
  <1>14. \A p \in MirrorStreamAt(j) :
        /\ mirrorLogsStream[p].chunk \in Mirror!Chunks
        /\ p \in Nat
        /\ mirrorLogsStream[p].chunk.offset \in 1..m
    BY <1>8, <1>11, MirrorTyped, MirrorEventFields DEF MirrorInv, MirrorStreamAt, MirrorJobInv,
       MirrorInStream, MirrorKept
  <1>15. MirrorInStream(j)'
    BY <1>5, <1>11, <1>12, <1>14 DEF MirrorJobInv, MirrorInStream
  <1>16. MirrorInOutbox(j)'
    <2>1. \A k \in 1..n : box[k].chunk.offset = m + k /\ MirrorKept(j, box[k].chunk)'
      BY <1>4, <1>9, <1>13
    <2>2. \A p \in MirrorStreamAt(j),
            k \in 1..n : mirrorLogsStream[p].chunk.offset < box[k].chunk.offset
      <3>1. SUFFICES ASSUME NEW p \in MirrorStreamAt(j), NEW k \in 1..n
                     PROVE  mirrorLogsStream[p].chunk.offset < box[k].chunk.offset
        OBVIOUS
      <3>2. mirrorLogsStream[p].chunk.offset \in 1..m /\ box[k].chunk.offset = m + k
        BY <1>14, <2>1
      <3>3. QED
        BY <3>2
    <2>3. QED
      BY <1>2, <1>4, <1>5, <1>6, <1>11, <2>1, <2>2 DEF MirrorInOutbox
  <1>17. MirrorInMemory(j)'
    <2>1. \A i \in 1..m + n : MirrorKept(j, e[i])' /\ e[i].offset = i
      BY <1>9, <1>10 DEF MirrorKept
    <2>2. QED
      <3>1. \A i \in 1..m + n : e[i].offset = i
        BY <2>1
      <3>2. \A i \in 1..m + n : e[i].offset <= m + n
        BY <1>2, <3>1
      <3>3. \A i, k \in 1..m + n : i < k => e[i].offset < e[k].offset
        BY <1>2, <3>1
      <3>4. QED
        BY <1>5, <1>9, <2>1, <3>2, <3>3 DEF MirrorInMemory
  <1>18. MirrorWriting(j)'
    BY <1>2, <1>5, <1>9, <1>10 DEF MirrorWriting
  <1>19. MirrorEnding(j)'
    <2>1. \A k \in 1..n : "snapshot" \notin DOMAIN box[k]
      BY <1>4, MirrorEventFields
    <2>2. QED
      BY <1>5, <1>6, <1>11, <2>1 DEF MirrorJobInv, MirrorEnding
  <1>20. ASSUME mirrorFaults' = 0 PROVE MirrorComplete(j)'
    <2>1. MirrorComplete(j) /\ Len(mirrorLogs[j]) = m
      BY <1>5, <1>8, <1>11, <1>20 DEF MirrorJobInv, MirrorWriting
    <2>2. \A o : MirrorStreamed(j, o)' <=> MirrorStreamed(j, o)
      BY <1>5, <1>11 DEF MirrorStreamed
    <2>3. ASSUME NEW i \in 1..n PROVE MirrorOwed(j, m + i)'
      <3>1. i \in MirrorOwedAt(j)' /\ mirrorOutbox'[j][i].chunk.offset = m + i
        BY <1>4, <1>6, <1>9, <1>11
      <3>2. QED
        BY <3>1, Zenon DEF MirrorOwed
    <2>4. \A o \in 1..m : MirrorStreamed(j, o)
      BY <1>5, <1>11, <2>1 DEF MirrorComplete, MirrorOwed
    <2>5. \A o \in 1..m + n : MirrorStreamed(j, o)' \/ MirrorOwed(j, o)'
      <3>1. SUFFICES ASSUME NEW o \in 1..m + n PROVE MirrorStreamed(j, o)' \/ MirrorOwed(j, o)'
        OBVIOUS
      <3>2. CASE o \in 1..m
        BY <2>2, <2>4, <3>2
      <3>3. CASE o \notin 1..m
        <4>1. o - m \in 1..n /\ o = m + (o - m)
          BY <1>2, <3>1, <3>3
        <4>2. MirrorOwed(j, m + (o - m))'
          BY <2>3, <4>1
        <4>3. QED
          BY <4>1, <4>2
      <3>4. QED
        BY <3>2, <3>3
    <2>6. \A k \in 1..n : box[k].chunk.offset <= m + n
      <3>1. SUFFICES ASSUME NEW k \in 1..n PROVE box[k].chunk.offset <= m + n
        OBVIOUS
      <3>2. box[k].chunk.offset = m + k
        BY <1>4, <1>9
      <3>3. QED
        BY <1>2, <3>2
    <2>7. \A i \in 1..m + n : e[i].offset = i
      BY <1>10
    <2>8. \A p \in MirrorStreamAt(j) : mirrorLogsStream[p].chunk.offset <= m + n
      BY <1>2, <1>14
    <2>9. \A p \in MirrorStreamAt(j) : \A o \in 1..mirrorLogsStream[p].chunk.offset :
            MirrorStreamed(j, o)'
      BY <2>1, <2>2 DEF MirrorComplete
    <2>10. QED
      BY <1>5, <1>6, <1>9, <1>11, <2>5, <2>6, <2>7, <2>8, <2>9 DEF MirrorComplete
  <1>21. Mirror!TypeOK'
    <2>1. /\ mirrorLogs' \in [MirrorJobs -> Seq(Mirror!Chunks)] /\
               mirrorEverLog' \in [MirrorJobs -> Seq(Mirror!Chunks)]
          /\ mirrorLogOffsets' \in [MirrorJobs -> Nat]
          /\ mirrorOutbox' \in [MirrorJobs -> Seq(Mirror!JobEvents \cup Mirror!LogEvents)]
      <3>1. mirrorLogs[j] \o b \in Seq(Mirror!Chunks) /\
              mirrorEverLog[j] \o b \in Seq(Mirror!Chunks)
        BY <1>6, <1>9
      <3>2. mirrorLogOffsets[j] + n \in Nat
        BY <1>2, MirrorTyped DEF MirrorInv
      <3>3. box \in Seq(Mirror!JobEvents \cup Mirror!LogEvents)
        BY <1>4
      <3>4. QED
        BY <1>1, <1>3, <3>1, <3>2, <3>3 DEF MirrorInv, Mirror!TypeOK, Mirror!StoreTypeOK
    <2>2. QED
      BY <1>1, <1>5, <2>1 DEF MirrorInv, Mirror!TypeOK, Mirror!StoreTypeOK
  <1>22. QED
    BY <1>7, <1>15, <1>16, <1>17, <1>18, <1>19, <1>20, <1>21 DEF MirrorInv, MirrorJobInv

\* The tail of what is to be published.
LEMMA MirrorPublished ==
    ASSUME MirrorInv, NEW j \in MirrorJobs, mirrorOutbox[j] # <<>>,
             mirrorOutbox' = [mirrorOutbox EXCEPT ![j] = Tail(@)]
    PROVE  /\ mirrorOutbox' \in [MirrorJobs -> Seq(Mirror!JobEvents \cup Mirror!LogEvents)]
           /\ \A k \in MirrorJobs : k # j => mirrorOutbox'[k] = mirrorOutbox[k]
           /\ 1 \in 1..Len(mirrorOutbox[j]) /\ Head(mirrorOutbox[j]) = mirrorOutbox[j][1]
           /\ Len(mirrorOutbox'[j]) + 1 = Len(mirrorOutbox[j]) /\ Len(mirrorOutbox'[j]) \in Nat
           /\ \A k \in 1..Len(mirrorOutbox'[j]) :
                  k + 1 \in 1..Len(mirrorOutbox[j]) /\ mirrorOutbox'[j][k] = mirrorOutbox[j][k + 1]
           /\ \A k \in MirrorOwedAt(j)' : k + 1 \in MirrorOwedAt(j)
           /\ \A k \in MirrorOwedAt(j) : k = 1 \/ k - 1 \in MirrorOwedAt(j)'
  <1>1. mirrorOutbox \in [MirrorJobs -> Seq(Mirror!JobEvents \cup Mirror!LogEvents)]
    BY DEF MirrorInv, Mirror!TypeOK
  <1>2. PICK s \in Seq(Mirror!JobEvents \cup Mirror!LogEvents) : s = mirrorOutbox[j]
    BY <1>1
  <1>3. /\ Tail(s) \in Seq(Mirror!JobEvents \cup Mirror!LogEvents) /\ Len(Tail(s)) + 1 = Len(s)
        /\ Len(Tail(s)) \in Nat /\ Head(s) = s[1] /\ 1 \in 1..Len(s)
        /\ \A k \in 1..Len(Tail(s)) : k + 1 \in 1..Len(s) /\ Tail(s)[k] = s[k + 1]
    BY <1>2
  <1>4. mirrorOutbox'[j] = Tail(s)
    BY <1>1, <1>2
  <1>5. \A k \in 1..Len(mirrorOutbox'[j]) :
          k + 1 \in 1..Len(mirrorOutbox[j]) /\ mirrorOutbox'[j][k] = mirrorOutbox[j][k + 1]
    BY <1>2, <1>3, <1>4, Zenon
  <1>6. ASSUME NEW k \in MirrorOwedAt(j)' PROVE k + 1 \in MirrorOwedAt(j)
    BY <1>5 DEF MirrorOwedAt
  <1>7. ASSUME NEW k \in MirrorOwedAt(j), k # 1 PROVE k - 1 \in MirrorOwedAt(j)'
    <2>1. k - 1 \in 1..Len(Tail(s)) /\ (k - 1) + 1 = k
      BY <1>2, <1>3, <1>7 DEF MirrorOwedAt
    <2>2. mirrorOutbox'[j][k - 1] = mirrorOutbox[j][k]
      BY <1>4, <1>5, <2>1
    <2>3. QED
      BY <1>4, <2>1, <2>2 DEF MirrorOwedAt
  <1>8. QED
    BY <1>1, <1>2, <1>3, <1>4, <1>5, <1>6, <1>7

\* A stream that grows by one event.
LEMMA MirrorGrown ==
    ASSUME NEW S, NEW s \in Seq(S), NEW e \in S
    PROVE  /\ Append(s, e) \in Seq(S) /\ Len(s) \in Nat /\ Len(Append(s, e)) = Len(s) + 1
           /\ Append(s, e)[Len(s) + 1] = e
           /\ \A p \in 1..Len(s) : Append(s, e)[p] = s[p]
           /\ \A p \in 1..Len(Append(s, e)) : p \in 1..Len(s) \/ p = Len(s) + 1
  OBVIOUS

\* The next event is a snapshot.
LEMMA MirrorPublishJobInv ==
    ASSUME MirrorInv, NEW j \in MirrorJobs, mirrorProc = "serving", mirrorOutbox[j] # <<>>,
           "snapshot" \in DOMAIN Head(mirrorOutbox[j]),
           mirrorJobsStream' = Append(mirrorJobsStream, Head(mirrorOutbox[j])),
           mirrorOutbox' = [mirrorOutbox EXCEPT ![j] = Tail(@)],
           UNCHANGED <<Mirror!storeVars, mirrorProc, mirrorWpc, mirrorLogsStream, mirrorReplayPos,
             mirrorCrashes, mirrorFaults, Mirror!history>>
    PROVE  MirrorInv'
  <1>1. PICK e : e = mirrorOutbox[j][1] /\ e = Head(mirrorOutbox[j])
    BY MirrorPublished
  <1>2. e \in Mirror!JobEvents /\ e.job = j /\ "chunk" \notin DOMAIN e
    <2>1. e \in Mirror!JobEvents \cup Mirror!LogEvents
      BY <1>1, MirrorPublished, MirrorTyped DEF MirrorInv
    <2>2. e.job = j
      BY <1>1, MirrorPublished DEF MirrorInv, MirrorJobInv, MirrorInOutbox
    <2>3. QED
      BY <1>1, <2>1, <2>2, MirrorEventFields
  <1>3. Len(mirrorOutbox[j]) = 1 /\ mirrorOutbox'[j] = <<>> /\ MirrorOwedAt(j) = {} /\
          MirrorOwedAt(j)' = {}
    <2>1. 1 \notin MirrorOwedAt(j)
      BY <1>1, <1>2 DEF MirrorOwedAt
    <2>2. Len(mirrorOutbox[j]) = 1
      BY <2>1, MirrorPublished DEF MirrorInv, MirrorJobInv, MirrorInOutbox
    <2>3. Len(mirrorOutbox'[j]) + 1 = Len(mirrorOutbox[j]) /\ Len(mirrorOutbox'[j]) \in Nat
      BY MirrorPublished
    <2>4. mirrorOutbox' \in [MirrorJobs -> Seq(Mirror!JobEvents \cup Mirror!LogEvents)]
      BY MirrorPublished
    <2>5. mirrorOutbox'[j] = <<>>
      BY <2>2, <2>3, <2>4
    <2>6. QED
      BY <2>1, <2>2, <2>5 DEF MirrorOwedAt
  <1>4. /\ mirrorJobsStream' \in Seq(Mirror!JobEvents) /\ Len(mirrorJobsStream) \in Nat
        /\ mirrorJobsStream'[Len(mirrorJobsStream) + 1] = e
        /\ \A p \in 1..Len(mirrorJobsStream) : mirrorJobsStream'[p] = mirrorJobsStream[p]
        /\ \A p \in 1..Len(mirrorJobsStream') : p \in 1..Len(mirrorJobsStream) \/
             p = Len(mirrorJobsStream) + 1
    <2>1. mirrorJobsStream \in Seq(Mirror!JobEvents)
      BY DEF MirrorInv, Mirror!TypeOK
    <2>2. PICK s \in Seq(Mirror!JobEvents) : s = mirrorJobsStream /\
            mirrorJobsStream' = Append(s, e)
      BY <1>1, <2>1
    <2>3. QED
      BY <1>2, <2>2, MirrorGrown
  <1>5. Mirror!TypeOK'
    BY <1>4, MirrorPublished DEF MirrorInv, Mirror!TypeOK, Mirror!StoreTypeOK, Mirror!storeVars,
       Mirror!history
  <1>6. \A k \in MirrorJobs : MirrorStreamAt(k)' = MirrorStreamAt(k)
    BY DEF MirrorStreamAt
  <1>7. ASSUME NEW k \in MirrorJobs, k # j PROVE MirrorJobInv(k)'
    <2>1. mirrorOutbox'[k] = mirrorOutbox[k]
      BY <1>7, MirrorPublished
    <2>2. \A p \in 1..Len(mirrorJobsStream') :
            mirrorJobsStream'[p].job = k =>
              p \in 1..Len(mirrorJobsStream) /\ mirrorJobsStream'[p] = mirrorJobsStream[p]
      BY <1>2, <1>4, <1>7
    <2>3. QED
      BY <1>6, <2>1, <2>2, MirrorFrame DEF MirrorInv, Mirror!storeVars, Mirror!history
  <1>8. MirrorJobInv(j) /\ MirrorStreamAt(j)' = MirrorStreamAt(j)
    BY <1>6 DEF MirrorInv
  <1>9. \A o : (MirrorStreamed(j, o)' <=> MirrorStreamed(j, o)) /\ ~MirrorOwed(j, o) /\
          ~MirrorOwed(j, o)'
    BY <1>3, <1>8 DEF MirrorStreamed, MirrorOwed
  <1>10. MirrorInStream(j)' /\ MirrorInMemory(j)' /\ MirrorWriting(j)'
    BY <1>3, <1>8 DEF MirrorJobInv, MirrorInStream, MirrorInMemory, MirrorWriting, MirrorKept,
       Mirror!storeVars, Mirror!history
  <1>11. MirrorInOutbox(j)'
    BY <1>3 DEF MirrorInOutbox
  <1>12. MirrorEnding(j)'
    <2>1. ASSUME NEW p \in 1..Len(mirrorJobsStream'), mirrorJobsStream'[p].job = j,
                 mirrorJobsStream'[p].snapshot.state \in Mirror!Terminal
          PROVE  mirrorWpc[j] = "finished"
      <3>1. CASE p \in 1..Len(mirrorJobsStream)
        BY <1>4, <1>8, <2>1, <3>1 DEF MirrorJobInv, MirrorEnding
      <3>2. CASE p = Len(mirrorJobsStream) + 1
        BY <1>1, <1>4, <1>8, <2>1, <3>2, MirrorPublished DEF MirrorJobInv, MirrorEnding
      <3>3. QED
        BY <1>4, <3>1, <3>2
    <2>2. QED
      BY <1>3, <1>8, <1>9, <2>1 DEF MirrorJobInv, MirrorEnding, Mirror!storeVars, Mirror!history
  <1>13. mirrorFaults' = 0 => MirrorComplete(j)'
    BY <1>3, <1>8, <1>9 DEF MirrorJobInv, MirrorComplete, Mirror!storeVars, Mirror!history
  <1>14. QED
    BY <1>5, <1>7, <1>10, <1>11, <1>12, <1>13 DEF MirrorInv, MirrorJobInv

\* The next event is a chunk.
LEMMA MirrorPublishLogInv ==
    ASSUME MirrorInv, NEW j \in MirrorJobs, mirrorProc = "serving", mirrorOutbox[j] # <<>>,
           "snapshot" \notin DOMAIN Head(mirrorOutbox[j]),
           mirrorLogsStream' = Append(mirrorLogsStream, Head(mirrorOutbox[j])),
           mirrorOutbox' = [mirrorOutbox EXCEPT ![j] = Tail(@)],
           UNCHANGED <<Mirror!storeVars, mirrorProc, mirrorWpc, mirrorJobsStream, mirrorReplayPos,
             mirrorCrashes, mirrorFaults, Mirror!history>>
    PROVE  MirrorInv'
  <1>1. PICK e : e = mirrorOutbox[j][1] /\ e = Head(mirrorOutbox[j])
    BY MirrorPublished
  <1>2. /\ e \in Mirror!LogEvents /\ e.job = j /\ "chunk" \in DOMAIN e
        /\ e.chunk \in Mirror!Chunks /\ e.chunk.offset \in Nat
    <2>1. e \in Mirror!JobEvents \cup Mirror!LogEvents
      BY <1>1, MirrorPublished, MirrorTyped DEF MirrorInv
    <2>2. e.job = j
      BY <1>1, MirrorPublished DEF MirrorInv, MirrorJobInv, MirrorInOutbox
    <2>3. QED
      BY <1>1, <2>1, <2>2, MirrorEventFields
  <1>3. MirrorJobInv(j)
    BY DEF MirrorInv
  <1>4. /\ MirrorOwedAt(j) = 1..Len(mirrorOutbox[j]) /\ 1 \in MirrorOwedAt(j)
        /\ MirrorOwedAt(j)' = 1..Len(mirrorOutbox'[j])
        /\ \A k \in MirrorOwedAt(j)' :
             /\ k \in Nat /\ 1 < k + 1 /\ k + 1 \in MirrorOwedAt(j)
             /\ mirrorOutbox'[j][k] = mirrorOutbox[j][k + 1]
        /\ \A k \in MirrorOwedAt(j) : k = 1 \/ k - 1 \in MirrorOwedAt(j)'
    <2>1. MirrorOwedAt(j) = 1..Len(mirrorOutbox[j]) /\ 1 \in MirrorOwedAt(j)
      BY <1>1, <1>3, MirrorPublished DEF MirrorJobInv, MirrorInOutbox
    <2>2. \A k \in 1..Len(mirrorOutbox'[j]) : "chunk" \in DOMAIN mirrorOutbox'[j][k]
      <3>1. \A k \in 1..Len(mirrorOutbox[j]) : "chunk" \in DOMAIN mirrorOutbox[j][k]
        BY <2>1 DEF MirrorOwedAt
      <3>2. QED
        BY <3>1, MirrorPublished
    <2>3. MirrorOwedAt(j)' = 1..Len(mirrorOutbox'[j])
      BY <2>2 DEF MirrorOwedAt
    <2>4. \A k \in MirrorOwedAt(j)' : k \in Nat /\ 1 < k + 1
      BY <2>3, MirrorPublished
    <2>5. QED
      BY <2>1, <2>3, <2>4, MirrorPublished
  <1>5. PICK n \in Nat :
           /\ n = Len(mirrorLogsStream) /\ mirrorLogsStream' \in Seq(Mirror!LogEvents) /\
                Len(mirrorLogsStream') = n + 1
           /\ mirrorLogsStream'[n + 1] = e
           /\ \A p \in 1..n : mirrorLogsStream'[p] = mirrorLogsStream[p]
           /\ \A p \in 1..n + 1 : p \in 1..n \/ p = n + 1
    <2>1. PICK s \in Seq(Mirror!LogEvents) : s = mirrorLogsStream /\
            mirrorLogsStream' = Append(s, e)
      BY <1>1 DEF MirrorInv, Mirror!TypeOK
    <2>2. QED
      BY <1>2, <2>1, MirrorGrown
  <1>6. Mirror!TypeOK'
    BY <1>5, MirrorPublished DEF MirrorInv, Mirror!TypeOK, Mirror!StoreTypeOK, Mirror!storeVars,
       Mirror!history
  <1>7. ASSUME NEW k \in MirrorJobs, k # j PROVE MirrorJobInv(k)'
    <2>1. mirrorOutbox'[k] = mirrorOutbox[k]
      BY <1>7, MirrorPublished
    <2>2. MirrorStreamAt(k)' = MirrorStreamAt(k) /\
            \A p \in MirrorStreamAt(k) : mirrorLogsStream'[p] = mirrorLogsStream[p]
      BY <1>2, <1>5, <1>7 DEF MirrorStreamAt
    <2>3. QED
      BY <2>1, <2>2, MirrorFrame DEF MirrorInv, Mirror!storeVars, Mirror!history
  <1>8. /\ n + 1 \in MirrorStreamAt(j)' /\ \A p \in MirrorStreamAt(j) : p \in MirrorStreamAt(j)' /\
             p < n + 1
        /\ \A p \in MirrorStreamAt(j)' : p \in MirrorStreamAt(j) \/ p = n + 1
        /\ \A p \in MirrorStreamAt(j) : mirrorLogsStream'[p] = mirrorLogsStream[p]
    BY <1>2, <1>5 DEF MirrorStreamAt
  <1>9. \A p \in MirrorStreamAt(j) : mirrorLogsStream[p].chunk.offset < e.chunk.offset
    BY <1>1, <1>3, <1>4 DEF MirrorJobInv, MirrorInOutbox
  <1>10. \A k \in MirrorOwedAt(j)' : e.chunk.offset < mirrorOutbox'[j][k].chunk.offset
    <2>1. SUFFICES ASSUME NEW k \in MirrorOwedAt(j)'
                   PROVE  e.chunk.offset < mirrorOutbox'[j][k].chunk.offset
      OBVIOUS
    <2>2. k + 1 \in MirrorOwedAt(j) /\ 1 < k + 1 /\ mirrorOutbox'[j][k] = mirrorOutbox[j][k + 1]
      BY <1>4, MirrorPublished
    <2>3. QED
      BY <1>1, <1>3, <1>4, <2>2 DEF MirrorJobInv, MirrorInOutbox
  <1>11. /\ \A x : MirrorKept(j, x) =>
              x.offset \in 1..Len(mirrorEverLog'[j]) /\ x = mirrorEverLog'[j][x.offset]
         /\ MirrorKept(j, e.chunk)
    BY <1>1, <1>3, <1>4 DEF MirrorJobInv, MirrorInOutbox, MirrorKept, Mirror!history
  <1>12. MirrorInStream(j)'
    <2>1. \A p \in MirrorStreamAt(j)' : MirrorKept(j, mirrorLogsStream[p].chunk)'
      <3>1. SUFFICES ASSUME NEW p \in MirrorStreamAt(j)'
                     PROVE  MirrorKept(j, mirrorLogsStream[p].chunk)'
        OBVIOUS
      <3>2. MirrorKept(j, mirrorLogsStream'[p].chunk)
        BY <1>3, <1>5, <1>8, <1>11 DEF MirrorJobInv, MirrorInStream
      <3>3. QED
        BY <3>2 DEF MirrorKept, Mirror!history
    <2>2. ASSUME NEW p \in MirrorStreamAt(j)', NEW r \in MirrorStreamAt(j)', p < r
          PROVE  mirrorLogsStream'[p].chunk.offset < mirrorLogsStream'[r].chunk.offset
      <3>1. p \in MirrorStreamAt(j)
        BY <1>5, <1>8, <2>2 DEF MirrorStreamAt
      <3>2. QED
        BY <1>3, <1>5, <1>8, <1>9, <2>2, <3>1 DEF MirrorJobInv, MirrorInStream
    <2>3. QED
      BY <2>1, <2>2 DEF MirrorInStream
  <1>13. MirrorInOutbox(j)'
    <2>1. \A k \in 1..Len(mirrorOutbox'[j]) : mirrorOutbox'[j][k].job = j
      BY <1>3, MirrorPublished DEF MirrorJobInv, MirrorInOutbox
    <2>2. ASSUME NEW k \in MirrorOwedAt(j)' PROVE MirrorKept(j, mirrorOutbox[j][k].chunk)'
      <3>1. MirrorKept(j, mirrorOutbox[j][k + 1].chunk) /\
              mirrorOutbox'[j][k] = mirrorOutbox[j][k + 1]
        BY <1>3, <1>4, <2>2 DEF MirrorJobInv, MirrorInOutbox
      <3>2. QED
        BY <3>1 DEF MirrorKept, Mirror!history
    <2>3. ASSUME NEW k \in MirrorOwedAt(j)', NEW l \in MirrorOwedAt(j)', k < l
          PROVE  mirrorOutbox'[j][k].chunk.offset < mirrorOutbox'[j][l].chunk.offset
      <3>1. /\ k \in Nat /\ k + 1 \in MirrorOwedAt(j) /\
                 mirrorOutbox'[j][k] = mirrorOutbox[j][k + 1]
            /\ l \in Nat /\ l + 1 \in MirrorOwedAt(j) /\
                 mirrorOutbox'[j][l] = mirrorOutbox[j][l + 1]
        BY <1>4
      <3>2. k + 1 < l + 1
        BY <2>3, <3>1
      <3>3. QED
        BY <1>3, <3>1, <3>2 DEF MirrorJobInv, MirrorInOutbox
    <2>4. ASSUME NEW p \in MirrorStreamAt(j)', NEW k \in MirrorOwedAt(j)'
          PROVE  mirrorLogsStream'[p].chunk.offset < mirrorOutbox'[j][k].chunk.offset
      <3>1. CASE p = n + 1
        BY <1>5, <1>10, <3>1
      <3>2. CASE p \in MirrorStreamAt(j)
        <4>1. /\ mirrorLogsStream'[p] = mirrorLogsStream[p]
              /\ k + 1 \in MirrorOwedAt(j) /\ mirrorOutbox'[j][k] = mirrorOutbox[j][k + 1]
          BY <1>4, <1>8, <3>2
        <4>2. QED
          BY <1>3, <3>2, <4>1 DEF MirrorJobInv, MirrorInOutbox
      <3>3. QED
        BY <1>8, <3>1, <3>2
    <2>5. QED
      BY <1>4, <2>1, <2>2, <2>3, <2>4 DEF MirrorInOutbox
  <1>14. MirrorInMemory(j)' /\ MirrorWriting(j)'
    BY <1>3 DEF MirrorJobInv, MirrorInMemory, MirrorWriting, MirrorKept, Mirror!storeVars,
       Mirror!history
  <1>15. \A o : (MirrorStreamed(j, o) => MirrorStreamed(j, o)') /\ (o = e.chunk.offset =>
           MirrorStreamed(j, o)')
    BY <1>5, <1>8 DEF MirrorStreamed
  <1>16. MirrorEnding(j)'
    <2>1. \A k \in 1..Len(mirrorOutbox'[j]) : "snapshot" \notin DOMAIN mirrorOutbox'[j][k]
      <3>1. SUFFICES ASSUME NEW k \in 1..Len(mirrorOutbox'[j])
                     PROVE  "snapshot" \notin DOMAIN mirrorOutbox'[j][k]
        OBVIOUS
      <3>2. k + 1 \in MirrorOwedAt(j) /\ mirrorOutbox'[j][k] = mirrorOutbox[j][k + 1]
        BY <1>4
      <3>3. mirrorOutbox[j][k + 1] \in Mirror!LogEvents
        BY <3>2, MirrorTyped DEF MirrorInv
      <3>4. QED
        BY <3>2, <3>3, MirrorEventFields
    <2>2. QED
      BY <1>3, <1>15, <2>1 DEF MirrorJobInv, MirrorEnding, Mirror!storeVars, Mirror!history
  <1>17. ASSUME mirrorFaults' = 0 PROVE MirrorComplete(j)'
    <2>1. MirrorComplete(j)
      BY <1>3, <1>17 DEF MirrorJobInv
    <2>2. ASSUME NEW o \in 1..Len(mirrorLogs[j]), ~MirrorStreamed(j, o), o # e.chunk.offset
          PROVE  o > e.chunk.offset /\ MirrorOwed(j, o)'
      <3>1. PICK k \in MirrorOwedAt(j) : mirrorOutbox[j][k].chunk.offset = o
        BY <2>1, <2>2 DEF MirrorComplete, MirrorOwed
      <3>2. k # 1 /\ 1 < k
        BY <1>1, <1>4, <2>2, <3>1, SMTT(60)
      <3>3. o > e.chunk.offset
        BY <1>1, <1>2, <1>3, <1>4, <3>1, <3>2 DEF MirrorJobInv, MirrorInOutbox
      <3>4. k - 1 \in MirrorOwedAt(j)' /\ (k - 1) + 1 = k
        BY <1>4, <3>2
      <3>5. mirrorOutbox'[j][k - 1] = mirrorOutbox[j][k]
        BY <1>4, <3>4
      <3>6. QED
        BY <3>1, <3>3, <3>4, <3>5 DEF MirrorOwed
    <2>3. e.chunk.offset <= Len(mirrorLogs[j])
      BY <1>1, <1>4, <2>1 DEF MirrorComplete
    <2>4. ASSUME NEW p \in MirrorStreamAt(j)', NEW o \in 1..mirrorLogsStream'[p].chunk.offset
          PROVE  MirrorStreamed(j, o)'
      <3>1. CASE p = n + 1
        <4>1. o \in 1..Len(mirrorLogs[j]) /\ ~(o > e.chunk.offset)
          BY <1>2, <1>5, <2>3, <2>4, <3>1, MirrorTyped DEF MirrorInv
        <4>2. QED
          BY <1>15, <2>2, <4>1
      <3>2. CASE p \in MirrorStreamAt(j)
        BY <1>8, <1>15, <2>1, <2>4, <3>2 DEF MirrorComplete
      <3>3. QED
        BY <1>8, <3>1, <3>2
    <2>5. \A p \in MirrorStreamAt(j)' : mirrorLogsStream'[p].chunk.offset <= Len(mirrorLogs[j])
      BY <1>5, <1>8, <2>1, <2>3 DEF MirrorComplete
    <2>6. \A k \in MirrorOwedAt(j)' : mirrorOutbox'[j][k].chunk.offset <= Len(mirrorLogs[j])
      BY <1>4, <2>1 DEF MirrorComplete
    <2>7. \A o \in 1..Len(mirrorLogs[j]) : MirrorStreamed(j, o)' \/ MirrorOwed(j, o)'
      BY <1>15, <2>2
    <2>8. QED
      BY <2>1, <2>4, <2>5, <2>6, <2>7 DEF MirrorComplete, Mirror!storeVars
  <1>18. QED
    BY <1>6, <1>7, <1>12, <1>13, <1>14, <1>16, <1>17 DEF MirrorInv, MirrorJobInv

\* The next event is lost.
LEMMA MirrorPublishFailsInv == ASSUME MirrorInv, MirrorBounds, NEW j \in MirrorJobs,
  Mirror!PublishFails(j) PROVE MirrorInv'
  <1>1. /\ mirrorOutbox[j] # <<>> /\ mirrorOutbox' = [mirrorOutbox EXCEPT ![j] = Tail(@)]
        /\ UNCHANGED <<Mirror!storeVars, mirrorProc, mirrorWpc, mirrorJobsStream, mirrorLogsStream,
             mirrorReplayPos, mirrorCrashes, Mirror!history>>
        /\ mirrorProc = "serving" /\ mirrorFaults' \in 0..MirrorMaxFaults /\ mirrorFaults' # 0 /\
             MirrorJobInv(j)
    BY DEF Mirror!PublishFails, MirrorInv, Mirror!TypeOK, MirrorBounds
  <1>2. Mirror!TypeOK'
    BY <1>1, MirrorPublished DEF MirrorInv, Mirror!TypeOK, Mirror!StoreTypeOK, Mirror!storeVars,
       Mirror!history
  <1>3. \A k \in MirrorJobs : MirrorStreamAt(k)' = MirrorStreamAt(k)
    BY <1>1 DEF MirrorStreamAt
  <1>4. ASSUME NEW k \in MirrorJobs, k # j PROVE MirrorJobInv(k)'
    <2>1. mirrorOutbox'[k] = mirrorOutbox[k]
      BY <1>1, <1>4, MirrorPublished
    <2>2. QED
      BY <1>1, <1>3, <2>1, MirrorFrame DEF MirrorInv, Mirror!storeVars, Mirror!history
  <1>5. MirrorInStream(j)' /\ MirrorInMemory(j)' /\ MirrorWriting(j)'
    BY <1>1, <1>3 DEF MirrorJobInv, MirrorInStream, MirrorInMemory, MirrorWriting, MirrorKept,
       Mirror!storeVars, Mirror!history
  <1>6. \A k \in 1..Len(mirrorOutbox'[j]) :
          k + 1 \in 1..Len(mirrorOutbox[j]) /\ mirrorOutbox'[j][k] = mirrorOutbox[j][k + 1]
    BY <1>1, MirrorPublished
  <1>7. \A k \in MirrorOwedAt(j)' : k + 1 \in MirrorOwedAt(j) /\
          mirrorOutbox'[j][k] = mirrorOutbox[j][k + 1] /\ k \in Nat
    <2>1. \A k \in MirrorOwedAt(j)' : k + 1 \in MirrorOwedAt(j)
      BY <1>1, MirrorPublished
    <2>2. \A k \in MirrorOwedAt(j)' : k \in 1..Len(mirrorOutbox'[j])
      BY Zenon DEF MirrorOwedAt
    <2>3. \A k \in 1..Len(mirrorOutbox'[j]) : k \in Nat
      OBVIOUS
    <2>4. QED
      BY <1>6, <2>1, <2>2, <2>3, Zenon
  <1>8. MirrorInOutbox(j)'
    <2>1. MirrorOwedAt(j)' = 1..Len(mirrorOutbox'[j])
      <3>1. CASE MirrorOwedAt(j) = 1..Len(mirrorOutbox[j])
        BY <1>6, <3>1 DEF MirrorOwedAt
      <3>2. CASE Len(mirrorOutbox[j]) = 1
        <4>1. Len(mirrorOutbox'[j]) + 1 = 1 /\ Len(mirrorOutbox'[j]) \in Nat
          BY <1>1, <3>2, MirrorPublished
        <4>2. QED
          BY <4>1 DEF MirrorOwedAt
      <3>3. QED
        BY <1>1, <3>1, <3>2 DEF MirrorJobInv, MirrorInOutbox
    <2>2. ASSUME NEW k \in MirrorOwedAt(j)', NEW l \in MirrorOwedAt(j)', k < l
          PROVE  mirrorOutbox'[j][k].chunk.offset < mirrorOutbox'[j][l].chunk.offset
      <3>1. k + 1 < l + 1
        BY <1>7, <2>2
      <3>2. QED
        BY <1>1, <1>7, <3>1 DEF MirrorJobInv, MirrorInOutbox
    <2>3. QED
      BY <1>1, <1>3, <1>6, <1>7, <2>1, <2>2 DEF MirrorJobInv, MirrorInOutbox, MirrorKept,
         Mirror!history
  <1>9. MirrorEnding(j)'
    BY <1>1, <1>6 DEF MirrorJobInv, MirrorEnding, Mirror!storeVars, Mirror!history
  <1>10. QED
    BY <1>1, <1>2, <1>4, <1>5, <1>8, <1>9 DEF MirrorInv, MirrorJobInv

-----------------------------------------------------------------------------
\* The process ends: the memory and what was to be published are gone.
LEMMA MirrorStopInv ==
    ASSUME MirrorInv, MirrorBounds, Mirror!Stop, UNCHANGED mirrorFaults,
             mirrorCrashes < MirrorMaxCrashes, mirrorCrashes' = mirrorCrashes + 1
    PROVE  MirrorInv'
  <1>1. Mirror!TypeOK'
    <2>1. mirrorJobs' \in [MirrorJobs -> Mirror!Snapshots]
      BY DEF Mirror!Stop, Mirror!Snapshots, Mirror!States
    <2>2. mirrorLogs' \in [MirrorJobs -> Seq(Mirror!Chunks)] /\
            mirrorOutbox' \in [MirrorJobs -> Seq(Mirror!JobEvents \cup Mirror!LogEvents)]
      BY DEF Mirror!Stop
    <2>3. mirrorCrashes' \in 0..MirrorMaxCrashes
      BY DEF MirrorInv, Mirror!TypeOK, MirrorBounds
    <2>4. QED
      BY <2>1, <2>2, <2>3 DEF MirrorInv, Mirror!TypeOK, Mirror!StoreTypeOK, Mirror!Stop,
         Mirror!history
  <1>2. ASSUME NEW j \in MirrorJobs PROVE MirrorJobInv(j)'
    <2>1. /\ mirrorLogs'[j] = <<>> /\ mirrorOutbox'[j] = <<>> /\ mirrorLogOffsets'[j] = 0 /\
               mirrorProc' = "down"
          /\ mirrorJobs'[j].state = "absent" /\ mirrorEverLog' = mirrorEverLog /\
               mirrorJobsStream' = mirrorJobsStream
          /\ mirrorLogsStream' = mirrorLogsStream /\ mirrorFaults' = mirrorFaults
          /\ mirrorWpc'[j] = IF mirrorWpc[j] \in {"accepted",
               "running"} THEN "lost" ELSE mirrorWpc[j]
          /\ MirrorOwedAt(j)' = {} /\ MirrorStreamAt(j)' = MirrorStreamAt(j)
      BY DEF Mirror!Stop, Mirror!history, MirrorOwedAt, MirrorStreamAt
    <2>2. \A o : MirrorStreamed(j, o)' <=> MirrorStreamed(j, o)
      BY <2>1 DEF MirrorStreamed
    <2>3. MirrorJobInv(j)
      BY DEF MirrorInv
    <2>4. MirrorInStream(j)' /\ MirrorInOutbox(j)'
      BY <2>1, <2>3 DEF MirrorJobInv, MirrorInStream, MirrorInOutbox, MirrorKept
    <2>5. MirrorInMemory(j)' /\ MirrorWriting(j)'
      BY <2>1, <2>3 DEF MirrorJobInv, MirrorInMemory, MirrorWriting
    <2>6. MirrorEnding(j)'
      BY <2>1, <2>2, <2>3 DEF MirrorJobInv, MirrorEnding, Mirror!Terminal
    <2>7. mirrorFaults' = 0 => MirrorComplete(j)'
      BY <2>1, <2>2, <2>3 DEF MirrorJobInv, MirrorComplete
    <2>8. QED
      BY <2>4, <2>5, <2>6, <2>7 DEF MirrorJobInv
  <1>3. QED
    BY <1>1, <1>2 DEF MirrorInv

\* Between two phases of a restart only the phase and the position in the stream change.
LEMMA MirrorPhaseFrame ==
    ASSUME NEW j \in MirrorJobs, MirrorJobInv(j), mirrorFaults' = 0 =>
             mirrorFaults = 0, mirrorOutbox[j] = <<>>,
           UNCHANGED <<Mirror!storeVars, mirrorWpc, mirrorOutbox, mirrorJobsStream,
             mirrorLogsStream, Mirror!history>>,
           MirrorInMemory(j)', mirrorWpc[j] \notin {"accepted", "running"}, mirrorFaults' = 0 =>
             MirrorComplete(j)'
    PROVE  MirrorJobInv(j)'
  <1>1. MirrorStreamAt(j)' = MirrorStreamAt(j) /\ MirrorOwedAt(j) = {} /\ MirrorOwedAt(j)' = {}
    BY DEF MirrorStreamAt, MirrorOwedAt
  <1>2. MirrorInStream(j)' /\ MirrorInOutbox(j)'
    BY <1>1 DEF MirrorJobInv, MirrorInStream, MirrorInOutbox, MirrorKept, Mirror!history
  <1>3. MirrorWriting(j)'
    BY DEF MirrorJobInv, MirrorWriting, Mirror!storeVars, Mirror!history
  <1>4. \A o : MirrorStreamed(j, o)' <=> MirrorStreamed(j, o)
    BY <1>1 DEF MirrorStreamed
  <1>5. MirrorEnding(j)'
    BY <1>4 DEF MirrorJobInv, MirrorEnding, Mirror!storeVars, Mirror!history
  <1>6. QED
    BY <1>2, <1>3, <1>5 DEF MirrorJobInv

\* A process that does not serve publishes nothing and writes no job.
LEMMA MirrorSilent ==
    ASSUME MirrorInv, mirrorProc # "serving", NEW j \in MirrorJobs
    PROVE  MirrorJobInv(j) /\ mirrorOutbox[j] = <<>> /\ MirrorOwedAt(j) = {} /\
             mirrorWpc[j] \notin {"accepted", "running"}
  BY DEF MirrorInv, MirrorJobInv, MirrorInOutbox, MirrorWriting, MirrorOwedAt

\* The process starts.
LEMMA MirrorRestartInv == ASSUME MirrorInv, Mirror!Restart PROVE MirrorInv'
  <1>1. Mirror!TypeOK'
    BY DEF MirrorInv, Mirror!TypeOK, Mirror!StoreTypeOK, Mirror!Restart, Mirror!storeVars,
       Mirror!history
  <1>2. ASSUME NEW j \in MirrorJobs PROVE MirrorJobInv(j)'
    <2>1. /\ mirrorOutbox[j] = <<>> /\ mirrorWpc[j] \notin {"accepted", "running"} /\
               MirrorJobInv(j)
          /\ MirrorOwedAt(j) = {} /\ MirrorStreamAt(j)' = MirrorStreamAt(j) /\ mirrorLogs'[j] = <<>>
      BY MirrorSilent DEF Mirror!Restart, Mirror!storeVars, MirrorStreamAt, MirrorJobInv,
         MirrorInMemory
    <2>2. MirrorInMemory(j)'
      BY <2>1 DEF MirrorInMemory, Mirror!Restart
    <2>3. \A o : MirrorStreamed(j, o)' <=> MirrorStreamed(j, o)
      BY <2>1 DEF MirrorStreamed, Mirror!Restart
    <2>4. mirrorFaults' = 0 => MirrorComplete(j)'
      BY <2>1, <2>3 DEF MirrorJobInv, MirrorComplete, Mirror!Restart
    <2>5. QED
      BY <2>1, <2>2, <2>4, MirrorPhaseFrame DEF Mirror!Restart
  <1>3. QED
    BY <1>1, <1>2 DEF MirrorInv

\* The jobs have been replayed, or their replay ended early.
LEMMA MirrorJobsDrainedInv == ASSUME MirrorInv, MirrorBounds, Mirror!JobsDrained PROVE MirrorInv'
  <1>1. /\ mirrorProc = "jobs" /\ mirrorProc' = "logs" /\ mirrorReplayPos' = 0
        /\ mirrorFaults' \in 0..MirrorMaxFaults /\ (mirrorFaults' = 0 => mirrorFaults = 0)
        /\ UNCHANGED <<Mirror!storeVars, mirrorWpc, mirrorOutbox, mirrorJobsStream,
             mirrorLogsStream, mirrorCrashes, Mirror!history>>
    BY DEF Mirror!JobsDrained, Mirror!DrainEnds, MirrorInv, Mirror!TypeOK, MirrorBounds
  <1>2. Mirror!TypeOK'
    BY <1>1 DEF MirrorInv, Mirror!TypeOK, Mirror!StoreTypeOK, Mirror!storeVars, Mirror!history
  <1>3. ASSUME NEW j \in MirrorJobs PROVE MirrorJobInv(j)'
    <2>1. /\ mirrorOutbox[j] = <<>> /\ mirrorWpc[j] \notin {"accepted", "running"} /\
               MirrorJobInv(j)
          /\ MirrorOwedAt(j) = {} /\ MirrorStreamAt(j)' = MirrorStreamAt(j) /\ mirrorLogs'[j] = <<>>
      BY <1>1, MirrorSilent DEF Mirror!storeVars, MirrorStreamAt, MirrorJobInv, MirrorInMemory
    <2>2. MirrorInMemory(j)'
      BY <1>1, <2>1 DEF MirrorInMemory
    <2>3. \A o : MirrorStreamed(j, o)' <=> MirrorStreamed(j, o)
      BY <1>1, <2>1 DEF MirrorStreamed
    <2>4. \A p \in MirrorStreamAt(j) : mirrorLogsStream[p].chunk.offset \in Nat \ {0} /\
            p \in Nat \ {0}
      BY <2>1, MirrorTyped DEF MirrorJobInv, MirrorInStream, MirrorKept, MirrorStreamAt, MirrorInv
    <2>5. mirrorFaults' = 0 => MirrorComplete(j)'
      BY <1>1, <2>1, <2>3, <2>4 DEF MirrorJobInv, MirrorComplete
    <2>6. QED
      BY <1>1, <2>1, <2>2, <2>5, MirrorPhaseFrame
  <1>4. QED
    BY <1>2, <1>3 DEF MirrorInv

\* The logs have been replayed, or their replay ended early, and the process serves.
LEMMA MirrorLogsDrainedInv == ASSUME MirrorInv, MirrorBounds, Mirror!LogsDrained PROVE MirrorInv'
  <1>1. /\ mirrorProc = "logs" /\ mirrorProc' = "serving" /\ mirrorReplayPos' = 0
        /\ mirrorFaults' \in 0..MirrorMaxFaults /\ (mirrorFaults' = 0 =>
             mirrorFaults = 0 /\ mirrorReplayPos = Len(mirrorLogsStream))
        /\ UNCHANGED <<Mirror!storeVars, mirrorWpc, mirrorOutbox, mirrorJobsStream,
             mirrorLogsStream, mirrorCrashes, Mirror!history>>
    BY DEF Mirror!LogsDrained, Mirror!DrainEnds, MirrorInv, Mirror!TypeOK, MirrorBounds
  <1>2. Mirror!TypeOK'
    BY <1>1 DEF MirrorInv, Mirror!TypeOK, Mirror!StoreTypeOK, Mirror!storeVars, Mirror!history
  <1>3. ASSUME NEW j \in MirrorJobs PROVE MirrorJobInv(j)'
    <2>1. /\ mirrorOutbox[j] = <<>> /\ mirrorWpc[j] \notin {"accepted", "running"} /\
               MirrorJobInv(j)
          /\ MirrorOwedAt(j)' = {} /\ MirrorStreamAt(j)' = MirrorStreamAt(j) /\
               mirrorLogs'[j] = mirrorLogs[j]
      BY <1>1, MirrorSilent DEF Mirror!storeVars, MirrorStreamAt, MirrorOwedAt
    <2>2. MirrorInMemory(j)'
      BY <1>1, <2>1 DEF MirrorJobInv, MirrorInMemory, MirrorKept, Mirror!storeVars, Mirror!history
    <2>3. \A o : MirrorStreamed(j, o)' <=> MirrorStreamed(j, o)
      BY <1>1, <2>1 DEF MirrorStreamed
    <2>4. ASSUME mirrorFaults' = 0 PROVE MirrorComplete(j)'
      <3>1. \A p \in MirrorStreamAt(j) : mirrorLogsStream[p].chunk.offset <= Len(mirrorLogs[j])
        BY <1>1, <2>1, <2>4 DEF MirrorJobInv, MirrorComplete, MirrorStreamAt
      <3>2. QED
        BY <1>1, <2>1, <2>3, <2>4, <3>1 DEF MirrorJobInv, MirrorComplete
    <2>5. QED
      BY <1>1, <2>1, <2>2, <2>4, MirrorPhaseFrame
  <1>4. QED
    BY <1>2, <1>3 DEF MirrorInv

\* A snapshot is replayed.
LEMMA MirrorReplayJobInv == ASSUME MirrorInv, Mirror!ReplayJob PROVE MirrorInv'
  <1>1. mirrorReplayPos + 1 \in 1..Len(mirrorJobsStream) /\ mirrorReplayPos + 1 \in Nat
    BY DEF Mirror!ReplayJob, MirrorInv, Mirror!TypeOK
  <1>2. PICK e \in Mirror!JobEvents : e = mirrorJobsStream[mirrorReplayPos + 1] /\
          e.job \in MirrorJobs /\
                               e.snapshot \in Mirror!Snapshots /\ e.version \in Nat
    <2>1. mirrorJobsStream[mirrorReplayPos + 1] \in Mirror!JobEvents
      BY <1>1 DEF MirrorInv, Mirror!TypeOK
    <2>2. QED
      BY <2>1, MirrorEventFields
  <1>3. /\ mirrorProc = "jobs" /\ mirrorReplayPos' = mirrorReplayPos + 1
        /\ mirrorJobs' = [mirrorJobs EXCEPT ![e.job] = e.snapshot]
        /\ mirrorJobVersions' = [mirrorJobVersions EXCEPT ![e.job] =
             IF e.version > @ THEN e.version ELSE @]
        /\ UNCHANGED <<mirrorLogs, mirrorLogOffsets, mirrorLogSubs, mirrorLogCh, mirrorChOpen,
             mirrorInflight, mirrorProc, mirrorWpc, mirrorOutbox,
                       mirrorJobsStream, mirrorLogsStream, mirrorCrashes, mirrorFaults,
                         Mirror!history>>
    BY <1>2 DEF Mirror!ReplayJob, Mirror!applyReplayedJob
  <1>4. Mirror!TypeOK'
    BY <1>1, <1>2, <1>3 DEF MirrorInv, Mirror!TypeOK, Mirror!StoreTypeOK, Mirror!history
  <1>5. ASSUME NEW j \in MirrorJobs PROVE MirrorJobInv(j)'
    <2>1. /\ MirrorJobInv(j) /\ mirrorOutbox[j] = <<>> /\ mirrorLogs[j] = <<>> /\
               MirrorOwedAt(j)' = MirrorOwedAt(j)
          /\ MirrorStreamAt(j)' = MirrorStreamAt(j) /\
               mirrorJobs' \in [MirrorJobs -> Mirror!Snapshots]
      BY <1>3, <1>4, MirrorSilent DEF MirrorStreamAt, MirrorOwedAt, MirrorJobInv, MirrorInMemory,
         Mirror!TypeOK, Mirror!StoreTypeOK
    <2>2. MirrorInStream(j)' /\ MirrorInOutbox(j)' /\ MirrorInMemory(j)' /\ MirrorWriting(j)'
      BY <1>3, <2>1 DEF MirrorJobInv, MirrorInStream, MirrorInOutbox, MirrorInMemory,
         MirrorWriting, MirrorKept, Mirror!history
    <2>3. \A o : MirrorStreamed(j, o)' <=> MirrorStreamed(j, o)
      BY <1>3, <2>1 DEF MirrorStreamed
    <2>4. mirrorJobs'[j].state \in Mirror!Terminal => mirrorWpc[j] = "finished"
      <3>1. CASE j = e.job
        <4>1. mirrorJobs'[j] = e.snapshot
          BY <1>3, <3>1 DEF MirrorInv, Mirror!TypeOK, Mirror!StoreTypeOK
        <4>2. QED
          BY <1>1, <1>2, <2>1, <3>1, <4>1 DEF MirrorJobInv, MirrorEnding
      <3>2. CASE j # e.job
        <4>1. mirrorJobs'[j] = mirrorJobs[j]
          BY <1>3, <3>2 DEF MirrorInv, Mirror!TypeOK, Mirror!StoreTypeOK
        <4>2. QED
          BY <2>1, <4>1 DEF MirrorJobInv, MirrorEnding
      <3>3. QED
        BY <3>1, <3>2
    <2>5. MirrorEnding(j)'
      BY <1>3, <2>1, <2>3, <2>4 DEF MirrorJobInv, MirrorEnding, Mirror!history
    <2>6. mirrorFaults' = 0 => MirrorComplete(j)'
      BY <1>3, <2>1, <2>3 DEF MirrorJobInv, MirrorComplete
    <2>7. QED
      BY <2>2, <2>5, <2>6 DEF MirrorJobInv
  <1>6. QED
    BY <1>4, <1>5 DEF MirrorInv

\* A chunk is replayed: of its job, it is the next one.
LEMMA MirrorReplayLogInv == ASSUME MirrorInv, Mirror!ReplayLog PROVE MirrorInv'
  <1>1. PICK p0 \in Nat : p0 = mirrorReplayPos + 1 /\ p0 \in 1..Len(mirrorLogsStream) /\
          mirrorReplayPos \in Nat
    BY DEF Mirror!ReplayLog, MirrorInv, Mirror!TypeOK
  <1>2. PICK e \in Mirror!LogEvents :
        /\ e = mirrorLogsStream[p0]
        /\ e.job \in MirrorJobs
        /\ e.chunk \in Mirror!Chunks
        /\ e.chunk.offset \in Nat
    <2>1. mirrorLogsStream[p0] \in Mirror!LogEvents
      BY <1>1 DEF MirrorInv, Mirror!TypeOK
    <2>2. QED
      BY <2>1, MirrorEventFields
  <1>3. /\ mirrorProc = "logs" /\ mirrorReplayPos' = p0
        /\ mirrorLogs' = [mirrorLogs EXCEPT ![e.job] = Append(@, e.chunk)]
        /\ mirrorLogOffsets' = [mirrorLogOffsets EXCEPT ![e.job] =
                            IF e.chunk.offset > @ THEN e.chunk.offset ELSE @]
        /\ UNCHANGED <<mirrorJobs, mirrorJobVersions, mirrorLogSubs, mirrorLogCh, mirrorChOpen,
             mirrorInflight, mirrorProc, mirrorWpc, mirrorOutbox,
                       mirrorJobsStream, mirrorLogsStream, mirrorCrashes, mirrorFaults,
                         Mirror!history>>
    BY <1>1, <1>2 DEF Mirror!ReplayLog, Mirror!applyReplayedLog
  <1>4. \A j \in MirrorJobs :
        /\ MirrorJobInv(j) /\ mirrorOutbox[j] = <<>> /\ MirrorOwedAt(j) = {} /\
             MirrorOwedAt(j)' = {}
        /\ MirrorStreamAt(j)' = MirrorStreamAt(j) /\ mirrorLogs[j] \in Seq(Mirror!Chunks)
    BY <1>3, MirrorSilent, MirrorTyped DEF MirrorStreamAt, MirrorOwedAt, MirrorInv
  <1>5. ASSUME NEW j \in MirrorJobs, j # e.job PROVE MirrorJobInv(j)'
    <2>1. mirrorLogs'[j] = mirrorLogs[j] /\ mirrorLogOffsets'[j] = mirrorLogOffsets[j]
      BY <1>3, <1>5 DEF MirrorInv, Mirror!TypeOK, Mirror!StoreTypeOK
    <2>2. \A p \in MirrorStreamAt(j) : (p > p0 <=> p > mirrorReplayPos) /\
            (p <= p0 <=> p <= mirrorReplayPos)
      BY <1>1, <1>2, <1>5 DEF MirrorStreamAt
    <2>3. QED
      BY <1>3, <1>4, <2>1, <2>2, MirrorFrame DEF Mirror!history
  <1>6. PICK j \in MirrorJobs : j = e.job
    BY <1>2
  <1>7. p0 \in MirrorStreamAt(j) /\ MirrorKept(j, e.chunk) /\ MirrorJobInv(j) /\
          MirrorStreamAt(j)' = MirrorStreamAt(j)
    BY <1>1, <1>2, <1>4, <1>6 DEF MirrorStreamAt, MirrorJobInv, MirrorInStream
  <1>8. PICK m \in Nat :
           /\ m = Len(mirrorLogs[j]) /\ mirrorLogs'[j] = Append(mirrorLogs[j], e.chunk) /\
                Len(mirrorLogs'[j]) = m + 1
           /\ mirrorLogs'[j] \in Seq(Mirror!Chunks) /\ mirrorLogs'[j][m + 1] = e.chunk
           /\ \A i \in 1..m : mirrorLogs'[j][i] = mirrorLogs[j][i]
           /\ \A i \in 1..m + 1 : i \in 1..m \/ i = m + 1
    <2>1. PICK s \in Seq(Mirror!Chunks) : s = mirrorLogs[j] /\ mirrorLogs'[j] = Append(s, e.chunk)
      BY <1>3, <1>4, <1>6 DEF MirrorInv, Mirror!TypeOK, Mirror!StoreTypeOK
    <2>2. QED
      BY <1>2, <2>1, MirrorGrown
  <1>9. Mirror!TypeOK'
    <2>1. mirrorLogs' \in [MirrorJobs -> Seq(Mirror!Chunks)] /\
            mirrorLogOffsets' \in [MirrorJobs -> Nat]
      BY <1>2, <1>3, <1>6, <1>8 DEF MirrorInv, Mirror!TypeOK, Mirror!StoreTypeOK
    <2>2. QED
      BY <1>1, <1>3, <2>1 DEF MirrorInv, Mirror!TypeOK, Mirror!StoreTypeOK, Mirror!history
  <1>10. /\ mirrorLogOffsets'[j] \in Nat /\ mirrorLogOffsets[j] \in Nat
         /\ e.chunk.offset <= mirrorLogOffsets'[j] /\ mirrorLogOffsets[j] <= mirrorLogOffsets'[j]
    <2>1. PICK o \in Nat : o = mirrorLogOffsets[j]
      BY MirrorTyped DEF MirrorInv
    <2>2. mirrorLogOffsets'[j] = IF e.chunk.offset > o THEN e.chunk.offset ELSE o
      BY <1>3, <1>6, <2>1 DEF MirrorInv, Mirror!TypeOK, Mirror!StoreTypeOK
    <2>3. QED
      BY <1>2, <2>1, <2>2
  <1>11. \A i \in 1..m :
        /\ mirrorLogs[j][i].offset \in Nat
        /\ mirrorLogs[j][i].offset < e.chunk.offset
        /\ MirrorKept(j, mirrorLogs[j][i]) /\ mirrorLogs[j][i].offset <= mirrorLogOffsets[j]
    <2>1. \A i \in 1..m : mirrorLogs[j][i].offset \in Nat
      BY <1>8, MirrorTyped DEF MirrorInv
    <2>2. \A i \in 1..m : mirrorLogs[j][i].offset < e.chunk.offset
      BY <1>1, <1>2, <1>3, <1>7, <1>8 DEF MirrorJobInv, MirrorInMemory
    <2>3. QED
      BY <1>7, <1>8, <2>1, <2>2 DEF MirrorJobInv, MirrorInMemory
  <1>12. \A p \in MirrorStreamAt(j) : p > p0 => e.chunk.offset < mirrorLogsStream[p].chunk.offset
    BY <1>2, <1>7 DEF MirrorJobInv, MirrorInStream
  <1>13. \A p \in MirrorStreamAt(j) : p \in Nat /\ mirrorLogsStream[p].chunk.offset \in Nat
    BY MirrorTyped DEF MirrorInv, MirrorStreamAt
  <1>14. MirrorInStream(j)' /\ MirrorInOutbox(j)'
    <2>1. MirrorInStream(j)'
      BY <1>3, <1>7 DEF MirrorJobInv, MirrorInStream, MirrorKept, Mirror!history
    <2>2. MirrorInOutbox(j)'
      <3>1. mirrorOutbox'[j] = <<>> /\ MirrorOwedAt(j)' = {} /\ Len(mirrorOutbox'[j]) = 0
        BY <1>3, <1>4
      <3>2. QED
        BY <3>1 DEF MirrorInOutbox
    <2>3. QED
      BY <2>1, <2>2
  <1>15. MirrorInMemory(j)'
    <2>1. \A i \in 1..m + 1 : MirrorKept(j, mirrorLogs[j][i])' /\
            mirrorLogs'[j][i].offset <= mirrorLogOffsets'[j]
      <3>1. SUFFICES ASSUME NEW i \in 1..m + 1
                     PROVE  MirrorKept(j, mirrorLogs'[j][i]) /\
                              mirrorLogs'[j][i].offset <= mirrorLogOffsets'[j]
        BY <1>3 DEF MirrorKept, Mirror!history
      <3>2. QED
        BY <1>7, <1>8, <1>10, <1>11
    <2>2. \A i, k \in 1..m + 1 : i < k => mirrorLogs'[j][i].offset < mirrorLogs'[j][k].offset
      <3>1. SUFFICES ASSUME NEW i \in 1..m + 1, NEW k \in 1..m + 1, i < k
                     PROVE  mirrorLogs'[j][i].offset < mirrorLogs'[j][k].offset
        OBVIOUS
      <3>2. i \in 1..m
        BY <3>1
      <3>3. QED
        BY <1>7, <1>8, <1>11, <3>1, <3>2 DEF MirrorJobInv, MirrorInMemory
    <2>3. \A p \in MirrorStreamAt(j), i \in 1..m + 1 :
            p > p0 => mirrorLogs'[j][i].offset < mirrorLogsStream[p].chunk.offset
      <3>1. SUFFICES ASSUME NEW p \in MirrorStreamAt(j), NEW i \in 1..m + 1, p > p0
                     PROVE  mirrorLogs'[j][i].offset < mirrorLogsStream[p].chunk.offset
        OBVIOUS
      <3>2. mirrorLogs'[j][i].offset \in Nat /\ mirrorLogs'[j][i].offset <= e.chunk.offset
        BY <1>2, <1>8, <1>11
      <3>3. QED
        BY <1>2, <1>12, <1>13, <3>1, <3>2
    <2>4. QED
      BY <1>3, <1>7, <1>8, <2>1, <2>2, <2>3 DEF MirrorInMemory
  <1>16. mirrorWpc[j] \notin {"none", "accepted", "running"}
    <2>1. mirrorEverLog[j] # <<>>
      BY <1>7 DEF MirrorKept
    <2>2. QED
      BY <1>3, <1>7, <2>1 DEF MirrorJobInv, MirrorWriting
  <1>17. MirrorWriting(j)'
    BY <1>3, <1>7, <1>16 DEF MirrorJobInv, MirrorWriting, Mirror!history
  <1>18. \A o : MirrorStreamed(j, o)' <=> MirrorStreamed(j, o)
    BY <1>3, <1>7 DEF MirrorStreamed
  <1>19. MirrorEnding(j)'
    BY <1>3, <1>7, <1>18 DEF MirrorJobInv, MirrorEnding, Mirror!history
  <1>20. ASSUME mirrorFaults' = 0 PROVE MirrorComplete(j)'
    <2>1. MirrorComplete(j)
      BY <1>3, <1>7, <1>20 DEF MirrorJobInv
    <2>2. \A p \in MirrorStreamAt(j) :
            mirrorLogsStream[p].chunk.offset <= m <=> p <= mirrorReplayPos
      BY <1>3, <1>8, <2>1 DEF MirrorComplete
    <2>3. e.chunk.offset = m + 1
      <3>1. ~(e.chunk.offset <= m)
        BY <1>1, <1>2, <1>7, <2>2
      <3>2. ASSUME e.chunk.offset # m + 1 PROVE FALSE
        <4>1. m + 1 \in 1..e.chunk.offset /\ m + 1 < e.chunk.offset
          BY <1>2, <3>1, <3>2
        <4>2. PICK p \in MirrorStreamAt(j) : mirrorLogsStream[p].chunk.offset = m + 1
          BY <1>2, <1>7, <2>1, <4>1 DEF MirrorComplete, MirrorStreamed
        <4>3. ~(p <= mirrorReplayPos) /\ p # p0
          BY <1>2, <2>2, <4>1, <4>2
        <4>4. p > p0
          BY <1>1, <1>13, <4>2, <4>3
        <4>5. QED
          BY <1>2, <1>12, <4>1, <4>2, <4>4
      <3>3. QED
        BY <3>2
    <2>4. \A p \in MirrorStreamAt(j) : mirrorLogsStream[p].chunk.offset <= m + 1 <=> p <= p0
      <3>1. SUFFICES ASSUME NEW p \in MirrorStreamAt(j)
                     PROVE  mirrorLogsStream[p].chunk.offset <= m + 1 <=> p <= p0
        OBVIOUS
      <3>2. CASE p <= mirrorReplayPos
        BY <1>1, <1>13, <2>2, <3>1, <3>2
      <3>3. CASE p = p0
        BY <1>2, <2>3, <3>3
      <3>4. CASE p > p0
        BY <1>1, <1>12, <1>13, <2>3, <3>1, <3>4
      <3>5. QED
        BY <1>1, <1>13, <3>1, <3>2, <3>3, <3>4
    <2>5. \A o \in 1..m + 1 : MirrorStreamed(j, o)'
      BY <1>2, <1>7, <1>18, <2>1, <2>3 DEF MirrorComplete
    <2>6. \A i \in 1..m + 1 : mirrorLogs'[j][i].offset = i
      BY <1>8, <2>1, <2>3 DEF MirrorComplete
    <2>7. \A p \in MirrorStreamAt(j) : \A o \in 1..mirrorLogsStream[p].chunk.offset :
            MirrorStreamed(j, o)'
      BY <1>18, <2>1 DEF MirrorComplete
    <2>8. QED
      BY <1>3, <1>7, <1>8, <2>4, <2>5, <2>6, <2>7 DEF MirrorComplete
  <1>21. QED
    BY <1>5, <1>6, <1>9, <1>14, <1>15, <1>17, <1>19, <1>20 DEF MirrorInv, MirrorJobInv

-----------------------------------------------------------------------------
\* A client looks at a log.
LEMMA MirrorShowLogInv == ASSUME MirrorInv, NEW j \in MirrorJobs, Mirror!ShowLog(j) PROVE MirrorInv'
  <1>1. Mirror!TypeOK'
    BY MirrorTyped DEF MirrorInv, Mirror!TypeOK, Mirror!StoreTypeOK, Mirror!ShowLog,
       Mirror!storeVars, Mirror!mirrorVars
  <1>2. ASSUME NEW k \in MirrorJobs PROVE MirrorJobInv(k)'
    <2>1. MirrorStreamAt(k)' = MirrorStreamAt(k)
      BY DEF Mirror!ShowLog, Mirror!mirrorVars, MirrorStreamAt
    <2>2. QED
      BY <2>1, MirrorFrame DEF MirrorInv, Mirror!ShowLog, Mirror!mirrorVars, Mirror!storeVars
  <1>3. QED
    BY <1>1, <1>2 DEF MirrorInv

\* The writer stores its three snapshots.
LEMMA MirrorWritesInv ==
    ASSUME MirrorInv, NEW j \in MirrorJobs,
           Mirror!SubmitJob(j) \/ Mirror!DispatchStart(j) \/
             \E state \in Mirror!Terminal : Mirror!DispatchFinish(j, state)
    PROVE  MirrorInv'
  <1>1. mirrorJobs[j] \in Mirror!Snapshots
    BY DEF MirrorInv, Mirror!TypeOK, Mirror!StoreTypeOK
  <1>2. CASE Mirror!SubmitJob(j)
    <2>1. PICK s : s = [state |-> "accepted", exitCode |-> 0]
      OBVIOUS
    <2>2. s \in Mirror!Snapshots /\ s.state \notin Mirror!Terminal
      BY <2>1 DEF Mirror!Snapshots, Mirror!States, Mirror!Terminal
    <2>3. Mirror!Ready(j, "none") /\ Mirror!PutJob(j, s, "accepted")
      BY <1>2, <2>1 DEF Mirror!SubmitJob
    <2>4. QED
      BY <2>2, <2>3, MirrorPutInv
  <1>3. CASE Mirror!DispatchStart(j)
    <2>1. PICK s : s = [mirrorJobs[j] EXCEPT !.state = "running"]
      OBVIOUS
    <2>2. s \in Mirror!Snapshots /\ s.state \notin Mirror!Terminal
      BY <1>1, <2>1 DEF Mirror!Snapshots, Mirror!States, Mirror!Terminal
    <2>3. Mirror!Ready(j, "accepted") /\ Mirror!PutJob(j, s, "running")
      BY <1>3, <2>1 DEF Mirror!DispatchStart
    <2>4. QED
      BY <2>2, <2>3, MirrorPutInv
  <1>4. CASE \E state \in Mirror!Terminal : Mirror!DispatchFinish(j, state)
    <2>1. PICK state \in Mirror!Terminal : Mirror!DispatchFinish(j, state)
      BY <1>4
    <2>2. PICK s : s = [mirrorJobs[j] EXCEPT !.state = state]
      OBVIOUS
    <2>3. s \in Mirror!Snapshots
      BY <1>1, <2>2 DEF Mirror!Snapshots, Mirror!States, Mirror!Terminal
    <2>4. Mirror!Ready(j, "running") /\ Mirror!PutJob(j, s, "finished")
      BY <2>1, <2>2 DEF Mirror!DispatchFinish
    <2>5. QED
      BY <2>3, <2>4, MirrorPutInv
  <1>5. QED
    BY <1>2, <1>3, <1>4

\* Every step keeps the invariant.
LEMMA MirrorNextInv == ASSUME MirrorBounds, MirrorInv, [Mirror!Next]_Mirror!vars PROVE MirrorInv'
  <1>1. ASSUME NEW j \in MirrorJobs, Mirror!Write(j) PROVE MirrorInv'
    <2>1. CASE Mirror!SubmitJob(j) \/ Mirror!DispatchStart(j) \/
                 \E state \in Mirror!Terminal : Mirror!DispatchFinish(j, state)
      BY <2>1, MirrorWritesInv
    <2>2. CASE \E n \in 1..MirrorMaxBatch : Mirror!DispatchLogs(j, n)
      BY <2>2, MirrorDispatchLogsInv
    <2>3. CASE Mirror!Publish(j)
      BY <2>3, MirrorPublishJobInv, MirrorPublishLogInv DEF Mirror!Publish
    <2>4. CASE Mirror!PublishFails(j)
      BY <2>4, MirrorPublishFailsInv
    <2>5. QED
      BY <1>1, <2>1, <2>2, <2>3, <2>4 DEF Mirror!Write
  <1>2. CASE Mirror!Hydrate
    BY <1>2, MirrorRestartInv, MirrorReplayJobInv, MirrorJobsDrainedInv, MirrorReplayLogInv,
       MirrorLogsDrainedInv DEF Mirror!Hydrate
  <1>3. CASE Mirror!Crash \/ Mirror!HydrateFails
    BY <1>3, MirrorStopInv DEF Mirror!Crash, Mirror!HydrateFails
  <1>4. CASE UNCHANGED Mirror!vars
    <2>1. Mirror!TypeOK'
      BY <1>4 DEF MirrorInv, Mirror!TypeOK, Mirror!StoreTypeOK, Mirror!vars, Mirror!storeVars,
         Mirror!mirrorVars, Mirror!history
    <2>2. ASSUME NEW k \in MirrorJobs PROVE MirrorJobInv(k)'
      <3>1. MirrorStreamAt(k)' = MirrorStreamAt(k)
        BY <1>4 DEF Mirror!vars, Mirror!mirrorVars, MirrorStreamAt
      <3>2. QED
        BY <1>4, <3>1, MirrorFrame DEF MirrorInv, Mirror!vars, Mirror!mirrorVars, Mirror!storeVars,
           Mirror!history
    <2>3. QED
      BY <2>1, <2>2 DEF MirrorInv
  <1>5. QED
    BY <1>1, <1>2, <1>3, <1>4, MirrorShowLogInv DEF Mirror!Next, Mirror!Idle

\* What the invariant says of the log a job has in memory.
LEMMA MirrorMeaning == MirrorInv =>
  Mirror!MemoryIsMirrorPlusOutbox /\ Mirror!FinishedIsWhole /\ Mirror!OffsetsSurvive
  <1>1. SUFFICES ASSUME MirrorInv
    PROVE Mirror!MemoryIsMirrorPlusOutbox /\ Mirror!FinishedIsWhole /\ Mirror!OffsetsSurvive
    OBVIOUS
  <1>2. Mirror!OffsetsSurvive
    <2>1. SUFFICES ASSUME NEW j \in MirrorJobs, NEW i \in 1..Len(mirrorLogs[j])
                   PROVE  /\ mirrorLogs[j][i].offset \in 1..Len(mirrorEverLog[j])
                          /\ mirrorLogs[j][i] = mirrorEverLog[j][mirrorLogs[j][i].offset]
                          /\ mirrorLogs[j][i].offset <= mirrorLogOffsets[j]
                          /\ i > 1 => mirrorLogs[j][i - 1].offset < mirrorLogs[j][i].offset
      BY DEF Mirror!OffsetsSurvive
    <2>2. i > 1 => i - 1 \in 1..Len(mirrorLogs[j]) /\ i - 1 < i
      BY <1>1, MirrorTyped DEF MirrorInv
    <2>3. QED
      BY <1>1, <2>2 DEF MirrorInv, MirrorJobInv, MirrorInMemory, MirrorKept
  <1>3. Mirror!FinishedIsWhole
    <2>1. SUFFICES ASSUME mirrorProc = "serving", mirrorFaults = 0, NEW j \in MirrorJobs,
                     mirrorJobs[j].state \in Mirror!Terminal
                   PROVE  mirrorLogs[j] = mirrorEverLog[j]
      BY DEF Mirror!FinishedIsWhole
    <2>2. MirrorJobInv(j) /\ MirrorComplete(j)
      BY <1>1, <2>1 DEF MirrorInv, MirrorJobInv
    <2>3. \A o \in 1..Len(mirrorEverLog[j]) : o <= Len(mirrorLogs[j])
      BY <2>1, <2>2 DEF MirrorJobInv, MirrorEnding, MirrorComplete, MirrorStreamed
    <2>4. \A i \in 1..Len(mirrorLogs[j]) : i <= Len(mirrorEverLog[j]) /\
            mirrorLogs[j][i] = mirrorEverLog[j][i]
      BY <2>2 DEF MirrorJobInv, MirrorInMemory, MirrorKept, MirrorComplete
    <2>5. mirrorLogs[j] \in Seq(Mirror!Chunks) /\ mirrorEverLog[j] \in Seq(Mirror!Chunks)
      BY <1>1, MirrorTyped DEF MirrorInv
    <2>6. Len(mirrorLogs[j]) = Len(mirrorEverLog[j])
      BY <2>3, <2>4, <2>5
    <2>7. QED
      BY <2>4, <2>5, <2>6
  <1>4. Mirror!MemoryIsMirrorPlusOutbox
    <2>1. SUFFICES ASSUME mirrorProc = "serving", mirrorFaults = 0, NEW j \in MirrorJobs
                   PROVE  /\ \A p \in Mirror!MirroredChunks(j) :
                                /\ Mirror!Mirrored(j)[p].chunk.offset \in 1..Len(mirrorLogs[j])
                                /\ Mirror!Mirrored(j)[p].chunk =
                                     mirrorLogs[j][Mirror!Mirrored(j)[p].chunk.offset]
                          /\ \A p, r \in Mirror!MirroredChunks(j) :
                                p < r =>
                                  Mirror!Mirrored(j)[p].chunk.offset < Mirror!Mirrored(j)[r].chunk.offset
                          /\ \A i \in 1..Len(mirrorLogs[j]) :
                                \E p \in Mirror!MirroredChunks(j) :
                                  Mirror!Mirrored(j)[p].chunk.offset = i
      BY DEF Mirror!MemoryIsMirrorPlusOutbox
    <2>2. MirrorJobInv(j) /\ MirrorComplete(j)
      BY <1>1, <2>1 DEF MirrorInv, MirrorJobInv
    <2>3. PICK s, t :
          /\ s = mirrorLogsStream
          /\ t = mirrorOutbox[j]
          /\ s \in Seq(Mirror!LogEvents) /\ t \in Seq(Mirror!JobEvents \cup Mirror!LogEvents)
      BY <1>1, MirrorTyped DEF MirrorInv
    <2>4. /\ Len(s) \in Nat /\ Len(t) \in Nat /\ Len(Mirror!Mirrored(j)) = Len(s) + Len(t)
          /\ \A p \in 1..Len(s) : Mirror!Mirrored(j)[p] = s[p]
          /\ \A k \in 1..Len(t) : Mirror!Mirrored(j)[Len(s) + k] = t[k]
          /\ \A p \in 1..Len(s) + Len(t) : p \in 1..Len(s) \/ p - Len(s) \in 1..Len(t)
      <3>1. s \in Seq(Mirror!JobEvents \cup Mirror!LogEvents)
        BY <2>3
      <3>2. QED
        BY <2>3, <3>1 DEF Mirror!Mirrored
    <2>5. ASSUME NEW p \in Mirror!MirroredChunks(j)
          PROVE  \/ p \in MirrorStreamAt(j) /\ Mirror!Mirrored(j)[p] = mirrorLogsStream[p]
                 \/ p - Len(s) \in MirrorOwedAt(j) /\
                      Mirror!Mirrored(j)[p] = mirrorOutbox[j][p - Len(s)]
      <3>1. CASE p \in 1..Len(s)
        BY <2>3, <2>4, <2>5, <3>1 DEF Mirror!MirroredChunks, MirrorStreamAt
      <3>2. CASE p - Len(s) \in 1..Len(t)
        <4>1. Len(s) + (p - Len(s)) = p
          BY <2>4, <2>5 DEF Mirror!MirroredChunks
        <4>2. QED
          BY <2>3, <2>4, <2>5, <3>2, <4>1 DEF Mirror!MirroredChunks, MirrorOwedAt
      <3>3. QED
        BY <2>4, <2>5, <3>1, <3>2 DEF Mirror!MirroredChunks
    <2>6. \A p \in MirrorStreamAt(j) : p \in Mirror!MirroredChunks(j) /\ p <= Len(s) /\ p \in Nat
      <3>1. \A p \in 1..Len(s) : s[p] \in Mirror!LogEvents /\ p \in 1..Len(Mirror!Mirrored(j)) /\
              p <= Len(s)
        BY <2>3, <2>4
      <3>2. QED
        BY <2>3, <2>4, <3>1, MirrorEventFields DEF MirrorStreamAt, Mirror!MirroredChunks
    <2>7. \A k \in MirrorOwedAt(j) : Len(s) + k \in Mirror!MirroredChunks(j)
      BY <2>2, <2>3, <2>4 DEF MirrorOwedAt, Mirror!MirroredChunks, MirrorJobInv, MirrorInOutbox
    <2>8. ASSUME NEW p \in Mirror!MirroredChunks(j)
          PROVE  /\ MirrorKept(j, Mirror!Mirrored(j)[p].chunk)
                 /\ Mirror!Mirrored(j)[p].chunk.offset \in 1..Len(mirrorLogs[j])
                 /\ Mirror!Mirrored(j)[p].chunk = mirrorLogs[j][Mirror!Mirrored(j)[p].chunk.offset]
      <3>1. PICK x : x = Mirror!Mirrored(j)[p].chunk
        OBVIOUS
      <3>2. MirrorKept(j, x) /\ x.offset <= Len(mirrorLogs[j])
        BY <2>1, <2>2, <2>5, <3>1 DEF MirrorJobInv, MirrorInStream, MirrorInOutbox, MirrorComplete
      <3>3. x.offset \in 1..Len(mirrorLogs[j])
        BY <1>1, <3>2, MirrorTyped DEF MirrorKept, MirrorInv
      <3>4. mirrorLogs[j][x.offset] = mirrorEverLog[j][x.offset]
        BY <2>2, <3>3 DEF MirrorJobInv, MirrorInMemory, MirrorComplete, MirrorKept
      <3>5. QED
        BY <3>1, <3>2, <3>3, <3>4 DEF MirrorKept
    <2>9. ASSUME NEW p \in Mirror!MirroredChunks(j), NEW r \in Mirror!MirroredChunks(j), p < r
          PROVE  Mirror!Mirrored(j)[p].chunk.offset < Mirror!Mirrored(j)[r].chunk.offset
      <3>1. CASE r \in MirrorStreamAt(j) /\ Mirror!Mirrored(j)[r] = mirrorLogsStream[r]
        <4>1. ~(p - Len(s) \in MirrorOwedAt(j))
          BY <2>4, <2>6, <2>9, <3>1 DEF MirrorOwedAt, Mirror!MirroredChunks
        <4>2. p \in MirrorStreamAt(j) /\ Mirror!Mirrored(j)[p] = mirrorLogsStream[p]
          BY <2>5, <4>1
        <4>3. QED
          BY <2>2, <2>9, <3>1, <4>2 DEF MirrorJobInv, MirrorInStream
      <3>2. CASE r - Len(s) \in MirrorOwedAt(j) /\
                   Mirror!Mirrored(j)[r] = mirrorOutbox[j][r - Len(s)]
        <4>1. CASE p \in MirrorStreamAt(j) /\ Mirror!Mirrored(j)[p] = mirrorLogsStream[p]
          BY <2>2, <3>2, <4>1 DEF MirrorJobInv, MirrorInOutbox
        <4>2. CASE p - Len(s) \in MirrorOwedAt(j) /\
                     Mirror!Mirrored(j)[p] = mirrorOutbox[j][p - Len(s)]
          <5>1. p - Len(s) < r - Len(s)
            BY <2>4, <2>9 DEF Mirror!MirroredChunks
          <5>2. QED
            BY <2>2, <3>2, <4>2, <5>1 DEF MirrorJobInv, MirrorInOutbox
        <4>3. QED
          BY <2>5, <4>1, <4>2
      <3>3. QED
        BY <2>5, <3>1, <3>2
    <2>10. ASSUME NEW i \in 1..Len(mirrorLogs[j])
           PROVE  \E p \in Mirror!MirroredChunks(j) : Mirror!Mirrored(j)[p].chunk.offset = i
      <3>1. MirrorStreamed(j, i) \/ MirrorOwed(j, i)
        BY <2>1, <2>2 DEF MirrorComplete
      <3>2. CASE MirrorStreamed(j, i)
        BY <2>3, <2>4, <2>6, <3>2 DEF MirrorStreamed, MirrorStreamAt
      <3>3. CASE MirrorOwed(j, i)
        BY <2>3, <2>4, <2>7, <3>3 DEF MirrorOwed, MirrorOwedAt
      <3>4. QED
        BY <3>1, <3>2, <3>3
    <2>11. QED
      BY <2>8, <2>9, <2>10
  <1>5. QED
    BY <1>2, <1>3, <1>4

\* While nothing failed the memory is what a replay would restore and what is about to be
\* published, and a job that is reported as finished has its whole log; whatever failed, a
\* chunk keeps its offset over crashes and restarts, for any number of jobs and chunks
\* (AppendLogs, hydrate, applyReplayedLog).
THEOREM MirrorHolds ==
    ASSUME MirrorBounds
    PROVE  Mirror!Spec =>
             [](Mirror!TypeOK /\ Mirror!MemoryIsMirrorPlusOutbox /\ Mirror!FinishedIsWhole /\
               Mirror!OffsetsSurvive)
  <1>1. Mirror!Init => MirrorInv
    BY MirrorInitInv
  <1>2. MirrorInv /\ [Mirror!Next]_Mirror!vars => MirrorInv'
    BY MirrorNextInv
  <1>3. MirrorInv =>
          Mirror!TypeOK /\ Mirror!MemoryIsMirrorPlusOutbox /\ Mirror!FinishedIsWhole /\
            Mirror!OffsetsSurvive
    BY MirrorMeaning DEF MirrorInv
  <1>4. QED
    BY <1>1, <1>2, <1>3, PTL DEF Mirror!Spec
=============================================================================
