---------------------------- MODULE RemoteProofs ----------------------------
(***************************************************************************)
(* Proofs about the components of xrunner-remote and of the worker that    *)
(* MCDaemon lists, for every value of their constants, a section for       *)
(* each. The components share no state: each has constants and variables   *)
(* of its own here.                                                        *)
(***************************************************************************)
EXTENDS FiniteSets, FiniteSetTheorems, Integers, Sequences, SequencesExt,
        SequenceTheorems, WellFoundedInduction, TLAPS

CONSTANTS
    EventsProducers, EventsStreams, EventsAfters, EventsCap, EventsMaxEvents,
    EventsNoStream, FilesWriters, FilesTools, FilesMaxStops, CommandJobs,
    CommandMaxDepth, CommandMaxStarts, ToolLimit, ToolMaxOut, BundlesCalls,
    BundlesMaxStops, BundlesMaxChanges, ConfigMaxStarts, AttachClients,
    AttachOwnOffset, AttachQueueLen, AttachMaxLog, AttachMaxConns,
    AttachMaxKills, AttachMaxRestarts, RunShellRuns, RunShellTails,
    RunShellHooks, RunShellTorn, RunShellTimeouts, RunShellMaxOut,
    TerminalsClients, TerminalsOwner, TerminalsMaxChunk, TerminalsMaxOut

VARIABLES
    eventsExists, eventsLog, eventsFlushed, eventsNextID, eventsSaid,
    eventsPpc, eventsCur, eventsTodo, eventsAt, eventsSpc, eventsAfter,
    eventsRpos, eventsCh, eventsSubs, eventsSent, eventsPanicked,
    eventsCopied, eventsSpilled, filesAt, filesOld, filesTemp, filesSynced,
    filesFile, filesDisk, filesDiffs, filesStops, commandDefault,
    commandFallback, commandHas, commandFlags, commandAt, commandSpec,
    commandDepth, commandRuns, commandDirs, commandWorker, commandStarts,
    toolMode, toolCapture, toolProc, toolChild, toolWritten, toolRead,
    toolEvents, toolKept, toolCut, toolReader, toolCanceled, toolResult,
    bundlesPath, bundlesFile, bundlesTmp, bundlesCreate, bundlesGot,
    bundlesSession, bundlesCache, bundlesTold, bundlesCall, bundlesEarly,
    bundlesStops, bundlesChanges, configLocal, configHost, configMode,
    configFile, configCfg, configClient, configOrigin, configStarts, attAlive,
    attExists, attGen, attSize, attLastAck, attConn, attUsed, attRestarts,
    attOwn, attGot, attPanicked, cmdLog, cmdTyped, cmdRunning, cmdRun,
    cmdTail, cmdWriting, cmdTimeline, ttyProc, ttyChild, ttyTty, ttyRd,
    ttyClosed, ttyTimer, ttySession, ttyCall, ttyPending, ttySent, ttyResult,
    ttyCmd, ttyRecv, ttyGot, ttyGiven, ttyPrinted, ttyWhy

Events == INSTANCE SessionEvents WITH
    Producers <- EventsProducers, Streams <- EventsStreams,
    Afters <- EventsAfters, Cap <- EventsCap, MaxEvents <- EventsMaxEvents,
    NoStream <- EventsNoStream, exists <- eventsExists, log <- eventsLog,
    flushed <- eventsFlushed, nextID <- eventsNextID, said <- eventsSaid,
    ppc <- eventsPpc, cur <- eventsCur, todo <- eventsTodo, at <- eventsAt,
    spc <- eventsSpc, after <- eventsAfter, rpos <- eventsRpos,
    ch <- eventsCh, subs <- eventsSubs, sent <- eventsSent,
    panicked <- eventsPanicked, copied <- eventsCopied,
    spilled <- eventsSpilled

Files == INSTANCE FileWrites WITH
    Writers <- FilesWriters, Tools <- FilesTools, MaxStops <- FilesMaxStops,
    at <- filesAt, old <- filesOld, temp <- filesTemp, synced <- filesSynced,
    file <- filesFile, disk <- filesDisk, diffs <- filesDiffs,
    stops <- filesStops

Command == INSTANCE JobCommand WITH
    Jobs <- CommandJobs, MaxDepth <- CommandMaxDepth,
    MaxStarts <- CommandMaxStarts, default <- commandDefault,
    fallback <- commandFallback, has <- commandHas, flags <- commandFlags,
    at <- commandAt, spec <- commandSpec, depth <- commandDepth,
    runs <- commandRuns, dirs <- commandDirs, worker <- commandWorker,
    starts <- commandStarts

Tool == INSTANCE ToolExec WITH
    Limit <- ToolLimit, MaxOut <- ToolMaxOut, mode <- toolMode,
    capture <- toolCapture, proc <- toolProc, child <- toolChild,
    written <- toolWritten, read <- toolRead, events <- toolEvents,
    kept <- toolKept, cut <- toolCut, reader <- toolReader,
    canceled <- toolCanceled, result <- toolResult

Bundles == INSTANCE ToolBundles WITH
    Calls <- BundlesCalls, MaxStops <- BundlesMaxStops,
    MaxChanges <- BundlesMaxChanges, path <- bundlesPath, file <- bundlesFile,
    tmp <- bundlesTmp, create <- bundlesCreate, got <- bundlesGot,
    session <- bundlesSession, cache <- bundlesCache, told <- bundlesTold,
    call <- bundlesCall, early <- bundlesEarly, stops <- bundlesStops,
    changes <- bundlesChanges

Config == INSTANCE LlmConfig WITH
    MaxStarts <- ConfigMaxStarts, local <- configLocal, host <- configHost,
    mode <- configMode, file <- configFile, cfg <- configCfg,
    client <- configClient, origin <- configOrigin, starts <- configStarts

Attach == INSTANCE ShellAttach WITH
    Clients <- AttachClients, OwnOffset <- AttachOwnOffset,
    QueueLen <- AttachQueueLen, MaxLog <- AttachMaxLog,
    MaxConns <- AttachMaxConns, MaxKills <- AttachMaxKills,
    MaxRestarts <- AttachMaxRestarts, alive <- attAlive, exists <- attExists,
    gen <- attGen, size <- attSize, lastAck <- attLastAck, conn <- attConn,
    used <- attUsed, restarts <- attRestarts, own <- attOwn, got <- attGot,
    panicked <- attPanicked

RunShell == INSTANCE ShellRuns WITH
    Runs <- RunShellRuns, Tails <- RunShellTails, Hooks <- RunShellHooks,
    Torn <- RunShellTorn, Timeouts <- RunShellTimeouts,
    MaxOut <- RunShellMaxOut, log <- cmdLog, typed <- cmdTyped,
    running <- cmdRunning, run <- cmdRun, tail <- cmdTail,
    writing <- cmdWriting, timeline <- cmdTimeline

Terminals == INSTANCE PtyService WITH
    Clients <- TerminalsClients, Owner <- TerminalsOwner,
    MaxChunk <- TerminalsMaxChunk, MaxOut <- TerminalsMaxOut, proc <- ttyProc,
    child <- ttyChild, tty <- ttyTty, rd <- ttyRd, closed <- ttyClosed,
    timer <- ttyTimer, session <- ttySession, call <- ttyCall,
    pending <- ttyPending, sent <- ttySent, result <- ttyResult,
    cmd <- ttyCmd, recv <- ttyRecv, got <- ttyGot, given <- ttyGiven,
    printed <- ttyPrinted, why <- ttyWhy

-----------------------------------------------------------------------------
(***************************************************************************)
(* Proofs about SessionEvents, for any number of producers and streams and *)
(* any capacity of their channels.                                         *)
(***************************************************************************)

EventsBounds == EventsCap \in Nat /\ EventsMaxEvents \in Nat /\ EventsAfters \subseteq Nat

EventsBefore == {"idle", "replay", "subscribe"}

\* Who is served and who listens.
EventsWired ==
    /\ \A p \in EventsProducers :
         /\ eventsPpc[p] \in {"idle", "copy"} => eventsTodo[p] = {}
         /\ eventsPpc[p] \in {"full", "retry"} => eventsAt[p] \in eventsTodo[p]
         /\ eventsPpc[p] # "idle" =>
              eventsCur[p] \in Events!Events /\ eventsCur[p].by = p /\
                eventsCur[p].n = eventsSaid[p]
    /\ eventsSubs = {h \in EventsStreams : eventsSpc[h] = "loop"}
    /\ \A h \in EventsStreams :
         eventsSpc[h] \in EventsBefore =>
            eventsCh[h] = <<>> /\ eventsCopied[h] = {} /\
              \A p \in EventsProducers : h \notin eventsTodo[p]

\* The log: the events of one producer in the order they were produced.
EventsLogOrder ==
    /\ \A i \in 1..Len(eventsLog) : eventsLog[i].n <= eventsSaid[eventsLog[i].by]
    /\ \A i, j \in 1..Len(eventsLog) : i < j /\ eventsLog[i].by = eventsLog[j].by =>
         eventsLog[i].n < eventsLog[j].n
    /\ \A p \in EventsProducers : eventsPpc[p] # "idle" =>
         \A i \in 1..Len(eventsLog) : eventsLog[i].by = p /\ eventsLog[i].n = eventsSaid[p] =>
           eventsLog[i] = eventsCur[p]

\* A replay has sent records up to where it is, each once.
EventsReplayOf(h) ==
    /\ eventsRpos[h] <= eventsFlushed
    /\ \A i \in 1..Len(eventsSent[h]) : \E m \in 1..eventsRpos[h] : eventsSent[h][i] = eventsLog[m]
    /\ \A i, j \in 1..Len(eventsSent[h]) :
         i < j /\ eventsSent[h][i].by = eventsSent[h][j].by =>
           eventsSent[h][i].n < eventsSent[h][j].n
EventsReplayOrder == \A h \in EventsStreams : eventsSpc[h] \in EventsBefore => EventsReplayOf(h)

\* Events of one producer in order, none three times.
EventsFine(q) ==
    /\ \A i, j \in 1..Len(q) :
         i < j /\ q[i].by = q[j].by => q[i].n <= q[j].n /\ (q[i].n = q[j].n => q[i] = q[j])
    /\ \A i, j, k \in 1..Len(q) :
         i < j /\ j < k /\ q[i].by = q[j].by /\ q[j].by = q[k].by => q[i].n < q[k].n

\* At most one event of p in q is as late as its n-th.
EventsOnce(q, p, n) ==
    \A i, j \in 1..Len(q) : i < j /\ q[i].by = p /\ q[j].by = p => q[i].n < n

EventsOrderOf(h) ==
    /\ EventsFine(Events!Arriving(h))
    /\ \A i \in 1..Len(Events!Arriving(h)) :
         Events!Arriving(h)[i].n <= eventsSaid[Events!Arriving(h)[i].by]
    /\ \A p \in EventsProducers : eventsPpc[p] # "idle" =>
         \A i \in 1..Len(Events!Arriving(h)) :
            Events!Arriving(h)[i].by = p /\ Events!Arriving(h)[i].n = eventsSaid[p] =>
              Events!Arriving(h)[i] = eventsCur[p]
    /\ \A p \in EventsProducers :
         eventsPpc[p] = "copy" \/ h \in eventsTodo[p] =>
           EventsOnce(Events!Arriving(h), p, eventsSaid[p])
EventsArrivalOrder == \A h \in EventsStreams : eventsSpc[h] \notin EventsBefore => EventsOrderOf(h)

\* LiveIsComplete, for one stream.
EventsLiveOf(h) ==
    h \in eventsSubs /\ ~eventsSpilled[h] =>
        \A e \in eventsCopied[h] :
            \/ \E i \in 1..Len(Events!Arriving(h)) : Events!Arriving(h)[i] = e
            \/ \E p \in EventsProducers : eventsCur[p] = e /\ h \in eventsTodo[p]
            \/ e.id \in 1..eventsAfter[h]
EventsLively == \A h \in EventsStreams : EventsLiveOf(h)

EventsInv == Events!TypeOK /\ EventsWired /\ EventsLogOrder /\ EventsReplayOrder /\
  EventsArrivalOrder /\ EventsLively

-----------------------------------------------------------------------------
\* r is q and then e; r is q without one of its events.
EventsLonger(r, q, e) ==
    /\ Len(r) = Len(q) + 1 /\ r[Len(q) + 1] = e
    /\ \A i \in 1..Len(q) : r[i] = q[i]
EventsShorter(r, q, k) ==
    /\ k \in 1..Len(q) /\ Len(r) + 1 = Len(q)
    /\ \A i \in 1..Len(r) : r[i] = IF i < k THEN q[i] ELSE q[i + 1]

\* The latest event of a producer at the end.
LEMMA EventsLongerFine ==
    ASSUME NEW q \in Seq(Events!Events), NEW r \in Seq(Events!Events), NEW e \in Events!Events,
             EventsLonger(r, q, e),
           EventsFine(q), EventsOnce(q, e.by, e.n),
           \A i \in 1..Len(q) : q[i].by = e.by => q[i].n <= e.n /\ (q[i].n = e.n => q[i] = e)
    PROVE  EventsFine(r)
  <1>1. \A i \in 1..Len(q) : q[i].n \in Nat /\ q[i] \in Events!Events
    <2>1. \A i \in 1..Len(q) : q[i] \in Events!Events
      OBVIOUS
    <2>2. \A x \in Events!Events : x.n \in Nat
      BY DEF Events!Events
    <2>3. QED
      BY <2>1, <2>2
  <1>2. ASSUME NEW i \in 1..Len(r), NEW j \in 1..Len(r), i < j, r[i].by = r[j].by
        PROVE  r[i].n <= r[j].n /\ (r[i].n = r[j].n => r[i] = r[j])
    <2>1. i \in 1..Len(q) /\ r[i] = q[i] /\ (j \in 1..Len(q) \/ j = Len(q) + 1)
      BY <1>2 DEF EventsLonger
    <2>2. CASE j \in 1..Len(q)
      BY <1>2, <2>1, <2>2 DEF EventsLonger, EventsFine
    <2>3. CASE j = Len(q) + 1
      BY <1>2, <2>1, <2>3 DEF EventsLonger
    <2>4. QED
      BY <2>1, <2>2, <2>3
  <1>3. ASSUME NEW i \in 1..Len(r), NEW j \in 1..Len(r), NEW k \in 1..Len(r), i < j, j < k,
               r[i].by = r[j].by, r[j].by = r[k].by
        PROVE  r[i].n < r[k].n
    <2>1. /\ i \in 1..Len(q) /\ r[i] = q[i] /\ j \in 1..Len(q) /\ r[j] = q[j]
          /\ k \in 1..Len(q) \/ k = Len(q) + 1
      BY <1>3, SMTT(60) DEF EventsLonger
    <2>2. CASE k \in 1..Len(q)
      BY <1>3, <2>1, <2>2 DEF EventsLonger, EventsFine
    <2>3. CASE k = Len(q) + 1
      BY <1>3, <2>1, <2>3 DEF EventsLonger, EventsOnce
    <2>4. QED
      BY <2>1, <2>2, <2>3
  <1>4. QED
    BY <1>2, <1>3 DEF EventsFine

\* What is said of all of a sequence holds of what is left of it.
LEMMA EventsShorterHolds ==
    ASSUME NEW q \in Seq(Events!Events), NEW r \in Seq(Events!Events), NEW k, EventsShorter(r, q, k)
    PROVE  /\ EventsFine(q) => EventsFine(r)
           /\ \A p, n : EventsOnce(q, p, n) => EventsOnce(r, p, n)
           /\ \A i \in 1..Len(r) : \E j \in 1..Len(q) : r[i] = q[j]
           /\ \A j \in 1..Len(q) : j # k => \E i \in 1..Len(r) : r[i] = q[j]
  <1> DEFINE At(i) == IF i < k THEN i ELSE i + 1
  <1>1. \A i \in 1..Len(r) : At(i) \in 1..Len(q) /\ r[i] = q[At(i)]
    BY DEF EventsShorter
  <1>2. \A i, j \in 1..Len(r) : i < j => At(i) < At(j)
    BY DEF EventsShorter
  <1>3. \A j \in 1..Len(q) : j # k => \E i \in 1..Len(r) : At(i) = j
    <2>1. SUFFICES ASSUME NEW j \in 1..Len(q), j # k PROVE \E i \in 1..Len(r) : At(i) = j
      OBVIOUS
    <2>2. CASE j < k
      BY <2>1, <2>2 DEF EventsShorter
    <2>3. CASE j > k
      <3>1. j - 1 \in 1..Len(r) /\ At(j - 1) = j
        BY <2>1, <2>3 DEF EventsShorter
      <3>2. QED
        BY <3>1
    <2>4. k \in Int /\ j \in Int
      BY DEF EventsShorter
    <2>5. QED
      BY <2>1, <2>2, <2>3, <2>4
  <1> HIDE DEF At
  <1>4. ASSUME EventsFine(q) PROVE EventsFine(r)
    <2>1. ASSUME NEW i \in 1..Len(r), NEW j \in 1..Len(r), i < j, r[i].by = r[j].by
          PROVE  r[i].n <= r[j].n /\ (r[i].n = r[j].n => r[i] = r[j])
      BY <1>1, <1>2, <1>4, <2>1, SMTT(60) DEF EventsFine
    <2>2. ASSUME NEW i \in 1..Len(r), NEW j \in 1..Len(r), NEW k_ \in 1..Len(r), i < j, j < k_,
                 r[i].by = r[j].by, r[j].by = r[k_].by
          PROVE  r[i].n < r[k_].n
      <3>1. /\ At(i) \in 1..Len(q) /\ At(j) \in 1..Len(q) /\ At(k_) \in 1..Len(q)
            /\ r[i] = q[At(i)] /\ r[j] = q[At(j)] /\ r[k_] = q[At(k_)]
            /\ At(i) < At(j) /\ At(j) < At(k_)
        BY <1>1, <1>2, <2>2
      <3>2. QED
        BY <1>4, <2>2, <3>1 DEF EventsFine
    <2>3. QED
      BY <2>1, <2>2 DEF EventsFine
  <1>5. ASSUME NEW p, NEW n, EventsOnce(q, p, n) PROVE EventsOnce(r, p, n)
    BY <1>1, <1>2, <1>5 DEF EventsOnce
  <1>6. \A j \in 1..Len(q) : j # k => \E i \in 1..Len(r) : r[i] = q[j]
    BY <1>1, <1>3
  <1>7. QED
    BY <1>1, <1>4, <1>5, <1>6

\* A stream that has not subscribed yet has only what was replayed.
LEMMA EventsBeforeOrder ==
    ASSUME Events!TypeOK, EventsWired, EventsLogOrder, NEW h \in EventsStreams,
             eventsSpc[h] \in EventsBefore, EventsReplayOf(h)
    PROVE  EventsOrderOf(h)
  <1>1. eventsSent[h] \in Seq(Events!Events) /\ Events!Arriving(h) = eventsSent[h] /\
          eventsSaid \in [EventsProducers -> Nat]
    BY DEF Events!TypeOK, EventsWired, Events!Arriving
  <1>2. \A x \in Events!Events : x.n \in Nat /\ x.by \in EventsProducers
    BY DEF Events!Events
  <1>3. \A i \in 1..Len(eventsSent[h]) : eventsSent[h][i] \in Events!Events /\
          \E m \in 1..Len(eventsLog) : eventsSent[h][i] = eventsLog[m]
    BY <1>1 DEF EventsReplayOf, Events!TypeOK
  <1>4. \A i \in 1..Len(eventsSent[h]) : eventsSent[h][i].n <= eventsSaid[eventsSent[h][i].by]
    BY <1>3 DEF EventsLogOrder
  <1>5. EventsFine(eventsSent[h])
    <2>1. \A i \in 1..Len(eventsSent[h]) : eventsSent[h][i].n \in Nat
      BY <1>2, <1>3
    <2>2. ASSUME NEW i \in 1..Len(eventsSent[h]), NEW j \in 1..Len(eventsSent[h]), i < j,
                 eventsSent[h][i].by = eventsSent[h][j].by
          PROVE  eventsSent[h][i].n < eventsSent[h][j].n
      BY <2>2 DEF EventsReplayOf
    <2>3. ASSUME NEW i \in 1..Len(eventsSent[h]), NEW j \in 1..Len(eventsSent[h]), i < j,
                 eventsSent[h][i].by = eventsSent[h][j].by
          PROVE  eventsSent[h][i].n <= eventsSent[h][j].n /\ eventsSent[h][i].n # eventsSent[h][j].n
      BY <2>1, <2>2, <2>3
    <2>4. ASSUME NEW i \in 1..Len(eventsSent[h]), NEW j \in 1..Len(eventsSent[h]),
                 NEW k \in 1..Len(eventsSent[h]), i < j, j < k,
                 eventsSent[h][i].by = eventsSent[h][j].by,
                   eventsSent[h][j].by = eventsSent[h][k].by
          PROVE  eventsSent[h][i].n < eventsSent[h][k].n
      <3>1. i < k /\ eventsSent[h][i].by = eventsSent[h][k].by
        BY <2>4
      <3>2. QED
        BY <2>2, <3>1
    <2>5. QED
      BY <2>3, <2>4 DEF EventsFine
  <1>6. \A p \in EventsProducers : eventsPpc[p] # "idle" =>
           \A i \in 1..Len(eventsSent[h]) : eventsSent[h][i].by = p /\
             eventsSent[h][i].n = eventsSaid[p] => eventsSent[h][i] = eventsCur[p]
    BY <1>3 DEF EventsLogOrder
  <1>7. ASSUME NEW p \in EventsProducers PROVE EventsOnce(eventsSent[h], p, eventsSaid[p])
    <2>1. SUFFICES ASSUME NEW i \in 1..Len(eventsSent[h]), NEW j \in 1..Len(eventsSent[h]), i < j,
                          eventsSent[h][i].by = p, eventsSent[h][j].by = p
          PROVE  eventsSent[h][i].n < eventsSaid[p]
      BY DEF EventsOnce
    <2>2. eventsSent[h][i].n < eventsSent[h][j].n
      BY <2>1 DEF EventsReplayOf
    <2>3. eventsSent[h][j].n <= eventsSaid[p] /\ eventsSent[h][i].n \in Nat /\
            eventsSent[h][j].n \in Nat /\ eventsSaid[p] \in Nat
      BY <1>1, <1>2, <1>3, <1>4, <2>1
    <2>4. QED
      BY <2>2, <2>3
  <1>8. QED
    BY <1>1, <1>4, <1>5, <1>6, <1>7 DEF EventsOrderOf

\* So the order is right of every stream.
LEMMA EventsAllOrder == ASSUME EventsInv, NEW h \in EventsStreams PROVE EventsOrderOf(h)
  BY EventsBeforeOrder DEF EventsInv, EventsReplayOrder, EventsArrivalOrder

\* What arrives and what is known of it does not change.
LEMMA EventsSameOrder ==
    ASSUME NEW h \in EventsStreams, EventsOrderOf(h), UNCHANGED <<eventsSent[h], eventsCh[h],
             eventsSaid>>,
           \A p \in EventsProducers :
              /\ eventsPpc'[p] # "idle" => eventsPpc[p] # "idle" /\ eventsCur'[p] = eventsCur[p]
              /\ eventsPpc'[p] = "copy" \/ h \in eventsTodo'[p] =>
                   eventsPpc[p] = "copy" \/ h \in eventsTodo[p]
    PROVE  EventsOrderOf(h)'
  <1>1. Events!Arriving(h)' = Events!Arriving(h)
    BY DEF Events!Arriving
  <1>2. QED
    BY <1>1 DEF EventsOrderOf, EventsFine, EventsOnce

\* One event less arrives.
LEMMA EventsShorterOrder ==
    ASSUME Events!TypeOK, NEW h \in EventsStreams, EventsOrderOf(h), NEW k,
             Events!Arriving(h)' \in Seq(Events!Events),
           EventsShorter(Events!Arriving(h)', Events!Arriving(h), k), UNCHANGED eventsSaid,
           \A p \in EventsProducers :
              /\ eventsPpc'[p] # "idle" => eventsPpc[p] # "idle" /\ eventsCur'[p] = eventsCur[p]
              /\ eventsPpc'[p] = "copy" \/ h \in eventsTodo'[p] =>
                   eventsPpc[p] = "copy" \/ h \in eventsTodo[p]
    PROVE  EventsOrderOf(h)'
  <1> DEFINE q == Events!Arriving(h)
  <1>1. q \in Seq(Events!Events)
    BY DEF Events!TypeOK, Events!Arriving
  <1>2. PICK r \in Seq(Events!Events) : r = Events!Arriving(h)'
    OBVIOUS
  <1> HIDE DEF q
  <1>3. /\ EventsFine(q) => EventsFine(r)
        /\ \A p, n : EventsOnce(q, p, n) => EventsOnce(r, p, n)
        /\ \A i \in 1..Len(r) : \E j \in 1..Len(q) : r[i] = q[j]
    BY <1>1, <1>2, EventsShorterHolds DEF q
  <1>4. /\ EventsFine(q)
        /\ \A i \in 1..Len(q) : q[i].n <= eventsSaid[q[i].by]
        /\ \A p \in EventsProducers : eventsPpc[p] # "idle" =>
             \A i \in 1..Len(q) : q[i].by = p /\ q[i].n = eventsSaid[p] => q[i] = eventsCur[p]
        /\ \A p \in EventsProducers : eventsPpc[p] = "copy" \/ h \in eventsTodo[p] =>
             EventsOnce(q, p, eventsSaid[p])
    BY DEF EventsOrderOf, q
  <1>5. /\ EventsFine(r)
        /\ \A i \in 1..Len(r) : r[i].n <= eventsSaid'[r[i].by]
        /\ \A p \in EventsProducers : eventsPpc'[p] # "idle" =>
             \A i \in 1..Len(r) : r[i].by = p /\ r[i].n = eventsSaid'[p] => r[i] = eventsCur'[p]
        /\ \A p \in EventsProducers : eventsPpc'[p] = "copy" \/ h \in eventsTodo'[p] =>
             EventsOnce(r, p, eventsSaid'[p])
    BY <1>3, <1>4
  <1>6. QED
    BY <1>2, <1>5 DEF EventsOrderOf, EventsFine, EventsOnce

\* The event that a producer broadcasts arrives.
LEMMA EventsLongerOrder ==
    ASSUME Events!TypeOK, EventsWired, NEW h \in EventsStreams, EventsOrderOf(h),
             NEW p \in EventsProducers, h \in eventsTodo[p],
           Events!Arriving(h)' \in Seq(Events!Events), EventsLonger(Events!Arriving(h)',
             Events!Arriving(h), eventsCur[p]),
           UNCHANGED <<eventsSaid, eventsCur>>, h \notin eventsTodo'[p], eventsPpc'[p] # "copy",
           \A o \in EventsProducers \ {p} : eventsPpc'[o] = eventsPpc[o] /\
             eventsTodo'[o] = eventsTodo[o]
    PROVE  EventsOrderOf(h)'
  <1> DEFINE q == Events!Arriving(h)
  <1>1. q \in Seq(Events!Events)
    BY DEF Events!TypeOK, Events!Arriving
  <1>2. PICK r \in Seq(Events!Events) : r = Events!Arriving(h)'
    OBVIOUS
  <1> HIDE DEF q
  <1>3. PICK e \in Events!Events : e = eventsCur[p] /\ e.by = p /\ e.n = eventsSaid[p]
    BY DEF EventsWired, Events!TypeOK
  <1>4. /\ EventsFine(q)
        /\ \A i \in 1..Len(q) : q[i].n <= eventsSaid[q[i].by]
        /\ \A o \in EventsProducers : eventsPpc[o] # "idle" =>
             \A i \in 1..Len(q) : q[i].by = o /\ q[i].n = eventsSaid[o] => q[i] = eventsCur[o]
        /\ \A o \in EventsProducers : eventsPpc[o] = "copy" \/ h \in eventsTodo[o] =>
             EventsOnce(q, o, eventsSaid[o])
    BY DEF EventsOrderOf, q
  <1>5. EventsLonger(r, q, e) /\ eventsPpc[p] # "idle"
    BY <1>2, <1>3 DEF q, EventsWired
  <1>6. EventsFine(r)
    BY <1>1, <1>3, <1>4, <1>5, EventsLongerFine
  <1>7. \A i \in 1..Len(r) : (i \in 1..Len(q) /\ r[i] = q[i]) \/ (i = Len(q) + 1 /\ r[i] = e)
    BY <1>1, <1>2, <1>5 DEF EventsLonger
  <1>8. eventsSaid[p] \in Nat
    BY DEF Events!TypeOK
  <1>9. \A i \in 1..Len(r) : r[i].n <= eventsSaid'[r[i].by]
    BY <1>3, <1>4, <1>7, <1>8
  <1>10. ASSUME NEW o \in EventsProducers, eventsPpc'[o] # "idle"
         PROVE  \A i \in 1..Len(r) : r[i].by = o /\ r[i].n = eventsSaid'[o] => r[i] = eventsCur'[o]
    <2>1. CASE o = p
      BY <1>3, <1>4, <1>5, <1>7, <2>1
    <2>2. CASE o # p
      BY <1>3, <1>4, <1>7, <1>10, <2>2
    <2>3. QED
      BY <2>1, <2>2
  <1>11. ASSUME NEW o \in EventsProducers, eventsPpc'[o] = "copy" \/ h \in eventsTodo'[o]
    PROVE EventsOnce(r, o, eventsSaid'[o])
    <2>1. o # p /\ EventsOnce(q, o, eventsSaid[o])
      BY <1>4, <1>11
    <2>2. \A i \in 1..Len(r) : r[i].by = o => i \in 1..Len(q) /\ r[i] = q[i]
      BY <1>3, <1>7, <2>1
    <2>3. QED
      BY <2>1, <2>2 DEF EventsOnce
  <1>12. QED
    BY <1>2, <1>6, <1>9, <1>10, <1>11 DEF EventsOrderOf, EventsFine, EventsOnce

\* A producer has produced its next event.
LEMMA EventsProducedOrder ==
    ASSUME Events!TypeOK, EventsWired, NEW h \in EventsStreams, EventsOrderOf(h),
             NEW p \in EventsProducers, eventsPpc[p] = "idle",
           UNCHANGED <<eventsSent[h], eventsCh[h], eventsTodo>>,
             eventsSaid' = [eventsSaid EXCEPT ![p] = @ + 1],
           eventsPpc'[p] \in {"idle", "copy"},
           \A o \in EventsProducers \ {p} : eventsPpc'[o] = eventsPpc[o] /\
             eventsCur'[o] = eventsCur[o]
    PROVE  EventsOrderOf(h)'
  <1>1. Events!Arriving(h)' = Events!Arriving(h) /\ Events!Arriving(h) \in Seq(Events!Events)
    BY DEF Events!Arriving, Events!TypeOK
  <1>2. PICK q \in Seq(Events!Events) : q = Events!Arriving(h)
    BY <1>1
  <1>3. \A i \in 1..Len(q) : q[i].n \in Nat /\ q[i].by \in EventsProducers
    <2>1. \A i \in 1..Len(q) : q[i] \in Events!Events
      OBVIOUS
    <2>2. \A x \in Events!Events : x.n \in Nat /\ x.by \in EventsProducers
      BY DEF Events!Events
    <2>3. QED
      BY <2>1, <2>2
  <1>4. /\ EventsFine(q)
        /\ \A i \in 1..Len(q) : q[i].n <= eventsSaid[q[i].by]
        /\ \A o \in EventsProducers : eventsPpc[o] # "idle" =>
             \A i \in 1..Len(q) : q[i].by = o /\ q[i].n = eventsSaid[o] => q[i] = eventsCur[o]
        /\ \A o \in EventsProducers : eventsPpc[o] = "copy" \/ h \in eventsTodo[o] =>
             EventsOnce(q, o, eventsSaid[o])
    BY <1>2 DEF EventsOrderOf
  <1>5. /\ eventsSaid \in [EventsProducers -> Nat] /\ eventsSaid'[p] = eventsSaid[p] + 1
        /\ \A o \in EventsProducers \ {p} : eventsSaid'[o] = eventsSaid[o]
        /\ h \notin eventsTodo[p]
    BY DEF Events!TypeOK, EventsWired
  <1>6. \A i \in 1..Len(q) : q[i].n <= eventsSaid'[q[i].by] /\ (q[i].by = p =>
          q[i].n < eventsSaid'[p])
    BY <1>3, <1>4, <1>5
  <1>7. \A o \in EventsProducers : eventsPpc'[o] # "idle" =>
           \A i \in 1..Len(q) : q[i].by = o /\ q[i].n = eventsSaid'[o] => q[i] = eventsCur'[o]
    BY <1>3, <1>4, <1>5, <1>6
  <1>8. \A o \in EventsProducers : eventsPpc'[o] = "copy" \/ h \in eventsTodo'[o] =>
          EventsOnce(q, o, eventsSaid'[o])
    BY <1>3, <1>4, <1>5, <1>6 DEF EventsOnce
  <1>9. QED
    BY <1>1, <1>2, <1>4, <1>6, <1>7, <1>8 DEF EventsOrderOf, EventsFine, EventsOnce

\* Sending, receiving and dropping, on what arrives.
LEMMA EventsSeqFacts ==
    ASSUME NEW s \in Seq(Events!Events), NEW c \in Seq(Events!Events)
    PROVE  /\ s \o c \in Seq(Events!Events)
           /\ \A e \in Events!Events : Append(c, e) \in Seq(Events!Events) /\
                EventsLonger(s \o Append(c, e), s \o c, e)
           /\ c # <<>> =>
                /\ Head(c) \in Events!Events /\ Tail(c) \in Seq(Events!Events) /\
                     Len(Tail(c)) = Len(c) - 1
                /\ EventsShorter(s \o Tail(c), s \o c, Len(s) + 1)
                /\ Append(s, Head(c)) \o Tail(c) = s \o c
  <1>1. \A e \in Events!Events : Append(c, e) \in Seq(Events!Events) /\
          EventsLonger(s \o Append(c, e), s \o c, e)
    BY DEF EventsLonger
  <1>2. ASSUME c # <<>> PROVE EventsShorter(s \o Tail(c), s \o c, Len(s) + 1)
    BY <1>2 DEF EventsShorter
  <1>3. ASSUME c # <<>>
        PROVE  /\ Head(c) \in Events!Events /\ Tail(c) \in Seq(Events!Events) /\
                    Len(Tail(c)) = Len(c) - 1
               /\ Append(s, Head(c)) \o Tail(c) = s \o c
    BY <1>3
  <1>4. s \o c \in Seq(Events!Events)
    OBVIOUS
  <1>5. QED
    BY <1>1, <1>2, <1>3, <1>4

\* What was not missing is not missing.
LEMMA EventsLiveKept ==
    ASSUME NEW h \in EventsStreams, EventsLiveOf(h), UNCHANGED <<eventsAfter[h], eventsCopied[h]>>,
           h \in eventsSubs' /\ ~eventsSpilled'[h] => h \in eventsSubs /\ ~eventsSpilled[h],
           \A i \in 1..Len(Events!Arriving(h)) :
              \/ \E j \in 1..Len(Events!Arriving(h)') :
                    Events!Arriving(h)'[j] = Events!Arriving(h)[i]
              \/ Events!Arriving(h)[i].id \in 1..eventsAfter[h],
           \A p \in EventsProducers : h \in eventsTodo[p] =>
              \/ h \in eventsTodo'[p] /\ eventsCur'[p] = eventsCur[p]
              \/ \E j \in 1..Len(Events!Arriving(h)') : Events!Arriving(h)'[j] = eventsCur[p]
    PROVE  EventsLiveOf(h)'
  <1>1. PICK q, r : q = Events!Arriving(h) /\ r = Events!Arriving(h)'
    OBVIOUS
  <1>2. SUFFICES ASSUME h \in eventsSubs', ~eventsSpilled'[h], NEW e \in eventsCopied[h]
                 PROVE  \/ \E i \in 1..Len(r) : r[i] = e
                        \/ \E p \in EventsProducers : eventsCur'[p] = e /\ h \in eventsTodo'[p]
                        \/ e.id \in 1..eventsAfter[h]
    BY <1>1 DEF EventsLiveOf
  <1>3. \/ \E i \in 1..Len(q) : q[i] = e
        \/ \E p \in EventsProducers : eventsCur[p] = e /\ h \in eventsTodo[p]
        \/ e.id \in 1..eventsAfter[h]
    BY <1>1, <1>2 DEF EventsLiveOf
  <1>4. QED
    BY <1>1, <1>2, <1>3

\* The session before its first event.
LEMMA EventsInitInv == ASSUME EventsBounds, Events!Init PROVE EventsInv
  <1>1. Events!TypeOK
    <2>1. /\ eventsLog \in Seq(Events!Events) /\ eventsFlushed \in 0..Len(eventsLog) /\
               eventsNextID \in Nat \ {0}
          /\ eventsExists \in BOOLEAN /\ eventsPanicked \in BOOLEAN /\
               eventsSubs \in SUBSET EventsStreams
      <3>1. eventsLog = <<>> /\ eventsFlushed = 0 /\ eventsNextID = 1 /\ eventsSubs = {}
        BY DEF Events!Init
      <3>2. eventsExists \in BOOLEAN /\ eventsPanicked \in BOOLEAN
        BY Zenon DEF Events!Init
      <3>3. QED
        BY <3>1, <3>2
    <2>2. /\ eventsSaid \in [EventsProducers -> 0..EventsMaxEvents]
          /\ eventsPpc \in [EventsProducers -> {"idle", "copy", "send", "full", "retry"}]
          /\ eventsCur \in [EventsProducers -> [by : EventsProducers, n : Nat, id : Nat]]
          /\ eventsTodo \in [EventsProducers -> SUBSET EventsStreams]
          /\ eventsAt \in [EventsProducers -> EventsStreams \cup {EventsNoStream}]
      BY DEF Events!Init, EventsBounds
    <2>3. /\ eventsSpc \in [EventsStreams -> {"idle", "replay", "subscribe", "loop", "gone"}]
          /\ eventsAfter \in [EventsStreams -> Nat] /\ eventsRpos \in [EventsStreams -> Nat]
          /\ eventsCh \in [EventsStreams -> Seq(Events!Events)] /\
               eventsSent \in [EventsStreams -> Seq(Events!Events)]
          /\ eventsCopied \in [EventsStreams -> SUBSET Events!Events]
      BY DEF Events!Init
    <2>4. \A h \in EventsStreams : Len(eventsCh[h]) <= EventsCap
      BY DEF Events!Init, EventsBounds
    <2>5. eventsSpilled \in [EventsStreams -> BOOLEAN]
      BY Zenon DEF Events!Init
    <2>6. QED
      BY <2>1, <2>2, <2>3, <2>4, <2>5 DEF Events!TypeOK
  <1>2. EventsWired /\ EventsLogOrder /\ EventsReplayOrder /\ EventsArrivalOrder
    BY DEF Events!Init, EventsWired, EventsLogOrder, EventsReplayOrder, EventsReplayOf,
       EventsArrivalOrder, EventsBefore
  <1>3. EventsLively
    BY DEF Events!Init, EventsLively, EventsLiveOf
  <1>4. QED
    BY <1>1, <1>2, <1>3 DEF EventsInv

\* The log stays, or a new event of p is its next record.
EventsLogs(p) ==
    \/ UNCHANGED <<eventsLog, eventsFlushed>>
    \/ \E id \in Nat :
                       /\ eventsLog' = Append(eventsLog, Events!Says(p, id))
                       /\ eventsFlushed' \in {eventsFlushed, Len(eventsLog')}

\* A producer has produced an event.
LEMMA EventsProducesInv ==
    ASSUME EventsBounds, EventsInv, NEW p \in EventsProducers, Events!Idle(p), EventsLogs(p),
             eventsNextID' \in Nat \ {0},
           UNCHANGED <<eventsExists, eventsTodo, eventsAt, Events!stream, eventsCh, eventsPanicked,
             Events!history>>,
           eventsSaid' = [eventsSaid EXCEPT ![p] = @ + 1],
           \/ UNCHANGED <<eventsPpc, eventsCur>>
           \/ /\ eventsPpc' = [eventsPpc EXCEPT ![p] = "copy"]
              /\ \E id \in Nat :
                   /\ eventsCur' = [eventsCur EXCEPT ![p] = Events!Says(p, id)]
                   /\ UNCHANGED eventsLog \/ eventsLog' = Append(eventsLog, Events!Says(p, id))
    PROVE  EventsInv'
  <1>1. /\ eventsLog \in Seq(Events!Events) /\ eventsFlushed \in 0..Len(eventsLog) /\
             eventsSaid \in [EventsProducers -> 0..EventsMaxEvents]
        /\ eventsSaid[p] < EventsMaxEvents /\ eventsPpc[p] = "idle" /\ eventsTodo[p] = {}
        /\ eventsPpc \in [EventsProducers -> {"idle", "copy", "send", "full", "retry"}]
        /\ eventsCur \in [EventsProducers -> [by : EventsProducers, n : Nat, id : Nat]]
    BY DEF EventsInv, Events!TypeOK, Events!Idle, EventsWired
  <1>2. \A id \in Nat :
                        /\ Events!Says(p, id) \in Events!Events /\ Events!Says(p, id).by = p
                        /\ Events!Says(p, id).n = eventsSaid[p] + 1 /\ Events!Says(p, id).id = id
    BY <1>1 DEF Events!Says, Events!Events
  <1>3. Events!Says(p, 0).n \in Nat /\
          \A id \in Nat : Events!Says(p, id) \in [by : EventsProducers, n : Nat, id : Nat]
    BY <1>1 DEF Events!Says
  <1>4. eventsSaid' \in [EventsProducers -> 0..EventsMaxEvents] /\
          eventsSaid'[p] = eventsSaid[p] + 1
    BY <1>1 DEF EventsBounds
  <1>5. /\ eventsPpc'[p] \in {"idle", "copy"} /\
             eventsPpc' \in [EventsProducers -> {"idle", "copy", "send", "full", "retry"}]
        /\ \A o \in EventsProducers \ {p} : eventsPpc'[o] = eventsPpc[o] /\
             eventsCur'[o] = eventsCur[o] /\ eventsSaid'[o] = eventsSaid[o]
        /\ eventsCur' \in [EventsProducers -> [by : EventsProducers, n : Nat, id : Nat]]
        /\ eventsPpc'[p] # "idle" =>
             eventsCur'[p] \in Events!Events /\ eventsCur'[p].by = p /\
               eventsCur'[p].n = eventsSaid'[p]
    <2>1. CASE UNCHANGED <<eventsPpc, eventsCur>>
      BY <1>1, <1>4, <2>1
    <2>2. ASSUME NEW id \in Nat, eventsPpc' = [eventsPpc EXCEPT ![p] = "copy"],
                 eventsCur' = [eventsCur EXCEPT ![p] = Events!Says(p, id)]
          PROVE  /\ eventsPpc'[p] \in {"idle", "copy"}
                 /\ eventsPpc' \in [EventsProducers -> {"idle", "copy", "send", "full", "retry"}]
                 /\ \A o \in EventsProducers \ {p} :
                      eventsPpc'[o] = eventsPpc[o] /\ eventsCur'[o] = eventsCur[o] /\
                        eventsSaid'[o] = eventsSaid[o]
                 /\ eventsCur' \in [EventsProducers -> [by : EventsProducers, n : Nat, id : Nat]]
                 /\ eventsCur'[p] \in Events!Events /\ eventsCur'[p].by = p /\
                      eventsCur'[p].n = eventsSaid'[p]
      BY <1>1, <1>2, <1>3, <1>4, <2>2
    <2>3. QED
      BY <2>1, <2>2
  <1>6. /\ eventsLog' \in Seq(Events!Events) /\ eventsFlushed' \in 0..Len(eventsLog') /\
             eventsFlushed <= eventsFlushed'
        /\ Len(eventsLog) <= Len(eventsLog') /\
             \A i \in 1..Len(eventsLog) : eventsLog'[i] = eventsLog[i]
        /\ \A i \in 1..Len(eventsLog') :
             i \in 1..Len(eventsLog) \/ (i = Len(eventsLog) + 1 /\
               \E id \in Nat : eventsLog'[i] = Events!Says(p, id))
    <2>1. CASE UNCHANGED <<eventsLog, eventsFlushed>>
      BY <1>1, <2>1
    <2>2. ASSUME NEW id \in Nat, eventsLog' = Append(eventsLog, Events!Says(p, id)),
                   eventsFlushed' \in {eventsFlushed, Len(eventsLog')}
          PROVE  /\ eventsLog' \in Seq(Events!Events) /\ eventsFlushed' \in 0..Len(eventsLog') /\
                      eventsFlushed <= eventsFlushed'
                 /\ Len(eventsLog') = Len(eventsLog) + 1 /\
                      \A i \in 1..Len(eventsLog) : eventsLog'[i] = eventsLog[i]
                 /\ eventsLog'[Len(eventsLog) + 1] = Events!Says(p, id)
      <3>1. Events!Says(p, id) \in Events!Events
        BY <1>2
      <3>2. QED
        BY <1>1, <2>2, <3>1
    <2>3. QED
      BY <1>1, <2>1, <2>2 DEF EventsLogs
  <1>7. Events!TypeOK'
    BY <1>4, <1>5, <1>6 DEF EventsInv, Events!TypeOK, Events!stream, Events!history
  <1>8. EventsWired'
    <2>1. \A o \in EventsProducers :
            /\ eventsPpc'[o] \in {"idle", "copy"} => eventsTodo'[o] = {}
            /\ eventsPpc'[o] \in {"full", "retry"} => eventsAt'[o] \in eventsTodo'[o]
      BY <1>1, <1>5 DEF EventsInv, EventsWired
    <2>2. \A o \in EventsProducers :
            eventsPpc'[o] # "idle" =>
              eventsCur'[o] \in Events!Events /\ eventsCur'[o].by = o /\
                eventsCur'[o].n = eventsSaid'[o]
      BY <1>5 DEF EventsInv, EventsWired
    <2>3. QED
      BY <2>1, <2>2 DEF EventsInv, EventsWired, Events!stream, Events!history
  <1>9. EventsLogOrder'
    <2>1. \A i \in 1..Len(eventsLog) :
                                 /\ eventsLog[i].n <= eventsSaid[eventsLog[i].by]
                                 /\ eventsLog[i].by \in EventsProducers /\ eventsLog[i].n \in Nat
      <3>1. \A i \in 1..Len(eventsLog) : eventsLog[i] \in Events!Events
        BY <1>1
      <3>2. QED
        BY <3>1 DEF EventsInv, EventsLogOrder, Events!Events
    <2>2. \A i \in 1..Len(eventsLog) : eventsLog[i].n <= eventsSaid'[eventsLog[i].by] /\
            (eventsLog[i].by = p => eventsLog[i].n < eventsSaid'[p])
      BY <1>1, <1>4, <1>5, <2>1, SMTT(60)
    <2>3. \A i \in 1..Len(eventsLog') : eventsLog'[i].n <= eventsSaid'[eventsLog'[i].by]
      BY <1>2, <1>4, <1>6, <2>2
    <2>4. ASSUME NEW i \in 1..Len(eventsLog'), NEW j \in 1..Len(eventsLog'), i < j,
                   eventsLog'[i].by = eventsLog'[j].by
          PROVE  eventsLog'[i].n < eventsLog'[j].n
      <3>1. i \in 1..Len(eventsLog)
        BY <1>1, <1>6, <2>4
      <3>2. CASE j \in 1..Len(eventsLog)
        BY <1>6, <2>4, <3>1, <3>2 DEF EventsInv, EventsLogOrder
      <3>3. CASE j = Len(eventsLog) + 1 /\ \E id \in Nat : eventsLog'[j] = Events!Says(p, id)
        <4>1. eventsLog'[j].by = p /\ eventsLog'[j].n = eventsSaid[p] + 1
          BY <1>2, <3>3
        <4>2. eventsLog'[i] = eventsLog[i] /\ eventsLog[i].by = p
          BY <1>6, <2>4, <3>1, <4>1
        <4>3. QED
          BY <1>4, <2>2, <3>1, <4>1, <4>2
      <3>4. QED
        BY <1>6, <3>2, <3>3
    <2>5. ASSUME NEW o \in EventsProducers, eventsPpc'[o] # "idle", NEW i \in 1..Len(eventsLog'),
                   eventsLog'[i].by = o,
                 eventsLog'[i].n = eventsSaid'[o]
          PROVE  eventsLog'[i] = eventsCur'[o]
      <3>1. CASE i \in 1..Len(eventsLog)
        <4>1. o # p
          BY <1>6, <2>1, <2>2, <2>5, <3>1
        <4>2. QED
          BY <1>5, <1>6, <2>5, <3>1, <4>1, SMTT(60) DEF EventsInv, EventsLogOrder
      <3>2. CASE i = Len(eventsLog) + 1 /\ Len(eventsLog') # Len(eventsLog)
        <4>1. o = p
          BY <1>2, <1>6, <2>5, <3>2
        <4>2. PICK id \in Nat :
                                /\ eventsCur' = [eventsCur EXCEPT ![p] = Events!Says(p, id)]
                                /\ UNCHANGED eventsLog \/
                                     eventsLog' = Append(eventsLog, Events!Says(p, id))
          BY <1>1, <2>5, <4>1
        <4>3. eventsLog' = Append(eventsLog, Events!Says(p, id))
          BY <3>2, <4>2
        <4>4. QED
          BY <1>1, <3>2, <4>1, <4>2, <4>3
      <3>3. QED
        BY <1>1, <1>6, <2>5, <3>1, <3>2
    <2>6. QED
      BY <2>3, <2>4, <2>5 DEF EventsLogOrder
  <1>10. EventsReplayOrder'
    <2>1. SUFFICES ASSUME NEW h \in EventsStreams, eventsSpc[h] \in EventsBefore
      PROVE EventsReplayOf(h)'
      BY DEF EventsReplayOrder, Events!stream
    <2>2. EventsReplayOf(h) /\ eventsRpos[h] \in Nat
      BY <2>1 DEF EventsInv, EventsReplayOrder, Events!TypeOK
    <2>3. eventsRpos'[h] = eventsRpos[h] /\ eventsSent'[h] = eventsSent[h]
      BY DEF Events!stream
    <2>4. \A m \in 1..eventsRpos[h] : m \in 1..Len(eventsLog) /\ eventsLog'[m] = eventsLog[m]
      BY <1>1, <1>6, <2>2 DEF EventsReplayOf
    <2>5. QED
      BY <1>1, <1>6, <2>2, <2>3, <2>4 DEF EventsReplayOf
  <1>11. EventsArrivalOrder'
    <2>1. SUFFICES ASSUME NEW h \in EventsStreams PROVE EventsOrderOf(h)'
      BY DEF EventsArrivalOrder
    <2>2. EventsOrderOf(h) /\ UNCHANGED <<eventsSent[h], eventsCh[h], eventsTodo>>
      BY EventsAllOrder DEF Events!stream
    <2>3. QED
      BY <1>1, <1>5, <2>2, EventsProducedOrder DEF EventsInv
  <1>12. EventsLively'
    <2>1. SUFFICES ASSUME NEW h \in EventsStreams PROVE EventsLiveOf(h)'
      BY DEF EventsLively
    <2>2. Events!Arriving(h)' = Events!Arriving(h) /\ EventsLiveOf(h)
      BY DEF Events!Arriving, Events!stream, EventsInv, EventsLively
    <2>3. \A o \in EventsProducers : h \in eventsTodo[o] =>
            h \in eventsTodo'[o] /\ eventsCur'[o] = eventsCur[o]
      BY <1>1, <1>5
    <2>4. QED
      BY <2>2, <2>3, EventsLiveKept DEF Events!stream, Events!history
  <1>13. QED
    BY <1>7, <1>8, <1>9, <1>10, <1>11, <1>12 DEF EventsInv

\* A producer appends an event.
LEMMA EventsAppendEventInv == ASSUME EventsBounds, EventsInv, NEW p \in EventsProducers,
  Events!AppendEvent(p) PROVE EventsInv'
  <1>1. eventsNextID \in Nat
    BY DEF EventsInv, Events!TypeOK
  <1>2. EventsLogs(p) /\ eventsNextID' \in Nat \ {0}
    BY <1>1 DEF Events!AppendEvent, EventsLogs
  <1>3. QED
    BY <1>1, <1>2, EventsProducesInv DEF Events!AppendEvent, Events!Produce

\* An Append fails.
LEMMA EventsAppendFailsInv == ASSUME EventsBounds, EventsInv, NEW p \in EventsProducers,
  Events!AppendFails(p) PROVE EventsInv'
  <1>1. eventsNextID \in Nat \ {0}
    BY DEF EventsInv, Events!TypeOK
  <1>2. EventsLogs(p) /\ eventsNextID' \in Nat \ {0}
    BY <1>1 DEF Events!AppendFails, EventsLogs
  <1>3. QED
    BY <1>2, EventsProducesInv DEF Events!AppendFails

\* A delta is produced.
LEMMA EventsEphemeralInv == ASSUME EventsBounds, EventsInv, NEW p \in EventsProducers,
  Events!BroadcastEphemeral(p) PROVE EventsInv'
  <1>1. eventsNextID \in Nat \ {0}
    BY DEF EventsInv, Events!TypeOK
  <1>2. EventsLogs(p) /\ eventsNextID' \in Nat \ {0}
    BY <1>1 DEF Events!BroadcastEphemeral, EventsLogs, Events!store
  <1>3. QED
    BY <1>2, EventsProducesInv DEF Events!BroadcastEphemeral, Events!Produce, Events!store

\* The targets are copied.
LEMMA EventsCopyTargetsInv == ASSUME EventsInv, NEW p \in EventsProducers,
  Events!CopyTargets(p) PROVE EventsInv'
  <1>1. /\ eventsPpc[p] = "copy" /\ eventsTodo' = [eventsTodo EXCEPT ![p] = eventsSubs]
        /\ eventsPpc' = [eventsPpc EXCEPT ![p] = IF eventsSubs = {} THEN "idle" ELSE "send"]
        /\ eventsCopied' =
             [h \in EventsStreams |-> IF h \in eventsSubs THEN eventsCopied[h] \cup {eventsCur[p]} ELSE eventsCopied[h]]
        /\ UNCHANGED <<Events!store, eventsSaid, eventsCur, eventsAt, Events!stream, eventsCh,
             eventsPanicked, eventsSpilled>>
    BY DEF Events!CopyTargets
  <1>2. eventsCur[p] \in Events!Events /\ eventsSubs \in SUBSET EventsStreams
    BY <1>1 DEF EventsInv, EventsWired, Events!TypeOK
  <1>3. Events!TypeOK'
    BY <1>1, <1>2 DEF EventsInv, Events!TypeOK, Events!store, Events!stream
  <1>4. EventsWired'
    <2>1. \A o \in EventsProducers :
            /\ eventsPpc'[o] \in {"idle", "copy"} => eventsTodo'[o] = {}
            /\ eventsPpc'[o] \in {"full", "retry"} => eventsAt'[o] \in eventsTodo'[o]
            /\ eventsPpc'[o] # "idle" =>
                 eventsCur'[o] \in Events!Events /\ eventsCur'[o].by = o /\
                   eventsCur'[o].n = eventsSaid'[o]
      BY <1>1 DEF EventsInv, EventsWired, Events!TypeOK
    <2>2. \A h \in EventsStreams :
            eventsSpc[h] \in EventsBefore =>
               eventsCh[h] = <<>> /\ eventsCopied'[h] = {} /\
                 \A o \in EventsProducers : h \notin eventsTodo'[o]
      BY <1>1 DEF EventsInv, EventsWired, Events!TypeOK, EventsBefore
    <2>3. QED
      BY <1>1, <2>1, <2>2 DEF EventsInv, EventsWired, Events!stream
  <1>5. \A o \in EventsProducers : eventsPpc'[o] # "idle" => eventsPpc[o] # "idle"
    BY <1>1 DEF EventsInv, Events!TypeOK
  <1>6. EventsLogOrder' /\ EventsReplayOrder'
    BY <1>1, <1>5 DEF EventsInv, EventsLogOrder, EventsReplayOrder, EventsReplayOf, Events!store,
       Events!stream
  <1>7. EventsArrivalOrder'
    <2>1. SUFFICES ASSUME NEW h \in EventsStreams PROVE EventsOrderOf(h)'
      BY DEF EventsArrivalOrder
    <2>2. EventsOrderOf(h) /\ UNCHANGED <<eventsSent[h], eventsCh[h]>>
      BY <1>1, EventsAllOrder DEF Events!stream
    <2>3. \A o \in EventsProducers : eventsPpc'[o] = "copy" \/ h \in eventsTodo'[o] =>
            eventsPpc[o] = "copy" \/ h \in eventsTodo[o]
      BY <1>1 DEF EventsInv, Events!TypeOK
    <2>4. QED
      BY <1>1, <1>5, <2>2, <2>3, EventsSameOrder
  <1>8. EventsLively'
    <2>1. SUFFICES ASSUME NEW h \in EventsStreams, h \in eventsSubs', ~eventsSpilled'[h],
                     NEW e \in eventsCopied'[h]
                   PROVE  \/ \E i \in 1..Len(Events!Arriving(h)) : Events!Arriving(h)[i] = e
                          \/ \E o \in EventsProducers : eventsCur[o] = e /\ h \in eventsTodo'[o]
                          \/ e.id \in 1..eventsAfter[h]
      BY <1>1 DEF EventsLively, EventsLiveOf, Events!Arriving, Events!stream
    <2>2. h \in eventsSubs /\ ~eventsSpilled[h] /\ EventsLiveOf(h)
      BY <1>1, <2>1, Zenon DEF EventsInv, EventsLively, Events!stream
    <2>3. \A o \in EventsProducers : h \in eventsTodo[o] => h \in eventsTodo'[o]
      BY <1>1 DEF EventsInv, EventsWired, Events!TypeOK
    <2>4. h \in eventsTodo'[p]
      BY <1>1, <2>2 DEF EventsInv, Events!TypeOK
    <2>5. CASE e = eventsCur[p]
      BY <2>4, <2>5
    <2>6. CASE e \in eventsCopied[h]
      BY <2>2, <2>3, <2>6 DEF EventsLiveOf
    <2>7. QED
      BY <1>1, <2>1, <2>5, <2>6
  <1>9. QED
    BY <1>3, <1>4, <1>6, <1>7, <1>8 DEF EventsInv

\* Producer p has served h: it is through with h, whatever has become of its channel.
LEMMA EventsServedFacts ==
    ASSUME EventsInv, NEW p \in EventsProducers, NEW h \in eventsTodo[p], Events!Served(p, h)
    PROVE  /\ h \in EventsStreams /\ h \notin eventsTodo'[p] /\ eventsPpc'[p] # "copy" /\
                UNCHANGED <<eventsSaid, eventsCur>>
           /\ \A o \in EventsProducers \ {p} : eventsPpc'[o] = eventsPpc[o] /\
                eventsTodo'[o] = eventsTodo[o] /\ eventsAt'[o] = eventsAt[o]
           /\ \A o \in EventsProducers :
                                   /\ \A g \in eventsTodo'[o] : g \in eventsTodo[o]
                                   /\ eventsPpc'[o] # "idle" => eventsPpc[o] # "idle"
                                   /\ eventsPpc'[o] = "copy" => eventsPpc[o] = "copy"
           /\ \A g \in eventsTodo[p] : g # h => g \in eventsTodo'[p]
           /\ eventsPpc' \in [EventsProducers -> {"idle", "copy", "send", "full", "retry"}]
           /\ eventsTodo' \in [EventsProducers -> SUBSET EventsStreams]
           /\ eventsAt' \in [EventsProducers -> EventsStreams \cup {EventsNoStream}]
           /\ \A o \in EventsProducers :
                /\ eventsPpc'[o] \in {"idle", "copy"} => eventsTodo'[o] = {}
                /\ eventsPpc'[o] \in {"full", "retry"} => eventsAt'[o] \in eventsTodo'[o]
                /\ eventsPpc'[o] # "idle" =>
                     eventsCur'[o] \in Events!Events /\ eventsCur'[o].by = o /\
                       eventsCur'[o].n = eventsSaid'[o]
  <1>1. /\ eventsTodo' = [eventsTodo EXCEPT ![p] = @ \ {h}]
        /\ eventsPpc' = [eventsPpc EXCEPT ![p] = IF eventsTodo[p] = {h} THEN "idle" ELSE "send"]
        /\ eventsAt' = [eventsAt EXCEPT ![p] = EventsNoStream] /\
             UNCHANGED <<eventsSaid, eventsCur>>
    BY DEF Events!Served
  <1>2. /\ eventsTodo \in [EventsProducers -> SUBSET EventsStreams] /\
             eventsAt \in [EventsProducers -> EventsStreams \cup {EventsNoStream}]
        /\ eventsPpc \in [EventsProducers -> {"idle", "copy", "send", "full", "retry"}]
        /\ h \in EventsStreams /\ eventsPpc[p] \notin {"idle", "copy"}
    BY DEF EventsInv, Events!TypeOK, EventsWired
  <1>3. /\ eventsTodo'[p] = eventsTodo[p] \ {h} /\ eventsPpc'[p] \in {"idle", "send"}
        /\ \A o \in EventsProducers \ {p} : eventsPpc'[o] = eventsPpc[o] /\
             eventsTodo'[o] = eventsTodo[o] /\ eventsAt'[o] = eventsAt[o]
        /\ eventsPpc'[p] = "idle" => eventsTodo'[p] = {}
    BY <1>1, <1>2
  <1>4. /\ eventsPpc' \in [EventsProducers -> {"idle", "copy", "send", "full", "retry"}]
        /\ eventsTodo' \in [EventsProducers -> SUBSET EventsStreams]
        /\ eventsAt' \in [EventsProducers -> EventsStreams \cup {EventsNoStream}]
    BY <1>1, <1>2
  <1>5. \A o \in EventsProducers :
           /\ eventsPpc'[o] \in {"idle", "copy"} => eventsTodo'[o] = {}
           /\ eventsPpc'[o] \in {"full", "retry"} => eventsAt'[o] \in eventsTodo'[o]
           /\ eventsPpc'[o] # "idle" =>
                eventsCur'[o] \in Events!Events /\ eventsCur'[o].by = o /\
                  eventsCur'[o].n = eventsSaid'[o]
    BY <1>1, <1>2, <1>3 DEF EventsInv, EventsWired
  <1>6. QED
    BY <1>1, <1>2, <1>3, <1>4, <1>5

\* A broadcast goes on: the log and the streams stay, and some channel gets or loses an event.
LEMMA EventsBroadcastInv ==
    ASSUME EventsInv, UNCHANGED <<Events!store, eventsSaid, eventsCur, Events!stream,
             eventsCopied>>, eventsPanicked' \in BOOLEAN,
           eventsCh' \in [EventsStreams -> Seq(Events!Events)],
             \A h \in EventsStreams : Len(eventsCh'[h]) <= EventsCap,
           \A h \in EventsStreams : eventsSpc[h] \in EventsBefore => eventsCh'[h] = eventsCh[h],
           eventsSpilled' \in [EventsStreams -> BOOLEAN],
           eventsPpc' \in [EventsProducers -> {"idle", "copy", "send", "full", "retry"}],
           eventsTodo' \in [EventsProducers -> SUBSET EventsStreams],
           eventsAt' \in [EventsProducers -> EventsStreams \cup {EventsNoStream}],
           \A o \in EventsProducers :
              /\ \A g \in eventsTodo'[o] : g \in eventsTodo[o]
              /\ eventsPpc'[o] # "idle" => eventsPpc[o] # "idle"
              /\ eventsPpc'[o] \in {"idle", "copy"} => eventsTodo'[o] = {}
              /\ eventsPpc'[o] \in {"full", "retry"} => eventsAt'[o] \in eventsTodo'[o],
           \A h \in EventsStreams : EventsOrderOf(h)' /\ EventsLiveOf(h)'
    PROVE  EventsInv'
  <1>1. Events!TypeOK'
    BY DEF EventsInv, Events!TypeOK, Events!store, Events!stream
  <1>2. EventsWired'
    <2>1. \A o \in EventsProducers :
            eventsPpc'[o] # "idle" =>
              eventsCur'[o] \in Events!Events /\ eventsCur'[o].by = o /\
                eventsCur'[o].n = eventsSaid'[o]
      BY DEF EventsInv, EventsWired
    <2>2. \A h \in EventsStreams :
            eventsSpc[h] \in EventsBefore =>
               eventsCh'[h] = <<>> /\ eventsCopied[h] = {} /\
                 \A o \in EventsProducers : h \notin eventsTodo'[o]
      BY DEF EventsInv, EventsWired
    <2>3. QED
      BY <2>1, <2>2 DEF EventsInv, EventsWired, Events!stream
  <1>3. EventsLogOrder' /\ EventsReplayOrder'
    <2>1. EventsLogOrder'
      BY DEF EventsInv, EventsLogOrder, Events!store
    <2>2. EventsReplayOrder'
      BY DEF EventsInv, EventsReplayOrder, EventsReplayOf, Events!store, Events!stream
    <2>3. QED
      BY <2>1, <2>2
  <1>4. EventsArrivalOrder' /\ EventsLively'
    BY DEF EventsArrivalOrder, EventsLively
  <1>5. QED
    BY <1>1, <1>2, <1>3, <1>4 DEF EventsInv

\* A channel that is not touched.
LEMMA EventsOtherStream ==
    ASSUME EventsInv, NEW h \in EventsStreams, UNCHANGED <<eventsSaid, eventsCur, Events!stream,
             eventsCopied>>, eventsCh'[h] = eventsCh[h],
           ~eventsSpilled'[h] => ~eventsSpilled[h],
           \A o \in EventsProducers :
              /\ \A g \in eventsTodo'[o] : g \in eventsTodo[o]
              /\ eventsPpc'[o] # "idle" => eventsPpc[o] # "idle"
              /\ eventsPpc'[o] = "copy" => eventsPpc[o] = "copy",
           \/ eventsSpilled'[h] \/ eventsSpc[h] = "gone"
           \/ \A o \in EventsProducers : h \in eventsTodo[o] => h \in eventsTodo'[o]
    PROVE  EventsOrderOf(h)' /\ EventsLiveOf(h)'
  <1>1. EventsOrderOf(h)'
    BY EventsAllOrder, EventsSameOrder DEF Events!stream
  <1>2. Events!Arriving(h)' = Events!Arriving(h) /\ EventsLiveOf(h)
    BY DEF Events!Arriving, Events!stream, EventsInv, EventsLively
  <1>3. EventsLiveOf(h)'
    <2>1. CASE eventsSpilled'[h] \/ eventsSpc[h] = "gone"
      BY <2>1 DEF EventsLiveOf, EventsInv, EventsWired, Events!stream
    <2>2. CASE \A o \in EventsProducers : h \in eventsTodo[o] => h \in eventsTodo'[o]
      BY <1>2, <2>2, EventsLiveKept DEF Events!stream
    <2>3. QED
      BY <2>1, <2>2
  <1>4. QED
    BY <1>1, <1>3

\* Nothing is sent: nobody is told and nothing is lost.
LEMMA EventsPausesInv ==
    ASSUME EventsInv, NEW p \in EventsProducers, NEW to \in {"full", "retry"},
             eventsPpc[p] # "idle",
           UNCHANGED <<Events!store, eventsSaid, eventsCur, eventsTodo, Events!stream, eventsCh,
             eventsPanicked, Events!history>>,
           eventsPpc' = [eventsPpc EXCEPT ![p] = to],
             eventsAt' \in [EventsProducers -> EventsStreams \cup {EventsNoStream}],
           eventsAt'[p] \in eventsTodo[p],
             \A o \in EventsProducers \ {p} : eventsAt'[o] = eventsAt[o]
    PROVE  EventsInv'
  <1>1. /\ eventsPpc' \in [EventsProducers -> {"idle", "copy", "send", "full", "retry"}]
        /\ eventsPpc'[p] = to /\ \A o \in EventsProducers \ {p} : eventsPpc'[o] = eventsPpc[o]
    BY DEF EventsInv, Events!TypeOK
  <1>2. \A h \in EventsStreams : EventsOrderOf(h)' /\ EventsLiveOf(h)'
    BY <1>1, EventsOtherStream DEF Events!history
  <1>3. \A o \in EventsProducers :
           /\ eventsPpc'[o] \in {"idle", "copy"} => eventsTodo'[o] = {}
           /\ eventsPpc'[o] \in {"full", "retry"} => eventsAt'[o] \in eventsTodo'[o]
    BY <1>1 DEF EventsInv, EventsWired
  <1>4. QED
    BY <1>1, <1>2, <1>3, EventsBroadcastInv DEF EventsInv, Events!TypeOK, Events!history

\* A send on the channel of h.
LEMMA EventsSendOnInv ==
    ASSUME EventsInv, NEW p \in EventsProducers, NEW h \in eventsTodo[p], Events!Closed(h) \/
             Len(eventsCh[h]) < EventsCap,
           Events!SendOn(p, h), EventsCap \in Nat, UNCHANGED <<Events!store, Events!stream,
             Events!history>>
    PROVE  EventsInv'
  <1>1. CASE Events!Closed(h)
    <2>1. eventsPanicked' = TRUE /\ UNCHANGED <<Events!producer, eventsCh>>
      BY <1>1 DEF Events!SendOn
    <2>2. eventsPanicked' \in BOOLEAN
      BY <2>1, Zenon
    <2>3. \A g \in EventsStreams : EventsOrderOf(g)' /\ EventsLiveOf(g)'
      BY <2>1, EventsOtherStream DEF Events!producer, Events!history
    <2>4. QED
      BY <2>1, <2>2, <2>3, EventsBroadcastInv DEF EventsInv, Events!TypeOK, EventsWired,
         Events!producer, Events!history
  <1>2. CASE ~Events!Closed(h)
    <2>1. eventsCh' = [eventsCh EXCEPT ![h] = Append(@, eventsCur[p])] /\ Events!Served(p, h) /\
            UNCHANGED eventsPanicked
      BY <1>2 DEF Events!SendOn
    <2>2. /\ h \in EventsStreams /\ eventsCh[h] \in Seq(Events!Events) /\
               eventsSent[h] \in Seq(Events!Events)
          /\ eventsCur[p] \in Events!Events /\ eventsSpc[h] \notin EventsBefore
      BY DEF EventsInv, Events!TypeOK, EventsWired
    <2>3. /\ h \notin eventsTodo'[p] /\ eventsPpc'[p] # "copy" /\
               UNCHANGED <<eventsSaid, eventsCur>>
          /\ \A o \in EventsProducers \ {p} : eventsPpc'[o] = eventsPpc[o] /\
               eventsTodo'[o] = eventsTodo[o] /\ eventsAt'[o] = eventsAt[o]
          /\ \A o \in EventsProducers :
                                  /\ \A g \in eventsTodo'[o] : g \in eventsTodo[o]
                                  /\ eventsPpc'[o] # "idle" => eventsPpc[o] # "idle"
                                  /\ eventsPpc'[o] = "copy" => eventsPpc[o] = "copy"
          /\ \A g \in eventsTodo[p] : g # h => g \in eventsTodo'[p]
      BY <2>1, EventsServedFacts
    <2>4. /\ Append(eventsCh[h], eventsCur[p]) \in Seq(Events!Events) /\
               eventsCh'[h] = Append(eventsCh[h], eventsCur[p])
          /\ \A g \in EventsStreams \ {h} : eventsCh'[g] = eventsCh[g]
          /\ Events!Arriving(h) \in Seq(Events!Events) /\ Events!Arriving(h)' \in Seq(Events!Events)
          /\ EventsLonger(Events!Arriving(h)', Events!Arriving(h), eventsCur[p])
      <3>1. Append(eventsCh[h], eventsCur[p]) \in Seq(Events!Events)
        BY <2>2, EventsSeqFacts
      <3>2. eventsCh'[h] = Append(eventsCh[h], eventsCur[p]) /\
              \A g \in EventsStreams \ {h} : eventsCh'[g] = eventsCh[g]
        BY <2>1, <2>2 DEF EventsInv, Events!TypeOK
      <3>3. Events!Arriving(h) = eventsSent[h] \o eventsCh[h] /\
              Events!Arriving(h)' = eventsSent[h] \o Append(eventsCh[h], eventsCur[p])
        BY <3>2 DEF Events!Arriving, Events!stream
      <3>4. eventsSent[h] \o eventsCh[h] \in Seq(Events!Events) /\
              eventsSent[h] \o Append(eventsCh[h], eventsCur[p]) \in Seq(Events!Events)
        BY <2>2, <3>1
      <3>5. EventsLonger(eventsSent[h] \o Append(eventsCh[h], eventsCur[p]),
              eventsSent[h] \o eventsCh[h], eventsCur[p])
        BY <2>2, EventsSeqFacts
      <3>6. QED
        BY <3>1, <3>2, <3>3, <3>4, <3>5
    <2>5. EventsOrderOf(h)'
      <3>1. EventsOrderOf(h) /\ Events!TypeOK /\ EventsWired
        BY <2>2, EventsAllOrder DEF EventsInv
      <3>2. QED
        BY <2>2, <2>3, <2>4, <3>1, EventsLongerOrder
    <2>6. EventsLiveOf(h)'
      <3>1. /\ \A i \in 1..Len(Events!Arriving(h)) :
                 i \in 1..Len(Events!Arriving(h)') /\ Events!Arriving(h)'[i] = Events!Arriving(h)[i]
            /\ Len(Events!Arriving(h)) + 1 \in 1..Len(Events!Arriving(h)')
            /\ Events!Arriving(h)'[Len(Events!Arriving(h)) + 1] = eventsCur[p]
        BY <2>4 DEF EventsLonger
      <3>2. \A i \in 1..Len(Events!Arriving(h)) :
              \E j \in 1..Len(Events!Arriving(h)') : Events!Arriving(h)'[j] = Events!Arriving(h)[i]
        BY <3>1
      <3>3. \E j \in 1..Len(Events!Arriving(h)') : Events!Arriving(h)'[j] = eventsCur[p]
        BY <3>1
      <3>4. \A o \in EventsProducers : h \in eventsTodo[o] =>
               \/ h \in eventsTodo'[o] /\ eventsCur'[o] = eventsCur[o]
               \/ \E j \in 1..Len(Events!Arriving(h)') : Events!Arriving(h)'[j] = eventsCur[o]
        BY <2>3, <3>3
      <3>5. EventsLiveOf(h) /\
              UNCHANGED <<eventsAfter[h], eventsCopied[h], eventsSubs, eventsSpilled>>
        BY <2>2 DEF EventsInv, EventsLively, Events!stream, Events!history
      <3>6. QED
        BY <2>2, <3>2, <3>4, <3>5, EventsLiveKept
    <2>7. \A g \in EventsStreams : EventsOrderOf(g)' /\ EventsLiveOf(g)'
      <3>1. ASSUME NEW g \in EventsStreams, g # h PROVE EventsOrderOf(g)' /\ EventsLiveOf(g)'
        BY <2>3, <2>4, <3>1, EventsOtherStream DEF Events!history
      <3>2. QED
        BY <2>5, <2>6, <3>1
    <2>8. /\ eventsCh' \in [EventsStreams -> Seq(Events!Events)] /\
               \A g \in EventsStreams : Len(eventsCh'[g]) <= EventsCap
          /\ \A g \in EventsStreams : eventsSpc[g] \in EventsBefore => eventsCh'[g] = eventsCh[g]
      <3>1. eventsCh' \in [EventsStreams -> Seq(Events!Events)]
        BY <2>1, <2>4 DEF EventsInv, Events!TypeOK
      <3>2. Len(eventsCh'[h]) = Len(eventsCh[h]) + 1 /\ Len(eventsCh[h]) \in Nat
        BY <2>2, <2>4
      <3>3. Len(eventsCh'[h]) <= EventsCap
        BY <1>2, <3>2
      <3>4. QED
        BY <2>2, <2>4, <3>1, <3>3 DEF EventsInv, Events!TypeOK
    <2>9. QED
      BY <2>1, <2>3, <2>7, <2>8, EventsBroadcastInv, EventsServedFacts DEF EventsInv,
         Events!TypeOK, Events!history
  <1>3. QED
    BY <1>1, <1>2

\* The first try.
LEMMA EventsTrySendInv ==
    ASSUME EventsInv, EventsCap \in Nat, NEW p \in EventsProducers, NEW h \in EventsStreams,
             Events!TrySend(p, h) PROVE EventsInv'
  <1>1. eventsPpc[p] = "send" /\ h \in eventsTodo[p] /\
          UNCHANGED <<Events!store, Events!stream, Events!history>>
    BY DEF Events!TrySend
  <1>2. CASE Events!Closed(h) \/ Len(eventsCh[h]) < EventsCap
    BY <1>1, <1>2, EventsSendOnInv DEF Events!TrySend
  <1>3. CASE ~(Events!Closed(h) \/ Len(eventsCh[h]) < EventsCap)
    <2>1. /\ eventsPpc' = [eventsPpc EXCEPT ![p] = "full"] /\ eventsAt' = [eventsAt EXCEPT ![p] = h]
          /\ UNCHANGED <<eventsSaid, eventsCur, eventsTodo, eventsCh, eventsPanicked>>
      BY <1>3 DEF Events!TrySend
    <2>2. /\ eventsAt' \in [EventsProducers -> EventsStreams \cup {EventsNoStream}] /\
               eventsAt'[p] = h
          /\ \A o \in EventsProducers \ {p} : eventsAt'[o] = eventsAt[o]
      BY <2>1 DEF EventsInv, Events!TypeOK
    <2>3. QED
      BY <1>1, <2>1, <2>2, EventsPausesInv
  <1>4. QED
    BY <1>2, <1>3

\* The oldest event makes room.
LEMMA EventsDropOldestInv == ASSUME EventsInv, EventsCap \in Nat, NEW p \in EventsProducers,
  Events!DropOldest(p) PROVE EventsInv'
  <1>1. PICK h \in EventsStreams :
          /\ eventsPpc[p] = "full" /\ h = eventsAt[p] /\ h \in eventsTodo[p]
          /\ eventsCh' = IF eventsCh[h] = <<>> THEN eventsCh ELSE [eventsCh EXCEPT ![h] = Tail(@)]
          /\ eventsSpilled' = [eventsSpilled EXCEPT ![h] = @ \/ eventsCh[h] # <<>>]
          /\ eventsPpc' = [eventsPpc EXCEPT ![p] = "retry"]
          /\ UNCHANGED <<Events!store, eventsSaid, eventsCur, eventsTodo, eventsAt, Events!stream,
               eventsPanicked, eventsCopied>>
    BY DEF Events!DropOldest, EventsInv, EventsWired, Events!TypeOK
  <1>2. /\ eventsSpilled' \in [EventsStreams -> BOOLEAN] /\ (eventsCh[h] # <<>> =>
             eventsSpilled'[h])
        /\ \A g \in EventsStreams : ~eventsSpilled'[g] => ~eventsSpilled[g]
    BY <1>1, Zenon DEF EventsInv, Events!TypeOK
  <1>3. /\ eventsPpc' \in [EventsProducers -> {"idle", "copy", "send", "full", "retry"}]
        /\ eventsPpc'[p] = "retry" /\ \A o \in EventsProducers \ {p} : eventsPpc'[o] = eventsPpc[o]
    BY <1>1 DEF EventsInv, Events!TypeOK
  <1>4. eventsCh \in [EventsStreams -> Seq(Events!Events)] /\ eventsCh[h] \in Seq(Events!Events) /\
          eventsSent[h] \in Seq(Events!Events)
        /\ eventsSpc[h] \notin EventsBefore
    BY <1>1 DEF EventsInv, Events!TypeOK, EventsWired
  <1>5. \A g \in EventsStreams : g # h \/ eventsCh[h] = <<>> => eventsCh'[g] = eventsCh[g]
    BY <1>1, <1>4
  <1>6. \A g \in EventsStreams : g # h \/ eventsCh[h] = <<>> =>
          EventsOrderOf(g)' /\ EventsLiveOf(g)'
    BY <1>1, <1>2, <1>3, <1>5, EventsOtherStream
  <1>7. ASSUME eventsCh[h] # <<>>
    PROVE EventsOrderOf(h)' /\ EventsLiveOf(h)' /\ eventsCh'[h] = Tail(eventsCh[h])
    <2>1. eventsCh'[h] = Tail(eventsCh[h])
      BY <1>1, <1>4, <1>7
    <2>2. Events!Arriving(h) = eventsSent[h] \o eventsCh[h] /\
            Events!Arriving(h)' = eventsSent[h] \o Tail(eventsCh[h])
      BY <1>1, <2>1 DEF Events!Arriving, Events!stream
    <2>3. /\ Tail(eventsCh[h]) \in Seq(Events!Events)
          /\ EventsShorter(eventsSent[h] \o Tail(eventsCh[h]), eventsSent[h] \o eventsCh[h],
               Len(eventsSent[h]) + 1)
      BY <1>4, <1>7, EventsSeqFacts
    <2>4. Events!Arriving(h)' \in Seq(Events!Events) /\
            EventsShorter(Events!Arriving(h)', Events!Arriving(h), Len(eventsSent[h]) + 1)
      BY <1>4, <2>2, <2>3, EventsSeqFacts
    <2>5. EventsOrderOf(h) /\ Events!TypeOK
      BY EventsAllOrder DEF EventsInv
    <2>6. EventsOrderOf(h)'
      BY <1>1, <1>3, <2>4, <2>5, EventsShorterOrder
    <2>7. EventsLiveOf(h)'
      BY <1>2, <1>7 DEF EventsLiveOf
    <2>8. QED
      BY <2>1, <2>6, <2>7
  <1>8. /\ eventsCh' \in [EventsStreams -> Seq(Events!Events)] /\
             \A g \in EventsStreams : Len(eventsCh'[g]) <= EventsCap
        /\ \A g \in EventsStreams : eventsSpc[g] \in EventsBefore => eventsCh'[g] = eventsCh[g]
    <2>1. CASE eventsCh[h] = <<>>
      BY <1>1, <2>1 DEF EventsInv, Events!TypeOK
    <2>2. CASE eventsCh[h] # <<>>
      <3>1. Tail(eventsCh[h]) \in Seq(Events!Events) /\ Len(Tail(eventsCh[h])) <= Len(eventsCh[h])
        BY <1>4, <2>2
      <3>2. Len(Tail(eventsCh[h])) <= EventsCap /\
              \A g \in EventsStreams : Len(eventsCh[g]) <= EventsCap
        BY <1>4, <3>1 DEF EventsInv, Events!TypeOK
      <3>3. QED
        BY <1>1, <1>4, <1>5, <1>7, <2>2, <3>1, <3>2
    <2>3. QED
      BY <2>1, <2>2
  <1>9. \A o \in EventsProducers :
           /\ eventsPpc'[o] # "idle" => eventsPpc[o] # "idle"
           /\ eventsPpc'[o] \in {"idle", "copy"} => eventsTodo'[o] = {}
           /\ eventsPpc'[o] \in {"full", "retry"} => eventsAt'[o] \in eventsTodo'[o]
    BY <1>1, <1>3 DEF EventsInv, EventsWired
  <1>10. QED
    BY <1>1, <1>2, <1>3, <1>6, <1>7, <1>8, <1>9, EventsBroadcastInv, SMTT(60) DEF EventsInv,
       Events!TypeOK

\* The last try.
LEMMA EventsRetryInv == ASSUME EventsInv, EventsCap \in Nat, NEW p \in EventsProducers,
  Events!Retry(p) PROVE EventsInv'
  <1>1. PICK h \in eventsTodo[p] : h = eventsAt[p] /\ h \in EventsStreams /\ eventsPpc[p] = "retry"
    BY DEF Events!Retry, EventsInv, EventsWired, Events!TypeOK
  <1>2. UNCHANGED <<Events!store, Events!stream, eventsCopied>>
    BY DEF Events!Retry
  <1>3. CASE Events!Closed(h) \/ Len(eventsCh[h]) < EventsCap
    BY <1>1, <1>2, <1>3, EventsSendOnInv DEF Events!Retry, Events!history
  <1>4. CASE ~(Events!Closed(h) \/ Len(eventsCh[h]) < EventsCap)
    <2>1. Events!Served(p, h) /\ eventsSpilled' = [eventsSpilled EXCEPT ![h] = TRUE] /\
            UNCHANGED <<eventsCh, eventsPanicked>>
      BY <1>1, <1>4 DEF Events!Retry
    <2>2. /\ eventsSpilled' \in [EventsStreams -> BOOLEAN] /\ eventsSpilled'[h]
          /\ \A g \in EventsStreams : ~eventsSpilled'[g] => ~eventsSpilled[g]
      BY <1>1, <2>1, Zenon DEF EventsInv, Events!TypeOK
    <2>3. \A g \in EventsStreams : EventsOrderOf(g)' /\ EventsLiveOf(g)'
      <3>1. SUFFICES ASSUME NEW g \in EventsStreams PROVE EventsOrderOf(g)' /\ EventsLiveOf(g)'
        OBVIOUS
      <3>2. g = h \/ \A o \in EventsProducers : g \in eventsTodo[o] => g \in eventsTodo'[o]
        BY <1>1, <2>1, EventsServedFacts
      <3>3. QED
        BY <1>1, <1>2, <2>1, <2>2, <3>2, EventsServedFacts, EventsOtherStream
    <2>4. QED
      BY <1>1, <1>2, <2>1, <2>2, <2>3, EventsServedFacts, EventsBroadcastInv DEF EventsInv,
         Events!TypeOK
  <1>5. QED
    BY <1>3, <1>4

\* The session is deleted.
LEMMA EventsDeleteSessionInv == ASSUME EventsInv, Events!DeleteSession PROVE EventsInv'
  <1>1. /\ eventsExists' = FALSE
        /\ UNCHANGED <<eventsLog, eventsFlushed, eventsNextID, Events!producer, Events!stream,
             eventsCh, eventsPanicked, Events!history>>
    BY DEF Events!DeleteSession
  <1>2. eventsExists' \in BOOLEAN
    BY <1>1, Zenon
  <1>3. Events!TypeOK' /\ EventsWired' /\ EventsLogOrder' /\ EventsReplayOrder'
    <2>1. Events!TypeOK'
      BY <1>1, <1>2 DEF EventsInv, Events!TypeOK, Events!producer, Events!stream, Events!history
    <2>2. EventsWired'
      BY <1>1 DEF EventsInv, EventsWired, Events!producer, Events!stream, Events!history
    <2>3. EventsLogOrder' /\ EventsReplayOrder'
      BY <1>1 DEF EventsInv, EventsLogOrder, EventsReplayOrder, EventsReplayOf, Events!producer,
         Events!stream
    <2>4. QED
      BY <2>1, <2>2, <2>3
  <1>4. \A h \in EventsStreams : EventsOrderOf(h)' /\ EventsLiveOf(h)'
    BY <1>1, EventsOtherStream DEF Events!producer, Events!history
  <1>5. QED
    BY <1>3, <1>4 DEF EventsInv, EventsArrivalOrder, EventsLively

\* A step of stream h, which sends what it has received or replayed.
LEMMA EventsStreamInv ==
    ASSUME EventsInv, NEW h \in EventsStreams, eventsSpc[h] # "gone",
           UNCHANGED <<Events!store, Events!producer, eventsPanicked, Events!history>>,
           eventsSpc' \in [EventsStreams -> {"idle", "replay", "subscribe", "loop", "gone"}],
           eventsAfter' \in [EventsStreams -> Nat], eventsRpos' \in [EventsStreams -> Nat],
           eventsCh' \in [EventsStreams -> Seq(Events!Events)],
             eventsSent' \in [EventsStreams -> Seq(Events!Events)],
           Len(eventsCh'[h]) <= EventsCap,
           \A g \in EventsStreams \ {h} :
              UNCHANGED <<eventsSpc[g], eventsAfter[g], eventsRpos[g], eventsCh[g], eventsSent[g]>>,
           eventsSubs' = {g \in EventsStreams : eventsSpc'[g] = "loop"},
           eventsSpc'[h] \in EventsBefore =>
             eventsSpc[h] \in EventsBefore /\ eventsCh'[h] = <<>> /\ EventsReplayOf(h)',
           eventsSpc'[h] \notin EventsBefore => EventsOrderOf(h)', EventsLiveOf(h)'
    PROVE  EventsInv'
  <1>1. Events!TypeOK'
    BY DEF EventsInv, Events!TypeOK, Events!store, Events!producer, Events!history
  <1>2. EventsWired'
    <2>1. \A g \in EventsStreams : eventsSpc'[g] \in EventsBefore =>
            eventsSpc[g] \in EventsBefore /\ (eventsCh[g] = <<>> => eventsCh'[g] = <<>>)
      OBVIOUS
    <2>2. QED
      BY <2>1 DEF EventsInv, EventsWired, Events!producer, Events!history
  <1>3. EventsLogOrder'
    BY DEF EventsInv, EventsLogOrder, Events!store, Events!producer
  <1>4. ASSUME NEW g \in EventsStreams, eventsSpc'[g] \in EventsBefore PROVE EventsReplayOf(g)'
    <2>1. CASE g = h
      BY <1>4, <2>1
    <2>2. CASE g # h
      <3>1. eventsSpc[g] \in EventsBefore /\ UNCHANGED <<eventsRpos[g], eventsSent[g]>>
        BY <1>4, <2>2
      <3>2. EventsReplayOf(g)
        BY <3>1 DEF EventsInv, EventsReplayOrder
      <3>3. QED
        BY <3>1, <3>2 DEF EventsReplayOf, Events!store
    <2>3. QED
      BY <2>1, <2>2
  <1>5. ASSUME NEW g \in EventsStreams, g # h PROVE EventsOrderOf(g)' /\ EventsLiveOf(g)'
    <2>1. Events!Arriving(g)' = Events!Arriving(g) /\ EventsOrderOf(g) /\ EventsLiveOf(g)
      BY <1>5, EventsAllOrder DEF Events!Arriving, EventsInv, EventsLively
    <2>2. EventsOrderOf(g)'
      BY <1>5, <2>1, EventsSameOrder DEF Events!producer
    <2>3. g \in eventsSubs' => g \in eventsSubs
      BY <1>5 DEF EventsInv, EventsWired
    <2>4. EventsLiveOf(g)'
      BY <1>5, <2>1, <2>3, EventsLiveKept DEF Events!producer, Events!history
    <2>5. QED
      BY <2>2, <2>4
  <1>6. EventsReplayOrder' /\ EventsArrivalOrder' /\ EventsLively'
    BY <1>4, <1>5 DEF EventsReplayOrder, EventsArrivalOrder, EventsLively
  <1>7. QED
    BY <1>1, <1>2, <1>3, <1>6 DEF EventsInv

\* What the state says of one stream.
LEMMA EventsStreamTypes ==
    ASSUME EventsInv, NEW h \in EventsStreams
    PROVE  /\ eventsSpc \in [EventsStreams -> {"idle", "replay", "subscribe", "loop", "gone"}]
           /\ eventsAfter \in [EventsStreams -> Nat] /\ eventsRpos \in [EventsStreams -> Nat]
           /\ eventsCh \in [EventsStreams -> Seq(Events!Events)] /\
                eventsSent \in [EventsStreams -> Seq(Events!Events)]
           /\ Len(eventsCh[h]) <= EventsCap /\ EventsOrderOf(h) /\ EventsLiveOf(h)
           /\ eventsSubs = {g \in EventsStreams : eventsSpc[g] = "loop"}
           /\ eventsSpc[h] \in EventsBefore =>
                eventsCh[h] = <<>> /\ eventsCopied[h] = {} /\ EventsReplayOf(h)
  BY EventsAllOrder DEF EventsInv, Events!TypeOK, EventsWired, EventsLively, EventsReplayOrder

\* A stream begins.
LEMMA EventsStreamEventsInv ==
    ASSUME EventsInv, NEW h \in EventsStreams, NEW a \in Nat, Events!StreamEvents(h, a)
      PROVE EventsInv'
  <1>1. /\ eventsSpc[h] = "idle" /\ eventsAfter' = [eventsAfter EXCEPT ![h] = a]
        /\ eventsSpc' = [eventsSpc EXCEPT ![h] = IF eventsExists THEN "replay" ELSE "gone"]
        /\ UNCHANGED <<Events!store, Events!producer, eventsRpos, eventsCh, eventsSubs, eventsSent,
             eventsPanicked, Events!history>>
    BY DEF Events!StreamEvents
  <1>2. /\ eventsSpc' \in [EventsStreams -> {"idle", "replay", "subscribe", "loop", "gone"}]
        /\ eventsSpc'[h] \in {"replay", "gone"} /\ eventsAfter' \in [EventsStreams -> Nat]
        /\ \A g \in EventsStreams \ {h} : eventsSpc'[g] = eventsSpc[g] /\
             eventsAfter'[g] = eventsAfter[g]
    BY <1>1, EventsStreamTypes
  <1>3. eventsSubs' = {g \in EventsStreams : eventsSpc'[g] = "loop"}
    BY <1>1, <1>2, EventsStreamTypes
  <1>4. EventsReplayOf(h)'
    <2>1. EventsReplayOf(h) /\ UNCHANGED <<eventsLog, eventsFlushed, eventsRpos, eventsSent>>
      BY <1>1, EventsStreamTypes DEF Events!store, EventsBefore
    <2>2. QED
      BY <2>1 DEF EventsReplayOf
  <1>5. EventsOrderOf(h)'
    BY <1>1, EventsStreamTypes, EventsSameOrder DEF Events!producer
  <1>6. EventsLiveOf(h)'
    BY <1>2, <1>3 DEF EventsLiveOf
  <1>7. QED
    BY <1>1, <1>2, <1>3, <1>4, <1>5, <1>6, EventsStreamTypes, EventsStreamInv DEF EventsBefore

\* A record is replayed.
LEMMA EventsReplayRecordInv == ASSUME EventsInv, NEW h \in EventsStreams,
  Events!ReplayRecord(h) PROVE EventsInv'
  <1>1. /\ eventsSpc[h] = "replay" /\ eventsRpos[h] < eventsFlushed /\
             eventsRpos' = [eventsRpos EXCEPT ![h] = @ + 1]
        /\ \/ eventsSent' = eventsSent
           \/ eventsSent' = [eventsSent EXCEPT ![h] = Append(@, eventsLog[eventsRpos[h] + 1])]
        /\ UNCHANGED <<Events!store, Events!producer, eventsSpc, eventsAfter, eventsCh, eventsSubs,
             eventsPanicked, Events!history>>
    BY DEF Events!ReplayRecord
  <1>2. /\ eventsLog \in Seq(Events!Events) /\ eventsFlushed \in 0..Len(eventsLog) /\
             eventsRpos[h] \in Nat /\ eventsSent[h] \in Seq(Events!Events)
        /\ eventsSent \in [EventsStreams -> Seq(Events!Events)] /\
             eventsRpos \in [EventsStreams -> Nat]
    BY DEF EventsInv, Events!TypeOK
  <1>3. eventsRpos[h] + 1 \in 1..Len(eventsLog) /\ eventsLog[eventsRpos[h] + 1] \in Events!Events
    BY <1>1, <1>2
  <1>4. eventsRpos' \in [EventsStreams -> Nat] /\ eventsRpos'[h] = eventsRpos[h] + 1
        /\ \A g \in EventsStreams \ {h} : eventsRpos'[g] = eventsRpos[g]
    BY <1>1, <1>2
  <1>5. eventsSent' \in [EventsStreams -> Seq(Events!Events)] /\
          \A g \in EventsStreams \ {h} : eventsSent'[g] = eventsSent[g]
    <2>1. PICK e \in Events!Events : e = eventsLog[eventsRpos[h] + 1]
      BY <1>3
    <2>2. PICK more \in Seq(Events!Events) : more = Append(eventsSent[h], e)
      <3>1. Append(eventsSent[h], e) \in Seq(Events!Events)
        BY <1>2
      <3>2. QED
        BY <3>1, Zenon
    <2>3. eventsSent' = eventsSent \/ eventsSent' = [eventsSent EXCEPT ![h] = more]
      BY <1>1, <2>1, <2>2
    <2>4. QED
      BY <1>2, <2>3
  <1>6. EventsReplayOf(h)'
    <2>1. EventsReplayOf(h)
      BY <1>1, EventsStreamTypes DEF EventsBefore
    <2>2. CASE eventsSent' = eventsSent
      BY <1>1, <1>2, <1>4, <2>1, <2>2 DEF EventsReplayOf, Events!store
    <2>3. CASE eventsSent' = [eventsSent EXCEPT ![h] = Append(@, eventsLog[eventsRpos[h] + 1])]
      <3>1. /\ Len(eventsSent'[h]) = Len(eventsSent[h]) + 1 /\
                 eventsSent'[h][Len(eventsSent[h]) + 1] = eventsLog[eventsRpos[h] + 1]
            /\ \A i \in 1..Len(eventsSent[h]) : eventsSent'[h][i] = eventsSent[h][i]
        BY <1>2, <1>3, <2>3
      <3>2. \A i \in 1..Len(eventsSent'[h]) : \E m \in 1..eventsRpos[h] + 1 :
              eventsSent'[h][i] = eventsLog[m]
        <4>1. SUFFICES ASSUME NEW i \in 1..Len(eventsSent'[h])
                       PROVE  \E m \in 1..eventsRpos[h] + 1 : eventsSent'[h][i] = eventsLog[m]
          OBVIOUS
        <4>2. CASE i \in 1..Len(eventsSent[h])
          BY <1>2, <2>1, <3>1, <4>2 DEF EventsReplayOf
        <4>3. CASE i = Len(eventsSent[h]) + 1
          BY <1>2, <3>1, <4>3
        <4>4. QED
          BY <1>2, <3>1, <4>2, <4>3
      <3>3. ASSUME NEW i \in 1..Len(eventsSent'[h]), NEW j \in 1..Len(eventsSent'[h]), i < j,
                   eventsSent'[h][i].by = eventsSent'[h][j].by
            PROVE  eventsSent'[h][i].n < eventsSent'[h][j].n
        <4>1. i \in 1..Len(eventsSent[h]) /\ eventsSent'[h][i] = eventsSent[h][i]
          BY <1>2, <3>1, <3>3
        <4>2. CASE j \in 1..Len(eventsSent[h])
          BY <2>1, <3>1, <3>3, <4>1, <4>2 DEF EventsReplayOf
        <4>3. CASE j = Len(eventsSent[h]) + 1
          <5>1. PICK m \in 1..eventsRpos[h] : eventsSent[h][i] = eventsLog[m]
            BY <2>1, <4>1 DEF EventsReplayOf
          <5>2. m \in 1..Len(eventsLog) /\ m < eventsRpos[h] + 1
            BY <1>2, <1>3
          <5>3. QED
            BY <1>3, <3>1, <3>3, <4>1, <4>3, <5>1, <5>2, SMTT(60) DEF EventsInv, EventsLogOrder
        <4>4. QED
          BY <1>2, <3>1, <4>2, <4>3
      <3>4. eventsRpos[h] + 1 <= eventsFlushed
        BY <1>1, <1>2
      <3>5. QED
        BY <1>1, <1>4, <3>2, <3>3, <3>4 DEF EventsReplayOf, Events!store
    <2>4. QED
      BY <1>1, <2>2, <2>3
  <1>7. EventsLiveOf(h)'
    BY <1>1, EventsStreamTypes DEF EventsLiveOf, EventsBefore, Events!history
  <1>8. QED
    BY <1>1, <1>4, <1>5, <1>6, <1>7, EventsStreamTypes, EventsStreamInv DEF EventsBefore

\* A replay ends, a stream subscribes, a client goes.
LEMMA EventsMovesInv ==
    ASSUME EventsInv, NEW h \in EventsStreams, NEW to \in {"subscribe", "loop", "gone"},
           eventsSpc[h] \in {"replay", "subscribe", "loop"}, to = "subscribe" =>
             eventsSpc[h] = "replay",
           to = "loop" => eventsSpc[h] = "subscribe",
           eventsSpc' = [eventsSpc EXCEPT ![h] = to],
           eventsSubs' = IF to = "loop" THEN eventsSubs \cup {h} ELSE eventsSubs \ {h},
           UNCHANGED <<Events!store, Events!producer, eventsAfter, eventsRpos, eventsCh,
             eventsSent, eventsPanicked, Events!history>>
    PROVE  EventsInv'
  <1>1. /\ eventsSpc' \in [EventsStreams -> {"idle", "replay", "subscribe", "loop", "gone"}]
        /\ eventsSpc'[h] = to /\ \A g \in EventsStreams \ {h} : eventsSpc'[g] = eventsSpc[g]
    BY EventsStreamTypes
  <1>2. eventsSubs' = {g \in EventsStreams : eventsSpc'[g] = "loop"}
    BY <1>1, EventsStreamTypes
  <1>3. to = "subscribe" =>
          eventsSpc[h] \in EventsBefore /\ eventsCh[h] = <<>> /\ EventsReplayOf(h)'
    <2>1. to = "subscribe" =>
            eventsSpc[h] \in EventsBefore /\ eventsCh[h] = <<>> /\ EventsReplayOf(h)
      BY EventsStreamTypes DEF EventsBefore
    <2>2. UNCHANGED <<eventsLog, eventsFlushed, eventsRpos, eventsSent>>
      BY DEF Events!store
    <2>3. EventsReplayOf(h) => EventsReplayOf(h)'
      BY <2>2 DEF EventsReplayOf
    <2>4. QED
      BY <2>1, <2>3
  <1>4. EventsOrderOf(h)'
    BY EventsStreamTypes, EventsSameOrder DEF Events!producer
  <1>5. EventsLiveOf(h)'
    <2>1. CASE to = "loop"
      BY <2>1, EventsStreamTypes DEF EventsLiveOf, EventsBefore, Events!history
    <2>2. CASE to # "loop"
      BY <1>1, <1>2, <2>2 DEF EventsLiveOf
    <2>3. QED
      BY <2>1, <2>2
  <1>6. QED
    BY <1>1, <1>2, <1>3, <1>4, <1>5, EventsStreamTypes, EventsStreamInv DEF EventsBefore

\* An event is forwarded, or left out if the client said it has it.
LEMMA EventsForwardInv == ASSUME EventsInv, EventsCap \in Nat, NEW h \in EventsStreams,
  Events!Forward(h) PROVE EventsInv'
  <1>1. /\ eventsSpc[h] = "loop" /\ eventsCh[h] # <<>> /\
             eventsCh' = [eventsCh EXCEPT ![h] = Tail(@)]
        /\ \/ Head(eventsCh[h]).id \in 1..eventsAfter[h] /\ eventsSent' = eventsSent
           \/ eventsSent' = [eventsSent EXCEPT ![h] = Append(@, Head(eventsCh[h]))]
        /\ UNCHANGED <<Events!store, Events!producer, eventsSpc, eventsAfter, eventsRpos,
             eventsSubs, eventsPanicked, Events!history>>
    BY DEF Events!Forward
  <1>2. eventsCh[h] \in Seq(Events!Events) /\ eventsSent[h] \in Seq(Events!Events)
    BY EventsStreamTypes
  <1>3. /\ Head(eventsCh[h]) \in Events!Events /\ Tail(eventsCh[h]) \in Seq(Events!Events)
        /\ Len(Tail(eventsCh[h])) = Len(eventsCh[h]) - 1
        /\ EventsShorter(eventsSent[h] \o Tail(eventsCh[h]), eventsSent[h] \o eventsCh[h],
             Len(eventsSent[h]) + 1)
        /\ Append(eventsSent[h],
             Head(eventsCh[h])) \o Tail(eventsCh[h]) = eventsSent[h] \o eventsCh[h]
    BY <1>1, <1>2, EventsSeqFacts
  <1>4. /\ eventsCh' \in [EventsStreams -> Seq(Events!Events)] /\ eventsCh'[h] = Tail(eventsCh[h])
        /\ eventsSent' \in [EventsStreams -> Seq(Events!Events)]
        /\ \A g \in EventsStreams \ {h} : eventsCh'[g] = eventsCh[g] /\
             eventsSent'[g] = eventsSent[g]
    <2>1. eventsCh \in [EventsStreams -> Seq(Events!Events)] /\
            eventsSent \in [EventsStreams -> Seq(Events!Events)]
      BY EventsStreamTypes
    <2>2. PICK rest \in Seq(Events!Events) : rest = Tail(eventsCh[h])
      BY <1>3
    <2>3. PICK more \in Seq(Events!Events) : more = Append(eventsSent[h], Head(eventsCh[h]))
      <3>1. Append(eventsSent[h], Head(eventsCh[h])) \in Seq(Events!Events)
        BY <1>2, <1>3
      <3>2. QED
        BY <3>1, Zenon
    <2>4. /\ eventsCh' = [eventsCh EXCEPT ![h] = rest]
          /\ eventsSent' = eventsSent \/ eventsSent' = [eventsSent EXCEPT ![h] = more]
      BY <1>1, <2>2, <2>3
    <2>5. QED
      BY <2>1, <2>2, <2>4
  <1>5. Len(eventsCh'[h]) <= EventsCap
    <2>1. Len(eventsCh[h]) <= EventsCap /\ Len(eventsCh[h]) \in Nat
      BY <1>2, EventsStreamTypes
    <2>2. QED
      BY <1>3, <1>4, <2>1
  <1>6. EventsOrderOf(h)' /\ EventsLiveOf(h)'
    <2>1. CASE Head(eventsCh[h]).id \in 1..eventsAfter[h] /\ eventsSent' = eventsSent
      <3>1. /\ Events!Arriving(h) = eventsSent[h] \o eventsCh[h] /\
                 Events!Arriving(h)' = eventsSent[h] \o Tail(eventsCh[h])
            /\ Events!Arriving(h)[Len(eventsSent[h]) + 1] = Head(eventsCh[h])
        BY <1>1, <1>2, <1>4, <2>1 DEF Events!Arriving
      <3>2. Events!Arriving(h) \in Seq(Events!Events) /\ Events!Arriving(h)' \in Seq(Events!Events)
        BY <1>2, <1>3, <3>1
      <3>3. EventsShorter(Events!Arriving(h)', Events!Arriving(h), Len(eventsSent[h]) + 1)
        BY <1>3, <3>1
      <3>4. EventsOrderOf(h)'
        BY <1>1, <3>2, <3>3, EventsStreamTypes, EventsShorterOrder DEF EventsInv, Events!producer
      <3>5. \A j \in 1..Len(Events!Arriving(h)) : j # Len(eventsSent[h]) + 1 =>
               \E i \in 1..Len(Events!Arriving(h)') : Events!Arriving(h)'[i] = Events!Arriving(h)[j]
        BY <3>2, <3>3, EventsShorterHolds
      <3>6. \A i \in 1..Len(Events!Arriving(h)) :
              \/ \E j \in 1..Len(Events!Arriving(h)') :
                    Events!Arriving(h)'[j] = Events!Arriving(h)[i]
              \/ Events!Arriving(h)[i].id \in 1..eventsAfter[h]
        BY <2>1, <3>1, <3>5
      <3>7. EventsLiveOf(h)'
        BY <1>1, <3>6, EventsStreamTypes, EventsLiveKept DEF Events!producer, Events!history
      <3>8. QED
        BY <3>4, <3>7
    <2>2. CASE eventsSent' = [eventsSent EXCEPT ![h] = Append(@, Head(eventsCh[h]))]
      <3>1. eventsSent'[h] = Append(eventsSent[h], Head(eventsCh[h]))
        BY <2>2, EventsStreamTypes
      <3>2. Events!Arriving(h)' = Events!Arriving(h)
        BY <1>3, <1>4, <3>1 DEF Events!Arriving
      <3>3. EventsOrderOf(h)'
        BY <1>1, <3>2, EventsStreamTypes, SMTT(60) DEF EventsOrderOf, EventsFine, EventsOnce,
           Events!producer
      <3>4. EventsLiveOf(h)'
        BY <1>1, <3>2, EventsStreamTypes, EventsLiveKept DEF Events!producer, Events!history
      <3>5. QED
        BY <3>3, <3>4
    <2>3. QED
      BY <1>1, <2>1, <2>2
  <1>7. QED
    BY <1>1, <1>4, <1>5, <1>6, EventsStreamTypes, EventsStreamInv DEF EventsBefore

\* Every step keeps the invariant.
LEMMA EventsNextInv == EventsBounds /\ EventsInv /\ [Events!Next]_Events!vars => EventsInv'
  <1>1. ASSUME EventsInv, UNCHANGED Events!vars PROVE EventsInv'
    <2>1. UNCHANGED <<Events!store, Events!producer, Events!stream, eventsCh, eventsPanicked,
            Events!history>>
      BY <1>1 DEF Events!vars
    <2>2. \A h \in EventsStreams : EventsOrderOf(h)' /\ EventsLiveOf(h)'
      BY <1>1, <2>1, EventsOtherStream DEF Events!producer, Events!history
    <2>3. QED
      BY <1>1, <2>1, <2>2, EventsBroadcastInv DEF EventsInv, Events!TypeOK, EventsWired,
         Events!producer, Events!history
  <1>2. ASSUME EventsBounds, EventsInv, NEW p \in EventsProducers, Events!ProducerStep(p)
    PROVE EventsInv'
    BY <1>2, EventsAppendEventInv, EventsAppendFailsInv, EventsEphemeralInv, EventsCopyTargetsInv,
       EventsTrySendInv,
       EventsDropOldestInv, EventsRetryInv DEF Events!ProducerStep, EventsBounds
  <1>3. ASSUME EventsBounds, EventsInv, NEW h \in EventsStreams, Events!StreamStep(h)
    PROVE EventsInv'
    <2>1. Events!ReplayEnd(h) \/ Events!Subscribe(h) \/ Events!Leave(h) => EventsInv'
      <3>1. Events!ReplayEnd(h) => EventsInv'
        <4>1. Events!ReplayEnd(h) => eventsSubs = eventsSubs \ {h}
          BY <1>3, EventsStreamTypes DEF Events!ReplayEnd
        <4>2. QED
          BY <1>3, <4>1, EventsMovesInv DEF Events!ReplayEnd
      <3>2. Events!Subscribe(h) => EventsInv'
        BY <1>3, EventsMovesInv DEF Events!Subscribe
      <3>3. Events!Leave(h) => EventsInv'
        BY <1>3, EventsMovesInv DEF Events!Leave
      <3>4. QED
        BY <3>1, <3>2, <3>3
    <2>2. \A a \in EventsAfters : a \in Nat
      BY <1>3 DEF EventsBounds
    <2>3. QED
      BY <1>3, <2>1, <2>2, EventsStreamEventsInv, EventsReplayRecordInv,
         EventsForwardInv DEF Events!StreamStep, EventsBounds
  <1>4. QED
    BY <1>1, <1>2, <1>3, EventsDeleteSessionInv DEF Events!Next

\* What the invariant says of what arrives.
LEMMA EventsMeaning == ASSUME EventsInv
  PROVE Events!TypeOK /\ Events!ProducerOrder /\ Events!LiveIsComplete
  <1>1. Events!ProducerOrder
    <2>1. SUFFICES ASSUME NEW h \in EventsStreams, NEW q \in Seq(Events!Events),
                     q = Events!Arriving(h),
                          NEW i \in 1..Len(q), NEW j \in 1..Len(q), i < j, q[i].by = q[j].by
                   PROVE  \/ q[i].n < q[j].n
                          \/ /\ q[i] = q[j]
                             /\ \A k \in 1..Len(q) : k \notin {i, j} => q[k] # q[i]
      <3>1. \A h \in EventsStreams : Events!Arriving(h) \in Seq(Events!Events)
        BY DEF EventsInv, Events!TypeOK, Events!Arriving
      <3>2. QED
        BY <3>1 DEF Events!ProducerOrder
    <2>2. EventsFine(q)
      BY <2>1, EventsAllOrder DEF EventsOrderOf
    <2>3. q[i].n \in Nat /\ q[j].n \in Nat
      <3>1. q[i] \in Events!Events /\ q[j] \in Events!Events
        OBVIOUS
      <3>2. QED
        BY <3>1 DEF Events!Events
    <2>4. q[i].n < q[j].n \/ (q[i].n = q[j].n /\ q[i] = q[j])
      BY <2>1, <2>2, <2>3 DEF EventsFine
    <2>5. ASSUME q[i] = q[j], NEW k \in 1..Len(q), k \notin {i, j}, q[k] = q[i] PROVE FALSE
      <3>1. k < i \/ (i < k /\ k < j) \/ j < k
        BY <2>5
      <3>2. CASE k < i
        BY <2>1, <2>2, <2>3, <2>5, <3>2 DEF EventsFine
      <3>3. CASE i < k /\ k < j
        BY <2>1, <2>2, <2>3, <2>5, <3>3 DEF EventsFine
      <3>4. CASE j < k
        BY <2>1, <2>2, <2>3, <2>5, <3>4 DEF EventsFine
      <3>5. QED
        BY <3>1, <3>2, <3>3, <3>4
    <2>6. QED
      BY <2>4, <2>5
  <1>2. Events!LiveIsComplete
    BY DEF Events!LiveIsComplete, EventsLiveOf, EventsInv, EventsLively, EventsWired
  <1>3. QED
    BY <1>1, <1>2 DEF EventsInv

(***************************************************************************)
(* Events of a producer arrive in order, and a subscribed stream misses    *)
(* none unless its own channel overflowed: for any number of producers and *)
(* streams and any capacity (broadcast, sendDropOldest, StreamEvents).     *)
(***************************************************************************)
THEOREM EventsHold ==
    ASSUME EventsBounds
    PROVE  Events!Spec => [](Events!TypeOK /\ Events!ProducerOrder /\ Events!LiveIsComplete)
  <1>1. Events!Init => EventsInv
    BY EventsInitInv
  <1>2. EventsInv /\ [Events!Next]_Events!vars => EventsInv'
    BY EventsNextInv
  <1>3. EventsInv => Events!TypeOK /\ Events!ProducerOrder /\ Events!LiveIsComplete
    BY EventsMeaning
  <1>4. QED
    BY <1>1, <1>2, <1>3, PTL DEF Events!Spec

-----------------------------------------------------------------------------
(***************************************************************************)
(* Proofs about FileWrites, for any number of writers and of stops: what   *)
(* the path holds, what is left behind and what is told of it.             *)
(***************************************************************************)

\* What a writer writes is not what the path holds at first.
FilesOwnContents == "" \notin FilesWriters /\ "first" \notin FilesWriters

\* The contents that are whole.
FilesWhole == {"", "first"} \cup FilesWriters

-----------------------------------------------------------------------------
(* The names of the writers are contents of their own.  SyncedInTime is    *)
(* why Rename never lets a half written file survive a power loss.         *)
(* Unwritten says that a content is nowhere to be found before its writer  *)
(* has renamed: what a call read as old is then not its own.               *)

FilesOver == {"renamed", "done", "failed"}

FilesSyncedInTime == \A w \in FilesWriters : filesAt[w] = "synced" => filesSynced[w] = TRUE
FilesTempIsUsed == \A w \in FilesWriters : filesAt[w] \in {"start", "old", "renamed", "done"} =>
  filesTemp[w] = "none"
FilesUnwritten ==
    \A w \in FilesWriters : filesAt[w] \notin FilesOver =>
        /\ filesFile # w /\ w \notin filesDisk
        /\ \A v \in FilesWriters : filesOld[v] # w
        /\ \A d \in filesDiffs : d[1] # w
FilesToldAreWhole == \A d \in filesDiffs : d[1] \in FilesWhole /\ d[1] # d[2]
FilesOldIsOther == \A w \in FilesWriters : filesOld[w] # w

FilesStates == {"start", "old", "temp", "written", "synced", "renamed", "done", "failed"}
FilesAtOK == filesAt \in [FilesWriters -> FilesStates]
FilesOldOK == filesOld \in [FilesWriters -> FilesWhole]
FilesTempOK == filesTemp \in [FilesWriters -> {"none", "empty", "part", "whole"}]
FilesSyncedOK == filesSynced \in [FilesWriters -> BOOLEAN] /\ filesStops \in 0..FilesMaxStops

FilesInv ==
    /\ FilesAtOK /\ FilesOldOK /\ FilesTempOK /\ FilesSyncedOK /\ filesFile \in FilesWhole /\
         filesDisk \subseteq FilesWhole
    /\ FilesSyncedInTime /\ FilesTempIsUsed /\ FilesUnwritten /\ FilesToldAreWhole /\
         FilesOldIsOther
    /\ Files!NoTempIsLeft

\* Nothing has been written.
LEMMA FilesInitInv ==
    ASSUME FilesOwnContents, FilesMaxStops \in Nat, Files!Init
    PROVE  FilesInv
  <1>1. filesStops \in 0..FilesMaxStops
    <2>1. 0 \in 0..FilesMaxStops
      OBVIOUS
    <2>2. QED BY <2>1, Zenon DEF Files!Init
  <1>2. FilesAtOK /\ FilesOldOK /\ FilesTempOK /\ FilesSyncedOK /\ filesFile \in FilesWhole /\
          filesDisk \subseteq FilesWhole
    <2>1. FilesAtOK /\ FilesTempOK
      BY DEF Files!Init, FilesAtOK, FilesStates, FilesTempOK
    <2>2. FilesSyncedOK
      BY <1>1, Zenon DEF Files!Init, FilesSyncedOK
    <2>3. FilesOldOK
      BY Zenon DEF Files!Init, FilesOldOK, FilesWhole
    <2>4. filesFile \in FilesWhole /\ filesDisk \subseteq FilesWhole
      BY Zenon DEF Files!Init, FilesWhole
    <2>5. QED BY <2>1, <2>2, <2>3, <2>4
  <1>3. FilesSyncedInTime /\ FilesTempIsUsed /\ FilesToldAreWhole /\ Files!NoTempIsLeft
    BY Zenon DEF Files!Init, FilesSyncedInTime, FilesTempIsUsed, FilesToldAreWhole,
       Files!NoTempIsLeft
  <1>4. FilesUnwritten /\ FilesOldIsOther
    BY Zenon DEF FilesOwnContents, Files!Init, FilesUnwritten, FilesOldIsOther
  <1>5. QED BY <1>2, <1>3, <1>4 DEF FilesInv

\* A writer goes on: where its step may disturb the invariant, and that nothing else does.
LEMMA FilesWriterGoes ==
    ASSUME FilesInv, NEW w \in FilesWriters, NEW to \in FilesStates, Files!Goes(w, to),
             filesStops' = filesStops,
           filesAt[w] \notin {"done", "failed"}, filesAt[w] = "renamed" => to = "done",
           \* its temporary file and its fsync
           \/ filesTemp' = filesTemp
           \/ \E t \in {"none", "empty", "part",
                "whole"} : filesTemp' = [filesTemp EXCEPT ![w] = t],
           filesSynced' = filesSynced \/ filesSynced' = [filesSynced EXCEPT ![w] = TRUE],
           to = "synced" => filesSynced'[w] = TRUE,
           to \in {"start", "old", "renamed", "done", "failed"} => filesTemp'[w] = "none",
           \* what it reads, renames and tells
           filesOld' = filesOld \/ (filesAt[w] = "start" /\
             filesOld' = [filesOld EXCEPT ![w] = filesFile]),
           (filesFile' = filesFile /\ filesDisk' = filesDisk)
             \/ (to = "renamed" /\ filesFile' = w /\ filesDisk' = filesDisk \cup {w}),
           filesDiffs' = filesDiffs \/ filesDiffs' = filesDiffs \cup {<<filesOld[w], w>>}
    PROVE  FilesInv'
  <1>1. /\ filesAt \in [FilesWriters -> FilesStates] /\ filesAt'[w] = to
        /\ \A v \in FilesWriters \ {w} : filesAt'[v] = filesAt[v]
    BY DEF FilesInv, FilesAtOK, Files!Goes
  <1>2. FilesAtOK' /\ FilesSyncedOK' /\ FilesTempOK'
    BY DEF FilesInv, FilesAtOK, FilesSyncedOK, FilesTempOK, Files!Goes
  <1>3. FilesOldOK' /\ FilesOldIsOther'
    <2>1. filesFile \in FilesWhole /\ (filesAt[w] = "start" => filesFile # w)
      BY DEF FilesInv, FilesUnwritten, FilesOver
    <2>2. QED BY <2>1 DEF FilesInv, FilesOldOK, FilesOldIsOther
  <1>4. filesFile' \in FilesWhole /\ filesDisk' \subseteq FilesWhole
    <2>1. w \in FilesWhole
      BY DEF FilesWhole
    <2>2. QED BY <2>1 DEF FilesInv
  <1>5. FilesSyncedInTime'
    BY <1>1 DEF FilesInv, FilesSyncedInTime, FilesSyncedOK
  <1>6. FilesTempIsUsed' /\ Files!NoTempIsLeft'
    BY <1>1 DEF FilesInv, FilesTempIsUsed, Files!NoTempIsLeft, FilesTempOK
  <1>7. FilesUnwritten'
    <2>1. SUFFICES ASSUME NEW v \in FilesWriters, filesAt'[v] \notin FilesOver
                   PROVE  /\ filesFile' # v /\ v \notin filesDisk'
                          /\ \A u \in FilesWriters : filesOld'[u] # v
                          /\ \A d \in filesDiffs' : d[1] # v
      BY DEF FilesUnwritten
    <2>2. filesAt[v] \notin FilesOver
      BY <1>1, <2>1 DEF FilesOver
    <2>3. /\ filesFile # v /\ v \notin filesDisk
          /\ \A u \in FilesWriters : filesOld[u] # v
          /\ \A d \in filesDiffs : d[1] # v
      BY <2>2 DEF FilesInv, FilesUnwritten
    <2>4. filesFile' # v /\ v \notin filesDisk'
      BY <1>1, <2>1, <2>3 DEF FilesOver
    <2>5. \A u \in FilesWriters : filesOld'[u] # v
      BY <2>3 DEF FilesInv, FilesOldOK
    <2>6. \A d \in filesDiffs' : d[1] # v
      BY <2>3
    <2>7. QED BY <2>4, <2>5, <2>6
  <1>8. FilesToldAreWhole'
    <2>1. filesOld[w] \in FilesWhole /\ filesOld[w] # w
      BY DEF FilesInv, FilesOldOK, FilesOldIsOther
    <2>2. QED BY <2>1 DEF FilesInv, FilesToldAreWhole
  <1>9. QED BY <1>2, <1>3, <1>4, <1>5, <1>6, <1>7, <1>8 DEF FilesInv

\* Every step of a call is such a step.
LEMMA FilesWriteFileAtomicInv == ASSUME FilesInv, NEW w \in FilesWriters,
  Files!WriteFileAtomic(w) PROVE FilesInv'
  <1>0. /\ filesTemp \in [FilesWriters -> {"none", "empty", "part", "whole"}]
        /\ filesSynced \in [FilesWriters -> BOOLEAN]
        /\ filesAt[w] \in {"start", "old", "renamed", "done"} => filesTemp[w] = "none"
        /\ filesAt[w] = "synced" => filesSynced[w] = TRUE
    BY DEF FilesInv, FilesTempOK, FilesSyncedOK, FilesTempIsUsed, FilesSyncedInTime
  <1>1. CASE Files!Refuse(w)
    BY <1>0, <1>1, FilesWriterGoes DEF Files!Refuse, FilesStates
  <1>2. CASE Files!ReadOld(w)
    <2>1. filesOld' = filesOld \/ filesOld' = [filesOld EXCEPT ![w] = filesFile]
      BY <1>2 DEF Files!ReadOld, FilesInv, FilesOldOK
    <2>2. QED BY <1>0, <1>2, <2>1, FilesWriterGoes DEF Files!ReadOld, FilesStates
  <1>3. CASE Files!CreateTemp(w)
    BY <1>0, <1>3, FilesWriterGoes DEF Files!CreateTemp, FilesStates
  <1>4. CASE Files!WriteTemp(w)
    <2>1. CASE filesTemp[w] = "empty" /\ filesTemp' = [filesTemp EXCEPT ![w] = "part"] /\
                 UNCHANGED filesAt
      <3>1. Files!Goes(w, "temp")
        BY <1>4, <2>1 DEF Files!WriteTemp, Files!Goes, FilesInv, FilesAtOK
      <3>2. QED BY <1>0, <1>4, <2>1, <3>1, FilesWriterGoes DEF Files!WriteTemp, FilesStates
    <2>2. CASE filesTemp[w] = "part" /\ filesTemp' = [filesTemp EXCEPT ![w] = "whole"] /\
                 Files!Goes(w, "written")
      BY <1>0, <1>4, <2>2, FilesWriterGoes DEF Files!WriteTemp, FilesStates
    <2>3. QED BY <1>4, <2>1, <2>2 DEF Files!WriteTemp
  <1>5. CASE Files!SyncTemp(w)
    BY <1>0, <1>5, FilesWriterGoes DEF Files!SyncTemp, FilesStates
  <1>6. CASE Files!Rename(w)
    <2>1. filesSynced[w] = TRUE /\ filesDisk' = filesDisk \cup {w}
      BY <1>0, <1>6 DEF Files!Rename
    <2>2. QED BY <1>0, <1>6, <2>1, FilesWriterGoes DEF Files!Rename, FilesStates
  <1>7. CASE Files!WriteFails(w)
    BY <1>0, <1>7, FilesWriterGoes DEF Files!WriteFails, FilesStates
  <1>8. CASE Files!Report(w)
    BY <1>0, <1>8, FilesWriterGoes DEF Files!Report, FilesStates
  <1>9. QED
    BY <1>1, <1>2, <1>3, <1>4, <1>5, <1>6, <1>7, <1>8 DEF Files!WriteFileAtomic

\* A crash, a power loss or the file system: calls end, the path keeps a content the disk
\* has.
LEMMA FilesStopInv ==
    ASSUME FilesMaxStops \in Nat, FilesInv, Files!Crash \/ Files!PowerLoss \/ Files!DirReachesDisk
    PROVE  FilesInv'
  <1>1. /\ filesStops \in 0..FilesMaxStops /\ filesAt \in [FilesWriters -> FilesStates]
        /\ filesFile \in FilesWhole /\ filesDisk \subseteq FilesWhole
    BY DEF FilesInv, FilesSyncedOK, FilesAtOK
  <1>2. UNCHANGED <<filesOld, filesTemp, filesSynced, filesDiffs>>
    BY DEF Files!Crash, Files!PowerLoss, Files!DirReachesDisk
  <1>3. \/ filesStops' = filesStops /\ filesAt' = filesAt
        \/ filesStops < FilesMaxStops /\ filesStops' = filesStops + 1 /\ filesAt' = Files!Stopped
    BY DEF Files!Crash, Files!PowerLoss, Files!DirReachesDisk
  <1>4. filesFile' \in filesDisk \cup {filesFile} /\ filesDisk' \subseteq filesDisk \cup {filesFile}
    BY DEF Files!Crash, Files!PowerLoss, Files!DirReachesDisk
  <1>5. /\ FilesAtOK' /\ filesStops' \in 0..FilesMaxStops /\ (filesStops' = 0 =>
             filesStops = 0 /\ filesAt' = filesAt)
        /\ \A w \in FilesWriters :
             /\ filesAt'[w] = filesAt[w] \/ filesAt'[w] = "failed"
             /\ filesAt[w] \in FilesOver => filesAt'[w] \in FilesOver
    <2>1. CASE filesStops' = filesStops /\ filesAt' = filesAt
      BY <1>1, <2>1 DEF FilesAtOK
    <2>2. CASE filesStops < FilesMaxStops /\ filesStops' = filesStops + 1 /\
                 filesAt' = Files!Stopped
      <3>1. filesStops' \in 0..FilesMaxStops /\ filesStops' # 0
        BY <1>1, <2>2
      <3>2. QED BY <1>1, <2>2, <3>1 DEF FilesAtOK, Files!Stopped, FilesStates, FilesOver
    <2>3. QED BY <1>3, <2>1, <2>2
  <1>6. FilesOldOK' /\ FilesTempOK' /\ FilesSyncedOK' /\ FilesToldAreWhole' /\ FilesOldIsOther'
    BY <1>2, <1>5 DEF FilesInv, FilesOldOK, FilesTempOK, FilesSyncedOK, FilesToldAreWhole,
       FilesOldIsOther
  <1>7. FilesSyncedInTime' /\ FilesTempIsUsed' /\ Files!NoTempIsLeft'
    BY <1>2, <1>5 DEF FilesInv, FilesSyncedInTime, FilesTempIsUsed, Files!NoTempIsLeft
  <1>8. FilesUnwritten'
    BY <1>2, <1>4, <1>5 DEF FilesInv, FilesUnwritten
  <1>9. filesFile' \in FilesWhole /\ filesDisk' \subseteq FilesWhole
    BY <1>1, <1>4
  <1>10. QED BY <1>5, <1>6, <1>7, <1>8, <1>9 DEF FilesInv

\* Every step keeps the invariant.
LEMMA FilesNextInv == ASSUME FilesMaxStops \in Nat, FilesInv, [Files!Next]_Files!vars
  PROVE FilesInv'
  <1>1. CASE UNCHANGED Files!vars
    BY <1>1 DEF Files!vars, FilesInv, FilesAtOK, FilesOldOK, FilesTempOK, FilesSyncedOK,
       FilesSyncedInTime, FilesTempIsUsed,
                FilesUnwritten, FilesToldAreWhole, FilesOldIsOther, Files!NoTempIsLeft
  <1>2. QED BY <1>1, FilesWriteFileAtomicInv, FilesStopInv DEF Files!Next

-----------------------------------------------------------------------------
\* Every state is well typed, however many writers and stops there are.
THEOREM FilesTypeCorrect ==
    ASSUME FilesOwnContents, FilesMaxStops \in Nat
    PROVE  Files!Spec => []Files!TypeOK
  <1>1. FilesInv => Files!TypeOK
    BY Zenon DEF FilesInv, Files!TypeOK, FilesOldOK, FilesTempOK, FilesSyncedOK, FilesWhole
  <1>2. QED BY <1>1, FilesInitInv, FilesNextInv, PTL DEF Files!Spec

\* Whoever reads the path finds a content some call wrote as a whole, or the first: between
\* the steps of any number of calls, after their failures and after any number of crashes
\* and power losses (WriteFileAtomic of file.go).
THEOREM ReadersSeeWholeFiles ==
    ASSUME FilesOwnContents, FilesMaxStops \in Nat
    PROVE  Files!Spec => []Files!FilesAreWhole
  <1>1. FilesInv => Files!FilesAreWhole
    BY Zenon DEF FilesInv, Files!FilesAreWhole, FilesWhole
  <1>2. QED BY <1>1, FilesInitInv, FilesNextInv, PTL DEF Files!Spec

\* As long as nothing was stopped, a call that has ended leaves no temporary file behind
\* (the deferred os.Remove).
THEOREM CallsCleanUp ==
    ASSUME FilesOwnContents, FilesMaxStops \in Nat
    PROVE  Files!Spec => []Files!NoTempIsLeft
  <1>1. FilesInv => Files!NoTempIsLeft
    BY DEF FilesInv
  <1>2. QED BY <1>1, FilesInitInv, FilesNextInv, PTL DEF Files!Spec

\* Every FileDiff names two different contents, and the older one was at the path before
\* (execWriteFileToolInternal).
THEOREM DiffsAreTrue ==
    ASSUME FilesOwnContents, FilesMaxStops \in Nat
    PROVE  Files!Spec => []Files!DiffsAreOfThePath
  <1>1. FilesInv => Files!DiffsAreOfThePath
    BY Zenon DEF FilesInv, Files!DiffsAreOfThePath, FilesToldAreWhole, FilesUnwritten, FilesOver,
       FilesWhole
  <1>2. QED BY <1>1, FilesInitInv, FilesNextInv, PTL DEF Files!Spec

-----------------------------------------------------------------------------
(***************************************************************************)
(* Proofs about JobCommand, for every number of jobs, every depth of the   *)
(* stack and every number of restarts.                                     *)
(***************************************************************************)

(* What the flags ask for.                                                 *)

\* A worker's default is no sandbox or one with a type that needs something.
CommandDefaultIsReal == commandDefault.type # "none"

\* The flags that are accepted give a spec, or nothing.
LEMMA CommandBuildSandboxType ==
    ASSUME NEW f \in Command!Flags, Command!SubmitIsSound(f)
    PROVE  Command!buildSandbox(f) \in Command!Specs \cup {Command!Nothing}
  BY DEF Command!Flags, Command!SubmitIsSound, Command!buildSandbox, Command!Specs,
     Command!Nothing, Command!parseSandboxTypeFlag

\* Defaults are well typed, and none of them is the type none.
LEMMA CommandBuildDefaultType ==
    ASSUME NEW type \in {"", "none", "nsjail", "docker"}, NEW bin \in {"", "custom"}
    PROVE  /\ Command!buildDefaultSandbox(type, bin) \in Command!Specs \cup {Command!Nothing}
           /\ Command!buildDefaultSandbox(type, bin).type # "none"
  BY DEF Command!buildDefaultSandbox, Command!parseSandboxType, Command!Specs, Command!Nothing

-----------------------------------------------------------------------------
(* The spec that wrapWithSandbox sees: before the submit there is none;    *)
(* then it is what was asked for, or nothing once the worker has fallen    *)
(* back.                                                                   *)

CommandSpecIsAsked ==
    \A j \in CommandJobs :
        \/ commandAt[j] \in {"flags", "refused"} /\ commandRuns[j] = ""
        \/ commandSpec[j] = Command!Asked(j)
        \/ commandFallback /\ commandSpec[j] = Command!Nothing

\* Only jobs whose Execute has begun have a workspace.
CommandDirsOfStarted == \A j \in commandDirs :
  commandAt[j] \in (Command!InFlight \ {"accepted"}) \cup {"lost"}

CommandInv == Command!TypeOK /\ CommandDefaultIsReal /\ CommandSpecIsAsked /\
  Command!HostNeedsLeave /\ Command!SandboxIsAsAsked /\ CommandDirsOfStarted

\* No job has been submitted.
LEMMA CommandInitInv == ASSUME CommandMaxDepth \in Nat \ {0}, CommandMaxStarts \in Nat \ {0},
  Command!Init PROVE CommandInv
  <1>1. commandDefault \in Command!Specs \cup {Command!Nothing} /\ CommandDefaultIsReal
    BY CommandBuildDefaultType DEF Command!Init, CommandDefaultIsReal
  <1>2. Command!TypeOK
    <2>1. commandDepth \in [CommandJobs -> 0..CommandMaxDepth] /\
            commandStarts \in 0..CommandMaxStarts
      <3>1. 0 \in 0..CommandMaxDepth /\ 1 \in 0..CommandMaxStarts
        OBVIOUS
      <3>2. QED BY <3>1 DEF Command!Init
    <2>2. commandFlags \in [CommandJobs -> Command!Flags] /\
            commandAt \in [CommandJobs -> {"flags"}] /\ commandRuns \in [CommandJobs -> {""}]
      BY DEF Command!Init
    <2>3. commandSpec \in [CommandJobs -> Command!Specs \cup {Command!Nothing}] /\
            commandDirs \subseteq CommandJobs
      BY DEF Command!Init
    <2>4. commandFallback \in BOOLEAN /\ commandWorker \in BOOLEAN /\
            commandHas \subseteq {"nsjail", "custom"}
      BY DEF Command!Init
    <2>5. QED BY <1>1, <2>1, <2>2, <2>3, <2>4 DEF Command!TypeOK
  <1>3. CommandSpecIsAsked /\ Command!HostNeedsLeave /\ Command!SandboxIsAsAsked /\
          CommandDirsOfStarted
    BY DEF Command!Init, CommandSpecIsAsked, Command!HostNeedsLeave, Command!SandboxIsAsAsked,
       CommandDirsOfStarted
  <1>4. QED BY <1>1, <1>2, <1>3 DEF CommandInv

\* The process of one job is chosen: the others' keep what they were promised.
LEMMA CommandOthersAsAsked ==
    ASSUME Command!SandboxIsAsAsked, NEW j \in CommandJobs, UNCHANGED <<commandDefault,
             commandFallback, commandFlags>>,
           \A k \in CommandJobs : Command!Asked(k)' = Command!Asked(k),
           \A k \in CommandJobs \ {j} : commandRuns'[k] = commandRuns[k],
           ~commandFallback /\ Command!Asked(j) # Command!Nothing =>
               \/ Command!Asked(j).type = "none" /\ commandRuns'[j] = "host"
               \/ Command!Asked(j).type = "nsjail" /\
                    commandRuns'[j] = Command!Bin(Command!Asked(j))
               \/ Command!Asked(j).type = "docker" /\ commandRuns'[j] = "docker"
    PROVE  Command!SandboxIsAsAsked'
  <1>1. SUFFICES ASSUME NEW k \in CommandJobs, commandRuns'[k] # "", ~commandFallback',
                   Command!Asked(k)' # Command!Nothing
                 PROVE  \/ Command!Asked(k).type = "none" /\ commandRuns'[k] = "host"
                        \/ Command!Asked(k).type = "nsjail" /\
                             commandRuns'[k] = Command!Bin(Command!Asked(k))
                        \/ Command!Asked(k).type = "docker" /\ commandRuns'[k] = "docker"
    BY DEF Command!SandboxIsAsAsked, Command!Bin, Command!Nothing
  <1>2. CASE k = j
    BY <1>1, <1>2
  <1>3. CASE k # j
    BY <1>1, <1>3 DEF Command!SandboxIsAsAsked
  <1>4. QED BY <1>2, <1>3

\* The process of a job is chosen: what it runs in is what the spec says, or the default.
LEMMA CommandWrapIsRight ==
    ASSUME CommandInv, NEW j \in CommandJobs, Command!WrapPlain(j) \/ Command!WrapNsjail(j)
    PROVE  Command!HostNeedsLeave' /\ Command!SandboxIsAsAsked'
  <1>1. /\ commandSpec[j] = Command!Asked(j) \/ (commandFallback /\
             commandSpec[j] = Command!Nothing)
        /\ commandSpec[j] \in Command!Specs \cup {Command!Nothing} /\
             commandDefault \in Command!Specs \cup {Command!Nothing}
        /\ commandFlags[j] \in Command!Flags
        /\ commandDefault.type # "none"
    BY DEF CommandInv, CommandSpecIsAsked, Command!TypeOK, CommandDefaultIsReal, Command!WrapPlain,
       Command!WrapNsjail
  <1>2. UNCHANGED <<commandDefault, commandFallback, commandFlags>> /\
          \A k \in CommandJobs : Command!Asked(k)' = Command!Asked(k)
    BY DEF Command!WrapPlain, Command!WrapNsjail, Command!config, Command!Asked
  <1>3. \A k \in CommandJobs \ {j} : commandRuns'[k] = commandRuns[k]
    BY DEF Command!WrapPlain, Command!WrapNsjail, Command!RunsIn, CommandInv, Command!TypeOK
  <1>4. CASE Command!Effective(j).type \in {"", "none"} /\ commandRuns'[j] = "host"
    <2>1. commandFallback \/ Command!Asked(j).type = "none" \/
            (Command!Asked(j) = Command!Nothing /\ commandDefault = Command!Nothing)
      BY <1>1, <1>4 DEF Command!Effective, Command!Specs, Command!Nothing
    <2>2. ~commandFallback /\ Command!Asked(j) # Command!Nothing => Command!Asked(j).type = "none"
      BY <2>1
    <2>3. Command!HostNeedsLeave'
      BY <1>2, <1>3, <2>1 DEF Command!HostNeedsLeave, CommandInv
    <2>4. Command!SandboxIsAsAsked'
      BY <1>2, <1>3, <1>4, <2>2, CommandOthersAsAsked DEF CommandInv
    <2>5. QED BY <2>3, <2>4
  <1>5. CASE Command!Effective(j).type = "docker" /\ commandRuns'[j] = "docker"
    <2>1. ~commandFallback /\ Command!Asked(j) # Command!Nothing => Command!Asked(j).type = "docker"
      BY <1>1, <1>5 DEF Command!Effective
    <2>2. Command!HostNeedsLeave'
      BY <1>2, <1>3, <1>5 DEF Command!HostNeedsLeave, CommandInv
    <2>3. Command!SandboxIsAsAsked'
      BY <1>2, <1>3, <1>5, <2>1, CommandOthersAsAsked DEF CommandInv
    <2>4. QED BY <2>2, <2>3
  <1>6. CASE Command!Effective(j).type = "nsjail" /\
               commandRuns'[j] = Command!Bin(Command!Effective(j))
    <2>1. ~commandFallback /\ Command!Asked(j) # Command!Nothing =>
            Command!Asked(j) = Command!Effective(j)
      BY <1>1 DEF Command!Effective
    <2>2. Command!Bin(Command!Effective(j)) \in {"nsjail", "custom"}
      <3>1. Command!Effective(j) \in Command!Specs \cup {Command!Nothing}
        BY <1>1 DEF Command!Effective
      <3>2. Command!Effective(j).bin \in {"", "custom"}
        <4>1. CASE Command!Effective(j) \in Command!Specs
          BY <4>1 DEF Command!Specs
        <4>2. CASE Command!Effective(j) = Command!Nothing
          <5>1. Command!Nothing.bin = ""
            BY DEF Command!Nothing
          <5>2. QED BY <4>2, <5>1
        <4>3. QED BY <3>1, <4>1, <4>2
      <3>3. QED BY <3>2 DEF Command!Bin
    <2>3. Command!HostNeedsLeave'
      BY <1>2, <1>3, <1>6, <2>2 DEF Command!HostNeedsLeave, CommandInv
    <2>4. Command!SandboxIsAsAsked'
      BY <1>2, <1>3, <1>6, <2>1, CommandOthersAsAsked DEF CommandInv
    <2>5. QED BY <2>3, <2>4
  <1>7. QED
    BY <1>4, <1>5, <1>6 DEF Command!WrapPlain, Command!WrapNsjail, Command!RunsIn, CommandInv,
       Command!TypeOK

\* A step that leaves every process and what was asked for alone.
LEMMA CommandProcessesKept ==
    ASSUME CommandInv, UNCHANGED <<Command!config, commandRuns>>
    PROVE  Command!HostNeedsLeave' /\ Command!SandboxIsAsAsked' /\ CommandDefaultIsReal'
  BY DEF CommandInv, Command!config, Command!HostNeedsLeave, Command!SandboxIsAsAsked,
     CommandDefaultIsReal, Command!Asked

-----------------------------------------------------------------------------
(* One lemma per action.                                                   *)

\* A job that is not accepted.
LEMMA CommandSubmitFailsInv == ASSUME CommandInv, NEW j \in CommandJobs,
  Command!SubmitFails(j) PROVE CommandInv'
  <1>1. Command!TypeOK'
    BY DEF CommandInv, Command!TypeOK, Command!SubmitFails, Command!Goes, Command!config,
       Command!InFlight
  <1>2. CommandSpecIsAsked'
    BY DEF CommandInv, Command!TypeOK, CommandSpecIsAsked, Command!SubmitFails, Command!Goes,
       Command!config, Command!Asked, Command!InFlight
  <1>3. CommandDirsOfStarted'
    BY DEF CommandInv, Command!TypeOK, CommandDirsOfStarted, Command!SubmitFails, Command!Goes,
       Command!InFlight
  <1>4. QED BY <1>1, <1>2, <1>3, CommandProcessesKept DEF CommandInv, Command!SubmitFails

\* A job that is accepted.
LEMMA CommandSubmitJobInv == ASSUME CommandInv, NEW j \in CommandJobs, Command!SubmitJob(j)
  PROVE CommandInv'
  <1>1. Command!TypeOK'
    <2>1. Command!buildSandbox(commandFlags[j]) \in Command!Specs \cup {Command!Nothing}
      BY CommandBuildSandboxType DEF CommandInv, Command!TypeOK, Command!SubmitJob
    <2>2. QED BY <2>1 DEF CommandInv, Command!TypeOK, Command!SubmitJob, Command!Goes,
      Command!config, Command!InFlight
  <1>2. CommandSpecIsAsked'
    BY DEF CommandInv, Command!TypeOK, CommandSpecIsAsked, Command!SubmitJob, Command!Goes,
       Command!config, Command!Asked, Command!InFlight
  <1>3. CommandDirsOfStarted'
    BY DEF CommandInv, Command!TypeOK, CommandDirsOfStarted, Command!SubmitJob, Command!Goes,
       Command!InFlight
  <1>4. QED BY <1>1, <1>2, <1>3, CommandProcessesKept DEF CommandInv, Command!SubmitJob

\* A job goes to the worker.
LEMMA CommandDispatchInv == ASSUME CommandInv, NEW j \in CommandJobs, Command!Dispatch(j)
  PROVE CommandInv'
  <1>1. Command!TypeOK'
    BY DEF CommandInv, Command!TypeOK, Command!Dispatch, Command!Goes, Command!config,
       Command!InFlight
  <1>2. CommandSpecIsAsked'
    BY DEF CommandInv, Command!TypeOK, CommandSpecIsAsked, Command!Dispatch, Command!Goes,
       Command!config, Command!Asked, Command!InFlight
  <1>3. CommandDirsOfStarted'
    BY DEF CommandInv, Command!TypeOK, CommandDirsOfStarted, Command!Dispatch, Command!Goes,
       Command!InFlight
  <1>4. QED BY <1>1, <1>2, <1>3, CommandProcessesKept DEF CommandInv, Command!Dispatch

\* The workspace is there once Execute has begun, or the job has failed.
LEMMA CommandPrepareWorkspaceInv == ASSUME CommandInv, NEW j \in CommandJobs,
  Command!PrepareWorkspace(j) PROVE CommandInv'
  <1>1. Command!TypeOK'
    BY DEF CommandInv, Command!TypeOK, Command!PrepareWorkspace, Command!Goes, Command!config,
       Command!InFlight
  <1>2. CommandSpecIsAsked'
    BY DEF CommandInv, Command!TypeOK, CommandSpecIsAsked, Command!PrepareWorkspace, Command!Goes,
       Command!config, Command!Asked, Command!InFlight
  <1>3. CommandDirsOfStarted'
    <2>1. CASE Command!Goes(j, "prepared") /\ commandDirs' = commandDirs \cup {j}
      BY <2>1 DEF CommandInv, Command!TypeOK, CommandDirsOfStarted, Command!Goes, Command!InFlight
    <2>2. CASE Command!Goes(j, "failed") /\ UNCHANGED commandDirs
      BY <2>2 DEF CommandInv, Command!TypeOK, CommandDirsOfStarted, Command!PrepareWorkspace,
         Command!Goes, Command!InFlight
    <2>3. QED BY <2>1, <2>2 DEF Command!PrepareWorkspace
  <1>4. QED BY <1>1, <1>2, <1>3, CommandProcessesKept DEF CommandInv, Command!PrepareWorkspace

\* The command line is built.
LEMMA CommandBuildCommandInv ==
    ASSUME CommandMaxDepth \in Nat \ {0}, CommandInv, NEW j \in CommandJobs, Command!BuildCommand(j)
    PROVE  CommandInv'
  <1>1. Command!TypeOK'
    <2>1. 1 \in 0..CommandMaxDepth
      OBVIOUS
    <2>2. QED BY <2>1, Zenon DEF CommandInv, Command!TypeOK, Command!BuildCommand, Command!Goes,
      Command!config, Command!InFlight
  <1>2. CommandSpecIsAsked'
    BY DEF CommandInv, Command!TypeOK, CommandSpecIsAsked, Command!BuildCommand, Command!Goes,
       Command!config, Command!Asked, Command!InFlight
  <1>3. CommandDirsOfStarted'
    BY DEF CommandInv, Command!TypeOK, CommandDirsOfStarted, Command!BuildCommand, Command!Goes,
       Command!InFlight
  <1>4. QED BY <1>1, <1>2, <1>3, CommandProcessesKept DEF CommandInv, Command!BuildCommand

\* The two ways into a process: WrapIsRight says what it runs in.
LEMMA CommandWrapInv == ASSUME CommandInv, NEW j \in CommandJobs, Command!WrapPlain(j) \/
  Command!WrapNsjail(j) PROVE CommandInv'
  <1>1. Command!TypeOK'
    BY ZenonT(60) DEF CommandInv, Command!TypeOK, Command!WrapPlain, Command!WrapNsjail,
       Command!RunsIn, Command!Goes, Command!config, Command!InFlight, Command!Effective,
       Command!Bin, Command!Specs, Command!Nothing
  <1>2. CommandSpecIsAsked'
    BY DEF CommandInv, Command!TypeOK, CommandSpecIsAsked, Command!WrapPlain, Command!WrapNsjail,
       Command!RunsIn, Command!Goes, Command!config, Command!Asked, Command!InFlight
  <1>3. CommandDirsOfStarted'
    BY DEF CommandInv, Command!TypeOK, CommandDirsOfStarted, Command!WrapPlain, Command!WrapNsjail,
       Command!RunsIn, Command!Goes, Command!InFlight
  <1>4. CommandDefaultIsReal'
    BY DEF CommandInv, CommandDefaultIsReal, Command!WrapPlain, Command!WrapNsjail, Command!config
  <1>5. QED BY <1>1, <1>2, <1>3, <1>4, CommandWrapIsRight DEF CommandInv

\* A sandbox that is not there.
LEMMA CommandSandboxMissingInv == ASSUME CommandInv, NEW j \in CommandJobs,
  Command!SandboxMissing(j) PROVE CommandInv'
  <1>1. Command!TypeOK'
    BY DEF CommandInv, Command!TypeOK, Command!SandboxMissing, Command!Goes, Command!config,
       Command!InFlight
  <1>2. CommandSpecIsAsked'
    BY DEF CommandInv, Command!TypeOK, CommandSpecIsAsked, Command!SandboxMissing, Command!Goes,
       Command!config, Command!Asked, Command!InFlight
  <1>3. CommandDirsOfStarted'
    BY DEF CommandInv, Command!TypeOK, CommandDirsOfStarted, Command!SandboxMissing, Command!Goes,
       Command!InFlight
  <1>4. QED BY <1>1, <1>2, <1>3, CommandProcessesKept DEF CommandInv, Command!SandboxMissing

\* The worker forgets the spec and calls itself again.
LEMMA CommandFallBackInv ==
    ASSUME CommandMaxDepth \in Nat \ {0}, CommandInv, NEW j \in CommandJobs, Command!FallBack(j)
    PROVE  CommandInv'
  <1>1. Command!TypeOK'
    <2>1. commandDepth[j] \in 0..CommandMaxDepth /\ commandDepth[j] < CommandMaxDepth /\
            commandDepth' = [commandDepth EXCEPT ![j] = commandDepth[j] + 1]
      BY Zenon DEF CommandInv, Command!TypeOK, Command!FallBack
    <2>2. commandDepth[j] + 1 \in 0..CommandMaxDepth
      BY <2>1
    <2>3. commandDepth' \in [CommandJobs -> 0..CommandMaxDepth] /\
            commandSpec' \in [CommandJobs -> Command!Specs \cup {Command!Nothing}]
      BY <2>1, <2>2 DEF CommandInv, Command!TypeOK, Command!FallBack
    <2>4. QED BY <2>3 DEF CommandInv, Command!TypeOK, Command!FallBack, Command!config
  <1>2. CommandSpecIsAsked'
    BY DEF CommandInv, Command!TypeOK, CommandSpecIsAsked, Command!FallBack, Command!config,
       Command!Asked
  <1>3. CommandDirsOfStarted'
    BY DEF CommandInv, Command!TypeOK, CommandDirsOfStarted, Command!FallBack
  <1>4. QED BY <1>1, <1>2, <1>3, CommandProcessesKept DEF CommandInv, Command!FallBack

\* A worker that dies takes its jobs along.
LEMMA CommandStackOverflowInv == ASSUME CommandInv, NEW j \in CommandJobs,
  Command!StackOverflow(j) PROVE CommandInv'
  <1>1. Command!TypeOK'
    BY DEF CommandInv, Command!TypeOK, Command!StackOverflow, Command!config, Command!InFlight
  <1>2. CommandSpecIsAsked'
    BY DEF CommandInv, Command!TypeOK, CommandSpecIsAsked, Command!StackOverflow, Command!config,
       Command!Asked, Command!InFlight
  <1>3. CommandDirsOfStarted'
    BY DEF CommandInv, Command!TypeOK, CommandDirsOfStarted, Command!StackOverflow, Command!InFlight
  <1>4. QED BY <1>1, <1>2, <1>3, CommandProcessesKept DEF CommandInv, Command!StackOverflow

\* A worker starts with no job.
LEMMA CommandStartWorkerInv ==
    ASSUME CommandMaxStarts \in Nat \ {0}, CommandInv, Command!StartWorker
    PROVE  CommandInv'
  <1>1. Command!TypeOK'
    <2>1. commandStarts \in 0..CommandMaxStarts /\ commandStarts < CommandMaxStarts /\
            commandStarts' = commandStarts + 1
      BY Zenon DEF CommandInv, Command!TypeOK, Command!StartWorker
    <2>2. commandStarts' \in 0..CommandMaxStarts
      BY <2>1
    <2>3. QED BY <2>2 DEF CommandInv, Command!TypeOK, Command!StartWorker, Command!config
  <1>2. CommandSpecIsAsked'
    BY DEF CommandInv, Command!TypeOK, CommandSpecIsAsked, Command!StartWorker, Command!config,
       Command!Asked
  <1>3. CommandDirsOfStarted'
    BY DEF CommandInv, Command!TypeOK, CommandDirsOfStarted, Command!StartWorker
  <1>4. QED BY <1>1, <1>2, <1>3, CommandProcessesKept DEF CommandInv, Command!StartWorker

\* The command starts.
LEMMA CommandStartInv == ASSUME CommandInv, NEW j \in CommandJobs, Command!Start(j)
  PROVE CommandInv'
  <1>1. Command!TypeOK'
    BY DEF CommandInv, Command!TypeOK, Command!Start, Command!Goes, Command!config, Command!InFlight
  <1>2. CommandSpecIsAsked'
    BY DEF CommandInv, Command!TypeOK, CommandSpecIsAsked, Command!Start, Command!Goes,
       Command!config, Command!Asked, Command!InFlight
  <1>3. CommandDirsOfStarted'
    BY DEF CommandInv, Command!TypeOK, CommandDirsOfStarted, Command!Start, Command!Goes,
       Command!InFlight
  <1>4. QED BY <1>1, <1>2, <1>3, CommandProcessesKept DEF CommandInv, Command!Start

\* The command ends.
LEMMA CommandEndInv == ASSUME CommandInv, NEW j \in CommandJobs, Command!End(j) PROVE CommandInv'
  <1>1. Command!TypeOK'
    BY DEF CommandInv, Command!TypeOK, Command!End, Command!Goes, Command!config, Command!InFlight
  <1>2. CommandSpecIsAsked'
    BY DEF CommandInv, Command!TypeOK, CommandSpecIsAsked, Command!End, Command!Goes,
       Command!config, Command!Asked, Command!InFlight
  <1>3. CommandDirsOfStarted'
    BY DEF CommandInv, Command!TypeOK, CommandDirsOfStarted, Command!End, Command!Goes,
       Command!InFlight
  <1>4. QED BY <1>1, <1>2, <1>3, CommandProcessesKept DEF CommandInv, Command!End

\* Every step keeps the invariant.
LEMMA CommandNextInv ==
    ASSUME CommandMaxDepth \in Nat \ {0}, CommandMaxStarts \in Nat \ {0}, CommandInv,
             [Command!Next]_Command!vars
    PROVE  CommandInv'
  <1>1. CASE Command!StartWorker
    BY <1>1, CommandStartWorkerInv
  <1>2. ASSUME NEW j \in CommandJobs, Command!Client(j) PROVE CommandInv'
    BY <1>2, CommandSubmitFailsInv, CommandSubmitJobInv, CommandDispatchInv DEF Command!Client
  <1>3. ASSUME NEW j \in CommandJobs, Command!Execute(j) PROVE CommandInv'
    BY <1>3, CommandPrepareWorkspaceInv, CommandBuildCommandInv, CommandWrapInv,
       CommandSandboxMissingInv, CommandFallBackInv,
       CommandStackOverflowInv, CommandStartInv, CommandEndInv DEF Command!Execute,
       Command!wrapWithSandbox
  <1>4. CASE UNCHANGED Command!vars
    BY <1>4 DEF Command!vars, CommandInv, Command!TypeOK, CommandDefaultIsReal, CommandSpecIsAsked,
       Command!HostNeedsLeave, Command!SandboxIsAsAsked,
                CommandDirsOfStarted, Command!Asked
  <1>5. QED BY <1>1, <1>2, <1>3, <1>4 DEF Command!Next

-----------------------------------------------------------------------------
\* Every state is well typed, however many jobs, calls on the stack and restarts there are.
THEOREM CommandTypeCorrect ==
    ASSUME CommandMaxDepth \in Nat \ {0}, CommandMaxStarts \in Nat \ {0}
    PROVE  Command!Spec => []Command!TypeOK
  <1>1. CommandInv => Command!TypeOK
    BY DEF CommandInv
  <1>2. QED BY <1>1, CommandInitInv, CommandNextInv, PTL DEF Command!Spec

\* No process runs outside a sandbox, or in another one than its job asked for, unless the
\* job or the worker's flags allow it (wrapWithSandbox of runner.go).
THEOREM CommandsStaySandboxed ==
    ASSUME CommandMaxDepth \in Nat \ {0}, CommandMaxStarts \in Nat \ {0}
    PROVE  Command!Spec => [](Command!HostNeedsLeave /\ Command!SandboxIsAsAsked)
  <1>1. CommandInv => Command!HostNeedsLeave /\ Command!SandboxIsAsAsked
    BY DEF CommandInv
  <1>2. QED BY <1>1, CommandInitInv, CommandNextInv, PTL DEF Command!Spec

\* Only jobs that run, or that the end of the worker has caught, have a workspace (Execute).
THEOREM WorkspacesGo ==
    ASSUME CommandMaxDepth \in Nat \ {0}, CommandMaxStarts \in Nat \ {0}
    PROVE  Command!Spec => []Command!WorkspacesAreRemoved
  <1>1. CommandInv => Command!WorkspacesAreRemoved
    BY DEF CommandInv, CommandDirsOfStarted, Command!WorkspacesAreRemoved
  <1>2. QED BY <1>1, CommandInitInv, CommandNextInv, PTL DEF Command!Spec

-----------------------------------------------------------------------------
(***************************************************************************)
(* Proofs about ToolExec, for any limit of the buffers and any length of   *)
(* the output: what the readers hand on comes before the result and is all *)
(* there.                                                                  *)
(***************************************************************************)

ToolToolBounds == ToolLimit \in Nat /\ ToolMaxOut \in Nat

ToolTypes ==
    /\ toolMode \in {"pipes", "pty"} /\ toolCapture \in BOOLEAN /\ toolChild \in BOOLEAN /\
         toolCanceled \in BOOLEAN
    /\ toolProc \in {"run", "killed", "dead", "waited"}
    /\ toolWritten \in [Tool!All -> Nat] /\ toolRead \in [Tool!All -> Nat] /\
         toolEvents \in [Tool!All -> Nat]
    /\ toolKept \in [Tool!All -> Nat] /\ toolCut \in [Tool!All -> BOOLEAN]
    /\ toolReader \in [Tool!All -> {"read", "keep", "say", "end"}]
    /\ \A s \in Tool!All : toolEvents[s] <= toolRead[s] /\ toolRead[s] <= toolWritten[s] /\
         toolWritten[s] <= ToolMaxOut
ToolResultOK == toolResult \in {"", "0", "1", "-1"}
ToolReturned == toolResult # ""

\* What has been read and is not in an event yet is in the hands of the reader.
ToolSaidBefore(s) == toolReader[s] \in {"read", "end"} => toolEvents[s] = toolRead[s]

\* A buffer holds the beginning of what was given to it, and says if there was more.
ToolGiven(s) == IF toolReader[s] = "say" THEN toolRead[s] ELSE toolEvents[s]
ToolLimited(s) ==
    /\ ToolGiven(s) <= ToolLimit => toolKept[s] = ToolGiven(s) /\ ~toolCut[s]
    /\ ToolGiven(s) > ToolLimit => toolKept[s] = ToolLimit /\ toolCut[s]

\* A terminal is read until nobody can write to it, unless the call is canceled.
ToolPtyEnd == toolMode = "pty" /\ toolReader["pty"] = "end" /\ ~toolCanceled =>
    toolRead["pty"] = toolWritten["pty"] /\ ~Tool!Holds

\* The result waits for the readers.
ToolDone == ToolReturned => \A s \in Tool!Streams : toolReader[s] = "end"

ToolKept ==
    /\ \A s \in Tool!All : ToolSaidBefore(s) /\ (toolCapture => ToolLimited(s))
    /\ \A s \in Tool!All : toolReader[s] = "keep" => toolCapture
    /\ ToolPtyEnd

ToolInv == ToolTypes /\ ToolKept /\ ToolDone /\ ToolResultOK

\* Nothing has been written.
LEMMA ToolInitInv == ASSUME ToolToolBounds, Tool!Init PROVE ToolInv
  <1>1. /\ toolMode \in {"pipes", "pty"} /\ toolCapture \in BOOLEAN /\ toolChild \in BOOLEAN
        /\ toolProc = "run" /\ toolCanceled = FALSE /\ ~ToolReturned /\ ToolResultOK
        /\ toolWritten = [s \in Tool!All |-> 0] /\ toolRead = toolWritten /\
             toolEvents = toolWritten /\ toolKept = toolWritten
        /\ toolCut = [s \in Tool!All |-> FALSE] /\ toolReader = [s \in Tool!All |-> "read"]
    BY Zenon DEF Tool!Init, ToolReturned, ToolResultOK
  <1>2. ToolTypes
    <2>1. /\ toolWritten \in [Tool!All -> Nat] /\ toolRead \in [Tool!All -> Nat] /\
               toolEvents \in [Tool!All -> Nat]
          /\ toolKept \in [Tool!All -> Nat] /\ toolCut \in [Tool!All -> BOOLEAN]
          /\ toolReader \in [Tool!All -> {"read", "keep", "say", "end"}]
      BY <1>1
    <2>2. \A s \in Tool!All : toolEvents[s] = 0 /\ toolRead[s] = 0 /\ toolWritten[s] = 0
      BY <1>1
    <2>3. \A s \in Tool!All : toolEvents[s] <= toolRead[s] /\ toolRead[s] <= toolWritten[s] /\
            toolWritten[s] <= ToolMaxOut
      BY <2>2 DEF ToolToolBounds
    <2>4. /\ toolProc \in {"run", "killed", "dead", "waited"} /\ toolCanceled \in BOOLEAN
      BY <1>1
    <2>5. QED
      BY <1>1, <2>1, <2>3, <2>4, Zenon DEF ToolTypes
  <1>3. ToolKept
    BY <1>1 DEF ToolToolBounds, ToolKept, ToolSaidBefore, ToolLimited, ToolGiven, ToolPtyEnd,
       Tool!All
  <1>4. QED
    BY <1>1, <1>2, <1>3 DEF ToolInv, ToolDone

\* A step that changes neither the readers' state nor the result.
LEMMA ToolFrameDone ==
    ASSUME ToolDone, ToolResultOK, toolResult' = toolResult, toolMode' = toolMode,
           \A s \in Tool!Streams : toolReader[s] = "end" => toolReader'[s] = "end"
    PROVE  ToolDone' /\ ToolResultOK'
  BY Zenon DEF ToolDone, ToolResultOK, ToolReturned, Tool!Streams

\* While the readers work, a byte more is written.
LEMMA ToolWriteInv == ASSUME ToolToolBounds, ToolInv, NEW s \in Tool!All, Tool!Write(s)
  PROVE ToolInv'
  <1>0. /\ Tool!Holds /\ toolWritten[s] < ToolMaxOut /\
             toolWritten' = [toolWritten EXCEPT ![s] = @ + 1]
        /\ UNCHANGED <<toolMode, toolCapture, toolProc, toolChild, toolRead, toolEvents, toolKept,
             toolCut, toolReader, toolCanceled>>
        /\ toolResult' = toolResult
    BY Zenon DEF Tool!Write
  <1>t. ToolTypes
    BY DEF ToolInv
  <1>1. /\ toolWritten' \in [Tool!All -> Nat] /\ toolWritten'[s] = toolWritten[s] + 1
        /\ \A r \in Tool!All : r # s => toolWritten'[r] = toolWritten[r]
    BY <1>0, <1>t DEF ToolTypes
  <1>2. ToolTypes'
    <2>1. \A r \in Tool!All :
            /\ toolEvents[r] \in Nat /\ toolRead[r] \in Nat /\ toolWritten[r] \in Nat
            /\ toolEvents[r] <= toolRead[r] /\ toolRead[r] <= toolWritten[r] /\
                 toolWritten[r] <= ToolMaxOut
      BY <1>t DEF ToolTypes
    <2>2. \A r \in Tool!All : toolEvents[r] <= toolRead[r] /\ toolRead[r] <= toolWritten'[r] /\
            toolWritten'[r] <= ToolMaxOut
      BY <1>0, <1>1, <2>1 DEF ToolToolBounds
    <2>3. QED
      BY <1>0, <1>1, <1>t, <2>2 DEF ToolTypes
  <1>3. ToolKept'
    BY <1>0, <1>t DEF ToolInv, ToolKept, ToolSaidBefore, ToolLimited, ToolGiven, ToolPtyEnd,
       Tool!Holds
  <1>4. QED
    BY <1>0, <1>2, <1>3, ToolFrameDone DEF ToolInv

\* Whoever held the output open lets go of it.
LEMMA ToolProcessEndsInv == ASSUME ToolInv, Tool!ProcessEnds PROVE ToolInv'
  <1>t. ToolTypes
    BY DEF ToolInv
  <1>1. ToolTypes'
    BY <1>t DEF Tool!ProcessEnds, ToolTypes
  <1>2. ToolKept'
    BY <1>t DEF Tool!ProcessEnds, ToolInv, ToolTypes, ToolKept, ToolSaidBefore, ToolLimited,
       ToolGiven, ToolPtyEnd, Tool!Holds
  <1>3. QED
    BY <1>1, <1>2, ToolFrameDone DEF Tool!ProcessEnds, ToolInv

\* A cancel ends the process and leaves the readers alone.
LEMMA ToolCancelInv == ASSUME ToolInv, Tool!Cancel PROVE ToolInv'
  <1>0. /\ toolCanceled' = TRUE /\ toolProc' = IF toolProc = "run" THEN "killed" ELSE toolProc
        /\ UNCHANGED <<toolMode, toolCapture, toolChild, toolWritten, toolRead, toolEvents,
             toolKept, toolCut, toolReader>>
        /\ toolResult' = toolResult
    BY Zenon DEF Tool!Cancel
  <1>t. ToolTypes
    BY DEF ToolInv
  <1>1. ToolTypes'
    BY <1>0, <1>t DEF ToolTypes
  <1>2. ToolKept'
    BY <1>0, <1>t DEF ToolInv, ToolKept, ToolSaidBefore, ToolLimited, ToolGiven, ToolPtyEnd,
       Tool!Holds
  <1>3. QED
    BY <1>0, <1>1, <1>2, ToolFrameDone DEF ToolInv

\* What has been read is in the hands of the reader.
LEMMA ToolReadInv == ASSUME ToolInv, NEW s \in Tool!All, Tool!Read(s) PROVE ToolInv'
  <1>t. ToolTypes
    BY DEF ToolInv
  <1>0. PICK n \in 1..(toolWritten[s] - toolRead[s]) : toolRead' = [toolRead EXCEPT ![s] = @ + n]
    BY DEF Tool!Read
  <1>1. /\
             UNCHANGED <<toolMode, toolCapture, toolProc, toolChild, toolWritten, toolEvents,
               toolKept, toolCut, toolCanceled, toolResult>>
        /\ toolReader[s] = "read" /\
             toolReader' = [toolReader EXCEPT ![s] = IF toolCapture THEN "keep" ELSE "say"]
        /\ n \in Nat /\ toolRead[s] + n <= toolWritten[s] /\ toolRead'[s] = toolRead[s] + n
        /\ \A r \in Tool!All : r # s => toolRead'[r] = toolRead[r] /\ toolReader'[r] = toolReader[r]
    BY <1>t, <1>0 DEF Tool!Read, ToolTypes
  <1>2. ToolTypes'
    BY <1>t, <1>0, <1>1 DEF ToolTypes
  <1>3. toolReader'[s] = IF toolCapture THEN "keep" ELSE "say"
    BY <1>t, <1>1 DEF ToolTypes
  <1>4. ToolKept'
    BY <1>t, <1>1, <1>3 DEF ToolInv, ToolTypes, ToolKept, ToolSaidBefore, ToolLimited, ToolGiven,
       ToolPtyEnd, Tool!Holds, Tool!All
  <1>5. QED
    BY <1>1, <1>2, <1>4, ToolFrameDone DEF ToolInv, Tool!Streams, Tool!All

\* The buffer takes what still fits.
LEMMA ToolLimitedWriteInv == ASSUME ToolToolBounds, ToolInv, NEW s \in Tool!All,
  Tool!LimitedWrite(s) PROVE ToolInv'
  <1>t. ToolTypes
    BY DEF ToolInv
  <1>0. PICK n \in Nat : n = toolRead[s] - toolEvents[s]
    BY <1>t DEF ToolTypes
  <1>1. /\
             UNCHANGED <<toolMode, toolCapture, toolProc, toolChild, toolWritten, toolRead,
               toolEvents, toolCanceled, toolResult>>
        /\ toolReader[s] = "keep" /\ toolReader' = [toolReader EXCEPT ![s] = "say"]
        /\ toolKept' = [toolKept EXCEPT ![s] =
             IF toolKept[s] + n > ToolLimit THEN ToolLimit ELSE toolKept[s] + n]
        /\ toolCut' = [toolCut EXCEPT ![s] = (toolCut[s] \/ toolKept[s] + n > ToolLimit)]
    BY <1>0 DEF Tool!LimitedWrite
  <1>2. toolKept' \in [Tool!All -> Nat]
    BY <1>t, <1>0, <1>1 DEF ToolTypes, ToolToolBounds
  <1>3. toolCut' \in [Tool!All -> BOOLEAN]
    <2>1. (toolCut[s] \/ toolKept[s] + n > ToolLimit) \in BOOLEAN
      OBVIOUS
    <2>2. QED
      BY <1>t, <1>1, <2>1, Zenon DEF ToolTypes
  <1>4. ToolTypes'
    BY <1>t, <1>1, <1>2, <1>3 DEF ToolTypes
  <1>5. /\ \A r \in Tool!All : r # s =>
             toolReader'[r] = toolReader[r] /\ toolKept'[r] = toolKept[r] /\
               (toolCut'[r] <=> toolCut[r])
        /\ toolReader'[s] = "say" /\
             toolKept'[s] = (IF toolKept[s] + n > ToolLimit THEN ToolLimit ELSE toolKept[s] + n)
    BY <1>t, <1>1 DEF ToolTypes
  <1>6. toolCut'[s] <=> (toolCut[s] \/ toolKept[s] + n > ToolLimit)
    BY <1>t, <1>1, Zenon DEF ToolTypes
  <1>7. ToolLimited(s)'
    <2>1. ToolLimited(s) /\ ToolGiven(s) = toolEvents[s] /\ ToolGiven(s)' = toolRead[s] /\
            toolRead[s] = toolEvents[s] + n
      BY <1>t, <1>0, <1>1, <1>5 DEF ToolInv, ToolKept, ToolGiven, ToolTypes
    <2>2. toolKept[s] \in Nat /\ toolEvents[s] \in Nat /\ toolRead[s] \in Nat
      BY <1>t DEF ToolTypes
    <2>3. CASE toolEvents[s] > ToolLimit
      BY <1>0, <1>5, <1>6, <2>1, <2>2, <2>3 DEF ToolLimited, ToolToolBounds
    <2>4. CASE toolEvents[s] <= ToolLimit
      BY <1>0, <1>5, <1>6, <2>1, <2>2, <2>4 DEF ToolLimited, ToolToolBounds
    <2>5. QED
      BY <2>2, <2>3, <2>4 DEF ToolToolBounds
  <1>8. \A r \in Tool!All : r # s /\ toolCapture => ToolLimited(r)'
    BY <1>t, <1>1, <1>5 DEF ToolInv, ToolKept, ToolLimited, ToolGiven
  <1>9. ToolKept'
    BY <1>t, <1>1, <1>5, <1>7, <1>8 DEF ToolInv, ToolKept, ToolSaidBefore, ToolPtyEnd, Tool!Holds,
       Tool!All
  <1>10. QED
    BY <1>1, <1>4, <1>5, <1>9, ToolFrameDone DEF ToolInv, Tool!Streams, Tool!All

\* What was read is in an event.
LEMMA ToolSayInv == ASSUME ToolToolBounds, ToolInv, NEW s \in Tool!All, Tool!Say(s) PROVE ToolInv'
  <1>t. ToolTypes
    BY DEF ToolInv
  <1>1. /\
             UNCHANGED <<toolMode, toolCapture, toolProc, toolChild, toolWritten, toolRead,
               toolKept, toolCut, toolCanceled, toolResult>>
        /\ toolReader[s] = "say" /\ toolReader'[s] = "read" /\ toolEvents'[s] = toolRead[s]
        /\ \A r \in Tool!All : r # s =>
             toolReader'[r] = toolReader[r] /\ toolEvents'[r] = toolEvents[r]
    BY <1>t DEF Tool!Say, ToolTypes
  <1>2. ToolTypes'
    BY <1>t DEF Tool!Say, ToolTypes
  <1>3. ToolKept'
    BY <1>t, <1>1 DEF ToolInv, ToolTypes, ToolKept, ToolSaidBefore, ToolLimited, ToolGiven,
       ToolPtyEnd, Tool!Holds, Tool!All
  <1>4. QED
    BY <1>1, <1>2, <1>3, ToolFrameDone DEF ToolInv, Tool!Streams, Tool!All

\* A reader ends when nobody can write any more.
LEMMA ToolReadEndsInv == ASSUME ToolInv, NEW s \in Tool!All, Tool!ReadEnds(s) PROVE ToolInv'
  <1>t. ToolTypes
    BY DEF ToolInv
  <1>1. ToolTypes'
    BY <1>t DEF Tool!ReadEnds, ToolTypes
  <1>2. ToolKept'
    BY <1>t DEF Tool!ReadEnds, ToolInv, ToolTypes, ToolKept, ToolSaidBefore, ToolLimited,
       ToolGiven, ToolPtyEnd, Tool!Holds, Tool!Closed
  <1>3. QED
    BY <1>t, <1>1, <1>2, ToolFrameDone DEF Tool!ReadEnds, ToolInv, ToolTypes, Tool!Streams, Tool!All

\* The deadline ends a reader of a terminal only after a cancel.
LEMMA ToolPTYDeadlineInv == ASSUME ToolInv, Tool!PTYDeadline PROVE ToolInv'
  <1>t. ToolTypes
    BY DEF ToolInv
  <1>1. ToolTypes'
    BY <1>t DEF Tool!PTYDeadline, ToolTypes
  <1>2. ToolKept'
    BY <1>t DEF Tool!PTYDeadline, ToolInv, ToolTypes, ToolKept, ToolSaidBefore, ToolLimited,
       ToolGiven, ToolPtyEnd, Tool!Holds
  <1>3. QED
    BY <1>t, <1>1, <1>2, ToolFrameDone DEF Tool!PTYDeadline, ToolInv, ToolTypes, Tool!Streams,
       Tool!All

\* The process is waited for.
LEMMA ToolWaitInv == ASSUME ToolInv, Tool!Wait PROVE ToolInv'
  <1>t. ToolTypes
    BY DEF ToolInv
  <1>1. ToolTypes'
    BY <1>t DEF Tool!Wait, ToolTypes
  <1>2. ToolKept'
    BY <1>t DEF Tool!Wait, ToolInv, ToolTypes, ToolKept, ToolSaidBefore, ToolLimited, ToolGiven,
       ToolPtyEnd, Tool!Holds
  <1>3. QED
    BY <1>1, <1>2, ToolFrameDone DEF Tool!Wait, ToolInv

\* The result comes after the readers.
LEMMA ToolReturnInv == ASSUME ToolInv, Tool!Return PROVE ToolInv'
  <1>0. /\
             UNCHANGED <<toolMode, toolCapture, toolProc, toolChild, toolWritten, toolRead,
               toolEvents, toolKept, toolCut, toolReader, toolCanceled>>
        /\ \A s \in Tool!Streams : toolReader[s] = "end"
    BY Zenon DEF Tool!Return
  <1>1. ToolResultOK'
    BY Zenon DEF Tool!Return, ToolResultOK
  <1>2. ToolTypes' /\ ToolKept'
    BY <1>0 DEF ToolInv, ToolTypes, ToolKept, ToolSaidBefore, ToolLimited, ToolGiven, ToolPtyEnd,
       Tool!Holds
  <1>3. ToolDone'
    BY <1>0 DEF ToolDone, Tool!Streams
  <1>4. QED
    BY <1>1, <1>2, <1>3 DEF ToolInv

\* Every step keeps what the readers have promised.
LEMMA ToolNextInv == ASSUME ToolToolBounds, ToolInv, [Tool!Next]_Tool!vars PROVE ToolInv'
  <1>1. CASE UNCHANGED Tool!vars
    <2>1. ToolTypes' /\ ToolKept'
      BY <1>1 DEF Tool!vars, ToolInv, ToolTypes, ToolKept, ToolSaidBefore, ToolLimited, ToolGiven,
         ToolPtyEnd, Tool!Holds
    <2>2. QED
      BY <1>1, <2>1, ToolFrameDone DEF Tool!vars, ToolInv
  <1>2. CASE Tool!Next
    BY <1>2, ToolWriteInv, ToolProcessEndsInv, ToolCancelInv, ToolReadInv, ToolLimitedWriteInv,
       ToolSayInv, ToolReadEndsInv,
       ToolPTYDeadlineInv, ToolWaitInv, ToolReturnInv DEF Tool!Next, Tool!Reader
  <1>3. QED
    BY <1>1, <1>2

\* At the result the readers have ended, with nothing in their hands.
LEMMA ToolMeaning == ASSUME ToolToolBounds, ToolInv
  PROVE Tool!TypeOK /\ Tool!ResultComesLast /\ Tool!OutputIsWhole
  <1>t. ToolTypes
    BY DEF ToolInv
  <1>1. Tool!TypeOK
    <2>1. /\ toolProc \in {"run", "killed", "dead", "waited"}
          /\ \A s \in Tool!All : toolEvents[s] <= toolRead[s] /\ toolRead[s] <= toolWritten[s] /\
               toolWritten[s] <= ToolMaxOut
      BY <1>t DEF ToolTypes
    <2>2. QED
      BY <2>1, Zenon DEF ToolInv, ToolResultOK, Tool!TypeOK
  <1>2. ToolReturned => \A s \in Tool!Streams : toolReader[s] = "end" /\ toolEvents[s] = toolRead[s]
    BY DEF ToolInv, ToolDone, ToolKept, ToolSaidBefore, Tool!Streams, Tool!All
  <1>3. toolMode = "pty" /\ ToolReturned /\ ~toolCanceled => toolEvents["pty"] = toolWritten["pty"]
    BY <1>2, <1>t DEF ToolInv, ToolTypes, ToolKept, ToolPtyEnd, Tool!Streams, Tool!All
  <1>4. ASSUME ToolReturned, toolCapture, NEW s \in Tool!Streams
        PROVE  /\ toolKept[s] = IF toolEvents[s] > ToolLimit THEN ToolLimit ELSE toolEvents[s]
               /\ toolCut[s] <=> toolEvents[s] > ToolLimit
    <2>1. s \in Tool!All /\ toolReader[s] = "end"
      BY <1>4, <1>2 DEF Tool!Streams, Tool!All
    <2>2. ToolLimited(s) /\ ToolGiven(s) = toolEvents[s] /\ toolEvents[s] \in Nat
      BY <1>4, <2>1, <1>t DEF ToolInv, ToolKept, ToolTypes, ToolGiven
    <2>3. QED
      BY <2>2 DEF ToolLimited, ToolToolBounds
  <1>5. Tool!ResultComesLast
    BY <1>2, Zenon DEF ToolReturned, Tool!ResultComesLast
  <1>6. Tool!OutputIsWhole
    BY <1>3, <1>4, Zenon DEF ToolReturned, Tool!OutputIsWhole
  <1>7. QED
    BY <1>1, <1>5, <1>6

\* The result of a tool call comes after all the output that was read, and all that the
\* process wrote has been read unless the call was canceled; the captured output is the
\* beginning of it, up to the limit, and marked where there was more (execTool,
\* limitedBuffer).
THEOREM ToolResults ==
    ASSUME ToolToolBounds
    PROVE  Tool!Spec => [](Tool!TypeOK /\ Tool!ResultComesLast /\ Tool!OutputIsWhole)
  <1>1. Tool!Init => ToolInv
    BY ToolInitInv
  <1>2. ToolInv /\ [Tool!Next]_Tool!vars => ToolInv'
    BY ToolNextInv
  <1>3. QED
    BY <1>1, <1>2, ToolMeaning, PTL DEF Tool!Spec

-----------------------------------------------------------------------------
(***************************************************************************)
(* Proofs about ToolBundles, for any set of calls and any number of        *)
(* restarts: which bundle a call is judged by.                             *)
(***************************************************************************)

BundlesFound == Bundles!Versions \cup {""}
BundlesStages == {"start", "cache", "store", "read", "keep", "judge", "work", "run", "refused"}
BundlesMissing(v) == v = ""

\* A cache holds a version or nothing.
LEMMA BundlesMissingOrNot == \A v \in BundlesFound : v \in Bundles!Versions <=> ~BundlesMissing(v)
  BY Zenon DEF BundlesFound, BundlesMissing, Bundles!Versions

BundlesTypes ==
    /\ bundlesPath \in BOOLEAN /\ bundlesEarly \in BOOLEAN /\ bundlesFile \in Bundles!Content
    /\ bundlesTmp \in BundlesFound /\ bundlesCache \in BundlesFound /\
         bundlesTold \in BundlesFound \cup {"bad"} /\ bundlesGot \in BundlesFound \cup {"bad"}
    /\ bundlesCreate \in {"start", "started", "load", "keep", "tell", "done"}
    /\ bundlesSession \in {"none", "here", "deleted"}
    /\ bundlesCall \in [BundlesCalls -> [at : BundlesStages, tool : Bundles!Tools,
         by : BundlesFound]]
    /\ bundlesStops \in Nat

\* The session is in the store before anybody can call a tool in it, and never again after
\* it has been deleted.
BundlesKnown ==
    /\ bundlesCreate = "start" <=> bundlesSession = "none"
    /\ \A k \in BundlesCalls : bundlesCall[k].at # "start" => bundlesCreate # "start"

\* The bundle a call is judged by.
BundlesJudged(k) ==
    /\ bundlesCall[k].at = "keep" => bundlesCall[k].by \in Bundles!Versions
    /\ bundlesCall[k].at \in {"judge", "work"} /\ bundlesPath =>
         bundlesCall[k].by \in Bundles!Versions \/ bundlesSession = "deleted"
    /\ bundlesCall[k].at = "run" /\ bundlesPath => bundlesCall[k].by \in Bundles!Versions
    /\ bundlesCall[k].at \in {"work", "run"} /\ bundlesCall[k].by \in Bundles!Versions =>
         bundlesCall[k].tool \in Bundles!bundleAllows(bundlesCall[k].by)

\* What CreateSession has done to the bundle.
BundlesLoaded ==
    /\ bundlesCreate = "keep" => bundlesGot \in Bundles!Versions
    /\ bundlesCreate # "done" => bundlesTold \notin Bundles!Versions
    /\ bundlesStops = 0 /\ ~bundlesEarly => 
         /\ bundlesCreate # "done" => \A k \in BundlesCalls : bundlesCall[k].at = "start"
         /\ bundlesCreate = "tell" /\ bundlesGot \in Bundles!Versions => bundlesCache = bundlesGot
         /\ bundlesTold \in Bundles!Versions => 
              /\ bundlesCache = bundlesTold
              /\ \A k \in BundlesCalls :
                                  /\ bundlesCall[k].at \notin {"store", "read", "keep"}
                                  /\ bundlesCall[k].at \in {"judge", "work", "run"} =>
                                       bundlesCall[k].by = bundlesTold

BundlesInv == BundlesTypes /\ BundlesKnown /\ (\A k \in BundlesCalls : BundlesJudged(k)) /\
  BundlesLoaded

\* Nothing is not a version.
LEMMA BundlesNoVersion == ~("" \in Bundles!Versions)
  BY Zenon DEF Bundles!Versions

\* A file that is not a bundle is not a version.
LEMMA BundlesBadIsNone == "bad" \notin Bundles!Versions /\ "bad" \notin BundlesFound
  BY Zenon DEF BundlesFound, Bundles!Versions

\* There is no session.
LEMMA BundlesInitInv == ASSUME Bundles!Init PROVE BundlesInv
  <1>1. /\ bundlesPath \in BOOLEAN /\ bundlesFile \in Bundles!Content /\
             BundlesMissing(bundlesTmp) /\ bundlesCreate = "start" /\ BundlesMissing(bundlesGot)
        /\ bundlesSession = "none" /\ BundlesMissing(bundlesCache) /\
             BundlesMissing(bundlesTold) /\ bundlesCall = [k \in BundlesCalls |-> Bundles!Idle]
        /\ bundlesEarly = FALSE /\ bundlesStops = 0
    BY Zenon DEF Bundles!Init, BundlesMissing
  <1>2. bundlesTmp \in BundlesFound /\ bundlesGot \in BundlesFound /\
          bundlesCache \in BundlesFound /\ bundlesTold \in BundlesFound
    BY <1>1, Zenon DEF BundlesMissing, BundlesFound
  <1>3. Bundles!Idle \in [at : BundlesStages, tool : Bundles!Tools, by : BundlesFound] /\
          Bundles!Idle.at = "start"
    <2>1. Bundles!Idle.at = "start" /\ Bundles!Idle.tool = "shell" /\
            BundlesMissing(Bundles!Idle.by)
      BY Zenon DEF Bundles!Idle, BundlesMissing
    <2>2. Bundles!Idle = [at |-> Bundles!Idle.at, tool |-> Bundles!Idle.tool,
            by |-> Bundles!Idle.by]
      BY Zenon DEF Bundles!Idle
    <2>3. Bundles!Idle.by \in BundlesFound
      BY <2>1, Zenon DEF BundlesMissing, BundlesFound
    <2>4. QED
      BY <2>1, <2>2, <2>3 DEF BundlesStages, Bundles!Tools
  <1>4. bundlesCall \in [BundlesCalls -> [at : BundlesStages, tool : Bundles!Tools,
          by : BundlesFound]] /\ \A k \in BundlesCalls : bundlesCall[k].at = "start"
    BY <1>1, <1>3
  <1>5. BundlesTypes
    BY <1>1, <1>2, <1>4 DEF BundlesTypes
  <1>6. bundlesTold \notin Bundles!Versions
    BY <1>1, <1>2, BundlesMissingOrNot
  <1>7. QED
    BY <1>1, <1>4, <1>5, <1>6 DEF BundlesInv, BundlesKnown, BundlesJudged, BundlesLoaded

\* A step of one call that is under way.
LEMMA BundlesCallStep ==
    ASSUME BundlesInv, NEW k \in BundlesCalls, UNCHANGED <<bundlesPath, bundlesFile, bundlesTmp,
             bundlesCreate, bundlesGot, bundlesSession, bundlesTold, bundlesEarly, bundlesStops>>,
           bundlesCall' \in [BundlesCalls -> [at : BundlesStages, tool : Bundles!Tools,
             by : BundlesFound]],
           \A i \in BundlesCalls : i # k => bundlesCall'[i] = bundlesCall[i],
           bundlesCall[k].at # "start", bundlesCache' \in BundlesFound,
             bundlesCache' = bundlesCache \/ bundlesCall[k].at = "keep",
           BundlesJudged(k)',
           bundlesStops = 0 /\ ~bundlesEarly /\ bundlesTold \in Bundles!Versions =>
              /\ bundlesCall'[k].at \notin {"store", "read", "keep"}
              /\ bundlesCall'[k].at \in {"judge", "work", "run"} => bundlesCall'[k].by = bundlesTold
    PROVE  BundlesInv'
  <1>1. BundlesTypes'
    BY DEF BundlesInv, BundlesTypes
  <1>2. BundlesKnown'
    BY DEF BundlesInv, BundlesKnown
  <1>3. \A i \in BundlesCalls : i # k => BundlesJudged(i)'
    BY DEF BundlesInv, BundlesJudged
  <1>4. BundlesLoaded'
    BY DEF BundlesInv, BundlesLoaded
  <1>5. QED
    BY <1>1, <1>2, <1>3, <1>4 DEF BundlesInv

\* What Goes does to a call.
LEMMA BundlesGoesTo ==
    ASSUME BundlesInv, NEW k \in BundlesCalls, NEW to \in BundlesStages, Bundles!Goes(k, to)
    PROVE  /\
                bundlesCall' \in [BundlesCalls -> [at : BundlesStages, tool : Bundles!Tools,
                  by : BundlesFound]]
           /\ \A i \in BundlesCalls : i # k => bundlesCall'[i] = bundlesCall[i]
           /\ bundlesCall'[k].at = to /\ bundlesCall'[k].by = bundlesCall[k].by /\
                bundlesCall'[k].tool = bundlesCall[k].tool
  <1>1. bundlesCall \in [BundlesCalls -> [at : BundlesStages, tool : Bundles!Tools,
          by : BundlesFound]]
    BY DEF BundlesInv, BundlesTypes
  <1>2. bundlesCall' = [bundlesCall EXCEPT ![k] = [bundlesCall[k] EXCEPT !.at = to]]
    BY <1>1 DEF Bundles!Goes
  <1>3. bundlesCall[k] \in [at : BundlesStages, tool : Bundles!Tools, by : BundlesFound]
    BY <1>1
  <1>4. QED
    BY <1>1, <1>2, <1>3

\* A call begins; before the bundle is announced it is early.
LEMMA BundlesToolInvokeInv == ASSUME BundlesInv, NEW k \in BundlesCalls,
  Bundles!ToolInvoke(k) PROVE BundlesInv'
  <1>1. PICK t \in Bundles!Tools : \E none \in BundlesFound :
          bundlesCall' = [bundlesCall EXCEPT ![k] = [at |-> "cache", tool |-> t, by |-> none]]
    <2>1. PICK t \in Bundles!Tools : bundlesCall' = [bundlesCall EXCEPT ![k] = [at |-> "cache",
            tool |-> t, by |-> ""]]
      BY Zenon DEF Bundles!ToolInvoke
    <2>2. "" \in BundlesFound
      BY Zenon DEF BundlesFound
    <2>3. QED
      BY <2>1, <2>2, Zenon
  <1>2. PICK none \in BundlesFound : bundlesCall' = [bundlesCall EXCEPT ![k] = [at |-> "cache",
          tool |-> t, by |-> none]]
    BY <1>1
  <1>3. /\ bundlesCall[k].at = "start" /\ bundlesCreate # "start" /\
             (bundlesEarly' <=> bundlesEarly \/ bundlesCreate # "done")
        /\ UNCHANGED <<bundlesPath, bundlesFile, bundlesTmp, bundlesCreate, bundlesGot,
             bundlesSession, bundlesCache, bundlesTold, bundlesStops>>
        /\ bundlesEarly' = (bundlesEarly \/ bundlesCreate # "done")
    BY Zenon DEF Bundles!ToolInvoke
  <1>4. /\
             bundlesCall' \in [BundlesCalls -> [at : BundlesStages, tool : Bundles!Tools,
               by : BundlesFound]] /\ bundlesCall'[k].at = "cache"
        /\ \A i \in BundlesCalls : i # k => bundlesCall'[i] = bundlesCall[i]
    <2>1. bundlesCall \in [BundlesCalls -> [at : BundlesStages, tool : Bundles!Tools,
            by : BundlesFound]]
      BY DEF BundlesInv, BundlesTypes
    <2>2. [at |-> "cache", tool |-> t, by |-> none] \in [at : BundlesStages, tool : Bundles!Tools,
            by : BundlesFound]
      BY DEF BundlesStages
    <2>3. QED
      BY <1>2, <2>1, <2>2
  <1>5. BundlesTypes'
    BY <1>3, <1>4 DEF BundlesInv, BundlesTypes
  <1>6. BundlesKnown' /\ \A i \in BundlesCalls : BundlesJudged(i)'
    BY <1>3, <1>4 DEF BundlesInv, BundlesKnown, BundlesJudged
  <1>7. BundlesLoaded'
    BY <1>3, <1>4 DEF BundlesInv, BundlesLoaded
  <1>8. QED
    BY <1>5, <1>6, <1>7 DEF BundlesInv

\* After the announcement the cache has the bundle that was announced.
LEMMA BundlesLookInCacheInv == ASSUME BundlesInv, NEW k \in BundlesCalls,
  Bundles!LookInCache(k) PROVE BundlesInv'
  <1>1. /\ bundlesCall[k].at = "cache"
        /\ bundlesCall' = [bundlesCall EXCEPT ![k].by = bundlesCache,
             ![k].at = IF ~BundlesMissing(bundlesCache) THEN "judge" ELSE "store"]
        /\ UNCHANGED <<bundlesPath, bundlesFile, bundlesTmp, bundlesCreate, bundlesGot,
             bundlesSession, bundlesCache, bundlesTold, bundlesEarly, bundlesStops>>
    BY Zenon DEF Bundles!LookInCache, BundlesMissing
  <1>2. bundlesCall \in [BundlesCalls -> [at : BundlesStages, tool : Bundles!Tools,
          by : BundlesFound]] /\ bundlesCache \in BundlesFound
    BY DEF BundlesInv, BundlesTypes
  <1>3. PICK to \in {"judge",
          "store"} : to = (IF ~BundlesMissing(bundlesCache) THEN "judge" ELSE "store")
    OBVIOUS
  <1>4. bundlesCall' = [bundlesCall EXCEPT ![k] = [bundlesCall[k] EXCEPT !.by = bundlesCache,
          !.at = to]]
    BY <1>1, <1>2, <1>3
  <1>5. [bundlesCall[k] EXCEPT !.by = bundlesCache, !.at = to] \in [at : BundlesStages,
          tool : Bundles!Tools, by : BundlesFound]
    BY <1>2 DEF BundlesStages
  <1>6. /\
             bundlesCall' \in [BundlesCalls -> [at : BundlesStages, tool : Bundles!Tools,
               by : BundlesFound]]
        /\ \A i \in BundlesCalls : i # k => bundlesCall'[i] = bundlesCall[i]
        /\ bundlesCall'[k].at = to /\ bundlesCall'[k].by = bundlesCache
    BY <1>2, <1>4, <1>5
  <1>7. to = "judge" <=> bundlesCache \in Bundles!Versions
    BY <1>2, <1>3, BundlesMissingOrNot
  <1>8. BundlesJudged(k)'
    BY <1>3, <1>6, <1>7 DEF BundlesJudged
  <1>9. bundlesStops = 0 /\ ~bundlesEarly /\ bundlesTold \in Bundles!Versions =>
          bundlesCache = bundlesTold
    BY DEF BundlesInv, BundlesLoaded
  <1>10. QED
    BY <1>1, <1>2, <1>3, <1>6, <1>7, <1>8, <1>9, BundlesCallStep

\* A call that finds a session with a bundle reads it.
LEMMA BundlesLookInStoreInv == ASSUME BundlesInv, NEW k \in BundlesCalls,
  Bundles!LookInStore(k) PROVE BundlesInv'
  <1>1. PICK to \in {"read", "judge"} : to = IF bundlesSession = "here" /\
          bundlesPath THEN "read" ELSE "judge"
    OBVIOUS
  <1>2. /\ bundlesCall[k].at = "store" /\ Bundles!Goes(k, to)
        /\ UNCHANGED <<bundlesPath, bundlesFile, bundlesTmp, bundlesCreate, bundlesGot,
             bundlesSession, bundlesCache, bundlesTold, bundlesEarly, bundlesStops>>
    BY <1>1 DEF Bundles!LookInStore
  <1>3. /\
             bundlesCall' \in [BundlesCalls -> [at : BundlesStages, tool : Bundles!Tools,
               by : BundlesFound]]
        /\ \A i \in BundlesCalls : i # k => bundlesCall'[i] = bundlesCall[i]
        /\ bundlesCall'[k].at = to /\ bundlesCall'[k].by = bundlesCall[k].by /\
             bundlesCall'[k].tool = bundlesCall[k].tool
    BY <1>2, BundlesGoesTo DEF BundlesStages
  <1>4. BundlesJudged(k)'
    BY <1>1, <1>2, <1>3 DEF BundlesInv, BundlesTypes, BundlesKnown, BundlesJudged
  <1>5. ~(bundlesStops = 0 /\ ~bundlesEarly /\ bundlesTold \in Bundles!Versions) /\
          bundlesCache \in BundlesFound
    BY <1>2 DEF BundlesInv, BundlesLoaded, BundlesTypes
  <1>6. QED
    BY <1>2, <1>3, <1>4, <1>5, BundlesCallStep

\* A file that cannot be read refuses the call.
LEMMA BundlesReadBundleInv == ASSUME BundlesInv, NEW k \in BundlesCalls,
  Bundles!ReadBundle(k) PROVE BundlesInv'
  <1>1. /\ bundlesCall[k].at = "read"
        /\ UNCHANGED <<bundlesPath, bundlesFile, bundlesTmp, bundlesCreate, bundlesGot,
             bundlesSession, bundlesCache, bundlesTold, bundlesEarly, bundlesStops>>
    BY DEF Bundles!ReadBundle
  <1>2. /\
             bundlesCall' \in [BundlesCalls -> [at : BundlesStages, tool : Bundles!Tools,
               by : BundlesFound]]
        /\ \A i \in BundlesCalls : i # k => bundlesCall'[i] = bundlesCall[i]
        /\ bundlesCall'[k].at = "refused" \/ (bundlesCall'[k].at = "keep" /\
             bundlesCall'[k].by \in Bundles!Versions)
    <2>1. CASE bundlesFile = "bad"
      BY <2>1, BundlesGoesTo DEF Bundles!ReadBundle, BundlesStages
    <2>2. CASE bundlesFile # "bad"
      <3>1. bundlesCall \in [BundlesCalls -> [at : BundlesStages, tool : Bundles!Tools,
              by : BundlesFound]] /\ bundlesFile \in Bundles!Versions
        BY <2>2 DEF BundlesInv, BundlesTypes, Bundles!Content
      <3>2. bundlesCall' = [bundlesCall EXCEPT ![k] = [bundlesCall[k] EXCEPT !.by = bundlesFile,
              !.at = "keep"]]
        BY <2>2, <3>1 DEF Bundles!ReadBundle
      <3>3. [bundlesCall[k] EXCEPT !.by = bundlesFile, !.at = "keep"] \in [at : BundlesStages,
              tool : Bundles!Tools, by : BundlesFound]
        <4>1. bundlesFile \in BundlesFound
          BY <3>1, Zenon DEF BundlesFound
        <4>2. QED
          BY <3>1, <4>1 DEF BundlesStages
      <3>4. QED
        BY <3>1, <3>2, <3>3
    <2>3. QED
      BY <2>1, <2>2
  <1>3. BundlesJudged(k)'
    BY <1>1, <1>2 DEF BundlesJudged
  <1>4. ~(bundlesStops = 0 /\ ~bundlesEarly /\ bundlesTold \in Bundles!Versions) /\
          bundlesCache \in BundlesFound
    BY <1>1 DEF BundlesInv, BundlesLoaded, BundlesTypes
  <1>5. QED
    BY <1>1, <1>2, <1>3, <1>4, BundlesCallStep

\* No call gets here that began after the announcement.
LEMMA BundlesCacheBundleInv == ASSUME BundlesInv, NEW k \in BundlesCalls,
  Bundles!CacheBundle(k) PROVE BundlesInv'
  <1>1. /\ bundlesCall[k].at = "keep" /\ bundlesCache' = bundlesCall[k].by /\
             Bundles!Goes(k, "judge")
        /\ UNCHANGED <<bundlesPath, bundlesFile, bundlesTmp, bundlesCreate, bundlesGot,
             bundlesSession, bundlesTold, bundlesEarly, bundlesStops>>
    BY DEF Bundles!CacheBundle
  <1>2. /\
             bundlesCall' \in [BundlesCalls -> [at : BundlesStages, tool : Bundles!Tools,
               by : BundlesFound]]
        /\ \A i \in BundlesCalls : i # k => bundlesCall'[i] = bundlesCall[i]
        /\ bundlesCall'[k].at = "judge" /\ bundlesCall'[k].by = bundlesCall[k].by /\
             bundlesCall'[k].tool = bundlesCall[k].tool
    BY <1>1, BundlesGoesTo DEF BundlesStages
  <1>3. BundlesJudged(k)'
    BY <1>1, <1>2 DEF BundlesInv, BundlesJudged
  <1>4. ~(bundlesStops = 0 /\ ~bundlesEarly /\ bundlesTold \in Bundles!Versions) /\
          bundlesCache' \in BundlesFound
    BY <1>1 DEF BundlesInv, BundlesLoaded, BundlesTypes
  <1>5. QED
    BY <1>1, <1>2, <1>3, <1>4, BundlesCallStep

\* A tool the bundle does not have is refused.
LEMMA BundlesJudgeInv == ASSUME BundlesInv, NEW k \in BundlesCalls, Bundles!Judge(k)
  PROVE BundlesInv'
  <1>1. PICK to \in {"work", "refused"} :
          to = IF BundlesMissing(bundlesCall[k].by) \/
            bundlesCall[k].tool \in Bundles!bundleAllows(bundlesCall[k].by) THEN "work" ELSE "refused"
    OBVIOUS
  <1>2. /\ bundlesCall[k].at = "judge" /\ Bundles!Goes(k, to)
        /\ UNCHANGED <<bundlesPath, bundlesFile, bundlesTmp, bundlesCreate, bundlesGot,
             bundlesSession, bundlesCache, bundlesTold, bundlesEarly, bundlesStops>>
    BY <1>1, Zenon DEF Bundles!Judge, BundlesMissing
  <1>3. /\
             bundlesCall' \in [BundlesCalls -> [at : BundlesStages, tool : Bundles!Tools,
               by : BundlesFound]]
        /\ \A i \in BundlesCalls : i # k => bundlesCall'[i] = bundlesCall[i]
        /\ bundlesCall'[k].at = to /\ bundlesCall'[k].by = bundlesCall[k].by /\
             bundlesCall'[k].tool = bundlesCall[k].tool
    BY <1>2, BundlesGoesTo DEF BundlesStages
  <1>4. bundlesCall[k].by \in BundlesFound /\ bundlesCache \in BundlesFound
    BY DEF BundlesInv, BundlesTypes
  <1>5. BundlesJudged(k)'
    BY <1>1, <1>2, <1>3, <1>4, BundlesMissingOrNot DEF BundlesInv, BundlesJudged
  <1>6. bundlesStops = 0 /\ ~bundlesEarly /\ bundlesTold \in Bundles!Versions =>
          bundlesCall[k].by = bundlesTold
    BY <1>2 DEF BundlesInv, BundlesLoaded
  <1>7. QED
    BY <1>2, <1>3, <1>4, <1>5, <1>6, BundlesCallStep

\* Without its session no tool runs.
LEMMA BundlesWorkInv == ASSUME BundlesInv, NEW k \in BundlesCalls, Bundles!Work(k) PROVE BundlesInv'
  <1>1. PICK to \in {"run", "refused"} : to = IF bundlesSession = "here" /\
          bundlesCall[k].tool # "unknown" THEN "run" ELSE "refused"
    OBVIOUS
  <1>2. /\ bundlesCall[k].at = "work" /\ Bundles!Goes(k, to)
        /\ UNCHANGED <<bundlesPath, bundlesFile, bundlesTmp, bundlesCreate, bundlesGot,
             bundlesSession, bundlesCache, bundlesTold, bundlesEarly, bundlesStops>>
    BY <1>1 DEF Bundles!Work
  <1>3. /\
             bundlesCall' \in [BundlesCalls -> [at : BundlesStages, tool : Bundles!Tools,
               by : BundlesFound]]
        /\ \A i \in BundlesCalls : i # k => bundlesCall'[i] = bundlesCall[i]
        /\ bundlesCall'[k].at = to /\ bundlesCall'[k].by = bundlesCall[k].by /\
             bundlesCall'[k].tool = bundlesCall[k].tool
    BY <1>2, BundlesGoesTo DEF BundlesStages
  <1>4. BundlesJudged(k)' /\ bundlesCache \in BundlesFound
    BY <1>1, <1>2, <1>3 DEF BundlesInv, BundlesJudged, BundlesTypes
  <1>5. bundlesStops = 0 /\ ~bundlesEarly /\ bundlesTold \in Bundles!Versions =>
          bundlesCall[k].by = bundlesTold
    BY <1>2 DEF BundlesInv, BundlesLoaded
  <1>6. QED
    BY <1>2, <1>3, <1>4, <1>5, BundlesCallStep

\* CreateSession moves on; only its last step makes calls that were made before it late.
LEMMA BundlesCreateSessionInv == ASSUME BundlesInv, Bundles!CreateSession PROVE BundlesInv'
  <1>1. CASE Bundles!Create
    <2>1. BundlesTypes' /\ BundlesKnown' /\ \A k \in BundlesCalls : BundlesJudged(k)'
      BY <1>1 DEF Bundles!Create, BundlesInv, BundlesTypes, BundlesKnown, BundlesJudged
    <2>2. BundlesLoaded'
      BY <1>1 DEF Bundles!Create, BundlesInv, BundlesLoaded
    <2>3. QED
      BY <2>1, <2>2 DEF BundlesInv
  <1>2. CASE Bundles!SessionStarted
    <2>1. BundlesTypes' /\ BundlesKnown' /\ \A k \in BundlesCalls : BundlesJudged(k)'
      BY <1>2 DEF Bundles!SessionStarted, BundlesInv, BundlesTypes, BundlesKnown, BundlesJudged
    <2>2. BundlesLoaded'
      BY <1>2 DEF Bundles!SessionStarted, BundlesInv, BundlesLoaded
    <2>3. QED
      BY <2>1, <2>2 DEF BundlesInv
  <1>3. CASE Bundles!LoadBundle
    <2>1. bundlesFile \in BundlesFound \cup {"bad"}
      BY Zenon DEF BundlesInv, BundlesTypes, Bundles!Content, BundlesFound
    <2>2. BundlesTypes' /\ BundlesKnown' /\ \A k \in BundlesCalls : BundlesJudged(k)'
      BY <1>3, <2>1 DEF Bundles!LoadBundle, BundlesInv, BundlesTypes, BundlesKnown, BundlesJudged
    <2>3. BundlesLoaded'
      BY <1>3, BundlesBadIsNone DEF Bundles!LoadBundle, BundlesInv, BundlesTypes, Bundles!Content,
         BundlesLoaded
    <2>4. QED
      BY <2>2, <2>3 DEF BundlesInv
  <1>4. CASE Bundles!KeepBundle
    <2>1. bundlesGot \in BundlesFound
      BY <1>4, Zenon DEF Bundles!KeepBundle, BundlesInv, BundlesLoaded, BundlesFound
    <2>2. BundlesTypes' /\ BundlesKnown' /\ \A k \in BundlesCalls : BundlesJudged(k)'
      BY <1>4, <2>1 DEF Bundles!KeepBundle, BundlesInv, BundlesTypes, BundlesKnown, BundlesJudged
    <2>3. BundlesLoaded'
      BY <1>4 DEF Bundles!KeepBundle, BundlesInv, BundlesLoaded
    <2>4. QED
      BY <2>2, <2>3 DEF BundlesInv
  <1>5. CASE Bundles!ToolBundleLoaded
    <2>1. BundlesTypes' /\ BundlesKnown' /\ \A k \in BundlesCalls : BundlesJudged(k)'
      BY <1>5 DEF Bundles!ToolBundleLoaded, BundlesInv, BundlesTypes, BundlesKnown, BundlesJudged
    <2>2. BundlesLoaded'
      BY <1>5 DEF Bundles!ToolBundleLoaded, BundlesInv, BundlesLoaded
    <2>3. QED
      BY <2>1, <2>2 DEF BundlesInv
  <1>6. QED
    BY <1>1, <1>2, <1>3, <1>4, <1>5 DEF Bundles!CreateSession

\* What changes no call and no cache.
LEMMA BundlesFileInv ==
    ASSUME BundlesInv, Bundles!DeleteSession \/ Bundles!WriteBundle \/ Bundles!RenameBundle \/
             Bundles!EditFile
    PROVE  BundlesInv'
  <1>1. /\
             UNCHANGED <<bundlesPath, bundlesCreate, bundlesGot, bundlesCache, bundlesTold,
               bundlesCall, bundlesEarly, bundlesStops>>
        /\ bundlesSession' = bundlesSession \/ (bundlesSession = "here" /\
             bundlesSession' = "deleted")
    BY Zenon DEF Bundles!DeleteSession, Bundles!WriteBundle, Bundles!RenameBundle, Bundles!EditFile
  <1>2. bundlesTmp' \in BundlesFound /\ bundlesFile' \in Bundles!Content
    <2>1. CASE Bundles!DeleteSession
      BY <2>1 DEF Bundles!DeleteSession, BundlesInv, BundlesTypes
    <2>2. CASE Bundles!WriteBundle
      <3>1. bundlesTmp' \in Bundles!Versions /\ bundlesFile' = bundlesFile
        BY <2>2, Zenon DEF Bundles!WriteBundle
      <3>2. QED
        BY <3>1, Zenon DEF BundlesInv, BundlesTypes, BundlesFound
    <2>3. CASE Bundles!RenameBundle
      <3>1. ~BundlesMissing(bundlesTmp) /\ bundlesFile' = bundlesTmp /\ BundlesMissing(bundlesTmp')
        BY <2>3, Zenon DEF Bundles!RenameBundle, BundlesMissing
      <3>2. bundlesFile' \in Bundles!Versions
        BY <3>1, BundlesMissingOrNot DEF BundlesInv, BundlesTypes
      <3>3. QED
        BY <3>1, <3>2, Zenon DEF BundlesMissing, BundlesFound, Bundles!Content
    <2>4. CASE Bundles!EditFile
      <3>1. bundlesTmp' = bundlesTmp /\ bundlesFile' = "bad"
        BY <2>4, Zenon DEF Bundles!EditFile
      <3>2. QED
        BY <3>1, Zenon DEF BundlesInv, BundlesTypes, Bundles!Content
    <2>5. QED
      BY <2>1, <2>2, <2>3, <2>4
  <1>3. BundlesTypes' /\ BundlesKnown' /\ \A k \in BundlesCalls : BundlesJudged(k)'
    BY <1>1, <1>2 DEF BundlesInv, BundlesTypes, BundlesKnown, BundlesJudged
  <1>4. BundlesLoaded'
    BY <1>1 DEF BundlesInv, BundlesLoaded
  <1>5. QED
    BY <1>3, <1>4 DEF BundlesInv

\* A restart forgets the calls under way and the cache.
LEMMA BundlesRestartInv == ASSUME BundlesInv, Bundles!Restart PROVE BundlesInv'
  <1>1. /\
             UNCHANGED <<bundlesPath, bundlesFile, bundlesTmp, bundlesGot, bundlesSession,
               bundlesTold, bundlesEarly>>
        /\ bundlesCreate' = (IF bundlesCreate = "start" THEN "start" ELSE "done") /\
             bundlesStops' = bundlesStops + 1
        /\ BundlesMissing(bundlesCache')
        /\ bundlesCall' = [k \in BundlesCalls |-> IF bundlesCall[k].at \in {"start", "run",
             "refused"} THEN bundlesCall[k]
                                   ELSE [bundlesCall[k] EXCEPT !.at = "refused"]]
    BY Zenon DEF Bundles!Restart, BundlesMissing
  <1>2. bundlesCache' \in BundlesFound
    BY <1>1, Zenon DEF BundlesMissing, BundlesFound
  <1>3. bundlesCall \in [BundlesCalls -> [at : BundlesStages, tool : Bundles!Tools,
          by : BundlesFound]] /\ bundlesStops \in Nat
    BY DEF BundlesInv, BundlesTypes
  <1>4. \A k \in BundlesCalls : [bundlesCall[k] EXCEPT !.at = "refused"] \in [at : BundlesStages,
          tool : Bundles!Tools, by : BundlesFound]
    BY <1>3 DEF BundlesStages
  <1>5. /\
             bundlesCall' \in [BundlesCalls -> [at : BundlesStages, tool : Bundles!Tools,
               by : BundlesFound]]
        /\ \A k \in BundlesCalls :
                            \/ bundlesCall'[k] = bundlesCall[k] /\
                                 bundlesCall[k].at \in {"start", "run", "refused"}
                            \/ bundlesCall'[k].at = "refused" /\ bundlesCall[k].at # "start"
    <2>1. \A k \in BundlesCalls : bundlesCall'[k] = IF bundlesCall[k].at \in {"start", "run",
            "refused"} THEN bundlesCall[k]
                                      ELSE [bundlesCall[k] EXCEPT !.at = "refused"]
      BY <1>1
    <2>2. \A k \in BundlesCalls : [bundlesCall[k] EXCEPT !.at = "refused"].at = "refused"
      BY <1>3
    <2>3. QED
      BY <1>1, <1>3, <1>4, <2>1, <2>2
  <1>6. BundlesTypes'
    BY <1>1, <1>2, <1>3, <1>5 DEF BundlesInv, BundlesTypes
  <1>7. BundlesKnown'
    BY <1>1, <1>5 DEF BundlesInv, BundlesKnown
  <1>8. \A k \in BundlesCalls : BundlesJudged(k)'
    BY <1>1, <1>5 DEF BundlesInv, BundlesJudged
  <1>9. BundlesLoaded'
    BY <1>1, <1>3 DEF BundlesInv, BundlesLoaded
  <1>10. QED
    BY <1>6, <1>7, <1>8, <1>9 DEF BundlesInv

\* Every step keeps the bundle of the calls that are judged.
LEMMA BundlesNextInv == ASSUME BundlesInv, [Bundles!Next]_Bundles!vars PROVE BundlesInv'
  <1>1. CASE UNCHANGED Bundles!vars
    BY <1>1 DEF Bundles!vars, BundlesInv, BundlesTypes, BundlesKnown, BundlesJudged, BundlesLoaded
  <1>2. CASE Bundles!Next
    BY <1>2, BundlesCreateSessionInv, BundlesFileInv, BundlesRestartInv, BundlesToolInvokeInv,
       BundlesLookInCacheInv, BundlesLookInStoreInv,
       BundlesReadBundleInv, BundlesCacheBundleInv, BundlesJudgeInv,
       BundlesWorkInv DEF Bundles!Next, Bundles!bundleForSession
  <1>3. QED
    BY <1>1, <1>2

\* What is kept at each stage is what is promised of a tool that runs.
LEMMA BundlesMeaning == ASSUME BundlesInv
  PROVE Bundles!TypeOK /\ Bundles!NoToolWithoutBundle /\ Bundles!AnnouncedIsEnforced
  <1>1. Bundles!TypeOK
    <2>1. BundlesFound = Bundles!Versions \cup {""}
      BY Zenon DEF BundlesFound
    <2>2. /\ bundlesFile \in Bundles!Content /\ bundlesTmp \in BundlesFound /\
               bundlesCache \in BundlesFound /\ bundlesTold \in BundlesFound \cup {"bad"}
          /\ \A k \in BundlesCalls : bundlesCall[k].tool \in Bundles!Tools /\
               bundlesCall[k].by \in BundlesFound
      BY DEF BundlesInv, BundlesTypes
    <2>3. bundlesTold \in Bundles!Content \cup {""}
      BY <2>1, <2>2, Zenon DEF Bundles!Content
    <2>4. QED
      BY <2>1, <2>2, <2>3, Zenon DEF Bundles!TypeOK
  <1>2. Bundles!NoToolWithoutBundle
    <2>1. \A k \in BundlesCalls : bundlesPath /\ bundlesCall[k].at = "run" =>
             bundlesCall[k].by \in Bundles!Versions /\
               bundlesCall[k].tool \in Bundles!bundleAllows(bundlesCall[k].by)
      BY DEF BundlesInv, BundlesJudged
    <2>2. QED
      BY <2>1, BundlesNoVersion, Zenon DEF Bundles!NoToolWithoutBundle
  <1>3. Bundles!AnnouncedIsEnforced
    BY DEF BundlesInv, BundlesLoaded, Bundles!AnnouncedIsEnforced
  <1>4. QED
    BY <1>1, <1>2, <1>3

\* With bundles, no tool runs that the bundle it was judged by does not allow, not even
\* where the file changes, the session goes or the daemon restarts; and every call that
\* begins after a bundle was announced is judged by that one (bundleForSession,
\* CreateSession).
THEOREM BundlesHold == Bundles!Spec =>
  [](Bundles!TypeOK /\ Bundles!NoToolWithoutBundle /\ Bundles!AnnouncedIsEnforced)
  <1>1. Bundles!Init => BundlesInv
    BY BundlesInitInv
  <1>2. BundlesInv /\ [Bundles!Next]_Bundles!vars => BundlesInv'
    BY BundlesNextInv
  <1>3. QED
    BY <1>1, <1>2, BundlesMeaning, PTL DEF Bundles!Spec

-----------------------------------------------------------------------------
(***************************************************************************)
(* Proofs about LlmConfig, for any number of starts: what a laptop's       *)
(* settings become in the file and in the daemon.  Whether a field is set  *)
(* is kept apart from which value it has: Empty is the value of an unset   *)
(* one.                                                                    *)
(***************************************************************************)

ConfigEmpty == ""

\* Default takes the fallback for an unset value.
LEMMA ConfigDefaults == \A v, f : Config!Default(v, f) = IF v = ConfigEmpty THEN f ELSE v
  BY Zenon DEF Config!Default, ConfigEmpty

\* No value the settings can have is the unset one.
LEMMA ConfigEmptyIsNoValue == ConfigEmpty \notin {"1", "alias", "url", "url/v1", "bad", "/v1/chat",
  "openai_compat", "gemini", "other"}
  BY Zenon DEF ConfigEmpty

\* Nothing is set.
LEMMA ConfigUnsetIs == Config!Unset = [enabled |-> ConfigEmpty, provider |-> ConfigEmpty,
  base |-> ConfigEmpty, openaiBase |-> ConfigEmpty,
                          key |-> ConfigEmpty, openaiKey |-> ConfigEmpty, path |-> ConfigEmpty]
  BY Zenon DEF Config!Unset, ConfigEmpty

\* What a daemon reads, field by field.
LEMMA ConfigFromEnvIs == \A env : Config!FromEnv(env) =
    [enabled |-> env.enabled # ConfigEmpty, provider |-> Config!Default(env.provider,
      "openai_compat"),
     base |-> Config!Default(env.base, env.openaiBase), key |-> Config!Default(env.key,
       env.openaiKey),
     path |-> Config!Default(env.path, "/v1/chat")]
  BY Zenon DEF Config!FromEnv, ConfigEmpty

\* A complete configuration has an address and a key.
LEMMA ConfigCompleteIs == \A c : Config!Complete(c) <=> c.base # ConfigEmpty /\ c.key # ConfigEmpty
  BY Zenon DEF Config!Complete, ConfigEmpty

ConfigRecords == [enabled : {ConfigEmpty, "1", "alias"}, provider : {ConfigEmpty, "openai_compat",
  "gemini", "other"},
     base : {ConfigEmpty, "url", "url/v1", "bad"}, openaiBase : {ConfigEmpty, "openai"},
     key : {ConfigEmpty, "key"}, openaiKey : {ConfigEmpty, "key2"},
     path : {ConfigEmpty, "/v1/chat", "/chat"}]

\* The settings a laptop can have.
LEMMA ConfigSettingsAre == Config!Settings = ConfigRecords
  BY Zenon DEF Config!Settings, ConfigRecords, ConfigEmpty

\* To have set nothing is one of them.
LEMMA ConfigUnsetIsSettings == Config!Unset \in ConfigRecords
  BY ConfigUnsetIs DEF ConfigRecords

\* The settings of a host are settings.
LEMMA ConfigHostsAreRecords == Config!HostEnvs \subseteq ConfigRecords
  <1>1. /\ Config!Unset.enabled = ConfigEmpty
        /\ [Config!Unset EXCEPT !.path = "/chat"] \in ConfigRecords /\
             [Config!Unset EXCEPT !.openaiKey = "key2"] \in ConfigRecords
    BY ConfigUnsetIs DEF ConfigRecords
  <1>2. QED
    BY <1>1, ConfigUnsetIsSettings DEF Config!HostEnvs

\* What is written to the file
LEMMA ConfigLinesAre == \A s \in ConfigRecords :
    Config!Lines(s) = [enabled |-> "1", provider |-> Config!FromEnv(s).provider,
      base |-> Config!FromEnv(s).base,
                openaiBase |-> ConfigEmpty, key |-> Config!FromEnv(s).key,
                  openaiKey |-> ConfigEmpty, path |-> s.path]
  <1> TAKE s \in ConfigRecords
  <1>1. Config!Lines(s) = [Config!Unset EXCEPT !.enabled = "1",
          !.provider = Config!FromEnv(s).provider, !.base = Config!FromEnv(s).base,
                                 !.key = Config!FromEnv(s).key, !.path = s.path]
    BY Zenon DEF Config!Lines
  <1>2. PICK p, b, k : p = Config!FromEnv(s).provider /\ b = Config!FromEnv(s).base /\
          k = Config!FromEnv(s).key
    OBVIOUS
  <1>3. QED
    BY <1>1, <1>2, ConfigUnsetIs

\* Setting one field of a configuration.
LEMMA ConfigSetEnabled ==
    ASSUME NEW e, NEW p, NEW b, NEW k, NEW q, NEW v
    PROVE  [[enabled |-> e, provider |-> p, base |-> b, key |-> k, path |-> q] EXCEPT !.enabled = v]
             = [enabled |-> v, provider |-> p, base |-> b, key |-> k, path |-> q]
  OBVIOUS

\* The file of an accepted laptop gives back what the laptop has.
LEMMA ConfigLinesKeep ==
    ASSUME NEW s \in ConfigRecords
    PROVE  /\ Config!FromEnv(Config!Lines(s)) = [Config!FromEnv(s) EXCEPT !.enabled = TRUE]
           /\ Config!Lines(s) # Config!Unset
  <1>1. /\ Config!Lines(s).enabled = "1" /\
             Config!Lines(s).provider = Config!FromEnv(s).provider /\
               Config!Lines(s).base = Config!FromEnv(s).base
        /\ Config!Lines(s).openaiBase = ConfigEmpty /\
             Config!Lines(s).key = Config!FromEnv(s).key /\ Config!Lines(s).openaiKey = ConfigEmpty
        /\ Config!Lines(s).path = s.path
    BY ConfigLinesAre
  <1>2. /\ Config!FromEnv(s).enabled = (s.enabled # ConfigEmpty) /\
             Config!FromEnv(s).provider = Config!Default(s.provider, "openai_compat")
        /\ Config!FromEnv(s).base = Config!Default(s.base, s.openaiBase) /\
             Config!FromEnv(s).key = Config!Default(s.key, s.openaiKey)
        /\ Config!FromEnv(s).path = Config!Default(s.path, "/v1/chat")
    BY ConfigFromEnvIs
  <1>3. /\ Config!Default(Config!FromEnv(s).provider, "openai_compat") = Config!FromEnv(s).provider
        /\ Config!Default(Config!FromEnv(s).base, ConfigEmpty) = Config!FromEnv(s).base
        /\ Config!Default(Config!FromEnv(s).key, ConfigEmpty) = Config!FromEnv(s).key
        /\ (Config!Lines(s).enabled # ConfigEmpty) = TRUE
    BY <1>1, <1>2, ConfigDefaults, ConfigEmptyIsNoValue
  <1>4. Config!FromEnv(Config!Lines(s)) = [enabled |-> TRUE,
          provider |-> Config!FromEnv(s).provider,
            base |-> Config!FromEnv(s).base, key |-> Config!FromEnv(s).key,
              path |-> Config!FromEnv(s).path]
    BY <1>1, <1>2, <1>3, ConfigFromEnvIs
  <1>5. [Config!FromEnv(s) EXCEPT !.enabled = TRUE] = [enabled |-> TRUE,
          provider |-> Config!FromEnv(s).provider,
            base |-> Config!FromEnv(s).base, key |-> Config!FromEnv(s).key,
              path |-> Config!FromEnv(s).path]
    <2>1. PICK e, p, b, k, q : Config!FromEnv(s) = [enabled |-> e, provider |-> p, base |-> b,
            key |-> k, path |-> q]
      BY ConfigFromEnvIs
    <2>2. [Config!FromEnv(s) EXCEPT !.enabled = TRUE] = [enabled |-> TRUE, provider |-> p,
            base |-> b, key |-> k, path |-> q]
      <3>1. PICK v : v = TRUE
        OBVIOUS
      <3>2. [Config!FromEnv(s) EXCEPT !.enabled = v] = [enabled |-> v, provider |-> p, base |-> b,
              key |-> k, path |-> q]
        BY <2>1, ConfigSetEnabled
      <3>3. QED
        BY <3>1, <3>2
    <2>3. p = Config!FromEnv(s).provider /\ b = Config!FromEnv(s).base /\
            k = Config!FromEnv(s).key /\ q = Config!FromEnv(s).path
      BY <2>1
    <2>4. QED
      BY <2>2, <2>3
  <1>6. Config!Lines(s) # Config!Unset
    BY <1>1, ConfigUnsetIs, ConfigEmptyIsNoValue
  <1>7. QED
    BY <1>4, <1>5, <1>6

\* Where the host sets nothing, nothing is added.
ConfigFields == {"enabled", "provider", "base", "openaiBase", "key", "openaiKey", "path"}

\* Then the settings that come are the settings there are.
LEMMA ConfigOverUnset ==
    ASSUME NEW f, f = [k \in DOMAIN Config!Unset |-> f[k]]
    PROVE  Config!Over(Config!Unset, f) = f
  <1>1. DOMAIN Config!Unset = ConfigFields /\ \A k \in ConfigFields : Config!Unset[k] = ConfigEmpty
    BY ConfigUnsetIs DEF ConfigFields
  <1>2. \A k \in ConfigFields : Config!Default(f[k], Config!Unset[k]) = f[k]
    BY <1>1, ConfigDefaults
  <1>3. QED
    BY <1>1, <1>2 DEF Config!Over

-----------------------------------------------------------------------------
ConfigTypes ==
    /\ configLocal \in ConfigRecords /\ configHost \in Config!HostEnvs /\
         configMode \in {"systemd", "user"}
    /\ configFile = Config!Unset \/ (configFile = Config!Lines(configLocal) /\
         Config!Accepted(configLocal))
    /\ configStarts \in 0..ConfigMaxStarts
    /\ configClient \in {"down", "none", "error", "client"}
    /\ configOrigin \in {"none", "bootstrap", "plain", "unit", "ssh"}

\* A daemon that runs has the client its settings make, and those come from where it was started.
ConfigServed ==
    /\ configCfg.enabled \in BOOLEAN
    /\ configClient # "down" =>
         /\ configClient = Config!NewClient(configCfg)
         /\ configOrigin \in {"bootstrap", "unit"} =>
              configCfg = Config!FromEnv(Config!Environment(configFile))
         /\ configOrigin = "ssh" =>
              configCfg = Config!FromEnv(Config!Over(configHost, Config!Forwarded))

ConfigInv == ConfigTypes /\ ConfigServed

\* Every start ends with a client, without one or in an error.
LEMMA ConfigClientKinds == \A c : Config!NewClient(c) \in {"none", "error", "client"}
  BY Zenon DEF Config!NewClient

\* enabled is TRUE or FALSE, never a text.
LEMMA ConfigEnabledIs == \A env : Config!FromEnv(env).enabled \in BOOLEAN
  BY ConfigFromEnvIs

\* Nothing has been started.
LEMMA ConfigInitInv == ASSUME ConfigMaxStarts \in Nat, Config!Init PROVE ConfigInv
  <1>1. /\ configLocal \in Config!Settings /\ configHost \in Config!HostEnvs /\
             configMode \in {"systemd", "user"}
        /\ configFile = Config!Unset /\ configCfg = Config!FromEnv(Config!Unset) /\
             configClient = "down" /\ configOrigin = "none" /\ configStarts = 0
    BY DEF Config!Init
  <1>2. QED
    BY <1>1, ConfigSettingsAre, ConfigEnabledIs DEF ConfigInv, ConfigTypes, ConfigServed

\* A daemon starts.
LEMMA ConfigStartInv ==
    ASSUME ConfigMaxStarts \in Nat, ConfigInv, NEW env, NEW by \in {"bootstrap", "plain", "unit",
             "ssh"}, Config!Start(env, by),
           configFile' = Config!Unset \/ (configFile' = Config!Lines(configLocal) /\
             Config!Accepted(configLocal)),
           by \in {"bootstrap", "unit"} => env = Config!Environment(configFile'),
           by = "ssh" => env = Config!Over(configHost, Config!Forwarded)
    PROVE  ConfigInv'
  <1>1. /\ configStarts < ConfigMaxStarts /\ configStarts' = configStarts + 1 /\ configOrigin' = by
        /\ configCfg' = Config!FromEnv(env) /\ configClient' = Config!NewClient(Config!FromEnv(env))
        /\ UNCHANGED <<configLocal, configHost, configMode>>
    BY DEF Config!Start
  <1>2. ConfigTypes'
    BY <1>1, ConfigClientKinds DEF ConfigInv, ConfigTypes
  <1>3. Config!Forwarded' = Config!Forwarded /\
          Config!Environment(configFile)' = Config!Environment(configFile')
    BY <1>1, Zenon DEF Config!Forwarded, Config!Environment
  <1>4. ConfigServed'
    <2>1. configCfg'.enabled \in BOOLEAN
      BY <1>1, ConfigEnabledIs
    <2>2. configClient' = Config!NewClient(configCfg')
      BY <1>1
    <2>3. by \in {"bootstrap", "unit"} =>
            configCfg' = Config!FromEnv(Config!Environment(configFile)')
      BY <1>1, <1>3
    <2>4. by = "ssh" => configCfg' = Config!FromEnv(Config!Over(configHost', Config!Forwarded'))
      BY <1>1, <1>3
    <2>5. QED
      BY <1>1, <2>1, <2>2, <2>3, <2>4 DEF ConfigServed
  <1>5. QED
    BY <1>2, <1>4 DEF ConfigInv

\* Only a start gives a daemon a client, and then from settings read at that moment.
LEMMA ConfigNextInv == ASSUME ConfigMaxStarts \in Nat, ConfigInv, [Config!Next]_Config!vars
  PROVE ConfigInv'
  <1>1. CASE Config!BootstrapWithLLM
    BY <1>1, ConfigStartInv DEF Config!BootstrapWithLLM
  <1>2. CASE Config!BootstrapBesideForeign
    <2>1. /\ configClient # "down" /\ configOrigin = "ssh" /\ Config!Accepted(configLocal) /\
               configFile' = Config!Lines(configLocal)
          /\ UNCHANGED <<configLocal, configHost, configMode, configCfg, configClient,
               configOrigin, configStarts>>
      BY <1>2, Zenon DEF Config!BootstrapBesideForeign, Config!Foreign
    <2>2. Config!Forwarded' = Config!Forwarded
      BY <2>1, Zenon DEF Config!Forwarded
    <2>3. QED
      BY <2>1, <2>2 DEF ConfigInv, ConfigTypes, ConfigServed
  <1>3. CASE Config!BootstrapWithout
    <2>1. PICK f :
                   /\ f = IF configMode = "systemd" THEN Config!Unset ELSE configFile
                   /\ configFile' = f /\ Config!Start(Config!Environment(f), "plain")
      BY <1>3, Zenon DEF Config!BootstrapWithout
    <2>2. configFile' = Config!Unset \/ (configFile' = Config!Lines(configLocal) /\
            Config!Accepted(configLocal))
      BY <2>1 DEF ConfigInv, ConfigTypes
    <2>3. QED
      BY <2>1, <2>2, ConfigStartInv
  <1>4. CASE Config!UnitStarts
    <2>1. configMode = "systemd" /\ Config!Start(configFile, "unit") /\ configFile' = configFile
      BY <1>4 DEF Config!UnitStarts
    <2>2. configFile = Config!Environment(configFile')
      BY <2>1 DEF Config!Environment
    <2>3. QED
      BY <2>1, <2>2, ConfigStartInv DEF ConfigInv, ConfigTypes
  <1>5. CASE Config!StartOverSSH
    BY <1>5, ConfigStartInv DEF Config!StartOverSSH, ConfigInv, ConfigTypes
  <1>6. CASE Config!Stops
    BY <1>6 DEF Config!Stops, ConfigInv, ConfigTypes, ConfigServed
  <1>7. CASE UNCHANGED Config!vars
    <2>1. Config!Forwarded' = Config!Forwarded /\
            Config!Environment(configFile)' = Config!Environment(configFile)
      BY <1>7, Zenon DEF Config!vars, Config!Forwarded, Config!Environment
    <2>2. QED
      BY <1>7, <2>1 DEF Config!vars, ConfigInv, ConfigTypes, ConfigServed
  <1>8. QED
    BY <1>1, <1>2, <1>3, <1>4, <1>5, <1>6, <1>7 DEF Config!Next

\* When a client is made.
LEMMA ConfigMakesClient ==
    ASSUME NEW c
    PROVE  /\ c.enabled /\ Config!Validate(c) /\ c.provider \in {"openai_compat", "gemini"} /\
                c.base # "bad"
                => Config!NewClient(c) = "client"
           /\ Config!NewClient(c) = "client" => c.enabled /\ Config!Validate(c)
  <1> DEFINE good == Config!Validate(c) /\ c.provider \in {"openai_compat", "gemini"} /\
    c.base # "bad"
  <1>1. ~c.enabled => Config!NewClient(c) = "none"
    BY DEF Config!NewClient
  <1>2. c.enabled /\ good => Config!NewClient(c) = "client"
    BY DEF Config!NewClient
  <1>3. c.enabled /\ ~good => Config!NewClient(c) = "error"
    BY DEF Config!NewClient
  <1>4. QED
    BY <1>1, <1>2, <1>3

\* The one address that Validate refuses: a base with /v1 and the path that has it again.
LEMMA ConfigValidateIs ==
    ASSUME NEW c
    PROVE  Config!ValidateOpenAICompatBaseURL(c.base, c.provider, c.path) <=>
             ~(c.provider = "openai_compat" /\ c.base = "url/v1" /\
               Config!Default(c.path, "/v1/chat") = "/v1/chat")
  BY Zenon DEF Config!ValidateOpenAICompatBaseURL

\* The file of an accepted laptop makes a client with what the laptop has.
LEMMA ConfigUsable ==
    ASSUME ConfigInv, configClient # "down", configOrigin \in {"bootstrap", "unit"},
             configFile # Config!Unset, Config!Understood,
           configMode = "user" => configHost = Config!Unset
    PROVE  configClient = "client" /\
             configCfg = [Config!FromEnv(configLocal) EXCEPT !.enabled = TRUE]
  <1>1. /\ configLocal \in ConfigRecords /\ configFile = Config!Lines(configLocal) /\
             Config!Accepted(configLocal) /\ configMode \in {"systemd", "user"}
        /\ configClient = Config!NewClient(configCfg) /\
             configCfg = Config!FromEnv(Config!Environment(configFile))
    BY DEF ConfigInv, ConfigTypes, ConfigServed
  <1>2. Config!Environment(configFile) = Config!Lines(configLocal)
    <2>1. CASE configMode = "systemd"
      BY <1>1, <2>1 DEF Config!Environment
    <2>2. CASE configMode = "user"
      <3>1. DOMAIN Config!Unset = ConfigFields
        BY ConfigUnsetIs DEF ConfigFields
      <3>2. Config!Lines(configLocal) = [k \in DOMAIN Config!Unset |-> Config!Lines(configLocal)[k]]
        <4>1. PICK e, p, b, o, k, ok, q : Config!Lines(configLocal) =
                [enabled |-> e, provider |-> p, base |-> b, openaiBase |-> o, key |-> k,
                  openaiKey |-> ok, path |-> q]
          BY <1>1, ConfigLinesAre
        <4>2. QED
          BY <4>1, <3>1 DEF ConfigFields
      <3>3. QED
        BY <1>1, <2>2, <3>2, ConfigOverUnset DEF Config!Environment
    <2>3. QED
      BY <1>1, <2>1, <2>2
  <1>3. configCfg = [Config!FromEnv(configLocal) EXCEPT !.enabled = TRUE]
    BY <1>1, <1>2, ConfigLinesKeep
  <1>4. PICK c : c = Config!FromEnv(configLocal)
    OBVIOUS
  <1>5. /\ c.provider = Config!Default(configLocal.provider, "openai_compat")
        /\ c.base = Config!Default(configLocal.base, configLocal.openaiBase) /\
             c.key = Config!Default(configLocal.key, configLocal.openaiKey)
        /\ c.path = Config!Default(configLocal.path, "/v1/chat")
    BY <1>4, ConfigFromEnvIs
  <1>6. /\ configCfg.enabled = TRUE /\ configCfg.provider = c.provider /\
             configCfg.base = c.base /\ configCfg.key = c.key /\ configCfg.path = c.path
    <2>1. PICK e, p, b, k, q : c = [enabled |-> e, provider |-> p, base |-> b, key |-> k,
            path |-> q]
      BY <1>4, ConfigFromEnvIs
    <2>2. PICK v : v = TRUE
      OBVIOUS
    <2>3. [c EXCEPT !.enabled = v] = [enabled |-> v, provider |-> p, base |-> b, key |-> k,
            path |-> q]
      BY <2>1, ConfigSetEnabled
    <2>4. configCfg = [enabled |-> v, provider |-> p, base |-> b, key |-> k, path |-> q]
      BY <1>3, <1>4, <2>2, <2>3
    <2>5. QED
      BY <2>1, <2>2, <2>4
  <1>7. Config!Complete(c) /\
          Config!ValidateOpenAICompatBaseURL(c.base, c.provider, configLocal.path)
    BY <1>1, <1>4, Zenon DEF Config!Accepted
  <1>8. Config!Validate(configCfg)
    <2>1. ~(c.provider = "openai_compat" /\ c.base = "url/v1" /\
            Config!Default(configLocal.path, "/v1/chat") = "/v1/chat")
      BY <1>7, Zenon DEF Config!ValidateOpenAICompatBaseURL
    <2>2. Config!Default(configCfg.path, "/v1/chat") = Config!Default(configLocal.path, "/v1/chat")
      BY <1>5, <1>6, ConfigDefaults
    <2>3. Config!Complete(configCfg) /\
            Config!ValidateOpenAICompatBaseURL(configCfg.base, configCfg.provider, configCfg.path)
      BY <1>6, <1>7, <2>1, <2>2, ConfigCompleteIs, ConfigValidateIs
    <2>4. QED
      BY <2>3, Zenon DEF Config!Validate
  <1>9. configCfg.provider \in {"openai_compat", "gemini"} /\ configCfg.base # "bad"
    BY <1>1, <1>5, <1>6, ConfigDefaults DEF Config!Understood, ConfigRecords
  <1>10. configClient = "client"
    BY <1>1, <1>6, <1>8, <1>9, ConfigMakesClient
  <1>11. QED
    BY <1>3, <1>10

\* A host that sets nothing gets what the laptop has, unless enabled was an alias.
LEMMA ConfigOverHost == ASSUME ConfigInv, configHost = Config!Unset,
  configLocal.enabled # "alias" PROVE Config!Over(configHost, Config!Forwarded) = configLocal
  <1>1. configLocal \in ConfigRecords
    BY DEF ConfigInv, ConfigTypes
  <1>2. PICK e, p, b, o, k, ok, q : configLocal =
          [enabled |-> e, provider |-> p, base |-> b, openaiBase |-> o, key |-> k,
            openaiKey |-> ok, path |-> q]
    BY <1>1 DEF ConfigRecords
  <1>3. Config!Forwarded = configLocal
    <2>1. Config!Forwarded = [configLocal EXCEPT !.enabled = configLocal.enabled]
      BY Zenon DEF Config!Forwarded
    <2>2. QED
      BY <1>2, <2>1
  <1>4. DOMAIN Config!Unset = ConfigFields
    BY ConfigUnsetIs DEF ConfigFields
  <1>5. configLocal = [f \in DOMAIN Config!Unset |-> configLocal[f]]
    BY <1>2, <1>4 DEF ConfigFields
  <1>6. QED
    BY <1>3, <1>5, ConfigOverUnset

\* What the invariant says of the daemon is what is promised.
LEMMA ConfigMeaning == ASSUME ConfigInv
  PROVE Config!TypeOK /\ Config!AcceptedIsUsable /\ Config!ForwardedIsLocal /\
          Config!ClientsAreComplete
  <1>1. Config!TypeOK
    <2>1. DOMAIN configFile = DOMAIN Config!Unset
      BY ConfigLinesAre, ConfigUnsetIs DEF ConfigInv, ConfigTypes
    <2>2. configLocal \in Config!Settings
      BY ConfigSettingsAre DEF ConfigInv, ConfigTypes
    <2>3. QED
      BY <2>1, <2>2 DEF ConfigInv, ConfigTypes, ConfigServed, Config!TypeOK
  <1>2. Config!AcceptedIsUsable
    BY ConfigUsable, Zenon DEF Config!AcceptedIsUsable
  <1>3. Config!ForwardedIsLocal
    BY ConfigOverHost DEF ConfigInv, ConfigServed, Config!ForwardedIsLocal
  <1>4. Config!ClientsAreComplete
    <2>1. SUFFICES ASSUME configClient = "client"
                   PROVE  /\ configCfg.enabled /\ Config!Complete(configCfg)
                          /\ ~(configCfg.provider = "openai_compat" /\ configCfg.base = "url/v1" /\
                               configCfg.path = "/v1/chat")
      BY Zenon DEF Config!ClientsAreComplete
    <2>2. configCfg.enabled /\ Config!Validate(configCfg)
      BY <2>1, ConfigMakesClient DEF ConfigInv, ConfigServed
    <2>3. Config!Complete(configCfg) /\
            Config!ValidateOpenAICompatBaseURL(configCfg.base, configCfg.provider, configCfg.path)
      BY <2>2, Zenon DEF Config!Validate
    <2>4. configCfg.path = "/v1/chat" => Config!Default(configCfg.path, "/v1/chat") = "/v1/chat"
      BY ConfigDefaults
    <2>5. QED
      BY <2>2, <2>3, <2>4, ConfigValidateIs
  <1>5. QED
    BY <1>1, <1>2, <1>3, <1>4

\* What a laptop with settings the bootstrap accepts has is what the daemon uses: the
\* file it writes (writeLLMConfig) makes a client with those settings, a daemon started
\* over ssh has the settings of the laptop where the host has none, and whoever got a
\* client has an address and a key that are not known to be wrong (NewClient, Validate).
THEOREM SettingsHold ==
    ASSUME ConfigMaxStarts \in Nat
    PROVE  Config!Spec =>
             [](Config!TypeOK /\ Config!AcceptedIsUsable /\ Config!ForwardedIsLocal /\
               Config!ClientsAreComplete)
  <1>1. Config!Init => ConfigInv
    BY ConfigInitInv
  <1>2. ConfigInv /\ [Config!Next]_Config!vars => ConfigInv'
    BY ConfigNextInv
  <1>3. QED
    BY <1>1, <1>2, ConfigMeaning, PTL DEF Config!Spec

-----------------------------------------------------------------------------
(***************************************************************************)
(* Proofs about ShellAttach, for any number of clients, attachments, kills *)
(* and restarts and any capacity of the queues.                            *)
(***************************************************************************)

AttachBounds ==
    /\ AttachQueueLen \in Nat /\ AttachMaxLog \in Nat /\ AttachMaxConns \in Nat
    /\ AttachMaxKills \in Nat /\ AttachMaxRestarts \in Nat
    /\ AttachClients # {}

AttachAttachments ==
    [owner : AttachClients, phase : {"unused", "hello", "tail", "over"}, link : BOOLEAN,
     stop : BOOLEAN, gen : 0..AttachMaxKills, rd : 0..AttachMaxLog, pending : 0..AttachMaxLog,
     pendingStart : 0..AttachMaxLog, out : Seq(Attach!Chunks), wire : Seq(Attach!Chunks),
       acks : 0..AttachMaxLog]

AttachTypes ==
    /\ attAlive \in BOOLEAN /\ attExists \in BOOLEAN /\ attPanicked \in BOOLEAN
    /\ attGen \in 0..AttachMaxKills /\ attSize \in [0..AttachMaxKills -> 0..AttachMaxLog]
    /\ attLastAck \in [AttachClients -> 0..AttachMaxLog] /\
         attOwn \in [AttachClients -> 0..AttachMaxLog]
    /\ attUsed \in 0..AttachMaxConns /\ attRestarts \in 0..AttachMaxRestarts
    /\ attGot \in [AttachClients -> SUBSET ((0..AttachMaxKills) \X (0..AttachMaxLog - 1))]
    /\ attConn \in [Attach!Conns -> AttachAttachments]
    /\ \A k \in Attach!Conns : Len(attConn[k].out) <= AttachQueueLen

\* Chunks that follow each other up to the position e.
AttachChain(q, e) ==
    \A i \in 1..Len(q) :
        /\ q[i].off + q[i].len <= e
        /\ q[i].off + q[i].len = IF i < Len(q) THEN q[i + 1].off ELSE e

\* Where what q brings begins, if what follows it begins at e.
AttachFrom(q, e) == IF q = <<>> THEN e ELSE q[1].off

AttachHeld(a) == a.wire \o a.out

\* An attachment whose client listens: what it holds, read from the log there is.
AttachWhole(a) ==
    /\ a.pendingStart + a.pending = a.rd
    /\ a.gen <= attGen
    /\ a.link =>
         a.phase \in {"hello", "tail"} /\ ~a.stop /\ AttachChain(AttachHeld(a), a.pendingStart)

\* It goes on where its client is.
AttachGoesOn(a) == a.link =>
  AttachFrom(AttachHeld(a), a.pendingStart) = attOwn[a.owner] /\ a.rd <= attSize[0]

\* A client listens to one attachment.
AttachOneLink ==
    \A k, l \in Attach!Conns : attConn[k].link /\ attConn[l].link /\
      attConn[k].owner = attConn[l].owner => k = l

\* The log is made anew only after it was removed.
AttachLogs ==
    /\ attUsed = 0 => ~attAlive
    /\ attUsed # 0 /\ ~attExists => attGen < AttachMaxKills

\* A client has what is before its own offset, and nothing else.
AttachReceived(c) ==
    /\ attOwn[c] <= attSize[0]
    /\ \A p \in 0..attOwn[c] - 1 : <<0, p>> \in attGot[c]
    /\ \A u \in attGot[c] : u[1] = 0 /\ u[2] < attOwn[c]

AttachInv ==
    /\ AttachTypes /\ AttachOneLink /\ AttachLogs
    /\ \A k \in Attach!Conns : AttachWhole(attConn[k])
    /\ AttachOwnOffset /\ attGen = 0 =>
         (\A k \in Attach!Conns : AttachGoesOn(attConn[k])) /\
           (\A c \in AttachClients : AttachReceived(c))

-----------------------------------------------------------------------------
\* Chunks that are moved, received and queued.
LEMMA AttachMoved ==
    ASSUME NEW w \in Seq(Attach!Chunks), NEW o \in Seq(Attach!Chunks), o # <<>>
    PROVE  /\ Append(w, Head(o)) \in Seq(Attach!Chunks) /\ Tail(o) \in Seq(Attach!Chunks)
           /\ Len(Tail(o)) <= Len(o)
           /\ Append(w, Head(o)) \o Tail(o) = w \o o
  OBVIOUS

LEMMA AttachReceived1 ==
    ASSUME AttachMaxLog \in Nat, NEW w \in Seq(Attach!Chunks), NEW o \in Seq(Attach!Chunks),
             w # <<>>,
           NEW e \in Nat, AttachChain(w \o o, e)
    PROVE  /\ Tail(w) \in Seq(Attach!Chunks) /\ Head(w) \in Attach!Chunks
           /\ AttachFrom(w \o o, e) = Head(w).off
           /\ Head(w).off + Head(w).len <= e
           /\ AttachChain(Tail(w) \o o, e)
           /\ AttachFrom(Tail(w) \o o, e) = Head(w).off + Head(w).len
  <1>1. PICK q : q = w \o o
    OBVIOUS
  <1>2. PICK r : r = Tail(w) \o o
    OBVIOUS
  <1>3. /\ q \in Seq(Attach!Chunks) /\ r \in Seq(Attach!Chunks) /\ Len(q) >= 1 /\
             Len(r) + 1 = Len(q)
        /\ q[1] = Head(w) /\ \A i \in 1..Len(r) : r[i] = q[i + 1]
        /\ Tail(w) \in Seq(Attach!Chunks) /\ Head(w) \in Attach!Chunks
    BY <1>1, <1>2
  <1>4. AttachChain(q, e)
    BY <1>1
  <1>5. AttachFrom(q, e) = Head(w).off /\ Head(w).off + Head(w).len <= e
    BY <1>3, <1>4 DEF AttachFrom, AttachChain
  <1>6. AttachChain(r, e)
    <2>1. SUFFICES ASSUME NEW i \in 1..Len(r)
                   PROVE  /\ r[i].off + r[i].len <= e
                          /\ r[i].off + r[i].len = IF i < Len(r) THEN r[i + 1].off ELSE e
      BY DEF AttachChain
    <2>2. i + 1 \in 1..Len(q) /\ r[i] = q[i + 1] /\ (i < Len(r) <=> i + 1 < Len(q))
      BY <1>3
    <2>3. ASSUME i < Len(r) PROVE r[i + 1] = q[i + 2]
      <3>1. i + 1 \in 1..Len(r) /\ (i + 1) + 1 = i + 2
        BY <1>3, <2>3
      <3>2. QED
        BY <1>3, <3>1
    <2>4. QED
      BY <1>4, <2>2, <2>3 DEF AttachChain
  <1>7. AttachFrom(r, e) = Head(w).off + Head(w).len
    <2>1. CASE Len(r) = 0
      <3>1. r = <<>> /\ Len(q) = 1 /\ 1 \in 1..Len(q)
        BY <1>3, <2>1
      <3>2. q[1].off + q[1].len = e
        BY <1>4, <3>1 DEF AttachChain
      <3>3. QED
        BY <1>3, <3>1, <3>2 DEF AttachFrom
    <2>2. CASE Len(r) > 0
      BY <1>3, <1>4, <2>2 DEF AttachFrom, AttachChain
    <2>3. QED
      BY <1>3, <2>1, <2>2
  <1>8. QED
    BY <1>1, <1>2, <1>3, <1>5, <1>6, <1>7

LEMMA AttachQueued ==
    ASSUME AttachMaxLog \in Nat, NEW w \in Seq(Attach!Chunks), NEW o \in Seq(Attach!Chunks),
           NEW e \in Nat, NEW n \in Nat, NEW x \in Attach!Chunks, x.off = e, x.len = n,
           AttachChain(w \o o, e)
    PROVE  /\ AttachChain(w \o Append(o, x), e + n)
           /\ AttachFrom(w \o Append(o, x), e + n) = AttachFrom(w \o o, e)
  <1>1. PICK q : q = w \o o
    OBVIOUS
  <1>2. PICK r : r = w \o Append(o, x)
    OBVIOUS
  <1>3. /\ q \in Seq(Attach!Chunks) /\ r \in Seq(Attach!Chunks) /\ Len(r) = Len(q) + 1
        /\ r[Len(r)] = x /\ \A i \in 1..Len(q) : r[i] = q[i]
    BY <1>1, <1>2
  <1>4. AttachChain(q, e)
    BY <1>1
  <1>5. \A i \in 1..Len(q) : q[i].off \in Nat /\ q[i].len \in Nat
    <2>1. \A i \in 1..Len(q) : q[i] \in Attach!Chunks
      BY <1>3
    <2>2. QED
      BY <2>1 DEF Attach!Chunks
  <1>6. AttachChain(r, e + n)
    <2>1. SUFFICES ASSUME NEW i \in 1..Len(r)
                   PROVE  /\ r[i].off + r[i].len <= e + n
                          /\ r[i].off + r[i].len = IF i < Len(r) THEN r[i + 1].off ELSE e + n
      BY DEF AttachChain
    <2>2. CASE i = Len(r)
      BY <1>3, <2>2
    <2>3. CASE i < Len(q)
      <3>1. i \in 1..Len(q) /\ i + 1 \in 1..Len(q) /\ i < Len(r)
        BY <1>3, <2>3
      <3>2. r[i] = q[i] /\ r[i + 1] = q[i + 1]
        BY <1>3, <3>1
      <3>3. q[i].off + q[i].len <= e /\ q[i].off + q[i].len = q[i + 1].off
        BY <1>4, <2>3, <3>1 DEF AttachChain
      <3>4. QED
        BY <1>5, <3>1, <3>2, <3>3, SMTT(60)
    <2>4. CASE i = Len(q)
      <3>1. i \in 1..Len(q) /\ i < Len(r) /\ i + 1 = Len(r)
        BY <1>3, <2>4
      <3>2. q[i].off + q[i].len = e
        BY <1>4, <2>4, <3>1 DEF AttachChain
      <3>3. QED
        BY <1>3, <1>5, <3>1, <3>2
    <2>5. QED
      BY <1>3, <2>2, <2>3, <2>4
  <1>7. AttachFrom(r, e + n) = AttachFrom(q, e)
    <2>1. CASE Len(q) = 0
      <3>1. q = <<>>
        BY <1>3, <2>1
      <3>2. Len(r) = 1 /\ r[1] = x
        BY <1>3, <2>1
      <3>3. r # <<>>
        BY <1>3, <3>2
      <3>4. QED
        BY <3>1, <3>2, <3>3 DEF AttachFrom
    <2>2. CASE Len(q) > 0
      BY <1>3, <2>2 DEF AttachFrom
    <2>3. QED
      BY <1>3, <2>1, <2>2
  <1>8. QED
    BY <1>1, <1>2, <1>6, <1>7

-----------------------------------------------------------------------------
LEMMA AttachConnType == ASSUME AttachInv, NEW k \in Attach!Conns
  PROVE attConn[k] \in AttachAttachments
  BY DEF AttachInv, AttachTypes

\* The fields of an attachment.
LEMMA AttachFields ==
    ASSUME NEW a \in AttachAttachments
    PROVE  /\ a.owner \in AttachClients /\ a.phase \in {"unused", "hello", "tail", "over"}
           /\ a.link \in BOOLEAN /\ a.stop \in BOOLEAN /\ a.gen \in 0..AttachMaxKills
           /\ a.rd \in 0..AttachMaxLog /\ a.pending \in 0..AttachMaxLog /\
                a.pendingStart \in 0..AttachMaxLog
           /\ a.out \in Seq(Attach!Chunks) /\ a.wire \in Seq(Attach!Chunks) /\
                a.acks \in 0..AttachMaxLog
  BY DEF AttachAttachments

\* Initially there is no attachment.
LEMMA AttachInitInv == ASSUME AttachBounds, Attach!Init PROVE AttachInv
  <1>1. Attach!NoConn \in AttachAttachments /\ ~Attach!NoConn.link /\ Attach!NoConn.gen = 0 /\
          Attach!NoConn.out = <<>>
        /\ Attach!NoConn.pendingStart = 0 /\ Attach!NoConn.pending = 0 /\ Attach!NoConn.rd = 0
    BY DEF AttachBounds, Attach!NoConn, AttachAttachments
  <1>2. AttachTypes
    <2>1. attConn \in [Attach!Conns -> AttachAttachments] /\
            \A k \in Attach!Conns : Len(attConn[k].out) <= AttachQueueLen
      BY <1>1 DEF AttachBounds, Attach!Init
    <2>2. attGot \in [AttachClients -> SUBSET ((0..AttachMaxKills) \X (0..AttachMaxLog - 1))]
      BY DEF Attach!Init
    <2>3. /\ attSize \in [0..AttachMaxKills -> 0..AttachMaxLog]
          /\ attLastAck \in [AttachClients -> 0..AttachMaxLog] /\
               attOwn \in [AttachClients -> 0..AttachMaxLog]
      BY DEF AttachBounds, Attach!Init
    <2>4. attAlive \in BOOLEAN /\ attExists \in BOOLEAN /\ attPanicked \in BOOLEAN
      BY Zenon DEF Attach!Init
    <2>5. attGen \in 0..AttachMaxKills /\ attUsed \in 0..AttachMaxConns /\
            attRestarts \in 0..AttachMaxRestarts
      BY DEF AttachBounds, Attach!Init
    <2>6. QED
      BY <2>1, <2>2, <2>3, <2>4, <2>5 DEF AttachTypes
  <1>3. AttachOneLink /\ AttachLogs /\ \A k \in Attach!Conns : AttachWhole(attConn[k])
    BY <1>1 DEF Attach!Init, AttachOneLink, AttachLogs, AttachWhole
  <1>4. /\ \A k \in Attach!Conns : AttachGoesOn(attConn[k])
        /\ \A c \in AttachClients : AttachReceived(c)
    BY <1>1 DEF Attach!Init, AttachGoesOn, AttachReceived, AttachBounds
  <1>5. QED
    BY <1>2, <1>3, <1>4 DEF AttachInv

\* A step of attachment k, which becomes b; its client listens only if it did.
LEMMA AttachConnInv ==
    ASSUME AttachBounds, AttachInv, NEW k \in Attach!Conns, NEW b \in AttachAttachments,
           attConn' = [attConn EXCEPT ![k] = b], Len(b.out) <= AttachQueueLen,
           UNCHANGED <<attAlive, attExists, attGen, attSize, attUsed, attRestarts>>,
           attPanicked' \in BOOLEAN, attLastAck' \in [AttachClients -> 0..AttachMaxLog],
           attOwn' \in [AttachClients -> 0..AttachMaxLog],
           attGot' \in [AttachClients -> SUBSET ((0..AttachMaxKills) \X (0..AttachMaxLog - 1))],
           b.owner = attConn[k].owner, b.link => attConn[k].link,
           \A c \in AttachClients :
              (c = b.owner /\ attConn[k].link) \/ (attOwn'[c] = attOwn[c] /\
                attGot'[c] = attGot[c]),
           AttachWhole(b),
           AttachOwnOffset /\ attGen = 0 => AttachGoesOn(b)' /\ AttachReceived(b.owner)'
    PROVE  AttachInv'
  <1>1. /\ attConn' \in [Attach!Conns -> AttachAttachments] /\ attConn'[k] = b
        /\ \A l \in Attach!Conns \ {k} : attConn'[l] = attConn[l]
    BY DEF AttachInv, AttachTypes
  <1>2. AttachTypes'
    BY <1>1 DEF AttachInv, AttachTypes
  <1>3. AttachOneLink'
    <2>1. SUFFICES ASSUME NEW i \in Attach!Conns, NEW j \in Attach!Conns, attConn'[i].link,
                     attConn'[j].link,
                          attConn'[i].owner = attConn'[j].owner
                   PROVE  i = j
      BY DEF AttachOneLink
    <2>2. \A l \in Attach!Conns : attConn'[l].owner = attConn[l].owner /\ (attConn'[l].link =>
            attConn[l].link)
      BY <1>1
    <2>3. QED
      BY <2>1, <2>2 DEF AttachInv, AttachOneLink
  <1>4. AttachLogs'
    BY DEF AttachInv, AttachLogs
  <1>5. \A l \in Attach!Conns : AttachWhole(attConn[l])'
    BY <1>1 DEF AttachInv, AttachWhole
  <1>6. ASSUME AttachOwnOffset, attGen = 0
        PROVE  (\A l \in Attach!Conns : AttachGoesOn(attConn[l])') /\
                 (\A c \in AttachClients : AttachReceived(c)')
    <2>1. ASSUME NEW l \in Attach!Conns, l # k PROVE AttachGoesOn(attConn[l])'
      <3>1. AttachGoesOn(attConn[l])
        BY <1>6 DEF AttachInv
      <3>2. attConn[l].owner \in AttachClients
        BY AttachConnType, AttachFields
      <3>3. attConn[l].link => attOwn'[attConn[l].owner] = attOwn[attConn[l].owner]
        BY <2>1, <3>2 DEF AttachInv, AttachOneLink
      <3>4. QED
        BY <1>1, <2>1, <3>1, <3>3 DEF AttachGoesOn
    <2>2. ASSUME NEW c \in AttachClients, c # b.owner PROVE AttachReceived(c)'
      BY <1>6, <2>2 DEF AttachInv, AttachReceived
    <2>3. AttachGoesOn(attConn[k])'
      BY <1>1, <1>6 DEF AttachGoesOn
    <2>4. QED
      BY <1>6, <2>1, <2>2, <2>3
  <1>7. QED
    BY <1>2, <1>3, <1>4, <1>5, <1>6 DEF AttachInv

\* What is known of attachment k.
LEMMA AttachKnows ==
    ASSUME AttachInv, NEW k \in Attach!Conns
    PROVE  /\ attConn[k] \in AttachAttachments /\ AttachWhole(attConn[k]) /\
                Len(attConn[k].out) <= AttachQueueLen
           /\ AttachOwnOffset /\ attGen = 0 =>
                AttachGoesOn(attConn[k]) /\ AttachReceived(attConn[k].owner)
  <1>1. attConn[k].owner \in AttachClients
    BY AttachConnType, AttachFields
  <1>2. QED
    BY <1>1 DEF AttachInv, AttachTypes

\* A step of attachment k that its client does not see.
LEMMA AttachQuietInv ==
    ASSUME AttachBounds, AttachInv, NEW k \in Attach!Conns, NEW b \in AttachAttachments,
           attConn' = [attConn EXCEPT ![k] = b], Len(b.out) <= AttachQueueLen,
           UNCHANGED <<attAlive, attExists, attGen, attSize, attUsed, attRestarts, attOwn, attGot>>,
           attPanicked' \in BOOLEAN, attLastAck' \in [AttachClients -> 0..AttachMaxLog],
           b.owner = attConn[k].owner, b.link => attConn[k].link, AttachWhole(b),
           b.link /\ AttachOwnOffset /\ attGen = 0 =>
              /\ b.rd <= attSize[0]
              /\ AttachFrom(AttachHeld(b), b.pendingStart) = AttachFrom(AttachHeld(attConn[k]),
                   attConn[k].pendingStart)
    PROVE  AttachInv'
  <1>1. AttachOwnOffset /\ attGen = 0 => AttachGoesOn(b)' /\ AttachReceived(b.owner)'
    BY AttachKnows, SMTT(60) DEF AttachGoesOn, AttachReceived
  <1>2. /\ attOwn' \in [AttachClients -> 0..AttachMaxLog]
        /\ attGot' \in [AttachClients -> SUBSET ((0..AttachMaxKills) \X (0..AttachMaxLog - 1))]
    BY DEF AttachInv, AttachTypes
  <1>3. QED
    BY <1>1, <1>2, AttachConnInv

\* Nor does it change anything else.
LEMMA AttachQuietStepInv ==
    ASSUME AttachBounds, AttachInv, NEW k \in Attach!Conns, NEW b \in AttachAttachments,
           attConn' = [attConn EXCEPT ![k] = b], Len(b.out) <= AttachQueueLen,
           UNCHANGED <<attAlive, attExists, attGen, attSize, attLastAck, attUsed, attRestarts,
             attOwn, attGot, attPanicked>>,
           b.owner = attConn[k].owner, b.link => attConn[k].link, AttachWhole(b),
           b.link /\ AttachOwnOffset /\ attGen = 0 =>
              /\ b.rd <= attSize[0]
              /\ AttachFrom(AttachHeld(b), b.pendingStart) = AttachFrom(AttachHeld(attConn[k]),
                   attConn[k].pendingStart)
    PROVE  AttachInv'
  <1>1. attLastAck' = attLastAck /\ attPanicked' = attPanicked
    OBVIOUS
  <1>2. attPanicked' \in BOOLEAN /\ attLastAck' \in [AttachClients -> 0..AttachMaxLog]
    BY <1>1, Zenon DEF AttachInv, AttachTypes
  <1>3. QED
    BY <1>2, AttachQuietInv

\* The log is opened.
LEMMA AttachOpenLogInv == ASSUME AttachBounds, AttachInv, NEW k \in Attach!Conns,
  Attach!OpenLog(k) PROVE AttachInv'
  <1>1. PICK a \in AttachAttachments : a = attConn[k]
    BY AttachConnType
  <1>2. PICK b \in AttachAttachments : b = [a EXCEPT !.phase = "tail", !.gen = attGen]
    <2>1. attGen \in 0..AttachMaxKills
      BY DEF AttachInv, AttachTypes
    <2>2. [a EXCEPT !.phase = "tail", !.gen = attGen] \in AttachAttachments
      BY <1>1, <2>1 DEF AttachAttachments
    <2>3. QED
      BY <2>2
  <1>3. /\ b.owner = a.owner /\ b.link = a.link /\ b.stop = a.stop /\ b.gen = attGen
        /\ b.phase = "tail" /\ b.rd = a.rd /\ b.pending = a.pending
        /\ b.pendingStart = a.pendingStart /\ b.out = a.out /\ b.wire = a.wire
    BY <1>1, <1>2 DEF AttachAttachments
  <1>4. attConn' = [attConn EXCEPT ![k] = b]
    BY <1>1, <1>2 DEF Attach!OpenLog
  <1>5. AttachWhole(b)
    BY <1>1, <1>3, AttachKnows DEF AttachWhole, AttachHeld, AttachInv, AttachTypes
  <1>6. b.link /\ AttachOwnOffset /\ attGen = 0 =>
           b.rd <= attSize[0] /\
             AttachFrom(AttachHeld(b), b.pendingStart) = AttachFrom(AttachHeld(a), a.pendingStart)
    BY <1>1, <1>3, AttachKnows DEF AttachGoesOn, AttachHeld
  <1>7. QED
    <2>1. Len(b.out) <= AttachQueueLen
      BY <1>1, <1>3, AttachKnows
    <2>2. UNCHANGED <<attAlive, attExists, attGen, attSize, attLastAck, attUsed, attRestarts,
            attOwn, attGot, attPanicked>>
      BY DEF Attach!OpenLog
    <2>3. QED
      BY <1>1, <1>3, <1>4, <1>5, <1>6, <2>1, <2>2, AttachQuietStepInv
\* Values of an attachment that is over.
LEMMA AttachNothing == ASSUME AttachBounds
  PROVE <<>> \in Seq(Attach!Chunks) /\ 0 \in 0..AttachMaxLog
  BY DEF AttachBounds

\* There is no log any more.
LEMMA AttachOpenLogFailsInv == ASSUME AttachBounds, AttachInv, NEW k \in Attach!Conns,
  Attach!OpenLogFails(k) PROVE AttachInv'
  <1>1. PICK a \in AttachAttachments : a = attConn[k]
    BY AttachConnType
  <1>2. PICK b \in AttachAttachments : b = [a EXCEPT !.phase = "over", !.stop = TRUE,
          !.link = FALSE, !.wire = <<>>]
    <2>1. [a EXCEPT !.phase = "over", !.stop = TRUE, !.link = FALSE,
            !.wire = <<>>] \in AttachAttachments
      BY AttachNothing, AttachFields DEF AttachAttachments
    <2>2. QED
      BY <2>1
  <1>3. /\ b.owner = a.owner /\ b.phase = "over" /\ b.link = FALSE /\ b.stop = TRUE
        /\ b.gen = a.gen /\ b.rd = a.rd /\ b.pending = a.pending
        /\ b.pendingStart = a.pendingStart /\ b.out = a.out /\ b.wire = <<>>
        /\ b.acks = a.acks
    BY <1>2 DEF AttachAttachments
  <1>4. attConn' = [attConn EXCEPT ![k] = b]
    BY <1>1, <1>2 DEF Attach!OpenLogFails
  <1>5. AttachWhole(b)
    BY <1>1, <1>3, AttachKnows DEF AttachWhole, AttachHeld
  <1>6. b.link /\ AttachOwnOffset /\ attGen = 0 =>
           b.rd <= attSize[0] /\
             AttachFrom(AttachHeld(b), b.pendingStart) = AttachFrom(AttachHeld(a), a.pendingStart)
    BY <1>3
  <1>7. QED
    <2>1. Len(b.out) <= AttachQueueLen
      BY <1>1, <1>3, AttachKnows
    <2>2. UNCHANGED <<attAlive, attExists, attGen, attSize, attLastAck, attUsed, attRestarts,
            attOwn, attGot, attPanicked>>
      BY DEF Attach!OpenLogFails
    <2>3. QED
      BY <1>1, <1>3, <1>4, <1>5, <1>6, <2>1, <2>2, AttachQuietStepInv

\* The handler has returned.
LEMMA AttachTailEndsInv == ASSUME AttachBounds, AttachInv, NEW k \in Attach!Conns,
  Attach!TailEnds(k) PROVE AttachInv'
  <1>1. PICK a \in AttachAttachments : a = attConn[k]
    BY AttachConnType
  <1>2. PICK b \in AttachAttachments : b = [a EXCEPT !.phase = "over"]
    <2>1. [a EXCEPT !.phase = "over"] \in AttachAttachments
      BY AttachFields DEF AttachAttachments
    <2>2. QED
      BY <2>1
  <1>3. /\ b.owner = a.owner /\ b.phase = "over" /\ b.link = a.link /\ b.stop = a.stop
        /\ b.gen = a.gen /\ b.rd = a.rd /\ b.pending = a.pending
        /\ b.pendingStart = a.pendingStart /\ b.out = a.out /\ b.wire = a.wire
        /\ b.acks = a.acks
    BY <1>2 DEF AttachAttachments
  <1>4. attConn' = [attConn EXCEPT ![k] = b]
    BY <1>1, <1>2 DEF Attach!TailEnds
  <1>5. AttachWhole(b)
    BY <1>1, <1>3, AttachKnows DEF AttachWhole, AttachHeld, Attach!TailEnds
  <1>6. b.link /\ AttachOwnOffset /\ attGen = 0 =>
           b.rd <= attSize[0] /\
             AttachFrom(AttachHeld(b), b.pendingStart) = AttachFrom(AttachHeld(a), a.pendingStart)
    BY <1>1, <1>3, AttachKnows DEF AttachWhole, Attach!TailEnds
  <1>7. QED
    <2>1. Len(b.out) <= AttachQueueLen
      BY <1>1, <1>3, AttachKnows
    <2>2. UNCHANGED <<attAlive, attExists, attGen, attSize, attLastAck, attUsed, attRestarts,
            attOwn, attGot, attPanicked>>
      BY DEF Attach!TailEnds
    <2>3. QED
      BY <1>1, <1>3, <1>4, <1>5, <1>6, <2>1, <2>2, AttachQuietStepInv

\* The handler learns that its client is gone.
LEMMA AttachStopSendInv == ASSUME AttachBounds, AttachInv, NEW k \in Attach!Conns,
  Attach!StopSend(k) PROVE AttachInv'
  <1>1. PICK a \in AttachAttachments : a = attConn[k]
    BY AttachConnType
  <1>2. PICK b \in AttachAttachments : b = [a EXCEPT !.stop = TRUE]
    <2>1. [a EXCEPT !.stop = TRUE] \in AttachAttachments
      BY AttachFields DEF AttachAttachments
    <2>2. QED
      BY <2>1
  <1>3. /\ b.owner = a.owner /\ b.phase = a.phase /\ b.link = a.link /\ b.stop = TRUE
        /\ b.gen = a.gen /\ b.rd = a.rd /\ b.pending = a.pending
        /\ b.pendingStart = a.pendingStart /\ b.out = a.out /\ b.wire = a.wire
        /\ b.acks = a.acks
    BY <1>2 DEF AttachAttachments
  <1>4. attConn' = [attConn EXCEPT ![k] = b]
    BY <1>1, <1>2 DEF Attach!StopSend
  <1>5. AttachWhole(b)
    BY <1>1, <1>3, AttachKnows DEF AttachWhole, AttachHeld, Attach!StopSend
  <1>6. b.link /\ AttachOwnOffset /\ attGen = 0 =>
           b.rd <= attSize[0] /\
             AttachFrom(AttachHeld(b), b.pendingStart) = AttachFrom(AttachHeld(a), a.pendingStart)
    BY <1>1, <1>3 DEF Attach!StopSend
  <1>7. QED
    <2>1. Len(b.out) <= AttachQueueLen
      BY <1>1, <1>3, AttachKnows
    <2>2. UNCHANGED <<attAlive, attExists, attGen, attSize, attLastAck, attUsed, attRestarts,
            attOwn, attGot, attPanicked>>
      BY DEF Attach!StopSend
    <2>3. QED
      BY <1>1, <1>3, <1>4, <1>5, <1>6, <2>1, <2>2, AttachQuietStepInv

\* The client goes.
LEMMA AttachDisconnectInv == ASSUME AttachBounds, AttachInv, NEW k \in Attach!Conns,
  Attach!Disconnect(k) PROVE AttachInv'
  <1>1. PICK a \in AttachAttachments : a = attConn[k]
    BY AttachConnType
  <1>2. PICK b \in AttachAttachments : b = [a EXCEPT !.link = FALSE, !.wire = <<>>, !.acks = 0]
    <2>1. [a EXCEPT !.link = FALSE, !.wire = <<>>, !.acks = 0] \in AttachAttachments
      BY AttachNothing, AttachFields DEF AttachAttachments
    <2>2. QED
      BY <2>1
  <1>3. /\ b.owner = a.owner /\ b.phase = a.phase /\ b.link = FALSE /\ b.stop = a.stop
        /\ b.gen = a.gen /\ b.rd = a.rd /\ b.pending = a.pending
        /\ b.pendingStart = a.pendingStart /\ b.out = a.out /\ b.wire = <<>> /\ b.acks = 0
    BY <1>2 DEF AttachAttachments
  <1>4. attConn' = [attConn EXCEPT ![k] = b]
    BY <1>1, <1>2 DEF Attach!Disconnect
  <1>5. AttachWhole(b)
    BY <1>1, <1>3, AttachKnows DEF AttachWhole, AttachHeld
  <1>6. b.link /\ AttachOwnOffset /\ attGen = 0 =>
           b.rd <= attSize[0] /\
             AttachFrom(AttachHeld(b), b.pendingStart) = AttachFrom(AttachHeld(a), a.pendingStart)
    BY <1>3
  <1>7. QED
    <2>1. Len(b.out) <= AttachQueueLen
      BY <1>1, <1>3, AttachKnows
    <2>2. UNCHANGED <<attAlive, attExists, attGen, attSize, attLastAck, attUsed, attRestarts,
            attOwn, attGot, attPanicked>>
      BY DEF Attach!Disconnect
    <2>3. QED
      BY <1>1, <1>3, <1>4, <1>5, <1>6, <2>1, <2>2, AttachQuietStepInv

\* The log is read on.
LEMMA AttachReadInv == ASSUME AttachBounds, AttachInv, NEW k \in Attach!Conns, Attach!Read(k)
  PROVE AttachInv'
  <1>1. PICK a \in AttachAttachments : a = attConn[k]
    BY AttachConnType
  <1>p. PICK n \in Nat :
                         /\ n > 0 /\ n <= attSize[a.gen] - a.rd
                         /\ attConn' = [attConn EXCEPT ![k].pendingStart = IF a.pending =
                              0 THEN a.rd ELSE @,
                                                  ![k].pending = @ + n, ![k].rd = @ + n]
    <2>1. PICK n \in 1..attSize[a.gen] - a.rd :
             attConn' = [attConn EXCEPT ![k].pendingStart = IF a.pending = 0 THEN a.rd ELSE @,
                                  ![k].pending = @ + n, ![k].rd = @ + n]
      BY <1>1, Zenon DEF Attach!Read
    <2>2. attSize[a.gen] \in Nat /\ a.rd \in Nat
      BY AttachFields DEF AttachInv, AttachTypes
    <2>3. n \in Nat /\ n > 0 /\ n <= attSize[a.gen] - a.rd
      BY <2>2
    <2>4. QED
      BY <2>1, <2>3
  <1>w. /\ a.pendingStart = IF a.pending = 0 THEN a.rd ELSE a.pendingStart
        /\ a.pendingStart + a.pending = a.rd
        /\ a.rd + n \in 0..AttachMaxLog /\ a.pending + n \in 0..AttachMaxLog
    <2>1. a.pendingStart + a.pending = a.rd
      BY <1>1, AttachKnows DEF AttachWhole
    <2>2. /\ attSize[a.gen] \in 0..AttachMaxLog /\ a.rd \in 0..AttachMaxLog /\
               a.pending \in 0..AttachMaxLog
          /\ a.pendingStart \in 0..AttachMaxLog
      BY AttachFields DEF AttachInv, AttachTypes
    <2>3. QED
      BY <1>p, <2>1, <2>2 DEF AttachBounds
  <1>2. PICK b \in AttachAttachments :
          b = [a EXCEPT !.pendingStart = IF a.pending = 0 THEN a.rd ELSE a.pendingStart,
                                         !.pending = a.pending + n, !.rd = a.rd + n]
    <2>1. [a EXCEPT !.pendingStart = IF a.pending = 0 THEN a.rd ELSE a.pendingStart,
                                         !.pending = a.pending + n,
                                           !.rd = a.rd + n] \in AttachAttachments
      BY <1>w, AttachFields DEF AttachAttachments
    <2>2. QED
      BY <2>1
  <1>3. /\ b.owner = a.owner /\ b.phase = a.phase /\ b.link = a.link /\ b.stop = a.stop
        /\ b.gen = a.gen /\ b.rd = a.rd + n /\ b.pending = a.pending + n
        /\ b.pendingStart = a.pendingStart /\ b.out = a.out /\ b.wire = a.wire
        /\ b.acks = a.acks
    BY <1>2, <1>w DEF AttachAttachments
  <1>4. attConn' = [attConn EXCEPT ![k] = b]
    BY <1>1, <1>2, <1>p DEF Attach!Read
  <1>5. AttachWhole(b)
    <2>1. b.pendingStart + b.pending = b.rd
      <3>1. a.pendingStart \in Nat /\ a.pending \in Nat /\ a.rd \in Nat /\ n \in Nat
        BY <1>p, AttachFields
      <3>2. QED
        BY <1>3, <1>w, <3>1
    <2>2. QED
      BY <1>1, <1>3, <2>1, AttachKnows DEF AttachWhole, AttachHeld
  <1>6. b.link /\ AttachOwnOffset /\ attGen = 0 =>
           b.rd <= attSize[0] /\
             AttachFrom(AttachHeld(b), b.pendingStart) = AttachFrom(AttachHeld(a), a.pendingStart)
    <2>1. a.gen \in 0..AttachMaxKills /\ a.rd \in 0..AttachMaxLog /\ (attGen = 0 => a.gen = 0)
      BY <1>1, AttachKnows, AttachFields DEF AttachWhole, AttachInv, AttachTypes
    <2>2. attSize[0] \in Nat
      BY DEF AttachInv, AttachTypes, AttachBounds
    <2>3. QED
      BY <1>1, <1>3, <1>p, <2>1, <2>2 DEF AttachHeld
  <1>7. QED
    <2>1. Len(b.out) <= AttachQueueLen
      BY <1>1, <1>3, AttachKnows
    <2>2. UNCHANGED <<attAlive, attExists, attGen, attSize, attLastAck, attUsed, attRestarts,
            attOwn, attGot, attPanicked>>
      BY DEF Attach!Read
    <2>3. QED
      BY <1>1, <1>3, <1>4, <1>5, <1>6, <2>1, <2>2, AttachQuietStepInv

\* The end of the process.
LEMMA AttachProcessEndsInv ==
    ASSUME AttachBounds, AttachInv, Attach!ProcessEnds, UNCHANGED <<attAlive, attExists, attGen,
             attSize, attUsed, attOwn, attGot>>,
           attPanicked' \in BOOLEAN, attRestarts' \in 0..AttachMaxRestarts
    PROVE  AttachInv'
  <1>1. ASSUME NEW k \in Attach!Conns
        PROVE  /\ attConn'[k] \in AttachAttachments /\ Len(attConn'[k].out) <= AttachQueueLen
               /\ ~attConn'[k].link /\ AttachWhole(attConn'[k])
    <2>1. PICK a \in AttachAttachments : a = attConn[k]
      BY AttachConnType
    <2>2. CASE attConn'[k] = Attach!NoConn
      <3>1. /\ Attach!NoConn \in AttachAttachments /\ ~Attach!NoConn.link /\
                 Attach!NoConn.out = <<>>
            /\ Attach!NoConn.pendingStart = 0 /\ Attach!NoConn.pending = 0 /\
                 Attach!NoConn.rd = 0 /\ Attach!NoConn.gen = 0
        BY DEF AttachBounds, Attach!NoConn, AttachAttachments
      <3>2. QED
        BY <2>2, <3>1 DEF AttachWhole, AttachBounds, AttachInv, AttachTypes
    <2>3. CASE attConn'[k] = [a EXCEPT !.phase = "over", !.stop = TRUE, !.link = FALSE,
                 !.wire = <<>>]
      <3>1. PICK b \in AttachAttachments :
               b = [a EXCEPT !.phase = "over", !.stop = TRUE, !.link = FALSE, !.wire = <<>>]
        <4>1. [a EXCEPT !.phase = "over", !.stop = TRUE, !.link = FALSE, !.wire = <<>>]
                 \in AttachAttachments
          BY AttachNothing, AttachFields DEF AttachAttachments
        <4>2. QED
          BY <4>1
      <3>2. /\ b.link = FALSE /\ b.out = a.out /\ b.pendingStart = a.pendingStart
            /\ b.pending = a.pending /\ b.rd = a.rd /\ b.gen = a.gen
        BY <3>1 DEF AttachAttachments
      <3>3. QED
        BY <2>1, <2>3, <3>1, <3>2, AttachKnows DEF AttachWhole
    <2>4. QED
      BY <2>1, <2>2, <2>3 DEF Attach!ProcessEnds
  <1>2. attConn' \in [Attach!Conns -> AttachAttachments]
    BY <1>1 DEF Attach!ProcessEnds
  <1>3. attLastAck' \in [AttachClients -> 0..AttachMaxLog]
    <2>1. attLastAck' = [c \in AttachClients |-> 0]
      BY Zenon DEF Attach!ProcessEnds
    <2>2. QED
      BY <2>1, AttachNothing
  <1>4. AttachTypes'
    <2>1. UNCHANGED <<attAlive, attExists, attGen, attSize, attUsed, attOwn, attGot>>
      OBVIOUS
    <2>2. QED
      BY <1>1, <1>2, <1>3, <2>1 DEF AttachInv, AttachTypes
  <1>5. AttachOneLink' /\ AttachLogs' /\ \A k \in Attach!Conns : AttachWhole(attConn[k])'
    BY <1>1 DEF AttachOneLink, AttachLogs, AttachInv, AttachWhole
  <1>6. AttachOwnOffset /\ attGen = 0 =>
          (\A k \in Attach!Conns : AttachGoesOn(attConn[k])') /\
            (\A c \in AttachClients : AttachReceived(c)')
    BY <1>1 DEF AttachGoesOn, AttachReceived, AttachInv
  <1>7. QED
    BY <1>4, <1>5, <1>6 DEF AttachInv

\* What is flushed after the client has gone.
LEMMA AttachFlushStoppedInv == ASSUME AttachBounds, AttachInv, NEW k \in Attach!Conns,
  Attach!FlushStopped(k) PROVE AttachInv'
  <1>1. PICK a \in AttachAttachments : a = attConn[k]
    BY AttachConnType
  <1>2. CASE attConn' = [attConn EXCEPT ![k].phase = "over"] /\
               UNCHANGED <<attLastAck, attPanicked>>
    <2>1. PICK b \in AttachAttachments : b = [a EXCEPT !.phase = "over"]
      <3>1. [a EXCEPT !.phase = "over"] \in AttachAttachments
        BY AttachFields DEF AttachAttachments
      <3>2. QED
        BY <3>1
    <2>2. /\ b.owner = a.owner /\ b.link = a.link /\ b.gen = a.gen /\ b.rd = a.rd
          /\ b.pending = a.pending /\ b.pendingStart = a.pendingStart /\ b.out = a.out
      BY <2>1 DEF AttachAttachments
    <2>3. attConn' = [attConn EXCEPT ![k] = b]
      BY <1>1, <1>2, <2>1
    <2>4. ~a.link /\ AttachWhole(b)
      BY <1>1, <2>2, AttachKnows DEF AttachWhole, Attach!FlushStopped
    <2>5. Len(b.out) <= AttachQueueLen
      BY <1>1, <2>2, AttachKnows
    <2>6. UNCHANGED <<attAlive, attExists, attGen, attSize, attLastAck, attUsed, attRestarts,
            attOwn, attGot, attPanicked>>
      BY <1>2 DEF Attach!FlushStopped
    <2>7. QED
      BY <1>1, <2>2, <2>3, <2>4, <2>5, <2>6, AttachQuietStepInv
  <1>3. CASE Attach!ProcessEnds /\ attPanicked' = TRUE
    <2>1. UNCHANGED <<attAlive, attExists, attGen, attSize, attUsed, attRestarts, attOwn, attGot>>
      BY DEF Attach!FlushStopped
    <2>2. attPanicked' \in BOOLEAN /\ attRestarts' \in 0..AttachMaxRestarts
      BY <1>3, <2>1, Zenon DEF AttachInv, AttachTypes
    <2>3. QED
      BY <1>3, <2>1, <2>2, AttachProcessEndsInv
  <1>4. QED
    BY <1>2, <1>3, Zenon DEF Attach!FlushStopped

\* The daemon restarts.
LEMMA AttachRestartInv == ASSUME AttachBounds, AttachInv, Attach!Restart PROVE AttachInv'
  <1>1. attRestarts' \in 0..AttachMaxRestarts
    BY DEF Attach!Restart, AttachInv, AttachTypes, AttachBounds
  <1>2. UNCHANGED <<attAlive, attExists, attGen, attSize, attUsed, attOwn, attGot, attPanicked>> /\
          Attach!ProcessEnds
    BY DEF Attach!Restart
  <1>3. attPanicked' \in BOOLEAN
    BY <1>2, Zenon DEF AttachInv, AttachTypes
  <1>4. QED
    BY <1>1, <1>2, <1>3, AttachProcessEndsInv

\* lastAck after an acknowledgement, or a flush.
LEMMA AttachAckTypes ==
    ASSUME AttachInv, NEW c \in AttachClients, NEW off \in 0..AttachMaxLog, Attach!SetLastAck(c,
             off)
    PROVE  attLastAck' \in [AttachClients -> 0..AttachMaxLog]
  <1>1. Attach!Larger(attLastAck[c], off) \in 0..AttachMaxLog /\
          attLastAck \in [AttachClients -> 0..AttachMaxLog]
    BY DEF Attach!Larger, AttachInv, AttachTypes
  <1>2. QED
    BY <1>1 DEF Attach!SetLastAck

\* Pending output is queued.
LEMMA AttachFlushInv == ASSUME AttachBounds, AttachInv, NEW k \in Attach!Conns,
  Attach!Flush(k) PROVE AttachInv'
  <1>1. PICK a \in AttachAttachments : a = attConn[k]
    BY AttachConnType
  <1>p. PICK n \in 1..a.pending :
           /\ attConn' = [attConn EXCEPT
                         ![k].out = Append(@, [off |-> a.pendingStart, len |-> n]),
                         ![k].pending = @ - n, ![k].pendingStart = @ + n]
           /\ Attach!SetLastAck(a.owner, a.pendingStart + n)
    BY <1>1, Zenon DEF Attach!Flush
  <1>w. /\ a.pendingStart + a.pending = a.rd /\ a.rd \in 0..AttachMaxLog
        /\ a.pending \in 0..AttachMaxLog /\ a.pendingStart \in 0..AttachMaxLog /\
             n \in 1..AttachMaxLog
        /\ a.pending - n \in 0..AttachMaxLog /\ a.pendingStart + n \in 0..AttachMaxLog
    <2>1. a.pendingStart + a.pending = a.rd
      BY <1>1, AttachKnows DEF AttachWhole
    <2>2. a.rd \in 0..AttachMaxLog /\ a.pending \in 0..AttachMaxLog /\
            a.pendingStart \in 0..AttachMaxLog
      BY AttachFields
    <2>3. n \in Nat /\ 1 <= n /\ n <= a.pending /\ AttachMaxLog \in Nat
      BY <1>p, <2>2 DEF AttachBounds
    <2>4. n \in 1..AttachMaxLog /\ a.pending - n \in 0..AttachMaxLog
      BY <2>2, <2>3
    <2>5. a.pendingStart + n \in 0..AttachMaxLog
      BY <2>1, <2>2, <2>3
    <2>6. QED
      BY <2>1, <2>2, <2>4, <2>5
  <1>x. PICK x \in Attach!Chunks : x = [off |-> a.pendingStart, len |-> n]
    BY <1>w DEF Attach!Chunks
  <1>o. PICK more \in Seq(Attach!Chunks) : more = Append(a.out, x) /\ Len(more) = Len(a.out) + 1
    <2>1. Append(a.out, x) \in Seq(Attach!Chunks) /\ Len(Append(a.out, x)) = Len(a.out) + 1
      BY AttachFields
    <2>2. QED
      BY <2>1, Zenon
  <1>2. PICK b \in AttachAttachments : b = [a EXCEPT !.out = more, !.pending = a.pending - n,
                                               !.pendingStart = a.pendingStart + n]
    <2>1. [a EXCEPT !.out = more, !.pending = a.pending - n,
                    !.pendingStart = a.pendingStart + n] \in AttachAttachments
      BY <1>w, AttachFields DEF AttachAttachments
    <2>2. QED
      BY <2>1
  <1>3. /\ b.owner = a.owner /\ b.phase = a.phase /\ b.link = a.link /\ b.stop = a.stop
        /\ b.gen = a.gen /\ b.rd = a.rd /\ b.pending = a.pending - n
        /\ b.pendingStart = a.pendingStart + n /\ b.out = more /\ b.wire = a.wire
    BY <1>2 DEF AttachAttachments
  <1>4. attConn' = [attConn EXCEPT ![k] = b]
    BY <1>1, <1>2, <1>p, <1>x, <1>o
  <1>q. a.link =>
                  /\ AttachChain(AttachHeld(b), b.pendingStart)
                  /\ AttachFrom(AttachHeld(b), b.pendingStart) = AttachFrom(AttachHeld(a),
                       a.pendingStart)
    <2>1. SUFFICES ASSUME a.link
                   PROVE  /\ AttachChain(a.wire \o Append(a.out, x), a.pendingStart + n)
                          /\ AttachFrom(a.wire \o Append(a.out, x), a.pendingStart + n)
                               = AttachFrom(a.wire \o a.out, a.pendingStart)
      BY <1>3, <1>o DEF AttachHeld
    <2>2. AttachChain(a.wire \o a.out, a.pendingStart)
      BY <1>1, <2>1, AttachKnows DEF AttachWhole, AttachHeld
    <2>3. x.off = a.pendingStart /\ x.len = n /\ a.pendingStart \in Nat /\ n \in Nat
      BY <1>w, <1>x
    <2>4. a.wire \in Seq(Attach!Chunks) /\ a.out \in Seq(Attach!Chunks)
      BY AttachFields
    <2>5. QED
      BY <2>2, <2>3, <2>4, AttachQueued DEF AttachBounds
  <1>5. AttachWhole(b)
    <2>1. b.pendingStart + b.pending = b.rd
      BY <1>3, <1>w, <1>p
    <2>2. QED
      BY <1>1, <1>3, <1>q, <2>1, AttachKnows DEF AttachWhole
  <1>6. b.link /\ AttachOwnOffset /\ attGen = 0 =>
           b.rd <= attSize[0] /\
             AttachFrom(AttachHeld(b), b.pendingStart) = AttachFrom(AttachHeld(a), a.pendingStart)
    BY <1>1, <1>3, <1>q, AttachKnows DEF AttachGoesOn
  <1>7. QED
    <2>1. Len(b.out) <= AttachQueueLen
      <3>1. Len(a.out) < AttachQueueLen /\ Len(a.out) \in Nat
        BY <1>1, AttachFields DEF Attach!Flush
      <3>2. QED
        BY <1>3, <1>o, <3>1 DEF AttachBounds
    <2>2. UNCHANGED <<attAlive, attExists, attGen, attSize, attUsed, attRestarts, attOwn, attGot,
            attPanicked>>
      BY DEF Attach!Flush
    <2>3. attPanicked' \in BOOLEAN
      BY <2>2, Zenon DEF AttachInv, AttachTypes
    <2>4. attLastAck' \in [AttachClients -> 0..AttachMaxLog]
      BY <1>p, <1>w, AttachAckTypes, AttachFields
    <2>5. QED
      BY <1>1, <1>3, <1>4, <1>5, <1>6, <2>1, <2>2, <2>3, <2>4, AttachQuietInv

\* The sender goroutine.
LEMMA AttachSenderInv == ASSUME AttachBounds, AttachInv, NEW k \in Attach!Conns,
  Attach!Sender(k) PROVE AttachInv'
  <1>1. PICK a \in AttachAttachments : a = attConn[k]
    BY AttachConnType
  <1>p. /\ a.out # <<>>
        /\ attConn' = [attConn EXCEPT ![k].out = Tail(@),
                                ![k].wire = IF a.link THEN Append(@, Head(a.out)) ELSE @]
    BY <1>1, Zenon DEF Attach!Sender
  <1>w. /\ a.wire \in Seq(Attach!Chunks) /\ a.out \in Seq(Attach!Chunks)
        /\ Append(a.wire, Head(a.out)) \in Seq(Attach!Chunks) /\ Tail(a.out) \in Seq(Attach!Chunks)
        /\ Len(Tail(a.out)) <= Len(a.out)
        /\ Append(a.wire, Head(a.out)) \o Tail(a.out) = a.wire \o a.out
    BY <1>p, AttachFields, AttachMoved
  <1>r. PICK rest \in Seq(Attach!Chunks) : rest = Tail(a.out)
    BY <1>w
  <1>m. PICK more \in Seq(Attach!Chunks) :
           more = IF a.link THEN Append(a.wire, Head(a.out)) ELSE a.wire
    <2>1. (IF a.link THEN Append(a.wire, Head(a.out)) ELSE a.wire) \in Seq(Attach!Chunks)
      BY <1>w, Zenon
    <2>2. QED
      BY <2>1, Zenon
  <1>2. PICK b \in AttachAttachments : b = [a EXCEPT !.out = rest, !.wire = more]
    <2>1. [a EXCEPT !.out = rest, !.wire = more] \in AttachAttachments
      BY AttachFields DEF AttachAttachments
    <2>2. QED
      BY <2>1
  <1>3. /\ b.owner = a.owner /\ b.phase = a.phase /\ b.link = a.link /\ b.stop = a.stop
        /\ b.gen = a.gen /\ b.rd = a.rd /\ b.pending = a.pending
        /\ b.pendingStart = a.pendingStart /\ b.out = rest /\ b.wire = more
    BY <1>2 DEF AttachAttachments
  <1>4. attConn' = [attConn EXCEPT ![k] = b]
    BY <1>1, <1>2, <1>p, <1>r, <1>m
  <1>q. a.link => AttachHeld(b) = AttachHeld(a)
    BY <1>3, <1>w, <1>r, <1>m DEF AttachHeld
  <1>5. AttachWhole(b)
    BY <1>1, <1>3, <1>q, AttachKnows DEF AttachWhole
  <1>6. b.link /\ AttachOwnOffset /\ attGen = 0 =>
           b.rd <= attSize[0] /\
             AttachFrom(AttachHeld(b), b.pendingStart) = AttachFrom(AttachHeld(a), a.pendingStart)
    BY <1>1, <1>3, <1>q, AttachKnows DEF AttachGoesOn
  <1>7. QED
    <2>1. Len(b.out) <= AttachQueueLen
      <3>1. Len(a.out) <= AttachQueueLen /\ Len(a.out) \in Nat /\ Len(rest) \in Nat
        BY <1>1, AttachFields, AttachKnows
      <3>2. QED
        BY <1>3, <1>w, <1>r, <3>1 DEF AttachBounds
    <2>2. UNCHANGED <<attAlive, attExists, attGen, attSize, attLastAck, attUsed, attRestarts,
            attOwn, attGot, attPanicked>>
      BY DEF Attach!Sender
    <2>3. QED
      BY <1>1, <1>3, <1>4, <1>5, <1>6, <2>1, <2>2, AttachQuietStepInv

\* An acknowledgement arrives.
LEMMA AttachRecvAckInv == ASSUME AttachBounds, AttachInv, NEW k \in Attach!Conns,
  Attach!RecvAck(k) PROVE AttachInv'
  <1>1. PICK a \in AttachAttachments : a = attConn[k]
    BY AttachConnType
  <1>2. PICK b \in AttachAttachments : b = [a EXCEPT !.acks = 0]
    <2>1. [a EXCEPT !.acks = 0] \in AttachAttachments
      BY AttachNothing, AttachFields DEF AttachAttachments
    <2>2. QED
      BY <2>1
  <1>3. /\ b.owner = a.owner /\ b.phase = a.phase /\ b.link = a.link /\ b.stop = a.stop
        /\ b.gen = a.gen /\ b.rd = a.rd /\ b.pending = a.pending
        /\ b.pendingStart = a.pendingStart /\ b.out = a.out /\ b.wire = a.wire
    BY <1>2 DEF AttachAttachments
  <1>4. attConn' = [attConn EXCEPT ![k] = b]
    BY <1>1, <1>2 DEF Attach!RecvAck
  <1>5. AttachWhole(b)
    BY <1>1, <1>3, AttachKnows DEF AttachWhole, AttachHeld
  <1>6. b.link /\ AttachOwnOffset /\ attGen = 0 =>
           b.rd <= attSize[0] /\
             AttachFrom(AttachHeld(b), b.pendingStart) = AttachFrom(AttachHeld(a), a.pendingStart)
    BY <1>1, <1>3, AttachKnows DEF AttachGoesOn, AttachHeld
  <1>7. QED
    <2>1. Len(b.out) <= AttachQueueLen
      BY <1>1, <1>3, AttachKnows
    <2>2. UNCHANGED <<attAlive, attExists, attGen, attSize, attUsed, attRestarts, attOwn, attGot,
            attPanicked>>
      BY DEF Attach!RecvAck
    <2>3. attPanicked' \in BOOLEAN
      BY <2>2, Zenon DEF AttachInv, AttachTypes
    <2>4. Attach!SetLastAck(a.owner, a.acks)
      BY <1>1 DEF Attach!RecvAck
    <2>5. attLastAck' \in [AttachClients -> 0..AttachMaxLog]
      BY <2>4, AttachAckTypes, AttachFields
    <2>6. QED
      BY <1>1, <1>3, <1>4, <1>5, <1>6, <2>1, <2>2, <2>3, <2>5, AttachQuietInv

\* A sum that is not too large.
LEMMA AttachInLog ==
    ASSUME AttachMaxLog \in Nat, NEW x \in 0..AttachMaxLog, NEW y \in 1..AttachMaxLog,
             NEW z \in 0..AttachMaxLog,
           x + y <= z
    PROVE  x + y \in 0..AttachMaxLog
  OBVIOUS

\* The client receives a chunk.
LEMMA AttachRecvInv == ASSUME AttachBounds, AttachInv, NEW k \in Attach!Conns, Attach!Recv(k)
  PROVE AttachInv'
  <1>1. PICK a \in AttachAttachments : a = attConn[k]
    BY AttachConnType
  <1>c. PICK c \in Attach!Chunks, end \in 0..AttachMaxLog :
           /\ c = Head(a.wire) /\ end = c.off + c.len
           /\ Tail(a.wire) \in Seq(Attach!Chunks)
           /\ AttachFrom(AttachHeld(a), a.pendingStart) = c.off
           /\ AttachChain(Tail(a.wire) \o a.out, a.pendingStart)
           /\ AttachFrom(Tail(a.wire) \o a.out, a.pendingStart) = end
           /\ end <= a.pendingStart /\ c.off \in 0..AttachMaxLog /\ c.len \in 1..AttachMaxLog
    <2>1. /\ a.wire \in Seq(Attach!Chunks) /\ a.out \in Seq(Attach!Chunks) /\ a.wire # <<>>
          /\ a.pendingStart \in 0..AttachMaxLog /\ AttachChain(a.wire \o a.out, a.pendingStart)
      BY <1>1, AttachKnows, AttachFields DEF Attach!Recv, AttachWhole, AttachHeld
    <2>2. a.pendingStart \in Nat
      BY <2>1
    <2>3. /\ Tail(a.wire) \in Seq(Attach!Chunks) /\ Head(a.wire) \in Attach!Chunks
          /\ AttachFrom(a.wire \o a.out, a.pendingStart) = Head(a.wire).off
          /\ Head(a.wire).off + Head(a.wire).len <= a.pendingStart
          /\ AttachChain(Tail(a.wire) \o a.out, a.pendingStart)
          /\ AttachFrom(Tail(a.wire) \o a.out, a.pendingStart) = Head(a.wire).off + Head(a.wire).len
      BY <2>1, <2>2, AttachReceived1 DEF AttachBounds
    <2>4. Head(a.wire).off \in 0..AttachMaxLog /\ Head(a.wire).len \in 1..AttachMaxLog
      BY <2>3 DEF Attach!Chunks
    <2>5. Head(a.wire).off + Head(a.wire).len \in 0..AttachMaxLog
      BY <2>1, <2>3, <2>4, AttachInLog DEF AttachBounds
    <2>6. QED
      BY <2>3, <2>4, <2>5 DEF AttachHeld
  <1>p. /\ attGot' = [attGot EXCEPT ![a.owner] = @ \cup {<<a.gen, p>> : p \in c.off..end - 1}]
        /\ attOwn' = [attOwn EXCEPT ![a.owner] = end]
        /\ attConn' = [attConn EXCEPT ![k].wire = Tail(@), ![k].acks = end]
        /\ a.link
        /\ UNCHANGED <<attAlive, attExists, attGen, attSize, attLastAck, attUsed, attRestarts,
             attPanicked>>
    BY <1>1, <1>c DEF Attach!Recv
  <1>r. PICK rest \in Seq(Attach!Chunks) : rest = Tail(a.wire)
    BY <1>c
  <1>2. PICK b \in AttachAttachments : b = [a EXCEPT !.wire = rest, !.acks = end]
    <2>1. [a EXCEPT !.wire = rest, !.acks = end] \in AttachAttachments
      BY AttachFields DEF AttachAttachments
    <2>2. QED
      BY <2>1
  <1>3. /\ b.owner = a.owner /\ b.phase = a.phase /\ b.link = a.link /\ b.stop = a.stop
        /\ b.gen = a.gen /\ b.rd = a.rd /\ b.pending = a.pending
        /\ b.pendingStart = a.pendingStart /\ b.out = a.out /\ b.wire = rest
    BY <1>2 DEF AttachAttachments
  <1>4. attConn' = [attConn EXCEPT ![k] = b]
    BY <1>1, <1>2, <1>p, <1>r
  <1>5. AttachWhole(b)
    BY <1>1, <1>3, <1>c, <1>r, AttachKnows DEF AttachWhole, AttachHeld
  <1>t. /\ attOwn' \in [AttachClients -> 0..AttachMaxLog] /\ attOwn'[a.owner] = end
        /\ \A o \in AttachClients \ {a.owner} : attOwn'[o] = attOwn[o] /\ attGot'[o] = attGot[o]
        /\ attGot'[a.owner] = attGot[a.owner] \cup {<<a.gen, p>> : p \in c.off..end - 1}
        /\ attGot' \in [AttachClients -> SUBSET ((0..AttachMaxKills) \X (0..AttachMaxLog - 1))]
    <2>1. a.owner \in AttachClients /\ a.gen \in 0..AttachMaxKills
      BY AttachFields
    <2>2. {<<a.gen,
            p>> : p \in c.off..end - 1} \in SUBSET ((0..AttachMaxKills) \X (0..AttachMaxLog - 1))
      <3>1. \A p \in c.off..end - 1 : p \in 0..AttachMaxLog - 1
        BY <1>c DEF AttachBounds
      <3>2. QED
        BY <2>1, <3>1
    <2>3. PICK new \in SUBSET ((0..AttachMaxKills) \X (0..AttachMaxLog - 1)) :
             new = {<<a.gen, p>> : p \in c.off..end - 1}
      BY <2>2
    <2>4. QED
      BY <1>p, <2>1, <2>3 DEF AttachInv, AttachTypes
  <1>6. ASSUME AttachOwnOffset, attGen = 0 PROVE AttachGoesOn(b)' /\ AttachReceived(b.owner)'
    <2>1. AttachGoesOn(a) /\ AttachReceived(a.owner)
      BY <1>1, <1>6, AttachKnows
    <2>2. c.off = attOwn[a.owner] /\ a.rd <= attSize[0] /\ a.gen = 0 /\ end <= attSize[0]
      <3>1. a.gen <= attGen /\ a.gen \in 0..AttachMaxKills /\ a.pendingStart + a.pending = a.rd
        BY <1>1, AttachKnows, AttachFields DEF AttachWhole
      <3>2. c.off = attOwn[a.owner] /\ a.rd <= attSize[0]
        BY <1>c, <1>p, <2>1 DEF AttachGoesOn
      <3>3. /\ a.pendingStart \in Nat /\ a.pending \in Nat /\ a.rd \in Nat /\ end \in Nat
            /\ attSize[0] \in Nat
        BY AttachFields DEF AttachInv, AttachTypes, AttachBounds
      <3>4. QED
        BY <1>6, <1>c, <3>1, <3>2, <3>3
    <2>3. AttachGoesOn(b)'
      BY <1>3, <1>c, <1>r, <1>t, <1>p, <2>2 DEF AttachGoesOn, AttachHeld
    <2>4. AttachReceived(a.owner)'
      <3>1. attOwn'[a.owner] <= attSize[0]
        BY <1>t, <2>2
      <3>2. ASSUME NEW p \in 0..end - 1 PROVE <<0, p>> \in attGot'[a.owner]
        <4>1. CASE p < c.off
          <5>1. p \in 0..attOwn[a.owner] - 1
            BY <1>c, <2>2, <4>1
          <5>2. QED
            BY <1>t, <2>1, <5>1 DEF AttachReceived
        <4>2. CASE p >= c.off
          <5>1. p \in c.off..end - 1
            BY <1>c, <4>2
          <5>2. QED
            BY <1>t, <2>2, <5>1
        <4>3. QED
          BY <1>c, <4>1, <4>2
      <3>3. ASSUME NEW u \in attGot'[a.owner] PROVE u[1] = 0 /\ u[2] < end
        <4>1. CASE u \in attGot[a.owner]
          <5>1. u[1] = 0 /\ u[2] < attOwn[a.owner] /\ attOwn[a.owner] < end
            BY <1>c, <2>1, <2>2, <4>1 DEF AttachReceived
          <5>2. u[2] \in 0..AttachMaxLog - 1
            BY <4>1, AttachFields DEF AttachInv, AttachTypes
          <5>3. QED
            BY <1>c, <2>2, <5>1, <5>2
        <4>2. CASE u \in {<<a.gen, p>> : p \in c.off..end - 1}
          BY <1>c, <2>2, <4>2
        <4>3. QED
          BY <1>t, <3>3, <4>1, <4>2
      <3>4. QED
        BY <1>p, <1>t, <3>1, <3>2, <3>3 DEF AttachReceived
    <2>5. QED
      BY <1>3, <2>3, <2>4 DEF AttachReceived
  <1>7. QED
    <2>1. Len(b.out) <= AttachQueueLen
      BY <1>1, <1>3, AttachKnows
    <2>2. UNCHANGED <<attAlive, attExists, attGen, attSize, attLastAck, attUsed, attRestarts,
            attPanicked>>
      BY <1>p
    <2>3. attPanicked' \in BOOLEAN /\ attLastAck' \in [AttachClients -> 0..AttachMaxLog]
      BY <2>2, Zenon DEF AttachInv, AttachTypes
    <2>4. \A o \in AttachClients :
             (o = b.owner /\ attConn[k].link) \/ (attOwn'[o] = attOwn[o] /\ attGot'[o] = attGot[o])
      <3>1. attConn[k].link
        BY <1>1, <1>p
      <3>2. \A o \in AttachClients : o = b.owner \/ (attOwn'[o] = attOwn[o] /\
              attGot'[o] = attGot[o])
        BY <1>3, <1>t
      <3>3. QED
        BY <3>1, <3>2, Zenon
    <2>5. QED
      BY <1>1, <1>3, <1>4, <1>5, <1>6, <1>t, <2>1, <2>2, <2>3, <2>4, AttachConnInv

\* Output of the shell.
LEMMA AttachOutputInv == ASSUME AttachBounds, AttachInv, Attach!Output PROVE AttachInv'
  <1>1. /\ attSize[attGen] < AttachMaxLog /\ attSize' = [attSize EXCEPT ![attGen] = @ + 1]
        /\ UNCHANGED <<attAlive, attExists, attGen, attLastAck, attConn, attUsed, attRestarts,
             attOwn, attGot, attPanicked>>
    BY DEF Attach!Output
  <1>2. attSize' \in [0..AttachMaxKills -> 0..AttachMaxLog] /\ attSize[0] \in Nat /\
          attSize'[0] \in Nat
        /\ attSize[0] <= attSize'[0]
    <2>1. attSize \in [0..AttachMaxKills -> 0..AttachMaxLog] /\ attGen \in 0..AttachMaxKills /\
            0 \in 0..AttachMaxKills
      BY DEF AttachInv, AttachTypes, AttachBounds
    <2>2. attSize[attGen] + 1 \in 0..AttachMaxLog
      BY <1>1, <2>1 DEF AttachBounds
    <2>3. QED
      BY <1>1, <2>1, <2>2
  <1>3. AttachTypes'
    BY <1>1, <1>2 DEF AttachInv, AttachTypes
  <1>4. AttachOneLink' /\ AttachLogs' /\ \A k \in Attach!Conns : AttachWhole(attConn[k])'
    BY <1>1 DEF AttachOneLink, AttachLogs, AttachInv, AttachWhole
  <1>5. ASSUME AttachOwnOffset, attGen = 0
        PROVE  (\A k \in Attach!Conns : AttachGoesOn(attConn[k])') /\
                 (\A c \in AttachClients : AttachReceived(c)')
    <2>1. ASSUME NEW k \in Attach!Conns PROVE AttachGoesOn(attConn[k])'
      <3>1. attConn[k].rd \in Nat
        BY AttachConnType, AttachFields
      <3>2. AttachGoesOn(attConn[k])
        BY <1>5 DEF AttachInv
      <3>3. QED
        BY <1>1, <1>2, <3>1, <3>2 DEF AttachGoesOn
    <2>2. ASSUME NEW c \in AttachClients PROVE AttachReceived(c)'
      <3>1. attOwn[c] \in Nat
        BY DEF AttachInv, AttachTypes
      <3>2. QED
        BY <1>1, <1>2, <1>5, <3>1 DEF AttachInv, AttachReceived
    <2>3. QED
      BY <2>1, <2>2
  <1>6. QED
    BY <1>1, <1>3, <1>4, <1>5 DEF AttachInv

\* The shell is killed.
LEMMA AttachCloseShellInv == ASSUME AttachBounds, AttachInv, Attach!CloseShell PROVE AttachInv'
  <1>1. /\ attAlive' = FALSE /\ attExists' = FALSE /\ attGen < AttachMaxKills
        /\ UNCHANGED <<attGen, attSize, attLastAck, attConn, attUsed, attRestarts, attOwn, attGot,
             attPanicked>>
    BY DEF Attach!CloseShell
  <1>2. attAlive' \in BOOLEAN /\ attExists' \in BOOLEAN
    BY <1>1, Zenon
  <1>3. AttachTypes'
    BY <1>1, <1>2 DEF AttachInv, AttachTypes
  <1>4. AttachOneLink' /\ AttachLogs' /\ \A k \in Attach!Conns : AttachWhole(attConn[k])'
    BY <1>1 DEF AttachOneLink, AttachLogs, AttachInv, AttachWhole
  <1>5. AttachOwnOffset /\ attGen = 0 =>
          (\A k \in Attach!Conns : AttachGoesOn(attConn[k])') /\
            (\A c \in AttachClients : AttachReceived(c)')
    BY <1>1 DEF AttachGoesOn, AttachReceived, AttachInv
  <1>6. QED
    BY <1>1, <1>3, <1>4, <1>5 DEF AttachInv

\* A client attaches.
LEMMA AttachAttachInv == ASSUME AttachBounds, AttachInv, NEW c \in AttachClients,
  Attach!Attach(c) PROVE AttachInv'
  <1>1. PICK start :
           /\ start = Attach!StartOffset(c, attSize[attGen'])
           /\ attConn' = [attConn EXCEPT ![attUsed + 1] =
                         [Attach!NoConn EXCEPT !.owner = c, !.phase = "hello", !.link = TRUE,
                                        !.rd = start, !.pendingStart = start]]
    BY Zenon DEF Attach!Attach
  <1>2. /\ attUsed < AttachMaxConns /\ attUsed' = attUsed + 1
        /\ \A k \in Attach!Conns : attConn[k].owner = c => ~attConn[k].link
        /\ attAlive' = TRUE /\ attExists' = TRUE
        /\ attGen' = IF attExists \/ attUsed = 0 THEN attGen ELSE attGen + 1
        /\ UNCHANGED <<attSize, attLastAck, attRestarts, attOwn, attGot, attPanicked>>
    BY DEF Attach!Attach, Attach!EnsureShellSession
  <1>3. /\ attUsed + 1 \in Attach!Conns /\ attUsed' \in 0..AttachMaxConns /\ attUsed' # 0
        /\ attGen' \in 0..AttachMaxKills /\ attGen \in 0..AttachMaxKills /\ attGen <= attGen'
    BY <1>2 DEF AttachInv, AttachTypes, AttachLogs, AttachBounds, Attach!Conns
  <1>4. start \in 0..AttachMaxLog /\ start <= attSize[attGen'] /\ (AttachOwnOffset =>
          start = Attach!Smaller(attOwn[c], attSize[attGen']))
    <2>1. attOwn[c] \in 0..AttachMaxLog /\ attLastAck[c] \in 0..AttachMaxLog /\
            attSize[attGen'] \in 0..AttachMaxLog
      BY <1>3 DEF AttachInv, AttachTypes
    <2>2. QED
      BY <1>1, <2>1 DEF Attach!StartOffset, Attach!Smaller, AttachBounds
  <1>5. PICK b \in AttachAttachments :
           b = [Attach!NoConn EXCEPT !.owner = c, !.phase = "hello", !.link = TRUE,
                              !.rd = start, !.pendingStart = start]
    <2>1. [Attach!NoConn EXCEPT !.owner = c, !.phase = "hello", !.link = TRUE,
                         !.rd = start, !.pendingStart = start] \in AttachAttachments
      <3>1. PICK none \in AttachAttachments : none = Attach!NoConn
        <4>1. Attach!NoConn \in AttachAttachments
          BY DEF AttachBounds, Attach!NoConn, AttachAttachments
        <4>2. QED
          BY <4>1
      <3>2. [none EXCEPT !.owner = c, !.phase = "hello", !.link = TRUE,
                         !.rd = start, !.pendingStart = start] \in AttachAttachments
        BY <1>4, AttachFields DEF AttachAttachments
      <3>3. QED
        BY <3>1, <3>2
    <2>2. QED
      BY <2>1
  <1>6. /\ b.owner = c /\ b.phase = "hello" /\ b.link /\ b.stop = FALSE /\ b.gen = 0
        /\ b.rd = start /\ b.pending = 0 /\ b.pendingStart = start
        /\ b.out = <<>> /\ b.wire = <<>>
    BY <1>5 DEF Attach!NoConn
  <1>7. AttachHeld(b) = <<>>
    BY <1>6 DEF AttachHeld
  <1>8. /\ attConn' = [attConn EXCEPT ![attUsed + 1] = b]
        /\ attConn' \in [Attach!Conns -> AttachAttachments] /\ attConn'[attUsed + 1] = b
        /\ \A k \in Attach!Conns \ {attUsed + 1} : attConn'[k] = attConn[k]
    BY <1>1, <1>3, <1>5 DEF AttachInv, AttachTypes
  <1>9. AttachTypes'
    <2>1. attAlive' \in BOOLEAN /\ attExists' \in BOOLEAN /\ attPanicked' \in BOOLEAN
      BY <1>2, Zenon DEF AttachInv, AttachTypes
    <2>2. \A k \in Attach!Conns : Len(attConn'[k].out) <= AttachQueueLen
      BY <1>6, <1>8 DEF AttachInv, AttachTypes, AttachBounds
    <2>3. QED
      BY <1>2, <1>3, <1>8, <2>1, <2>2 DEF AttachInv, AttachTypes
  <1>10. AttachOneLink'
    <2>1. SUFFICES ASSUME NEW i \in Attach!Conns, NEW j \in Attach!Conns, attConn'[i].link,
                     attConn'[j].link,
                          attConn'[i].owner = attConn'[j].owner
                   PROVE  i = j
      BY DEF AttachOneLink
    <2>2. CASE i = attUsed + 1 \/ j = attUsed + 1
      BY <1>2, <1>6, <1>8, <2>1, <2>2
    <2>3. CASE i # attUsed + 1 /\ j # attUsed + 1
      BY <1>8, <2>1, <2>3 DEF AttachInv, AttachOneLink
    <2>4. QED
      BY <2>2, <2>3
  <1>11. AttachLogs'
    BY <1>2, <1>3 DEF AttachLogs
  <1>12. ASSUME NEW k \in Attach!Conns PROVE AttachWhole(attConn[k])'
    <2>1. CASE k = attUsed + 1
      <3>1. AttachChain(<<>>, start)
        BY DEF AttachChain
      <3>2. QED
        BY <1>3, <1>4, <1>6, <1>7, <1>8, <2>1, <3>1 DEF AttachWhole
    <2>2. CASE k # attUsed + 1
      <3>1. attConn'[k] = attConn[k] /\ attConn[k].gen \in 0..AttachMaxKills /\
              AttachWhole(attConn[k])
        BY <1>8, <2>2, AttachKnows, AttachFields
      <3>2. QED
        BY <1>3, <3>1 DEF AttachWhole
    <2>3. QED
      BY <2>1, <2>2
  <1>13. ASSUME AttachOwnOffset, attGen' = 0
         PROVE  (\A k \in Attach!Conns : AttachGoesOn(attConn[k])') /\
                  (\A o \in AttachClients : AttachReceived(o)')
    <2>1. attGen = 0
      BY <1>3, <1>13
    <2>2. \A k \in Attach!Conns \ {attUsed + 1} : AttachGoesOn(attConn[k])'
      BY <1>2, <1>8, <1>13, <2>1 DEF AttachInv, AttachGoesOn
    <2>3. AttachGoesOn(b)'
      <3>1. attOwn[c] <= attSize[0] /\ attOwn[c] \in Nat /\ attSize[0] \in Nat
        BY <1>13, <2>1 DEF AttachInv, AttachReceived, AttachTypes, AttachBounds
      <3>2. start = attOwn[c] /\ start <= attSize[0]
        BY <1>4, <1>13, <3>1 DEF Attach!Smaller
      <3>3. QED
        BY <1>2, <1>6, <1>7, <3>2 DEF AttachGoesOn, AttachFrom
    <2>4. \A o \in AttachClients : AttachReceived(o)'
      BY <1>2, <1>13, <2>1 DEF AttachInv, AttachReceived
    <2>5. QED
      BY <1>8, <2>2, <2>3, <2>4 DEF AttachGoesOn
  <1>14. QED
    BY <1>9, <1>10, <1>11, <1>12, <1>13 DEF AttachInv

\* Every step keeps the invariant.
LEMMA AttachNextInv == AttachBounds /\ AttachInv /\ [Attach!Next]_Attach!vars => AttachInv'
  <1>1. ASSUME AttachBounds, AttachInv, UNCHANGED Attach!vars PROVE AttachInv'
    BY <1>1 DEF Attach!vars, AttachInv, AttachTypes, AttachOneLink, AttachLogs, AttachWhole,
       AttachGoesOn, AttachReceived
  <1>2. ASSUME AttachBounds, AttachInv, NEW k \in Attach!Conns, Attach!ServerStep(k)
    PROVE AttachInv'
    BY <1>2, AttachOpenLogInv, AttachOpenLogFailsInv, AttachReadInv, AttachFlushInv,
       AttachFlushStoppedInv, AttachTailEndsInv,
       AttachSenderInv, AttachRecvAckInv, AttachStopSendInv DEF Attach!ServerStep
  <1>3. QED
    BY <1>1, <1>2, AttachOutputInv, AttachCloseShellInv, AttachRestartInv, AttachAttachInv,
       AttachRecvInv, AttachDisconnectInv DEF Attach!Next

\* What the invariant says of the attachments.
LEMMA AttachMeaning ==
    ASSUME AttachBounds, AttachInv
    PROVE  Attach!TypeOK /\ Attach!HeldIsContiguous /\ (AttachOwnOffset => Attach!NothingSkipped)
  <1>1. Attach!TypeOK
    <2>1. ASSUME NEW k \in Attach!Conns
          PROVE  /\ attConn[k].owner \in AttachClients
                 /\ attConn[k].phase \in {"unused", "hello", "tail", "over"}
                 /\ attConn[k].gen \in 0..AttachMaxKills
                 /\ {attConn[k].rd, attConn[k].pending, attConn[k].pendingStart, attConn[k].acks}
                       \subseteq 0..AttachMaxLog
                 /\ Len(attConn[k].out) <= AttachQueueLen
                 /\ \A i \in DOMAIN attConn[k].out : attConn[k].out[i] \in Attach!Chunks
                 /\ \A i \in DOMAIN attConn[k].wire : attConn[k].wire[i] \in Attach!Chunks
      BY AttachConnType, AttachFields, AttachKnows
    <2>2. ASSUME NEW k \in Attach!Conns PROVE {attConn[k].link, attConn[k].stop} \subseteq BOOLEAN
      <3>1. attConn[k].link \in BOOLEAN /\ attConn[k].stop \in BOOLEAN
        BY AttachConnType, AttachFields
      <3>2. QED
        BY <3>1, Zenon
    <2>3. {attAlive, attExists, attPanicked} \subseteq BOOLEAN
      <3>1. attAlive \in BOOLEAN /\ attExists \in BOOLEAN /\ attPanicked \in BOOLEAN
        BY DEF AttachInv, AttachTypes
      <3>2. QED
        BY <3>1, Zenon
    <2>4. QED
      BY <2>1, <2>2, <2>3, Zenon DEF Attach!TypeOK, AttachInv, AttachTypes
  <1>2. Attach!HeldIsContiguous
    <2>1. SUFFICES ASSUME NEW k \in Attach!Conns, attConn[k].phase = "tail", attConn[k].link,
                          NEW q \in Seq(Attach!Chunks), q = attConn[k].wire \o attConn[k].out
                   PROVE  /\ \A i \in 1..Len(q) - 1 : q[i].off + q[i].len = q[i + 1].off
                          /\ attConn[k].pending > 0 =>
                                attConn[k].pendingStart + attConn[k].pending = attConn[k].rd
                          /\ attConn[k].pending > 0 /\ q # <<>> =>
                                q[Len(q)].off + q[Len(q)].len = attConn[k].pendingStart
      <3>1. ASSUME NEW k \in Attach!Conns
        PROVE attConn[k].wire \o attConn[k].out \in Seq(Attach!Chunks)
        BY AttachConnType, AttachFields
      <3>2. QED
        BY <3>1 DEF Attach!HeldIsContiguous
    <2>2. AttachWhole(attConn[k]) /\ AttachChain(q, attConn[k].pendingStart)
      BY <2>1, AttachKnows DEF AttachWhole, AttachHeld
    <2>3. QED
      BY <2>2 DEF AttachWhole, AttachChain
  <1>3. ASSUME AttachOwnOffset PROVE Attach!NothingSkipped
    <2>1. SUFFICES ASSUME attGen = 0, NEW c \in AttachClients, NEW u \in attGot[c],
                     NEW p \in 0..u[2] - 1
                   PROVE  <<u[1], p>> \in attGot[c]
      BY DEF Attach!NothingSkipped
    <2>2. AttachReceived(c)
      BY <1>3, <2>1 DEF AttachInv
    <2>3. u[1] = 0 /\ u[2] < attOwn[c] /\ u[2] \in 0..AttachMaxLog - 1 /\
            attOwn[c] \in 0..AttachMaxLog
      BY <2>2 DEF AttachReceived, AttachInv, AttachTypes
    <2>4. p \in 0..attOwn[c] - 1
      BY <2>3
    <2>5. QED
      BY <2>2, <2>3, <2>4 DEF AttachReceived
  <1>4. QED
    BY <1>1, <1>2, <1>3

(***************************************************************************)
(* What an attachment holds fits together, over kills and restarts; and a  *)
(* client that gives its own offset misses nothing of a shell that is not  *)
(* killed, however often it is disconnected (AttachShell, flush).          *)
(***************************************************************************)
THEOREM AttachmentsHold ==
    ASSUME AttachBounds
    PROVE  Attach!Spec => [](Attach!TypeOK /\ Attach!HeldIsContiguous /\ (AttachOwnOffset =>
             Attach!NothingSkipped))
  <1>1. Attach!Init => AttachInv
    BY AttachInitInv
  <1>2. AttachInv /\ [Attach!Next]_Attach!vars => AttachInv'
    BY AttachNextInv
  <1>3. AttachInv => Attach!TypeOK /\ Attach!HeldIsContiguous /\ (AttachOwnOffset =>
          Attach!NothingSkipped)
    BY AttachMeaning
  <1>4. QED
    BY <1>1, <1>2, <1>3, PTL DEF Attach!Spec

-----------------------------------------------------------------------------
(***************************************************************************)
(* Proofs about ShellRuns, for any number of calls and attachments and any *)
(* amount of output.                                                       *)
(***************************************************************************)

RunShellFinite == IsFiniteSet(RunShellRuns) /\ IsFiniteSet(RunShellTails)

RunShellEnds == {"end", "end1", "end2"}

RunShellCalls == [phase : {"idle", "waiting", "record", "done", "failed"}, begin : Nat, end : Nat,
          code : {0, RunShell!ExitCode \div 10, RunShell!ExitCode}]

RunShellTypes ==
    /\ cmdLog \in Seq(RunShell!Tokens) /\ cmdTyped \in Seq(RunShellRuns)
    /\ cmdRunning \in {<<>>} \cup {<<r, s>> : r \in RunShellRuns, s \in RunShell!Stages}
    /\ cmdRun \in [RunShellRuns -> RunShellCalls]
    /\ \A r \in RunShellRuns : cmdRun[r].begin <= Len(cmdLog) /\ cmdRun[r].end <= Len(cmdLog)
    /\ cmdTail \in [RunShellTails -> [on : BOOLEAN, pos : Nat, known : SUBSET RunShellRuns]]
    /\ \A t \in RunShellTails : cmdTail[t].pos <= Len(cmdLog)
    /\ \A t \in RunShellTails : ~cmdTail[t].on => cmdTail[t].pos = 0
    /\ cmdWriting \in [RunShellRuns \cup RunShellTails -> {RunShell!None} \cup [id : RunShellRuns]]
    /\ cmdTimeline \in Seq({"header", "body"} \X RunShellRuns)

\* The log has no token of r; none that ends it.
RunShellUnseen(r) == \A i \in 1..Len(cmdLog) : cmdLog[i].id # r
RunShellOpen(r) == \A i \in 1..Len(cmdLog) : cmdLog[i].id = r =>
  cmdLog[i].kind \notin RunShellEnds \cup {"stop"}

RunShellCalled(r) == cmdRun[r].phase # "idle"

\* A command is typed once, runs once, and only then is seen.
RunShellQueue ==
    /\ \A i, j \in 1..Len(cmdTyped) : cmdTyped[i] = cmdTyped[j] => i = j
    /\ \A i \in 1..Len(cmdTyped) :
         RunShellCalled(cmdTyped[i]) /\ RunShellUnseen(cmdTyped[i]) /\
           (cmdRunning = <<>> \/ cmdRunning[1] # cmdTyped[i])
    /\ \A r \in RunShellRuns : ~RunShellCalled(r) => RunShellUnseen(r)
    /\ cmdRunning # <<>> =>
         /\ RunShellCalled(cmdRunning[1])
         /\ cmdRunning[2] \in {"typed", "shown"} => RunShellOpen(cmdRunning[1])
         /\ cmdRunning[2] = "torn" => RunShellTorn
         /\ \A i \in 1..Len(cmdLog) : cmdLog[i].id = cmdRunning[1] => cmdLog[i].kind # "stop"

\* Output follows the call and comes before the end, of which there is one.
RunShellLogged ==
    /\ \A i \in 1..Len(cmdLog) : cmdLog[i].kind = "out" => cmdRun[cmdLog[i].id].begin < i
    /\ \A i, j \in 1..Len(cmdLog) :
         cmdLog[i].kind \in RunShellEnds /\ cmdLog[j].kind = "out" /\
           cmdLog[j].id = cmdLog[i].id => j < i
    /\ \A i, j \in 1..Len(cmdLog) :
         cmdLog[i].kind = "stop" /\ cmdLog[j].kind = "stop" /\ cmdLog[j].id = cmdLog[i].id => i = j
    /\ ~RunShellTorn => \A i \in 1..Len(cmdLog) : cmdLog[i].kind \notin {"end1", "end2"}

\* A finished call has read an end marker.
RunShellFinished ==
    \A r \in RunShellRuns : RunShell!Recorded(r) =>
       /\ \E i \in 1..cmdRun[r].end : cmdLog[i].id = r /\ cmdLog[i].kind \in RunShellEnds
       /\ ~RunShellTorn => cmdRun[r].code = RunShell!ExitCode

\* The records there can be by now, and those half written.
RunShellDone == {r \in RunShellRuns : cmdRun[r].phase = "done"}
RunShellStopped ==
    {x \in RunShellTails \X RunShellRuns :
       \E i \in 1..cmdTail[x[1]].pos : cmdLog[i].kind = "stop" /\ cmdLog[i].id = x[2]}
RunShellWriting == {w \in RunShellRuns \cup RunShellTails : cmdWriting[w] # RunShell!None}
RunShellCounted ==
    Len(cmdTimeline) + Cardinality(RunShellWriting) <=
      2 * (Cardinality(RunShellDone) + Cardinality(RunShellStopped))

RunShellInv == RunShellTypes /\ RunShellQueue /\ RunShellLogged /\ RunShellFinished /\
  RunShellCounted

-----------------------------------------------------------------------------
\* Sets that are finite.
LEMMA RunShellAllFinite ==
    ASSUME RunShellFinite
    PROVE  /\ IsFiniteSet(RunShellDone) /\ IsFiniteSet(RunShellStopped) /\
                IsFiniteSet(RunShellWriting)
           /\ Cardinality(RunShellDone) \in Nat /\ Cardinality(RunShellStopped) \in Nat
           /\ Cardinality(RunShellWriting) \in Nat
           /\ Cardinality(RunShellDone) <= Cardinality(RunShellRuns)
           /\ Cardinality(RunShellStopped) <= Cardinality(RunShellRuns) * Cardinality(RunShellTails)
           /\ Cardinality(RunShellRuns) \in Nat /\ Cardinality(RunShellTails) \in Nat
  <1>1. RunShellDone \in SUBSET RunShellRuns /\
          RunShellStopped \in SUBSET (RunShellTails \X RunShellRuns)
        /\ RunShellWriting \in SUBSET (RunShellRuns \cup RunShellTails)
    BY DEF RunShellDone, RunShellStopped, RunShellWriting
  <1>2. IsFiniteSet(RunShellRuns) /\ IsFiniteSet(RunShellTails)
    BY DEF RunShellFinite
  <1>3. /\ IsFiniteSet(RunShellTails \X RunShellRuns)
        /\ Cardinality(RunShellTails \X RunShellRuns) =
             Cardinality(RunShellTails) * Cardinality(RunShellRuns)
    BY <1>2, FS_Product
  <1>4. IsFiniteSet(RunShellRuns \cup RunShellTails)
    BY <1>2, FS_Union
  <1>5. IsFiniteSet(RunShellDone) /\ Cardinality(RunShellDone) <= Cardinality(RunShellRuns)
    BY <1>1, <1>2, FS_Subset
  <1>6. IsFiniteSet(RunShellStopped) /\
          Cardinality(RunShellStopped) <= Cardinality(RunShellTails \X RunShellRuns)
    BY <1>1, <1>3, FS_Subset
  <1>7. IsFiniteSet(RunShellWriting)
    BY <1>1, <1>4, FS_Subset
  <1>8. /\ Cardinality(RunShellRuns) \in Nat /\ Cardinality(RunShellTails) \in Nat
        /\ Cardinality(RunShellDone) \in Nat /\ Cardinality(RunShellStopped) \in Nat
        /\ Cardinality(RunShellWriting) \in Nat
    BY <1>2, <1>5, <1>6, <1>7, FS_CardinalityType
  <1>9. Cardinality(RunShellTails) * Cardinality(RunShellRuns) =
          Cardinality(RunShellRuns) * Cardinality(RunShellTails)
    BY <1>8
  <1>10. QED
    BY <1>3, <1>5, <1>6, <1>7, <1>8, <1>9

\* The fields of a call, and of an attachment.
LEMMA RunShellCallTypes ==
    ASSUME RunShellTypes, NEW r \in RunShellRuns
    PROVE  /\ cmdRun[r] \in RunShellCalls
           /\ cmdRun[r].phase \in {"idle", "waiting", "record", "done", "failed"}
           /\ cmdRun[r].begin \in Nat /\ cmdRun[r].end \in Nat
           /\ cmdRun[r].code \in {0, RunShell!ExitCode \div 10, RunShell!ExitCode}
           /\ cmdRun[r].begin <= Len(cmdLog) /\ cmdRun[r].end <= Len(cmdLog)
  <1>1. cmdRun[r] \in RunShellCalls
    BY DEF RunShellTypes
  <1>2. QED
    BY <1>1 DEF RunShellTypes, RunShellCalls
LEMMA RunShellTailTypes ==
    ASSUME RunShellTypes, NEW t \in RunShellTails
    PROVE  /\ cmdTail[t] \in [on : BOOLEAN, pos : Nat, known : SUBSET RunShellRuns]
           /\ cmdTail[t].on \in BOOLEAN /\ cmdTail[t].pos \in Nat /\
                cmdTail[t].known \in SUBSET RunShellRuns
           /\ cmdTail[t].pos <= Len(cmdLog)
  <1>1. cmdTail[t] \in [on : BOOLEAN, pos : Nat, known : SUBSET RunShellRuns]
    BY DEF RunShellTypes
  <1>2. QED
    BY <1>1 DEF RunShellTypes
LEMMA RunShellLogTypes ==
    ASSUME RunShellTypes
    PROVE  /\ Len(cmdLog) \in Nat
           /\ \A i \in 1..Len(cmdLog) : cmdLog[i] \in RunShell!Tokens /\
                cmdLog[i].id \in RunShellRuns
  <1>1. \A i \in 1..Len(cmdLog) : cmdLog[i] \in RunShell!Tokens
    BY DEF RunShellTypes
  <1>2. QED
    BY <1>1 DEF RunShellTypes, RunShell!Tokens

\* A longer log.
LEMMA RunShellWritten ==
    ASSUME RunShellTypes, NEW tok \in RunShell!Tokens, cmdLog' = Append(cmdLog, tok)
    PROVE  /\ cmdLog' \in Seq(RunShell!Tokens) /\ Len(cmdLog') = Len(cmdLog) + 1 /\
                cmdLog'[Len(cmdLog) + 1] = tok
           /\ \A i \in 1..Len(cmdLog) : cmdLog'[i] = cmdLog[i]
           /\ \A i \in 1..Len(cmdLog') : i \in 1..Len(cmdLog) \/ i = Len(cmdLog) + 1
  <1>1. cmdLog \in Seq(RunShell!Tokens) /\ Len(cmdLog) \in Nat
    BY DEF RunShellTypes
  <1>2. QED
    BY <1>1

\* Initially nothing has happened.
LEMMA RunShellInitInv == ASSUME RunShellFinite, RunShell!Init PROVE RunShellInv
  <1>1. RunShellTypes
    BY DEF RunShell!Init, RunShellTypes, RunShellCalls, RunShell!ExitCode
  <1>2. RunShellQueue /\ RunShellLogged /\ RunShellFinished
    BY DEF RunShell!Init, RunShellQueue, RunShellLogged, RunShellFinished, RunShellUnseen,
       RunShell!Recorded, RunShellCalled
  <1>3. RunShellCounted
    <2>1. RunShellWriting = {}
      BY DEF RunShell!Init, RunShellWriting
    <2>2. QED
      BY <2>1, FS_EmptySet, RunShellAllFinite DEF RunShellCounted, RunShell!Init
  <1>4. QED
    BY <1>1, <1>2, <1>3 DEF RunShellInv

\* The counted records do not depend on what is written behind them.
LEMMA RunShellSameCount ==
    ASSUME RunShellTypes, NEW tok \in RunShell!Tokens, cmdLog' = Append(cmdLog, tok) \/
             cmdLog' = cmdLog,
           UNCHANGED <<cmdRun, cmdTail, cmdWriting, cmdTimeline>>, RunShellCounted
    PROVE  RunShellCounted'
  <1>1. ASSUME NEW t \in RunShellTails, NEW i \in 1..cmdTail[t].pos PROVE cmdLog'[i] = cmdLog[i]
    BY RunShellTailTypes, RunShellLogTypes, RunShellWritten
  <1>2. RunShellStopped' = RunShellStopped
    BY <1>1 DEF RunShellStopped
  <1>3. RunShellDone' = RunShellDone /\ RunShellWriting' = RunShellWriting
    BY DEF RunShellDone, RunShellWriting
  <1>4. QED
    BY <1>2, <1>3 DEF RunShellCounted

\* The shell writes a token.
LEMMA RunShellWriteInv ==
    ASSUME RunShellFinite, RunShellInv, NEW tok \in RunShell!Tokens, cmdLog' = Append(cmdLog, tok),
           UNCHANGED <<cmdRun, cmdTail, cmdWriting, cmdTimeline>>,
           cmdTyped' \in Seq(RunShellRuns),
           cmdRunning' \in {<<>>} \cup {<<r, s>> : r \in RunShellRuns, s \in RunShell!Stages},
           RunShellQueue', RunShellCalled(tok.id),
           tok.kind = "out" => RunShellOpen(tok.id),
           tok.kind = "stop" =>
              \A i \in 1..Len(cmdLog) : cmdLog[i].id = tok.id => cmdLog[i].kind # "stop",
           tok.kind \in {"end1", "end2"} => RunShellTorn
    PROVE  RunShellInv'
  <1>1. /\ cmdLog' \in Seq(RunShell!Tokens) /\ Len(cmdLog') = Len(cmdLog) + 1 /\
             cmdLog'[Len(cmdLog) + 1] = tok
        /\ \A i \in 1..Len(cmdLog) : cmdLog'[i] = cmdLog[i]
        /\ \A i \in 1..Len(cmdLog') : i \in 1..Len(cmdLog) \/ i = Len(cmdLog) + 1
        /\ Len(cmdLog) \in Nat /\ tok.id \in RunShellRuns
    BY RunShellWritten, RunShellLogTypes DEF RunShellInv, RunShell!Tokens
  <1>2. RunShellTypes'
    <2>1. \A r \in RunShellRuns : cmdRun[r].begin <= Len(cmdLog') /\ cmdRun[r].end <= Len(cmdLog')
      BY <1>1, RunShellCallTypes DEF RunShellInv
    <2>2. \A t \in RunShellTails : cmdTail[t].pos <= Len(cmdLog')
      BY <1>1, RunShellTailTypes DEF RunShellInv
    <2>3. QED
      BY <1>1, <2>1, <2>2 DEF RunShellInv, RunShellTypes
  <1>3. RunShellLogged'
    <2>1. ASSUME NEW i \in 1..Len(cmdLog'), cmdLog'[i].kind = "out"
          PROVE  cmdRun'[cmdLog'[i].id].begin < i
      <3>1. CASE i \in 1..Len(cmdLog)
        BY <1>1, <2>1, <3>1 DEF RunShellInv, RunShellLogged
      <3>2. CASE i = Len(cmdLog) + 1
        BY <1>1, <3>2, RunShellCallTypes DEF RunShellInv
      <3>3. QED
        BY <1>1, <3>1, <3>2
    <2>2. ASSUME NEW i \in 1..Len(cmdLog'), NEW j \in 1..Len(cmdLog'),
                   cmdLog'[i].kind \in RunShellEnds,
                 cmdLog'[j].kind = "out", cmdLog'[j].id = cmdLog'[i].id
          PROVE  j < i
      <3>1. CASE i \in 1..Len(cmdLog) /\ j \in 1..Len(cmdLog)
        BY <1>1, <2>2, <3>1 DEF RunShellInv, RunShellLogged
      <3>2. CASE i = Len(cmdLog) + 1
        <4>1. i # j
          BY <2>2 DEF RunShellEnds
        <4>2. QED
          BY <1>1, <3>2, <4>1
      <3>3. CASE i \in 1..Len(cmdLog) /\ j = Len(cmdLog) + 1
        BY <1>1, <2>2, <3>3 DEF RunShellOpen
      <3>4. QED
        BY <1>1, <3>1, <3>2, <3>3
    <2>3. ASSUME NEW i \in 1..Len(cmdLog'), NEW j \in 1..Len(cmdLog'), cmdLog'[i].kind = "stop",
                 cmdLog'[j].kind = "stop", cmdLog'[j].id = cmdLog'[i].id
          PROVE  i = j
      BY <1>1, <2>3 DEF RunShellInv, RunShellLogged
    <2>4. ~RunShellTorn => \A i \in 1..Len(cmdLog') : cmdLog'[i].kind \notin {"end1", "end2"}
      BY <1>1 DEF RunShellInv, RunShellLogged
    <2>5. QED
      BY <2>1, <2>2, <2>3, <2>4 DEF RunShellLogged
  <1>4. RunShellFinished'
    <2>1. SUFFICES ASSUME NEW r \in RunShellRuns, RunShell!Recorded(r)
                   PROVE  /\ \E i \in 1..cmdRun[r].end : cmdLog'[i].id = r /\
                               cmdLog'[i].kind \in RunShellEnds
                          /\ ~RunShellTorn => cmdRun[r].code = RunShell!ExitCode
      BY DEF RunShellFinished, RunShell!Recorded
    <2>2. PICK i \in 1..cmdRun[r].end : cmdLog[i].id = r /\ cmdLog[i].kind \in RunShellEnds
      BY <2>1 DEF RunShellInv, RunShellFinished
    <2>3. i \in 1..Len(cmdLog)
      BY <1>1, RunShellCallTypes DEF RunShellInv
    <2>4. QED
      BY <1>1, <2>1, <2>2, <2>3 DEF RunShellInv, RunShellFinished
  <1>5. RunShellCounted'
    BY RunShellSameCount DEF RunShellInv
  <1>6. QED
    BY <1>2, <1>3, <1>4, <1>5 DEF RunShellInv
\* The shell goes on without a token.
LEMMA RunShellSilentInv ==
    ASSUME RunShellFinite, RunShellInv, UNCHANGED <<cmdLog, cmdRun, cmdTail, cmdWriting,
             cmdTimeline>>,
           cmdTyped' \in Seq(RunShellRuns),
           cmdRunning' \in {<<>>} \cup {<<r, s>> : r \in RunShellRuns, s \in RunShell!Stages},
             RunShellQueue'
    PROVE  RunShellInv'
  <1>1. RunShellTypes'
    BY DEF RunShellInv, RunShellTypes
  <1>2. RunShellLogged' /\ RunShellFinished'
    BY DEF RunShellInv, RunShellLogged, RunShellFinished, RunShell!Recorded
  <1>3. RunShellCounted'
    BY DEF RunShellInv, RunShellCounted, RunShellStopped, RunShellDone, RunShellWriting
  <1>4. QED
    BY <1>1, <1>2, <1>3 DEF RunShellInv

\* The next line is read.
LEMMA RunShellExecuteInv == ASSUME RunShellFinite, RunShellInv, RunShell!Execute PROVE RunShellInv'
  <1>1. PICK r \in RunShellRuns :
           /\ r = Head(cmdTyped) /\ cmdRunning = <<>> /\ cmdTyped # <<>>
           /\ cmdTyped' = Tail(cmdTyped) /\ cmdRunning' = <<r, "typed">>
           /\ IF RunShellHooks THEN cmdLog' = Append(cmdLog, RunShell!Tok("start",
                r)) ELSE UNCHANGED cmdLog
           /\ UNCHANGED <<cmdRun, cmdTail, cmdWriting, cmdTimeline>>
    <2>1. cmdTyped \in Seq(RunShellRuns) /\ cmdTyped # <<>>
      BY DEF RunShellInv, RunShellTypes, RunShell!Execute
    <2>2. Head(cmdTyped) \in RunShellRuns
      BY <2>1
    <2>3. QED
      BY <2>2 DEF RunShell!Execute, RunShell!Write
  <1>2. /\ cmdTyped' \in Seq(RunShellRuns) /\ Len(cmdTyped') + 1 = Len(cmdTyped) /\ r = cmdTyped[1]
        /\ Len(cmdTyped') \in Nat
        /\ \A i \in 1..Len(cmdTyped') : i + 1 \in 1..Len(cmdTyped) /\ cmdTyped'[i] = cmdTyped[i + 1]
    BY <1>1 DEF RunShellInv, RunShellTypes
  <1>3. /\ cmdRunning' \in {<<>>} \cup {<<o, s>> : o \in RunShellRuns, s \in RunShell!Stages}
        /\ cmdRunning' # <<>> /\ cmdRunning'[1] = r /\ cmdRunning'[2] = "typed"
    BY <1>1 DEF RunShell!Stages
  <1>4. RunShellCalled(r) /\ RunShellUnseen(r)
    BY <1>2 DEF RunShellInv, RunShellQueue
  <1>5. PICK tok \in RunShell!Tokens : tok = RunShell!Tok("start", r) /\ tok.kind = "start" /\
          tok.id = r
    <2>1. RunShell!Tok("start", r) \in RunShell!Tokens
      BY DEF RunShell!Tok, RunShell!Tokens
    <2>2. QED
      BY <2>1 DEF RunShell!Tok
  <1>6. /\ \A i \in 1..Len(cmdLog') :
                                   \/ i \in 1..Len(cmdLog) /\ cmdLog'[i] = cmdLog[i]
                                   \/ RunShellHooks /\ i = Len(cmdLog) + 1 /\ cmdLog'[i] = tok
        /\ Len(cmdLog) \in Nat
    <2>1. CASE RunShellHooks
      BY <1>1, <1>5, <2>1, RunShellWritten, RunShellLogTypes DEF RunShellInv
    <2>2. CASE ~RunShellHooks
      BY <1>1, <2>2, RunShellLogTypes DEF RunShellInv
    <2>3. QED
      BY <2>1, <2>2
  <1>7. RunShellQueue'
    <2>1. \A i, j \in 1..Len(cmdTyped') : cmdTyped'[i] = cmdTyped'[j] => i = j
      <3>1. SUFFICES ASSUME NEW i \in 1..Len(cmdTyped'), NEW j \in 1..Len(cmdTyped'),
                            cmdTyped'[i] = cmdTyped'[j]
                     PROVE  i = j
        OBVIOUS
      <3>2. i + 1 = j + 1
        BY <1>2, <3>1 DEF RunShellInv, RunShellQueue
      <3>3. QED
        BY <1>2, <3>2
    <2>2. ASSUME NEW i \in 1..Len(cmdTyped'), NEW o, o = cmdTyped'[i]
          PROVE  RunShellCalled(o)' /\ RunShellUnseen(o)' /\ r # o
      <3>1. o = cmdTyped[i + 1] /\ i + 1 \in 1..Len(cmdTyped) /\ i + 1 # 1 /\ 1 \in 1..Len(cmdTyped)
        BY <1>2, <2>2
      <3>2. o # r
        BY <1>2, <3>1 DEF RunShellInv, RunShellQueue
      <3>3. RunShellCalled(o) /\ RunShellUnseen(o)
        BY <3>1 DEF RunShellInv, RunShellQueue
      <3>4. RunShellCalled(o)'
        BY <1>1, <3>3 DEF RunShellCalled
      <3>5. RunShellUnseen(o)'
        BY <1>5, <1>6, <3>2, <3>3 DEF RunShellUnseen
      <3>6. QED
        BY <3>2, <3>4, <3>5
    <2>3. \A o \in RunShellRuns : ~RunShellCalled(o)' => RunShellUnseen(o)'
      BY <1>1, <1>4, <1>5, <1>6 DEF RunShellCalled, RunShellUnseen, RunShellInv, RunShellQueue
    <2>4. /\ RunShellCalled(r)' /\ RunShellOpen(r)'
          /\ \A i \in 1..Len(cmdLog') : cmdLog'[i].id = r => cmdLog'[i].kind # "stop"
      BY <1>1, <1>4, <1>5, <1>6 DEF RunShellCalled, RunShellUnseen, RunShellOpen, RunShellEnds
    <2>5. cmdRunning'[2] # "torn"
      BY <1>3
    <2>6. QED
      BY <1>3, <2>1, <2>2, <2>3, <2>4, <2>5 DEF RunShellQueue
  <1>8. CASE RunShellHooks
    BY <1>1, <1>2, <1>3, <1>4, <1>5, <1>7, <1>8, RunShellWriteInv
  <1>9. CASE ~RunShellHooks
    BY <1>1, <1>2, <1>3, <1>7, <1>9, RunShellSilentInv
  <1>10. QED
    BY <1>8, <1>9

\* A token of the command in the foreground.
LEMMA RunShellLineInv ==
    ASSUME RunShellFinite, RunShellInv, NEW r \in RunShellRuns, NEW s \in RunShell!Stages,
             cmdRunning = <<r, s>>,
           NEW kind \in {"begin", "out", "end", "end1", "end2"},
           NEW to \in RunShell!Stages, cmdLog' = Append(cmdLog, RunShell!Tok(kind, r)),
             cmdRunning' = <<r, to>>,
           UNCHANGED <<cmdTyped, cmdRun, cmdTail, cmdWriting, cmdTimeline>>,
           kind = "out" => s = "shown",
           kind \in {"end1", "end2"} => RunShellTorn,
           to \in {"typed", "shown"} => s \in {"typed", "shown"} /\ kind \in {"begin", "out"},
           to = "torn" => RunShellTorn
    PROVE  RunShellInv'
  <1>1. PICK tok \in RunShell!Tokens : tok = RunShell!Tok(kind, r) /\ tok.kind = kind /\ tok.id = r
    BY DEF RunShell!Tok, RunShell!Tokens
  <1>2. /\ Len(cmdLog') = Len(cmdLog) + 1 /\ cmdLog'[Len(cmdLog) + 1] = tok
        /\ \A i \in 1..Len(cmdLog) : cmdLog'[i] = cmdLog[i]
        /\ \A i \in 1..Len(cmdLog') : i \in 1..Len(cmdLog) \/ i = Len(cmdLog) + 1
        /\ Len(cmdLog) \in Nat
    BY <1>1, RunShellWritten, RunShellLogTypes DEF RunShellInv
  <1>3. cmdRunning # <<>> /\ cmdRunning[1] = r /\ cmdRunning[2] = s /\ cmdRunning' # <<>>
        /\ cmdRunning'[1] = r /\ cmdRunning'[2] = to
    OBVIOUS
  <1>4. RunShellQueue'
    <2>1. ASSUME NEW i \in 1..Len(cmdTyped)
          PROVE  RunShellCalled(cmdTyped[i])' /\ RunShellUnseen(cmdTyped[i])' /\ r # cmdTyped[i]
      <3>1. RunShellCalled(cmdTyped[i]) /\ RunShellUnseen(cmdTyped[i]) /\ r # cmdTyped[i]
        BY <1>3 DEF RunShellInv, RunShellQueue
      <3>2. QED
        BY <1>1, <1>2, <3>1 DEF RunShellCalled, RunShellUnseen
    <2>2. RunShellCalled(r) /\ (to \in {"typed", "shown"} => RunShellOpen(r))
          /\ \A i \in 1..Len(cmdLog) : cmdLog[i].id = r => cmdLog[i].kind # "stop"
      BY <1>3 DEF RunShellInv, RunShellQueue
    <2>3. \A o \in RunShellRuns : ~RunShellCalled(o)' => RunShellUnseen(o)'
      BY <1>1, <1>2, <2>2 DEF RunShellCalled, RunShellUnseen, RunShellInv, RunShellQueue
    <2>4. /\ RunShellCalled(r)' /\ (to \in {"typed", "shown"} => RunShellOpen(r)')
          /\ \A i \in 1..Len(cmdLog') : cmdLog'[i].id = r => cmdLog'[i].kind # "stop"
      BY <1>1, <1>2, <2>2 DEF RunShellCalled, RunShellOpen, RunShellEnds
    <2>5. \A i, j \in 1..Len(cmdTyped) : cmdTyped[i] = cmdTyped[j] => i = j
      BY DEF RunShellInv, RunShellQueue
    <2>6. QED
      BY <1>3, <2>1, <2>3, <2>4, <2>5 DEF RunShellQueue
  <1>5. RunShellCalled(r) /\ (kind = "out" => RunShellOpen(r))
    BY <1>3 DEF RunShellInv, RunShellQueue
  <1>6. cmdTyped' \in Seq(RunShellRuns)
    BY DEF RunShellInv, RunShellTypes
  <1>7. cmdRunning' \in {<<>>} \cup {<<o, x>> : o \in RunShellRuns, x \in RunShell!Stages}
    OBVIOUS
  <1>8. QED
    BY <1>1, <1>4, <1>5, <1>6, <1>7, RunShellWriteInv

LEMMA RunShellRunLineInv == ASSUME RunShellFinite, RunShellInv, RunShell!RunLine PROVE RunShellInv'
  <1>1. PICK r \in RunShellRuns, s \in RunShell!Stages : cmdRunning = <<r, s>>
    BY DEF RunShellInv, RunShellTypes, RunShell!RunLine
  <1>2. cmdRunning[1] = r /\ cmdRunning[2] = s
    BY <1>1
  <1>3. UNCHANGED <<cmdTyped, cmdRun, cmdTail, cmdWriting, cmdTimeline>>
    BY DEF RunShell!RunLine
  <1>4. \/ s = "typed" /\ cmdLog' = Append(cmdLog, RunShell!Tok("begin", r)) /\
             cmdRunning' = <<r, "shown">>
        \/ s = "shown" /\ cmdLog' = Append(cmdLog, RunShell!Tok("out", r)) /\
             cmdRunning' = <<r, "shown">>
        \/ s = "shown" /\ cmdLog' = Append(cmdLog, RunShell!Tok("end", r)) /\
             cmdRunning' = <<r, "echoed">>
        \/ /\ s = "shown" /\ RunShellTorn
           /\ cmdLog' = Append(cmdLog, RunShell!Tok("end1", r)) /\ cmdRunning' = <<r, "torn">>
        \/ s = "torn" /\ cmdLog' = Append(cmdLog, RunShell!Tok("end2", r)) /\
             cmdRunning' = <<r, "echoed">>
    BY <1>1, <1>2 DEF RunShell!RunLine, RunShell!Write
  <1>5. s = "torn" => RunShellTorn
    BY <1>1, <1>2 DEF RunShellInv, RunShellQueue
  <1>6. {"typed", "shown", "echoed", "torn"} \subseteq RunShell!Stages
    BY DEF RunShell!Stages
  <1>7. QED
    BY <1>1, <1>3, <1>4, <1>5, <1>6, RunShellLineInv

\* The command ends.
LEMMA RunShellCommandEndsInv == ASSUME RunShellFinite, RunShellInv, RunShell!CommandEnds
  PROVE RunShellInv'
  <1>1. PICK r \in RunShellRuns : cmdRunning = <<r, "echoed">>
    <2>1. cmdRunning \in {<<>>} \cup {<<r, s>> : r \in RunShellRuns, s \in RunShell!Stages}
      BY DEF RunShellInv, RunShellTypes
    <2>2. cmdRunning # <<>> /\ cmdRunning[2] = "echoed"
      BY DEF RunShell!CommandEnds
    <2>3. QED
      BY <2>1, <2>2
  <1>2. /\ cmdRunning' = <<>> /\ UNCHANGED <<cmdTyped, cmdRun, cmdTail, cmdWriting, cmdTimeline>>
        /\ IF RunShellHooks THEN cmdLog' = Append(cmdLog, RunShell!Tok("stop",
             r)) ELSE UNCHANGED cmdLog
    BY <1>1 DEF RunShell!CommandEnds, RunShell!Write
  <1>3. cmdRunning # <<>> /\ cmdRunning[1] = r
    BY <1>1
  <1>4. PICK tok \in RunShell!Tokens : tok = RunShell!Tok("stop", r) /\ tok.kind = "stop" /\
          tok.id = r
    <2>1. RunShell!Tok("stop", r) \in RunShell!Tokens
      BY DEF RunShell!Tok, RunShell!Tokens
    <2>2. QED
      BY <2>1 DEF RunShell!Tok
  <1>5. /\ \A i \in 1..Len(cmdLog') :
                                   \/ i \in 1..Len(cmdLog) /\ cmdLog'[i] = cmdLog[i]
                                   \/ RunShellHooks /\ i = Len(cmdLog) + 1 /\ cmdLog'[i] = tok
        /\ Len(cmdLog) \in Nat
    <2>1. CASE RunShellHooks
      BY <1>2, <1>4, <2>1, RunShellWritten, RunShellLogTypes DEF RunShellInv
    <2>2. CASE ~RunShellHooks
      BY <1>2, <2>2, RunShellLogTypes DEF RunShellInv
    <2>3. QED
      BY <2>1, <2>2
  <1>6. RunShellCalled(r) /\ \A i \in 1..Len(cmdLog) : cmdLog[i].id = r => cmdLog[i].kind # "stop"
    BY <1>3 DEF RunShellInv, RunShellQueue
  <1>7. RunShellQueue'
    <2>1. ASSUME NEW i \in 1..Len(cmdTyped)
      PROVE RunShellCalled(cmdTyped[i])' /\ RunShellUnseen(cmdTyped[i])'
      <3>1. RunShellCalled(cmdTyped[i]) /\ RunShellUnseen(cmdTyped[i]) /\ r # cmdTyped[i]
        BY <1>3 DEF RunShellInv, RunShellQueue
      <3>2. QED
        BY <1>2, <1>4, <1>5, <3>1 DEF RunShellCalled, RunShellUnseen
    <2>2. \A o \in RunShellRuns : ~RunShellCalled(o)' => RunShellUnseen(o)'
      BY <1>2, <1>4, <1>5, <1>6 DEF RunShellCalled, RunShellUnseen, RunShellInv, RunShellQueue
    <2>3. \A i, j \in 1..Len(cmdTyped) : cmdTyped[i] = cmdTyped[j] => i = j
      BY DEF RunShellInv, RunShellQueue
    <2>4. QED
      BY <1>2, <2>1, <2>2, <2>3 DEF RunShellQueue
  <1>8. cmdTyped' \in Seq(RunShellRuns)
    BY <1>2 DEF RunShellInv, RunShellTypes
  <1>9. cmdRunning' \in {<<>>} \cup {<<o, x>> : o \in RunShellRuns, x \in RunShell!Stages}
    BY <1>2
  <1>10. CASE RunShellHooks
    BY <1>2, <1>4, <1>6, <1>7, <1>8, <1>9, <1>10, RunShellWriteInv
  <1>11. CASE ~RunShellHooks
    BY <1>2, <1>7, <1>8, <1>9, <1>11, RunShellSilentInv
  <1>12. QED
    BY <1>10, <1>11

-----------------------------------------------------------------------------
\* A step of call r.
LEMMA RunShellCallInv ==
    ASSUME RunShellFinite, RunShellInv, NEW r \in RunShellRuns, NEW b \in RunShellCalls,
           cmdRun' = [cmdRun EXCEPT ![r] = b], UNCHANGED <<cmdLog, cmdRunning, cmdTail>>,
           b.begin <= Len(cmdLog), b.end <= Len(cmdLog),
           b.begin = cmdRun[r].begin \/ ~RunShellCalled(r), b.phase # "idle",
           cmdTyped' \in Seq(RunShellRuns),
           \A i, j \in 1..Len(cmdTyped') : cmdTyped'[i] = cmdTyped'[j] => i = j,
           \A i \in 1..Len(cmdTyped') :
              \/ \E j \in 1..Len(cmdTyped) : cmdTyped'[i] = cmdTyped[j]
              \/ cmdTyped'[i] = r /\ ~RunShellCalled(r),
           b.phase \in {"record", "done"} =>
              /\ \E i \in 1..b.end : cmdLog[i].id = r /\ cmdLog[i].kind \in RunShellEnds
              /\ ~RunShellTorn => b.code = RunShell!ExitCode,
           cmdWriting' \in [RunShellRuns \cup RunShellTails -> {RunShell!None} \cup [id :
             RunShellRuns]],
           cmdTimeline' \in Seq({"header", "body"} \X RunShellRuns), RunShellCounted'
    PROVE  RunShellInv'
  <1>1. /\ cmdRun' \in [RunShellRuns -> RunShellCalls] /\ cmdRun'[r] = b
        /\ \A o \in RunShellRuns \ {r} : cmdRun'[o] = cmdRun[o]
    BY DEF RunShellInv, RunShellTypes
  <1>2. RunShellTypes'
    BY <1>1 DEF RunShellInv, RunShellTypes
  <1>3. \A o \in RunShellRuns : RunShellCalled(o) =>
          RunShellCalled(o)' /\ cmdRun'[o].begin = cmdRun[o].begin
    BY <1>1 DEF RunShellCalled
  <1>4. ~RunShellCalled(r) => RunShellUnseen(r) /\ (cmdRunning = <<>> \/ cmdRunning[1] # r)
    BY DEF RunShellInv, RunShellQueue
  <1>5. RunShellQueue'
    <2>1. ASSUME NEW i \in 1..Len(cmdTyped'), NEW o, o = cmdTyped'[i]
          PROVE  /\ RunShellCalled(o)' /\ RunShellUnseen(o)
                 /\ cmdRunning = <<>> \/ cmdRunning[1] # o
      <3>1. CASE \E j \in 1..Len(cmdTyped) : o = cmdTyped[j]
        <4>1. PICK j \in 1..Len(cmdTyped) : o = cmdTyped[j]
          BY <3>1
        <4>2. o \in RunShellRuns
          BY <4>1 DEF RunShellInv, RunShellTypes
        <4>3. RunShellCalled(o) /\ RunShellUnseen(o) /\ (cmdRunning = <<>> \/ cmdRunning[1] # o)
          BY <4>1 DEF RunShellInv, RunShellQueue
        <4>4. QED
          BY <1>3, <4>2, <4>3
      <3>2. CASE o = r /\ ~RunShellCalled(r)
        BY <1>1, <1>4, <3>2 DEF RunShellCalled
      <3>3. QED
        BY <2>1, <3>1, <3>2
    <2>2. \A o \in RunShellRuns : ~RunShellCalled(o)' => RunShellUnseen(o)
      BY <1>3 DEF RunShellInv, RunShellQueue
    <2>3. cmdRunning # <<>> => cmdRunning[1] \in RunShellRuns
      BY DEF RunShellInv, RunShellTypes
    <2>4. QED
      BY <1>3, <2>1, <2>2, <2>3 DEF RunShellInv, RunShellQueue, RunShellUnseen, RunShellOpen
  <1>6. RunShellLogged'
    <2>1. ASSUME NEW i \in 1..Len(cmdLog), cmdLog[i].kind = "out"
      PROVE cmdRun'[cmdLog[i].id].begin < i
      <3>1. cmdLog[i].id \in RunShellRuns /\ ~RunShellUnseen(cmdLog[i].id)
        BY RunShellLogTypes DEF RunShellInv, RunShellUnseen
      <3>2. RunShellCalled(cmdLog[i].id)
        BY <3>1 DEF RunShellInv, RunShellQueue
      <3>3. QED
        BY <1>3, <2>1, <3>1, <3>2 DEF RunShellInv, RunShellLogged
    <2>2. QED
      BY <2>1 DEF RunShellInv, RunShellLogged
  <1>7. RunShellFinished'
    <2>1. SUFFICES ASSUME NEW o \in RunShellRuns, cmdRun'[o].phase \in {"record", "done"}
                   PROVE  /\ \E i \in 1..cmdRun'[o].end : cmdLog[i].id = o /\
                               cmdLog[i].kind \in RunShellEnds
                          /\ ~RunShellTorn => cmdRun'[o].code = RunShell!ExitCode
      BY DEF RunShellFinished, RunShell!Recorded
    <2>2. CASE o = r
      BY <1>1, <2>1, <2>2
    <2>3. CASE o # r
      <3>1. cmdRun'[o] = cmdRun[o] /\ RunShell!Recorded(o)
        BY <1>1, <2>1, <2>3 DEF RunShell!Recorded
      <3>2. QED
        BY <3>1 DEF RunShellInv, RunShellFinished
    <2>4. QED
      BY <2>2, <2>3
  <1>8. QED
    BY <1>2, <1>5, <1>6, <1>7 DEF RunShellInv
\* Nothing is counted, and nothing uncounted.
LEMMA RunShellCallCount ==
    ASSUME RunShellInv, NEW r \in RunShellRuns, NEW b \in RunShellCalls,
             cmdRun' = [cmdRun EXCEPT ![r] = b],
           b.phase # "done", cmdRun[r].phase # "done",
           UNCHANGED <<cmdLog, cmdTail, cmdWriting, cmdTimeline>>
    PROVE  RunShellCounted'
  <1>1. \A o \in RunShellRuns : cmdRun'[o].phase = "done" <=> cmdRun[o].phase = "done"
    BY DEF RunShellInv, RunShellTypes
  <1>2. RunShellDone' = RunShellDone /\ RunShellStopped' = RunShellStopped /\
          RunShellWriting' = RunShellWriting
    BY <1>1 DEF RunShellDone, RunShellStopped, RunShellWriting
  <1>3. QED
    BY <1>2 DEF RunShellInv, RunShellCounted

\* A call types its line.
LEMMA RunShellRunShellInv == ASSUME RunShellFinite, RunShellInv, NEW r \in RunShellRuns,
  RunShell!RunShell(r) PROVE RunShellInv'
  <1>1. PICK a \in RunShellCalls : a = cmdRun[r]
    BY RunShellCallTypes DEF RunShellInv
  <1>2. PICK b \in RunShellCalls : b = [a EXCEPT !.phase = "waiting", !.begin = Len(cmdLog)]
    <2>1. Len(cmdLog) \in Nat
      BY RunShellLogTypes DEF RunShellInv
    <2>2. [a EXCEPT !.phase = "waiting", !.begin = Len(cmdLog)] \in RunShellCalls
      BY <2>1 DEF RunShellCalls
    <2>3. QED
      BY <2>2
  <1>3. b.phase = "waiting" /\ b.begin = Len(cmdLog) /\ b.end = a.end
    BY <1>2 DEF RunShellCalls
  <1>4. /\ cmdRun' = [cmdRun EXCEPT ![r] = b] /\ a.phase = "idle" /\ cmdTyped' = Append(cmdTyped, r)
        /\ UNCHANGED <<cmdLog, cmdRunning, cmdTail, cmdWriting, cmdTimeline>>
    BY <1>1, <1>2 DEF RunShell!RunShell
  <1>5. /\ cmdTyped \in Seq(RunShellRuns) /\ cmdTyped' \in Seq(RunShellRuns) /\
             Len(cmdTyped') = Len(cmdTyped) + 1
        /\ cmdTyped'[Len(cmdTyped) + 1] = r /\
             \A i \in 1..Len(cmdTyped) : cmdTyped'[i] = cmdTyped[i]
    BY <1>4 DEF RunShellInv, RunShellTypes
  <1>6. ~RunShellCalled(r)
    BY <1>1, <1>4 DEF RunShellCalled
  <1>7. \A i \in 1..Len(cmdTyped) : cmdTyped[i] # r
    BY <1>6 DEF RunShellInv, RunShellQueue
  <1>8. \A i \in 1..Len(cmdTyped') : i \in 1..Len(cmdTyped) \/ i = Len(cmdTyped) + 1
    BY <1>5
  <1>9. \A i, j \in 1..Len(cmdTyped') : cmdTyped'[i] = cmdTyped'[j] => i = j
    BY <1>5, <1>7, <1>8 DEF RunShellInv, RunShellQueue
  <1>10. \A i \in 1..Len(cmdTyped') :
            \/ \E j \in 1..Len(cmdTyped) : cmdTyped'[i] = cmdTyped[j]
            \/ cmdTyped'[i] = r /\ ~RunShellCalled(r)
    BY <1>5, <1>6, <1>8
  <1>11. RunShellCounted'
    BY <1>1, <1>3, <1>4, RunShellCallCount
  <1>12. b.begin <= Len(cmdLog) /\ b.end <= Len(cmdLog)
    BY <1>1, <1>3, RunShellCallTypes, RunShellLogTypes DEF RunShellInv
  <1>13. /\
              cmdWriting' \in [RunShellRuns \cup RunShellTails -> {RunShell!None} \cup [id :
                RunShellRuns]]
         /\ cmdTimeline' \in Seq({"header", "body"} \X RunShellRuns)
    BY <1>4 DEF RunShellInv, RunShellTypes
  <1>14. QED
    BY <1>3, <1>4, <1>5, <1>6, <1>9, <1>10, <1>11, <1>12, <1>13, RunShellCallInv

\* A call that leaves the queue and the records alone.
LEMMA RunShellQuietCallInv ==
    ASSUME RunShellFinite, RunShellInv, NEW r \in RunShellRuns, NEW b \in RunShellCalls,
           cmdRun' = [cmdRun EXCEPT ![r] = b],
           UNCHANGED <<cmdLog, cmdTyped, cmdRunning, cmdTail, cmdWriting, cmdTimeline>>,
           b.begin = cmdRun[r].begin, b.end <= Len(cmdLog), b.phase \notin {"idle", "done"},
           cmdRun[r].phase # "done",
           b.phase = "record" =>
              /\ \E i \in 1..b.end : cmdLog[i].id = r /\ cmdLog[i].kind \in RunShellEnds
              /\ ~RunShellTorn => b.code = RunShell!ExitCode
    PROVE  RunShellInv'
  <1>1. b.begin <= Len(cmdLog)
    BY RunShellCallTypes DEF RunShellInv
  <1>2. /\ cmdTyped' \in Seq(RunShellRuns)
        /\ \A i, j \in 1..Len(cmdTyped') : cmdTyped'[i] = cmdTyped'[j] => i = j
        /\ cmdWriting' \in [RunShellRuns \cup RunShellTails -> {RunShell!None} \cup [id :
             RunShellRuns]]
        /\ cmdTimeline' \in Seq({"header", "body"} \X RunShellRuns)
    BY DEF RunShellInv, RunShellTypes, RunShellQueue
  <1>3. RunShellCounted'
    BY RunShellCallCount
  <1>4. \A i \in 1..Len(cmdTyped') : \E j \in 1..Len(cmdTyped) : cmdTyped'[i] = cmdTyped[j]
    OBVIOUS
  <1>5. QED
    BY <1>1, <1>2, <1>3, <1>4, RunShellCallInv

\* The end marker is found.
LEMMA RunShellWaitForRunEndInv == ASSUME RunShellFinite, RunShellInv, NEW r \in RunShellRuns,
  RunShell!WaitForRunEnd(r) PROVE RunShellInv'
  <1>1. PICK a \in RunShellCalls : a = cmdRun[r]
    BY RunShellCallTypes DEF RunShellInv
  <1>2. PICK i \in a.begin + 1..Len(cmdLog) :
           cmdLog[i].id = r /\ cmdLog[i].kind \in {"end", "end1", "end2"}
    BY <1>1 DEF RunShell!WaitForRunEnd, RunShell!Seen
  <1>3. i \in 1..Len(cmdLog) /\ Len(cmdLog) \in Nat
    <2>1. a.begin \in Nat /\ Len(cmdLog) \in Nat
      BY <1>1, RunShellCallTypes, RunShellLogTypes DEF RunShellInv
    <2>2. QED
      BY <1>2, <2>1
  <1>4. RunShell!Parsed(r) \in {0, RunShell!ExitCode \div 10, RunShell!ExitCode}
    BY DEF RunShell!Parsed
  <1>5. ~RunShellTorn => RunShell!Parsed(r) = RunShell!ExitCode
    <2>1. SUFFICES ASSUME ~RunShellTorn
      PROVE \E j \in RunShell!Seen(r) : cmdLog[j].kind \in {"end", "end2"}
      BY DEF RunShell!Parsed
    <2>2. cmdLog[i].kind # "end1"
      BY <1>3, <2>1 DEF RunShellInv, RunShellLogged
    <2>3. QED
      BY <1>1, <1>2, <2>2 DEF RunShell!Seen
  <1>6. PICK b \in RunShellCalls : b = [a EXCEPT !.phase = "record", !.end = Len(cmdLog),
          !.code = RunShell!Parsed(r)]
    <2>1. [a EXCEPT !.phase = "record", !.end = Len(cmdLog),
            !.code = RunShell!Parsed(r)] \in RunShellCalls
      BY <1>3, <1>4 DEF RunShellCalls
    <2>2. QED
      BY <2>1
  <1>7. b.phase = "record" /\ b.begin = a.begin /\ b.end = Len(cmdLog) /\
          b.code = RunShell!Parsed(r)
    BY <1>6 DEF RunShellCalls
  <1>8. /\ cmdRun' = [cmdRun EXCEPT ![r] = b] /\ a.phase = "waiting"
        /\ UNCHANGED <<cmdLog, cmdTyped, cmdRunning, cmdTail, cmdWriting, cmdTimeline>>
    BY <1>1, <1>6 DEF RunShell!WaitForRunEnd
  <1>9. /\ b.begin = cmdRun[r].begin /\ b.end <= Len(cmdLog) /\ b.phase = "record"
        /\ cmdRun[r].phase = "waiting" /\ i \in 1..b.end /\ cmdLog[i].id = r /\
             cmdLog[i].kind \in RunShellEnds
        /\ ~RunShellTorn => b.code = RunShell!ExitCode
    BY <1>1, <1>2, <1>3, <1>5, <1>7, <1>8 DEF RunShellEnds
  <1>10. QED
    BY <1>8, <1>9, RunShellQuietCallInv

\* The caller waits no longer.
LEMMA RunShellRunTimesOutInv == ASSUME RunShellFinite, RunShellInv, NEW r \in RunShellRuns,
  RunShell!RunTimesOut(r) PROVE RunShellInv'
  <1>1. PICK a \in RunShellCalls : a = cmdRun[r]
    BY RunShellCallTypes DEF RunShellInv
  <1>2. PICK b \in RunShellCalls : b = [a EXCEPT !.phase = "failed"]
    <2>1. [a EXCEPT !.phase = "failed"] \in RunShellCalls
      BY DEF RunShellCalls
    <2>2. QED
      BY <2>1
  <1>3. b.phase = "failed" /\ b.begin = a.begin /\ b.end = a.end
    BY <1>2 DEF RunShellCalls
  <1>4. /\ cmdRun' = [cmdRun EXCEPT ![r] = b] /\ a.phase = "waiting"
        /\ UNCHANGED <<cmdLog, cmdTyped, cmdRunning, cmdTail, cmdWriting, cmdTimeline>>
    BY <1>1, <1>2 DEF RunShell!RunTimesOut
  <1>5. b.end <= Len(cmdLog)
    BY <1>1, <1>3, RunShellCallTypes DEF RunShellInv
  <1>6. QED
    BY <1>1, <1>3, <1>4, <1>5, RunShellQuietCallInv

-----------------------------------------------------------------------------
\* A header and, later, a body.
LEMMA RunShellBegun ==
    ASSUME RunShellFinite, RunShellInv, NEW w \in RunShellRuns \cup RunShellTails,
             NEW id \in RunShellRuns, RunShell!BeginRecord(w, id)
    PROVE  /\
                cmdWriting' \in [RunShellRuns \cup RunShellTails -> {RunShell!None} \cup [id :
                  RunShellRuns]]
           /\ cmdTimeline' \in Seq({"header", "body"} \X RunShellRuns)
           /\ Len(cmdTimeline') = Len(cmdTimeline) + 1 /\ Len(cmdTimeline) \in Nat
           /\ IsFiniteSet(RunShellWriting)
           /\ Cardinality(RunShellWriting') \in Nat /\
                Cardinality(RunShellWriting') <= Cardinality(RunShellWriting) + 1
  <1>1. /\ cmdWriting' = [cmdWriting EXCEPT ![w] = [id |-> id]] /\
             cmdTimeline' = Append(cmdTimeline, <<"header", id>>)
        /\ cmdWriting[w] = RunShell!None
    BY DEF RunShell!BeginRecord
  <1>2. PICK half \in [id : RunShellRuns] : half = [id |-> id]
    OBVIOUS
  <1>3. cmdWriting' \in [RunShellRuns \cup RunShellTails -> {RunShell!None} \cup [id :
          RunShellRuns]]
    BY <1>1, <1>2 DEF RunShellInv, RunShellTypes
  <1>4. RunShellWriting' \in SUBSET (RunShellWriting \cup {w})
    BY <1>1, <1>3 DEF RunShellWriting, RunShellInv, RunShellTypes
  <1>5. IsFiniteSet(RunShellWriting) /\ Cardinality(RunShellWriting) \in Nat
    BY RunShellAllFinite
  <1>6. /\ IsFiniteSet(RunShellWriting \cup {w})
        /\ Cardinality(RunShellWriting \cup {w}) <= Cardinality(RunShellWriting) + 1
        /\ Cardinality(RunShellWriting \cup {w}) \in Nat
    <2>1. \/ Cardinality(RunShellWriting \cup {w}) = Cardinality(RunShellWriting)
          \/ Cardinality(RunShellWriting \cup {w}) = Cardinality(RunShellWriting) + 1
      BY <1>5, FS_AddElement
    <2>2. IsFiniteSet(RunShellWriting \cup {w})
      BY <1>5, FS_AddElement
    <2>3. QED
      BY <1>5, <2>1, <2>2
  <1>7. IsFiniteSet(RunShellWriting') /\
          Cardinality(RunShellWriting') <= Cardinality(RunShellWriting \cup {w})
    BY <1>4, <1>6, FS_Subset
  <1>8. Cardinality(RunShellWriting') \in Nat
    BY <1>7, FS_CardinalityType
  <1>9. /\ cmdTimeline' \in Seq({"header", "body"} \X RunShellRuns)
        /\ Len(cmdTimeline') = Len(cmdTimeline) + 1 /\ Len(cmdTimeline) \in Nat
    BY <1>1 DEF RunShellInv, RunShellTypes
  <1>10. QED
    BY <1>3, <1>5, <1>6, <1>7, <1>8, <1>9

\* A call makes its record.
LEMMA RunShellRecordRunInv == ASSUME RunShellFinite, RunShellInv, NEW r \in RunShellRuns,
  RunShell!RecordRun(r) PROVE RunShellInv'
  <1>1. PICK a \in RunShellCalls : a = cmdRun[r]
    BY RunShellCallTypes DEF RunShellInv
  <1>2. PICK b \in RunShellCalls : b = [a EXCEPT !.phase = "done"]
    <2>1. [a EXCEPT !.phase = "done"] \in RunShellCalls
      BY DEF RunShellCalls
    <2>2. QED
      BY <2>1
  <1>3. b.phase = "done" /\ b.begin = a.begin /\ b.end = a.end /\ b.code = a.code
    BY <1>2 DEF RunShellCalls
  <1>4. /\ cmdRun' = [cmdRun EXCEPT ![r] = b] /\ a.phase = "record" /\ RunShell!BeginRecord(r, r)
        /\ UNCHANGED <<cmdLog, cmdTyped, cmdRunning, cmdTail>>
    BY <1>1, <1>2 DEF RunShell!RecordRun
  <1>5. /\
             cmdWriting' \in [RunShellRuns \cup RunShellTails -> {RunShell!None} \cup [id :
               RunShellRuns]]
        /\ cmdTimeline' \in Seq({"header", "body"} \X RunShellRuns)
        /\ Len(cmdTimeline') = Len(cmdTimeline) + 1 /\ Len(cmdTimeline) \in Nat
        /\ Cardinality(RunShellWriting') \in Nat /\
             Cardinality(RunShellWriting') <= Cardinality(RunShellWriting) + 1
    BY <1>4, RunShellBegun
  <1>6. RunShellDone' = RunShellDone \cup {r} /\ r \notin RunShellDone /\
          RunShellStopped' = RunShellStopped
    BY <1>1, <1>3, <1>4 DEF RunShellDone, RunShellStopped, RunShellInv, RunShellTypes
  <1>7. /\ IsFiniteSet(RunShellDone) /\ Cardinality(RunShellDone) \in Nat /\
             Cardinality(RunShellStopped) \in Nat
        /\ Cardinality(RunShellWriting) \in Nat
    BY RunShellAllFinite
  <1>8. Cardinality(RunShellDone') = Cardinality(RunShellDone) + 1
    BY <1>6, <1>7, FS_AddElement
  <1>9. RunShellCounted'
    BY <1>5, <1>6, <1>7, <1>8 DEF RunShellInv, RunShellCounted
  <1>10. /\ b.begin <= Len(cmdLog) /\ b.end <= Len(cmdLog) /\ cmdTyped' \in Seq(RunShellRuns)
         /\ \A i, j \in 1..Len(cmdTyped') : cmdTyped'[i] = cmdTyped'[j] => i = j
    <2>1. b.begin <= Len(cmdLog) /\ b.end <= Len(cmdLog)
      BY <1>1, <1>3, RunShellCallTypes DEF RunShellInv
    <2>2. cmdTyped' = cmdTyped /\ cmdTyped \in Seq(RunShellRuns)
      BY <1>4 DEF RunShellInv, RunShellTypes
    <2>3. \A i, j \in 1..Len(cmdTyped) : cmdTyped[i] = cmdTyped[j] => i = j
      BY DEF RunShellInv, RunShellQueue
    <2>4. QED
      BY <2>1, <2>2, <2>3, Zenon
  <1>11. /\ \E i \in 1..b.end : cmdLog[i].id = r /\ cmdLog[i].kind \in RunShellEnds
         /\ ~RunShellTorn => b.code = RunShell!ExitCode
    BY <1>1, <1>3, <1>4 DEF RunShellInv, RunShellFinished, RunShell!Recorded
  <1>12. \A i \in 1..Len(cmdTyped') : \E j \in 1..Len(cmdTyped) : cmdTyped'[i] = cmdTyped[j]
    BY <1>4
  <1>13. QED
    BY <1>1, <1>3, <1>4, <1>5, <1>9, <1>10, <1>11, <1>12, RunShellCallInv

\* What the records do not change.
LEMMA RunShellRecordsInv ==
    ASSUME RunShellInv, UNCHANGED <<cmdLog, cmdTyped, cmdRunning, cmdRun>>,
           cmdTail' \in [RunShellTails -> [on : BOOLEAN, pos : Nat, known : SUBSET RunShellRuns]],
           \A t \in RunShellTails : cmdTail'[t].pos <= Len(cmdLog),
           \A t \in RunShellTails : ~cmdTail'[t].on => cmdTail'[t].pos = 0,
           cmdWriting' \in [RunShellRuns \cup RunShellTails -> {RunShell!None} \cup [id :
             RunShellRuns]],
           cmdTimeline' \in Seq({"header", "body"} \X RunShellRuns), RunShellCounted'
    PROVE  RunShellInv'
  <1>1. RunShellTypes'
    BY DEF RunShellInv, RunShellTypes
  <1>2. RunShellQueue'
    BY DEF RunShellInv, RunShellQueue, RunShellCalled, RunShellUnseen, RunShellOpen
  <1>3. RunShellLogged' /\ RunShellFinished'
    BY DEF RunShellInv, RunShellLogged, RunShellFinished, RunShell!Recorded
  <1>4. QED
    BY <1>1, <1>2, <1>3 DEF RunShellInv

\* The other half of a record.
LEMMA RunShellAppendBodyInv == ASSUME RunShellFinite, RunShellInv,
  NEW w \in RunShellRuns \cup RunShellTails, RunShell!AppendBody(w) PROVE RunShellInv'
  <1>1. /\ cmdWriting[w] # RunShell!None /\
             cmdTimeline' = Append(cmdTimeline, <<"body", cmdWriting[w].id>>)
        /\ cmdWriting' = [cmdWriting EXCEPT ![w] = RunShell!None]
        /\ UNCHANGED <<cmdLog, cmdTyped, cmdRunning, cmdRun, cmdTail>>
    BY DEF RunShell!AppendBody
  <1>2. cmdWriting' \in [RunShellRuns \cup RunShellTails -> {RunShell!None} \cup [id :
          RunShellRuns]]
    BY <1>1 DEF RunShellInv, RunShellTypes
  <1>3. cmdWriting[w].id \in RunShellRuns
    BY <1>1 DEF RunShellInv, RunShellTypes
  <1>4. /\ cmdTimeline' \in Seq({"header", "body"} \X RunShellRuns)
        /\ Len(cmdTimeline') = Len(cmdTimeline) + 1 /\ Len(cmdTimeline) \in Nat
    BY <1>1, <1>3 DEF RunShellInv, RunShellTypes
  <1>5. RunShellWriting' = RunShellWriting \ {w} /\ w \in RunShellWriting /\
          RunShellDone' = RunShellDone /\ RunShellStopped' = RunShellStopped
    BY <1>1 DEF RunShellWriting, RunShellDone, RunShellStopped, RunShellInv, RunShellTypes
  <1>6. /\ IsFiniteSet(RunShellWriting) /\ Cardinality(RunShellWriting) \in Nat
        /\ Cardinality(RunShellDone) \in Nat /\ Cardinality(RunShellStopped) \in Nat
    BY RunShellAllFinite
  <1>7. Cardinality(RunShellWriting') = Cardinality(RunShellWriting) - 1
    BY <1>5, <1>6, FS_RemoveElement
  <1>8. RunShellCounted'
    BY <1>4, <1>5, <1>6, <1>7 DEF RunShellInv, RunShellCounted
  <1>9. QED
    BY <1>1, <1>2, <1>4, <1>8, RunShellRecordsInv DEF RunShellInv, RunShellTypes

\* More of the log has been read: no fewer records.
LEMMA RunShellMoreStopped ==
    ASSUME RunShellFinite, RunShellInv, UNCHANGED <<cmdLog, cmdRun>>,
           cmdTail' \in [RunShellTails -> [on : BOOLEAN, pos : Nat, known : SUBSET RunShellRuns]],
           \A o \in RunShellTails : cmdTail[o].pos <= cmdTail'[o].pos
    PROVE  /\ RunShellDone' = RunShellDone /\ RunShellStopped \subseteq RunShellStopped'
           /\ IsFiniteSet(RunShellStopped') /\ Cardinality(RunShellStopped') \in Nat
           /\ Cardinality(RunShellStopped) <= Cardinality(RunShellStopped')
  <1>1. RunShellDone' = RunShellDone
    BY DEF RunShellDone
  <1>2. RunShellStopped \subseteq RunShellStopped'
    <2>1. \A o \in RunShellTails : 1..cmdTail[o].pos \subseteq 1..cmdTail'[o].pos
      <3>1. \A o \in RunShellTails : cmdTail[o].pos \in Nat /\ cmdTail'[o].pos \in Nat
        BY DEF RunShellInv, RunShellTypes
      <3>2. QED
        BY <3>1
    <2>2. QED
      BY <2>1 DEF RunShellStopped
  <1>3. IsFiniteSet(RunShellStopped')
    <2>1. IsFiniteSet(RunShellTails \X RunShellRuns)
      BY FS_Product DEF RunShellFinite
    <2>2. RunShellStopped' \in SUBSET (RunShellTails \X RunShellRuns)
      BY DEF RunShellStopped
    <2>3. QED
      BY <2>1, <2>2, FS_Subset
  <1>4. QED
    BY <1>1, <1>2, <1>3, FS_Subset, FS_CardinalityType

\* An attachment reads on, or begins somewhere.
LEMMA RunShellAttachShellInv == ASSUME RunShellFinite, RunShellInv, NEW t \in RunShellTails,
  RunShell!AttachShell(t) PROVE RunShellInv'
  <1>1. PICK a \in [on : BOOLEAN, pos : Nat, known : SUBSET RunShellRuns] : a = cmdTail[t]
    BY RunShellTailTypes DEF RunShellInv
  <1>2. PICK pos \in 0..Len(cmdLog) : cmdTail' = [cmdTail EXCEPT ![t].on = TRUE, ![t].pos = pos]
    BY Zenon DEF RunShell!AttachShell
  <1>3. PICK b \in [on : BOOLEAN, pos : Nat, known : SUBSET RunShellRuns] :
           b = [a EXCEPT !.on = TRUE, !.pos = pos]
    <2>1. pos \in Nat /\ TRUE \in BOOLEAN
      BY <1>2, RunShellLogTypes DEF RunShellInv
    <2>2. [a EXCEPT !.on = TRUE, !.pos = pos] \in [on : BOOLEAN, pos : Nat,
            known : SUBSET RunShellRuns]
      BY <2>1, Zenon
    <2>3. QED
      BY <2>2
  <1>4. cmdTail' = [cmdTail EXCEPT ![t] = b] /\ b.pos = pos /\ b.on = TRUE
    BY <1>1, <1>2, <1>3
  <1>5. ~a.on /\ UNCHANGED <<cmdLog, cmdTyped, cmdRunning, cmdRun, cmdWriting, cmdTimeline>>
    BY <1>1 DEF RunShell!AttachShell
  <1>6. /\ cmdTail' \in [RunShellTails -> [on : BOOLEAN, pos : Nat, known : SUBSET RunShellRuns]]
        /\ cmdTail'[t] = b /\ \A o \in RunShellTails \ {t} : cmdTail'[o] = cmdTail[o]
    BY <1>4 DEF RunShellInv, RunShellTypes
  <1>7. \A o \in RunShellTails : cmdTail'[o].pos <= Len(cmdLog) /\ (~cmdTail'[o].on =>
          cmdTail'[o].pos = 0)
    <2>1. pos <= Len(cmdLog)
      BY <1>2, RunShellLogTypes DEF RunShellInv
    <2>2. QED
      BY <1>4, <1>6, <2>1 DEF RunShellInv, RunShellTypes
  <1>8. \A o \in RunShellTails : cmdTail[o].pos <= cmdTail'[o].pos
    <2>1. a.pos = 0 /\ 0 <= b.pos
      BY <1>1, <1>2, <1>4, <1>5 DEF RunShellInv, RunShellTypes
    <2>2. \A o \in RunShellTails : cmdTail[o].pos \in Nat
      BY RunShellTailTypes DEF RunShellInv
    <2>3. QED
      BY <1>1, <1>6, <2>1, <2>2
  <1>9. /\ RunShellDone' = RunShellDone /\
             Cardinality(RunShellStopped) <= Cardinality(RunShellStopped')
        /\ Cardinality(RunShellStopped') \in Nat
    BY <1>5, <1>6, <1>8, RunShellMoreStopped
  <1>10. RunShellCounted'
    <2>1. RunShellWriting' = RunShellWriting /\ cmdTimeline' = cmdTimeline
      BY <1>5 DEF RunShellWriting
    <2>2. /\ Cardinality(RunShellWriting) \in Nat /\ Cardinality(RunShellDone) \in Nat
          /\ Cardinality(RunShellStopped) \in Nat /\ Len(cmdTimeline) \in Nat
      BY RunShellAllFinite DEF RunShellInv, RunShellTypes
    <2>3. QED
      BY <1>9, <2>1, <2>2 DEF RunShellInv, RunShellCounted
  <1>11. QED
    BY <1>5, <1>6, <1>7, <1>10, RunShellRecordsInv DEF RunShellInv, RunShellTypes

\* An attachment reads a token, and records the end of a command.
LEMMA RunShellTailReadInv == ASSUME RunShellFinite, RunShellInv, NEW t \in RunShellTails,
  RunShell!TailRead(t) PROVE RunShellInv'
  <1>1. PICK a \in [on : BOOLEAN, pos : Nat, known : SUBSET RunShellRuns] : a = cmdTail[t]
    BY RunShellTailTypes DEF RunShellInv
  <1>2. PICK tok \in RunShell!Tokens : tok = cmdLog[a.pos + 1]
    <2>1. a.pos + 1 \in 1..Len(cmdLog)
      BY <1>1, RunShellTailTypes, RunShellLogTypes DEF RunShell!TailRead, RunShellInv
    <2>2. QED
      BY <2>1, RunShellLogTypes DEF RunShellInv
  <1>3. tok.id \in RunShellRuns /\ a.pos + 1 \in 1..Len(cmdLog) /\ Len(cmdLog) \in Nat /\ a.on
    BY <1>1, <1>2, RunShellTailTypes, RunShellLogTypes DEF RunShell!TailRead, RunShellInv,
       RunShell!Tokens
  <1>4. PICK known \in SUBSET RunShellRuns :
           known = IF tok.kind = "start" THEN a.known \cup {tok.id}
                   ELSE IF tok.kind = "stop" THEN a.known \ {tok.id} ELSE a.known
    BY <1>3
  <1>5. PICK b \in [on : BOOLEAN, pos : Nat, known : SUBSET RunShellRuns] :
           b = [a EXCEPT !.pos = a.pos + 1, !.known = known]
    <2>1. a.pos + 1 \in Nat
      BY <1>3
    <2>2. [a EXCEPT !.pos = a.pos + 1, !.known = known]
             \in [on : BOOLEAN, pos : Nat, known : SUBSET RunShellRuns]
      BY <2>1, Zenon
    <2>3. QED
      BY <2>2
  <1>6. b.pos = a.pos + 1 /\ b.on = a.on
    BY <1>5
  <1>7. /\ cmdTail' = [cmdTail EXCEPT ![t] = b]
        /\ IF tok.kind = "stop" THEN RunShell!BeginRecord(t, tok.id) ELSE UNCHANGED <<cmdWriting,
             cmdTimeline>>
        /\ UNCHANGED <<cmdLog, cmdTyped, cmdRunning, cmdRun>>
    BY <1>1, <1>2, <1>4, <1>5 DEF RunShell!TailRead
  <1>8. /\ cmdTail' \in [RunShellTails -> [on : BOOLEAN, pos : Nat, known : SUBSET RunShellRuns]]
        /\ cmdTail'[t] = b /\ \A o \in RunShellTails \ {t} : cmdTail'[o] = cmdTail[o]
    BY <1>7 DEF RunShellInv, RunShellTypes
  <1>9. \A o \in RunShellTails : cmdTail'[o].pos <= Len(cmdLog) /\ (~cmdTail'[o].on =>
          cmdTail'[o].pos = 0)
    <2>1. b.pos <= Len(cmdLog) /\ b.on
      BY <1>3, <1>6
    <2>2. \A o \in RunShellTails : cmdTail[o].pos <= Len(cmdLog) /\ (~cmdTail[o].on =>
            cmdTail[o].pos = 0)
      BY DEF RunShellInv, RunShellTypes
    <2>3. QED
      BY <1>8, <2>1, <2>2
  <1>10. \A o \in RunShellTails : cmdTail[o].pos <= cmdTail'[o].pos
    <2>1. \A o \in RunShellTails : cmdTail[o].pos \in Nat
      BY RunShellTailTypes DEF RunShellInv
    <2>2. QED
      BY <1>1, <1>6, <1>8, <2>1
  <1>11. /\ RunShellDone' = RunShellDone /\ RunShellStopped \subseteq RunShellStopped'
         /\ IsFiniteSet(RunShellStopped') /\ Cardinality(RunShellStopped') \in Nat
         /\ Cardinality(RunShellStopped) <= Cardinality(RunShellStopped')
    BY <1>7, <1>8, <1>10, RunShellMoreStopped
  <1>12. /\ Cardinality(RunShellWriting) \in Nat /\ Cardinality(RunShellDone) \in Nat
         /\ IsFiniteSet(RunShellStopped) /\ Cardinality(RunShellStopped) \in Nat /\
              Len(cmdTimeline) \in Nat
    BY RunShellAllFinite DEF RunShellInv, RunShellTypes
  <1>13. CASE tok.kind = "stop"
    <2>1. <<t, tok.id>> \notin RunShellStopped
      <3>1. SUFFICES ASSUME <<t, tok.id>> \in RunShellStopped PROVE FALSE
        OBVIOUS
      <3>2. PICK i \in 1..a.pos : cmdLog[i].kind = "stop" /\ cmdLog[i].id = tok.id
        BY <1>1, <3>1 DEF RunShellStopped
      <3>3. i \in 1..Len(cmdLog) /\ i # a.pos + 1
        BY <1>3
      <3>4. QED
        BY <1>2, <1>3, <1>13, <3>2, <3>3 DEF RunShellInv, RunShellLogged
    <2>2. <<t, tok.id>> \in RunShellStopped'
      <3>1. a.pos + 1 \in 1..cmdTail'[t].pos /\ cmdLog'[a.pos + 1] = tok
        BY <1>2, <1>3, <1>6, <1>7, <1>8
      <3>2. QED
        BY <1>3, <1>13, <3>1 DEF RunShellStopped
    <2>3. Cardinality(RunShellStopped \cup {<<t, tok.id>>}) = Cardinality(RunShellStopped) + 1
      BY <1>12, <2>1, FS_AddElement
    <2>4. Cardinality(RunShellStopped \cup {<<t, tok.id>>}) <= Cardinality(RunShellStopped')
      <3>1. RunShellStopped \cup {<<t, tok.id>>} \in SUBSET RunShellStopped'
        BY <1>11, <2>2
      <3>2. QED
        BY <1>11, <3>1, FS_Subset
    <2>5. RunShell!BeginRecord(t, tok.id)
      BY <1>7, <1>13
    <2>6. /\
               cmdWriting' \in [RunShellRuns \cup RunShellTails -> {RunShell!None} \cup [id :
                 RunShellRuns]]
          /\ cmdTimeline' \in Seq({"header", "body"} \X RunShellRuns)
          /\ Len(cmdTimeline') = Len(cmdTimeline) + 1
          /\ Cardinality(RunShellWriting') \in Nat /\
               Cardinality(RunShellWriting') <= Cardinality(RunShellWriting) + 1
      <3>1. t \in RunShellRuns \cup RunShellTails
        OBVIOUS
      <3>2. QED
        BY <1>3, <2>5, <3>1, RunShellBegun
    <2>7. RunShellCounted'
      BY <1>11, <1>12, <2>3, <2>4, <2>6, SMTT(60) DEF RunShellInv, RunShellCounted
    <2>8. QED
      BY <1>7, <1>8, <1>9, <2>6, <2>7, RunShellRecordsInv
  <1>14. CASE tok.kind # "stop"
    <2>1. UNCHANGED <<cmdWriting, cmdTimeline>>
      BY <1>7, <1>14
    <2>2. RunShellWriting' = RunShellWriting
      BY <2>1 DEF RunShellWriting
    <2>3. RunShellCounted'
      BY <1>11, <1>12, <2>1, <2>2 DEF RunShellInv, RunShellCounted
    <2>4. QED
      BY <1>7, <1>8, <1>9, <2>1, <2>3, RunShellRecordsInv DEF RunShellInv, RunShellTypes
  <1>15. QED
    BY <1>13, <1>14

\* Every step keeps the invariant.
LEMMA RunShellNextInv == ASSUME RunShellFinite
  PROVE RunShellInv /\ [RunShell!Next]_RunShell!vars => RunShellInv'
  <1>1. SUFFICES ASSUME RunShellInv, [RunShell!Next]_RunShell!vars PROVE RunShellInv'
    OBVIOUS
  <1>2. CASE RunShell!Execute
    BY <1>1, <1>2, RunShellExecuteInv
  <1>3. CASE RunShell!RunLine
    BY <1>1, <1>3, RunShellRunLineInv
  <1>4. CASE RunShell!CommandEnds
    BY <1>1, <1>4, RunShellCommandEndsInv
  <1>5. ASSUME NEW r \in RunShellRuns, RunShell!RunShell(r) PROVE RunShellInv'
    BY <1>1, <1>5, RunShellRunShellInv
  <1>6. ASSUME NEW r \in RunShellRuns, RunShell!WaitForRunEnd(r) PROVE RunShellInv'
    BY <1>1, <1>6, RunShellWaitForRunEndInv
  <1>7. ASSUME NEW r \in RunShellRuns, RunShell!RunTimesOut(r) PROVE RunShellInv'
    BY <1>1, <1>7, RunShellRunTimesOutInv
  <1>8. ASSUME NEW r \in RunShellRuns, RunShell!RecordRun(r) PROVE RunShellInv'
    BY <1>1, <1>8, RunShellRecordRunInv
  <1>9. ASSUME NEW t \in RunShellTails, RunShell!AttachShell(t) PROVE RunShellInv'
    BY <1>1, <1>9, RunShellAttachShellInv
  <1>10. ASSUME NEW t \in RunShellTails, RunShell!TailRead(t) PROVE RunShellInv'
    BY <1>1, <1>10, RunShellTailReadInv
  <1>11. ASSUME NEW w \in RunShellRuns \cup RunShellTails, RunShell!AppendBody(w) PROVE RunShellInv'
    BY <1>1, <1>11, RunShellAppendBodyInv
  <1>12. CASE UNCHANGED RunShell!vars
    <2>1. UNCHANGED <<cmdLog, cmdTyped, cmdRunning, cmdRun, cmdTail, cmdWriting, cmdTimeline>>
      BY <1>12 DEF RunShell!vars
    <2>2. RunShellQueue' /\ RunShellCounted'
      BY <1>1, <2>1 DEF RunShellInv, RunShellQueue, RunShellCalled, RunShellUnseen, RunShellOpen,
         RunShellCounted, RunShellDone, RunShellStopped, RunShellWriting
    <2>3. cmdTyped' \in Seq(RunShellRuns) /\
            cmdRunning' \in {<<>>} \cup {<<r, s>> : r \in RunShellRuns, s \in RunShell!Stages}
      BY <1>1, <2>1 DEF RunShellInv, RunShellTypes
    <2>4. QED
      BY <1>1, <2>1, <2>2, <2>3, RunShellSilentInv
  <1>13. QED
    BY <1>1, <1>2, <1>3, <1>4, <1>5, <1>6, <1>7, <1>8, <1>9, <1>10, <1>11, <1>12, Zenon
       DEF RunShell!Next, RunShell!Shell

\* What it means for the promises.
LEMMA RunShellMeaning ==
    ASSUME RunShellFinite
    PROVE  RunShellInv => RunShell!TypeOK /\ RunShell!RangeHoldsOutput /\ (~RunShellTorn =>
             RunShell!ExitCodeIsRight)
  <1>1. SUFFICES ASSUME RunShellInv
    PROVE RunShell!TypeOK /\ RunShell!RangeHoldsOutput /\ (~RunShellTorn =>
            RunShell!ExitCodeIsRight)
    OBVIOUS
  <1>2. RunShell!TypeOK
    <2>1. \A r \in RunShellRuns :
                          /\ cmdRun[r].phase \in {"idle", "waiting", "record", "done", "failed"}
                          /\ {cmdRun[r].begin, cmdRun[r].end} \subseteq 0..Len(cmdLog)
                          /\ cmdRun[r].code \in {0, RunShell!ExitCode \div 10, RunShell!ExitCode}
      <3>1. SUFFICES ASSUME NEW r \in RunShellRuns
                     PROVE  /\ cmdRun[r].phase \in {"idle", "waiting", "record", "done", "failed"}
                            /\ {cmdRun[r].begin, cmdRun[r].end} \subseteq 0..Len(cmdLog)
                            /\ cmdRun[r].code \in {0, RunShell!ExitCode \div 10, RunShell!ExitCode}
        OBVIOUS
      <3>2. {cmdRun[r].begin, cmdRun[r].end} \subseteq 0..Len(cmdLog)
        BY <1>1, RunShellCallTypes, RunShellLogTypes DEF RunShellInv
      <3>3. QED
        BY <1>1, <3>2, RunShellCallTypes DEF RunShellInv
    <2>2. \A t \in RunShellTails :
                           /\ cmdTail[t].on \in BOOLEAN /\ cmdTail[t].pos \in 0..Len(cmdLog)
                           /\ cmdTail[t].known \subseteq RunShellRuns
      BY <1>1, RunShellTailTypes, RunShellLogTypes DEF RunShellInv
    <2>3. \A w \in RunShellRuns \cup RunShellTails : cmdWriting[w] = RunShell!None \/
            cmdWriting[w].id \in RunShellRuns
      BY <1>1 DEF RunShellInv, RunShellTypes
    <2>4. Len(cmdTimeline) <=
            2 * (Cardinality(RunShellRuns) + Cardinality(RunShellRuns) * Cardinality(RunShellTails))
      <3>1. /\ Cardinality(RunShellDone) \in Nat /\ Cardinality(RunShellStopped) \in Nat
            /\ Cardinality(RunShellWriting) \in Nat /\
                 Cardinality(RunShellDone) <= Cardinality(RunShellRuns)
            /\ Cardinality(RunShellStopped) <=
                 Cardinality(RunShellRuns) * Cardinality(RunShellTails)
            /\ Cardinality(RunShellRuns) \in Nat /\ Cardinality(RunShellTails) \in Nat
        BY RunShellAllFinite
      <3>2. Cardinality(RunShellRuns) * Cardinality(RunShellTails) \in Nat /\
              Len(cmdTimeline) \in Nat
        BY <1>1, <3>1 DEF RunShellInv, RunShellTypes
      <3>3. Len(cmdTimeline) + Cardinality(RunShellWriting) <=
              2 * (Cardinality(RunShellDone) + Cardinality(RunShellStopped))
        BY <1>1 DEF RunShellInv, RunShellCounted
      <3>4. QED
        BY <3>1, <3>2, <3>3
    <2>5. \A S : RunShell!Cardinality(S) = Cardinality(S)
      BY Zenon DEF RunShell!Cardinality, Cardinality
    <2>6. Len(cmdTimeline) <=
            2 * (RunShell!Cardinality(RunShellRuns)
                  + RunShell!Cardinality(RunShellRuns) * RunShell!Cardinality(RunShellTails))
      BY <2>4, <2>5
    <2>7. QED
      BY <1>1, <2>1, <2>2, <2>3, <2>6 DEF RunShell!TypeOK, RunShellInv, RunShellTypes
  <1>3. RunShell!RangeHoldsOutput
    <2>1. SUFFICES ASSUME NEW r \in RunShellRuns, RunShell!Recorded(r), NEW i \in DOMAIN cmdLog,
                          cmdLog[i] = RunShell!Tok("out", r)
                   PROVE  cmdRun[r].begin < i /\ i <= cmdRun[r].end
      BY DEF RunShell!RangeHoldsOutput
    <2>2. i \in 1..Len(cmdLog) /\ cmdLog[i].kind = "out" /\ cmdLog[i].id = r
      BY <1>1, <2>1 DEF RunShellInv, RunShellTypes, RunShell!Tok
    <2>3. PICK j \in 1..cmdRun[r].end : cmdLog[j].id = r /\ cmdLog[j].kind \in RunShellEnds
      BY <1>1, <2>1 DEF RunShellInv, RunShellFinished
    <2>4. j \in 1..Len(cmdLog) /\ cmdRun[r].end \in Nat /\ Len(cmdLog) \in Nat
      BY <1>1, RunShellCallTypes, RunShellLogTypes DEF RunShellInv
    <2>5. i < j
      BY <1>1, <2>2, <2>3, <2>4 DEF RunShellInv, RunShellLogged
    <2>6. QED
      BY <1>1, <2>2, <2>3, <2>4, <2>5 DEF RunShellInv, RunShellLogged
  <1>4. ~RunShellTorn => RunShell!ExitCodeIsRight
    BY <1>1 DEF RunShellInv, RunShellFinished, RunShell!ExitCodeIsRight
  <1>5. QED
    BY <1>2, <1>3, <1>4

\* The range of a finished command holds all its output, and its exit code is
\* the command's unless its line reached the log torn.
THEOREM RunsHold ==
    ASSUME RunShellFinite
    PROVE  RunShell!Spec => [](RunShell!TypeOK /\ RunShell!RangeHoldsOutput /\ (~RunShellTorn =>
             RunShell!ExitCodeIsRight))
  <1>1. RunShell!Init => RunShellInv
    BY RunShellInitInv
  <1>2. RunShellInv /\ [RunShell!Next]_RunShell!vars => RunShellInv'
    BY RunShellNextInv
  <1>3. RunShellInv => RunShell!TypeOK /\ RunShell!RangeHoldsOutput /\ (~RunShellTorn =>
          RunShell!ExitCodeIsRight)
    BY RunShellMeaning
  <1>4. QED
    BY <1>1, <1>2, <1>3, PTL DEF RunShell!Spec

-----------------------------------------------------------------------------
(***************************************************************************)
(* Proofs about PtyService, for any number of attach commands, any chunk   *)
(* size and any amount of output.                                          *)
(***************************************************************************)

TerminalsBounds == TerminalsMaxChunk \in Nat \ {0} /\ TerminalsMaxOut \in Nat

TerminalsResults == {"", "not found", "canceled", "ok", "internal"}
TerminalsReasons == {"", "stream", "abort", "panic"}

TerminalsTypes ==
    /\ ttyProc \in {"run", "killed", "exited", "reaped"} /\ ttyChild \in BOOLEAN /\
         ttyTimer \in BOOLEAN
    /\ ttyTty \in Nat /\ ttyRd \in Nat /\ ttyRd <= ttyTty /\ ttyTty <= TerminalsMaxOut
    /\ ttyClosed \in {"open", "closed"} /\ ttySession \in {"live", "gone"}
    /\ ttyCall \in [TerminalsClients -> {"none", "read", "check", "tick", "fail", "ended"}]
    /\ ttyPending \in [TerminalsClients -> Seq(Nat)] /\ ttySent \in [TerminalsClients -> Seq(Nat)]
    /\ ttyResult \in [TerminalsClients -> TerminalsResults]
    /\ ttyCmd \in [TerminalsClients -> {"start", "pump", "closing", "closePTY", "done"}]
    /\ ttyRecv \in [TerminalsClients -> {"recv", "write", "end"}]
    /\ ttyGot \in [TerminalsClients -> Nat] /\ ttyGiven \in [TerminalsClients -> Nat] /\
         ttyPrinted \in [TerminalsClients -> Nat]
    /\ ttyWhy \in [TerminalsClients -> TerminalsReasons]

\* A session is cleaned up behind its end; a read fails at the end of either.
TerminalsOver ==
    /\ ttySession = "gone" \/ ttyTimer => ttyClosed = "closed"
    /\ \A c \in TerminalsClients : ttyCall[c] = "fail" =>
         ttyClosed = "closed" \/ ~Terminals!HasTerminal
    /\ \A c \in TerminalsClients : ttyResult[c] = "internal" => ~Terminals!HasTerminal

\* What a call has read, in order; and that as a set.
TerminalsLine(c) == ttySent[c] \o ttyPending[c]
TerminalsBytes(c) == {TerminalsLine(c)[i] : i \in 1..Len(TerminalsLine(c))}

TerminalsLines ==
    /\ \A c \in TerminalsClients : Len(ttyPending[c]) < TerminalsMaxChunk
    /\ \A c \in TerminalsClients : \A i, j \in 1..Len(TerminalsLine(c)) : i < j =>
         TerminalsLine(c)[i] < TerminalsLine(c)[j]
    /\ \A c \in TerminalsClients : TerminalsBytes(c) \subseteq 1..ttyRd
    /\ \A c, d \in TerminalsClients : c # d => TerminalsBytes(c) \cap TerminalsBytes(d) = {}
    /\ \A c \in TerminalsClients : ttyCall[c] \in {"none", "ended"} => ttyPending[c] = <<>>
    /\ \A c \in TerminalsClients : ttyCall[c] = "none" <=> ttyCmd[c] = "start"
    /\ (\A c \in TerminalsClients : ttyCmd[c] \in {"start", "pump"}) =>
          \A b \in 1..ttyRd : \E c \in TerminalsClients : b \in TerminalsBytes(c)

\* The receiving goroutine has given on what it received, before it ends.
TerminalsAttached ==
    \A c \in TerminalsClients :
       /\ ttyPrinted[c] <= ttyGiven[c] /\ ttyGiven[c] <= ttyGot[c] /\ ttyGot[c] <= Len(ttySent[c])
       /\ ttyCmd[c] = "start" => ttyRecv[c] = "recv"
       /\ ttyCmd[c] \in {"start", "pump"} /\ ttyRecv[c] # "write" => ttyGiven[c] = ttyGot[c]
       /\ ttyCmd[c] \in {"start", "pump"} /\ ttyRecv[c] = "end" =>
             ttyCall[c] = "ended" /\ ttyGot[c] = Len(ttySent[c])
       /\ ttyWhy[c] = "stream" =>
             /\ ttyRecv[c] = "end" /\ ttyCall[c] = "ended" /\ ttyGiven[c] = ttyGot[c]
             /\ ttyGot[c] = Len(ttySent[c]) /\ ttyCmd[c] \notin {"start", "pump"}
             /\ ttyCmd[c] \in {"closePTY", "done"} => ttyPrinted[c] = ttyGiven[c]

TerminalsInv == TerminalsTypes /\ TerminalsOver /\ TerminalsLines /\ TerminalsAttached

-----------------------------------------------------------------------------
\* Initially nothing was written.
LEMMA TerminalsInitInv == ASSUME TerminalsBounds, Terminals!Init PROVE TerminalsInv
  <1>1. /\ ttyProc = "run" /\ ttyChild \in BOOLEAN /\ ttyTty = 0 /\ ttyRd = 0
        /\ ttyClosed = "open" /\ ttyTimer = FALSE /\ ttySession = "live"
        /\ ttyCall = [c \in TerminalsClients |-> "none"] /\
             ttyPending = [c \in TerminalsClients |-> <<>>]
        /\ ttySent = [c \in TerminalsClients |-> <<>>]
        /\ ttyCmd = [c \in TerminalsClients |-> "start"] /\
             ttyRecv = [c \in TerminalsClients |-> "recv"]
        /\ ttyGot = [c \in TerminalsClients |-> 0] /\ ttyGiven = [c \in TerminalsClients |-> 0]
        /\ ttyPrinted = [c \in TerminalsClients |-> 0]
    BY Zenon DEF Terminals!Init
  <1>2. ttyResult \in [TerminalsClients -> TerminalsResults] /\
          ttyWhy \in [TerminalsClients -> TerminalsReasons]
    BY Zenon DEF Terminals!Init, TerminalsResults, TerminalsReasons
  <1>3. \A c \in TerminalsClients : ttyResult[c] # "internal" /\ ttyWhy[c] # "stream"
    BY Zenon DEF Terminals!Init
  <1>4. TerminalsTypes
    <2>1. ttyPending \in [TerminalsClients -> Seq(Nat)] /\
            ttySent \in [TerminalsClients -> Seq(Nat)]
      BY <1>1
    <2>2. /\ ttyProc \in {"run", "killed", "exited", "reaped"}
          /\ ttyClosed \in {"open", "closed"} /\ ttySession \in {"live", "gone"}
      BY <1>1
    <2>5. ttyChild \in BOOLEAN /\ ttyTimer \in BOOLEAN
      BY <1>1, Zenon
    <2>6. ttyTty \in Nat /\ ttyRd \in Nat /\ ttyRd <= ttyTty /\ ttyTty <= TerminalsMaxOut
      BY <1>1 DEF TerminalsBounds
    <2>3. /\ ttyCall \in [TerminalsClients -> {"none", "read", "check", "tick", "fail", "ended"}]
          /\ ttyCmd \in [TerminalsClients -> {"start", "pump", "closing", "closePTY", "done"}]
          /\ ttyRecv \in [TerminalsClients -> {"recv", "write", "end"}]
          /\ ttyGot \in [TerminalsClients -> Nat] /\ ttyGiven \in [TerminalsClients -> Nat]
          /\ ttyPrinted \in [TerminalsClients -> Nat]
      BY <1>1
    <2>4. QED
      BY <1>2, <2>1, <2>2, <2>3, <2>5, <2>6 DEF TerminalsTypes
  <1>5. TerminalsOver
    BY <1>1, <1>3 DEF TerminalsOver
  <1>6. \A c \in TerminalsClients : TerminalsLine(c) = <<>>
    BY <1>1 DEF TerminalsLine
  <1>7. TerminalsLines
    BY <1>1, <1>6 DEF TerminalsLines, TerminalsBytes, TerminalsBounds
  <1>8. TerminalsAttached
    BY <1>1, <1>3 DEF TerminalsAttached
  <1>9. QED
    BY <1>4, <1>5, <1>7, <1>8 DEF TerminalsInv

\* The elements of two sequences, one behind the other.
LEMMA TerminalsJoined ==
    ASSUME NEW s \in Seq(Nat), NEW t \in Seq(Nat)
    PROVE  /\ s \o t \in Seq(Nat) /\ Len(s \o t) = Len(s) + Len(t)
           /\ Len(s) \in Nat /\ Len(t) \in Nat /\ Len(s) <= Len(s \o t)
           /\ \A i \in 1..Len(s) : i \in 1..Len(s \o t)
           /\ \A i \in 1..Len(t) : Len(s) + i \in 1..Len(s \o t)
           /\ \A i \in 1..Len(s) : (s \o t)[i] = s[i]
           /\ \A i \in 1..Len(t) : (s \o t)[Len(s) + i] = t[i]
           /\ \A i \in 1..Len(s \o t) :
                 \/ i \in 1..Len(s)
                 \/ i - Len(s) \in 1..Len(t) /\ i = Len(s) + (i - Len(s))
  <1>1. Len(s) \in Nat /\ Len(t) \in Nat
    OBVIOUS
  <1>2. /\ s \o t \in Seq(Nat) /\ Len(s \o t) = Len(s) + Len(t)
        /\ \A i \in 1..Len(s) + Len(t) :
              (s \o t)[i] = IF i <= Len(s) THEN s[i] ELSE t[i - Len(s)]
    BY ConcatProperties
  <1>3. \A i \in 1..Len(s) : (s \o t)[i] = s[i]
    BY <1>1, <1>2
  <1>4. ASSUME NEW i \in 1..Len(t) PROVE (s \o t)[Len(s) + i] = t[i]
    <2>1. Len(s) + i \in 1..Len(s) + Len(t) /\ ~(Len(s) + i <= Len(s)) /\ (Len(s) + i) - Len(s) = i
      BY <1>1
    <2>2. QED
      BY <1>2, <2>1
  <1>5. /\ \A i \in 1..Len(s) : i \in 1..Len(s) + Len(t)
        /\ \A i \in 1..Len(t) : Len(s) + i \in 1..Len(s) + Len(t)
        /\ \A i \in 1..Len(s) + Len(t) :
              \/ i \in 1..Len(s)
              \/ i - Len(s) \in 1..Len(t) /\ i = Len(s) + (i - Len(s))
        /\ Len(s) <= Len(s) + Len(t)
    BY <1>1
  <1>6. QED
    BY <1>1, <1>2, <1>3, <1>4, <1>5, ZenonT(60)

\* The variables of one client.
LEMMA TerminalsClientTypes ==
    ASSUME TerminalsTypes, NEW c \in TerminalsClients
    PROVE  /\ ttyPending[c] \in Seq(Nat) /\ ttySent[c] \in Seq(Nat) /\ TerminalsLine(c) \in Seq(Nat)
           /\ Len(ttyPending[c]) \in Nat /\ Len(ttySent[c]) \in Nat
           /\ ttyGot[c] \in Nat /\ ttyGiven[c] \in Nat /\ ttyPrinted[c] \in Nat
           /\ Len(TerminalsLine(c)) = Len(ttySent[c]) + Len(ttyPending[c])
           /\ Len(ttySent[c]) <= Len(TerminalsLine(c))
           /\ \A i \in 1..Len(ttySent[c]) : i \in 1..Len(TerminalsLine(c)) /\
                TerminalsLine(c)[i] = ttySent[c][i]
           /\ \A i \in 1..Len(ttyPending[c]) :
                TerminalsLine(c)[Len(ttySent[c]) + i] = ttyPending[c][i]
  <1>1. ttyPending[c] \in Seq(Nat) /\ ttySent[c] \in Seq(Nat)
    BY DEF TerminalsTypes
  <1>2. ttyGot[c] \in Nat /\ ttyGiven[c] \in Nat /\ ttyPrinted[c] \in Nat
    BY DEF TerminalsTypes
  <1>3. /\ TerminalsLine(c) \in Seq(Nat) /\
             Len(TerminalsLine(c)) = Len(ttySent[c]) + Len(ttyPending[c])
        /\ Len(ttySent[c]) \in Nat /\ Len(ttyPending[c]) \in Nat /\
             Len(ttySent[c]) <= Len(TerminalsLine(c))
        /\ \A i \in 1..Len(ttySent[c]) : i \in 1..Len(TerminalsLine(c))
        /\ \A i \in 1..Len(ttySent[c]) : TerminalsLine(c)[i] = ttySent[c][i]
        /\ \A i \in 1..Len(ttyPending[c]) : TerminalsLine(c)[Len(ttySent[c]) + i] = ttyPending[c][i]
    BY <1>1, TerminalsJoined, Zenon DEF TerminalsLine
  <1>4. QED
    BY <1>1, <1>2, <1>3

\* Three of them.
LEMMA TerminalsAssociative ==
    ASSUME NEW s \in Seq(Nat), NEW t \in Seq(Nat), NEW u \in Seq(Nat)
    PROVE  (s \o t) \o u = s \o (t \o u)
  BY ConcatAssociative, SMTT(60)

\* The lines where nothing is read or sent.
LEMMA TerminalsSameLines ==
    ASSUME TerminalsLines, UNCHANGED <<ttyRd, ttySent, ttyPending>>,
           \A c \in TerminalsClients : ttyCall'[c] \in {"none", "ended"} => ttyPending[c] = <<>>,
           \A c \in TerminalsClients : ttyCall'[c] = "none" <=> ttyCmd'[c] = "start",
           \A c \in TerminalsClients : ttyCmd'[c] \in {"start", "pump"} =>
             ttyCmd[c] \in {"start", "pump"}
    PROVE  TerminalsLines'
  <1>1. \A c \in TerminalsClients : TerminalsLine(c)' = TerminalsLine(c) /\
          TerminalsBytes(c)' = TerminalsBytes(c)
    BY DEF TerminalsLine, TerminalsBytes
  <1>2. QED
    BY <1>1 DEF TerminalsLines

\* What was attached stays so while calls go on sending.
LEMMA TerminalsSameAttached ==
    ASSUME TerminalsAttached, TerminalsTypes, UNCHANGED <<ttyRecv, ttyGot, ttyGiven, ttyPrinted,
             ttyWhy>>,
           \A c \in TerminalsClients : Len(ttySent'[c]) \in Nat /\
             Len(ttySent[c]) <= Len(ttySent'[c]),
           \A c \in TerminalsClients : ttyCall[c] = "ended" =>
             ttyCall'[c] = "ended" /\ ttySent'[c] = ttySent[c],
           \A c \in TerminalsClients : ttyCmd'[c] = ttyCmd[c] \/ (ttyCmd[c] = "start" /\
             ttyCmd'[c] = "pump")
    PROVE  TerminalsAttached'
  <1>1. SUFFICES ASSUME NEW c \in TerminalsClients
                 PROVE  /\ ttyPrinted[c] <= ttyGiven[c] /\ ttyGiven[c] <= ttyGot[c] /\
                             ttyGot[c] <= Len(ttySent'[c])
                        /\ ttyCmd'[c] = "start" => ttyRecv[c] = "recv"
                        /\ ttyCmd'[c] \in {"start", "pump"} /\ ttyRecv[c] # "write" =>
                             ttyGiven[c] = ttyGot[c]
                        /\ ttyCmd'[c] \in {"start", "pump"} /\ ttyRecv[c] = "end" =>
                              ttyCall'[c] = "ended" /\ ttyGot[c] = Len(ttySent'[c])
                        /\ ttyWhy[c] = "stream" =>
                              /\ ttyRecv[c] = "end" /\ ttyCall'[c] = "ended" /\
                                   ttyGiven[c] = ttyGot[c]
                              /\ ttyGot[c] = Len(ttySent'[c]) /\ ttyCmd'[c] \notin {"start", "pump"}
                              /\ ttyCmd'[c] \in {"closePTY", "done"} => ttyPrinted[c] = ttyGiven[c]
    BY DEF TerminalsAttached
  <1>2. /\ ttyPrinted[c] <= ttyGiven[c] /\ ttyGiven[c] <= ttyGot[c] /\ ttyGot[c] <= Len(ttySent[c])
        /\ ttyCmd[c] = "start" => ttyRecv[c] = "recv"
        /\ ttyCmd[c] \in {"start", "pump"} /\ ttyRecv[c] # "write" => ttyGiven[c] = ttyGot[c]
        /\ ttyCmd[c] \in {"start", "pump"} /\ ttyRecv[c] = "end" =>
              ttyCall[c] = "ended" /\ ttyGot[c] = Len(ttySent[c])
        /\ ttyWhy[c] = "stream" =>
              /\ ttyRecv[c] = "end" /\ ttyCall[c] = "ended" /\ ttyGiven[c] = ttyGot[c]
              /\ ttyGot[c] = Len(ttySent[c]) /\ ttyCmd[c] \notin {"start", "pump"}
              /\ ttyCmd[c] \in {"closePTY", "done"} => ttyPrinted[c] = ttyGiven[c]
    BY DEF TerminalsAttached
  <1>3. ttyGot[c] \in Nat /\ Len(ttySent[c]) \in Nat
    BY TerminalsClientTypes
  <1>4. QED
    BY <1>2, <1>3

-----------------------------------------------------------------------------
\* Steps of the process and the session, and the owner's ClosePTY.
LEMMA TerminalsServerInv ==
    ASSUME TerminalsInv, UNCHANGED <<ttyRd, Terminals!calls, ttyRecv, ttyGot, ttyGiven, ttyPrinted,
             ttyWhy>>,
           ttyProc' \in {"run", "killed", "exited", "reaped"}, ttyChild' \in BOOLEAN,
           ttyTimer' \in BOOLEAN, ttyTty' \in Nat, ttyRd <= ttyTty', ttyTty' <= TerminalsMaxOut,
           ttyClosed' \in {"open", "closed"}, ttySession' \in {"live", "gone"},
           ttyCmd' \in [TerminalsClients -> {"start", "pump", "closing", "closePTY", "done"}],
           \A c \in TerminalsClients : ttyCmd'[c] = ttyCmd[c] \/ (ttyCmd[c] = "closePTY" /\
             ttyCmd'[c] = "done"),
           ttyClosed = "closed" => ttyClosed' = "closed",
           ttySession' = "gone" \/ ttyTimer' => ttyClosed' = "closed",
           Terminals!HasTerminal' => Terminals!HasTerminal
    PROVE  TerminalsInv'
  <1>1. UNCHANGED <<ttyCall, ttyPending, ttySent, ttyResult>>
    BY DEF Terminals!calls
  <1>2. TerminalsTypes'
    BY <1>1 DEF TerminalsInv, TerminalsTypes
  <1>3. TerminalsOver'
    BY <1>1 DEF TerminalsInv, TerminalsOver
  <1>4. TerminalsLines'
    BY <1>1, TerminalsSameLines DEF TerminalsInv, TerminalsLines
  <1>5. TerminalsAttached'
    BY <1>1 DEF TerminalsInv, TerminalsAttached
  <1>6. QED
    BY <1>2, <1>3, <1>4, <1>5 DEF TerminalsInv

LEMMA TerminalsOutputInv == ASSUME TerminalsBounds, TerminalsInv, Terminals!Output
  PROVE TerminalsInv'
  <1>1. /\ ttyTty < TerminalsMaxOut /\ ttyTty' = ttyTty + 1
        /\ UNCHANGED <<ttyProc, ttyChild, ttyRd, ttyClosed, ttyTimer, ttySession, Terminals!calls,
             ttyCmd, ttyRecv, ttyGot, ttyGiven,
                       ttyPrinted, ttyWhy>>
    BY DEF Terminals!Output, Terminals!clients
  <1>2. Terminals!HasTerminal' <=> Terminals!HasTerminal
    BY <1>1 DEF Terminals!HasTerminal
  <1>3. ttyTty' \in Nat /\ ttyRd <= ttyTty' /\ ttyTty' <= TerminalsMaxOut
    BY <1>1 DEF TerminalsInv, TerminalsTypes, TerminalsBounds
  <1>4. QED
    BY <1>1, <1>2, <1>3, TerminalsServerInv DEF TerminalsInv, TerminalsTypes, TerminalsOver

LEMMA TerminalsProcessExitsInv == ASSUME TerminalsBounds, TerminalsInv,
  Terminals!ProcessExits PROVE TerminalsInv'
  <1>1. /\ ttyProc \in {"run", "killed"} /\ ttyProc' = "exited"
        /\ UNCHANGED <<ttyChild, ttyTty, ttyRd, ttyClosed, ttyTimer, ttySession, Terminals!calls,
             ttyCmd, ttyRecv, ttyGot, ttyGiven,
                       ttyPrinted, ttyWhy>>
    BY DEF Terminals!ProcessExits, Terminals!clients
  <1>2. Terminals!HasTerminal' => Terminals!HasTerminal
    BY <1>1 DEF Terminals!HasTerminal
  <1>3. QED
    BY <1>1, <1>2, TerminalsServerInv DEF TerminalsInv, TerminalsTypes, TerminalsOver

LEMMA TerminalsChildEndsInv == ASSUME TerminalsBounds, TerminalsInv, Terminals!ChildEnds
  PROVE TerminalsInv'
  <1>1. /\ ttyChild /\ ttyChild' = FALSE
        /\ UNCHANGED <<ttyProc, ttyTty, ttyRd, ttyClosed, ttyTimer, ttySession, Terminals!calls,
             ttyCmd, ttyRecv, ttyGot, ttyGiven,
                       ttyPrinted, ttyWhy>>
    BY DEF Terminals!ChildEnds, Terminals!clients
  <1>2. Terminals!HasTerminal' => Terminals!HasTerminal
    BY <1>1 DEF Terminals!HasTerminal
  <1>3. QED
    BY <1>1, <1>2, TerminalsServerInv DEF TerminalsInv, TerminalsTypes, TerminalsOver

LEMMA TerminalsReapInv == ASSUME TerminalsBounds, TerminalsInv, Terminals!Reap PROVE TerminalsInv'
  <1>1. /\ ttyProc = "exited" /\ ttyProc' = "reaped" /\ ttyClosed' = "closed" /\ ttyTimer' = TRUE
        /\ UNCHANGED <<ttyChild, ttyTty, ttyRd, ttySession, Terminals!calls, ttyCmd, ttyRecv,
             ttyGot, ttyGiven, ttyPrinted, ttyWhy>>
    BY DEF Terminals!Reap, Terminals!EndOnce, Terminals!clients, TerminalsInv, TerminalsTypes
  <1>2. Terminals!HasTerminal' => Terminals!HasTerminal
    BY <1>1 DEF Terminals!HasTerminal
  <1>3. QED
    BY <1>1, <1>2, TerminalsServerInv DEF TerminalsInv, TerminalsTypes, TerminalsOver

LEMMA TerminalsTimerFiresInv == ASSUME TerminalsBounds, TerminalsInv, Terminals!TimerFires
  PROVE TerminalsInv'
  <1>1. /\ ttyTimer /\ ttyTimer' = FALSE /\ ttySession' = "gone"
        /\ UNCHANGED <<ttyProc, ttyChild, ttyTty, ttyRd, ttyClosed, Terminals!calls, ttyCmd,
             ttyRecv, ttyGot, ttyGiven, ttyPrinted, ttyWhy>>
    BY DEF Terminals!TimerFires, Terminals!CleanupPTY, Terminals!clients
  <1>2. Terminals!HasTerminal' => Terminals!HasTerminal
    BY <1>1 DEF Terminals!HasTerminal
  <1>3. QED
    BY <1>1, <1>2, TerminalsServerInv DEF TerminalsInv, TerminalsTypes, TerminalsOver

LEMMA TerminalsClosePTYInv == ASSUME TerminalsBounds, TerminalsInv, NEW c \in TerminalsClients,
  Terminals!ClosePTY(c) PROVE TerminalsInv'
  <1>1. /\ ttyCmd[c] = "closePTY" /\ ttyCmd' = [ttyCmd EXCEPT ![c] = "done"]
        /\ UNCHANGED <<ttyChild, ttyTty, ttyRd, ttyTimer, Terminals!calls, ttyRecv, ttyGot,
             ttyGiven, ttyPrinted, ttyWhy>>
    BY DEF Terminals!ClosePTY
  <1>2. \/ UNCHANGED <<ttyProc, ttyClosed, ttySession>>
        \/ /\ ttyClosed' = "closed" /\ ttySession' = "gone"
           /\ \/ ttyProc' = "killed" /\ ttyProc = "run"
              \/ ttyProc' = ttyProc
    BY DEF Terminals!ClosePTY, Terminals!EndOnce, Terminals!CleanupPTY, TerminalsInv, TerminalsTypes
  <1>3. Terminals!HasTerminal' => Terminals!HasTerminal
    BY <1>1, <1>2 DEF Terminals!HasTerminal
  <1>4. /\ ttyCmd' \in [TerminalsClients -> {"start", "pump", "closing", "closePTY", "done"}]
        /\ \A d \in TerminalsClients : ttyCmd'[d] = ttyCmd[d] \/ (ttyCmd[d] = "closePTY" /\
             ttyCmd'[d] = "done")
    BY <1>1 DEF TerminalsInv, TerminalsTypes
  <1>5. /\ ttyProc' \in {"run", "killed", "exited", "reaped"}
        /\ ttyClosed' \in {"open", "closed"} /\ ttySession' \in {"live", "gone"}
        /\ ttyClosed = "closed" => ttyClosed' = "closed"
        /\ ttySession' = "gone" \/ ttyTimer => ttyClosed' = "closed"
    BY <1>2 DEF TerminalsInv, TerminalsTypes, TerminalsOver
  <1>6. QED
    BY <1>1, <1>3, <1>4, <1>5, TerminalsServerInv DEF TerminalsInv, TerminalsTypes

-----------------------------------------------------------------------------
\* One call goes on to another state, having sent more or less of its line.
LEMMA TerminalsCallInv ==
    ASSUME TerminalsBounds, TerminalsInv, NEW c \in TerminalsClients, NEW to \in {"read", "check",
             "tick", "fail", "ended"},
           NEW p \in Seq(Nat), NEW s \in Seq(Nat),
           ttyCall' = [ttyCall EXCEPT ![c] = to], ttyPending' = [ttyPending EXCEPT ![c] = p],
           ttySent' = [ttySent EXCEPT ![c] = s],
             ttyResult' \in [TerminalsClients -> TerminalsResults],
           \A d \in TerminalsClients : ttyResult'[d] = "internal" => ~Terminals!HasTerminal,
           UNCHANGED <<ttyProc, ttyChild, ttyTty, ttyClosed, ttyTimer, ttySession,
             Terminals!clients>>,
           ttyRd' \in Nat, ttyRd <= ttyRd', ttyRd' <= ttyTty,
           ttyCall[c] \notin {"none", "ended"}, Len(ttySent[c]) <= Len(s),
             Len(p) < TerminalsMaxChunk,
           to = "fail" => ttyClosed = "closed" \/ ~Terminals!HasTerminal,
           to = "ended" => p = <<>>,
           \A i, j \in 1..Len(s \o p) : i < j => (s \o p)[i] < (s \o p)[j],
           \A i \in 1..Len(s \o p) : (s \o p)[i] \in TerminalsBytes(c) \cup ttyRd + 1..ttyRd',
           ttyCmd[c] \in {"start", "pump"} =>
              \A b \in TerminalsBytes(c) \cup ttyRd + 1..ttyRd' : \E i \in 1..Len(s \o p) :
                b = (s \o p)[i]
    PROVE  TerminalsInv'
  <1>1. UNCHANGED <<ttyCmd, ttyRecv, ttyGot, ttyGiven, ttyPrinted, ttyWhy>>
    BY DEF Terminals!clients
  <1>2. /\ ttyCall'[c] = to /\ ttyPending'[c] = p /\ ttySent'[c] = s
        /\ \A d \in TerminalsClients : d # c =>
              ttyCall'[d] = ttyCall[d] /\ ttyPending'[d] = ttyPending[d] /\ ttySent'[d] = ttySent[d]
    BY DEF TerminalsInv, TerminalsTypes
  <1>3. TerminalsTypes'
    <2>1. /\ ttyCall' \in [TerminalsClients -> {"none", "read", "check", "tick", "fail", "ended"}]
          /\ ttyPending' \in [TerminalsClients -> Seq(Nat)] /\
               ttySent' \in [TerminalsClients -> Seq(Nat)]
      BY DEF TerminalsInv, TerminalsTypes
    <2>2. QED
      BY <1>1, <2>1 DEF TerminalsInv, TerminalsTypes
  <1>4. TerminalsOver'
    <2>1. Terminals!HasTerminal' <=> Terminals!HasTerminal
      BY DEF Terminals!HasTerminal
    <2>2. \A d \in TerminalsClients : ttyCall'[d] = "fail" =>
            ttyClosed = "closed" \/ ~Terminals!HasTerminal
      BY <1>2 DEF TerminalsInv, TerminalsOver
    <2>3. QED
      BY <2>1, <2>2 DEF TerminalsInv, TerminalsOver
  <1>5. TerminalsLines'
    <2>1. /\ TerminalsLine(c)' = s \o p
          /\ \A d \in TerminalsClients : d # c =>
               TerminalsLine(d)' = TerminalsLine(d) /\ TerminalsBytes(d)' = TerminalsBytes(d)
      <3>1. TerminalsLine(c)' = s \o p
        BY <1>2 DEF TerminalsLine
      <3>2. ASSUME NEW d \in TerminalsClients, d # c PROVE TerminalsLine(d)' = TerminalsLine(d)
        BY <1>2, <3>2 DEF TerminalsLine
      <3>3. ASSUME NEW d \in TerminalsClients, d # c PROVE TerminalsBytes(d)' = TerminalsBytes(d)
        BY <3>2, <3>3 DEF TerminalsBytes
      <3>4. QED
        BY <3>1, <3>2, <3>3
    <2>2. TerminalsBytes(c)' \subseteq TerminalsBytes(c) \cup ttyRd + 1..ttyRd'
      <3>1. SUFFICES ASSUME NEW i \in 1..Len(s \o p)
                     PROVE  (s \o p)[i] \in TerminalsBytes(c) \cup ttyRd + 1..ttyRd'
        BY <2>1, ZenonT(60) DEF TerminalsBytes
      <3>2. QED
        OBVIOUS
    <2>3. \A d \in TerminalsClients : TerminalsBytes(d) \subseteq 1..ttyRd /\ ttyRd \in Nat
      BY DEF TerminalsInv, TerminalsLines, TerminalsTypes
    <2>4. \A d \in TerminalsClients : TerminalsBytes(d)' \subseteq 1..ttyRd'
      <3>1. 1..ttyRd \subseteq 1..ttyRd' /\ ttyRd + 1..ttyRd' \subseteq 1..ttyRd'
        BY <2>3
      <3>2. QED
        BY <2>1, <2>2, <2>3, <3>1
    <2>5. \A d, e \in TerminalsClients : d # e => TerminalsBytes(d)' \cap TerminalsBytes(e)' = {}
      <3>1. \A d \in TerminalsClients : d # c => TerminalsBytes(d) \cap TerminalsBytes(c) = {}
        BY DEF TerminalsInv, TerminalsLines
      <3>2. \A d \in TerminalsClients : TerminalsBytes(d) \cap (ttyRd + 1..ttyRd') = {}
        BY <2>3
      <3>3. \A d \in TerminalsClients : d # c => TerminalsBytes(d)' \cap TerminalsBytes(c)' = {}
        BY <2>1, <2>2, <3>1, <3>2
      <3>4. \A d, e \in TerminalsClients : d # e /\ d # c /\ e # c =>
              TerminalsBytes(d)' \cap TerminalsBytes(e)' = {}
        BY <2>1 DEF TerminalsInv, TerminalsLines
      <3>5. QED
        BY <3>3, <3>4
    <2>6. ASSUME \A d \in TerminalsClients : ttyCmd[d] \in {"start", "pump"}, NEW b \in 1..ttyRd'
          PROVE  \E d \in TerminalsClients : b \in TerminalsBytes(d)'
      <3>1. b \in 1..ttyRd \/ b \in ttyRd + 1..ttyRd'
        BY <2>3
      <3>2. CASE b \in TerminalsBytes(c) \/ b \in ttyRd + 1..ttyRd'
        <4>1. b \in TerminalsBytes(c)'
          BY <2>1, <2>6, <3>2 DEF TerminalsBytes
        <4>2. QED
          BY <4>1
      <3>3. CASE b \in 1..ttyRd /\ b \notin TerminalsBytes(c)
        <4>1. PICK d \in TerminalsClients : b \in TerminalsBytes(d)
          BY <2>6, <3>3 DEF TerminalsInv, TerminalsLines
        <4>2. QED
          BY <2>1, <3>3, <4>1
      <3>4. QED
        BY <3>1, <3>2, <3>3
    <2>7. \A d \in TerminalsClients : \A i, j \in 1..Len(TerminalsLine(d)') : i < j =>
            TerminalsLine(d)'[i] < TerminalsLine(d)'[j]
      BY <2>1 DEF TerminalsInv, TerminalsLines
    <2>8. /\ \A d \in TerminalsClients : Len(ttyPending'[d]) < TerminalsMaxChunk
          /\ \A d \in TerminalsClients : ttyCall'[d] \in {"none", "ended"} => ttyPending'[d] = <<>>
          /\ \A d \in TerminalsClients : ttyCall'[d] = "none" <=> ttyCmd'[d] = "start"
      BY <1>1, <1>2 DEF TerminalsInv, TerminalsLines
    <2>9. QED
      BY <1>1, <2>4, <2>5, <2>6, <2>7, <2>8 DEF TerminalsLines
  <1>6. TerminalsAttached'
    <2>1. \A d \in TerminalsClients : Len(ttySent'[d]) \in Nat /\
            Len(ttySent[d]) <= Len(ttySent'[d])
      BY <1>2, TerminalsClientTypes DEF TerminalsInv
    <2>2. \A d \in TerminalsClients : ttyCall[d] = "ended" =>
            ttyCall'[d] = "ended" /\ ttySent'[d] = ttySent[d]
      BY <1>2
    <2>3. QED
      BY <1>1, <2>1, <2>2, TerminalsSameAttached DEF TerminalsInv
  <1>7. QED
    BY <1>3, <1>4, <1>5, <1>6 DEF TerminalsInv

\* A call that sends nothing and keeps nothing back.
LEMMA TerminalsQuietInv ==
    ASSUME TerminalsBounds, TerminalsInv, NEW c \in TerminalsClients, NEW to \in {"read", "check",
             "tick", "fail"},
           ttyCall' = [ttyCall EXCEPT ![c] = to],
           UNCHANGED <<Terminals!server, ttyPending, ttySent, ttyResult, Terminals!clients>>,
           ttyCall[c] \notin {"none", "ended"},
           to = "fail" => ttyClosed = "closed" \/ ~Terminals!HasTerminal
    PROVE  TerminalsInv'
  <1>1. /\ ttyPending' = [ttyPending EXCEPT ![c] = ttyPending[c]] /\
             ttySent' = [ttySent EXCEPT ![c] = ttySent[c]]
        /\ ttyPending[c] \in Seq(Nat) /\ ttySent[c] \in Seq(Nat)
    BY DEF TerminalsInv, TerminalsTypes
  <1>2. /\ UNCHANGED <<ttyProc, ttyChild, ttyTty, ttyRd, ttyClosed, ttyTimer, ttySession>>
        /\ ttyRd' \in Nat /\ ttyRd <= ttyRd' /\ ttyRd' <= ttyTty
        /\ ttyResult' \in [TerminalsClients -> TerminalsResults]
        /\ \A d \in TerminalsClients : ttyResult'[d] = "internal" => ~Terminals!HasTerminal
    BY DEF Terminals!server, TerminalsInv, TerminalsTypes, TerminalsOver
  <1>3. /\ Len(ttyPending[c]) < TerminalsMaxChunk /\ Len(ttySent[c]) \in Nat
        /\ \A i, j \in 1..Len(TerminalsLine(c)) : i < j => TerminalsLine(c)[i] < TerminalsLine(c)[j]
    BY TerminalsClientTypes DEF TerminalsInv, TerminalsLines
  <1>4. ttyRd + 1..ttyRd' = {}
    BY <1>2
  <1>5. /\
             \A i \in 1..Len(TerminalsLine(c)) :
               TerminalsLine(c)[i] \in TerminalsBytes(c) \cup ttyRd + 1..ttyRd'
        /\ \A b \in TerminalsBytes(c) \cup ttyRd + 1..ttyRd' : \E i \in 1..Len(TerminalsLine(c)) :
             b = TerminalsLine(c)[i]
    BY <1>4 DEF TerminalsBytes
  <1>6. PICK s \in Seq(Nat), p \in Seq(Nat) : s = ttySent[c] /\ p = ttyPending[c]
    BY <1>1
  <1>7. TerminalsLine(c) = s \o p
    BY <1>6 DEF TerminalsLine
  <1>8. /\ to # "ended" /\ Len(ttySent[c]) <= Len(s) /\ Len(p) < TerminalsMaxChunk
        /\ ttyPending' = [ttyPending EXCEPT ![c] = p] /\ ttySent' = [ttySent EXCEPT ![c] = s]
        /\ to \in {"read", "check", "tick", "fail", "ended"}
    <2>1. Len(ttySent[c]) <= Len(s) /\ Len(p) < TerminalsMaxChunk
      BY <1>3, <1>6
    <2>2. ttyPending' = [ttyPending EXCEPT ![c] = p] /\ ttySent' = [ttySent EXCEPT ![c] = s]
      BY <1>1, <1>6, Zenon
    <2>3. QED
      BY <2>1, <2>2
  <1>9. /\ \A i, j \in 1..Len(s \o p) : i < j => (s \o p)[i] < (s \o p)[j]
        /\ \A i \in 1..Len(s \o p) : (s \o p)[i] \in TerminalsBytes(c) \cup ttyRd + 1..ttyRd'
        /\ \A b \in TerminalsBytes(c) \cup ttyRd + 1..ttyRd' : \E i \in 1..Len(s \o p) :
             b = (s \o p)[i]
    BY <1>3, <1>5, <1>7
  <1>10. QED
    BY <1>2, <1>8, <1>9, TerminalsCallInv, Zenon

\* A call that flushes what is pending.
LEMMA TerminalsFlushInv ==
    ASSUME TerminalsBounds, TerminalsInv, NEW c \in TerminalsClients, NEW to \in {"tick", "ended"},
           ttyCall' = [ttyCall EXCEPT ![c] = to], Terminals!Flush(c),
             ttyResult' \in [TerminalsClients -> TerminalsResults],
           \A d \in TerminalsClients : ttyResult'[d] = "internal" => ~Terminals!HasTerminal,
           UNCHANGED <<Terminals!server, Terminals!clients>>, ttyCall[c] \notin {"none", "ended"}
    PROVE  TerminalsInv'
  <1>1. PICK s \in Seq(Nat) :
           s = IF Terminals!Connected(c) THEN ttySent[c] \o ttyPending[c] ELSE ttySent[c]
    <2>1. ttySent[c] \in Seq(Nat) /\ ttySent[c] \o ttyPending[c] \in Seq(Nat)
      BY TerminalsClientTypes DEF TerminalsInv, TerminalsLine
    <2>2. QED
      BY <2>1
  <1>2. ttyPending' = [ttyPending EXCEPT ![c] = <<>>] /\ ttySent' = [ttySent EXCEPT ![c] = s]
    BY <1>1 DEF Terminals!Flush
  <1>3. /\ <<>> \in Seq(Nat) /\ s \o <<>> = s
        /\ Len(ttySent[c]) <= Len(s) /\ Len(<<>>) < TerminalsMaxChunk
        /\ \A i \in 1..Len(s) : i \in 1..Len(TerminalsLine(c)) /\ s[i] = TerminalsLine(c)[i]
    <2>1. <<>> \in Seq(Nat) /\ s \o <<>> = s /\ Len(<<>>) < TerminalsMaxChunk
      BY ConcatEmptySeq DEF TerminalsBounds
    <2>2. CASE Terminals!Connected(c)
      <3>1. s = TerminalsLine(c)
        BY <1>1, <2>2 DEF TerminalsLine
      <3>2. Len(ttySent[c]) <= Len(TerminalsLine(c))
        BY TerminalsClientTypes, Zenon DEF TerminalsInv
      <3>3. QED
        BY <2>1, <3>1, <3>2
    <2>3. CASE ~Terminals!Connected(c)
      <3>1. s = ttySent[c]
        BY <1>1, <2>3
      <3>2. /\ Len(ttySent[c]) \in Nat
            /\ \A i \in 1..Len(ttySent[c]) : i \in 1..Len(TerminalsLine(c)) /\
                 ttySent[c][i] = TerminalsLine(c)[i]
        BY TerminalsClientTypes, Zenon DEF TerminalsInv
      <3>3. QED
        BY <2>1, <3>1, <3>2
    <2>4. QED
      BY <2>2, <2>3
  <1>4. /\ UNCHANGED <<ttyProc, ttyChild, ttyTty, ttyRd, ttyClosed, ttyTimer, ttySession>>
        /\ ttyRd' \in Nat /\ ttyRd <= ttyRd' /\ ttyRd' <= ttyTty
    BY DEF Terminals!server, TerminalsInv, TerminalsTypes
  <1>5. ttyRd + 1..ttyRd' = {}
    BY <1>4
  <1>6. \A i, j \in 1..Len(s) : i < j => s[i] < s[j]
    BY <1>3 DEF TerminalsInv, TerminalsLines
  <1>7. \A i \in 1..Len(s) : s[i] \in TerminalsBytes(c) \cup ttyRd + 1..ttyRd'
    BY <1>3 DEF TerminalsBytes
  <1>8. ASSUME ttyCmd[c] \in {"start", "pump"}, NEW b \in TerminalsBytes(c) \cup ttyRd + 1..ttyRd'
        PROVE  \E i \in 1..Len(s) : b = s[i]
    <2>1. Terminals!Connected(c)
      BY <1>8 DEF Terminals!Connected, TerminalsInv, TerminalsLines
    <2>2. QED
      BY <1>1, <1>5, <1>8, <2>1 DEF TerminalsBytes, TerminalsLine
  <1>9. PICK p \in Seq(Nat) : p = <<>>
    BY <1>3
  <1>10. /\ ttyPending' = [ttyPending EXCEPT ![c] = p] /\ s \o p = s /\ Len(p) < TerminalsMaxChunk
         /\ to # "fail" /\ to \in {"read", "check", "tick", "fail", "ended"}
    BY <1>2, <1>3, <1>9
  <1>11. UNCHANGED <<ttyProc, ttyChild, ttyTty, ttyClosed, ttyTimer, ttySession, Terminals!clients>>
    BY <1>4
  <1>12. /\ \A i, j \in 1..Len(s \o p) : i < j => (s \o p)[i] < (s \o p)[j]
         /\ \A i \in 1..Len(s \o p) : (s \o p)[i] \in TerminalsBytes(c) \cup ttyRd + 1..ttyRd'
         /\ ttyCmd[c] \in {"start", "pump"} =>
               \A b \in TerminalsBytes(c) \cup ttyRd + 1..ttyRd' : \E i \in 1..Len(s \o p) :
                 b = (s \o p)[i]
    BY <1>6, <1>7, <1>8, <1>10
  <1>13. QED
    BY <1>2, <1>3, <1>4, <1>9, <1>10, <1>11, <1>12, TerminalsCallInv, ZenonT(60)

\* A call begins, if the session is still there.
LEMMA TerminalsStreamPTYInv == ASSUME TerminalsBounds, TerminalsInv, NEW c \in TerminalsClients,
  Terminals!StreamPTY(c) PROVE TerminalsInv'
  <1>1. /\ ttyCmd[c] = "start" /\ ttyCmd' = [ttyCmd EXCEPT ![c] = "pump"]
        /\ UNCHANGED <<Terminals!server, ttyPending, ttySent, ttyRecv, ttyGot, ttyGiven,
             ttyPrinted, ttyWhy>>
    BY DEF Terminals!StreamPTY
  <1>2. PICK to \in {"read", "ended"} : ttyCall' = [ttyCall EXCEPT ![c] = to]
    BY Zenon DEF Terminals!StreamPTY
  <1>3. ttyResult' \in [TerminalsClients -> TerminalsResults] /\
          \A d \in TerminalsClients : ttyResult'[d] = "internal" => ~Terminals!HasTerminal
    <2>1. "not found" \in TerminalsResults /\ "not found" # "internal"
      BY Zenon DEF TerminalsResults
    <2>2. ttyResult' = [ttyResult EXCEPT ![c] = "not found"] \/ ttyResult' = ttyResult
      BY Zenon DEF Terminals!StreamPTY
    <2>3. QED
      BY <2>1, <2>2 DEF TerminalsInv, TerminalsTypes, TerminalsOver
  <1>4. UNCHANGED <<ttyProc, ttyChild, ttyTty, ttyRd, ttyClosed, ttyTimer, ttySession>>
    BY <1>1 DEF Terminals!server
  <1>5. /\ ttyCmd' \in [TerminalsClients -> {"start", "pump", "closing", "closePTY", "done"}]
        /\ ttyCall' \in [TerminalsClients -> {"none", "read", "check", "tick", "fail", "ended"}]
        /\ ttyCmd'[c] = "pump" /\ ttyCall'[c] = to
        /\ \A d \in TerminalsClients : d # c => ttyCmd'[d] = ttyCmd[d] /\ ttyCall'[d] = ttyCall[d]
    BY <1>1, <1>2 DEF TerminalsInv, TerminalsTypes
  <1>6. ttyCall[c] = "none" /\ ttyPending[c] = <<>>
    BY <1>1 DEF TerminalsInv, TerminalsLines
  <1>7. TerminalsTypes'
    BY <1>1, <1>3, <1>4, <1>5 DEF TerminalsInv, TerminalsTypes
  <1>8. TerminalsOver'
    <2>1. Terminals!HasTerminal' <=> Terminals!HasTerminal
      BY <1>4 DEF Terminals!HasTerminal
    <2>2. \A d \in TerminalsClients : ttyCall'[d] = "fail" => ttyCall[d] = "fail"
      BY <1>5
    <2>3. QED
      BY <1>3, <1>4, <2>1, <2>2 DEF TerminalsInv, TerminalsOver
  <1>9. TerminalsLines'
    <2>1. \A d \in TerminalsClients : ttyCall'[d] \in {"none", "ended"} => ttyPending[d] = <<>>
      BY <1>5, <1>6 DEF TerminalsInv, TerminalsLines
    <2>2. \A d \in TerminalsClients : ttyCall'[d] = "none" <=> ttyCmd'[d] = "start"
      BY <1>5 DEF TerminalsInv, TerminalsLines
    <2>3. \A d \in TerminalsClients : ttyCmd'[d] \in {"start", "pump"} =>
            ttyCmd[d] \in {"start", "pump"}
      BY <1>1, <1>5
    <2>4. QED
      BY <1>1, <1>4, <2>1, <2>2, <2>3, TerminalsSameLines DEF TerminalsInv
  <1>10. TerminalsAttached'
    <2>1. \A d \in TerminalsClients : Len(ttySent'[d]) \in Nat /\
            Len(ttySent[d]) <= Len(ttySent'[d])
      BY <1>1, TerminalsClientTypes DEF TerminalsInv
    <2>2. QED
      BY <1>1, <1>5, <1>6, <2>1, TerminalsSameAttached DEF TerminalsInv
  <1>11. QED
    BY <1>7, <1>8, <1>9, <1>10 DEF TerminalsInv

\* How much of n bytes fills whole chunks.
LEMMA TerminalsWholeChunks ==
    ASSUME TerminalsBounds, NEW n \in Nat
    PROVE  /\ (n \div TerminalsMaxChunk) * TerminalsMaxChunk \in Nat
           /\ (n \div TerminalsMaxChunk) * TerminalsMaxChunk <= n /\
                n - (n \div TerminalsMaxChunk) * TerminalsMaxChunk < TerminalsMaxChunk
  BY DEF TerminalsBounds

\* A part of a rising sequence rises.
LEMMA TerminalsPartRises ==
    ASSUME NEW s \in Seq(Nat), NEW all \in Seq(Nat), NEW out \in 0..Len(all),
           NEW p \in Seq(Nat), Len(p) = Len(all) - out,
           \A i \in 1..Len(p) : p[i] = all[out + i],
           \A i, j \in 1..Len(s \o all) : i < j => (s \o all)[i] < (s \o all)[j]
    PROVE  /\ \A i, j \in 1..Len(s \o p) : i < j => (s \o p)[i] < (s \o p)[j]
           /\ \A i \in 1..Len(s \o p) : \E k \in 1..Len(s \o all) : (s \o p)[i] = (s \o all)[k]
  <1>1. /\ Len(s \o p) = Len(s) + Len(p) /\ Len(s) \in Nat /\ Len(p) \in Nat
        /\ \A i \in 1..Len(s) : (s \o p)[i] = s[i]
        /\ \A i \in 1..Len(p) : (s \o p)[Len(s) + i] = p[i]
        /\ \A i \in 1..Len(s \o p) :
              i \in 1..Len(s) \/ (i - Len(s) \in 1..Len(p) /\ i = Len(s) + (i - Len(s)))
    BY TerminalsJoined
  <1>2. /\ Len(s \o all) = Len(s) + Len(all) /\ Len(all) \in Nat /\ out \in Nat
        /\ \A i \in 1..Len(s) : (s \o all)[i] = s[i]
        /\ \A i \in 1..Len(all) : (s \o all)[Len(s) + i] = all[i]
    BY TerminalsJoined
  <1>3. ASSUME NEW i \in 1..Len(s \o p), i \notin 1..Len(s)
        PROVE  /\ i > Len(s) /\ i + out \in 1..Len(s \o all)
               /\ (s \o p)[i] = (s \o all)[i + out]
    <2>1. PICK k \in 1..Len(p) : i = Len(s) + k
      BY <1>1, <1>3
    <2>2. (s \o p)[i] = all[out + k]
      BY <1>1, <2>1
    <2>3. out + k \in 1..Len(all) /\ Len(s) + (out + k) = i + out
      BY <1>1, <1>2, <2>1
    <2>4. (s \o all)[Len(s) + (out + k)] = all[out + k]
      BY <1>2, <2>3
    <2>5. i > Len(s) /\ i + out \in 1..Len(s \o all)
      BY <1>1, <1>2, <2>1, <2>3
    <2>6. QED
      BY <2>2, <2>3, <2>4, <2>5
  <1>4. ASSUME NEW i \in 1..Len(s) PROVE i \in 1..Len(s \o all) /\ (s \o p)[i] = (s \o all)[i]
    BY <1>1, <1>2
  <1>5. ASSUME NEW i \in 1..Len(s \o p)
    PROVE \E k \in 1..Len(s \o all) : (s \o p)[i] = (s \o all)[k]
    BY <1>3, <1>4
  <1>6. ASSUME NEW i \in 1..Len(s \o p), NEW j \in 1..Len(s \o p), i < j
        PROVE  (s \o p)[i] < (s \o p)[j]
    <2>1. i \in Nat /\ j \in Nat
      BY <1>1
    <2>2. CASE i \in 1..Len(s) /\ j \in 1..Len(s)
      BY <1>4, <1>6, <2>2
    <2>3. CASE i \in 1..Len(s) /\ j \notin 1..Len(s)
      <3>1. i < j + out
        BY <1>2, <1>6, <2>1
      <3>2. QED
        BY <1>3, <1>4, <2>3, <3>1
    <2>4. CASE i \notin 1..Len(s)
      <3>1. j \notin 1..Len(s)
        BY <1>3, <1>6, <2>1, <2>4, <1>1
      <3>2. i + out < j + out
        BY <1>2, <1>6, <2>1
      <3>3. QED
        BY <1>3, <2>4, <3>1, <3>2
    <2>5. QED
      BY <2>2, <2>3, <2>4
  <1>7. QED
    BY <1>5, <1>6

\* A call reads, and sends what fills whole chunks.
LEMMA TerminalsReadDataInv == ASSUME TerminalsBounds, TerminalsInv, NEW c \in TerminalsClients,
  Terminals!ReadData(c) PROVE TerminalsInv'
  <1>1. /\ ttyCall[c] = "read" /\ ttySession = "live" /\ ttyRd < ttyTty
        /\ ttyCall' = [ttyCall EXCEPT ![c] = "check"]
        /\ UNCHANGED <<ttyProc, ttyChild, ttyTty, ttyClosed, ttyTimer, ttySession, ttyResult,
             Terminals!clients>>
    BY DEF Terminals!ReadData
  <1>2. PICK n \in 1..(ttyTty - ttyRd) :
           LET all == ttyPending[c] \o [i \in 1..n |-> ttyRd + i]
               out == IF Len(all) >= TerminalsMaxChunk
                        THEN (Len(all) \div TerminalsMaxChunk) * TerminalsMaxChunk ELSE 0
           IN
               /\ ttyRd' = ttyRd + n
               /\ ttyPending' = [ttyPending EXCEPT ![c] = SubSeq(all, out + 1, Len(all))]
               /\ ttySent' = [ttySent EXCEPT ![c] = IF Terminals!Connected(c) THEN @ \o SubSeq(all,
                    1, out) ELSE @]
    BY DEF Terminals!ReadData
  <1>3. ttyRd \in Nat /\ ttyTty \in Nat /\ n \in Nat
    BY DEF TerminalsInv, TerminalsTypes
  <1>4. PICK new \in Seq(Nat) : new = [i \in 1..n |-> ttyRd + i]
    <2>1. [i \in 1..n |-> ttyRd + i] \in Seq(Nat)
      BY <1>3
    <2>2. QED
      BY <2>1
  <1>5. Len(new) = n /\ \A i \in 1..n : new[i] = ttyRd + i
    BY <1>3, <1>4
  <1>6. PICK all \in Seq(Nat) : all = ttyPending[c] \o new
    <2>1. ttyPending[c] \o new \in Seq(Nat)
      BY TerminalsClientTypes, TerminalsJoined DEF TerminalsInv
    <2>2. QED
      BY <2>1
  <1>7. PICK out \in 0..Len(all) :
           /\ out =
                IF Len(all) >= TerminalsMaxChunk
                  THEN (Len(all) \div TerminalsMaxChunk) * TerminalsMaxChunk ELSE 0
           /\ Len(all) - out < TerminalsMaxChunk
    <2>1. Len(all) \in Nat
      OBVIOUS
    <2>2. QED
      BY <2>1, TerminalsWholeChunks, SMTT(60) DEF TerminalsBounds
  <1>8. PICK p \in Seq(Nat) : p = SubSeq(all, out + 1, Len(all))
    <2>1. SubSeq(all, out + 1, Len(all)) \in Seq(Nat)
      <3>1. out + 1 \in Int /\ Len(all) \in Int /\ \A i \in out + 1..Len(all) : all[i] \in Nat
        OBVIOUS
      <3>2. QED
        BY <3>1, SubSeqProperties
    <2>2. QED
      BY <2>1
  <1>9. PICK s \in Seq(Nat) : s = IF Terminals!Connected(c) THEN ttySent[c] \o SubSeq(all, 1,
          out) ELSE ttySent[c]
    <2>1. SubSeq(all, 1, out) \in Seq(Nat)
      <3>1. 1 \in Int /\ out \in Int /\ \A i \in 1..out : all[i] \in Nat
        OBVIOUS
      <3>2. QED
        BY <3>1, SubSeqProperties
    <2>2. ttySent[c] \o SubSeq(all, 1, out) \in Seq(Nat) /\ ttySent[c] \in Seq(Nat)
      BY <2>1, TerminalsClientTypes, TerminalsJoined DEF TerminalsInv
    <2>3. QED
      BY <2>2
  <1>10. /\ ttyRd' = ttyRd + n /\ ttyPending' = [ttyPending EXCEPT ![c] = p] /\
              ttySent' = [ttySent EXCEPT ![c] = s]
    BY <1>2, <1>4, <1>6, <1>7, <1>8, <1>9
  <1>11. Len(p) = Len(all) - out /\ \A i \in 1..Len(p) : p[i] = all[out + i]
    BY <1>8
  \* All that the call has read by now.
  <1>12. PICK line \in Seq(Nat) : line = TerminalsLine(c) \o new /\ line = ttySent[c] \o all
    <2>1. ttyPending[c] \in Seq(Nat) /\ ttySent[c] \in Seq(Nat)
      BY TerminalsClientTypes DEF TerminalsInv
    <2>2. (ttySent[c] \o ttyPending[c]) \o new = ttySent[c] \o (ttyPending[c] \o new)
      BY <2>1, TerminalsAssociative, ZenonT(60)
    <2>3. ttySent[c] \o all \in Seq(Nat)
      BY <2>1, TerminalsJoined
    <2>4. QED
      BY <1>6, <2>2, <2>3 DEF TerminalsLine
  <1>13. /\ Len(line) = Len(TerminalsLine(c)) + n /\ Len(TerminalsLine(c)) \in Nat
         /\ \A i \in 1..Len(TerminalsLine(c)) : line[i] = TerminalsLine(c)[i]
         /\ \A i \in 1..n : line[Len(TerminalsLine(c)) + i] = ttyRd + i
    <2>1. TerminalsLine(c) \in Seq(Nat)
      BY TerminalsClientTypes DEF TerminalsInv
    <2>2. QED
      <3>1. /\ Len(TerminalsLine(c) \o new) = Len(TerminalsLine(c)) + Len(new) /\
                 Len(TerminalsLine(c)) \in Nat
            /\ \A i \in 1..Len(TerminalsLine(c)) :
                 (TerminalsLine(c) \o new)[i] = TerminalsLine(c)[i]
            /\ \A i \in 1..Len(new) : (TerminalsLine(c) \o new)[Len(TerminalsLine(c)) + i] = new[i]
        BY <2>1, TerminalsJoined, Zenon
      <3>2. QED
        BY <1>5, <1>12, <3>1
  <1>14. \A i \in 1..Len(line) :
            \/ i \in 1..Len(TerminalsLine(c)) /\ line[i] = TerminalsLine(c)[i] /\
                 line[i] \in 1..ttyRd
            \/ i \in Len(TerminalsLine(c)) + 1..Len(line) /\
                 line[i] = ttyRd + (i - Len(TerminalsLine(c)))
    <2>1. SUFFICES ASSUME NEW i \in 1..Len(line)
                   PROVE  \/ i \in 1..Len(TerminalsLine(c)) /\ line[i] = TerminalsLine(c)[i] /\
                               line[i] \in 1..ttyRd
                          \/ /\ i \in Len(TerminalsLine(c)) + 1..Len(line)
                             /\ line[i] = ttyRd + (i - Len(TerminalsLine(c)))
      OBVIOUS
    <2>2. CASE i \in 1..Len(TerminalsLine(c))
      BY <1>13, <2>2 DEF TerminalsInv, TerminalsLines, TerminalsBytes
    <2>3. CASE i > Len(TerminalsLine(c))
      <3>1. i - Len(TerminalsLine(c)) \in 1..n /\
              Len(TerminalsLine(c)) + (i - Len(TerminalsLine(c))) = i
        BY <1>3, <1>13, <2>3
      <3>2. line[Len(TerminalsLine(c)) + (i - Len(TerminalsLine(c)))] =
              ttyRd + (i - Len(TerminalsLine(c)))
        BY <1>13, <3>1
      <3>3. QED
        BY <1>13, <2>3, <3>1, <3>2
    <2>4. QED
      BY <1>13, <2>2, <2>3
  <1>15. \A i, j \in 1..Len(line) : i < j => line[i] < line[j]
    <2>1. \A i, j \in 1..Len(TerminalsLine(c)) : i < j => TerminalsLine(c)[i] < TerminalsLine(c)[j]
      BY DEF TerminalsInv, TerminalsLines
    <2>2. SUFFICES ASSUME NEW i \in 1..Len(line), NEW j \in 1..Len(line), i < j
                   PROVE  line[i] < line[j]
      OBVIOUS
    <2>3. CASE j \in 1..Len(TerminalsLine(c))
      <3>1. i \in 1..Len(TerminalsLine(c))
        BY <1>13, <2>2, <2>3
      <3>2. QED
        BY <1>13, <2>1, <2>2, <2>3, <3>1
    <2>4. CASE j \notin 1..Len(TerminalsLine(c))
      <3>1. line[j] = ttyRd + (j - Len(TerminalsLine(c))) /\ j > Len(TerminalsLine(c))
        BY <1>3, <1>13, <1>14, <2>4
      <3>2. CASE i \in 1..Len(TerminalsLine(c))
        <4>1. line[i] \in 1..ttyRd
          BY <1>13, <1>14, <3>2, SMTT(60)
        <4>2. QED
          BY <1>3, <1>13, <3>1, <4>1
      <3>3. CASE i \notin 1..Len(TerminalsLine(c))
        <4>1. line[i] = ttyRd + (i - Len(TerminalsLine(c)))
          BY <1>14, <3>3
        <4>2. QED
          BY <1>3, <1>13, <2>2, <3>1, <4>1
      <3>4. QED
        BY <3>2, <3>3
    <2>5. QED
      BY <2>3, <2>4
  <1>16. \A i \in 1..Len(line) : line[i] \in TerminalsBytes(c) \cup ttyRd + 1..ttyRd'
    <2>1. SUFFICES ASSUME NEW i \in 1..Len(line), line[i] \notin TerminalsBytes(c)
                   PROVE  line[i] \in ttyRd + 1..ttyRd'
      OBVIOUS
    <2>2. i \in Len(TerminalsLine(c)) + 1..Len(line) /\
            line[i] = ttyRd + (i - Len(TerminalsLine(c)))
      BY <1>14, <2>1 DEF TerminalsBytes
    <2>3. i - Len(TerminalsLine(c)) \in 1..n /\ ttyRd' = ttyRd + n
      BY <1>3, <1>10, <1>13, <2>2
    <2>4. QED
      BY <1>3, <2>2, <2>3
  <1>17. ASSUME NEW b \in TerminalsBytes(c) \cup ttyRd + 1..ttyRd'
    PROVE \E i \in 1..Len(line) : b = line[i]
    <2>1. CASE b \in TerminalsBytes(c)
      <3>1. PICK i \in 1..Len(TerminalsLine(c)) : b = TerminalsLine(c)[i]
        BY <2>1, Zenon DEF TerminalsBytes
      <3>2. i \in 1..Len(line) /\ line[i] = b
        BY <1>13, <3>1
      <3>3. QED
        BY <3>2
    <2>2. CASE b \in ttyRd + 1..ttyRd'
      <3>1. b - ttyRd \in 1..n
        BY <1>3, <1>10, <2>2
      <3>2. line[Len(TerminalsLine(c)) + (b - ttyRd)] = ttyRd + (b - ttyRd)
        BY <1>13, <3>1
      <3>3. ttyRd + (b - ttyRd) = b /\ Len(TerminalsLine(c)) + (b - ttyRd) \in 1..Len(line)
        BY <1>3, <1>13, <2>2, <3>1
      <3>4. QED
        BY <3>2, <3>3
    <2>3. QED
      BY <1>17, <2>1, <2>2
  <1>18. /\ \A i, j \in 1..Len(s \o p) : i < j => (s \o p)[i] < (s \o p)[j]
         /\ \A i \in 1..Len(s \o p) : (s \o p)[i] \in TerminalsBytes(c) \cup ttyRd + 1..ttyRd'
         /\ Terminals!Connected(c) => s \o p = line
         /\ Len(ttySent[c]) <= Len(s)
    <2>1. CASE Terminals!Connected(c)
      <3>1. PICK head \in Seq(Nat) : head = SubSeq(all, 1, out)
        <4>1. 1 \in Int /\ out \in Int /\ \A i \in 1..out : all[i] \in Nat
          OBVIOUS
        <4>2. SubSeq(all, 1, out) \in Seq(Nat)
          BY <4>1, SubSeqProperties
        <4>3. QED
          BY <4>2
      <3>2. head \o p = all
        <4>1. SubSeq(all, 1, out) \o SubSeq(all, out + 1, Len(all)) = SubSeq(all, 1, Len(all))
          <5>1. 1 \in 1..Len(all) + 1 /\ out \in 1 - 1..Len(all) /\ Len(all) \in out..Len(all)
            OBVIOUS
          <5>2. QED
            BY <5>1, ConcatAdjacentSubSeq
        <4>2. SubSeq(all, 1, Len(all)) = all
          BY SubSeqFull
        <4>3. QED
          BY <1>8, <3>1, <4>1, <4>2
      <3>3. s \o p = ttySent[c] \o (head \o p)
        <4>1. s = ttySent[c] \o head /\ ttySent[c] \in Seq(Nat)
          BY <1>9, <2>1, <3>1, TerminalsClientTypes DEF TerminalsInv
        <4>2. (ttySent[c] \o head) \o p = ttySent[c] \o (head \o p)
          BY <4>1, TerminalsAssociative, ZenonT(60)
        <4>3. QED
          BY <4>1, <4>2
      <3>4. s \o p = line
        BY <1>12, <3>2, <3>3
      <3>5. Len(ttySent[c]) <= Len(s)
        <4>1. s = ttySent[c] \o head /\ ttySent[c] \in Seq(Nat)
          BY <1>9, <2>1, <3>1, TerminalsClientTypes DEF TerminalsInv
        <4>2. Len(s) = Len(ttySent[c]) + Len(head) /\ Len(ttySent[c]) \in Nat /\ Len(head) \in Nat
          BY <4>1, TerminalsJoined
        <4>3. QED
          BY <4>2
      <3>6. QED
        BY <1>15, <1>16, <3>4, <3>5
    <2>2. CASE ~Terminals!Connected(c)
      <3>1. s = ttySent[c] /\ Len(s) \in Nat
        BY <1>9, <2>2
      <3>2. /\ \A i, j \in 1..Len(s \o all) : i < j => (s \o all)[i] < (s \o all)[j]
            /\ s \o all = line
        BY <1>12, <1>15, <3>1
      <3>3. /\ \A i, j \in 1..Len(s \o p) : i < j => (s \o p)[i] < (s \o p)[j]
            /\ \A i \in 1..Len(s \o p) : \E k \in 1..Len(s \o all) : (s \o p)[i] = (s \o all)[k]
        <4>1. s \in Seq(Nat) /\ all \in Seq(Nat) /\ p \in Seq(Nat) /\ out \in 0..Len(all)
          OBVIOUS
        <4>2. /\ Len(p) = Len(all) - out
              /\ \A i \in 1..Len(p) : p[i] = all[out + i]
              /\ \A i, j \in 1..Len(s \o all) : i < j => (s \o all)[i] < (s \o all)[j]
          BY <1>11, <3>2
        <4>3. QED
          BY <4>1, <4>2, TerminalsPartRises, ZenonT(60)
      <3>4. \A i \in 1..Len(s \o p) : (s \o p)[i] \in TerminalsBytes(c) \cup ttyRd + 1..ttyRd'
        BY <1>16, <3>2, <3>3
      <3>5. Len(ttySent[c]) <= Len(s)
        BY <3>1
      <3>6. QED
        BY <2>2, <3>3, <3>4, <3>5
    <2>3. QED
      BY <2>1, <2>2
  <1>19. ttyCmd[c] \in {"start", "pump"} => Terminals!Connected(c)
    BY <1>1 DEF TerminalsInv, TerminalsLines, Terminals!Connected
  <1>20. ttyCmd[c] \in {"start", "pump"} =>
            \A b \in TerminalsBytes(c) \cup ttyRd + 1..ttyRd' : \E i \in 1..Len(s \o p) :
              b = (s \o p)[i]
    BY <1>17, <1>18, <1>19
  <1>21. /\ ttyRd' \in Nat /\ ttyRd <= ttyRd' /\ ttyRd' <= ttyTty /\ Len(p) < TerminalsMaxChunk
         /\ ttyResult' \in [TerminalsClients -> TerminalsResults]
         /\ \A d \in TerminalsClients : ttyResult'[d] = "internal" => ~Terminals!HasTerminal
    BY <1>1, <1>3, <1>7, <1>10, <1>11, SMTT(60) DEF TerminalsInv, TerminalsTypes, TerminalsOver
  <1>22. QED
    BY <1>1, <1>10, <1>18, <1>20, <1>21, TerminalsCallInv

\* Nothing came: what is pending is sent.
LEMMA TerminalsReadTimesOutInv == ASSUME TerminalsBounds, TerminalsInv, NEW c \in TerminalsClients,
  Terminals!ReadTimesOut(c) PROVE TerminalsInv'
  <1>1. /\ ttyCall[c] = "read" /\ ttyCall' = [ttyCall EXCEPT ![c] = "tick"] /\ Terminals!Flush(c)
        /\ UNCHANGED <<Terminals!server, ttyResult, Terminals!clients>>
    BY DEF Terminals!ReadTimesOut
  <1>2. /\ ttyResult' \in [TerminalsClients -> TerminalsResults]
        /\ \A d \in TerminalsClients : ttyResult'[d] = "internal" => ~Terminals!HasTerminal
    BY <1>1 DEF TerminalsInv, TerminalsTypes, TerminalsOver
  <1>3. QED
    BY <1>1, <1>2, TerminalsFlushInv

\* A read fails.
LEMMA TerminalsReadFailsInv == ASSUME TerminalsBounds, TerminalsInv, NEW c \in TerminalsClients,
  Terminals!ReadFails(c) PROVE TerminalsInv'
  <1>1. /\ ttyCall[c] = "read" /\ ttyCall' = [ttyCall EXCEPT ![c] = "fail"]
        /\ UNCHANGED <<Terminals!server, ttyPending, ttySent, ttyResult, Terminals!clients>>
    BY DEF Terminals!ReadFails
  <1>2. ttyClosed = "closed" \/ ~Terminals!HasTerminal
    BY DEF Terminals!ReadFails, TerminalsInv, TerminalsOver, TerminalsTypes
  <1>3. QED
    BY <1>1, <1>2, TerminalsQuietInv

\* The select after a read.
LEMMA TerminalsCheckInv == ASSUME TerminalsBounds, TerminalsInv, NEW c \in TerminalsClients,
  Terminals!Check(c) PROVE TerminalsInv'
  <1>1. ttyCall[c] \in {"check", "tick", "fail"} /\
          UNCHANGED <<Terminals!server, Terminals!clients>>
    BY Zenon DEF Terminals!Check
  <1>2. \/ /\ ttyCall' = [ttyCall EXCEPT ![c] = "read"] /\
                UNCHANGED <<ttyPending, ttySent, ttyResult>>
        \/ Terminals!Ends(c, "canceled") \/ Terminals!Ends(c, "ok")
        \/ Terminals!Ends(c, "internal") /\ ttyCall[c] = "fail" /\ ttyClosed = "open"
    BY Zenon DEF Terminals!Check
  <1>3. CASE ttyCall' = [ttyCall EXCEPT ![c] = "read"] /\
               UNCHANGED <<ttyPending, ttySent, ttyResult>>
    BY <1>1, <1>3, TerminalsQuietInv
  <1>4. ASSUME NEW r \in {"canceled", "ok", "internal"}, Terminals!Ends(c, r), r = "internal" =>
                 ~Terminals!HasTerminal
        PROVE  TerminalsInv'
    <2>1. /\ Terminals!Flush(c) /\ ttyCall' = [ttyCall EXCEPT ![c] = "ended"]
          /\ ttyResult' = [ttyResult EXCEPT ![c] = r]
      BY <1>4 DEF Terminals!Ends
    <2>2. r \in TerminalsResults
      BY Zenon DEF TerminalsResults
    <2>3. /\ ttyResult' \in [TerminalsClients -> TerminalsResults]
          /\ \A d \in TerminalsClients : ttyResult'[d] = "internal" => ~Terminals!HasTerminal
      BY <1>4, <2>1, <2>2 DEF TerminalsInv, TerminalsTypes, TerminalsOver
    <2>4. QED
      BY <1>1, <2>1, <2>3, TerminalsFlushInv
  <1>5. CASE Terminals!Ends(c, "canceled")
    BY <1>4, <1>5
  <1>6. CASE Terminals!Ends(c, "ok")
    BY <1>4, <1>6
  <1>7. CASE Terminals!Ends(c, "internal") /\ ttyCall[c] = "fail" /\ ttyClosed = "open"
    <2>1. ~Terminals!HasTerminal
      BY <1>7 DEF TerminalsInv, TerminalsOver
    <2>2. QED
      BY <1>4, <1>7, <2>1
  <1>8. QED
    BY <1>2, <1>3, <1>5, <1>6, <1>7

-----------------------------------------------------------------------------
\* A step of one attach command.
LEMMA TerminalsClientInv ==
    ASSUME TerminalsInv, NEW c \in TerminalsClients, UNCHANGED <<Terminals!server,
             Terminals!calls>>,
           ttyCmd' \in [TerminalsClients -> {"start", "pump", "closing", "closePTY", "done"}],
           ttyRecv' \in [TerminalsClients -> {"recv", "write", "end"}],
           ttyGot' \in [TerminalsClients -> Nat], ttyGiven' \in [TerminalsClients -> Nat],
             ttyPrinted' \in [TerminalsClients -> Nat],
           ttyWhy' \in [TerminalsClients -> TerminalsReasons],
           \A d \in TerminalsClients : d # c =>
              /\ ttyCmd'[d] = ttyCmd[d] /\ ttyRecv'[d] = ttyRecv[d] /\ ttyGot'[d] = ttyGot[d]
              /\ ttyGiven'[d] = ttyGiven[d] /\ ttyPrinted'[d] = ttyPrinted[d] /\
                   ttyWhy'[d] = ttyWhy[d],
           ttyCmd[c] # "start", ttyCmd'[c] # "start", ttyCmd'[c] = "pump" => ttyCmd[c] = "pump",
           ttyPrinted'[c] <= ttyGiven'[c], ttyGiven'[c] <= ttyGot'[c],
             ttyGot'[c] <= Len(ttySent[c]),
           ttyCmd'[c] = "pump" /\ ttyRecv'[c] # "write" => ttyGiven'[c] = ttyGot'[c],
           ttyCmd'[c] = "pump" /\ ttyRecv'[c] = "end" =>
             ttyCall[c] = "ended" /\ ttyGot'[c] = Len(ttySent[c]),
           ttyWhy'[c] = "stream" =>
              /\ ttyRecv'[c] = "end" /\ ttyCall[c] = "ended" /\ ttyGiven'[c] = ttyGot'[c]
              /\ ttyGot'[c] = Len(ttySent[c]) /\ ttyCmd'[c] # "pump"
              /\ ttyCmd'[c] \in {"closePTY", "done"} => ttyPrinted'[c] = ttyGiven'[c]
    PROVE  TerminalsInv'
  <1>1. UNCHANGED <<ttyProc, ttyChild, ttyTty, ttyRd, ttyClosed, ttyTimer, ttySession, ttyCall,
          ttyPending, ttySent, ttyResult>>
    BY DEF Terminals!server, Terminals!calls
  <1>2. TerminalsTypes'
    BY <1>1 DEF TerminalsInv, TerminalsTypes
  <1>3. TerminalsOver'
    BY <1>1 DEF TerminalsInv, TerminalsOver, Terminals!HasTerminal
  <1>4. TerminalsLines'
    <2>1. \A d \in TerminalsClients : ttyCall'[d] \in {"none", "ended"} => ttyPending[d] = <<>>
      BY <1>1 DEF TerminalsInv, TerminalsLines
    <2>2. \A d \in TerminalsClients : ttyCall'[d] = "none" <=> ttyCmd'[d] = "start"
      BY <1>1 DEF TerminalsInv, TerminalsLines
    <2>3. \A d \in TerminalsClients : ttyCmd'[d] \in {"start", "pump"} =>
            ttyCmd[d] \in {"start", "pump"}
      OBVIOUS
    <2>4. QED
      BY <1>1, <2>1, <2>2, <2>3, TerminalsSameLines DEF TerminalsInv
  <1>5. TerminalsAttached'
    <2>1. SUFFICES ASSUME NEW d \in TerminalsClients
                   PROVE  /\ ttyPrinted'[d] <= ttyGiven'[d] /\ ttyGiven'[d] <= ttyGot'[d]
                          /\ ttyGot'[d] <= Len(ttySent[d])
                          /\ ttyCmd'[d] = "start" => ttyRecv'[d] = "recv"
                          /\ ttyCmd'[d] \in {"start", "pump"} /\ ttyRecv'[d] # "write" =>
                                ttyGiven'[d] = ttyGot'[d]
                          /\ ttyCmd'[d] \in {"start", "pump"} /\ ttyRecv'[d] = "end" =>
                                ttyCall[d] = "ended" /\ ttyGot'[d] = Len(ttySent[d])
                          /\ ttyWhy'[d] = "stream" =>
                                /\ ttyRecv'[d] = "end" /\ ttyCall[d] = "ended" /\
                                     ttyGiven'[d] = ttyGot'[d]
                                /\ ttyGot'[d] = Len(ttySent[d]) /\
                                     ttyCmd'[d] \notin {"start", "pump"}
                                /\ ttyCmd'[d] \in {"closePTY", "done"} =>
                                     ttyPrinted'[d] = ttyGiven'[d]
      BY <1>1 DEF TerminalsAttached
    <2>2. CASE d = c
      BY <2>2
    <2>3. CASE d # c
      <3>1. /\ ttyCmd'[d] = ttyCmd[d] /\ ttyRecv'[d] = ttyRecv[d] /\ ttyGot'[d] = ttyGot[d]
            /\ ttyGiven'[d] = ttyGiven[d] /\ ttyPrinted'[d] = ttyPrinted[d] /\
                 ttyWhy'[d] = ttyWhy[d]
        BY <2>3
      <3>2. /\ ttyPrinted[d] <= ttyGiven[d] /\ ttyGiven[d] <= ttyGot[d] /\
                 ttyGot[d] <= Len(ttySent[d])
            /\ ttyCmd[d] = "start" => ttyRecv[d] = "recv"
            /\ ttyCmd[d] \in {"start", "pump"} /\ ttyRecv[d] # "write" => ttyGiven[d] = ttyGot[d]
            /\ ttyCmd[d] \in {"start", "pump"} /\ ttyRecv[d] = "end" =>
                  ttyCall[d] = "ended" /\ ttyGot[d] = Len(ttySent[d])
            /\ ttyWhy[d] = "stream" =>
                  /\ ttyRecv[d] = "end" /\ ttyCall[d] = "ended" /\ ttyGiven[d] = ttyGot[d]
                  /\ ttyGot[d] = Len(ttySent[d]) /\ ttyCmd[d] \notin {"start", "pump"}
                  /\ ttyCmd[d] \in {"closePTY", "done"} => ttyPrinted[d] = ttyGiven[d]
        BY DEF TerminalsInv, TerminalsAttached
      <3>3. QED
        BY <3>1, <3>2
    <2>4. QED
      BY <2>2, <2>3
  <1>6. QED
    BY <1>2, <1>3, <1>4, <1>5 DEF TerminalsInv

\* What holds of one client.
LEMMA TerminalsHas ==
    ASSUME TerminalsInv, NEW c \in TerminalsClients
    PROVE  /\ ttyPrinted[c] <= ttyGiven[c] /\ ttyGiven[c] <= ttyGot[c] /\
                ttyGot[c] <= Len(ttySent[c])
           /\ ttyCmd[c] = "pump" /\ ttyRecv[c] # "write" => ttyGiven[c] = ttyGot[c]
           /\ ttyCmd[c] = "pump" /\ ttyRecv[c] = "end" =>
                ttyCall[c] = "ended" /\ ttyGot[c] = Len(ttySent[c])
           /\ ttyWhy[c] = "stream" =>
                 /\ ttyRecv[c] = "end" /\ ttyCall[c] = "ended" /\ ttyGiven[c] = ttyGot[c]
                 /\ ttyGot[c] = Len(ttySent[c]) /\ ttyCmd[c] # "pump"
                 /\ ttyCmd[c] \in {"closePTY", "done"} => ttyPrinted[c] = ttyGiven[c]
           /\ Len(ttySent[c]) \in Nat
  BY TerminalsClientTypes DEF TerminalsInv, TerminalsAttached

\* The types of an attach command.
LEMMA TerminalsAttachTypes ==
    ASSUME TerminalsInv
    PROVE  /\ ttyCmd \in [TerminalsClients -> {"start", "pump", "closing", "closePTY", "done"}]
           /\ ttyRecv \in [TerminalsClients -> {"recv", "write", "end"}]
           /\ ttyGot \in [TerminalsClients -> Nat] /\ ttyGiven \in [TerminalsClients -> Nat] /\
                ttyPrinted \in [TerminalsClients -> Nat]
           /\ ttyWhy \in [TerminalsClients -> TerminalsReasons]
  BY DEF TerminalsInv, TerminalsTypes

\* A chunk arrives.
LEMMA TerminalsRecvChunkInv == ASSUME TerminalsBounds, TerminalsInv, NEW c \in TerminalsClients,
  Terminals!RecvChunk(c) PROVE TerminalsInv'
  <1>1. /\ ttyCmd[c] # "done" /\ ttyRecv[c] = "recv" /\ ttyGot[c] < Len(ttySent[c]) /\
             ttyCmd[c] # "start"
        /\ ttyGot' = [ttyGot EXCEPT ![c] = Len(ttySent[c])] /\
             ttyRecv' = [ttyRecv EXCEPT ![c] = "write"]
        /\ UNCHANGED <<Terminals!server, Terminals!calls, ttyCmd, ttyGiven, ttyPrinted, ttyWhy>>
    BY DEF Terminals!RecvChunk
  <1>2. /\ ttyGot' \in [TerminalsClients -> Nat] /\ ttyGot'[c] = Len(ttySent[c]) /\
             ttyRecv'[c] = "write"
        /\ ttyRecv' \in [TerminalsClients -> {"recv", "write", "end"}]
        /\ \A d \in TerminalsClients : d # c => ttyGot'[d] = ttyGot[d] /\ ttyRecv'[d] = ttyRecv[d]
    BY <1>1, TerminalsAttachTypes, TerminalsHas
  <1>3. ttyGiven[c] <= ttyGot'[c] /\ ttyGot'[c] <= Len(ttySent[c])
    <2>1. /\ ttyGiven[c] <= ttyGot[c] /\ ttyGot[c] < Len(ttySent[c]) /\ Len(ttySent[c]) \in Nat
          /\ ttyGiven[c] \in Nat /\ ttyGot[c] \in Nat
      BY <1>1, TerminalsAttachTypes, TerminalsHas
    <2>2. QED
      BY <1>2, <2>1
  <1>4. ttyWhy[c] # "stream" /\ ttyPrinted[c] <= ttyGiven[c]
    BY <1>1, TerminalsHas
  <1>5. QED
    BY <1>1, <1>2, <1>3, <1>4, TerminalsAttachTypes, TerminalsClientInv

\* It is given to the batch writer, which is closed by then if the pump is over.
LEMMA TerminalsWriteBatchInv == ASSUME TerminalsBounds, TerminalsInv, NEW c \in TerminalsClients,
  Terminals!WriteBatch(c) PROVE TerminalsInv'
  <1>1. /\ ttyRecv[c] = "write" /\ ttyRecv' = [ttyRecv EXCEPT ![c] = "recv"]
        /\ UNCHANGED <<Terminals!server, Terminals!calls, ttyGot, ttyPrinted>>
    BY DEF Terminals!WriteBatch
  <1>2. /\ ttyRecv' \in [TerminalsClients -> {"recv", "write", "end"}] /\ ttyRecv'[c] = "recv"
        /\ \A d \in TerminalsClients : d # c => ttyRecv'[d] = ttyRecv[d]
    BY <1>1, TerminalsAttachTypes
  <1>3. /\ ttyPrinted[c] <= ttyGiven[c] /\ ttyGiven[c] <= ttyGot[c] /\ ttyGot[c] <= Len(ttySent[c])
        /\ ttyPrinted[c] <= ttyGot[c] /\ ttyWhy[c] # "stream"
    BY <1>1, TerminalsAttachTypes, TerminalsHas
  <1>4. CASE ttyCmd[c] = "pump"
    <2>1. ttyGiven' = [ttyGiven EXCEPT ![c] = ttyGot[c]] /\ UNCHANGED <<ttyCmd, ttyWhy>>
      BY <1>4, Zenon DEF Terminals!WriteBatch
    <2>2. /\ ttyGiven' \in [TerminalsClients -> Nat] /\ ttyGiven'[c] = ttyGot[c]
          /\ \A d \in TerminalsClients : d # c => ttyGiven'[d] = ttyGiven[d]
      BY <2>1, TerminalsAttachTypes
    <2>3. ttyPrinted[c] <= ttyGiven'[c] /\ ttyGiven'[c] <= ttyGot[c]
      BY <1>3, <2>2, TerminalsAttachTypes
    <2>4. QED
      BY <1>1, <1>2, <1>3, <1>4, <2>1, <2>2, <2>3, TerminalsAttachTypes, TerminalsClientInv
  <1>5. CASE ttyCmd[c] # "pump"
    <2>1. /\ ttyWhy' = [ttyWhy EXCEPT ![c] = "panic"] /\ ttyCmd' = [ttyCmd EXCEPT ![c] = "done"]
          /\ UNCHANGED ttyGiven
      BY <1>5, Zenon DEF Terminals!WriteBatch
    <2>2. "panic" \in TerminalsReasons
      BY Zenon DEF TerminalsReasons
    <2>3. /\ ttyWhy' \in [TerminalsClients -> TerminalsReasons] /\ ttyWhy'[c] = "panic"
          /\ ttyCmd' \in [TerminalsClients -> {"start", "pump", "closing", "closePTY", "done"}]
          /\ ttyCmd'[c] = "done"
          /\ \A d \in TerminalsClients : d # c => ttyWhy'[d] = ttyWhy[d] /\ ttyCmd'[d] = ttyCmd[d]
      BY <2>1, <2>2, TerminalsAttachTypes
    <2>4. ttyCmd[c] # "start"
      BY <1>1 DEF TerminalsInv, TerminalsAttached
    <2>5. QED
      BY <1>1, <1>2, <1>3, <2>1, <2>3, <2>4, TerminalsAttachTypes, TerminalsClientInv
  <1>6. QED
    BY <1>4, <1>5

\* The receiving goroutine ends: with the stream, or because the pump is over.
LEMMA TerminalsRecvEndsInv == ASSUME TerminalsBounds, TerminalsInv, NEW c \in TerminalsClients,
  Terminals!RecvEnds(c) PROVE TerminalsInv'
  <1>1. /\ ttyRecv[c] = "recv" /\ ttyCmd[c] # "done" /\ ttyRecv' = [ttyRecv EXCEPT ![c] = "end"]
        /\ \/ ttyCall[c] = "ended" /\ ttyGot[c] = Len(ttySent[c])
           \/ ttyCmd[c] \in {"closing", "closePTY"}
        /\ UNCHANGED <<Terminals!server, Terminals!calls, ttyCmd, ttyGot, ttyGiven, ttyPrinted,
             ttyWhy>>
    BY DEF Terminals!RecvEnds
  <1>2. ttyCmd[c] # "start"
    <2>1. ttyCall[c] = "ended" => ttyCmd[c] # "start"
      BY DEF TerminalsInv, TerminalsLines
    <2>2. QED
      BY <1>1, <2>1
  <1>3. /\ ttyRecv' \in [TerminalsClients -> {"recv", "write", "end"}] /\ ttyRecv'[c] = "end"
        /\ \A d \in TerminalsClients : d # c => ttyRecv'[d] = ttyRecv[d]
    BY <1>1, TerminalsAttachTypes
  <1>4. /\ ttyPrinted[c] <= ttyGiven[c] /\ ttyGiven[c] <= ttyGot[c] /\ ttyGot[c] <= Len(ttySent[c])
        /\ ttyCmd[c] = "pump" => ttyGiven[c] = ttyGot[c]
        /\ ttyWhy[c] # "stream"
    BY <1>1, TerminalsHas
  <1>5. QED
    BY <1>1, <1>2, <1>3, <1>4, TerminalsAttachTypes, TerminalsClientInv

\* pumpPTY returns, at the end of the stream or before.
LEMMA TerminalsPumpReturnsInv == ASSUME TerminalsBounds, TerminalsInv, NEW c \in TerminalsClients,
  Terminals!PumpReturns(c) PROVE TerminalsInv'
  <1>1. /\ ttyCmd[c] = "pump" /\ ttyCmd' = [ttyCmd EXCEPT ![c] = "closing"]
        /\ UNCHANGED <<Terminals!server, Terminals!calls, ttyRecv, ttyGot, ttyGiven, ttyPrinted>>
    BY Zenon DEF Terminals!PumpReturns
  <1>2. PICK w \in TerminalsReasons :
           ttyWhy' = [ttyWhy EXCEPT ![c] = w] /\ (w = "stream" => ttyRecv[c] = "end")
    BY Zenon DEF Terminals!PumpReturns, TerminalsReasons
  <1>3. /\ ttyWhy' \in [TerminalsClients -> TerminalsReasons] /\ ttyWhy'[c] = w
        /\ ttyCmd' \in [TerminalsClients -> {"start", "pump", "closing", "closePTY", "done"}]
        /\ ttyCmd'[c] = "closing"
        /\ \A d \in TerminalsClients : d # c => ttyWhy'[d] = ttyWhy[d] /\ ttyCmd'[d] = ttyCmd[d]
    BY <1>1, <1>2, TerminalsAttachTypes
  <1>4. /\ ttyPrinted[c] <= ttyGiven[c] /\ ttyGiven[c] <= ttyGot[c] /\ ttyGot[c] <= Len(ttySent[c])
        /\ w = "stream" =>
                           /\ ttyRecv[c] = "end" /\ ttyCall[c] = "ended" /\ ttyGiven[c] = ttyGot[c]
                           /\ ttyGot[c] = Len(ttySent[c])
    BY <1>1, <1>2, TerminalsHas
  <1>5. QED
    BY <1>1, <1>3, <1>4, TerminalsAttachTypes, TerminalsClientInv

\* The batch writer prints the rest.
LEMMA TerminalsCloseWriterInv == ASSUME TerminalsBounds, TerminalsInv, NEW c \in TerminalsClients,
  Terminals!CloseWriter(c) PROVE TerminalsInv'
  <1>1. /\ ttyCmd[c] = "closing" /\ ttyPrinted' = [ttyPrinted EXCEPT ![c] = ttyGiven[c]]
        /\ UNCHANGED <<Terminals!server, Terminals!calls, ttyRecv, ttyGot, ttyGiven, ttyWhy>>
    BY DEF Terminals!CloseWriter
  <1>2. PICK to \in {"closePTY", "done"} : ttyCmd' = [ttyCmd EXCEPT ![c] = to]
    BY DEF Terminals!CloseWriter
  <1>3. /\ ttyCmd' \in [TerminalsClients -> {"start", "pump", "closing", "closePTY", "done"}]
        /\ ttyCmd'[c] = to /\ ttyPrinted' \in [TerminalsClients -> Nat] /\
             ttyPrinted'[c] = ttyGiven[c]
        /\ \A d \in TerminalsClients : d # c =>
             ttyPrinted'[d] = ttyPrinted[d] /\ ttyCmd'[d] = ttyCmd[d]
    BY <1>1, <1>2, TerminalsAttachTypes
  <1>4. /\ ttyPrinted'[c] <= ttyGiven[c] /\ ttyGiven[c] <= ttyGot[c] /\ ttyGot[c] <= Len(ttySent[c])
        /\ ttyWhy[c] = "stream" =>
                                /\ ttyRecv[c] = "end" /\ ttyCall[c] = "ended" /\
                                     ttyGiven[c] = ttyGot[c]
                                /\ ttyGot[c] = Len(ttySent[c])
    BY <1>3, TerminalsAttachTypes, TerminalsHas
  <1>5. QED
    BY <1>1, <1>3, <1>4, TerminalsAttachTypes, TerminalsClientInv

\* Every step keeps the invariant.
LEMMA TerminalsNextInv == TerminalsBounds /\ TerminalsInv /\ [Terminals!Next]_Terminals!vars =>
  TerminalsInv'
  <1>1. SUFFICES ASSUME TerminalsBounds, TerminalsInv, [Terminals!Next]_Terminals!vars
    PROVE TerminalsInv'
    OBVIOUS
  <1>2. CASE Terminals!Process
    BY <1>1, <1>2, TerminalsOutputInv, TerminalsProcessExitsInv,
       TerminalsChildEndsInv DEF Terminals!Process
  <1>3. CASE Terminals!Session
    BY <1>1, <1>3, TerminalsReapInv, TerminalsTimerFiresInv DEF Terminals!Session
  <1>4. ASSUME NEW c \in TerminalsClients, Terminals!Stream(c) PROVE TerminalsInv'
    BY <1>1, <1>4, TerminalsStreamPTYInv, TerminalsReadDataInv, TerminalsReadTimesOutInv,
       TerminalsReadFailsInv, TerminalsCheckInv DEF Terminals!Stream
  <1>5. ASSUME NEW c \in TerminalsClients, Terminals!Attach(c) PROVE TerminalsInv'
    BY <1>1, <1>5, TerminalsRecvChunkInv, TerminalsWriteBatchInv, TerminalsRecvEndsInv,
       TerminalsPumpReturnsInv, TerminalsCloseWriterInv,
       TerminalsClosePTYInv DEF Terminals!Attach
  <1>6. CASE UNCHANGED Terminals!vars
    <2>1. /\ UNCHANGED <<ttyRd, Terminals!calls, ttyRecv, ttyGot, ttyGiven, ttyPrinted, ttyWhy>>
          /\ UNCHANGED <<ttyProc, ttyChild, ttyTty, ttyClosed, ttyTimer, ttySession, ttyCmd>>
      BY <1>6 DEF Terminals!vars, Terminals!server, Terminals!clients
    <2>2. Terminals!HasTerminal' <=> Terminals!HasTerminal
      BY <2>1 DEF Terminals!HasTerminal
    <2>3. QED
      BY <1>1, <2>1, <2>2, TerminalsServerInv DEF TerminalsInv, TerminalsTypes, TerminalsOver
  <1>7. QED
    BY <1>1, <1>2, <1>3, <1>4, <1>5, <1>6 DEF Terminals!Next

\* What it means for the promises.
LEMMA TerminalsMeaning == ASSUME TerminalsBounds
  PROVE TerminalsInv =>
          Terminals!TypeOK /\ Terminals!ReadIsSentOnce /\ Terminals!EndedAttachHasPrinted
  <1>1. SUFFICES ASSUME TerminalsInv
    PROVE Terminals!TypeOK /\ Terminals!ReadIsSentOnce /\ Terminals!EndedAttachHasPrinted
    OBVIOUS
  <1>2. Terminals!TypeOK
    <2>1. \A c \in TerminalsClients :
                             /\ ttyPrinted[c] <= ttyGiven[c] /\ ttyGiven[c] <= ttyGot[c]
                             /\ ttyGot[c] <= Len(ttySent[c]) /\
                                  Len(ttyPending[c]) < TerminalsMaxChunk
      BY <1>1 DEF TerminalsInv, TerminalsAttached, TerminalsLines
    <2>2. {ttyChild, ttyTimer} \subseteq BOOLEAN
      BY <1>1, Zenon DEF TerminalsInv, TerminalsTypes
    <2>3. ttySession # "live" => ttyClosed = "closed"
      BY <1>1 DEF TerminalsInv, TerminalsTypes, TerminalsOver
    <2>4. ttyProc \in {"run", "killed", "exited", "reaped"} /\ ttySession \in {"live", "gone"}
      BY <1>1 DEF TerminalsInv, TerminalsTypes
    <2>5. 0 <= ttyRd /\ ttyRd <= ttyTty /\ ttyTty <= TerminalsMaxOut
      BY <1>1 DEF TerminalsInv, TerminalsTypes
    <2>6. QED
      BY <2>1, <2>2, <2>3, <2>4, <2>5 DEF Terminals!TypeOK
  <1>3. Terminals!ReadIsSentOnce
    <2>1. \A c \in TerminalsClients :
            Range(ttySent[c]) \cup Range(ttyPending[c]) = TerminalsBytes(c)
      <3>1. SUFFICES ASSUME NEW c \in TerminalsClients
                     PROVE  Range(ttySent[c]) \cup Range(ttyPending[c]) = TerminalsBytes(c)
        OBVIOUS
      <3>2. /\ ttySent[c] \in Seq(Nat) /\ ttyPending[c] \in Seq(Nat)
            /\ DOMAIN ttySent[c] = 1..Len(ttySent[c]) /\
                 DOMAIN ttyPending[c] = 1..Len(ttyPending[c])
        BY <1>1 DEF TerminalsInv, TerminalsTypes
      <3>3. /\ TerminalsLine(c) \in Seq(Nat) /\
                 Len(TerminalsLine(c)) = Len(ttySent[c]) + Len(ttyPending[c])
            /\ Len(ttySent[c]) \in Nat /\ Len(ttyPending[c]) \in Nat
            /\ \A i \in 1..Len(ttySent[c]) : i \in 1..Len(TerminalsLine(c)) /\
                 TerminalsLine(c)[i] = ttySent[c][i]
            /\ \A i \in 1..Len(ttyPending[c]) : Len(ttySent[c]) + i \in 1..Len(TerminalsLine(c))
            /\ \A i \in 1..Len(ttyPending[c]) :
                 TerminalsLine(c)[Len(ttySent[c]) + i] = ttyPending[c][i]
            /\ \A i \in 1..Len(TerminalsLine(c)) :
                  \/ i \in 1..Len(ttySent[c])
                  \/ i - Len(ttySent[c]) \in 1..Len(ttyPending[c]) /\
                       i = Len(ttySent[c]) + (i - Len(ttySent[c]))
        BY <3>2, TerminalsJoined, Zenon DEF TerminalsLine
      <3>4. Range(ttySent[c]) \cup Range(ttyPending[c]) \subseteq TerminalsBytes(c)
        <4>1. ASSUME NEW i \in 1..Len(ttySent[c]) PROVE ttySent[c][i] \in TerminalsBytes(c)
          BY <3>3, Zenon DEF TerminalsBytes
        <4>2. ASSUME NEW i \in 1..Len(ttyPending[c]) PROVE ttyPending[c][i] \in TerminalsBytes(c)
          BY <3>3, Zenon DEF TerminalsBytes
        <4>3. QED
          BY <3>2, <4>1, <4>2 DEF Range
      <3>5. TerminalsBytes(c) \subseteq Range(ttySent[c]) \cup Range(ttyPending[c])
        <4>1. SUFFICES ASSUME NEW i \in 1..Len(TerminalsLine(c))
                       PROVE  TerminalsLine(c)[i] \in Range(ttySent[c]) \cup Range(ttyPending[c])
          BY DEF TerminalsBytes
        <4>2. CASE i \in 1..Len(ttySent[c])
          BY <3>2, <3>3, <4>2 DEF Range
        <4>3. CASE i - Len(ttySent[c]) \in 1..Len(ttyPending[c]) /\
                     i = Len(ttySent[c]) + (i - Len(ttySent[c]))
          <5>1. TerminalsLine(c)[i] = ttyPending[c][i - Len(ttySent[c])]
            BY <3>3, <4>3
          <5>2. QED
            BY <3>2, <4>3, <5>1 DEF Range
        <4>4. QED
          BY <3>3, <4>2, <4>3
      <3>6. QED
        BY <3>4, <3>5
    <2>2. \A c, d \in TerminalsClients : c # d =>
             (Range(ttySent[c]) \cup Range(ttyPending[c])) \cap
               (Range(ttySent[d]) \cup Range(ttyPending[d])) = {}
      BY <1>1, <2>1 DEF TerminalsInv, TerminalsLines
    <2>3. \A c \in TerminalsClients : \A i \in 2..Len(ttySent[c] \o ttyPending[c]) :
             (ttySent[c] \o ttyPending[c])[i - 1] < (ttySent[c] \o ttyPending[c])[i]
      <3>1. SUFFICES ASSUME NEW c \in TerminalsClients, NEW i \in 2..Len(TerminalsLine(c))
                     PROVE  TerminalsLine(c)[i - 1] < TerminalsLine(c)[i]
        BY DEF TerminalsLine
      <3>2. Len(TerminalsLine(c)) \in Nat
        BY <1>1, TerminalsClientTypes DEF TerminalsInv
      <3>3. i - 1 \in 1..Len(TerminalsLine(c)) /\ i \in 1..Len(TerminalsLine(c)) /\ i - 1 < i
        BY <3>1, <3>2
      <3>4. QED
        BY <1>1, <3>3 DEF TerminalsInv, TerminalsLines
    <2>4. \A c \in TerminalsClients : ttyCall[c] = "ended" => ttyPending[c] = <<>>
      BY <1>1 DEF TerminalsInv, TerminalsLines
    <2>5. (\A c \in TerminalsClients : ttyCmd[c] \in {"start", "pump"}) =>
             UNION {Range(ttySent[c]) \cup Range(ttyPending[c]) : c \in TerminalsClients} = 1..ttyRd
      <3>1. SUFFICES ASSUME \A c \in TerminalsClients : ttyCmd[c] \in {"start", "pump"}
                     PROVE  UNION {TerminalsBytes(c) : c \in TerminalsClients} = 1..ttyRd
        BY <2>1
      <3>2. /\ \A c \in TerminalsClients : TerminalsBytes(c) \subseteq 1..ttyRd
            /\ \A b \in 1..ttyRd : \E c \in TerminalsClients : b \in TerminalsBytes(c)
        BY <1>1, <3>1 DEF TerminalsInv, TerminalsLines
      <3>3. QED
        BY <3>2
    <2>6. \A s : Terminals!Range(s) = Range(s)
      BY DEF Terminals!Range, Range
    <2>7. QED
      BY <2>2, <2>3, <2>4, <2>5, <2>6, Zenon DEF Terminals!ReadIsSentOnce
  <1>4. Terminals!EndedAttachHasPrinted
    BY <1>1 DEF TerminalsInv, TerminalsOver, TerminalsAttached, Terminals!EndedAttachHasPrinted
  <1>5. QED
    BY <1>2, <1>3, <1>4

(***************************************************************************)
(* Each byte of a terminal goes to one client, in order, and none is kept  *)
(* back; and an attach command whose stream ended has printed all that was *)
(* sent to it (StreamPTY, pumpPTY).                                        *)
(***************************************************************************)
THEOREM TerminalsHold ==
    ASSUME TerminalsBounds
    PROVE  Terminals!Spec =>
             [](Terminals!TypeOK /\ Terminals!ReadIsSentOnce /\ Terminals!EndedAttachHasPrinted)
  <1>1. Terminals!Init => TerminalsInv
    BY TerminalsInitInv
  <1>2. TerminalsInv /\ [Terminals!Next]_Terminals!vars => TerminalsInv'
    BY TerminalsNextInv
  <1>3. TerminalsInv =>
          Terminals!TypeOK /\ Terminals!ReadIsSentOnce /\ Terminals!EndedAttachHasPrinted
    BY TerminalsMeaning
  <1>4. QED
    BY <1>1, <1>2, <1>3, PTL DEF Terminals!Spec
=============================================================================
