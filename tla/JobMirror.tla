----------------------------- MODULE JobMirror ------------------------------
(***************************************************************************)
(* The JetStream mirror of the control plane's store                       *)
(* (internal/control/store/jetstream.go, and Put, AppendLogs and New in    *)
(* store.go) over crashes and restarts of the API process.  Put and        *)
(* AppendLogs change the memory under the mutex and publish afterwards,    *)
(* one event at a time, ignoring errors; New replays both streams before   *)
(* the process serves.  The goroutine that writes a job is SubmitJob and   *)
(* then its dispatch, here with any worker: it stores the job as accepted, *)
(* as running, appends logs, and stores a final state.  Dispatch           *)
(* goroutines die with the process and a restart starts none.              *)
(***************************************************************************)
EXTENDS LogStore

CONSTANTS
    Watched,      \* jobs whose log a client looks at
    MaxLog,       \* bound: chunks logged by all jobs together
    MaxBatch,     \* bound: chunks in one response of the worker
    MaxCrashes,   \* bound: crashes of the API process
    MaxFaults     \* bound: failed publishes and early ends of a replay

VARIABLES
    proc,       \* the process: down, replaying jobs, replaying logs, serving
    wpc,        \* wpc[j]: what the goroutine that writes job j did last
    outbox,     \* outbox[j]: events that goroutine has still to publish
    jobsStream, \* the JetStream stream of JobEvents
    logsStream, \* the JetStream stream of LogEvents
    replayPos,  \* messages of the current stream already replayed
    crashes, faults,
    everLog,    \* history: everLog[j] is every chunk ever appended for j
    shownLog    \* history: shownLog[j] is the longest log a client was shown

mirrorVars == <<proc, wpc, outbox, jobsStream, logsStream, replayPos, crashes, faults>>
history == <<everLog, shownLog>>
vars == <<storeVars, mirrorVars, history>>

JobEvents == [job : Jobs, snapshot : Snapshots, version : Nat]
LogEvents == [job : Jobs, chunk : Chunks]

TypeOK ==
    /\ StoreTypeOK
    /\ proc \in {"down", "jobs", "logs", "serving"}
    /\ wpc \in [Jobs -> {"none", "accepted", "running", "finished", "lost"}]
    /\ outbox \in [Jobs -> Seq(JobEvents \cup LogEvents)]
    /\ jobsStream \in Seq(JobEvents)
    /\ logsStream \in Seq(LogEvents)
    /\ replayPos \in Nat /\ crashes \in 0..MaxCrashes /\ faults \in 0..MaxFaults
    /\ everLog \in [Jobs -> Seq(Chunks)]
    /\ shownLog \in [Jobs -> Seq(Chunks)]

Init ==
    /\ StoreInit
    /\ proc = "down"
    /\ wpc = [j \in Jobs |-> "none"]
    /\ outbox = [j \in Jobs |-> <<>>]
    /\ jobsStream = <<>> /\ logsStream = <<>>
    /\ replayPos = 0 /\ crashes = 0 /\ faults = 0
    /\ everLog = [j \in Jobs |-> <<>>]
    /\ shownLog = [j \in Jobs |-> <<>>]

-----------------------------------------------------------------------------
(* Writing a job.                                                          *)

\* The goroutine is not in the middle of publishing.
Ready(j, pc) == proc = "serving" /\ wpc[j] = pc /\ outbox[j] = <<>>

\* Put: change the memory, then publish the snapshot under its new version.
PutJob(j, snapshot, pc) ==
    /\ Put(j, snapshot)
    /\ wpc' = [wpc EXCEPT ![j] = pc]
    /\ outbox' = [outbox EXCEPT ![j] = <<[job |-> j, snapshot |-> snapshot,
                                          version |-> jobVersions[j] + 1]>>]
    /\ UNCHANGED <<proc, jobsStream, logsStream, replayPos, crashes, faults, history>>

SubmitJob(j) ==
    /\ Ready(j, "none")
    /\ PutJob(j, [state |-> "accepted", exitCode |-> 0], "accepted")

DispatchStart(j) ==
    /\ Ready(j, "accepted")
    /\ PutJob(j, [jobs[j] EXCEPT !.state = "running"], "running")

\* Mutant: the final snapshot does not wait for the chunks to be published.
DispatchFinish_Overtakes(j, state) ==
    LET final == [jobs[j] EXCEPT !.state = state] IN
    /\ proc = "serving" /\ wpc[j] = "running"
    /\ Put(j, final)
    /\ wpc' = [wpc EXCEPT ![j] = "finished"]
    /\ outbox' = [outbox EXCEPT ![j] = <<[job |-> j, snapshot |-> final,
                                          version |-> jobVersions[j] + 1]>> \o @]
    /\ UNCHANGED <<proc, jobsStream, logsStream, replayPos, crashes, faults, history>>

DispatchFinish(j, state) ==
    /\ Ready(j, "running")
    /\ PutJob(j, [jobs[j] EXCEPT !.state = state], "finished")

\* The chunks of all jobs, which MaxLog bounds.
Appended == Cardinality(UNION {{k} \X DOMAIN everLog[k] : k \in Jobs})

\* AppendLogs: change the memory, broadcast, then publish chunk by chunk.
DispatchLogs(j, n) ==
    LET ls == [i \in 1..n |-> <<"stdout", Len(everLog[j]) + i>>] IN
    /\ Ready(j, "running")
    /\ Appended + n <= MaxLog
    /\ AppendLogs(j, ls)
    /\ outbox' = [outbox EXCEPT ![j] = [i \in 1..n |-> [job |-> j, chunk |-> Stamped(j, ls)[i]]]]
    /\ everLog' = [everLog EXCEPT ![j] = @ \o Stamped(j, ls)]
    /\ UNCHANGED <<proc, wpc, jobsStream, logsStream, replayPos, crashes, faults, shownLog>>

\* publishJob and publishLog.
Publish(j) ==
    /\ proc = "serving" /\ outbox[j] # <<>>
    /\ LET event == Head(outbox[j]) IN
         IF "snapshot" \in DOMAIN event
           THEN jobsStream' = Append(jobsStream, event) /\ UNCHANGED logsStream
           ELSE logsStream' = Append(logsStream, event) /\ UNCHANGED jobsStream
    /\ outbox' = [outbox EXCEPT ![j] = Tail(@)]
    /\ UNCHANGED <<storeVars, proc, wpc, replayPos, crashes, faults, history>>

\* A failed publish is logged and forgotten.
PublishFails(j) ==
    /\ proc = "serving" /\ outbox[j] # <<>> /\ faults < MaxFaults
    /\ faults' = faults + 1
    /\ outbox' = [outbox EXCEPT ![j] = Tail(@)]
    /\ UNCHANGED <<storeVars, proc, wpc, jobsStream, logsStream, replayPos, crashes, history>>

\* A client is shown the job's log (Logs, or the broadcast of AppendLogs).
ShowLog(j) ==
    /\ proc = "serving"
    /\ j \in Watched /\ Len(logs[j]) > Len(shownLog[j])
    /\ shownLog' = [shownLog EXCEPT ![j] = logs[j]]
    /\ UNCHANGED <<storeVars, mirrorVars, everLog>>

-----------------------------------------------------------------------------
(* Crash, restart and replay.                                              *)

\* The memory and every goroutine are gone.
Stop ==
    /\ jobs' = [j \in Jobs |-> [state |-> "absent", exitCode |-> 0]]
    /\ jobVersions' = [j \in Jobs |-> 0]
    /\ logs' = [j \in Jobs |-> <<>>]
    /\ logOffsets' = [j \in Jobs |-> 0]
    /\ UNCHANGED <<logSubs, logCh, chOpen, inflight>>
    /\ proc' = "down"
    /\ wpc' = [j \in Jobs |-> IF wpc[j] \in {"accepted", "running"} THEN "lost" ELSE wpc[j]]
    /\ outbox' = [j \in Jobs |-> <<>>]
    /\ replayPos' = 0
    /\ UNCHANGED <<jobsStream, logsStream, history>>

Crash ==
    /\ proc # "down" /\ crashes < MaxCrashes
    /\ crashes' = crashes + 1
    /\ Stop
    /\ UNCHANGED faults

\* New: connect, make sure of the streams (which keeps what they hold), and start the
\* replay of the jobs; without a connection the process exits and somebody restarts it.
Restart ==
    /\ proc = "down"
    /\ proc' = "jobs"
    /\ UNCHANGED <<storeVars, wpc, outbox, jobsStream, logsStream, replayPos, crashes, faults, history>>

\* applyReplayedJob: the snapshot is taken whatever its version.
applyReplayedJob(event) ==
    /\ jobs' = [jobs EXCEPT ![event.job] = event.snapshot]
    /\ jobVersions' = [jobVersions EXCEPT ![event.job] =
                         IF event.version > @ THEN event.version ELSE @]
    /\ UNCHANGED <<logs, logOffsets, logSubs, logCh, chOpen, inflight>>

\* applyReplayedLog: the chunk keeps its offset; the counter only goes up.
\* There are no subscribers before the process serves.
applyReplayedLog(event) ==
    /\ logOffsets' = [logOffsets EXCEPT ![event.job] =
                        IF event.chunk.offset > @ THEN event.chunk.offset ELSE @]
    /\ logs' = [logs EXCEPT ![event.job] = Append(@, event.chunk)]
    /\ UNCHANGED <<jobs, jobVersions, logSubs, logCh, chOpen, inflight>>

ReplayJob ==
    /\ proc = "jobs" /\ replayPos < Len(jobsStream)
    /\ applyReplayedJob(jobsStream[replayPos + 1])
    /\ replayPos' = replayPos + 1
    /\ UNCHANGED <<proc, wpc, outbox, jobsStream, logsStream, crashes, faults, history>>

ReplayLog ==
    /\ proc = "logs" /\ replayPos < Len(logsStream)
    /\ applyReplayedLog(logsStream[replayPos + 1])
    /\ replayPos' = replayPos + 1
    /\ UNCHANGED <<proc, wpc, outbox, jobsStream, logsStream, crashes, faults, history>>

\* drain ends when a fetch brings nothing: at the end of the stream, or early
\* when the server did not answer within MaxWait.
DrainEnds(phase, stream, next) ==
    /\ proc = phase
    /\ \/ replayPos = Len(stream) /\ UNCHANGED faults
       \/ replayPos < Len(stream) /\ faults < MaxFaults /\ faults' = faults + 1
    /\ proc' = next
    /\ replayPos' = 0
    /\ UNCHANGED <<storeVars, wpc, outbox, jobsStream, logsStream, crashes, history>>

JobsDrained == DrainEnds("jobs", jobsStream, "logs")
LogsDrained == DrainEnds("logs", logsStream, "serving")

\* Any other error of the replay: New returns it and the process exits.
HydrateFails ==
    /\ proc \in {"jobs", "logs"} /\ crashes < MaxCrashes
    /\ crashes' = crashes + 1
    /\ Stop
    /\ UNCHANGED faults

Write(j) ==
    \/ SubmitJob(j)
    \/ DispatchStart(j)
    \/ \E n \in 1..MaxBatch : DispatchLogs(j, n)
    \/ \E state \in Terminal : DispatchFinish(j, state)
    \/ Publish(j)
    \/ PublishFails(j)

Hydrate == Restart \/ ReplayJob \/ JobsDrained \/ ReplayLog \/ LogsDrained

\* The process serves and no job is left to write.
Idle ==
    /\ proc = "serving"
    /\ \A j \in Jobs : wpc[j] \in {"finished", "lost"} /\ outbox[j] = <<>>
    /\ UNCHANGED vars

Next ==
    \/ \E j \in Jobs : Write(j) \/ ShowLog(j)
    \/ Hydrate
    \/ Crash
    \/ HydrateFails
    \/ Idle

Spec == Init /\ [][Next]_vars

-----------------------------------------------------------------------------
(* Properties.                                                             *)

\* What a replay would find of job j once what is about to be published has been.
Mirrored(j) == logsStream \o outbox[j]
MirroredChunks(j) ==
    {p \in 1..Len(Mirrored(j)) : LET e == Mirrored(j)[p] IN e.job = j /\ "chunk" \in DOMAIN e}

(***************************************************************************)
(* While the process serves and nothing failed, the log in memory is what  *)
(* a replay would restore followed by what is about to be published, in    *)
(* every incarnation: the two never drift apart.  (The n-th chunk in       *)
(* memory has the offset n, and the offsets of the mirror are those of the *)
(* memory, in the same order.)                                             *)
(***************************************************************************)
MemoryIsMirrorPlusOutbox ==
    proc = "serving" /\ faults = 0 =>
        \A j \in Jobs :
            LET offset(p) == Mirrored(j)[p].chunk.offset IN
            /\ \A p \in MirroredChunks(j) :
                   offset(p) \in 1..Len(logs[j]) /\ Mirrored(j)[p].chunk = logs[j][offset(p)]
            /\ \A p, q \in MirroredChunks(j) : p < q => offset(p) < offset(q)
            /\ \A i \in 1..Len(logs[j]) : \E p \in MirroredChunks(j) : offset(p) = i

(***************************************************************************)
(* A job a restarted process reports as finished has its whole log, if     *)
(* nothing failed: the chunks are published before the final snapshot.     *)
(***************************************************************************)
FinishedIsWhole ==
    proc = "serving" /\ faults = 0 =>
        \A j \in Jobs : jobs[j].state \in Terminal => logs[j] = everLog[j]

(***************************************************************************)
(* Whatever failed, and however early a replay ended, a chunk keeps the    *)
(* offset it was first given and the offset counter covers every chunk in  *)
(* the log: a client's cursor means the same chunk in every incarnation.   *)
(***************************************************************************)
OffsetsSurvive ==
    \A j \in Jobs : \A i \in 1..Len(logs[j]) :
        /\ logs[j][i].offset \in 1..Len(everLog[j])
        /\ logs[j][i] = everLog[j][logs[j][i].offset]
        /\ logs[j][i].offset <= logOffsets[j]
        /\ i > 1 => logs[j][i - 1].offset < logs[j][i].offset

-----------------------------------------------------------------------------
(***************************************************************************)
(* After a restart a client finds what it was shown before (README.md:     *)
(* job list and logs "can resume exactly where they left off").            *)
(***************************************************************************)
ResumesWhereLeftOff ==
    proc = "serving" /\ faults = 0 =>
        \A j \in Jobs : Len(logs[j]) >= Len(shownLog[j])
=============================================================================
