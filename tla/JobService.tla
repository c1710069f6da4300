----------------------------- MODULE JobService -----------------------------
(***************************************************************************)
(* The control plane's JobService (internal/control/jobsvc/service.go):    *)
(* SubmitJob, the dispatch goroutine it starts for every job, and the      *)
(* StreamJobLogs handler.  A goroutine step is one critical section of the *)
(* store, one receive or one send; between two steps anything may happen.  *)
(***************************************************************************)
EXTENDS WorkerRun

CONSTANT WireCap   \* bound: messages a log stream holds before Send blocks

ASSUME WireCapAssumption == WireCap \in Nat \ {0}

VARIABLES
    dpc,        \* dpc[j]: program counter of job j's dispatch goroutine
    result,     \* result[j]: the snapshot dispatch is about to store
    \* the StreamJobLogs handler of call s
    hpc,        \* program counter
    href,       \* requested job
    after,      \* requested after_offset
    lastOffset, \* highest offset seen
    pending,    \* messages to send, from the store, the channel or the ticker
    hret,       \* what the handler returned
    cancelled,  \* the call's context is done
    wire,       \* messages sent and not yet received by the client
    subAt       \* history: logOffsets of the job when s subscribed, or -1

dispatchVars == <<dpc, result>>
handlerVars == <<hpc, href, after, lastOffset, pending, hret, cancelled, wire, subAt>>

ServiceTypeOK ==
    /\ dpc \in [Jobs -> {"none", "start", "call", "recv", "put", "close", "done"}]
    /\ result \in [Jobs -> Snapshots]
    /\ hpc \in [Rpcs -> {"free", "snapshot", "replay", "check", "subscribe",
                         "live", "send", "unsubscribe", "done"}]
    /\ href \in [Rpcs -> Jobs]
    /\ after \in [Rpcs -> Nat]
    /\ lastOffset \in [Rpcs -> Nat]
    /\ pending \in [Rpcs -> Seq(Messages)]
    /\ hret \in [Rpcs -> {"none", "nil", "err"}]
    /\ cancelled \in [Rpcs -> BOOLEAN]
    /\ wire \in [Rpcs -> Seq(Messages)]
    /\ subAt \in [Rpcs -> Int]

ServiceInit ==
    /\ dpc = [j \in Jobs |-> "none"]
    /\ result = [j \in Jobs |-> NoResult]
    /\ hpc = [s \in Rpcs |-> "free"]
    /\ href = [s \in Rpcs |-> CHOOSE j \in Jobs : TRUE]
    /\ after = [s \in Rpcs |-> 0]
    /\ lastOffset = [s \in Rpcs |-> 0]
    /\ pending = [s \in Rpcs |-> <<>>]
    /\ hret = [s \in Rpcs |-> "none"]
    /\ cancelled = [s \in Rpcs |-> FALSE]
    /\ wire = [s \in Rpcs |-> <<>>]
    /\ subAt = [s \in Rpcs |-> -1]

-----------------------------------------------------------------------------
(* SubmitJob and dispatch.                                                 *)

\* SubmitJob: store the job as accepted and start its dispatch goroutine.
SubmitJob(j) ==
    /\ dpc[j] = "none"
    /\ Put(j, [state |-> "accepted", exitCode |-> 0])
    /\ dpc' = [dpc EXCEPT ![j] = "start"]
    /\ UNCHANGED <<result, workerVars, handlerVars>>

\* dispatch: a job that is found is stored as running; one that is not is
\* skipped.  Only this goroutine writes the job, so the Gets and the Put are
\* one step.
DispatchStart(j) ==
    /\ dpc[j] = "start"
    /\ jobs[j].state # "absent"
    /\ Put(j, [jobs[j] EXCEPT !.state = "running"])
    /\ dpc' = [dpc EXCEPT ![j] = "call"]
    /\ UNCHANGED <<result, workerVars, handlerVars>>

\* applyFailure, up to its Put: the snapshot keeps its exit code.
FailWith(j) ==
    /\ Unlocked
    /\ result' = [result EXCEPT ![j] = [jobs[j] EXCEPT !.state = "failed"]]
    /\ dpc' = [dpc EXCEPT ![j] = "put"]

\* dispatch: the RunJob call opens a stream to the worker.
CallWorker(j) ==
    /\ dpc[j] = "call"
    /\ WorkerAccept(j)
    /\ dpc' = [dpc EXCEPT ![j] = "recv"]
    /\ UNCHANGED <<result, storeVars, handlerVars>>

\* dispatch: the RunJob call fails.
CallWorkerFails(j) ==
    /\ dpc[j] = "call"
    /\ FailWith(j)
    /\ UNCHANGED <<storeVars, workerVars, handlerVars>>

\* Mutant: the logs of the terminal response are taken to be known already.
RecvResponse_SkipsTerminalLogs(j) ==
    /\ dpc[j] = "recv" /\ rpc[j] # <<>>
    /\ LET resp == Head(rpc[j]) IN
         /\ Unlocked
         /\ IF resp.terminal
              THEN /\ UNCHANGED storeVars
                   /\ dpc' = [dpc EXCEPT ![j] = "put"]
                   /\ result' = [result EXCEPT ![j] = resp.result]
              ELSE AppendLogs(j, resp.logs) /\ UNCHANGED dispatchVars
    /\ rpc' = [rpc EXCEPT ![j] = Tail(@)]
    /\ UNCHANGED <<run, col, pos, chunks, rpcEnd, handlerVars>>

\* dispatch: receive a response; its logs are appended, and the terminal one
\* ends the loop.  A job without output sends a terminal response without logs.
RecvResponse(j) ==
    /\ dpc[j] = "recv" /\ rpc[j] # <<>>
    /\ LET resp == Head(rpc[j]) IN
         /\ Unlocked
         /\ IF resp.logs # <<>> THEN AppendLogs(j, resp.logs) ELSE UNCHANGED storeVars
         /\ IF resp.terminal
              THEN /\ dpc' = [dpc EXCEPT ![j] = "put"]
                   /\ result' = [result EXCEPT ![j] = resp.result]
              ELSE UNCHANGED dispatchVars
    /\ rpc' = [rpc EXCEPT ![j] = Tail(@)]
    /\ UNCHANGED <<run, col, pos, chunks, rpcEnd, handlerVars>>

\* Mutant: only EOF ends the receive loop.
RecvFails_IgnoresErrors(j) ==
    /\ dpc[j] = "recv" /\ rpc[j] = <<>> /\ rpcEnd[j] = "eof"
    /\ FailWith(j)
    /\ UNCHANGED <<storeVars, workerVars, handlerVars>>

\* dispatch: the stream ended, by an error or by EOF, with no terminal response.
RecvFails(j) ==
    /\ dpc[j] = "recv" /\ rpc[j] = <<>> /\ rpcEnd[j] # "open"
    /\ FailWith(j)
    /\ UNCHANGED <<storeVars, workerVars, handlerVars>>

\* Mutant: the receive loop goes on after the final snapshot was stored.
PutFinal_KeepsReceiving(j) ==
    /\ dpc[j] = "put"
    /\ Put(j, result[j])
    /\ dpc' = [dpc EXCEPT ![j] = "recv"]
    /\ UNCHANGED <<result, workerVars, handlerVars>>

\* applyCompletion and applyFailure: store the final snapshot ...
PutFinal(j) ==
    /\ dpc[j] = "put"
    /\ Put(j, result[j])
    /\ dpc' = [dpc EXCEPT ![j] = "close"]
    /\ UNCHANGED <<result, workerVars, handlerVars>>

\* ... and then, in a critical section of its own, close the log streams.
CloseStreams(j) ==
    /\ dpc[j] = "close"
    /\ CloseLogStreams(j)
    /\ dpc' = [dpc EXCEPT ![j] = "done"]
    /\ UNCHANGED <<result, workerVars, handlerVars>>

DispatchStep(j) ==
    \/ DispatchStart(j)
    \/ CallWorker(j)
    \/ CallWorkerFails(j)
    \/ RecvResponse(j)
    \/ RecvFails(j)
    \/ PutFinal(j)
    \/ CloseStreams(j)

\* broadcastLocked, run by the dispatch goroutine that holds the mutex.
BroadcastStep(s) ==
    /\ BroadcastOne(s)
    /\ UNCHANGED <<workerVars, dispatchVars, handlerVars>>

-----------------------------------------------------------------------------
(* StreamJobLogs.                                                          *)

\* A call arrives.
StreamJobLogs(s, j, off) ==
    /\ hpc[s] = "free"
    /\ hpc' = [hpc EXCEPT ![s] = "snapshot"]
    /\ href' = [href EXCEPT ![s] = j]
    /\ after' = [after EXCEPT ![s] = off]
    /\ lastOffset' = [lastOffset EXCEPT ![s] = off]
    /\ UNCHANGED <<pending, hret, cancelled, wire, subAt>>
    /\ UNCHANGED <<storeVars, workerVars, dispatchVars>>

\* Logs: copy the stored chunks.
SnapshotLogs(s) ==
    /\ hpc[s] = "snapshot"
    /\ Unlocked
    /\ pending' = [pending EXCEPT ![s] = logs[href[s]]]
    /\ hpc' = [hpc EXCEPT ![s] = "replay"]
    /\ UNCHANGED <<href, after, lastOffset, hret, cancelled, wire, subAt>>
    /\ UNCHANGED <<storeVars, workerVars, dispatchVars>>

\* A stored chunk at or below after_offset is skipped.
SkipStored(s) ==
    /\ hpc[s] = "replay" /\ pending[s] # <<>> /\ Head(pending[s]).offset <= after[s]
    /\ pending' = [pending EXCEPT ![s] = Tail(@)]
    /\ UNCHANGED <<hpc, href, after, lastOffset, hret, cancelled, wire, subAt>>
    /\ UNCHANGED <<storeVars, workerVars, dispatchVars>>

\* stream.Send is called on the next pending message.
Sending(s) ==
    /\ pending[s] # <<>>
    /\ hpc[s] = "send" \/ (hpc[s] = "replay" /\ Head(pending[s]).offset > after[s])

\* The cursor after chunk m was read.
Advance(off, m) == IF m.offset > off THEN m.offset ELSE off

\* Send blocks while the stream's window is full and fails once the context
\* is done.
Send(s) ==
    /\ Sending(s)
    /\ ~cancelled[s] /\ Len(wire[s]) < WireCap
    /\ wire' = [wire EXCEPT ![s] = Append(@, Head(pending[s]))]
    /\ pending' = [pending EXCEPT ![s] = Tail(@)]
    /\ lastOffset' = [lastOffset EXCEPT ![s] = Advance(@, Head(pending[s]))]
    /\ hpc' = [hpc EXCEPT ![s] = IF @ = "send" THEN "live" ELSE @]
    /\ UNCHANGED <<href, after, hret, cancelled, subAt>>
    /\ UNCHANGED <<storeVars, workerVars, dispatchVars>>

\* A failed Send returns; the deferred UnsubscribeLogs runs if registered.
SendFails(s) ==
    /\ Sending(s)
    /\ cancelled[s]
    /\ hpc' = [hpc EXCEPT ![s] = IF @ = "send" THEN "unsubscribe" ELSE "done"]
    /\ hret' = [hret EXCEPT ![s] = "err"]
    /\ pending' = [pending EXCEPT ![s] = <<>>]
    /\ UNCHANGED <<href, after, lastOffset, cancelled, wire, subAt>>
    /\ UNCHANGED <<storeVars, workerVars, dispatchVars>>

\* Mutant: chunks that came meanwhile are fetched by copying the log again.
ReplayDone_CopiesAgain(s) ==
    /\ hpc[s] = "replay" /\ pending[s] = <<>>
    /\ hpc' = [hpc EXCEPT ![s] = IF lastOffset[s] < logOffsets[href[s]] THEN "snapshot" ELSE "check"]
    /\ UNCHANGED <<href, after, lastOffset, pending, hret, cancelled, wire, subAt>>
    /\ UNCHANGED <<storeVars, workerVars, dispatchVars>>

\* The snapshot was sent.
ReplayDone(s) ==
    /\ hpc[s] = "replay" /\ pending[s] = <<>>
    /\ hpc' = [hpc EXCEPT ![s] = "check"]
    /\ UNCHANGED <<href, after, lastOffset, pending, hret, cancelled, wire, subAt>>
    /\ UNCHANGED <<storeVars, workerVars, dispatchVars>>

\* Get: a finished job ends the stream; an unknown one does not.
CheckState(s) ==
    /\ hpc[s] = "check"
    /\ Unlocked
    /\ IF jobs[href[s]].state \in Terminal
         THEN /\ hpc' = [hpc EXCEPT ![s] = "done"]
              /\ hret' = [hret EXCEPT ![s] = "nil"]
         ELSE /\ hpc' = [hpc EXCEPT ![s] = "subscribe"]
              /\ UNCHANGED hret
    /\ UNCHANGED <<href, after, lastOffset, pending, cancelled, wire, subAt>>
    /\ UNCHANGED <<storeVars, workerVars, dispatchVars>>

Subscribe(s) ==
    /\ hpc[s] = "subscribe"
    /\ SubscribeLogs(href[s], s)
    /\ hpc' = [hpc EXCEPT ![s] = "live"]
    /\ subAt' = [subAt EXCEPT ![s] = logOffsets[href[s]]]
    /\ UNCHANGED <<href, after, lastOffset, pending, hret, cancelled, wire>>
    /\ UNCHANGED <<workerVars, dispatchVars>>

\* select: a chunk arrives on the channel; one at or below after_offset is
\* skipped.
ReceiveChunk(s) ==
    /\ hpc[s] = "live" /\ logCh[s] # <<>>
    /\ logCh' = [logCh EXCEPT ![s] = Tail(@)]
    /\ IF Head(logCh[s]).offset <= after[s]
         THEN UNCHANGED <<hpc, pending>>
         ELSE /\ hpc' = [hpc EXCEPT ![s] = "send"]
              /\ pending' = [pending EXCEPT ![s] = <<Head(logCh[s])>>]
    /\ UNCHANGED <<href, after, lastOffset, hret, cancelled, wire, subAt>>
    /\ UNCHANGED <<jobs, jobVersions, logs, logOffsets, logSubs, chOpen, inflight>>
    /\ UNCHANGED <<workerVars, dispatchVars>>

\* Mutant: a closed channel ends the stream without draining it.
ChannelClosed_DropsBuffer(s) ==
    /\ hpc[s] = "live" /\ ~chOpen[s]
    /\ hpc' = [hpc EXCEPT ![s] = "unsubscribe"]
    /\ hret' = [hret EXCEPT ![s] = "nil"]
    /\ UNCHANGED <<href, after, lastOffset, pending, cancelled, wire, subAt>>
    /\ UNCHANGED <<storeVars, workerVars, dispatchVars>>

\* select: the channel is closed and drained, the stream ends normally.
ChannelClosed(s) ==
    /\ hpc[s] = "live" /\ logCh[s] = <<>> /\ ~chOpen[s]
    /\ hpc' = [hpc EXCEPT ![s] = "unsubscribe"]
    /\ hret' = [hret EXCEPT ![s] = "nil"]
    /\ UNCHANGED <<href, after, lastOffset, pending, cancelled, wire, subAt>>
    /\ UNCHANGED <<storeVars, workerVars, dispatchVars>>

\* Mutant: a heartbeat carries the newest offset of the store.
HeartbeatTick_StoreOffset(s) ==
    /\ hpc[s] = "live"
    /\ hpc' = [hpc EXCEPT ![s] = "send"]
    /\ pending' = [pending EXCEPT ![s] = <<[offset |-> logOffsets[href[s]], line |-> Heartbeat]>>]
    /\ UNCHANGED <<href, after, lastOffset, hret, cancelled, wire, subAt>>
    /\ UNCHANGED <<storeVars, workerVars, dispatchVars>>

\* Mutant: a heartbeat carries the offset before the cursor, in unsigned
\* arithmetic an underflow at 0.
HeartbeatTick_OneBehind(s) ==
    /\ hpc[s] = "live"
    /\ hpc' = [hpc EXCEPT ![s] = "send"]
    /\ pending' = [pending EXCEPT ![s] = <<[offset |-> lastOffset[s] - 1, line |-> Heartbeat]>>]
    /\ UNCHANGED <<href, after, lastOffset, hret, cancelled, wire, subAt>>
    /\ UNCHANGED <<storeVars, workerVars, dispatchVars>>

\* select: the ticker fires; a heartbeat carries the cursor.
HeartbeatTick(s) ==
    /\ hpc[s] = "live"
    /\ hpc' = [hpc EXCEPT ![s] = "send"]
    /\ pending' = [pending EXCEPT ![s] = <<[offset |-> lastOffset[s], line |-> Heartbeat]>>]
    /\ UNCHANGED <<href, after, lastOffset, hret, cancelled, wire, subAt>>
    /\ UNCHANGED <<storeVars, workerVars, dispatchVars>>

\* select: the call's context is done.
ContextDone(s) ==
    /\ hpc[s] = "live" /\ cancelled[s]
    /\ hpc' = [hpc EXCEPT ![s] = "unsubscribe"]
    /\ hret' = [hret EXCEPT ![s] = "err"]
    /\ UNCHANGED <<href, after, lastOffset, pending, cancelled, wire, subAt>>
    /\ UNCHANGED <<storeVars, workerVars, dispatchVars>>

\* The deferred UnsubscribeLogs; then the handler has returned.
Unsubscribe(s) ==
    /\ hpc[s] = "unsubscribe"
    /\ UnsubscribeLogs(href[s], s)
    /\ hpc' = [hpc EXCEPT ![s] = "done"]
    /\ UNCHANGED <<href, after, lastOffset, pending, hret, cancelled, wire, subAt>>
    /\ UNCHANGED <<workerVars, dispatchVars>>

HandlerStep(s) ==
    \/ SnapshotLogs(s)
    \/ SkipStored(s)
    \/ Send(s)
    \/ SendFails(s)
    \/ ReplayDone(s)
    \/ CheckState(s)
    \/ Subscribe(s)
    \/ ReceiveChunk(s)
    \/ ChannelClosed(s)
    \/ HeartbeatTick(s)
    \/ ContextDone(s)
    \/ Unsubscribe(s)
=============================================================================
