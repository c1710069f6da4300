------------------------------ MODULE LogStore ------------------------------
(***************************************************************************)
(* The control plane's in-memory store (internal/control/store/store.go):  *)
(* job snapshots, per-job log with a monotone offset counter, and the      *)
(* buffered channels of the log subscribers.  One mutex guards everything; *)
(* each operator below is one critical section, with one exception:        *)
(* AppendLogs keeps the mutex while it offers every new chunk to every     *)
(* subscriber, and a subscriber may receive from its channel meanwhile.    *)
(* `inflight' holds what broadcastLocked has still to offer; the mutex is  *)
(* free exactly when it is empty.                                          *)
(***************************************************************************)
EXTENDS Integers, Sequences, FiniteSets

CONSTANTS
    Jobs,       \* job references (a fresh UUID per submission)
    Rpcs,       \* StreamJobLogs calls, each used once
    ChanCap     \* capacity of a subscriber's channel (128 in the code)

ASSUME JobsAssumption == Jobs # {}
ASSUME RpcsAssumption == Rpcs # {}
ASSUME ChanCapAssumption == ChanCap \in Nat \ {0}

VARIABLES
    jobs,        \* jobs[j]: the stored snapshot of job j
    jobVersions, \* jobVersions[j]: number of snapshots stored for j
    logs,        \* logs[j]: the stored chunks of j
    logOffsets,  \* logOffsets[j]: last offset handed out for j
    logSubs,     \* logSubs[j]: the calls subscribed to j
    logCh,       \* logCh[s]: content of the channel made for call s
    chOpen,      \* chOpen[s]: that channel was made and is not closed
    inflight     \* inflight[s]: chunks broadcastLocked has still to offer to s

storeVars == <<jobs, jobVersions, logs, logOffsets, logSubs, logCh, chOpen, inflight>>

States == {"absent", "accepted", "running", "succeeded", "failed"}
Terminal == {"succeeded", "failed"}

Fds == {"stdout", "stderr"}
\* The n-th line a process writes to a file descriptor.
Lines == Fds \X Nat
Heartbeat == <<"heartbeat", 0>>

\* LogChunk; a heartbeat is a chunk whose line is Heartbeat.
Chunks == [offset : Nat, line : Lines]
Messages == [offset : Nat, line : Lines \cup {Heartbeat}]

Snapshots == [state : States, exitCode : Int]

StoreTypeOK ==
    /\ jobs \in [Jobs -> Snapshots]
    /\ jobVersions \in [Jobs -> Nat]
    /\ logs \in [Jobs -> Seq(Chunks)]
    /\ logOffsets \in [Jobs -> Nat]
    /\ logSubs \in [Jobs -> SUBSET Rpcs]
    /\ logCh \in [Rpcs -> Seq(Chunks)]
    /\ chOpen \in [Rpcs -> BOOLEAN]
    /\ inflight \in [Rpcs -> Seq(Chunks)]

StoreInit ==
    /\ jobs = [j \in Jobs |-> [state |-> "absent", exitCode |-> 0]]
    /\ jobVersions = [j \in Jobs |-> 0]
    /\ logs = [j \in Jobs |-> <<>>]
    /\ logOffsets = [j \in Jobs |-> 0]
    /\ logSubs = [j \in Jobs |-> {}]
    /\ logCh = [s \in Rpcs |-> <<>>]
    /\ chOpen = [s \in Rpcs |-> FALSE]
    /\ inflight = [s \in Rpcs |-> <<>>]

\* The store's mutex is free.
Unlocked == \A s \in Rpcs : inflight[s] = <<>>

(***************************************************************************)
(* Put: bump the job's version and replace its snapshot.                   *)
(***************************************************************************)
Put(j, snapshot) ==
    /\ Unlocked
    /\ jobVersions' = [jobVersions EXCEPT ![j] = @ + 1]
    /\ jobs' = [jobs EXCEPT ![j] = snapshot]
    /\ UNCHANGED <<logs, logOffsets, logSubs, logCh, chOpen, inflight>>

\* The chunks AppendLogs makes of the lines ls: each takes the next offset.
Stamped(j, ls) ==
    [i \in 1..Len(ls) |-> [offset |-> logOffsets[j] + i, line |-> ls[i]]]

\* Mutant: the offset is bumped once per call, not once per chunk.
AppendLogs_BumpsOnce(j, ls) ==
    /\ Unlocked
    /\ logOffsets' = [logOffsets EXCEPT ![j] = @ + 1]
    /\ logs' = [logs EXCEPT ![j] = @ \o Stamped(j, ls)]
    /\ inflight' = [s \in Rpcs |-> IF s \in logSubs[j] THEN Stamped(j, ls) ELSE <<>>]
    /\ UNCHANGED <<jobs, jobVersions, logSubs, logCh, chOpen>>

\* Mutant: only the last chunk of a batch is broadcast.
AppendLogs_BroadcastsLast(j, ls) ==
    /\ Unlocked
    /\ logOffsets' = [logOffsets EXCEPT ![j] = @ + Len(ls)]
    /\ logs' = [logs EXCEPT ![j] = @ \o Stamped(j, ls)]
    /\ inflight' = [s \in Rpcs |-> IF s \in logSubs[j]
                                     THEN <<Stamped(j, ls)[Len(ls)]>> ELSE <<>>]
    /\ UNCHANGED <<jobs, jobVersions, logSubs, logCh, chOpen>>

(***************************************************************************)
(* AppendLogs: stamp offsets, append, and start the broadcast; the mutex   *)
(* stays held until every subscriber was offered every chunk.              *)
(***************************************************************************)
AppendLogs(j, ls) ==
    /\ Unlocked
    /\ logOffsets' = [logOffsets EXCEPT ![j] = @ + Len(ls)]
    /\ logs' = [logs EXCEPT ![j] = @ \o Stamped(j, ls)]
    /\ inflight' = [s \in Rpcs |-> IF s \in logSubs[j] THEN Stamped(j, ls) ELSE <<>>]
    /\ UNCHANGED <<jobs, jobVersions, logSubs, logCh, chOpen>>

(***************************************************************************)
(* One select of broadcastLocked: the chunk goes into the channel, or is   *)
(* dropped when the channel is full.                                       *)
(***************************************************************************)
BroadcastOne(s) ==
    /\ inflight[s] # <<>>
    /\ inflight' = [inflight EXCEPT ![s] = Tail(@)]
    /\ logCh' = IF Len(logCh[s]) < ChanCap
                  THEN [logCh EXCEPT ![s] = Append(@, Head(inflight[s]))]
                  ELSE logCh
    /\ UNCHANGED <<jobs, jobVersions, logs, logOffsets, logSubs, chOpen>>

\* SubscribeLogs: a fresh channel, registered under the job.
SubscribeLogs(j, s) ==
    /\ Unlocked
    /\ logSubs' = [logSubs EXCEPT ![j] = @ \cup {s}]
    /\ logCh' = [logCh EXCEPT ![s] = <<>>]
    /\ chOpen' = [chOpen EXCEPT ![s] = TRUE]
    /\ UNCHANGED <<jobs, jobVersions, logs, logOffsets, inflight>>

\* UnsubscribeLogs: unregister and close, unless CloseLogStreams already did.
UnsubscribeLogs(j, s) ==
    /\ Unlocked
    /\ logSubs' = [logSubs EXCEPT ![j] = @ \ {s}]
    /\ chOpen' = [chOpen EXCEPT ![s] = IF s \in logSubs[j] THEN FALSE ELSE @]
    /\ UNCHANGED <<jobs, jobVersions, logs, logOffsets, logCh, inflight>>

\* Mutant: the channels are closed but stay registered.
CloseLogStreams_KeepsRegistered(j) ==
    /\ Unlocked
    /\ chOpen' = [s \in Rpcs |-> IF s \in logSubs[j] THEN FALSE ELSE chOpen[s]]
    /\ UNCHANGED <<jobs, jobVersions, logs, logOffsets, logSubs, logCh, inflight>>

\* Mutant: the subscribers are forgotten but their channels are not closed.
CloseLogStreams_LeavesOpen(j) ==
    /\ Unlocked
    /\ logSubs' = [logSubs EXCEPT ![j] = {}]
    /\ UNCHANGED <<jobs, jobVersions, logs, logOffsets, logCh, chOpen, inflight>>

\* CloseLogStreams: unregister and close every subscriber of the job.
CloseLogStreams(j) ==
    /\ Unlocked
    /\ logSubs' = [logSubs EXCEPT ![j] = {}]
    /\ chOpen' = [s \in Rpcs |-> IF s \in logSubs[j] THEN FALSE ELSE chOpen[s]]
    /\ UNCHANGED <<jobs, jobVersions, logs, logOffsets, logCh, inflight>>
=============================================================================
