---------------------------- MODULE ControlPlane ----------------------------
(***************************************************************************)
(* The job plane as a whole: JobService over LogStore, the workers, and    *)
(* the clients that run `xrunner job logs' (cmd/xrunner/main.go), which    *)
(* print chunks past their cursor and reconnect with it after a transient  *)
(* stream error.                                                           *)
(***************************************************************************)
EXTENDS JobService

CONSTANTS
    Clients,
    StartOffsets  \* cursors a client may begin with (the CLI begins at 0)

ASSUME StartOffsetsAssumption == StartOffsets \subseteq Nat

VARIABLES
    cpc,      \* cpc[c]: idle, dial, connected or exited
    cref,     \* the job c follows
    crpc,     \* the call c reads from
    cursor,   \* lastOffset of c: offset of the last chunk it accepted
    printed,  \* the chunks c wrote to its standard output
    cexit     \* how c ended

clientVars == <<cpc, cref, crpc, cursor, printed, cexit>>
vars == <<storeVars, workerVars, dispatchVars, handlerVars, clientVars>>

TypeOK ==
    /\ StoreTypeOK /\ WorkerTypeOK /\ ServiceTypeOK
    /\ cpc \in [Clients -> {"idle", "dial", "connected", "exited"}]
    /\ cref \in [Clients -> Jobs]
    /\ crpc \in [Clients -> Rpcs]
    /\ cursor \in [Clients -> Nat]
    /\ printed \in [Clients -> Seq(Chunks)]
    /\ cexit \in [Clients -> {"none", "eof", "err", "interrupt"}]

Init ==
    /\ StoreInit /\ WorkerInit /\ ServiceInit
    /\ cpc = [c \in Clients |-> "idle"]
    /\ cref = [c \in Clients |-> CHOOSE j \in Jobs : TRUE]
    /\ crpc = [c \in Clients |-> CHOOSE s \in Rpcs : TRUE]
    /\ cursor = [c \in Clients |-> 0]
    /\ printed = [c \in Clients |-> <<>>]
    /\ cexit = [c \in Clients |-> "none"]

Following(c) == cpc[c] # "idle"

-----------------------------------------------------------------------------
(* A job id is a fresh UUID: nobody has asked for it before it exists, and *)
(* one that was asked for before it existed is never submitted.            *)
Submit(j) ==
    /\ \A c \in Clients : Following(c) => cref[c] # j
    /\ SubmitJob(j)
    /\ UNCHANGED clientVars

Dispatch(j) == DispatchStep(j) /\ UNCHANGED clientVars

Worker(j) == WorkerStep(j) /\ UNCHANGED <<storeVars, dispatchVars, handlerVars, clientVars>>

Broadcast(s) == BroadcastStep(s) /\ UNCHANGED clientVars

Handler(s) == HandlerStep(s) /\ UNCHANGED clientVars

-----------------------------------------------------------------------------
(* xrunner job logs.                                                       *)

StartClient(c, j, off) ==
    /\ cpc[c] = "idle"
    /\ cpc' = [cpc EXCEPT ![c] = "dial"]
    /\ cref' = [cref EXCEPT ![c] = j]
    /\ cursor' = [cursor EXCEPT ![c] = off]
    /\ UNCHANGED <<crpc, printed, cexit>>
    /\ UNCHANGED <<storeVars, workerVars, dispatchVars, handlerVars>>

\* Dial and start the call with the cursor as after_offset.
Connect(c, s) ==
    /\ cpc[c] = "dial"
    /\ StreamJobLogs(s, cref[c], cursor[c])
    /\ cpc' = [cpc EXCEPT ![c] = "connected"]
    /\ crpc' = [crpc EXCEPT ![c] = s]
    /\ UNCHANGED <<cref, cursor, printed, cexit>>

Exit(c, how) ==
    /\ cpc' = [cpc EXCEPT ![c] = "exited"]
    /\ cexit' = [cexit EXCEPT ![c] = how]

\* A failed dial or call is not retried.
ConnectFails(c) ==
    /\ cpc[c] = "dial"
    /\ Exit(c, "err")
    /\ UNCHANGED <<cref, crpc, cursor, printed>>
    /\ UNCHANGED <<storeVars, workerVars, dispatchVars, handlerVars>>

\* Mutant: the cursor is not advanced.
Recv_ForgetsCursor(c) ==
    LET s == crpc[c]
        m == Head(wire[s])
    IN  /\ cpc[c] = "connected" /\ wire[s] # <<>>
        /\ wire' = [wire EXCEPT ![s] = Tail(@)]
        /\ printed' = IF m.offset > cursor[c] /\ m.line # Heartbeat
                        THEN [printed EXCEPT ![c] = Append(@, m)]
                        ELSE printed
        /\ UNCHANGED <<cpc, cref, crpc, cursor, cexit>>
        /\ UNCHANGED <<hpc, href, after, lastOffset, pending, hret, cancelled, subAt>>
        /\ UNCHANGED <<storeVars, workerVars, dispatchVars>>

\* Receive a message: at or below the cursor it is ignored, a heartbeat is
\* not printed, but both move the cursor only forwards.
Recv(c) ==
    LET s == crpc[c]
        m == Head(wire[s])
    IN  /\ cpc[c] = "connected" /\ wire[s] # <<>>
        /\ wire' = [wire EXCEPT ![s] = Tail(@)]
        /\ cursor' = [cursor EXCEPT ![c] = Advance(@, m)]
        /\ printed' = IF m.offset > cursor[c] /\ m.line # Heartbeat
                        THEN [printed EXCEPT ![c] = Append(@, m)]
                        ELSE printed
        /\ UNCHANGED <<cpc, cref, crpc, cexit>>
        /\ UNCHANGED <<hpc, href, after, lastOffset, pending, hret, cancelled, subAt>>
        /\ UNCHANGED <<storeVars, workerVars, dispatchVars>>

\* Recv returns io.EOF: the handler returned nil and everything was read.
RecvEOF(c) ==
    /\ cpc[c] = "connected" /\ wire[crpc[c]] = <<>>
    /\ hpc[crpc[c]] = "done" /\ hret[crpc[c]] = "nil"
    /\ Exit(c, "eof")
    /\ UNCHANGED <<cref, crpc, cursor, printed>>
    /\ UNCHANGED <<storeVars, workerVars, dispatchVars, handlerVars>>

\* The call is torn down: its context is done, what was in flight is lost.
Teardown(s) ==
    /\ cancelled' = [cancelled EXCEPT ![s] = TRUE]
    /\ wire' = [wire EXCEPT ![s] = <<>>]
    /\ UNCHANGED <<hpc, href, after, lastOffset, pending, hret, subAt>>
    /\ UNCHANGED <<storeVars, workerVars, dispatchVars>>

\* A transient error: back off and dial again.
StreamInterrupted(c) ==
    /\ cpc[c] = "connected"
    /\ cpc' = [cpc EXCEPT ![c] = "dial"]
    /\ Teardown(crpc[c])
    /\ UNCHANGED <<cref, crpc, cursor, printed, cexit>>

\* Any other error, or --reconnect=false.
StreamFails(c) ==
    /\ cpc[c] = "connected"
    /\ Exit(c, "err")
    /\ Teardown(crpc[c])
    /\ UNCHANGED <<cref, crpc, cursor, printed>>

\* Ctrl-C while waiting to reconnect, or while connected.
Interrupt(c) ==
    /\ UNCHANGED <<cref, crpc, cursor, printed>>
    /\ Exit(c, "interrupt")
    /\ \/ /\ cpc[c] = "dial"
          /\ UNCHANGED <<storeVars, workerVars, dispatchVars, handlerVars>>
       \/ /\ cpc[c] = "connected"
          /\ Teardown(crpc[c])

Client(c) ==
    \/ \E j \in Jobs, off \in StartOffsets : StartClient(c, j, off)
    \/ \E s \in Rpcs : Connect(c, s)
    \/ ConnectFails(c)
    \/ Recv(c)
    \/ RecvEOF(c)
    \/ StreamInterrupted(c)
    \/ StreamFails(c)
    \/ Interrupt(c)

-----------------------------------------------------------------------------
\* Nothing is left to do: every job has ended and every client is gone.
Quiescent ==
    /\ \A j \in Jobs : dpc[j] \in {"none", "done"}
    /\ \A c \in Clients : cpc[c] = "exited"
    /\ \A s \in Rpcs : hpc[s] \in {"free", "done"}
    /\ UNCHANGED vars

Next ==
    \/ \E j \in Jobs : Submit(j) \/ Dispatch(j) \/ Worker(j)
    \/ \E s \in Rpcs : Broadcast(s) \/ Handler(s)
    \/ \E c \in Clients : Client(c)
    \/ Quiescent

Spec == Init /\ [][Next]_vars

(***************************************************************************)
(* Fairness.  Goroutines that can run do run; a Go select chooses fairly   *)
(* among its ready cases, so a ready case is not passed over for ever by   *)
(* heartbeats.  The process a job runs ends (external).  Clients read.     *)
(***************************************************************************)
Fairness ==
    /\ \A j \in Jobs : WF_vars(Dispatch(j)) /\ WF_vars(Worker(j))
    /\ \A s \in Rpcs :
         /\ WF_vars(Broadcast(s))
         /\ WF_vars(Handler(s))
         /\ SF_vars(ReceiveChunk(s) /\ UNCHANGED clientVars)
         /\ SF_vars(ChannelClosed(s) /\ UNCHANGED clientVars)
         /\ SF_vars(ContextDone(s) /\ UNCHANGED clientVars)
    /\ \A c \in Clients : WF_vars(Recv(c)) /\ WF_vars(RecvEOF(c))

FairSpec == Spec /\ Fairness

-----------------------------------------------------------------------------
(* Properties.                                                             *)

IsChunk(m) == m.line # Heartbeat
Increasing(q) == \A a, b \in 1..Len(q) : a < b => q[a].offset < q[b].offset

(***************************************************************************)
(* A channel that is registered, or that a broadcast has still to send to, *)
(* is open: neither broadcastLocked nor a close ever hits a closed channel *)
(* (either would panic and take the API process down), although            *)
(* UnsubscribeLogs and CloseLogStreams race for who closes it.             *)
(***************************************************************************)
NoPanic ==
    /\ \A j \in Jobs : \A s \in logSubs[j] : chOpen[s]
    /\ \A s \in Rpcs : inflight[s] # <<>> => chOpen[s]

\* Offsets handed out by AppendLogs are 1, 2, 3, ... in log order.
DenseOffsets ==
    \A j \in Jobs :
        /\ Len(logs[j]) = logOffsets[j]
        /\ \A i \in 1..Len(logs[j]) : logs[j][i].offset = i

(***************************************************************************)
(* What a StreamJobLogs call has still to send - from the snapshot, then   *)
(* from its channel, then from the broadcast under way - is in strictly    *)
(* increasing offset order and past everything it sent before: one call    *)
(* never sends a chunk twice or out of order, even when a full channel     *)
(* dropped chunks in between.  The code compares with after_offset only,   *)
(* so this rests on subscribing after the snapshot was taken.              *)
(***************************************************************************)
Precedes(p, q) ==
    \A a \in 1..Len(p), b \in 1..Len(q) : p[a].offset < q[b].offset
\* A chunk that will be sent is past the cursor and behind all that is pending.
NewTo(m, s) == m.offset > after[s] =>
    /\ m.offset > lastOffset[s]
    /\ \A a \in 1..Len(pending[s]) : pending[s][a].offset < m.offset
Ordered(s) ==
    /\ Increasing(pending[s]) /\ Increasing(logCh[s]) /\ Increasing(inflight[s])
    /\ Precedes(logCh[s], inflight[s])
    /\ \A b \in 1..Len(logCh[s]) : NewTo(logCh[s][b], s)
    /\ \A b \in 1..Len(inflight[s]) : NewTo(inflight[s][b], s)
    /\ hpc[s] = "replay" =>
         \A a \in 1..Len(pending[s]) :
             pending[s][a].offset > after[s] => pending[s][a].offset > lastOffset[s]
StreamInOrder == \A s \in Rpcs : Ordered(s)

(***************************************************************************)
(* What reaches a client is new to it: a chunk on the wire is past the     *)
(* client's cursor, and a heartbeat never carries an offset the client has *)
(* not received the chunk of (it would make the client skip that chunk,    *)
(* now or after reconnecting).                                             *)
(***************************************************************************)
CursorIsReceived ==
    \A c \in Clients : cpc[c] = "connected" =>
        LET w == wire[crpc[c]] IN
        \A i \in 1..Len(w) :
            IF IsChunk(w[i])
              THEN /\ w[i].offset > cursor[c]
                   /\ \A k \in 1..(i - 1) : w[k].offset < w[i].offset
              ELSE \/ w[i].offset <= cursor[c]
                   \/ \E k \in 1..(i - 1) : IsChunk(w[k]) /\ w[k].offset = w[i].offset

\* Over all its reconnects a client prints stored chunks, each at most once,
\* in offset order.
PrintedFromLog ==
    \A c \in Clients :
        /\ Increasing(printed[c])
        /\ \A i \in 1..Len(printed[c]) :
             /\ printed[c][i].offset \in 1..Len(logs[cref[c]])
             /\ printed[c][i] = logs[cref[c]][printed[c][i].offset]

(***************************************************************************)
(* A job reported as succeeded has its whole output stored: its log ends   *)
(* with every line the worker collected, and those are all the lines its   *)
(* process wrote to each descriptor, in the order it wrote them, whatever  *)
(* order the two collectors forwarded them in.                             *)
(***************************************************************************)
StoredOutput(j) ==
    LET n == Len(chunks[j])
        base == Len(logs[j]) - n
    IN  base >= 0 /\ \A i \in 1..n : logs[j][base + i].line = chunks[j][i]
WholeOutput(j) ==
    LET out == chunks[j] IN
    /\ \A fd \in Fds : \A i \in 1..pos[j][fd] : \E a \in 1..Len(out) : out[a] = <<fd, i>>
    /\ \A a \in 1..Len(out) : out[a][2] \in 1..pos[j][out[a][1]]
    /\ \A a, b \in 1..Len(out) : a < b /\ out[a][1] = out[b][1] => out[a][2] < out[b][2]
AllOutputStored ==
    \A j \in Jobs : jobs[j].state = "succeeded" => StoredOutput(j) /\ WholeOutput(j)

(***************************************************************************)
(* As long as no channel overflows, a call that subscribed misses nothing  *)
(* that is appended from then on: the chunks that wait in its channel, in  *)
(* the broadcast or to be sent are exactly those of the log behind what it *)
(* has sent, and they wait in log order.  In particular the streams are    *)
(* closed behind the last chunk.                                           *)
(***************************************************************************)
Elements(q) == {q[i] : i \in 1..Len(q)}
Waiting(s) ==
    {m \in Elements(pending[s]) \cup Elements(logCh[s]) \cup Elements(inflight[s]) :
        IsChunk(m) /\ m.offset > after[s]}
NoLiveGap ==
    \A s \in Rpcs : hpc[s] \in {"live", "send"} =>
        LET seen == IF lastOffset[s] > subAt[s] THEN lastOffset[s] ELSE subAt[s]
        IN  /\ Waiting(s) = {logs[href[s]][n] : n \in (seen + 1)..Len(logs[href[s]])}
            /\ Ordered(s)

(***************************************************************************)
(* A client that was subscribed before the job wrote anything, and read to *)
(* the end of the stream, printed the whole log.                           *)
(***************************************************************************)
EarlyTailIsComplete ==
    \A c \in Clients :
        cexit[c] = "eof" /\ subAt[crpc[c]] = 0 /\ StartOffsets = {0} => printed[c] = logs[cref[c]]

\* The detailed model implements the job's promised life cycle.
Lifecycle == INSTANCE JobLifecycle WITH
    status <- [j \in Jobs |-> jobs[j].state],
    log <- logs
ImplementsLifecycle == Lifecycle!Spec

\* Every accepted job is eventually reported as finished.
JobsFinish == Lifecycle!Live

\* A call that is registered when the job finishes is ended by it.
SubscribedStreamsEnd ==
    \A s \in Rpcs :
        (\E j \in Jobs : s \in logSubs[j] /\ jobs[j].state \in {"accepted", "running"})
            ~> (hpc[s] = "done")

-----------------------------------------------------------------------------
(* What the documentation says and the code does not do.                   *)

(***************************************************************************)
(* A client that followed a job from the start until the stream ended      *)
(* printed everything the job logged (README.md: logs "can be tailed live  *)
(* until completion").                                                     *)
(***************************************************************************)
TailIsComplete ==
    \A c \in Clients :
        cexit[c] = "eof" /\ StartOffsets = {0} => printed[c] = logs[cref[c]]

\* A client still connected when the job has finished reaches the end of the
\* stream.
TailEnds ==
    \A c \in Clients :
        (cpc[c] = "connected" /\ jobs[cref[c]].state \in Terminal) ~> (cpc[c] # "connected")

\* A client never prints the same line of output twice (common.proto: the
\* offset lets clients resume "without duplicating already received chunks").
NoDuplicateOutput ==
    \A c \in Clients : \A a, b \in 1..Len(printed[c]) :
        a # b => printed[c][a].line # printed[c][b].line
=============================================================================
