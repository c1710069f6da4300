------------------------- MODULE ControlPlaneProofs -------------------------
(***************************************************************************)
(* Proofs about ControlPlane, for every number of jobs, calls and clients, *)
(* every channel capacity and every amount of output.                      *)
(***************************************************************************)
EXTENDS ControlPlane, TLAPS

-----------------------------------------------------------------------------
(* Types.                                                                  *)

\* The chunks AppendLogs stamps are chunks.
LEMMA StampedType ==
    ASSUME StoreTypeOK, NEW j \in Jobs, NEW ls \in Seq(Lines)
    PROVE  /\ Stamped(j, ls) \in Seq(Chunks)
           /\ Len(Stamped(j, ls)) = Len(ls)
           /\ \A i \in 1..Len(ls) : Stamped(j, ls)[i] = [offset |-> logOffsets[j] + i, line |-> ls[i]]
  <1>1. \A i \in 1..Len(ls) : [offset |-> logOffsets[j] + i, line |-> ls[i]] \in Chunks
    BY DEF StoreTypeOK, Chunks
  <1>2. QED
    BY <1>1 DEF Stamped

\* Put keeps the store well typed.
LEMMA PutType ==
    ASSUME StoreTypeOK, NEW j \in Jobs, NEW x \in Snapshots, Put(j, x)
    PROVE  StoreTypeOK'
  BY DEF StoreTypeOK, Put

\* AppendLogs keeps the store well typed.
LEMMA AppendType ==
    ASSUME StoreTypeOK, NEW j \in Jobs, NEW ls \in Seq(Lines), AppendLogs(j, ls)
    PROVE  StoreTypeOK'
  <1>1. Stamped(j, ls) \in Seq(Chunks)
    BY StampedType
  <1>2. logs' \in [Jobs -> Seq(Chunks)]
    BY <1>1 DEF StoreTypeOK, AppendLogs
  <1>3. inflight' \in [Rpcs -> Seq(Chunks)]
    BY <1>1 DEF StoreTypeOK, AppendLogs
  <1>4. logOffsets' \in [Jobs -> Nat]
    BY DEF StoreTypeOK, AppendLogs
  <1>5. QED
    BY <1>2, <1>3, <1>4 DEF StoreTypeOK, AppendLogs

\* One offer of the broadcast keeps the store well typed.
LEMMA BroadcastType ==
    ASSUME StoreTypeOK, NEW s \in Rpcs, BroadcastOne(s)
    PROVE  StoreTypeOK'
  BY DEF StoreTypeOK, BroadcastOne

\* Subscribing, unsubscribing and closing keep the store well typed.
LEMMA SubscriptionType ==
    ASSUME StoreTypeOK, NEW j \in Jobs, NEW s \in Rpcs,
           SubscribeLogs(j, s) \/ UnsubscribeLogs(j, s) \/ CloseLogStreams(j)
    PROVE  StoreTypeOK'
  <1>1. CASE SubscribeLogs(j, s)
    BY <1>1 DEF StoreTypeOK, SubscribeLogs
  <1>2. CASE UnsubscribeLogs(j, s)
    BY <1>2 DEF StoreTypeOK, UnsubscribeLogs
  <1>3. CASE CloseLogStreams(j)
    BY <1>3 DEF StoreTypeOK, CloseLogStreams
  <1>4. QED
    BY <1>1, <1>2, <1>3

\* Every step of the worker keeps its state well typed.
LEMMA WorkerType ==
    ASSUME WorkerTypeOK, NEW j \in Jobs, WorkerStep(j) \/ WorkerAccept(j)
    PROVE  WorkerTypeOK'
  <1> USE DEF WorkerTypeOK
  <1>1. CASE WorkerAccept(j)
    BY <1>1 DEF WorkerAccept
  <1>2. CASE StartProcess(j)
    BY <1>2 DEF StartProcess
  <1>3. CASE RejectAssignment(j)
    BY <1>3 DEF RejectAssignment
  <1>4. ASSUME NEW fd \in Fds, CollectLine(j, fd)
        PROVE  WorkerTypeOK'
    <2>1. <<fd, pos[j][fd] + 1>> \in Lines
      BY DEF Lines
    <2>2. chunks' \in [Jobs -> Seq(Lines)]
      BY <2>1, <1>4 DEF CollectLine
    <2>3. QED
      BY <2>2, <1>4 DEF CollectLine
  <1>5. ASSUME NEW fd \in Fds, ForwardLine(j, fd)
        PROVE  WorkerTypeOK'
    <2>1. [logs |-> << <<fd, pos[j][fd]>> >>, terminal |-> FALSE, result |-> NoResult] \in Responses
      BY DEF Lines, Responses, NoResult, Snapshots, States
    <2>2. rpc' \in [Jobs -> Seq(Responses)]
      BY <2>1, <1>5 DEF ForwardLine
    <2>3. QED
      BY <2>2, <1>5 DEF ForwardLine
  <1>6. ASSUME NEW fd \in Fds, CollectorEOF(j, fd)
        PROVE  WorkerTypeOK'
    BY <1>6 DEF CollectorEOF
  <1>7. ASSUME NEW code \in ExitCodes, SendTerminal(j, code)
        PROVE  WorkerTypeOK'
    <2>1. [logs |-> chunks[j], terminal |-> TRUE,
           result |-> [state |-> finalizeState(code), exitCode |-> code]] \in Responses
      BY ExitCodesAssumption DEF Responses, Snapshots, States, finalizeState
    <2>2. rpc' \in [Jobs -> Seq(Responses)]
      BY <2>1, <1>7 DEF SendTerminal
    <2>3. QED
      BY <2>2, <1>7 DEF SendTerminal
  <1>8. CASE WorkerStreamBreaks(j)
    <2>1. PICK n \in 0..Len(rpc[j]) : rpc' = [rpc EXCEPT ![j] = SubSeq(@, 1, n)]
      BY <1>8 DEF WorkerStreamBreaks
    <2>2. SubSeq(rpc[j], 1, n) \in Seq(Responses)
      OBVIOUS
    <2>3. rpc' \in [Jobs -> Seq(Responses)]
      BY <2>1, <2>2
    <2>4. QED
      BY <2>3, <1>8 DEF WorkerStreamBreaks
  <1>9. QED
    BY <1>1, <1>2, <1>3, <1>4, <1>5, <1>6, <1>7, <1>8 DEF WorkerStep

\* Snapshots dispatch stores are snapshots.
LEMMA ServiceAlphabet ==
    /\ NoResult \in Snapshots
    /\ [state |-> "accepted", exitCode |-> 0] \in Snapshots
    /\ \A x \in Snapshots, st \in States : [x EXCEPT !.state = st] \in Snapshots
    /\ Chunks \subseteq Messages
    /\ \A off \in Nat : [offset |-> off, line |-> Heartbeat] \in Messages
  BY DEF NoResult, Snapshots, States, Chunks, Messages

\* The store, worker and service parts of the type invariant.
ServerTypeOK == StoreTypeOK /\ WorkerTypeOK /\ ServiceTypeOK

\* Submitting a job and every step of its dispatch keep the types.
LEMMA DispatchType ==
    ASSUME ServerTypeOK, NEW j \in Jobs, SubmitJob(j) \/ DispatchStep(j)
    PROVE  ServerTypeOK'
  <1> USE DEF ServerTypeOK
  <1>h. ASSUME UNCHANGED handlerVars,
               dpc' \in [Jobs -> {"none", "start", "call", "recv", "put", "close", "done"}],
               result' \in [Jobs -> Snapshots]
        PROVE  ServiceTypeOK'
    BY <1>h DEF ServiceTypeOK, handlerVars
  <1>w. ASSUME UNCHANGED workerVars PROVE WorkerTypeOK'
    BY <1>w DEF WorkerTypeOK, workerVars
  <1>s. ASSUME UNCHANGED storeVars PROVE StoreTypeOK'
    BY <1>s DEF StoreTypeOK, storeVars
  <1>1. CASE SubmitJob(j)
    <2>1. StoreTypeOK'
      BY <1>1, PutType, ServiceAlphabet DEF SubmitJob
    <2>2. QED
      BY <1>1, <2>1, <1>h, <1>w DEF SubmitJob, ServiceTypeOK
  <1>2. CASE DispatchStart(j)
    <2>1. [jobs[j] EXCEPT !.state = "running"] \in Snapshots
      BY ServiceAlphabet DEF StoreTypeOK, States
    <2>2. StoreTypeOK'
      BY <1>2, <2>1, PutType DEF DispatchStart
    <2>3. QED
      BY <1>2, <2>2, <1>h, <1>w DEF DispatchStart, ServiceTypeOK
  <1>f. ASSUME FailWith(j)
        PROVE  /\ dpc' \in [Jobs -> {"none", "start", "call", "recv", "put", "close", "done"}]
               /\ result' \in [Jobs -> Snapshots]
    <2>1. [jobs[j] EXCEPT !.state = "failed"] \in Snapshots
      BY ServiceAlphabet DEF StoreTypeOK, States
    <2>2. QED
      BY <1>f, <2>1 DEF FailWith, ServiceTypeOK
  <1>3. CASE CallWorker(j)
    <2>1. WorkerTypeOK'
      BY <1>3, WorkerType DEF CallWorker
    <2>2. QED
      BY <1>3, <2>1, <1>h, <1>s DEF CallWorker, ServiceTypeOK
  <1>4. CASE CallWorkerFails(j)
    BY <1>4, <1>f, <1>h, <1>s, <1>w DEF CallWorkerFails
  <1>5. CASE RecvResponse(j)
    <2> DEFINE resp == Head(rpc[j])
    <2>1. resp \in Responses
      BY <1>5 DEF RecvResponse, WorkerTypeOK
    <2>2. resp.logs \in Seq(Lines) /\ resp.result \in Snapshots
      BY <2>1 DEF Responses
    <2>3. StoreTypeOK'
      <3>1. CASE resp.logs # <<>>
        BY <1>5, <2>2, <3>1, AppendType DEF RecvResponse
      <3>2. CASE resp.logs = <<>>
        BY <1>5, <3>2, <1>s DEF RecvResponse
      <3>3. QED
        BY <3>1, <3>2
    <2>4. rpc' \in [Jobs -> Seq(Responses)]
      <3>1. Tail(rpc[j]) \in Seq(Responses)
        BY <1>5 DEF RecvResponse, WorkerTypeOK
      <3>2. QED
        BY <1>5, <3>1 DEF RecvResponse, WorkerTypeOK
    <2>5. WorkerTypeOK'
      BY <1>5, <2>4 DEF RecvResponse, WorkerTypeOK
    <2>6. /\ dpc' \in [Jobs -> {"none", "start", "call", "recv", "put", "close", "done"}]
          /\ result' \in [Jobs -> Snapshots]
      BY <1>5, <2>2 DEF RecvResponse, ServiceTypeOK, dispatchVars
    <2>7. QED
      BY <1>5, <2>3, <2>5, <2>6, <1>h DEF RecvResponse
  <1>6. CASE RecvFails(j)
    BY <1>6, <1>f, <1>h, <1>s, <1>w DEF RecvFails
  <1>7. CASE PutFinal(j)
    <2>1. StoreTypeOK'
      BY <1>7, PutType DEF PutFinal, ServiceTypeOK
    <2>2. QED
      BY <1>7, <2>1, <1>h, <1>w DEF PutFinal, ServiceTypeOK
  <1>8. CASE CloseStreams(j)
    <2>1. PICK s \in Rpcs : TRUE
      BY RpcsAssumption
    <2>2. StoreTypeOK'
      BY <1>8, <2>1, SubscriptionType DEF CloseStreams
    <2>3. QED
      BY <1>8, <2>2, <1>h, <1>w DEF CloseStreams, ServiceTypeOK
  <1>9. QED
    BY <1>1, <1>2, <1>3, <1>4, <1>5, <1>6, <1>7, <1>8 DEF DispatchStep

\* A StreamJobLogs call and every step of its handler keep the types.
LEMMA HandlerType ==
    ASSUME ServerTypeOK, NEW s \in Rpcs, HandlerStep(s)
    PROVE  ServerTypeOK'
  <1> USE DEF ServerTypeOK
  <1>w. ASSUME UNCHANGED <<workerVars, dispatchVars>> PROVE WorkerTypeOK' /\ UNCHANGED dispatchVars
    BY <1>w DEF WorkerTypeOK, workerVars
  <1>s. ASSUME UNCHANGED storeVars PROVE StoreTypeOK'
    BY <1>s DEF StoreTypeOK, storeVars
  <1>p. pending[s] \in Seq(Messages) /\ wire[s] \in Seq(Messages)
    BY DEF ServiceTypeOK
  <1>t. ASSUME pending[s] # <<>>
        PROVE  Tail(pending[s]) \in Seq(Messages) /\ Head(pending[s]) \in Messages
    BY <1>p, <1>t
  <1>1. CASE SnapshotLogs(s)
    <2>1. logs[href[s]] \in Seq(Messages)
      BY ServiceAlphabet DEF StoreTypeOK, ServiceTypeOK
    <2>2. QED
      BY <1>1, <2>1, <1>w, <1>s DEF SnapshotLogs, ServiceTypeOK, dispatchVars
  <1>2. CASE SkipStored(s)
    BY <1>2, <1>t, <1>w, <1>s DEF SkipStored, ServiceTypeOK, dispatchVars
  <1>3. CASE Send(s)
    <2>1. pending[s] # <<>>
      BY <1>3 DEF Send, Sending
    <2>2. Append(wire[s], Head(pending[s])) \in Seq(Messages)
      BY <2>1, <1>t, <1>p
    <2>3. Advance(lastOffset[s], Head(pending[s])) \in Nat
      BY <2>1, <1>t DEF Advance, ServiceTypeOK, Messages
    <2>4. QED
      BY <1>3, <2>1, <2>2, <2>3, <1>t, <1>w, <1>s DEF Send, ServiceTypeOK, dispatchVars
  <1>4. CASE SendFails(s)
    BY <1>4, <1>w, <1>s DEF SendFails, ServiceTypeOK, dispatchVars
  <1>5. CASE ReplayDone(s)
    BY <1>5, <1>w, <1>s DEF ReplayDone, ServiceTypeOK, dispatchVars
  <1>6. CASE CheckState(s)
    BY <1>6, <1>w, <1>s DEF CheckState, ServiceTypeOK, dispatchVars
  <1>7. CASE Subscribe(s)
    <2>1. StoreTypeOK'
      BY <1>7, SubscriptionType DEF Subscribe, ServiceTypeOK
    <2>2. logOffsets[href[s]] \in Int
      BY DEF StoreTypeOK, ServiceTypeOK
    <2>3. QED
      BY <1>7, <2>1, <2>2, <1>w DEF Subscribe, ServiceTypeOK, dispatchVars
  <1>8. CASE ReceiveChunk(s)
    <2>1. logCh[s] \in Seq(Chunks) /\ logCh[s] # <<>>
      BY <1>8 DEF ReceiveChunk, StoreTypeOK
    <2>2. Tail(logCh[s]) \in Seq(Chunks) /\ Head(logCh[s]) \in Messages
      BY <2>1, ServiceAlphabet
    <2>3. StoreTypeOK'
      BY <1>8, <2>2 DEF ReceiveChunk, StoreTypeOK
    <2>4. <<Head(logCh[s])>> \in Seq(Messages)
      BY <2>2
    <2>5. ServiceTypeOK'
      BY <1>8, <2>4, <1>w DEF ReceiveChunk, ServiceTypeOK, dispatchVars
    <2>6. QED
      BY <1>8, <2>3, <2>5, <1>w DEF ReceiveChunk
  <1>9. CASE ChannelClosed(s)
    BY <1>9, <1>w, <1>s DEF ChannelClosed, ServiceTypeOK, dispatchVars
  <1>10. CASE HeartbeatTick(s)
    <2>1. <<[offset |-> lastOffset[s], line |-> Heartbeat]>> \in Seq(Messages)
      BY ServiceAlphabet DEF ServiceTypeOK
    <2>2. QED
      BY <1>10, <2>1, <1>w, <1>s DEF HeartbeatTick, ServiceTypeOK, dispatchVars
  <1>11. CASE ContextDone(s)
    BY <1>11, <1>w, <1>s DEF ContextDone, ServiceTypeOK, dispatchVars
  <1>12. CASE Unsubscribe(s)
    <2>1. StoreTypeOK'
      BY <1>12, SubscriptionType DEF Unsubscribe, ServiceTypeOK
    <2>2. QED
      BY <1>12, <2>1, <1>w DEF Unsubscribe, ServiceTypeOK, dispatchVars
  <1>13. QED
    BY <1>1, <1>2, <1>3, <1>4, <1>5, <1>6, <1>7, <1>8, <1>9, <1>10, <1>11, <1>12
       DEF HandlerStep

\* The client part of the type invariant.
ClientTypeOK ==
    /\ cpc \in [Clients -> {"idle", "dial", "connected", "exited"}]
    /\ cref \in [Clients -> Jobs]
    /\ crpc \in [Clients -> Rpcs]
    /\ cursor \in [Clients -> Nat]
    /\ printed \in [Clients -> Seq(Chunks)]
    /\ cexit \in [Clients -> {"none", "eof", "err", "interrupt"}]

\* Every step of a client keeps the types.
LEMMA ClientType ==
    ASSUME ServerTypeOK, ClientTypeOK, NEW c \in Clients, Client(c)
    PROVE  ServerTypeOK' /\ ClientTypeOK'
  <1> USE DEF ServerTypeOK, ClientTypeOK
  <1>s. ASSUME UNCHANGED <<storeVars, workerVars>> PROVE StoreTypeOK' /\ WorkerTypeOK'
    BY <1>s DEF StoreTypeOK, storeVars, WorkerTypeOK, workerVars
  <1>h. ASSUME UNCHANGED <<dispatchVars, handlerVars>> PROVE ServiceTypeOK'
    BY <1>h DEF ServiceTypeOK, dispatchVars, handlerVars
  <1>d. ASSUME Teardown(crpc[c]) PROVE ServerTypeOK'
    BY <1>d, <1>s DEF Teardown, ServiceTypeOK, dispatchVars
  <1>1. ASSUME NEW j \in Jobs, NEW off \in StartOffsets, StartClient(c, j, off)
        PROVE  ServerTypeOK' /\ ClientTypeOK'
    BY <1>1, <1>s, <1>h, StartOffsetsAssumption DEF StartClient
  <1>2. ASSUME NEW s \in Rpcs, Connect(c, s)
        PROVE  ServerTypeOK' /\ ClientTypeOK'
    <2>1. ServiceTypeOK'
      BY <1>2 DEF Connect, StreamJobLogs, ServiceTypeOK, dispatchVars
    <2>2. QED
      BY <1>2, <2>1, <1>s DEF Connect, StreamJobLogs
  <1>3. CASE ConnectFails(c)
    BY <1>3, <1>s, <1>h DEF ConnectFails, Exit
  <1>4. CASE Recv(c)
    <2> DEFINE w == wire[crpc[c]]
    <2>1. w \in Seq(Messages) /\ w # <<>>
      BY <1>4 DEF Recv, ServiceTypeOK
    <2>2. Tail(w) \in Seq(Messages) /\ Head(w) \in Messages
      BY <2>1
    <2>3. ServiceTypeOK'
      BY <1>4, <2>2 DEF Recv, ServiceTypeOK, dispatchVars
    <2>4. Advance(cursor[c], Head(w)) \in Nat
      BY <2>2 DEF Advance, Messages
    <2>5. Head(w).line # Heartbeat => Head(w) \in Chunks
      BY <2>2 DEF Messages, Chunks
    <2>6. printed' \in [Clients -> Seq(Chunks)]
      BY <1>4, <2>5 DEF Recv
    <2>7. cursor' \in [Clients -> Nat]
      BY <1>4, <2>4 DEF Recv
    <2>8. ClientTypeOK'
      BY <1>4, <2>6, <2>7 DEF Recv
    <2>9. QED
      BY <1>4, <2>3, <2>8, <1>s DEF Recv
  <1>5. CASE RecvEOF(c)
    BY <1>5, <1>s, <1>h DEF RecvEOF, Exit
  <1>6. CASE StreamInterrupted(c)
    BY <1>6, <1>d DEF StreamInterrupted
  <1>7. CASE StreamFails(c)
    BY <1>7, <1>d DEF StreamFails, Exit
  <1>8. CASE Interrupt(c)
    <2>1. ClientTypeOK'
      BY <1>8 DEF Interrupt, Exit
    <2>2. QED
      BY <1>8, <2>1, <1>d, <1>s, <1>h DEF Interrupt
  <1>9. QED
    BY <1>1, <1>2, <1>3, <1>4, <1>5, <1>6, <1>7, <1>8 DEF Client

\* The type invariant is inductive.
LEMMA TypeInit == Init => TypeOK
  <1> SUFFICES ASSUME Init PROVE TypeOK
    OBVIOUS
  <1>1. (CHOOSE j \in Jobs : TRUE) \in Jobs /\ (CHOOSE s \in Rpcs : TRUE) \in Rpcs
    BY JobsAssumption, RpcsAssumption
  <1>2. StoreTypeOK
    BY DEF Init, StoreInit, StoreTypeOK, Snapshots, States
  <1>3. WorkerTypeOK
    BY DEF Init, WorkerInit, WorkerTypeOK
  <1>4. ServiceTypeOK
    BY <1>1, ServiceAlphabet DEF Init, ServiceInit, ServiceTypeOK
  <1>5. QED
    BY <1>1, <1>2, <1>3, <1>4 DEF Init, TypeOK

LEMMA TypeNext == TypeOK /\ [Next]_vars => TypeOK'
  <1> SUFFICES ASSUME TypeOK, [Next]_vars PROVE TypeOK'
    OBVIOUS
  <1>0. TypeOK <=> ServerTypeOK /\ ClientTypeOK
    BY DEF TypeOK, ServerTypeOK, ClientTypeOK
  <1>p. TypeOK' <=> ServerTypeOK' /\ ClientTypeOK'
    BY DEF TypeOK, ServerTypeOK, ClientTypeOK
  <1>c. ASSUME UNCHANGED clientVars PROVE ClientTypeOK'
    BY <1>0, <1>c DEF ClientTypeOK, clientVars
  <1>1. ASSUME NEW j \in Jobs, Submit(j) \/ Dispatch(j)
        PROVE  TypeOK'
    BY <1>0, <1>p, <1>c, <1>1, DispatchType DEF Submit, Dispatch
  <1>2. ASSUME NEW j \in Jobs, Worker(j)
        PROVE  TypeOK'
    <2>1. WorkerTypeOK'
      BY <1>0, <1>2, WorkerType DEF Worker, ServerTypeOK
    <2>2. StoreTypeOK'
      BY <1>0, <1>2 DEF Worker, ServerTypeOK, StoreTypeOK, storeVars
    <2>3. ServiceTypeOK'
      BY <1>0, <1>2 DEF Worker, ServerTypeOK, ServiceTypeOK, dispatchVars, handlerVars
    <2>4. QED
      BY <1>p, <1>c, <1>2, <2>1, <2>2, <2>3 DEF Worker, ServerTypeOK
  <1>3. ASSUME NEW s \in Rpcs, Broadcast(s)
        PROVE  TypeOK'
    <2>1. StoreTypeOK'
      BY <1>0, <1>3, BroadcastType DEF Broadcast, BroadcastStep, ServerTypeOK
    <2>2. WorkerTypeOK'
      BY <1>0, <1>3 DEF Broadcast, BroadcastStep, ServerTypeOK, WorkerTypeOK, workerVars
    <2>3. ServiceTypeOK'
      BY <1>0, <1>3 DEF Broadcast, BroadcastStep, ServerTypeOK, ServiceTypeOK, dispatchVars, handlerVars
    <2>4. QED
      BY <1>p, <1>c, <1>3, <2>1, <2>2, <2>3 DEF Broadcast, ServerTypeOK
  <1>4. ASSUME NEW s \in Rpcs, Handler(s)
        PROVE  TypeOK'
    BY <1>0, <1>p, <1>c, <1>4, HandlerType DEF Handler
  <1>5. ASSUME NEW c \in Clients, Client(c)
        PROVE  TypeOK'
    BY <1>0, <1>p, <1>5, ClientType
  <1>6. CASE UNCHANGED vars
    <2>1. UNCHANGED <<storeVars, workerVars, dispatchVars, handlerVars, clientVars>>
      BY <1>6 DEF vars
    <2>2. StoreTypeOK'
      BY <1>0, <2>1 DEF ServerTypeOK, StoreTypeOK, storeVars
    <2>3. WorkerTypeOK'
      BY <1>0, <2>1 DEF ServerTypeOK, WorkerTypeOK, workerVars
    <2>4. ServiceTypeOK'
      BY <1>0, <2>1 DEF ServerTypeOK, ServiceTypeOK, dispatchVars, handlerVars
    <2>5. QED
      BY <1>p, <1>c, <2>1, <2>2, <2>3, <2>4 DEF ServerTypeOK
  <1>7. QED
    BY <1>1, <1>2, <1>3, <1>4, <1>5, <1>6 DEF Next, Quiescent

(***************************************************************************)
(* Every variable of the control plane always has its type: no step of     *)
(* dispatch, worker, handler or client leaves the states they expect.      *)
(***************************************************************************)
THEOREM TypeCorrect == Spec => []TypeOK
  BY TypeInit, TypeNext, PTL DEF Spec

-----------------------------------------------------------------------------
(* The inductive invariant behind NoPanic, DenseOffsets and StreamInOrder. *)

\* A registered call has an open channel, is registered under the job it was
\* made for, and has not returned; a broadcast only offers to registered calls.
Registered ==
    /\ \A j \in Jobs : \A s \in logSubs[j] :
         chOpen[s] /\ href[s] = j /\ hpc[s] \in {"live", "send", "unsubscribe"}
    /\ \A s \in Rpcs : inflight[s] # <<>> => s \in logSubs[href[s]]

\* Offset n was handed out for the job of call s, or is one s asked to skip.
Reached(n, s) == n <= logOffsets[href[s]] \/ n <= after[s]

Bounded(s) ==
    /\ \A i \in 1..Len(logCh[s]) : logCh[s][i].offset <= logOffsets[href[s]]
    /\ \A i \in 1..Len(inflight[s]) : inflight[s][i].offset <= logOffsets[href[s]]
    /\ \A i \in 1..Len(pending[s]) : Reached(pending[s][i].offset, s)
    /\ Reached(lastOffset[s], s)

\* What a handler's program counter says about its queues.
Phase(s) ==
    /\ hpc[s] \in {"free", "snapshot", "replay", "check", "subscribe"} => logCh[s] = <<>>
    /\ hpc[s] \in {"free", "snapshot"} => lastOffset[s] = after[s]
    /\ pending[s] # <<>> => hpc[s] \in {"replay", "send"}
    /\ hpc[s] = "send" => Len(pending[s]) <= 1

CallInv(s) == Ordered(s) /\ Bounded(s) /\ Phase(s)

\* The part of the invariant that is not about types.
SafeInv == Registered /\ DenseOffsets /\ \A s \in Rpcs : CallInv(s)

\* The variables SafeInv speaks of.
coreVars == <<logs, logOffsets, logSubs, logCh, chOpen, inflight,
              hpc, href, after, lastOffset, pending>>

\* What the type invariant says about one call.
LEMMA CallTypes ==
    ASSUME TypeOK, NEW s \in Rpcs
    PROVE  /\ logCh[s] \in Seq(Chunks) /\ inflight[s] \in Seq(Chunks)
           /\ pending[s] \in Seq(Messages)
           /\ href[s] \in Jobs /\ after[s] \in Nat /\ lastOffset[s] \in Nat
           /\ logOffsets[href[s]] \in Nat
           /\ \A i \in 1..Len(logCh[s]) : logCh[s][i].offset \in Nat
           /\ \A i \in 1..Len(inflight[s]) : inflight[s][i].offset \in Nat
           /\ \A i \in 1..Len(pending[s]) : pending[s][i].offset \in Nat
  <1>1. /\ logCh[s] \in Seq(Chunks) /\ inflight[s] \in Seq(Chunks)
        /\ pending[s] \in Seq(Messages)
        /\ href[s] \in Jobs /\ after[s] \in Nat /\ lastOffset[s] \in Nat
    BY DEF TypeOK, StoreTypeOK, ServiceTypeOK
  <1>2. logOffsets[href[s]] \in Nat
    BY <1>1 DEF TypeOK, StoreTypeOK
  <1>3. ASSUME NEW q \in Seq(Chunks), NEW i \in 1..Len(q) PROVE q[i].offset \in Nat
    <2>1. q[i] \in Chunks
      OBVIOUS
    <2>2. QED
      BY <2>1 DEF Chunks
  <1>4. ASSUME NEW q \in Seq(Messages), NEW i \in 1..Len(q) PROVE q[i].offset \in Nat
    <2>1. q[i] \in Messages
      OBVIOUS
    <2>2. QED
      BY <2>1 DEF Messages
  <1>5. QED
    BY <1>1, <1>2, <1>3, <1>4

\* A step that leaves a call's own state alone, while the log may grow, keeps
\* the call's invariant.
LEMMA FrameCall ==
    ASSUME TypeOK, NEW r \in Rpcs, CallInv(r),
           pending'[r] = pending[r], logCh'[r] = logCh[r], inflight'[r] = inflight[r],
           lastOffset'[r] = lastOffset[r], after'[r] = after[r], href'[r] = href[r],
           hpc'[r] = hpc[r],
           logOffsets'[href[r]] \in Nat, logOffsets[href[r]] <= logOffsets'[href[r]]
    PROVE  CallInv(r)'
  <1>1. Ordered(r)'
    BY DEF CallInv, Ordered, NewTo, Increasing, Precedes
  <1>t. /\ href[r] \in Jobs /\ after[r] \in Nat /\ lastOffset[r] \in Nat
        /\ logOffsets[href[r]] \in Nat
        /\ \A i \in 1..Len(logCh[r]) : logCh[r][i].offset \in Nat
        /\ \A i \in 1..Len(inflight[r]) : inflight[r][i].offset \in Nat
        /\ \A i \in 1..Len(pending[r]) : pending[r][i].offset \in Nat
    BY CallTypes
  <1>b. Bounded(r)
    BY DEF CallInv
  <1>u. ASSUME NEW n \in Nat
        PROVE  /\ n <= logOffsets[href[r]] => n <= logOffsets'[href'[r]]
               /\ Reached(n, r) => Reached(n, r)'
    <2>1. n <= logOffsets[href[r]] => n <= logOffsets'[href'[r]]
      BY <1>t
    <2>2. QED
      BY <2>1 DEF Reached
  <1>2. Bounded(r)'
    <2>1. /\ \A i \in 1..Len(logCh[r]) : logCh'[r][i].offset <= logOffsets'[href'[r]]
          /\ \A i \in 1..Len(inflight[r]) : inflight'[r][i].offset <= logOffsets'[href'[r]]
      BY <1>t, <1>b, <1>u DEF Bounded
    <2>2. /\ \A i \in 1..Len(pending[r]) : Reached(pending[r][i].offset, r)'
          /\ Reached(lastOffset[r], r)'
      BY <1>t, <1>b, <1>u DEF Bounded
    <2>3. QED
      BY <2>1, <2>2 DEF Bounded, Reached
  <1>3. Phase(r)'
    BY DEF CallInv, Phase
  <1>4. QED
    BY <1>1, <1>2, <1>3 DEF CallInv

\* A step that leaves coreVars alone keeps SafeInv.
LEMMA FrameSafe == TypeOK /\ SafeInv /\ UNCHANGED coreVars => SafeInv'
  <1> SUFFICES ASSUME TypeOK, SafeInv, UNCHANGED coreVars PROVE SafeInv'
    OBVIOUS
  <1>1. Registered' /\ DenseOffsets'
    BY DEF SafeInv, Registered, DenseOffsets, coreVars
  <1>2. ASSUME NEW r \in Rpcs PROVE CallInv(r)'
    BY CallTypes, FrameCall DEF SafeInv, coreVars
  <1>3. QED
    BY <1>1, <1>2 DEF SafeInv

LEMMA SafeInit == Init => SafeInv
  <1> SUFFICES ASSUME Init PROVE SafeInv
    OBVIOUS
  <1>t. TypeOK
    BY TypeInit
  <1> USE DEF Init, StoreInit, ServiceInit
  <1>1. Registered /\ DenseOffsets
    BY DEF Registered, DenseOffsets
  <1>2. ASSUME NEW s \in Rpcs PROVE CallInv(s)
    <2>1. /\ pending[s] = <<>> /\ logCh[s] = <<>> /\ inflight[s] = <<>>
          /\ hpc[s] = "free" /\ lastOffset[s] = 0 /\ after[s] = 0
      OBVIOUS
    <2>2. Ordered(s)
      BY <2>1 DEF Ordered, Increasing, Precedes
    <2>3. Bounded(s)
      BY <2>1 DEF Bounded, Reached
    <2>4. Phase(s)
      BY <2>1 DEF Phase
    <2>5. QED
      BY <2>2, <2>3, <2>4 DEF CallInv
  <1>3. QED
    BY <1>1, <1>2 DEF SafeInv

(***************************************************************************)
(* AppendLogs: the stamped chunks are past every offset handed out before, *)
(* so they extend the log densely and go behind all that a call has queued.*)
(***************************************************************************)
LEMMA AppendSafe ==
    ASSUME TypeOK, SafeInv, NEW j \in Jobs, NEW ls \in Seq(Lines), AppendLogs(j, ls),
           UNCHANGED <<hpc, href, after, lastOffset, pending>>
    PROVE  SafeInv'
  <1>0. PICK new : new = Stamped(j, ls)
    OBVIOUS
  <1>1. /\ new \in Seq(Chunks) /\ Len(new) = Len(ls)
        /\ \A i \in 1..Len(ls) : new[i] = [offset |-> logOffsets[j] + i, line |-> ls[i]]
    BY <1>0, StampedType DEF TypeOK
  <1>t. /\ logOffsets \in [Jobs -> Nat] /\ logs \in [Jobs -> Seq(Chunks)]
        /\ inflight \in [Rpcs -> Seq(Chunks)] /\ Len(ls) \in Nat
    BY DEF TypeOK, StoreTypeOK
  <1>3. /\ logOffsets' = [logOffsets EXCEPT ![j] = @ + Len(ls)]
        /\ logs' = [logs EXCEPT ![j] = @ \o new]
        /\ inflight' = [s \in Rpcs |-> IF s \in logSubs[j] THEN new ELSE <<>>]
        /\ UNCHANGED <<logSubs, logCh, chOpen>>
        /\ \A s \in Rpcs : inflight[s] = <<>>
    BY <1>0 DEF AppendLogs, Unlocked
  <1>n. logOffsets[j] \in Nat
    BY <1>t
  <1>a. new \in Seq(Chunks) /\ Len(new) = Len(ls) /\ Len(new) \in Nat
    BY <1>1
  <1>2. \A i \in 1..Len(new) : new[i].offset = logOffsets[j] + i
    <2> SUFFICES ASSUME NEW i \in 1..Len(new) PROVE new[i].offset = logOffsets[j] + i
      OBVIOUS
    <2>1. new[i] = [offset |-> logOffsets[j] + i, line |-> ls[i]]
      BY <1>1
    <2>2. QED
      BY <2>1, <1>n
  <1>4. DenseOffsets'
     <2> SUFFICES ASSUME NEW k \in Jobs
                 PROVE  /\ Len(logs'[k]) = logOffsets'[k]
                        /\ \A i \in 1..Len(logs'[k]) : logs'[k][i].offset = i
      BY DEF DenseOffsets
    <2>1. /\ Len(logs[k]) = logOffsets[k]
          /\ \A i \in 1..Len(logs[k]) : logs[k][i].offset = i
      BY DEF SafeInv, DenseOffsets
    <2>2. CASE k # j
      BY <2>1, <2>2, <1>3, <1>t
    <2>3. CASE k = j
      <3>1. logs'[k] = logs[k] \o new /\ logOffsets'[k] = logOffsets[k] + Len(ls)
        BY <2>3, <1>3, <1>t
      <3>a. logs[k] \in Seq(Chunks)
        BY <1>t
      <3>b. Len(logs[k] \o new) = Len(logs[k]) + Len(new)
        BY <3>a, <1>a
      <3>2. logs[k] \in Seq(Chunks) /\ Len(logs'[k]) = Len(logs[k]) + Len(ls)
        BY <3>1, <3>a, <3>b, <1>a
      <3>3. ASSUME NEW i \in 1..Len(logs'[k]) PROVE logs'[k][i].offset = i
        <4>1. CASE i <= Len(logs[k])
          BY <4>1, <3>1, <3>2, <2>1, <1>a
        <4>2. CASE i > Len(logs[k])
          <5>1. logs'[k][i] = new[i - Len(logs[k])] /\ i - Len(logs[k]) \in 1..Len(new)
            BY <4>2, <3>1, <3>2, <1>a
          <5>2. new[i - Len(logs[k])].offset = logOffsets[k] + (i - Len(logs[k]))
            BY <5>1, <1>2, <2>3
          <5>3. Len(logs[k]) \in Nat /\ i \in Nat /\ logOffsets[k] = Len(logs[k])
            BY <2>1, <3>a, <3>2, <1>t
          <5>4. QED
            BY <5>1, <5>2, <5>3
        <4>3. QED
          BY <4>1, <4>2, <3>2
      <3>4. QED
        BY <3>1, <3>2, <3>3, <2>1
    <2>4. QED
      BY <2>2, <2>3
  <1>5. Registered'
    BY <1>3 DEF SafeInv, Registered
  <1>6. ASSUME NEW r \in Rpcs PROVE CallInv(r)'
    <2>0. CallInv(r) /\ inflight[r] = <<>>
      BY <1>3 DEF SafeInv
    <2>t. /\ href[r] \in Jobs
          /\ logOffsets'[href[r]] \in Nat /\ logOffsets[href[r]] <= logOffsets'[href[r]]
      BY CallTypes, <1>3, <1>t
    <2>1. CASE r \notin logSubs[j]
      <3>1. inflight'[r] = <<>>
        BY <2>1, <1>3
      <3>2. QED
        BY <2>0, <2>t, <3>1, <1>3, FrameCall
    <2>2. CASE r \in logSubs[j]
      <3>1. inflight'[r] = new /\ href[r] = j /\ logOffsets'[j] = logOffsets[j] + Len(ls)
        BY <2>2, <1>3, <1>t DEF SafeInv, Registered
      <3>u. /\ pending'[r] = pending[r] /\ logCh'[r] = logCh[r] /\ hpc'[r] = hpc[r]
            /\ lastOffset'[r] = lastOffset[r] /\ after'[r] = after[r] /\ href'[r] = href[r]
        BY <1>3
      <3>t. /\ after[r] \in Nat /\ lastOffset[r] \in Nat
            /\ logCh[r] \in Seq(Chunks) /\ pending[r] \in Seq(Messages)
            /\ \A i \in 1..Len(logCh[r]) : logCh[r][i].offset \in Nat
            /\ \A i \in 1..Len(pending[r]) : pending[r][i].offset \in Nat
        BY CallTypes
      <3>b. /\ \A i \in 1..Len(logCh[r]) : logCh[r][i].offset <= logOffsets[j]
            /\ \A i \in 1..Len(pending[r]) :
                 pending[r][i].offset <= logOffsets[j] \/ pending[r][i].offset <= after[r]
            /\ lastOffset[r] <= logOffsets[j] \/ lastOffset[r] <= after[r]
        BY <2>0, <3>1 DEF CallInv, Bounded, Reached
      <3>c. logOffsets'[href'[r]] = logOffsets[j] + Len(new)
        BY <3>1, <3>u, <1>a
      <3>d. \A i \in 1..Len(new) : new[i].offset <= logOffsets[j] + Len(new)
        <4> SUFFICES ASSUME NEW i \in 1..Len(new)
                     PROVE  new[i].offset <= logOffsets[j] + Len(new)
          OBVIOUS
        <4>1. new[i].offset = logOffsets[j] + i
          BY <1>2
        <4>2. QED
          BY <4>1, <1>a, <1>n
      <3>e. \A i \in 1..Len(logCh[r]) : logCh[r][i].offset <= logOffsets[j] + Len(new)
        BY <3>t, <3>b, <1>a, <1>n
      <3>f. \A i \in 1..Len(pending[r]) :
              pending[r][i].offset <= logOffsets[j] + Len(new) \/ pending[r][i].offset <= after[r]
        <4> SUFFICES ASSUME NEW i \in 1..Len(pending[r])
                     PROVE  \/ pending[r][i].offset <= logOffsets[j] + Len(new)
                            \/ pending[r][i].offset <= after[r]
          OBVIOUS
        <4>1. /\ pending[r][i].offset \in Nat
              /\ pending[r][i].offset <= logOffsets[j] \/ pending[r][i].offset <= after[r]
          BY <3>t, <3>b
        <4>2. QED
          BY <4>1, <1>a, <1>n
      <3>g. lastOffset[r] <= logOffsets[j] + Len(new) \/ lastOffset[r] <= after[r]
        <4>1. lastOffset[r] \in Nat /\ Len(new) \in Nat
          BY <3>t, <1>a
        <4>2. CASE lastOffset[r] <= logOffsets[j]
          BY <4>1, <4>2, <1>n
        <4>3. QED
          BY <3>b, <4>2
      <3>2. Bounded(r)'
        BY <3>c, <3>d, <3>e, <3>f, <3>g, <3>1, <3>u DEF Bounded, Reached
      <3>3. Increasing(new)
        <4> SUFFICES ASSUME NEW a \in 1..Len(new), NEW b \in 1..Len(new), a < b
                     PROVE  new[a].offset < new[b].offset
          BY DEF Increasing
        <4>1. new[a].offset = logOffsets[j] + a /\ new[b].offset = logOffsets[j] + b
          BY <1>2
        <4>2. a \in Nat /\ b \in Nat
          BY <1>a
        <4>3. QED
          BY <4>1, <4>2, <1>n
      <3>4. Precedes(logCh[r], new)
        <4> SUFFICES ASSUME NEW a \in 1..Len(logCh[r]), NEW b \in 1..Len(new)
                     PROVE  logCh[r][a].offset < new[b].offset
          BY DEF Precedes
        <4>1. new[b].offset = logOffsets[j] + b
          BY <1>2
        <4>2. b \in Nat \ {0}
          BY <1>a
        <4>3. logCh[r][a].offset \in Nat /\ logCh[r][a].offset <= logOffsets[j]
          BY <3>t, <3>b
        <4>4. QED
          BY <4>1, <4>2, <4>3, <1>n
      <3>5. ASSUME NEW b \in 1..Len(new) PROVE NewTo(new[b], r)
        <4>1. new[b].offset = logOffsets[j] + b
          BY <1>2
        <4>2. b \in Nat \ {0}
          BY <1>a
        <4>3. new[b].offset > after[r] => new[b].offset > lastOffset[r]
          BY <4>1, <4>2, <3>t, <3>b, <1>n
        <4>4. new[b].offset > after[r] =>
                \A a \in 1..Len(pending[r]) : pending[r][a].offset < new[b].offset
          <5> SUFFICES ASSUME new[b].offset > after[r], NEW a \in 1..Len(pending[r])
                       PROVE  pending[r][a].offset < new[b].offset
            OBVIOUS
          <5>1. /\ pending[r][a].offset \in Nat
                /\ pending[r][a].offset <= logOffsets[j] \/ pending[r][a].offset <= after[r]
            BY <3>t, <3>b
          <5>2. after[r] \in Nat
            BY <3>t
          <5>3. CASE pending[r][a].offset <= logOffsets[j]
            BY <5>1, <5>3, <4>1, <4>2, <1>n
          <5>4. CASE pending[r][a].offset <= after[r]
            <6>1. new[b].offset \in Nat
              BY <4>1, <4>2, <1>n
            <6>2. QED
              BY <5>1, <5>2, <5>4, <6>1
          <5>5. QED
            BY <5>1, <5>3, <5>4
        <4>5. QED
          BY <4>3, <4>4 DEF NewTo
      <3>6. Ordered(r)'
        BY <2>0, <3>1, <3>u, <3>3, <3>4, <3>5
           DEF CallInv, Ordered, NewTo, Increasing, Precedes
      <3>7. Phase(r)'
        BY <2>0, <3>u DEF CallInv, Phase
      <3>8. QED
        BY <3>2, <3>6, <3>7 DEF CallInv
    <2>3. QED
      BY <2>1, <2>2
  <1>7. QED
    BY <1>4, <1>5, <1>6 DEF SafeInv

\* Removing the head of a queue.
LEMMA TailFacts ==
    ASSUME NEW S, NEW q \in Seq(S), q # <<>>
    PROVE  /\ Tail(q) \in Seq(S) /\ Head(q) = q[1] /\ Len(q) \in Nat /\ 1 \in 1..Len(q)
           /\ \A i \in 1..Len(Tail(q)) : Tail(q)[i] = q[i + 1] /\ i + 1 \in 1..Len(q)
           /\ Increasing(q) =>
                /\ Increasing(Tail(q))
                /\ \A i \in 1..Len(Tail(q)) : Head(q).offset < Tail(q)[i].offset
  <1>1. /\ Tail(q) \in Seq(S) /\ Head(q) = q[1] /\ Len(q) \in Nat /\ 1 \in 1..Len(q)
    OBVIOUS
  <1>2. \A i \in 1..Len(Tail(q)) : Tail(q)[i] = q[i + 1] /\ i + 1 \in 1..Len(q)
    OBVIOUS
  <1>3. ASSUME Increasing(q)
        PROVE  /\ Increasing(Tail(q))
               /\ \A i \in 1..Len(Tail(q)) : Head(q).offset < Tail(q)[i].offset
    <2>1. ASSUME NEW a \in 1..Len(Tail(q)), NEW b \in 1..Len(Tail(q)), a < b
          PROVE  Tail(q)[a].offset < Tail(q)[b].offset
      <3>1. /\ Tail(q)[a] = q[a + 1] /\ a + 1 \in 1..Len(q)
            /\ Tail(q)[b] = q[b + 1] /\ b + 1 \in 1..Len(q) /\ a + 1 < b + 1
        BY <1>2, <2>1
      <3>2. QED
        BY <3>1, <1>3 DEF Increasing
    <2>2. ASSUME NEW i \in 1..Len(Tail(q)) PROVE Head(q).offset < Tail(q)[i].offset
      <3>1. Tail(q)[i] = q[i + 1] /\ i + 1 \in 1..Len(q) /\ 1 < i + 1
        BY <1>2
      <3>2. QED
        BY <3>1, <1>1, <1>3 DEF Increasing
    <2>3. QED
      BY <2>1, <2>2 DEF Increasing
  <1>4. QED
    BY <1>1, <1>2, <1>3

\* Adding an element behind a queue.
LEMMA AppendFacts ==
    ASSUME NEW S, NEW q \in Seq(S), NEW e \in S
    PROVE  /\ \A i \in 1..Len(Append(q, e)) :
                 \/ i \in 1..Len(q) /\ Append(q, e)[i] = q[i]
                 \/ i = Len(q) + 1 /\ Append(q, e)[i] = e
           /\ Increasing(q) /\ (\A i \in 1..Len(q) : q[i].offset < e.offset)
                => Increasing(Append(q, e))
  <1>1. \A i \in 1..Len(Append(q, e)) :
                 \/ i \in 1..Len(q) /\ Append(q, e)[i] = q[i]
                 \/ i = Len(q) + 1 /\ Append(q, e)[i] = e
    OBVIOUS
  <1>2. ASSUME Increasing(q), \A i \in 1..Len(q) : q[i].offset < e.offset,
               NEW a \in 1..Len(Append(q, e)), NEW b \in 1..Len(Append(q, e)), a < b
        PROVE  Append(q, e)[a].offset < Append(q, e)[b].offset
    <2>1. a \in 1..Len(q) /\ Append(q, e)[a] = q[a]
      BY <1>2, <1>1
    <2>2. CASE b \in 1..Len(q) /\ Append(q, e)[b] = q[b]
      BY <2>1, <2>2, <1>2 DEF Increasing
    <2>3. CASE Append(q, e)[b] = e
      BY <2>1, <2>3, <1>2
    <2>4. QED
      BY <1>1, <2>2, <2>3
  <1>3. QED
    BY <1>1, <1>2 DEF Increasing

(***************************************************************************)
(* The broadcast moves the head of what it has to offer to the end of the  *)
(* channel, or drops it; either way nothing changes places.                *)
(***************************************************************************)
LEMMA BroadcastSafe ==
    ASSUME TypeOK, SafeInv, NEW s \in Rpcs, BroadcastOne(s),
           UNCHANGED <<hpc, href, after, lastOffset, pending>>
    PROVE  SafeInv'
  <1>t. /\ logCh \in [Rpcs -> Seq(Chunks)] /\ inflight \in [Rpcs -> Seq(Chunks)]
        /\ logOffsets \in [Jobs -> Nat]
    BY DEF TypeOK, StoreTypeOK
  <1>1. /\ inflight[s] # <<>> /\ inflight' = [inflight EXCEPT ![s] = Tail(@)]
        /\ UNCHANGED <<logs, logOffsets, logSubs, chOpen>>
        /\ \A r \in Rpcs \ {s} : logCh'[r] = logCh[r]
        /\ logCh'[s] = logCh[s] \/ logCh'[s] = Append(logCh[s], Head(inflight[s]))
    BY <1>t DEF BroadcastOne
  <1>2. DenseOffsets'
    BY <1>1 DEF SafeInv, DenseOffsets
  <1>3. Registered'
    BY <1>1, <1>t DEF SafeInv, Registered
  <1>4. ASSUME NEW r \in Rpcs PROVE CallInv(r)'
    <2>0. CallInv(r)
      BY DEF SafeInv
    <2>1. CASE r # s
      <3>1. inflight'[r] = inflight[r] /\ logCh'[r] = logCh[r]
        BY <2>1, <1>1, <1>t
      <3>2. QED
        BY <2>0, <3>1, <1>1, CallTypes, FrameCall
    <2>2. CASE r = s
      <3> DEFINE q == inflight[s]
                 e == Head(inflight[s])
      <3>1. /\ q \in Seq(Chunks) /\ q # <<>> /\ logCh[s] \in Seq(Chunks)
        BY <1>1, <1>t
      <3>2. e \in Chunks
        BY <3>1
      <3>3. /\ Head(q) = q[1] /\ 1 \in 1..Len(q)
            /\ \A i \in 1..Len(Tail(q)) : Tail(q)[i] = q[i + 1] /\ i + 1 \in 1..Len(q)
            /\ Increasing(Tail(q))
            /\ \A i \in 1..Len(Tail(q)) : Head(q).offset < Tail(q)[i].offset
        BY <3>1, <2>0, <2>2, TailFacts DEF CallInv, Ordered
      <3>u. /\ pending'[s] = pending[s] /\ hpc'[s] = hpc[s] /\ inflight'[s] = Tail(q)
            /\ lastOffset'[s] = lastOffset[s] /\ after'[s] = after[s] /\ href'[s] = href[s]
            /\ logOffsets'[href'[s]] = logOffsets[href[s]]
        BY <1>1, <1>t
      <3> HIDE DEF q, e
      <3>i. /\ Ordered(s) /\ Bounded(s) /\ Phase(s)
            /\ q = inflight[s] /\ e = q[1]
        BY <2>0, <2>2, <3>3 DEF CallInv, q, e
      <3>4. /\ \A i \in 1..Len(Tail(q)) : Tail(q)[i].offset <= logOffsets[href[s]]
            /\ \A i \in 1..Len(Tail(q)) : NewTo(Tail(q)[i], s)
            /\ e.offset <= logOffsets[href[s]] /\ NewTo(e, s)
        BY <3>3, <3>i DEF Bounded, Ordered
      <3>5. Precedes(logCh[s], Tail(q))
        BY <3>3, <3>i DEF Ordered, Precedes
      <3>6. /\ \A i \in 1..Len(logCh'[s]) :
                 logCh'[s][i].offset <= logOffsets[href[s]] /\ NewTo(logCh'[s][i], s)
            /\ Increasing(logCh'[s])
            /\ Precedes(logCh'[s], Tail(q))
        <4>1. CASE logCh'[s] = logCh[s]
          BY <4>1, <3>5, <3>i DEF Bounded, Ordered
        <4>2. CASE logCh'[s] = Append(logCh[s], e)
          <5>1. \A i \in 1..Len(logCh[s]) : logCh[s][i].offset < e.offset
            BY <3>3, <3>i DEF Ordered, Precedes
          <5>2. /\ \A i \in 1..Len(logCh'[s]) :
                      \/ i \in 1..Len(logCh[s]) /\ logCh'[s][i] = logCh[s][i]
                      \/ logCh'[s][i] = e
                /\ Increasing(logCh'[s])
            <6>1. Increasing(logCh[s])
              BY <3>i DEF Ordered
            <6>2. logCh[s] \in Seq(Chunks) /\ e \in Chunks
              BY <3>1, <3>2
            <6>3. /\ \A i \in 1..Len(Append(logCh[s], e)) :
                        \/ i \in 1..Len(logCh[s]) /\ Append(logCh[s], e)[i] = logCh[s][i]
                        \/ i = Len(logCh[s]) + 1 /\ Append(logCh[s], e)[i] = e
                  /\ Increasing(Append(logCh[s], e))
              BY <6>1, <6>2, <5>1, AppendFacts
            <6>4. QED
              BY <6>3, <4>2
          <5>3. \A i \in 1..Len(Tail(q)) : e.offset < Tail(q)[i].offset
            BY <3>3, <3>i
          <5>4. Precedes(logCh'[s], Tail(q))
            BY <5>2, <5>3, <3>5 DEF Precedes
          <5>5. QED
            BY <5>2, <5>4, <3>4, <3>i DEF Bounded, Ordered
        <4>3. QED
          BY <1>1, <4>1, <4>2, <3>i DEF e
      <3>7. Ordered(s)'
        BY <3>6, <3>4, <3>3, <3>u, <3>i DEF Ordered, NewTo, Increasing, Precedes
      <3>8. Bounded(s)'
        BY <3>6, <3>4, <3>u, <3>i DEF Bounded, Reached
      <3>9. Phase(s)'
        <4>1. s \in logSubs[href[s]]
          BY <1>1 DEF SafeInv, Registered
        <4>2. hpc[s] \in {"live", "send", "unsubscribe"}
          BY <4>1, CallTypes DEF SafeInv, Registered
        <4>3. QED
          BY <4>2, <3>u, <3>i DEF Phase
      <3>10. QED
        BY <3>7, <3>8, <3>9, <2>2 DEF CallInv
    <2>3. QED
      BY <2>1, <2>2
  <1>5. QED
    BY <1>2, <1>3, <1>4 DEF SafeInv

(***************************************************************************)
(* A step of the handler of call s that leaves the subscriptions alone: it *)
(* is enough to look at s.                                                 *)
(***************************************************************************)
LEMMA OneCall ==
    ASSUME TypeOK, SafeInv, NEW s \in Rpcs,
           UNCHANGED <<logs, logOffsets, logSubs, chOpen, inflight, href, after>>,
           \A r \in Rpcs \ {s} : /\ pending'[r] = pending[r] /\ logCh'[r] = logCh[r]
                                 /\ lastOffset'[r] = lastOffset[r] /\ hpc'[r] = hpc[r],
           s \in logSubs[href[s]] => hpc'[s] \in {"live", "send", "unsubscribe"},
           CallInv(s)'
    PROVE  SafeInv'
  <1>1. DenseOffsets'
    BY DEF SafeInv, DenseOffsets
  <1>2. Registered'
    <2>1. ASSUME NEW j \in Jobs, NEW r \in logSubs[j]
          PROVE  chOpen[r] /\ href[r] = j /\ hpc'[r] \in {"live", "send", "unsubscribe"}
      <3>1. r \in Rpcs
        BY DEF TypeOK, StoreTypeOK
      <3>2. chOpen[r] /\ href[r] = j /\ hpc[r] \in {"live", "send", "unsubscribe"}
        BY DEF SafeInv, Registered
      <3>3. QED
        BY <3>1, <3>2
    <2>2. QED
      BY <2>1 DEF SafeInv, Registered
  <1>3. ASSUME NEW r \in Rpcs PROVE CallInv(r)'
    <2>1. CASE r = s
      BY <2>1
    <2>2. CASE r # s
      <3>1. CallInv(r)
        BY DEF SafeInv
      <3>2. QED
        BY <2>2, <3>1, CallTypes, FrameCall
    <2>3. QED
      BY <2>1, <2>2
  <1>4. QED
    BY <1>1, <1>2, <1>3 DEF SafeInv

\* Steps that only move a handler's program counter keep SafeInv.
LEMMA PcStepSafe ==
    ASSUME TypeOK, SafeInv, NEW s \in Rpcs,
           ReplayDone(s) \/ CheckState(s) \/ ChannelClosed(s) \/ ContextDone(s)
    PROVE  SafeInv'
  <1>t. hpc \in [Rpcs -> {"free", "snapshot", "replay", "check", "subscribe",
                         "live", "send", "unsubscribe", "done"}]
    BY DEF TypeOK, ServiceTypeOK
  <1>1. UNCHANGED <<logs, logOffsets, logSubs, logCh, chOpen, inflight,
                    href, after, lastOffset, pending>>
    BY DEF ReplayDone, CheckState, ChannelClosed, ContextDone, storeVars
  <1>2. /\ \A r \in Rpcs \ {s} : hpc'[r] = hpc[r]
        /\ \/ hpc[s] \in {"replay", "check"} /\ hpc'[s] \in {"check", "subscribe", "done"}
           \/ hpc[s] = "live" /\ hpc'[s] = "unsubscribe"
        /\ hpc[s] = "replay" => pending[s] = <<>>
    BY <1>t DEF ReplayDone, CheckState, ChannelClosed, ContextDone
  <1>3. s \in logSubs[href[s]] => hpc'[s] \in {"live", "send", "unsubscribe"}
    BY <1>2, CallTypes DEF SafeInv, Registered
  <1>4. CallInv(s)'
    <2>0. Ordered(s) /\ Bounded(s) /\ Phase(s)
      BY DEF SafeInv, CallInv
    <2>1. Phase(s)'
      BY <2>0, <1>1, <1>2 DEF Phase
    <2>2. Ordered(s)'
      BY <2>0, <1>1, <1>2 DEF Ordered, NewTo, Increasing, Precedes
    <2>3. Bounded(s)'
      BY <2>0, <1>1 DEF Bounded, Reached
    <2>4. QED
      BY <2>1, <2>2, <2>3 DEF CallInv
  <1>5. QED
    BY <1>1, <1>2, <1>3, <1>4, OneCall

\* Taking the snapshot keeps SafeInv: the log is dense, and the channel does
\* not exist yet.
LEMMA SnapshotSafe ==
    ASSUME TypeOK, SafeInv, NEW s \in Rpcs, SnapshotLogs(s)
    PROVE  SafeInv'
  <1>t. /\ hpc \in [Rpcs -> {"free", "snapshot", "replay", "check", "subscribe",
                             "live", "send", "unsubscribe", "done"}]
        /\ pending \in [Rpcs -> Seq(Messages)] /\ href[s] \in Jobs
        /\ logs[href[s]] \in Seq(Chunks)
    BY DEF TypeOK, ServiceTypeOK, StoreTypeOK
  <1>1. /\ hpc[s] = "snapshot" /\ hpc'[s] = "replay" /\ pending'[s] = logs[href[s]]
        /\ inflight[s] = <<>>
        /\ \A r \in Rpcs \ {s} : hpc'[r] = hpc[r] /\ pending'[r] = pending[r]
        /\ UNCHANGED <<logs, logOffsets, logSubs, logCh, chOpen, inflight, href, after, lastOffset>>
    BY <1>t DEF SnapshotLogs, storeVars, Unlocked
  <1>2. s \notin logSubs[href[s]]
    BY <1>1, <1>t DEF SafeInv, Registered
  <1>3. logCh[s] = <<>> /\ lastOffset[s] = after[s]
    BY <1>1 DEF SafeInv, CallInv, Phase
  <1>4. /\ Len(logs[href[s]]) = logOffsets[href[s]]
        /\ \A i \in 1..Len(logs[href[s]]) : logs[href[s]][i].offset = i
    BY <1>t DEF SafeInv, DenseOffsets
  <1>5. Increasing(pending'[s])
    BY <1>1, <1>4, <1>t DEF Increasing
  <1>6. Ordered(s)'
    BY <1>1, <1>3, <1>5 DEF Ordered, Increasing, Precedes
  <1>7. Bounded(s)'
    <2>1. Reached(lastOffset[s], s)
      BY DEF SafeInv, CallInv, Bounded
    <2>2. \A i \in 1..Len(logs[href[s]]) : logs[href[s]][i].offset <= logOffsets[href[s]]
      BY <1>4, CallTypes
    <2>3. QED
      BY <1>1, <1>3, <2>1, <2>2 DEF Bounded, Reached
  <1>8. Phase(s)'
    BY <1>1, <1>3 DEF Phase
  <1>9. QED
    BY <1>1, <1>2, <1>6, <1>7, <1>8, OneCall DEF CallInv

\* Skipping or sending the next pending message keeps SafeInv.
LEMMA SendSafe ==
    ASSUME TypeOK, SafeInv, NEW s \in Rpcs, SkipStored(s) \/ Send(s)
    PROVE  SafeInv'
  <1>t. /\ hpc \in [Rpcs -> {"free", "snapshot", "replay", "check", "subscribe",
                             "live", "send", "unsubscribe", "done"}]
        /\ pending \in [Rpcs -> Seq(Messages)] /\ lastOffset \in [Rpcs -> Nat]
        /\ pending[s] \in Seq(Messages)
    BY DEF TypeOK, ServiceTypeOK
  <1>0. PICK p, m : p = pending[s] /\ m = Head(p)
    OBVIOUS
  <1>1. /\ p # <<>> /\ hpc[s] \in {"replay", "send"} /\ pending'[s] = Tail(p)
        /\ hpc'[s] = hpc[s] \/ (hpc[s] = "send" /\ hpc'[s] = "live")
        /\ hpc'[s] = "send" => SkipStored(s)
        /\ lastOffset'[s] = lastOffset[s] \/ lastOffset'[s] = Advance(lastOffset[s], m)
        /\ \A r \in Rpcs \ {s} : /\ hpc'[r] = hpc[r] /\ pending'[r] = pending[r]
                                 /\ lastOffset'[r] = lastOffset[r]
        /\ UNCHANGED <<logs, logOffsets, logSubs, logCh, chOpen, inflight, href, after>>
    BY <1>0, <1>t DEF SkipStored, Send, Sending, storeVars
  <1>2. /\ Tail(p) \in Seq(Messages) /\ m = p[1] /\ 1 \in 1..Len(p)
        /\ \A i \in 1..Len(Tail(p)) : Tail(p)[i] = p[i + 1] /\ i + 1 \in 1..Len(p)
        /\ Increasing(Tail(p))
        /\ \A i \in 1..Len(Tail(p)) : m.offset < Tail(p)[i].offset
    BY <1>0, <1>1, <1>t, TailFacts DEF SafeInv, CallInv, Ordered
  <1>i. Ordered(s) /\ Bounded(s) /\ Phase(s)
    BY DEF SafeInv, CallInv
  <1>3. lastOffset'[s] = lastOffset[s] \/ lastOffset'[s] = m.offset
    BY <1>1 DEF Advance
  <1>4. s \in logSubs[href[s]] => hpc'[s] \in {"live", "send", "unsubscribe"}
    <2>1. s \in logSubs[href[s]] => hpc[s] \in {"live", "send", "unsubscribe"}
      BY CallTypes DEF SafeInv, Registered
    <2>2. QED
      BY <1>1, <2>1
  <1>5. ASSUME NEW x, NewTo(x, s) PROVE NewTo(x, s)'
    <2>1. ASSUME x.offset > after[s]
          PROVE  /\ x.offset > lastOffset'[s]
                 /\ \A a \in 1..Len(Tail(p)) : Tail(p)[a].offset < x.offset
      <3>1. /\ x.offset > lastOffset[s]
            /\ \A a \in 1..Len(p) : p[a].offset < x.offset
        BY <1>5, <2>1, <1>0 DEF NewTo
      <3>2. QED
        BY <3>1, <1>2, <1>3
    <2>2. QED
      BY <2>1, <1>1 DEF NewTo
  <1>6. Ordered(s)'
    <2>1. ASSUME hpc'[s] = "replay", NEW a \in 1..Len(Tail(p)), Tail(p)[a].offset > after[s]
          PROVE  Tail(p)[a].offset > lastOffset'[s]
      <3>1. Tail(p)[a].offset > lastOffset[s]
        BY <2>1, <1>0, <1>1, <1>2, <1>i DEF Ordered
      <3>2. QED
        BY <3>1, <1>2, <1>3
    <2>2. QED
      BY <2>1, <1>1, <1>2, <1>5, <1>i DEF Ordered, Increasing, Precedes
  <1>7. Bounded(s)'
    <2>1. Reached(m.offset, s) /\ \A i \in 1..Len(Tail(p)) : Reached(Tail(p)[i].offset, s)
      BY <1>0, <1>2, <1>i DEF Bounded
    <2>2. QED
      BY <2>1, <1>1, <1>3, <1>i DEF Bounded, Reached
  <1>8. Phase(s)'
    <2>1. hpc[s] = "send" => Tail(p) = <<>>
      BY <1>0, <1>1, <1>2, <1>t, <1>i DEF Phase
    <2>2. ASSUME SkipStored(s) PROVE hpc[s] = "replay" /\ hpc'[s] = "replay"
      BY <2>2 DEF SkipStored
    <2>3. QED
      BY <2>1, <2>2, <1>1, <1>i DEF Phase
  <1>9. QED
    BY <1>1, <1>4, <1>6, <1>7, <1>8, OneCall DEF CallInv

\* A failed Send drops what was pending and keeps SafeInv.
LEMMA SendFailsSafe ==
    ASSUME TypeOK, SafeInv, NEW s \in Rpcs, SendFails(s)
    PROVE  SafeInv'
  <1>t. /\ hpc \in [Rpcs -> {"free", "snapshot", "replay", "check", "subscribe",
                             "live", "send", "unsubscribe", "done"}]
        /\ pending \in [Rpcs -> Seq(Messages)]
    BY DEF TypeOK, ServiceTypeOK
  <1>1. /\ hpc[s] \in {"replay", "send"} /\ pending'[s] = <<>>
        /\ hpc[s] = "send" => hpc'[s] = "unsubscribe"
        /\ hpc[s] = "replay" => hpc'[s] = "done"
        /\ \A r \in Rpcs \ {s} : hpc'[r] = hpc[r] /\ pending'[r] = pending[r]
        /\ UNCHANGED <<logs, logOffsets, logSubs, logCh, chOpen, inflight,
                       href, after, lastOffset>>
    BY <1>t DEF SendFails, Sending, storeVars
  <1>2. s \in logSubs[href[s]] => hpc'[s] \in {"live", "send", "unsubscribe"}
    BY <1>1, CallTypes DEF SafeInv, Registered
  <1>i. Ordered(s) /\ Bounded(s) /\ Phase(s)
    BY DEF SafeInv, CallInv
  <1>3. Ordered(s)'
    BY <1>1, <1>i DEF Ordered, NewTo, Increasing, Precedes
  <1>4. Bounded(s)'
    BY <1>1, <1>i DEF Bounded, Reached
  <1>5. Phase(s)'
    BY <1>1, <1>i DEF Phase
  <1>6. QED
    BY <1>1, <1>2, <1>3, <1>4, <1>5, OneCall DEF CallInv

\* A heartbeat carries the cursor: whatever is queued is past it.
LEMMA HeartbeatSafe ==
    ASSUME TypeOK, SafeInv, NEW s \in Rpcs, HeartbeatTick(s)
    PROVE  SafeInv'
  <1>t. /\ hpc \in [Rpcs -> {"free", "snapshot", "replay", "check", "subscribe",
                             "live", "send", "unsubscribe", "done"}]
        /\ pending \in [Rpcs -> Seq(Messages)]
    BY DEF TypeOK, ServiceTypeOK
  <1>0. PICK p : p = <<[offset |-> lastOffset[s], line |-> Heartbeat]>>
    OBVIOUS
  <1>1. /\ hpc[s] = "live" /\ hpc'[s] = "send" /\ pending'[s] = p
        /\ \A r \in Rpcs \ {s} : hpc'[r] = hpc[r] /\ pending'[r] = pending[r]
        /\ UNCHANGED <<logs, logOffsets, logSubs, logCh, chOpen, inflight,
                       href, after, lastOffset>>
    BY <1>0, <1>t DEF HeartbeatTick, storeVars
  <1>2. Len(p) = 1 /\ \A i \in 1..Len(p) : i = 1 /\ p[i].offset = lastOffset[s]
    BY <1>0
  <1>i. Ordered(s) /\ Bounded(s) /\ Phase(s)
    BY DEF SafeInv, CallInv
  <1>3. ASSUME NEW x, NewTo(x, s) PROVE NewTo(x, s)'
    BY <1>1, <1>2, <1>3 DEF NewTo
  <1>4. Increasing(p)
    BY <1>2 DEF Increasing
  <1>5. Ordered(s)'
    BY <1>1, <1>3, <1>4, <1>i DEF Ordered, Increasing, Precedes
  <1>6. Bounded(s)'
    BY <1>1, <1>2, <1>i DEF Bounded, Reached
  <1>7. Phase(s)'
    BY <1>1, <1>2, <1>i DEF Phase
  <1>8. QED
    BY <1>1, <1>5, <1>6, <1>7, OneCall DEF CallInv

\* Receiving a chunk takes the head of the channel: the rest is behind it.
LEMMA ReceiveSafe ==
    ASSUME TypeOK, SafeInv, NEW s \in Rpcs, ReceiveChunk(s)
    PROVE  SafeInv'
  <1>t. /\ hpc \in [Rpcs -> {"free", "snapshot", "replay", "check", "subscribe",
                             "live", "send", "unsubscribe", "done"}]
        /\ pending \in [Rpcs -> Seq(Messages)] /\ logCh \in [Rpcs -> Seq(Chunks)]
        /\ logCh[s] \in Seq(Chunks)
    BY DEF TypeOK, ServiceTypeOK, StoreTypeOK
  <1>0. PICK q, e : q = logCh[s] /\ e = Head(q)
    OBVIOUS
  <1>1. /\ hpc[s] = "live" /\ q # <<>> /\ logCh'[s] = Tail(q)
        /\ \/ hpc'[s] = "live" /\ pending'[s] = pending[s]
           \/ hpc'[s] = "send" /\ pending'[s] = <<e>> /\ ~(e.offset <= after[s])
        /\ \A r \in Rpcs \ {s} : /\ hpc'[r] = hpc[r] /\ pending'[r] = pending[r]
                                 /\ logCh'[r] = logCh[r]
        /\ UNCHANGED <<logs, logOffsets, logSubs, chOpen, inflight, href, after, lastOffset>>
    BY <1>0, <1>t DEF ReceiveChunk
  <1>i. Ordered(s) /\ Bounded(s) /\ Phase(s)
    BY DEF SafeInv, CallInv
  <1>p. pending[s] = <<>>
    BY <1>1, <1>i DEF Phase
  <1>2. /\ Tail(q) \in Seq(Chunks) /\ e = q[1] /\ 1 \in 1..Len(q)
        /\ \A i \in 1..Len(Tail(q)) : Tail(q)[i] = q[i + 1] /\ i + 1 \in 1..Len(q)
        /\ Increasing(Tail(q))
        /\ \A i \in 1..Len(Tail(q)) : e.offset < Tail(q)[i].offset
    BY <1>0, <1>1, <1>t, <1>i, TailFacts DEF Ordered
  <1>3. \A i \in 1..Len(inflight[s]) : e.offset < inflight[s][i].offset
    BY <1>0, <1>2, <1>i DEF Ordered, Precedes
  <1>4. Precedes(Tail(q), inflight[s])
    BY <1>0, <1>2, <1>i DEF Ordered, Precedes
  <1>5. ASSUME NEW x, NewTo(x, s), e.offset < x.offset PROVE NewTo(x, s)'
    <2>1. CASE pending'[s] = pending[s]
      BY <2>1, <1>1, <1>5 DEF NewTo
    <2>2. CASE pending'[s] = <<e>>
      <3>1. \A a \in 1..Len(<<e>>) : <<e>>[a] = e
        OBVIOUS
      <3>2. QED
        BY <2>2, <3>1, <1>1, <1>5 DEF NewTo
    <2>3. QED
      BY <1>1, <2>1, <2>2
  <1>6. Ordered(s)'
    <2>1. Increasing(pending'[s])
      <3>1. Increasing(<<e>>)
        BY DEF Increasing
      <3>2. QED
        BY <3>1, <1>1, <1>i DEF Ordered
    <2>2. \A i \in 1..Len(Tail(q)) : NewTo(Tail(q)[i], s)
      BY <1>0, <1>2, <1>i DEF Ordered
    <2>3. \A i \in 1..Len(Tail(q)) : NewTo(Tail(q)[i], s)'
      BY <2>2, <1>2, <1>5, <1>1
    <2>4. \A i \in 1..Len(inflight[s]) : NewTo(inflight[s][i], s)'
      BY <1>i, <1>3, <1>5, <1>1 DEF Ordered
    <2>5. QED
      BY <2>1, <2>3, <2>4, <1>1, <1>2, <1>4, <1>i DEF Ordered, Increasing, Precedes
  <1>7. Bounded(s)'
    <2>1. /\ \A i \in 1..Len(Tail(q)) : Tail(q)[i].offset <= logOffsets[href[s]]
          /\ e.offset <= logOffsets[href[s]]
      BY <1>0, <1>2, <1>i DEF Bounded
    <2>2. \A i \in 1..Len(pending'[s]) : Reached(pending'[s][i].offset, s)
      <3>1. CASE pending'[s] = pending[s]
        BY <3>1, <1>i DEF Bounded
      <3>2. CASE pending'[s] = <<e>>
        <4>1. \A a \in 1..Len(<<e>>) : <<e>>[a] = e
          OBVIOUS
        <4>2. QED
          BY <4>1, <3>2, <2>1 DEF Reached
      <3>3. QED
        BY <1>1, <3>1, <3>2
    <2>3. QED
      BY <2>1, <2>2, <1>1, <1>i DEF Bounded, Reached
  <1>8. Phase(s)'
    <2>1. Len(<<e>>) = 1
      OBVIOUS
    <2>2. CASE hpc'[s] = "live" /\ pending'[s] = pending[s]
      BY <2>2, <1>p DEF Phase
    <2>3. CASE hpc'[s] = "send" /\ pending'[s] = <<e>>
      BY <2>1, <2>3 DEF Phase
    <2>4. QED
      BY <2>2, <2>3, <1>1
  <1>9. QED
    BY <1>1, <1>6, <1>7, <1>8, OneCall DEF CallInv

\* Subscribing after the snapshot: the channel starts empty, so only chunks
\* past all that was sent will enter it.
LEMMA SubscribeSafe ==
    ASSUME TypeOK, SafeInv, NEW s \in Rpcs, Subscribe(s)
    PROVE  SafeInv'
  <1>t. /\ hpc \in [Rpcs -> {"free", "snapshot", "replay", "check", "subscribe",
                             "live", "send", "unsubscribe", "done"}]
        /\ logCh \in [Rpcs -> Seq(Chunks)] /\ chOpen \in [Rpcs -> BOOLEAN]
        /\ logSubs \in [Jobs -> SUBSET Rpcs] /\ href[s] \in Jobs
    BY DEF TypeOK, ServiceTypeOK, StoreTypeOK
  <1>1. /\ hpc[s] = "subscribe" /\ hpc'[s] = "live" /\ logCh'[s] = <<>> /\ chOpen'[s]
        /\ \A r \in Rpcs \ {s} : /\ hpc'[r] = hpc[r] /\ logCh'[r] = logCh[r]
                                 /\ chOpen'[r] = chOpen[r]
        /\ \A j \in Jobs : \A r \in logSubs'[j] : r \in logSubs[j] \/ (r = s /\ j = href[s])
        /\ \A r \in Rpcs : inflight[r] = <<>>
        /\ UNCHANGED <<logs, logOffsets, inflight, href, after, lastOffset, pending>>
    BY <1>t DEF Subscribe, SubscribeLogs, Unlocked
  <1>2. DenseOffsets'
    BY <1>1 DEF SafeInv, DenseOffsets
  <1>3. Registered'
    <2>1. ASSUME NEW j \in Jobs, NEW r \in logSubs'[j]
          PROVE  chOpen'[r] /\ href[r] = j /\ hpc'[r] \in {"live", "send", "unsubscribe"}
      <3>1. CASE r = s /\ j = href[s]
        BY <3>1, <1>1
      <3>2. CASE r \in logSubs[j]
        <4>1. r \in Rpcs
          BY <3>2, <1>t
        <4>2. chOpen[r] /\ href[r] = j /\ hpc[r] \in {"live", "send", "unsubscribe"}
          BY <3>2 DEF SafeInv, Registered
        <4>3. r # s
          BY <4>2, <1>1
        <4>4. QED
          BY <4>1, <4>2, <4>3, <1>1
      <3>3. QED
        BY <1>1, <3>1, <3>2
    <2>2. QED
      BY <2>1, <1>1 DEF Registered
  <1>4. ASSUME NEW r \in Rpcs PROVE CallInv(r)'
    <2>0. CallInv(r)
      BY DEF SafeInv
    <2>1. CASE r # s
      BY <2>0, <2>1, <1>1, CallTypes, FrameCall
    <2>2. CASE r = s
      <3>1. Ordered(s)'
        BY <2>0, <2>2, <1>1 DEF CallInv, Ordered, Increasing, Precedes
      <3>2. Bounded(s)'
        BY <2>0, <2>2, <1>1 DEF CallInv, Bounded, Reached
      <3>3. Phase(s)'
        BY <2>0, <2>2, <1>1 DEF CallInv, Phase
      <3>4. QED
        BY <2>2, <3>1, <3>2, <3>3 DEF CallInv
    <2>3. QED
      BY <2>1, <2>2
  <1>5. QED
    BY <1>2, <1>3, <1>4 DEF SafeInv

\* Unsubscribing closes the channel of a call that is registered nowhere else.
LEMMA UnsubscribeSafe ==
    ASSUME TypeOK, SafeInv, NEW s \in Rpcs, Unsubscribe(s)
    PROVE  SafeInv'
  <1>t. /\ hpc \in [Rpcs -> {"free", "snapshot", "replay", "check", "subscribe",
                             "live", "send", "unsubscribe", "done"}]
        /\ chOpen \in [Rpcs -> BOOLEAN]
        /\ logSubs \in [Jobs -> SUBSET Rpcs] /\ href[s] \in Jobs
    BY DEF TypeOK, ServiceTypeOK, StoreTypeOK
  <1>1. /\ hpc[s] = "unsubscribe" /\ hpc'[s] = "done"
        /\ \A r \in Rpcs \ {s} : hpc'[r] = hpc[r] /\ chOpen'[r] = chOpen[r]
        /\ \A j \in Jobs : \A r \in logSubs'[j] : r \in logSubs[j] /\ (r # s \/ j # href[s])
        /\ \A r \in Rpcs : inflight[r] = <<>>
        /\ UNCHANGED <<logs, logOffsets, logCh, inflight, href, after, lastOffset, pending>>
    BY <1>t DEF Unsubscribe, UnsubscribeLogs, Unlocked
  <1>2. DenseOffsets'
    BY <1>1 DEF SafeInv, DenseOffsets
  <1>3. Registered'
    <2>1. ASSUME NEW j \in Jobs, NEW r \in logSubs'[j]
          PROVE  chOpen'[r] /\ href[r] = j /\ hpc'[r] \in {"live", "send", "unsubscribe"}
      <3>1. r \in logSubs[j] /\ r \in Rpcs
        BY <1>1, <1>t
      <3>2. chOpen[r] /\ href[r] = j /\ hpc[r] \in {"live", "send", "unsubscribe"}
        BY <3>1 DEF SafeInv, Registered
      <3>3. r # s
        BY <3>2, <1>1
      <3>4. QED
        BY <3>1, <3>2, <3>3, <1>1
    <2>2. QED
      BY <2>1, <1>1 DEF Registered
  <1>4. ASSUME NEW r \in Rpcs PROVE CallInv(r)'
    <2>0. CallInv(r)
      BY DEF SafeInv
    <2>1. CASE r # s
      BY <2>0, <2>1, <1>1, CallTypes, FrameCall
    <2>2. CASE r = s
      <3>1. Ordered(s)'
        BY <2>0, <2>2, <1>1 DEF CallInv, Ordered, NewTo, Increasing, Precedes
      <3>2. Bounded(s)'
        BY <2>0, <2>2, <1>1 DEF CallInv, Bounded, Reached
      <3>3. Phase(s)'
        BY <2>0, <2>2, <1>1 DEF CallInv, Phase
      <3>4. QED
        BY <2>2, <3>1, <3>2, <3>3 DEF CallInv
    <2>3. QED
      BY <2>1, <2>2
  <1>5. QED
    BY <1>2, <1>3, <1>4 DEF SafeInv

\* CloseLogStreams closes the channels of one job; they are registered under
\* no other.
LEMMA CloseSafe ==
    ASSUME TypeOK, SafeInv, NEW j \in Jobs, CloseStreams(j)
    PROVE  SafeInv'
  <1>t. logSubs \in [Jobs -> SUBSET Rpcs]
    BY DEF TypeOK, StoreTypeOK
  <1>1. /\ logSubs' = [logSubs EXCEPT ![j] = {}]
        /\ \A r \in Rpcs \ logSubs[j] : chOpen'[r] = chOpen[r]
        /\ \A r \in Rpcs : inflight[r] = <<>>
        /\ UNCHANGED <<logs, logOffsets, logCh, inflight, hpc, href, after, lastOffset, pending>>
    BY DEF CloseStreams, CloseLogStreams, Unlocked, handlerVars
  <1>2. DenseOffsets'
    BY <1>1 DEF SafeInv, DenseOffsets
  <1>3. Registered'
    <2>1. ASSUME NEW k \in Jobs, NEW r \in logSubs'[k]
          PROVE  chOpen'[r] /\ href[r] = k /\ hpc[r] \in {"live", "send", "unsubscribe"}
      <3>1. r \in logSubs[k] /\ k # j /\ r \in Rpcs
        BY <1>1, <1>t
      <3>2. chOpen[r] /\ href[r] = k /\ hpc[r] \in {"live", "send", "unsubscribe"}
        BY <3>1 DEF SafeInv, Registered
      <3>3. r \notin logSubs[j]
        BY <3>1, <3>2 DEF SafeInv, Registered
      <3>4. QED
        BY <3>1, <3>2, <3>3, <1>1
    <2>2. QED
      BY <2>1, <1>1 DEF Registered
  <1>4. ASSUME NEW r \in Rpcs PROVE CallInv(r)'
    <2>0. CallInv(r)
      BY DEF SafeInv
    <2>1. QED
      BY <2>0, <1>1, CallTypes, FrameCall
  <1>5. QED
    BY <1>2, <1>3, <1>4 DEF SafeInv

\* A new call starts with empty queues and its cursor at after_offset.
LEMMA ConnectSafe ==
    ASSUME TypeOK, SafeInv, NEW s \in Rpcs, NEW j \in Jobs, NEW off \in Nat,
           StreamJobLogs(s, j, off)
    PROVE  SafeInv'
  <1>t. /\ hpc \in [Rpcs -> {"free", "snapshot", "replay", "check", "subscribe",
                             "live", "send", "unsubscribe", "done"}]
        /\ href \in [Rpcs -> Jobs] /\ after \in [Rpcs -> Nat] /\ lastOffset \in [Rpcs -> Nat]
        /\ logSubs \in [Jobs -> SUBSET Rpcs]
    BY DEF TypeOK, ServiceTypeOK, StoreTypeOK
  <1>1. /\ hpc[s] = "free" /\ hpc'[s] = "snapshot" /\ href'[s] = j
        /\ after'[s] = off /\ lastOffset'[s] = off
        /\ \A r \in Rpcs \ {s} : /\ hpc'[r] = hpc[r] /\ href'[r] = href[r]
                                 /\ after'[r] = after[r] /\ lastOffset'[r] = lastOffset[r]
        /\ UNCHANGED <<logs, logOffsets, logSubs, logCh, chOpen, inflight, pending>>
    BY <1>t DEF StreamJobLogs, storeVars
  <1>2. DenseOffsets'
    BY <1>1 DEF SafeInv, DenseOffsets
  <1>3. \A k \in Jobs : s \notin logSubs[k]
    BY <1>1 DEF SafeInv, Registered
  <1>i. inflight[s] = <<>> /\ logCh[s] = <<>> /\ pending[s] = <<>>
    <2>1. Phase(s)
      BY DEF SafeInv, CallInv
    <2>2. inflight[s] = <<>>
      BY <1>3, <1>t DEF SafeInv, Registered
    <2>3. QED
      BY <2>1, <2>2, <1>1 DEF Phase
  <1>4. Registered'
    <2>1. ASSUME NEW k \in Jobs, NEW r \in logSubs[k]
          PROVE  chOpen[r] /\ href'[r] = k /\ hpc'[r] \in {"live", "send", "unsubscribe"}
      <3>1. r # s /\ r \in Rpcs
        BY <1>3, <1>t
      <3>2. QED
        BY <3>1, <1>1 DEF SafeInv, Registered
    <2>2. ASSUME NEW r \in Rpcs, inflight[r] # <<>>
          PROVE  r \in logSubs[href'[r]]
      <3>1. r # s
        BY <2>2, <1>i
      <3>2. QED
        BY <2>2, <3>1, <1>1 DEF SafeInv, Registered
    <2>3. QED
      BY <2>1, <2>2, <1>1 DEF Registered
  <1>5. ASSUME NEW r \in Rpcs PROVE CallInv(r)'
    <2>0. CallInv(r)
      BY DEF SafeInv
    <2>1. CASE r # s
      BY <2>0, <2>1, <1>1, CallTypes, FrameCall
    <2>2. CASE r = s
      <3>1. Ordered(s)'
        BY <1>1, <1>i DEF Ordered, Increasing, Precedes
      <3>2. Bounded(s)'
        BY <1>1, <1>i DEF Bounded, Reached
      <3>3. Phase(s)'
        BY <1>1, <1>i DEF Phase
      <3>4. QED
        BY <2>2, <3>1, <3>2, <3>3 DEF CallInv
    <2>3. QED
      BY <2>1, <2>2
  <1>6. QED
    BY <1>2, <1>4, <1>5 DEF SafeInv

-----------------------------------------------------------------------------
(* The invariant is preserved by every step.                               *)

\* Dispatch either leaves coreVars alone, appends, or closes the streams.
LEMMA DispatchSafe ==
    ASSUME TypeOK, SafeInv, NEW j \in Jobs, SubmitJob(j) \/ DispatchStep(j)
    PROVE  SafeInv'
  <1>1. CASE SubmitJob(j) \/ DispatchStart(j) \/ PutFinal(j)
    BY <1>1, FrameSafe DEF SubmitJob, DispatchStart, PutFinal, Put, coreVars, handlerVars
  <1>2. CASE CallWorker(j) \/ CallWorkerFails(j) \/ RecvFails(j)
    BY <1>2, FrameSafe DEF CallWorker, CallWorkerFails, RecvFails, coreVars, handlerVars, storeVars
  <1>3. CASE RecvResponse(j)
    <2>1. Head(rpc[j]) \in Responses
      BY <1>3 DEF RecvResponse, TypeOK, WorkerTypeOK
    <2>2. Head(rpc[j]).logs \in Seq(Lines)
      BY <2>1 DEF Responses
    <2>3. UNCHANGED <<hpc, href, after, lastOffset, pending>>
      BY <1>3 DEF RecvResponse, handlerVars
    <2>4. CASE Head(rpc[j]).logs # <<>>
      BY <1>3, <2>2, <2>3, <2>4, AppendSafe DEF RecvResponse
    <2>5. CASE Head(rpc[j]).logs = <<>>
      BY <1>3, <2>3, <2>5, FrameSafe DEF RecvResponse, storeVars, coreVars
    <2>6. QED
      BY <2>4, <2>5
  <1>4. CASE CloseStreams(j)
    BY <1>4, CloseSafe
  <1>5. QED
    BY <1>1, <1>2, <1>3, <1>4 DEF DispatchStep

\* Every step of a handler preserves SafeInv.
LEMMA HandlerSafe ==
    ASSUME TypeOK, SafeInv, NEW s \in Rpcs, HandlerStep(s)
    PROVE  SafeInv'
  BY PcStepSafe, SnapshotSafe, SendSafe, SendFailsSafe, HeartbeatSafe, ReceiveSafe,
     SubscribeSafe, UnsubscribeSafe DEF HandlerStep

\* Of a client's steps only a new call touches coreVars.
LEMMA ClientSafe ==
    ASSUME TypeOK, SafeInv, NEW c \in Clients, Client(c)
    PROVE  SafeInv'
  <1>1. ASSUME NEW s \in Rpcs, Connect(c, s)
        PROVE  SafeInv'
    <2>1. cref[c] \in Jobs /\ cursor[c] \in Nat
      BY DEF TypeOK
    <2>2. QED
      BY <1>1, <2>1, ConnectSafe DEF Connect
  <1>2. ASSUME NEW j \in Jobs, NEW off \in StartOffsets, StartClient(c, j, off)
        PROVE  SafeInv'
    BY <1>2, FrameSafe DEF StartClient, coreVars, storeVars, handlerVars
  <1>3. CASE ConnectFails(c) \/ RecvEOF(c)
    BY <1>3, FrameSafe DEF ConnectFails, RecvEOF, coreVars, storeVars, handlerVars
  <1>4. CASE Recv(c)
    BY <1>4, FrameSafe DEF Recv, coreVars, storeVars
  <1>5. CASE StreamInterrupted(c) \/ StreamFails(c)
    BY <1>5, FrameSafe DEF StreamInterrupted, StreamFails, Teardown, coreVars, storeVars
  <1>6. CASE Interrupt(c)
    BY <1>6, FrameSafe DEF Interrupt, Teardown, coreVars, storeVars, handlerVars
  <1>7. QED
    BY <1>1, <1>2, <1>3, <1>4, <1>5, <1>6 DEF Client

LEMMA SafeNext == TypeOK /\ SafeInv /\ [Next]_vars => SafeInv'
  <1> SUFFICES ASSUME TypeOK, SafeInv, [Next]_vars PROVE SafeInv'
    OBVIOUS
  <1>1. ASSUME NEW j \in Jobs, Submit(j) \/ Dispatch(j)
        PROVE  SafeInv'
    BY <1>1, DispatchSafe DEF Submit, Dispatch
  <1>2. ASSUME NEW j \in Jobs, Worker(j)
        PROVE  SafeInv'
    BY <1>2, FrameSafe DEF Worker, coreVars, storeVars, handlerVars
  <1>3. ASSUME NEW s \in Rpcs, Broadcast(s)
        PROVE  SafeInv'
    BY <1>3, BroadcastSafe DEF Broadcast, BroadcastStep, handlerVars
  <1>4. ASSUME NEW s \in Rpcs, Handler(s)
        PROVE  SafeInv'
    BY <1>4, HandlerSafe DEF Handler
  <1>5. ASSUME NEW c \in Clients, Client(c)
        PROVE  SafeInv'
    BY <1>5, ClientSafe
  <1>6. CASE UNCHANGED vars
    BY <1>6, FrameSafe DEF vars, coreVars, storeVars, handlerVars
  <1>7. QED
    BY <1>1, <1>2, <1>3, <1>4, <1>5, <1>6 DEF Next, Quiescent

LEMMA Safety == Spec => [](TypeOK /\ SafeInv)
  <1>1. Init => TypeOK /\ SafeInv
    BY TypeInit, SafeInit
  <1>2. TypeOK /\ SafeInv /\ [Next]_vars => (TypeOK /\ SafeInv)'
    BY TypeNext, SafeNext
  <1>3. QED
    BY <1>1, <1>2, PTL DEF Spec

(***************************************************************************)
(* No interleaving of broadcasts, finishing jobs and returning handlers    *)
(* sends on, or closes, a closed subscriber channel.                       *)
(***************************************************************************)
THEOREM PanicFree == Spec => []NoPanic
  <1>1. TypeOK /\ SafeInv => NoPanic
    BY CallTypes DEF SafeInv, Registered, NoPanic
  <1>2. QED
    BY <1>1, Safety, PTL

\* The offsets AppendLogs hands out number a job's log 1, 2, 3, ...
THEOREM OffsetsAreDense == Spec => []DenseOffsets
  <1>1. TypeOK /\ SafeInv => DenseOffsets
    BY DEF SafeInv
  <1>2. QED
    BY <1>1, Safety, PTL

(***************************************************************************)
(* A StreamJobLogs call never sends a chunk twice or out of order, for any *)
(* channel capacity and any number of dropped chunks.                      *)
(***************************************************************************)
THEOREM StreamsAreInOrder == Spec => []StreamInOrder
  <1>1. TypeOK /\ SafeInv => StreamInOrder
    BY DEF SafeInv, CallInv, StreamInOrder
  <1>2. QED
    BY <1>1, Safety, PTL

-----------------------------------------------------------------------------
(* The control plane implements JobLifecycle.                              *)

\* Where dispatch is determines what the store says of the job, and only
\* terminal results reach applyCompletion.
JobInv(j) ==
    /\ dpc[j] = "none" => jobs[j].state = "absent"
    /\ dpc[j] = "start" => jobs[j].state = "accepted"
    /\ dpc[j] \in {"call", "recv", "put"} => jobs[j].state = "running"
    /\ dpc[j] = "put" => result[j].state \in Terminal
    /\ \A i \in 1..Len(rpc[j]) : rpc[j][i].terminal => rpc[j][i].result.state \in Terminal

DispatchInv == \A j \in Jobs : JobInv(j)

LEMMA DispatchInvInit == Init => DispatchInv
  BY DEF Init, StoreInit, WorkerInit, ServiceInit, DispatchInv, JobInv

\* Steps of dispatch and worker of one job concern that job only.
LEMMA JobInvStep ==
    ASSUME TypeOK, DispatchInv, NEW j \in Jobs, JobInv(j)',
           \A k \in Jobs \ {j} : /\ dpc'[k] = dpc[k] /\ jobs'[k] = jobs[k]
                                 /\ result'[k] = result[k] /\ rpc'[k] = rpc[k]
    PROVE  DispatchInv'
  <1> SUFFICES ASSUME NEW k \in Jobs PROVE JobInv(k)'
    BY DEF DispatchInv, JobInv
  <1>1. CASE k = j
    BY <1>1
  <1>2. CASE k # j
    BY <1>2 DEF DispatchInv, JobInv
  <1>3. QED
    BY <1>1, <1>2

\* What a step of job j's dispatch does to the job's state and log.
DispatchEffect(j) ==
    \/ UNCHANGED <<jobs, logs>>
    \/ /\ jobs[j].state = "running"
       /\ UNCHANGED jobs
       /\ \E ls \in Seq(Lines) : ls # <<>> /\ logs' = [logs EXCEPT ![j] = @ \o Stamped(j, ls)]
    \/ /\ UNCHANGED logs
       /\ \E x \in Snapshots :
            /\ jobs' = [jobs EXCEPT ![j] = x]
            /\ \/ jobs[j].state = "absent" /\ x.state = "accepted"
               \/ jobs[j].state = "accepted" /\ x.state = "running"
               \/ jobs[j].state = "running" /\ x.state \in Terminal

LEMMA DispatchRefines ==
    ASSUME TypeOK, DispatchInv, NEW j \in Jobs, SubmitJob(j) \/ DispatchStep(j)
    PROVE  DispatchInv' /\ DispatchEffect(j)
  <1>t. /\ dpc \in [Jobs -> {"none", "start", "call", "recv", "put", "close", "done"}]
        /\ result \in [Jobs -> Snapshots] /\ jobs \in [Jobs -> Snapshots]
        /\ rpc \in [Jobs -> Seq(Responses)]
    BY DEF TypeOK, StoreTypeOK, WorkerTypeOK, ServiceTypeOK
  <1>i. JobInv(j)
    BY DEF DispatchInv
  <1>e. \A x \in Snapshots : /\ x.state \in States
                            /\ \A st \in States : /\ [x EXCEPT !.state = st] \in Snapshots
                                                 /\ [x EXCEPT !.state = st].state = st
    BY DEF Snapshots
  <1>1. CASE SubmitJob(j)
    <2>1. PICK x \in Snapshots : x = [state |-> "accepted", exitCode |-> 0]
      BY ServiceAlphabet
    <2>2. /\ dpc[j] = "none" /\ dpc' = [dpc EXCEPT ![j] = "start"]
          /\ jobs' = [jobs EXCEPT ![j] = x] /\ UNCHANGED <<logs, rpc, result>>
      BY <1>1, <2>1 DEF SubmitJob, Put, workerVars
    <2>3. x.state = "accepted" /\ jobs[j].state = "absent"
      BY <2>1, <2>2, <1>i DEF JobInv
    <2>4. JobInv(j)'
      BY <2>2, <2>3, <1>i, <1>t DEF JobInv
    <2>5. QED
      BY <2>2, <2>3, <2>4, <1>t, JobInvStep DEF DispatchEffect
  <1>2. CASE DispatchStart(j)
    <2>0. jobs[j] \in Snapshots /\ "running" \in States
      BY <1>t DEF States
    <2>a. /\ [jobs[j] EXCEPT !.state = "running"] \in Snapshots
          /\ [jobs[j] EXCEPT !.state = "running"].state = "running"
      BY <2>0, <1>e
    <2>1. PICK x \in Snapshots : x = [jobs[j] EXCEPT !.state = "running"] /\ x.state = "running"
      BY <2>a
    <2>2. /\ dpc[j] = "start" /\ dpc' = [dpc EXCEPT ![j] = "call"]
          /\ jobs' = [jobs EXCEPT ![j] = x] /\ UNCHANGED <<logs, rpc, result>>
      BY <1>2, <2>1 DEF DispatchStart, Put, workerVars
    <2>3. jobs[j].state = "accepted"
      BY <2>2, <1>i DEF JobInv
    <2>4. JobInv(j)'
      BY <2>1, <2>2, <1>i, <1>t DEF JobInv
    <2>5. QED
      BY <2>1, <2>2, <2>3, <2>4, <1>t, JobInvStep DEF DispatchEffect
  <1>3. CASE CallWorker(j)
    <2>1. /\ dpc[j] = "call" /\ dpc' = [dpc EXCEPT ![j] = "recv"]
          /\ UNCHANGED <<jobs, logs, rpc, result>>
      BY <1>3 DEF CallWorker, WorkerAccept, storeVars
    <2>2. JobInv(j)'
      BY <2>1, <1>i, <1>t DEF JobInv
    <2>3. QED
      BY <2>1, <2>2, <1>t, JobInvStep DEF DispatchEffect
  <1>4. CASE CallWorkerFails(j) \/ RecvFails(j)
    <2>1. PICK x \in Snapshots : x = [jobs[j] EXCEPT !.state = "failed"] /\ x.state = "failed"
      BY <1>e, <1>t DEF States
    <2>2. /\ dpc[j] \in {"call", "recv"} /\ dpc' = [dpc EXCEPT ![j] = "put"]
          /\ result' = [result EXCEPT ![j] = x] /\ UNCHANGED <<jobs, logs, rpc>>
      BY <1>4, <2>1 DEF CallWorkerFails, RecvFails, FailWith, storeVars, workerVars
    <2>3. JobInv(j)'
      BY <2>1, <2>2, <1>i, <1>t DEF JobInv, Terminal
    <2>4. QED
      BY <2>2, <2>3, <1>t, JobInvStep DEF DispatchEffect
  <1>5. CASE RecvResponse(j)
    <2>0. PICK q, m : q = rpc[j] /\ m = Head(q)
      OBVIOUS
    <2>1. /\ dpc[j] = "recv" /\ q # <<>> /\ q \in Seq(Responses)
          /\ rpc' = [rpc EXCEPT ![j] = Tail(q)] /\ UNCHANGED jobs
          /\ IF m.terminal
               THEN dpc' = [dpc EXCEPT ![j] = "put"] /\ result' = [result EXCEPT ![j] = m.result]
               ELSE UNCHANGED <<dpc, result>>
          /\ IF m.logs # <<>> THEN logs' = [logs EXCEPT ![j] = @ \o Stamped(j, m.logs)]
                              ELSE UNCHANGED logs
      BY <1>5, <2>0, <1>t DEF RecvResponse, AppendLogs, storeVars, dispatchVars
    <2>2. /\ m = q[1] /\ 1 \in 1..Len(q) /\ m \in Responses
          /\ \A i \in 1..Len(Tail(q)) : Tail(q)[i] = q[i + 1] /\ i + 1 \in 1..Len(q)
      BY <2>0, <2>1
    <2>3. m.logs \in Seq(Lines) /\ m.result \in Snapshots
      BY <2>2 DEF Responses
    <2>4. m.terminal => m.result.state \in Terminal
      BY <2>0, <2>2, <1>i DEF JobInv
    <2>5. \A i \in 1..Len(Tail(q)) : Tail(q)[i].terminal => Tail(q)[i].result.state \in Terminal
      BY <2>0, <2>2, <1>i DEF JobInv
    <2>6. jobs[j].state = "running"
      BY <2>1, <1>i DEF JobInv
    <2>7. rpc'[j] = Tail(q)
      BY <2>1, <1>t
    <2>8. JobInv(j)'
      <3>1. CASE m.terminal
        BY <3>1, <2>1, <2>4, <2>5, <2>6, <2>7, <1>t DEF JobInv
      <3>2. CASE ~m.terminal
        BY <3>2, <2>1, <2>5, <2>6, <2>7, <1>i DEF JobInv
      <3>3. QED
        BY <3>1, <3>2
    <2>9. \A k \in Jobs \ {j} : /\ dpc'[k] = dpc[k] /\ jobs'[k] = jobs[k]
                                /\ result'[k] = result[k] /\ rpc'[k] = rpc[k]
      BY <2>1, <1>t
    <2>10. DispatchEffect(j)
      BY <2>1, <2>3, <2>6 DEF DispatchEffect
    <2>11. QED
      BY <2>8, <2>9, <2>10, JobInvStep
  <1>6. CASE PutFinal(j)
    <2>1. /\ dpc[j] = "put" /\ dpc' = [dpc EXCEPT ![j] = "close"]
          /\ jobs' = [jobs EXCEPT ![j] = result[j]] /\ UNCHANGED <<logs, rpc, result>>
      BY <1>6 DEF PutFinal, Put, workerVars
    <2>2. jobs[j].state = "running" /\ result[j].state \in Terminal /\ result[j] \in Snapshots
      BY <2>1, <1>i, <1>t DEF JobInv
    <2>3. JobInv(j)'
      BY <2>1, <2>2, <1>i, <1>t DEF JobInv
    <2>4. QED
      BY <2>1, <2>2, <2>3, <1>t, JobInvStep DEF DispatchEffect
  <1>7. CASE CloseStreams(j)
    <2>1. /\ dpc' = [dpc EXCEPT ![j] = "done"] /\ UNCHANGED <<jobs, logs, rpc, result>>
      BY <1>7 DEF CloseStreams, CloseLogStreams, workerVars
    <2>2. JobInv(j)'
      BY <2>1, <1>i, <1>t DEF JobInv
    <2>3. QED
      BY <2>1, <2>2, <1>t, JobInvStep DEF DispatchEffect
  <1>8. QED
    BY <1>1, <1>2, <1>3, <1>4, <1>5, <1>6, <1>7 DEF DispatchStep

\* The worker's terminal responses carry a final state.
LEMMA WorkerRefines ==
    ASSUME TypeOK, DispatchInv, NEW j \in Jobs, WorkerStep(j), UNCHANGED <<jobs, dpc, result>>
    PROVE  DispatchInv'
  <1>t. rpc \in [Jobs -> Seq(Responses)] /\ rpc[j] \in Seq(Responses)
    BY DEF TypeOK, WorkerTypeOK
  <1>i. JobInv(j)
    BY DEF DispatchInv
  <1>0. ASSUME NEW q, rpc' = [rpc EXCEPT ![j] = q],
               \A i \in 1..Len(q) : q[i].terminal => q[i].result.state \in Terminal
        PROVE  DispatchInv'
    <2>1. JobInv(j)'
      BY <1>0, <1>i, <1>t DEF JobInv
    <2>2. QED
      BY <1>0, <2>1, <1>t, JobInvStep
  <1>1. ASSUME UNCHANGED rpc PROVE DispatchInv'
    BY <1>1, <1>i, JobInvStep DEF JobInv
  <1>2. ASSUME NEW m \in Responses, rpc' = [rpc EXCEPT ![j] = Append(@, m)],
               m.terminal => m.result.state \in Terminal
        PROVE  DispatchInv'
    <2>1. \A i \in 1..Len(Append(rpc[j], m)) :
            \/ i \in 1..Len(rpc[j]) /\ Append(rpc[j], m)[i] = rpc[j][i]
            \/ Append(rpc[j], m)[i] = m
      BY <1>t
    <2>2. QED
      BY <2>1, <1>2, <1>0, <1>i DEF JobInv
  <1>3. CASE StartProcess(j) \/ RejectAssignment(j)
    BY <1>1, <1>3 DEF StartProcess, RejectAssignment
  <1>4. ASSUME NEW fd \in Fds, CollectLine(j, fd) \/ CollectorEOF(j, fd)
        PROVE  DispatchInv'
    BY <1>1, <1>4 DEF CollectLine, CollectorEOF
  <1>5. ASSUME NEW fd \in Fds, ForwardLine(j, fd)
        PROVE  DispatchInv'
    <2>1. pos[j][fd] \in Nat
      BY DEF TypeOK, WorkerTypeOK
    <2>a. [logs |-> << <<fd, pos[j][fd]>> >>, terminal |-> FALSE, result |-> NoResult] \in Responses
      BY <2>1 DEF Lines, Responses, NoResult, Snapshots, States
    <2>2. PICK m \in Responses :
             m = [logs |-> << <<fd, pos[j][fd]>> >>, terminal |-> FALSE, result |-> NoResult]
      BY <2>a
    <2>3. ~m.terminal /\ rpc' = [rpc EXCEPT ![j] = Append(@, m)]
      BY <2>2, <1>5 DEF ForwardLine
    <2>4. QED
      BY <2>3, <1>2
  <1>6. ASSUME NEW code \in ExitCodes, SendTerminal(j, code)
        PROVE  DispatchInv'
    <2>0. chunks[j] \in Seq(Lines)
      BY DEF TypeOK, WorkerTypeOK
    <2>a. [state |-> finalizeState(code), exitCode |-> code] \in Snapshots
      BY ExitCodesAssumption DEF Snapshots, States, finalizeState
    <2>b. [logs |-> chunks[j], terminal |-> TRUE,
           result |-> [state |-> finalizeState(code), exitCode |-> code]] \in Responses
      BY <2>0, <2>a DEF Responses
    <2>1. PICK m \in Responses :
             m = [logs |-> chunks[j], terminal |-> TRUE,
                  result |-> [state |-> finalizeState(code), exitCode |-> code]]
      BY <2>b
    <2>2. m.result.state \in Terminal
      BY <2>1 DEF finalizeState, Terminal
    <2>3. rpc' = [rpc EXCEPT ![j] = Append(@, m)]
      BY <2>1, <1>6 DEF SendTerminal
    <2>4. QED
      BY <2>2, <2>3, <1>2
  <1>7. CASE WorkerStreamBreaks(j)
    <2>1. PICK n \in 0..Len(rpc[j]) : rpc' = [rpc EXCEPT ![j] = SubSeq(@, 1, n)]
      BY <1>7 DEF WorkerStreamBreaks
    <2>2. \A i \in 1..Len(SubSeq(rpc[j], 1, n)) :
            i \in 1..Len(rpc[j]) /\ SubSeq(rpc[j], 1, n)[i] = rpc[j][i]
      BY <1>t
    <2>3. QED
      BY <2>1, <2>2, <1>0, <1>i DEF JobInv
  <1>8. QED
    BY <1>3, <1>4, <1>5, <1>6, <1>7 DEF WorkerStep

\* Handlers and clients touch neither the job's snapshots nor its log.
LEMMA HandlerFrame ==
    ASSUME NEW s \in Rpcs, HandlerStep(s)
    PROVE  UNCHANGED <<jobs, logs, dpc, result, rpc>>
  <1> USE DEF workerVars, dispatchVars, storeVars
  <1>1. CASE SnapshotLogs(s) \/ SkipStored(s) \/ Send(s) \/ SendFails(s) \/ ReplayDone(s)
    BY <1>1 DEF SnapshotLogs, SkipStored, Send, SendFails, ReplayDone
  <1>2. CASE CheckState(s) \/ ChannelClosed(s) \/ HeartbeatTick(s) \/ ContextDone(s)
    BY <1>2 DEF CheckState, ChannelClosed, HeartbeatTick, ContextDone
  <1>3. CASE Subscribe(s) \/ ReceiveChunk(s) \/ Unsubscribe(s)
    BY <1>3 DEF Subscribe, SubscribeLogs, ReceiveChunk, Unsubscribe, UnsubscribeLogs
  <1>4. QED
    BY <1>1, <1>2, <1>3 DEF HandlerStep

LEMMA ClientFrame ==
    ASSUME NEW c \in Clients, Client(c)
    PROVE  UNCHANGED <<jobs, logs, dpc, result, rpc>>
  <1> USE DEF workerVars, dispatchVars, storeVars
  <1>1. CASE \E j \in Jobs, off \in StartOffsets : StartClient(c, j, off)
    BY <1>1 DEF StartClient
  <1>2. CASE \E s \in Rpcs : Connect(c, s)
    BY <1>2 DEF Connect, StreamJobLogs
  <1>3. CASE ConnectFails(c) \/ Recv(c) \/ RecvEOF(c)
    BY <1>3 DEF ConnectFails, Recv, RecvEOF
  <1>4. CASE StreamInterrupted(c) \/ StreamFails(c) \/ Interrupt(c)
    BY <1>4 DEF StreamInterrupted, StreamFails, Interrupt, Teardown
  <1>5. QED
    BY <1>1, <1>2, <1>3, <1>4 DEF Client

LEMMA DispatchInvNext == TypeOK /\ DispatchInv /\ [Next]_vars => DispatchInv'
  <1> SUFFICES ASSUME TypeOK, DispatchInv, [Next]_vars PROVE DispatchInv'
    OBVIOUS
  <1>0. ASSUME UNCHANGED <<jobs, dpc, result, rpc>> PROVE DispatchInv'
    BY <1>0 DEF DispatchInv, JobInv
  <1>1. ASSUME NEW j \in Jobs, Submit(j) \/ Dispatch(j)
        PROVE  DispatchInv'
    BY <1>1, DispatchRefines DEF Submit, Dispatch
  <1>2. ASSUME NEW j \in Jobs, Worker(j)
        PROVE  DispatchInv'
    BY <1>2, WorkerRefines DEF Worker, storeVars, dispatchVars
  <1>3. ASSUME NEW s \in Rpcs, Broadcast(s)
        PROVE  DispatchInv'
    BY <1>3, <1>0 DEF Broadcast, BroadcastStep, BroadcastOne, workerVars, dispatchVars
  <1>4. ASSUME NEW s \in Rpcs, Handler(s)
        PROVE  DispatchInv'
    BY <1>4, <1>0, HandlerFrame DEF Handler
  <1>5. ASSUME NEW c \in Clients, Client(c)
        PROVE  DispatchInv'
    BY <1>5, <1>0, ClientFrame
  <1>6. CASE UNCHANGED vars
    BY <1>6, <1>0 DEF vars, storeVars, workerVars, dispatchVars
  <1>7. QED
    BY <1>1, <1>2, <1>3, <1>4, <1>5, <1>6 DEF Next, Quiescent

\* Appending stamped lines is an Emit of the abstract specification.
LEMMA AppendEmits ==
    ASSUME TypeOK, NEW j \in Jobs, NEW ls \in Seq(Lines), ls # <<>>,
           jobs[j].state = "running", UNCHANGED jobs,
           logs' = [logs EXCEPT ![j] = @ \o Stamped(j, ls)]
    PROVE  Lifecycle!Emit(j)
  <1>1. logs \in [Jobs -> Seq(Chunks)] /\ logs[j] \in Seq(Chunks)
    BY DEF TypeOK, StoreTypeOK
  <1>2. Stamped(j, ls) \in Seq(Chunks) /\ Len(Stamped(j, ls)) = Len(ls)
    BY StampedType DEF TypeOK
  <1>3. Len(ls) > 0
    OBVIOUS
  <1>4. logs'[j] = logs[j] \o Stamped(j, ls)
    BY <1>1
  <1>5. Len(logs'[j]) > Len(logs[j])
    BY <1>1, <1>2, <1>3, <1>4
  <1>6. \A i \in 1..Len(logs[j]) : logs'[j][i] = logs[j][i]
    BY <1>1, <1>2, <1>4
  <1>7. logs' = [logs EXCEPT ![j] = logs'[j]]
    BY <1>1, <1>4
  <1>8. QED
    BY <1>5, <1>6, <1>7 DEF Lifecycle!Emit

LEMMA DispatchSimulates ==
    ASSUME TypeOK, NEW j \in Jobs, DispatchEffect(j)
    PROVE  Lifecycle!Next \/ UNCHANGED Lifecycle!vars
  <1>t. jobs \in [Jobs -> Snapshots]
    BY DEF TypeOK, StoreTypeOK
  <1>1. CASE UNCHANGED <<jobs, logs>>
    BY <1>1 DEF Lifecycle!vars
  <1>2. CASE /\ jobs[j].state = "running"
             /\ UNCHANGED jobs
             /\ \E ls \in Seq(Lines) : ls # <<>> /\ logs' = [logs EXCEPT ![j] = @ \o Stamped(j, ls)]
    BY <1>2, AppendEmits DEF Lifecycle!Next
  <1>3. ASSUME UNCHANGED logs, NEW x \in Snapshots, jobs' = [jobs EXCEPT ![j] = x]
        PROVE  [k \in Jobs |-> jobs'[k].state] = [[k \in Jobs |-> jobs[k].state] EXCEPT ![j] = x.state]
    BY <1>3, <1>t
  <1>4. ASSUME UNCHANGED logs, NEW x \in Snapshots, jobs' = [jobs EXCEPT ![j] = x],
               \/ jobs[j].state = "absent" /\ x.state = "accepted"
               \/ jobs[j].state = "accepted" /\ x.state = "running"
               \/ jobs[j].state = "running" /\ x.state \in Terminal
        PROVE  Lifecycle!Next
    <2>1. [k \in Jobs |-> jobs'[k].state] = [[k \in Jobs |-> jobs[k].state] EXCEPT ![j] = x.state]
      BY <1>3, <1>4
    <2>2. \A from, to : jobs[j].state = from /\ x.state = to => Lifecycle!Step(j, from, to)
      BY <2>1, <1>4 DEF Lifecycle!Step
    <2>3. CASE jobs[j].state = "absent" /\ x.state = "accepted"
      BY <2>2, <2>3 DEF Lifecycle!Next, Lifecycle!Accept
    <2>4. CASE jobs[j].state = "accepted" /\ x.state = "running"
      BY <2>2, <2>4 DEF Lifecycle!Next, Lifecycle!Start
    <2>5. CASE jobs[j].state = "running" /\ x.state \in Terminal
      BY <2>2, <2>5 DEF Lifecycle!Next, Lifecycle!Finish, Terminal
    <2>6. QED
      BY <1>4, <2>3, <2>4, <2>5
  <1>5. QED
    BY <1>1, <1>2, <1>4 DEF DispatchEffect

LEMMA StepSimulates ==
    TypeOK /\ DispatchInv /\ [Next]_vars => [Lifecycle!Next]_(Lifecycle!vars)
  <1> SUFFICES ASSUME TypeOK, DispatchInv, [Next]_vars
               PROVE  Lifecycle!Next \/ UNCHANGED Lifecycle!vars
    OBVIOUS
  <1>0. ASSUME UNCHANGED <<jobs, logs>> PROVE UNCHANGED Lifecycle!vars
    BY <1>0 DEF Lifecycle!vars
  <1>1. ASSUME NEW j \in Jobs, Submit(j) \/ Dispatch(j)
        PROVE  Lifecycle!Next \/ UNCHANGED Lifecycle!vars
    BY <1>1, DispatchRefines, DispatchSimulates DEF Submit, Dispatch
  <1>2. ASSUME NEW j \in Jobs, Worker(j)
        PROVE  UNCHANGED Lifecycle!vars
    BY <1>2, <1>0 DEF Worker, storeVars
  <1>3. ASSUME NEW s \in Rpcs, Broadcast(s)
        PROVE  UNCHANGED Lifecycle!vars
    BY <1>3, <1>0 DEF Broadcast, BroadcastStep, BroadcastOne
  <1>4. ASSUME NEW s \in Rpcs, Handler(s)
        PROVE  UNCHANGED Lifecycle!vars
    BY <1>4, <1>0, HandlerFrame DEF Handler
  <1>5. ASSUME NEW c \in Clients, Client(c)
        PROVE  UNCHANGED Lifecycle!vars
    BY <1>5, <1>0, ClientFrame
  <1>6. CASE UNCHANGED vars
    BY <1>6, <1>0 DEF vars, storeVars
  <1>7. QED
    BY <1>1, <1>2, <1>3, <1>4, <1>5, <1>6 DEF Next, Quiescent

(***************************************************************************)
(* The control plane implements the life cycle JobLifecycle promises: a    *)
(* job is accepted, started and finished once each, and its log only grows *)
(* while it runs, whatever workers, subscribers and clients do.            *)
(***************************************************************************)
THEOREM Refinement == Spec => ImplementsLifecycle
  <1>1. Init => Lifecycle!Init
    BY DEF Init, StoreInit, Lifecycle!Init
  <1>2. Init => TypeOK /\ DispatchInv
    BY TypeInit, DispatchInvInit
  <1>3. TypeOK /\ DispatchInv /\ [Next]_vars => (TypeOK /\ DispatchInv)'
    BY TypeNext, DispatchInvNext
  <1>4. QED
    BY <1>1, <1>2, <1>3, StepSimulates, PTL DEF Spec, ImplementsLifecycle, Lifecycle!Spec
=============================================================================
