----------------------------- MODULE WorkerRun ------------------------------
(***************************************************************************)
(* The worker's side of one RunJob stream (internal/worker/server.go and   *)
(* runner.go): two collector goroutines read the process's stdout and      *)
(* stderr line by line; each appends its line to the shared slice `chunks' *)
(* under a mutex and, after releasing it, sends the line on the stream.    *)
(* When both have hit EOF the response with the final state, and with all  *)
(* the collected chunks, is sent as the terminal message.                  *)
(*                                                                         *)
(* A process writes a line and a collector reads it in one step: the pipe  *)
(* between them is not observable.  The two goroutines call Send on one    *)
(* stream without synchronisation; the model lets their messages            *)
(* interleave in any order.  When the connection breaks the process is     *)
(* killed and nothing the worker does afterwards reaches the control plane.*)
(***************************************************************************)
EXTENDS LogStore

CONSTANTS
    MaxLines,   \* bound: MaxLines[fd] lines a process writes to fd
    ExitCodes   \* exit codes a process may end with

ASSUME MaxLinesAssumption == MaxLines \in [Fds -> Nat]
ASSUME ExitCodesAssumption == ExitCodes \subseteq Int

VARIABLES
    run,      \* run[j]: where Execute is for job j
    col,      \* col[j][fd]: what the collector of fd does next
    pos,      \* pos[j][fd]: lines the collector of fd has read
    chunks,   \* chunks[j]: lines collected, in collection order
    rpc,      \* rpc[j]: responses sent and not yet received
    rpcEnd    \* rpcEnd[j]: how the stream ends once rpc[j] is drained

workerVars == <<run, col, pos, chunks, rpc, rpcEnd>>

NoResult == [state |-> "absent", exitCode |-> 0]
Responses == [logs : Seq(Lines), terminal : BOOLEAN, result : Snapshots]

WorkerTypeOK ==
    /\ run \in [Jobs -> {"idle", "prepare", "exec", "sent", "gone"}]
    /\ col \in [Jobs -> [Fds -> {"read", "forward", "done"}]]
    /\ pos \in [Jobs -> [Fds -> Nat]]
    /\ chunks \in [Jobs -> Seq(Lines)]
    /\ rpc \in [Jobs -> Seq(Responses)]
    /\ rpcEnd \in [Jobs -> {"open", "eof", "err"}]

WorkerInit ==
    /\ run = [j \in Jobs |-> "idle"]
    /\ col = [j \in Jobs |-> [fd \in Fds |-> "read"]]
    /\ pos = [j \in Jobs |-> [fd \in Fds |-> 0]]
    /\ chunks = [j \in Jobs |-> <<>>]
    /\ rpc = [j \in Jobs |-> <<>>]
    /\ rpcEnd = [j \in Jobs |-> "open"]

\* finalizeState: exit code 0 is success, anything else a failure.
finalizeState(code) == IF code = 0 THEN "succeeded" ELSE "failed"

\* Server.RunJob is entered.
WorkerAccept(j) ==
    /\ run' = [run EXCEPT ![j] = "prepare"]
    /\ UNCHANGED <<col, pos, chunks, rpc, rpcEnd>>

\* Execute gets as far as a started process with its two collectors.
StartProcess(j) ==
    /\ run[j] = "prepare"
    /\ run' = [run EXCEPT ![j] = "exec"]
    /\ UNCHANGED <<col, pos, chunks, rpc, rpcEnd>>

\* Execute returns an error before the process runs: bad workload, workspace,
\* sandbox or start failure.  RunJob returns it and the stream ends in error.
RejectAssignment(j) ==
    /\ run[j] = "prepare"
    /\ run' = [run EXCEPT ![j] = "gone"]
    /\ rpcEnd' = [rpcEnd EXCEPT ![j] = "err"]
    /\ UNCHANGED <<col, pos, chunks, rpc>>

\* collectStream: read a line and append it to the shared slice.
CollectLine(j, fd) ==
    /\ run[j] = "exec" /\ col[j][fd] = "read" /\ pos[j][fd] < MaxLines[fd]
    /\ pos' = [pos EXCEPT ![j][fd] = @ + 1]
    /\ chunks' = [chunks EXCEPT ![j] = Append(@, <<fd, pos[j][fd] + 1>>)]
    /\ col' = [col EXCEPT ![j][fd] = "forward"]
    /\ UNCHANGED <<run, rpc, rpcEnd>>

\* collectStream: send the line just collected.
ForwardLine(j, fd) ==
    /\ run[j] = "exec" /\ col[j][fd] = "forward"
    /\ rpc' = [rpc EXCEPT ![j] = Append(@, [logs |-> << <<fd, pos[j][fd]>> >>,
                                            terminal |-> FALSE,
                                            result |-> NoResult])]
    /\ col' = [col EXCEPT ![j][fd] = "read"]
    /\ UNCHANGED <<run, pos, chunks, rpcEnd>>

\* collectStream: EOF on the pipe.
CollectorEOF(j, fd) ==
    /\ run[j] = "exec" /\ col[j][fd] = "read"
    /\ col' = [col EXCEPT ![j][fd] = "done"]
    /\ UNCHANGED <<run, pos, chunks, rpc, rpcEnd>>

\* Both collectors are done and the process was reaped: RunJob sends the
\* response, which carries every collected chunk, and returns.
SendTerminal(j, code) ==
    /\ run[j] = "exec" /\ \A fd \in Fds : col[j][fd] = "done"
    /\ rpc' = [rpc EXCEPT ![j] = Append(@, [logs |-> chunks[j],
                                            terminal |-> TRUE,
                                            result |-> [state |-> finalizeState(code),
                                                        exitCode |-> code]])]
    /\ run' = [run EXCEPT ![j] = "sent"]
    /\ rpcEnd' = [rpcEnd EXCEPT ![j] = "eof"]
    /\ UNCHANGED <<col, pos, chunks>>

\* The connection to the worker breaks, or the worker dies: the control plane
\* still receives some prefix of what was in flight, then an error.
WorkerStreamBreaks(j) ==
    /\ run[j] \in {"prepare", "exec", "sent"} /\ rpcEnd[j] # "err"
    /\ \E n \in 0..Len(rpc[j]) : rpc' = [rpc EXCEPT ![j] = SubSeq(@, 1, n)]
    /\ run' = [run EXCEPT ![j] = "gone"]
    /\ rpcEnd' = [rpcEnd EXCEPT ![j] = "err"]
    /\ UNCHANGED <<col, pos, chunks>>

WorkerStep(j) ==
    \/ StartProcess(j)
    \/ RejectAssignment(j)
    \/ \E fd \in Fds : CollectLine(j, fd) \/ ForwardLine(j, fd) \/ CollectorEOF(j, fd)
    \/ \E code \in ExitCodes : SendTerminal(j, code)
    \/ WorkerStreamBreaks(j)
=============================================================================
