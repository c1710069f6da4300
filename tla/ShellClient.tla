----------------------------- MODULE ShellClient -----------------------------
(***************************************************************************)
(* `xrunner ssh attach --resume' (cmd/xrunner/ssh.go): the client of a     *)
(* durable shell.  It prints the last lines of the log (TailShell), then   *)
(* follows the log from where that ended, either with a terminal of its    *)
(* own (pumpShell) or a command at a time (runShellCommandMode).           *)
(*                                                                         *)
(* A unit of output is its position in the log.  AttachShell itself, with  *)
(* its queues and its clients' offsets, is the subject of ShellAttach; it  *)
(* appears here as the server that sends chunks and completions.           *)
(***************************************************************************)
EXTENDS Integers, Sequences, SequencesExt, FiniteSets

CONSTANTS
    Small,     \* chunks below this are not compressed (256 bytes)
    SendCap,   \* capacity of sendCh (128)
    DoneCap,   \* capacity of completedCh (32)
    MaxLog,    \* bound: output in the log
    MaxRuns,   \* bound: commands entered
    MaxOthers  \* bound: commands of others that complete

VARIABLES
    mode,      \* pump or command
    zstd,      \* --shell-compress zstd
    at,        \* where the command is
    log,       \* the size of the log
    tail,      \* the size of the log that TailShell read
    from,      \* startOffset
    shown,     \* the output on the screen, in order
    rd,        \* how far the server has read
    wire,      \* from the server: chunks and completions
    owed,      \* the acknowledgement the receiving goroutine is about to queue, or 0
    sendCh,    \* acknowledgements for the sending goroutine
    acked,     \* what the server knows
    run,       \* [command -> none, sent, running, late, finished]
    wait,      \* the command the prompt waits for, or 0
    completedCh,
    dropped,   \* history: completions that found completedCh full
    others     \* commands of others that have completed

vars == <<mode, zstd, at, log, tail, from, shown, rd, wire, owed, sendCh, acked,
          run, wait, completedCh, dropped, others>>
server == <<log, rd>>
prompt == <<run, wait, completedCh, dropped, others>>

Runs == 1..MaxRuns
Chunk(off, len, packed) == [kind |-> "chunk", off |-> off, len |-> len, packed |-> packed]
Completed(id) == [kind |-> "completed", id |-> id]

\* closing: done is closed.  closed: sendCh is closed too, pumpShell returns.
\* panicked: a goroutine has sent on the closed channel.
\* deaf: the receiving goroutine has ended, and the command prompt has not looked yet.
Phases == {"ensure", "replay", "tailed", "attach", "stream", "deaf", "closing", "closed", "panicked", "over"}

TypeOK ==
    /\ mode \in {"pump", "command"} /\ zstd \in BOOLEAN /\ at \in Phases
    /\ log \in 0..MaxLog /\ {tail, from, rd} \subseteq 0..log
    /\ Range(shown) \subseteq 1..log /\ owed \in 0..log /\ acked \in 0..log
    /\ Len(sendCh) <= SendCap /\ Range(sendCh) \subseteq 0..log
    /\ run \in [Runs -> {"none", "sent", "running", "late", "finished"}]
    /\ wait \in 0..MaxRuns /\ dropped \subseteq 0..MaxRuns /\ others \in 0..MaxOthers
    /\ Len(completedCh) <= DoneCap

Init ==
    /\ mode \in {"pump", "command"} /\ zstd \in BOOLEAN /\ at = "ensure"
    /\ log = 0 /\ tail = 0 /\ from = 0 /\ shown = <<>> /\ rd = 0 /\ wire = <<>>
    /\ owed = 0 /\ sendCh = <<>> /\ acked = 0 /\ run = [i \in Runs |-> "none"]
    /\ wait = 0 /\ completedCh = <<>> /\ dropped = {} /\ others = 0

-----------------------------------------------------------------------------
\* The shell and the server.

Output ==
    /\ log < MaxLog /\ log' = log + 1
    /\ UNCHANGED <<mode, zstd, at, tail, from, shown, rd, wire, owed, sendCh, acked, prompt>>

\* flush: what was read goes out as one chunk, compressed if that is worth while.
SendChunk ==
    /\ at \in {"stream", "deaf", "closing", "closed"} /\ rd < log
    /\ \E n \in 1..log - rd :
         /\ wire' = Append(wire, Chunk(rd, n, zstd /\ n >= Small))
         /\ rd' = rd + n
    /\ UNCHANGED <<mode, zstd, at, log, tail, from, shown, owed, sendCh, acked, prompt>>

\* A Run message is typed into the shell by a goroutine of its own.
StartRun(i) ==
    /\ run[i] = "sent" /\ run' = [run EXCEPT ![i] = "running"]
    /\ UNCHANGED <<mode, zstd, at, server, tail, from, shown, wire, owed, sendCh, acked,
                   wait, completedCh, dropped, others>>

\* It ends within the server's ten seconds, and the client is told; or later, and it is not.
CompleteRun(i) ==
    /\ run[i] = "running" /\ run' = [run EXCEPT ![i] = "finished"]
    /\ wire' = Append(wire, Completed(i))
    /\ UNCHANGED <<mode, zstd, at, server, tail, from, shown, owed, sendCh, acked,
                   wait, completedCh, dropped, others>>

RunTimesOut(i) ==
    /\ run[i] = "running" /\ run' = [run EXCEPT ![i] = "late"]
    /\ UNCHANGED <<mode, zstd, at, server, tail, from, shown, wire, owed, sendCh, acked,
                   wait, completedCh, dropped, others>>

\* The end of a command that the shell's hooks report, of whomever it is.
CompleteOther ==
    /\ at = "stream" /\ mode = "command" /\ others < MaxOthers /\ others' = others + 1
    /\ wire' = Append(wire, Completed(0))
    /\ UNCHANGED <<mode, zstd, at, server, tail, from, shown, owed, sendCh, acked,
                   run, wait, completedCh, dropped>>

-----------------------------------------------------------------------------
\* attach --resume, up to the stream.

EnsureShellSession ==
    /\ at = "ensure" /\ from' = log
    /\ at' \in {"replay", "attach"}
    /\ UNCHANGED <<mode, zstd, server, tail, shown, wire, owed, sendCh, acked, prompt>>

\* TailShell reads the end of the log as it is now; the size that it reports is taken after.
TailFileLines ==
    /\ at = "replay" /\ at' = "tailed" /\ tail' = log
    /\ \E first \in 1..log + 1 : shown' = [i \in 1..log + 1 - first |-> first + i - 1]
    /\ UNCHANGED <<mode, zstd, server, from, wire, owed, sendCh, acked, prompt>>

\* Mutant: the stream starts at the size that EnsureShellSession has seen.
TailShell_KeepsStart ==
    /\ at = "tailed" /\ at' \in {"attach", "over"}
    /\ UNCHANGED <<mode, zstd, server, tail, from, shown, wire, owed, sendCh, acked, prompt>>

\* The tail is printed; --replay-only ends here.
TailShell ==
    /\ at = "tailed" /\ from' = log
    /\ at' \in {"attach", "over"}
    /\ UNCHANGED <<mode, zstd, server, tail, shown, wire, owed, sendCh, acked, prompt>>

\* An error of TailShell is told, and attaching goes on without a replay.
ReplayFails ==
    /\ at = "replay" /\ at' \in {"attach", "over"}
    /\ UNCHANGED <<mode, zstd, server, tail, from, shown, wire, owed, sendCh, acked, prompt>>

AttachShell ==
    /\ at = "attach" /\ at' = "stream" /\ rd' = from
    /\ UNCHANGED <<mode, zstd, log, tail, from, shown, wire, owed, sendCh, acked, prompt>>

-----------------------------------------------------------------------------
(***************************************************************************)
(* The receiving goroutine.  It runs on while the command ends, and        *)
(* decodes every chunk of a compressed stream, the small ones included:    *)
(* such a chunk ends the command.  A chunk is acknowledged once it is      *)
(* written, by its place and its length in the log.                        *)
(***************************************************************************)
Streams == at \in {"stream", "closing", "closed"}

RecvChunk ==
    /\ Streams /\ owed = 0 /\ wire # <<>> /\ Head(wire).kind = "chunk"
    /\ LET c == Head(wire) IN
         /\ zstd => c.packed
         /\ shown' = shown \o [i \in 1..c.len |-> c.off + i]
         /\ owed' = c.off + c.len
    /\ wire' = Tail(wire)
    /\ UNCHANGED <<mode, zstd, at, server, tail, from, sendCh, acked, prompt>>

DecodeFails ==
    /\ at = "stream" /\ owed = 0 /\ wire # <<>> /\ Head(wire).kind = "chunk"
    /\ zstd /\ ~Head(wire).packed
    /\ at' = IF mode = "pump" THEN "closing" ELSE "deaf"
    /\ UNCHANGED <<mode, zstd, server, tail, from, shown, wire, owed, sendCh, acked, prompt>>

\* enqueue: a select of done and of a send on sendCh, which may be closed.
Enqueue ==
    /\ mode = "pump" /\ Streams /\ owed # 0 /\ owed' = 0
    /\ \/ Len(sendCh) < SendCap /\ at # "closed" /\ sendCh' = Append(sendCh, owed) /\ UNCHANGED at
       \/ at # "stream" /\ UNCHANGED <<at, sendCh>>
       \/ at = "closed" /\ at' = "panicked" /\ UNCHANGED sendCh
    /\ UNCHANGED <<mode, zstd, server, tail, from, shown, wire, acked, prompt>>

Send ==
    /\ Streams /\ sendCh # <<>> /\ sendCh' = Tail(sendCh) /\ acked' = Head(sendCh)
    /\ UNCHANGED <<mode, zstd, at, server, tail, from, shown, wire, owed, prompt>>

\* In command mode the goroutine sends by itself.
SendAck ==
    /\ mode = "command" /\ Streams /\ owed # 0 /\ owed' = 0 /\ acked' = owed
    /\ UNCHANGED <<mode, zstd, at, server, tail, from, shown, wire, sendCh, prompt>>

\* Completions go to the prompt, in command mode, while there is room.
RecvCompleted ==
    /\ Streams /\ owed = 0 /\ wire # <<>> /\ Head(wire).kind = "completed"
    /\ wire' = Tail(wire)
    /\ IF Len(completedCh) < DoneCap
         THEN completedCh' = Append(completedCh, Head(wire).id) /\ UNCHANGED dropped
         ELSE dropped' = dropped \cup {Head(wire).id} /\ UNCHANGED completedCh
    /\ UNCHANGED <<mode, zstd, at, server, tail, from, shown, owed, sendCh, acked, run, wait, others>>

-----------------------------------------------------------------------------
\* runShellCommandMode: a line is sent, and the next is read when it has completed.

Scan(i) ==
    /\ mode = "command" /\ at \in {"stream", "deaf"} /\ wait = 0
    /\ run[i] = "none" /\ \A j \in 1..i - 1 : run[j] # "none"
    /\ run' = [run EXCEPT ![i] = "sent"] /\ wait' = i
    /\ UNCHANGED <<mode, zstd, at, server, tail, from, shown, wire, owed, sendCh, acked,
                   completedCh, dropped, others>>

TakeCompleted ==
    /\ at \in {"stream", "deaf"} /\ wait # 0 /\ completedCh # <<>>
    /\ completedCh' = Tail(completedCh)
    /\ wait' = IF Head(completedCh) = wait THEN 0 ELSE wait
    /\ UNCHANGED <<mode, zstd, at, server, tail, from, shown, wire, owed, sendCh, acked,
                   run, dropped, others>>

-----------------------------------------------------------------------------
\* The end: an interrupt, a broken stream, an error on either side, /exit.  The command
\* prompt sees an interrupt or an error only while it waits for a command, or when the
\* next line cannot be sent; until then it reads on.
Ends ==
    /\ at = "stream" /\ at' \in IF mode = "pump" THEN {"closing"} ELSE {"deaf", "over"}
    /\ UNCHANGED <<mode, zstd, server, tail, from, shown, wire, owed, sendCh, acked, prompt>>

PromptEnds ==
    /\ at = "deaf" /\ at' = "over"
    /\ UNCHANGED <<mode, zstd, server, tail, from, shown, wire, owed, sendCh, acked, prompt>>

CloseSendCh ==
    /\ at = "closing" /\ at' = "closed"
    /\ UNCHANGED <<mode, zstd, server, tail, from, shown, wire, owed, sendCh, acked, prompt>>

PumpReturns ==
    /\ at = "closed" /\ at' = "over"
    /\ UNCHANGED <<mode, zstd, server, tail, from, shown, wire, owed, sendCh, acked, prompt>>

Shell == Output \/ SendChunk \/ CompleteOther \/ \E i \in Runs : StartRun(i) \/ CompleteRun(i) \/ RunTimesOut(i)
Replay == EnsureShellSession \/ TailFileLines \/ TailShell \/ ReplayFails \/ AttachShell
pumpShell == RecvChunk \/ DecodeFails \/ Enqueue \/ Send \/ SendAck \/ RecvCompleted \/ Ends \/ CloseSendCh \/ PumpReturns
runShellCommandMode == TakeCompleted \/ PromptEnds \/ \E i \in Runs : Scan(i)

Next == Shell \/ Replay \/ pumpShell \/ runShellCommandMode

Spec == Init /\ [][Next]_vars

-----------------------------------------------------------------------------
\* The screen shows the log in order and once; only what was written while TailShell
\* read the log can be missing (newSSHAttachCmd, TailShell).
ScreenFollowsTheLog ==
    \A i \in 1..Len(shown) - 1 :
        /\ shown[i] < shown[i + 1]
        /\ \A p \in shown[i] + 1..shown[i + 1] - 1 : p \in tail + 1..from

\* The server is told of output only when it is on the screen (pumpShell, runShellCommandMode).
AcksAreShown ==
    \A p \in Range(sendCh) \cup {owed, acked} : p > 0 => shown # <<>> /\ p <= Last(shown)

\* The lines of one command prompt run in the shell one after the other (runShellCommandMode).
RunsOneAtATime == Cardinality({i \in Runs : run[i] \in {"sent", "running", "late"}}) <= 1

\* A prompt that waits has its command still to end, or the completion on its way, or the
\* server gave up on the command, or the completion found a full channel.
PromptIsAnswered ==
    wait # 0 /\ at = "stream" =>
        \/ run[wait] \in {"sent", "running", "late"} \/ wait \in Range(completedCh) \cup dropped
        \/ Completed(wait) \in Range(wire)
=============================================================================
