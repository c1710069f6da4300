------------------------------ MODULE ToolExec ------------------------------
(***************************************************************************)
(* One run of the shell tool (internal/remote/session_service.go): a       *)
(* process on two pipes or on a terminal, what it writes turned into       *)
(* events as it is read and, for a model's call, kept up to a limit; a     *)
(* cancel kills the process, a child of it may hold the output open.       *)
(*                                                                         *)
(* Output is counted; an event holds the bytes of one read.                *)
(***************************************************************************)
EXTENDS Integers

CONSTANTS
    Limit,   \* what a limitedBuffer keeps
    MaxOut   \* bound: bytes written to one stream

VARIABLES
    mode,     \* "pipes" or "pty"
    capture,  \* execShellToolCapture: the output is kept
    proc,     \* the process: run, killed, dead, waited
    child,    \* a child that lives on holds the output open
    written,  \* written[s]: bytes written to the stream
    read,     \* read[s]: bytes read
    events,   \* events[s]: bytes in events
    kept,     \* kept[s]: bytes in the limitedBuffer
    cut,      \* cut[s]: its truncated flag
    reader,   \* reader[s]: read, keep, say (an event), kill, end
    canceled, \* ctx has been canceled
    result    \* the tool's result: "", then the exit status

vars == <<mode, capture, proc, child, written, read, events, kept, cut, reader, canceled, result>>

Streams == IF mode = "pty" THEN {"pty"} ELSE {"stdout", "stderr"}
All == {"pty", "stdout", "stderr"}

Init ==
    /\ mode \in {"pipes", "pty"} /\ capture \in BOOLEAN /\ child \in BOOLEAN
    /\ proc = "run" /\ canceled = FALSE /\ result = ""
    /\ written = [s \in All |-> 0] /\ read = written /\ events = written /\ kept = written
    /\ cut = [s \in All |-> FALSE] /\ reader = [s \in All |-> "read"]

-----------------------------------------------------------------------------
\* The process, and a child of it; both write while they live.
Holds == proc \in {"run", "killed"} \/ child

Write(s) ==
    /\ Holds /\ result = "" /\ s \in Streams /\ written[s] < MaxOut
    /\ written' = [written EXCEPT ![s] = @ + 1]
    /\ UNCHANGED <<mode, capture, proc, child, read, events, kept, cut, reader, canceled, result>>

ProcessEnds ==
    /\ \/ proc \in {"run", "killed"} /\ proc' = "dead" /\ UNCHANGED child
       \/ child /\ child' = FALSE /\ UNCHANGED proc
    /\ UNCHANGED <<mode, capture, written, read, events, kept, cut, reader, canceled, result>>

\* handleCancel: exec.CommandContext kills the process.
Cancel ==
    /\ ~canceled /\ result = "" /\ canceled' = TRUE
    /\ proc' = IF proc = "run" THEN "killed" ELSE proc
    /\ UNCHANGED <<mode, capture, child, written, read, events, kept, cut, reader, result>>

-----------------------------------------------------------------------------
(***************************************************************************)
(* streamReader and streamReaderTo, one for each pipe, and the read loop   *)
(* of execShellPTY and execShellPTYTo: read, keep, then say.               *)
(***************************************************************************)
\* Wait has closed the read ends of the pipes.
Closed(s) == mode = "pipes" /\ proc = "waited"

Read(s) ==
    /\ s \in Streams /\ reader[s] = "read" /\ ~Closed(s) /\ read[s] < written[s]
    /\ \E n \in 1..(written[s] - read[s]) : read' = [read EXCEPT ![s] = @ + n]
    /\ reader' = [reader EXCEPT ![s] = IF capture THEN "keep" ELSE "say"]
    /\ UNCHANGED <<mode, capture, proc, child, written, events, kept, cut, canceled, result>>

\* Mutant: a write that fills the buffer counts as truncated.
LimitedWrite_OffByOne(s) ==
    LET n == read[s] - events[s] IN
    /\ reader[s] = "keep" /\ reader' = [reader EXCEPT ![s] = "say"]
    /\ kept' = [kept EXCEPT ![s] = IF @ + n > Limit THEN Limit ELSE @ + n]
    /\ cut' = [cut EXCEPT ![s] = @ \/ kept[s] + n >= Limit]
    /\ UNCHANGED <<mode, capture, proc, child, written, read, events, canceled, result>>

LimitedWrite(s) ==
    LET n == read[s] - events[s] IN
    /\ reader[s] = "keep" /\ reader' = [reader EXCEPT ![s] = "say"]
    /\ kept' = [kept EXCEPT ![s] = IF @ + n > Limit THEN Limit ELSE @ + n]
    /\ cut' = [cut EXCEPT ![s] = @ \/ kept[s] + n > Limit]
    /\ UNCHANGED <<mode, capture, proc, child, written, read, events, canceled, result>>

Say(s) ==
    /\ reader[s] = "say" /\ reader' = [reader EXCEPT ![s] = "read"]
    /\ events' = [events EXCEPT ![s] = read[s]]
    /\ UNCHANGED <<mode, capture, proc, child, written, read, kept, cut, canceled, result>>

\* The end of the output, EIO on a terminal, or a pipe that Wait closed.
ReadEnds(s) ==
    /\ s \in Streams /\ reader[s] = "read"
    /\ Closed(s) \/ (read[s] = written[s] /\ ~Holds)
    /\ reader' = [reader EXCEPT ![s] = "end"]
    /\ UNCHANGED <<mode, capture, proc, child, written, read, events, kept, cut, canceled, result>>

\* The terminal is asked every 500 ms whether the call was canceled.
PTYDeadline ==
    /\ mode = "pty" /\ reader["pty"] = "read" /\ read["pty"] = written["pty"]
    /\ canceled /\ reader' = [reader EXCEPT !["pty"] = "end"]
    /\ proc' = IF proc = "run" THEN "killed" ELSE proc
    /\ UNCHANGED <<mode, capture, child, written, read, events, kept, cut, canceled, result>>

\* cmd.Wait: before the readers of pipes, after the reader of a terminal.
Wait ==
    /\ proc = "dead" /\ proc' = "waited"
    /\ mode = "pty" => reader["pty"] = "end"
    /\ UNCHANGED <<mode, capture, child, written, read, events, kept, cut, reader, canceled, result>>

\* wg.Wait, and the exit status.
Return ==
    /\ proc = "waited" /\ result = "" /\ \A s \in Streams : reader[s] = "end"
    /\ result' \in IF canceled THEN {"0", "1", "-1"} ELSE {"0", "1"}
    /\ UNCHANGED <<mode, capture, proc, child, written, read, events, kept, cut, reader, canceled>>

Reader(s) == Read(s) \/ LimitedWrite(s) \/ Say(s) \/ ReadEnds(s)
Next == ProcessEnds \/ Cancel \/ PTYDeadline \/ Wait \/ Return \/ \E s \in All : Write(s) \/ Reader(s)
Spec == Init /\ [][Next]_vars

-----------------------------------------------------------------------------
TypeOK ==
    /\ proc \in {"run", "killed", "dead", "waited"} /\ result \in {"", "0", "1", "-1"}
    /\ \A s \in All : events[s] <= read[s] /\ read[s] <= written[s] /\ written[s] <= MaxOut

(***************************************************************************)
(* The result is the last event of a call: what was read before it has     *)
(* been said, and nothing is read after it (wg.Wait; handleToolInvoke and  *)
(* execToolSync report what these functions return).                       *)
(***************************************************************************)
ResultComesLast == result # "" => \A s \in Streams : reader[s] = "end" /\ events[s] = read[s]

(***************************************************************************)
(* A terminal gives up all that was written to it unless the call was      *)
(* canceled; and what a model is shown is the beginning of what the events *)
(* hold, marked as truncated exactly if there was more (limitedBuffer).    *)
(***************************************************************************)
OutputIsWhole ==
    /\ mode = "pty" /\ result # "" /\ ~canceled => events["pty"] = written["pty"]
    /\ result # "" /\ capture =>
         \A s \in Streams :
            /\ kept[s] = IF events[s] > Limit THEN Limit ELSE events[s]
            /\ cut[s] <=> events[s] > Limit
=============================================================================
