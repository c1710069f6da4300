------------------------------ MODULE ShellRuns ------------------------------
(***************************************************************************)
(* Commands in a durable shell and their records (internal/remote/shell.go)*)
(* RunShell, or a Run message of an attachment, types a command between    *)
(* two echoed markers and scans the log for the second; the hooks of the   *)
(* shell frame every command with escape sequences, from which each        *)
(* attachment makes records of its own.  All append to one timeline file,  *)
(* the header and the body of a record with separate writes.               *)
(*                                                                         *)
(* The log is a sequence of tokens: what its readers tell apart.           *)
(***************************************************************************)
EXTENDS Integers, Sequences, FiniteSets, SequencesExt

CONSTANTS
    Runs,     \* the calls of RunShell, each with a command id of its own
    Tails,    \* the attachments that read the log
    Hooks,    \* the shell is one with hooks (zsh, bash)
    Torn,     \* a line may reach the log in two parts
    Timeouts, \* commands may outlast the caller's timeout
    MaxOut    \* bound: output tokens of a command

VARIABLES
    log,      \* what tmux has piped into the file
    typed,    \* lines the shell has not executed yet
    running,  \* the command in the foreground: 0 or 1 of them, with its state
    run,      \* [Runs -> [phase, begin, end, code]]
    tail,     \* [Tails -> [on, pos, known: commands whose start it saw]]
    writing,  \* [Runs \cup Tails -> the record half written, if any]
    timeline  \* the writes to the timeline file

vars == <<log, typed, running, run, tail, writing, timeline>>

ExitCode == 12   \* of every command; two digits, so that it can be torn
None == [id |-> "none"]
Tok(kind, id) == [kind |-> kind, id |-> id]
Tokens == [kind : {"start", "begin", "out", "end", "end1", "end2", "stop"}, id : Runs]
Stages == {"typed", "shown", "echoed", "torn", "over"}

TypeOK ==
    /\ log \in Seq(Tokens) /\ typed \in Seq(Runs)
    /\ running \in {<<>>} \cup {<<r, s>> : r \in Runs, s \in Stages}
    /\ \A r \in Runs : /\ run[r].phase \in {"idle", "waiting", "record", "done", "failed"}
                       /\ {run[r].begin, run[r].end} \subseteq 0..Len(log)
                       /\ run[r].code \in {0, ExitCode \div 10, ExitCode}
    /\ \A t \in Tails : tail[t].on \in BOOLEAN /\ tail[t].pos \in 0..Len(log) /\ tail[t].known \subseteq Runs
    /\ \A w \in Runs \cup Tails : writing[w] = None \/ writing[w].id \in Runs
    /\ Len(timeline) <= 2 * (Cardinality(Runs) + Cardinality(Runs) * Cardinality(Tails))

Init ==
    /\ log = <<>> /\ typed = <<>> /\ running = <<>>
    /\ run = [r \in Runs |-> [phase |-> "idle", begin |-> 0, end |-> 0, code |-> 0]]
    /\ tail = [t \in Tails |-> [on |-> FALSE, pos |-> 0, known |-> {}]]
    /\ writing = [w \in Runs \cup Tails |-> None] /\ timeline = <<>>

Outputs(r) == Cardinality({i \in DOMAIN log : log[i] = Tok("out", r)})

-----------------------------------------------------------------------------
\* The shell, in the pane.

Write(tok) == log' = Append(log, tok)

\* It reads the next line; preexec of the hooks announces the command.
Execute ==
    /\ running = <<>> /\ typed # <<>>
    /\ typed' = Tail(typed) /\ running' = <<Head(typed), "typed">>
    /\ IF Hooks THEN Write(Tok("start", Head(typed))) ELSE UNCHANGED log
    /\ UNCHANGED <<run, tail, writing, timeline>>

\* echo BEGIN; the command; echo END:$ec - in one part or in two.
RunLine ==
    /\ running # <<>>
    /\ LET r == running[1] IN
         \/ running[2] = "typed" /\ Write(Tok("begin", r)) /\ running' = <<r, "shown">>
         \/ running[2] = "shown" /\ Outputs(r) < MaxOut /\ Write(Tok("out", r)) /\ UNCHANGED running
         \/ running[2] = "shown" /\ Write(Tok("end", r)) /\ running' = <<r, "echoed">>
         \/ running[2] = "shown" /\ Torn /\ Write(Tok("end1", r)) /\ running' = <<r, "torn">>
         \/ running[2] = "torn" /\ Write(Tok("end2", r)) /\ running' = <<r, "echoed">>
    /\ UNCHANGED <<typed, run, tail, writing, timeline>>

\* precmd of the hooks ends the command.
CommandEnds ==
    /\ running # <<>> /\ running[2] = "echoed"
    /\ running' = <<>>
    /\ IF Hooks THEN Write(Tok("stop", running[1])) ELSE UNCHANGED log
    /\ UNCHANGED <<typed, run, tail, writing, timeline>>

Shell == Execute \/ RunLine \/ CommandEnds

-----------------------------------------------------------------------------
\* RunShell, and the goroutine of a Run message.

\* The begin offset is the size of the log, then the line is typed: ahead of
\* the shell, if that still runs something else.
RunShell(r) ==
    /\ run[r].phase = "idle"
    /\ run' = [run EXCEPT ![r].phase = "waiting", ![r].begin = Len(log)]
    /\ typed' = Append(typed, r)
    /\ UNCHANGED <<log, running, tail, writing, timeline>>

\* Mutant: only the first digit is read.
Parsed_Early(r) == ExitCode \div 10

\* parseEndMarker: the digits there are after the last end marker.
Seen(r) == {i \in run[r].begin + 1..Len(log) : log[i].id = r /\ log[i].kind \in {"end", "end1", "end2"}}
Parsed(r) == IF \E i \in Seen(r) : log[i].kind \in {"end", "end2"} THEN ExitCode ELSE ExitCode \div 10

\* waitForRunEnd: reads what there is, to the last byte even if its line is not
\* complete; the end offset is where the file was read to.
WaitForRunEnd(r) ==
    /\ run[r].phase = "waiting" /\ Seen(r) # {}
    /\ run' = [run EXCEPT ![r].phase = "record", ![r].end = Len(log), ![r].code = Parsed(r)]
    /\ UNCHANGED <<log, typed, running, tail, writing, timeline>>

RunTimesOut(r) ==
    /\ Timeouts /\ run[r].phase = "waiting"
    /\ run' = [run EXCEPT ![r].phase = "failed"]
    /\ UNCHANGED <<log, typed, running, tail, writing, timeline>>

-----------------------------------------------------------------------------
\* appendCommandRecord, by anyone: two writes to a file opened for appending.

BeginRecord(w, id) ==
    /\ writing[w] = None
    /\ writing' = [writing EXCEPT ![w] = [id |-> id]]
    /\ timeline' = Append(timeline, <<"header", id>>)

AppendBody(w) ==
    /\ writing[w] # None
    /\ timeline' = Append(timeline, <<"body", writing[w].id>>)
    /\ writing' = [writing EXCEPT ![w] = None]
    /\ UNCHANGED <<log, typed, running, run, tail>>

RecordRun(r) ==
    /\ run[r].phase = "record"
    /\ run' = [run EXCEPT ![r].phase = "done"]
    /\ BeginRecord(r, r)
    /\ UNCHANGED <<log, typed, running, tail>>

-----------------------------------------------------------------------------
\* The send loop of an attachment.

\* It starts where its client asks, or where the client was resumed.
AttachShell(t) ==
    /\ ~tail[t].on
    /\ \E pos \in 0..Len(log) : tail' = [tail EXCEPT ![t].on = TRUE, ![t].pos = pos]
    /\ UNCHANGED <<log, typed, running, run, writing, timeline>>

\* flush: stripXRMarkers finds the markers; every end is recorded, known or not.
TailRead(t) ==
    /\ tail[t].on /\ tail[t].pos < Len(log) /\ writing[t] = None
    /\ LET tok == log[tail[t].pos + 1] IN
         /\ tail' = [tail EXCEPT ![t].pos = @ + 1,
                                 ![t].known = IF tok.kind = "start" THEN @ \cup {tok.id}
                                              ELSE IF tok.kind = "stop" THEN @ \ {tok.id} ELSE @]
         /\ IF tok.kind = "stop" THEN BeginRecord(t, tok.id) ELSE UNCHANGED <<writing, timeline>>
    /\ UNCHANGED <<log, typed, running, run>>

Next ==
    \/ Shell
    \/ \E r \in Runs : RunShell(r) \/ WaitForRunEnd(r) \/ RunTimesOut(r) \/ RecordRun(r)
    \/ \E t \in Tails : AttachShell(t) \/ TailRead(t)
    \/ \E w \in Runs \cup Tails : AppendBody(w)

Spec == Init /\ [][Next]_vars

-----------------------------------------------------------------------------
Recorded(r) == run[r].phase \in {"record", "done"}

\* The range of a finished command holds all its output (beginOffset before the
\* line is typed, endOffset behind the marker).
RangeHoldsOutput ==
    \A r \in Runs : Recorded(r) =>
       \A i \in DOMAIN log : log[i] = Tok("out", r) => run[r].begin < i /\ i <= run[r].end

\* The exit code is the command's (parseEndMarker on what has been read).
ExitCodeIsRight == \A r \in Runs : Recorded(r) => run[r].code = ExitCode

==============================================================================
