------------------------------ MODULE ChatShell ------------------------------
(***************************************************************************)
(* `xrunner ssh chat --resume' (cmd/xrunner/ssh_chat.go): a chat whose     *)
(* shell commands run in a durable shell.  Three goroutines share printMu: *)
(* the loop that reads the user's lines (handleChatCommand), the one that  *)
(* prints the session's events, and recvLoop, which follows the shell,     *)
(* keeps the records of its commands under mu, and tells whoever waits for *)
(* one.                                                                    *)
(*                                                                         *)
(* recvLoop defers the unlock of printMu in a loop that does not return:   *)
(* from the first command that completes on, nobody else prints.           *)
(***************************************************************************)
EXTENDS Integers, Sequences

CONSTANTS
    Cmds,      \* commands of this chat, 1..n
    MaxLog,    \* bound: output in the log of the shell
    MaxHooks,  \* bound: other commands that complete in the shell
    MaxEvents  \* bound: events of the session

VARIABLES
    quiet,     \* --shell-quiet: do not replay what has run
    printMu,   \* free, or who has it: main, shell
    mu,        \* free, or shell; the other holders take no other step with it
    main,      \* the loop: where it is, the command it is about, what it does next
    recvLoop,  \* recv, print, unlock, ended
    events,    \* recv, handle, prompt
    left,      \* events still to come
    hooks,     \* other commands still to complete
    run,       \* [command -> none, sent, running, late, done], as the shell sees it
    begin, end,\* the offsets in its record
    log,       \* the size of the shell's log
    wire,      \* from AttachShell: <<phase, command>>
    byID,      \* [command -> none, started, completed]
    waiters,   \* commands somebody waits for
    told,      \* commands whose waiter has its record
    replay     \* what the last replay has printed, in order

vars == <<quiet, printMu, mu, main, recvLoop, events, left, hooks, run, begin, end, log, wire,
          byID, waiters, told, replay>>
locks == <<quiet, printMu, mu>>
shell == <<hooks, run, begin, end, log>>
records == <<byID, waiters, told>>

MainAt == {"prompt", "idle", "register", "wait", "find", "replay", "listed", "locked", "compare", "over"}
Ids == Cmds \cup {0} \* 0: of somebody else, reported by the shell's hooks
At(place, id, next) == main' = [at |-> place, id |-> id, next |-> next]

TypeOK ==
    /\ quiet \in BOOLEAN /\ printMu \in {"free", "main", "shell"} /\ mu \in {"free", "shell"}
    /\ main \in [at : MainAt, id : {0} \cup Cmds, next : {"none", "shell", "replay", "rerun", "failing"}]
    /\ recvLoop \in {"recv", "print", "unlock", "ended"} /\ events \in {"recv", "handle", "prompt"}
    /\ left \in 0..MaxEvents /\ hooks \in 0..MaxHooks
    /\ run \in [Cmds -> {"none", "sent", "running", "late", "done"}]
    /\ begin \in [Cmds -> 0..MaxLog] /\ end \in [Cmds -> 0..MaxLog] /\ log \in 0..MaxLog
    /\ byID \in [Ids -> {"none", "started", "completed"}] /\ {waiters, told} \subseteq SUBSET Cmds
    /\ replay \in Seq(1..MaxLog)

Init ==
    /\ quiet \in BOOLEAN /\ printMu = "free" /\ mu = "free" /\ main = [at |-> "prompt", id |-> 0, next |-> "none"]
    /\ recvLoop = "recv" /\ events = "recv" /\ left = MaxEvents
    /\ run = [i \in Cmds |-> "none"] /\ begin = [i \in Cmds |-> 0] /\ end = [i \in Cmds |-> 0]
    /\ log = 0 /\ wire = <<>> /\ byID = [i \in Ids |-> "none"] /\ hooks = MaxHooks
    /\ waiters = {} /\ told = {} /\ replay = <<>>

-----------------------------------------------------------------------------
\* The shell and AttachShell.

Output ==
    /\ log < MaxLog /\ log' = log + 1
    /\ UNCHANGED <<locks, main, recvLoop, events, left, hooks, run, begin, end, wire, records, replay>>

StartRun(i) ==
    /\ run[i] = "sent" /\ run' = [run EXCEPT ![i] = "running"]
    /\ begin' = [begin EXCEPT ![i] = log] /\ wire' = Append(wire, <<"started", i>>)
    /\ UNCHANGED <<locks, main, recvLoop, events, left, hooks, end, log, records, replay>>

\* waitForRunEnd has found the end, or waited as long as the client asked for.
EndRun(i) ==
    /\ run[i] = "running" /\ run' = [run EXCEPT ![i] = "done"]
    /\ end' = [end EXCEPT ![i] = log] /\ wire' = Append(wire, <<"completed", i>>)
    /\ UNCHANGED <<locks, main, recvLoop, events, left, hooks, begin, log, records, replay>>

GiveUp(i) ==
    /\ run[i] = "running" /\ run' = [run EXCEPT ![i] = "late"]
    /\ UNCHANGED <<locks, main, recvLoop, events, left, hooks, begin, end, log, wire, records, replay>>

\* The hooks of the shell report the end of a command in the log; it may be long ago.
HookEnd ==
    /\ hooks > 0 /\ hooks' = hooks - 1 /\ wire' = Append(wire, <<"completed", 0>>)
    /\ UNCHANGED <<locks, main, recvLoop, events, left, run, begin, end, log, records, replay>>

-----------------------------------------------------------------------------
\* recvLoop.

RecvStarted ==
    /\ recvLoop = "recv" /\ mu = "free" /\ wire # <<>> /\ Head(wire)[1] = "started"
    /\ byID' = [byID EXCEPT ![Head(wire)[2]] = "started"] /\ wire' = Tail(wire)
    /\ UNCHANGED <<locks, main, recvLoop, events, left, shell, waiters, told, replay>>

\* Mutant: the waiter is told while the line is printed, so perhaps never.
RecvCompleted_PrintsFirst ==
    /\ recvLoop = "recv" /\ mu = "free" /\ wire # <<>> /\ Head(wire)[1] = "completed"
    /\ LET id == Head(wire)[2] IN
         /\ byID' = [byID EXCEPT ![id] = "completed"]
         /\ waiters' = waiters \ {id}
         /\ told' = IF printMu = "free" THEN told \cup (waiters \cap {id}) ELSE told
    /\ wire' = Tail(wire) /\ mu' = "shell" /\ recvLoop' = "print"
    /\ UNCHANGED <<quiet, printMu, main, events, left, shell, replay>>

\* The record is kept and its waiter told, before anything is printed.
RecvCompleted ==
    /\ recvLoop = "recv" /\ mu = "free" /\ wire # <<>> /\ Head(wire)[1] = "completed"
    /\ LET id == Head(wire)[2] IN
         /\ byID' = [byID EXCEPT ![id] = "completed"]
         /\ waiters' = waiters \ {id} /\ told' = told \cup (waiters \cap {id})
    /\ wire' = Tail(wire) /\ mu' = "shell" /\ recvLoop' = "print"
    /\ UNCHANGED <<quiet, printMu, main, events, left, shell, replay>>

\* mu is held; printMu is taken, and stays so.
PrintCompletion ==
    /\ recvLoop = "print" /\ printMu = "free" /\ printMu' = "shell" /\ recvLoop' = "unlock"
    /\ UNCHANGED <<quiet, mu, main, events, left, shell, wire, records, replay>>

UnlockRecords ==
    /\ recvLoop = "unlock" /\ mu' = "free" /\ recvLoop' = "recv"
    /\ UNCHANGED <<quiet, printMu, main, events, left, shell, wire, records, replay>>

\* The stream breaks: the goroutine returns, and its deferred unlock runs.
RecvFails ==
    /\ recvLoop = "recv" /\ recvLoop' = "ended"
    /\ printMu' = IF printMu = "shell" THEN "free" ELSE printMu
    /\ UNCHANGED <<quiet, mu, main, events, left, shell, wire, records, replay>>

-----------------------------------------------------------------------------
\* The goroutine that prints the session's events, with a prompt after some.

RecvEvent ==
    /\ events = "recv" /\ left > 0 /\ left' = left - 1 /\ events' = "handle"
    /\ UNCHANGED <<locks, main, recvLoop, shell, wire, records, replay>>

HandleEvent ==
    /\ events = "handle" /\ printMu = "free" /\ events' \in {"recv", "prompt"}
    /\ UNCHANGED <<locks, main, recvLoop, left, shell, wire, records, replay>>

EventPrompt ==
    /\ events = "prompt" /\ printMu = "free" /\ events' = "recv"
    /\ UNCHANGED <<locks, main, recvLoop, left, shell, wire, records, replay>>

-----------------------------------------------------------------------------
\* The user's lines: handleChatCommand.

\* prompt(), and /sessions and /artifacts, which print under the lock and prompt again.
Prompt ==
    /\ main.at = "prompt" /\ printMu = "free" /\ At("idle", 0, "none")
    /\ UNCHANGED <<locks, recvLoop, events, left, shell, wire, records, replay>>

NextCmd == CHOOSE i \in Cmds : run[i] = "none" /\ \A j \in Cmds : run[j] = "none" => i <= j
CmdsLeft == \E i \in Cmds : run[i] = "none"

\* A command is run for /shell and !, or, compared with an earlier one, for /rerun-failing and /fix.
ReadCommand ==
    /\ main.at = "idle"
    /\ \/ \E next \in {"shell", "failing"} : CmdsLeft /\ At("register", NextCmd, next)
       \/ \E i \in Cmds, next \in {"replay", "rerun"} : run[i] # "none" /\ At("find", i, next)
       \/ At("over", 0, "none")
    /\ UNCHANGED <<locks, recvLoop, events, left, shell, wire, records, replay>>

\* /timeline takes printMu and asks the server; without an answer it wants mu as well.
ReadTimeline ==
    /\ main.at = "idle" /\ printMu = "free" /\ printMu' = "main" /\ At("listed", 0, "none")
    /\ UNCHANGED <<quiet, mu, recvLoop, events, left, shell, wire, records, replay>>

PrintTimeline ==
    /\ main.at = "listed"
    /\ \/ printMu' = "free" /\ At("prompt", 0, "none")
       \/ At("locked", 0, "none") /\ UNCHANGED printMu
    /\ UNCHANGED <<quiet, mu, recvLoop, events, left, shell, wire, records, replay>>

ReadRecords ==
    /\ main.at = "locked" /\ mu = "free" /\ printMu' = "free" /\ At("prompt", 0, "none")
    /\ UNCHANGED <<quiet, mu, recvLoop, events, left, shell, wire, records, replay>>

\* Run: the waiter first, then the request.
Run ==
    /\ main.at = "register" /\ mu = "free"
    /\ waiters' = waiters \cup {main.id} /\ run' = [run EXCEPT ![main.id] = "sent"]
    /\ At("wait", main.id, main.next)
    /\ UNCHANGED <<locks, recvLoop, events, left, hooks, begin, end, log, wire, byID, told, replay>>

RunReturns ==
    /\ main.at = "wait" /\ main.id \in told
    /\ CASE main.next = "failing" -> At("compare", main.id, "none")
         [] main.next # "failing" /\ quiet -> At("prompt", 0, "none")
         [] OTHER -> At("find", main.id, "replay")
    /\ UNCHANGED <<locks, recvLoop, events, left, shell, wire, records, replay>>

\* Five seconds after the server gave up, or the event is missing: the chat ends.
RunTimesOut ==
    /\ main.at = "wait" /\ main.id \notin told /\ At("over", 0, "none")
    /\ UNCHANGED <<locks, recvLoop, events, left, shell, wire, records, replay>>

\* The outcome of the command is printed under printMu, with exitOf, which takes mu.
Compare ==
    /\ main.at = "compare" /\ printMu = "free" /\ printMu' = "main" /\ At("locked", 0, "none")
    /\ UNCHANGED <<quiet, mu, recvLoop, events, left, shell, wire, records, replay>>

\* findRecord: here, or from the server, which knows the commands that have ended.
FindRecord ==
    /\ main.at = "find" /\ mu = "free"
    /\ LET i == main.id
           known == byID[i] # "none" \/ run[i] = "done"
           whole == byID[i] = "completed" \/ byID[i] = "none"
       IN  /\ byID' = IF known /\ byID[i] = "none" THEN [byID EXCEPT ![i] = "completed"] ELSE byID
           /\ CASE ~known -> At("over", 0, "none") /\ UNCHANGED replay
                [] known /\ main.next = "rerun" ->
                     IF CmdsLeft THEN At("register", NextCmd, "shell") /\ UNCHANGED replay
                       ELSE At("prompt", 0, "none") /\ UNCHANGED replay
                [] OTHER -> /\ replay' = <<>>
                            /\ IF whole /\ end[i] > begin[i] THEN At("replay", i, "none") ELSE At("prompt", 0, "none")
    /\ UNCHANGED <<locks, recvLoop, events, left, shell, wire, waiters, told>>

\* Replay: chunks of the log from the command's begin until one reaches its end.
Replay ==
    /\ main.at = "replay"
    /\ LET i == main.id  pos == begin[i] + Len(replay)
       IN  /\ pos < log
           /\ \E n \in 1..log - pos :
                /\ replay' = replay \o [k \in 1..n |-> pos + k]
                /\ IF pos + n >= end[i] THEN At("prompt", 0, "none") ELSE UNCHANGED main
    /\ UNCHANGED <<locks, recvLoop, events, left, shell, wire, records>>

\* The attachment of a replay, or the session's stream, breaks.
Fails ==
    /\ main.at \in {"replay", "idle"} /\ At("over", 0, "none")
    /\ UNCHANGED <<locks, recvLoop, events, left, shell, wire, records, replay>>

Shell == Output \/ HookEnd \/ \E i \in Cmds : StartRun(i) \/ EndRun(i) \/ GiveUp(i)
RecvLoop == RecvStarted \/ RecvCompleted \/ PrintCompletion \/ UnlockRecords \/ RecvFails
Events == RecvEvent \/ HandleEvent \/ EventPrompt
handleChatCommand ==
    \/ Prompt \/ ReadCommand \/ ReadTimeline \/ PrintTimeline \/ ReadRecords \/ Run \/ RunReturns
    \/ RunTimesOut \/ Compare \/ FindRecord \/ Replay \/ Fails

Next == main.at # "over" /\ (Shell \/ RecvLoop \/ Events \/ handleChatCommand)

Spec == Init /\ [][Next]_vars

-----------------------------------------------------------------------------
\* Whoever waits for a command is told as soon as the chat knows that it has completed,
\* even if nothing can be printed any more (recvLoop, Run).
WaitersAreTold ==
    main.at = "wait" /\ byID[main.id] = "completed" => main.id \in told

\* A command that returned has ended, and a replay that ended without an error has
\* printed its output from begin to end, without a gap (Run, findRecord, Replay).
RunsHaveEnded == \A i \in told : run[i] = "done"
ReplayIsWhole ==
    replay # <<>> =>
        /\ \A k \in 1..Len(replay) - 1 : replay[k + 1] = replay[k] + 1
        /\ main.at \notin {"replay", "over"} =>
             \E i \in Cmds : replay[1] = begin[i] + 1 /\ replay[Len(replay)] >= end[i] /\ end[i] > begin[i]

\* Until the shell reports the end of a command the chat gives every lock back: the
\* receiving goroutine has none, and mu is there for the loop (recvLoop, handleChatCommand).
LocksAreGivenBack ==
    (\A i \in Ids : byID[i] # "completed") => printMu # "shell" /\ mu = "free" /\ recvLoop # "print"
=============================================================================
