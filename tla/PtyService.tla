----------------------------- MODULE PtyService -----------------------------
(***************************************************************************)
(* One session of RemotePTYService (internal/remote/pty.go) and the        *)
(* clients of `xrunner ssh attach' that stream it (cmd/xrunner/ssh.go,     *)
(* pumpPTY and batchWriter).  A process on a terminal ends by itself or is *)
(* killed; its session outlives it for two seconds; several StreamPTY      *)
(* calls may read the one terminal, each until its client goes.            *)
(*                                                                         *)
(* The bytes of the output are numbered in the order they are written.     *)
(***************************************************************************)
EXTENDS Integers, Sequences, SequencesExt

CONSTANTS
    Clients,  \* attach commands, each with one StreamPTY call
    Owner,    \* the client that opened the session; the others reattach
    MaxChunk, \* capacity of pending (64 KiB)
    MaxOut    \* bound: bytes of output

VARIABLES
    proc,     \* the process: runs, is killed, has exited, is reaped
    child,    \* a background child keeps the terminal open
    tty,      \* bytes written to the terminal
    rd,       \* bytes read from it
    closed,   \* sess.closed has been closed
    timer,    \* the AfterFunc of two seconds is armed
    session,  \* the session: "live" or "gone", its file closed
    call,     \* call[c]: none, read, check, tick, fail, ended
    pending,  \* pending[c]: bytes read and not sent
    sent,     \* sent[c]: bytes sent, in chunks
    result,   \* result[c]: how the call ended
    cmd,      \* cmd[c]: the command: start, pump, closing, closePTY, done
    recv,     \* recv[c]: the receiving goroutine: recv, write, end
    got,      \* got[c]: bytes received
    given,    \* given[c]: bytes given to the batch writer
    printed,  \* printed[c]: bytes printed at the end (what is printed before is a part)
    why       \* why[c]: what made pumpPTY return: "", stream, abort, panic

server == <<proc, child, tty, rd, closed, timer, session>>
calls == <<call, pending, sent, result>>
clients == <<cmd, recv, got, given, printed, why>>
vars == <<server, calls, clients>>

HasTerminal == proc \in {"run", "killed"} \/ child
Connected(c) == cmd[c] = "pump"

\* The session is open, as OpenPTY leaves it.
Init ==
    /\ proc = "run" /\ child \in BOOLEAN /\ tty = 0 /\ rd = 0
    /\ closed = "open" /\ timer = FALSE /\ session = "live"
    /\ call = [c \in Clients |-> "none"] /\ pending = [c \in Clients |-> <<>>]
    /\ sent = [c \in Clients |-> <<>>] /\ result = [c \in Clients |-> ""]
    /\ cmd = [c \in Clients |-> "start"] /\ recv = [c \in Clients |-> "recv"]
    /\ got = [c \in Clients |-> 0] /\ given = [c \in Clients |-> 0]
    /\ printed = [c \in Clients |-> 0] /\ why = [c \in Clients |-> ""]

-----------------------------------------------------------------------------
(***************************************************************************)
(* The process, the goroutine that waits for it, and the end of a session. *)
(***************************************************************************)
Output ==
    /\ HasTerminal /\ tty < MaxOut /\ tty' = tty + 1
    /\ UNCHANGED <<proc, child, rd, closed, timer, session, calls, clients>>

ProcessExits ==
    /\ proc \in {"run", "killed"} /\ proc' = "exited"
    /\ UNCHANGED <<child, tty, rd, closed, timer, session, calls, clients>>

ChildEnds ==
    /\ child /\ child' = FALSE
    /\ UNCHANGED <<proc, tty, rd, closed, timer, session, calls, clients>>

\* endOnce: the second caller does nothing.
EndOnce == closed' = IF closed = "open" THEN "closed" ELSE closed

Reap ==
    /\ proc = "exited" /\ proc' = "reaped"
    /\ EndOnce /\ timer' = TRUE
    /\ UNCHANGED <<child, tty, rd, session, calls, clients>>

\* cleanupPTY closes the file and forgets the session, once.
CleanupPTY == session' = "gone"

TimerFires ==
    /\ timer /\ timer' = FALSE
    /\ CleanupPTY
    /\ UNCHANGED <<proc, child, tty, rd, closed, calls, clients>>

\* Called by the owner when it exits; a session that is gone is not found.
ClosePTY(c) ==
    /\ cmd[c] = "closePTY" /\ cmd' = [cmd EXCEPT ![c] = "done"]
    /\ IF session = "gone" THEN UNCHANGED <<proc, closed, session>>
         ELSE /\ EndOnce /\ CleanupPTY
              /\ proc' = IF proc = "run" /\ closed = "open" THEN "killed" ELSE proc
    /\ UNCHANGED <<child, tty, rd, timer, calls, recv, got, given, printed, why>>

-----------------------------------------------------------------------------
(***************************************************************************)
(* StreamPTY.  A read is followed by the select that looks at the client   *)
(* and at sess.closed; Flush sends what is pending.                        *)
(***************************************************************************)
Flush(c) ==
    /\ pending' = [pending EXCEPT ![c] = <<>>]
    /\ sent' = [sent EXCEPT ![c] = IF Connected(c) THEN @ \o pending[c] ELSE @]

StreamPTY(c) ==
    /\ cmd[c] = "start" /\ cmd' = [cmd EXCEPT ![c] = "pump"]
    /\ IF session = "gone"
         THEN call' = [call EXCEPT ![c] = "ended"] /\ result' = [result EXCEPT ![c] = "not found"]
         ELSE call' = [call EXCEPT ![c] = "read"] /\ UNCHANGED result
    /\ UNCHANGED <<server, pending, sent, recv, got, given, printed, why>>

ReadData(c) ==
    /\ call[c] = "read" /\ session = "live" /\ rd < tty
    /\ \E n \in 1..(tty - rd) :
         LET all == pending[c] \o [i \in 1..n |-> rd + i]
             out == IF Len(all) >= MaxChunk THEN (Len(all) \div MaxChunk) * MaxChunk ELSE 0
         IN  /\ rd' = rd + n
             /\ pending' = [pending EXCEPT ![c] = SubSeq(all, out + 1, Len(all))]
             /\ sent' = [sent EXCEPT ![c] = IF Connected(c) THEN @ \o SubSeq(all, 1, out) ELSE @]
    /\ call' = [call EXCEPT ![c] = "check"]
    /\ UNCHANGED <<proc, child, tty, closed, timer, session, result, clients>>

\* Nothing came within 20 ms.
ReadTimesOut(c) ==
    /\ call[c] = "read" /\ session = "live" /\ rd = tty /\ HasTerminal
    /\ Flush(c)
    /\ call' = [call EXCEPT ![c] = "tick"]
    /\ UNCHANGED <<server, result, clients>>

\* EIO when nobody has the terminal open any more, or the file is closed.
ReadFails(c) ==
    /\ call[c] = "read" /\ (session # "live" \/ (rd = tty /\ ~HasTerminal))
    /\ call' = [call EXCEPT ![c] = "fail"]
    /\ UNCHANGED <<server, pending, sent, result, clients>>

Ends(c, r) ==
    /\ Flush(c)
    /\ call' = [call EXCEPT ![c] = "ended"] /\ result' = [result EXCEPT ![c] = r]

\* Mutant: the select after a read returns without a flush.
Check_NoFlush(c) ==
    /\ call[c] \in {"check", "tick", "fail"}
    /\ \/ ~Connected(c) /\ Ends(c, "canceled")
       \/ /\ closed # "open" /\ UNCHANGED <<pending, sent>>
          /\ call' = [call EXCEPT ![c] = "ended"] /\ result' = [result EXCEPT ![c] = "ok"]
       \/ /\ Connected(c) /\ closed = "open"
          /\ IF call[c] = "fail" THEN Ends(c, "internal")
               ELSE call' = [call EXCEPT ![c] = "read"] /\ UNCHANGED <<pending, sent, result>>
    /\ UNCHANGED <<server, clients>>

Check(c) ==
    /\ call[c] \in {"check", "tick", "fail"}
    /\ \/ ~Connected(c) /\ Ends(c, "canceled")
       \/ closed # "open" /\ Ends(c, "ok")
       \/ /\ Connected(c) /\ closed = "open"
          /\ IF call[c] = "fail" THEN Ends(c, "internal")
               ELSE call' = [call EXCEPT ![c] = "read"] /\ UNCHANGED <<pending, sent, result>>
    /\ UNCHANGED <<server, clients>>

-----------------------------------------------------------------------------
(***************************************************************************)
(* pumpPTY and the batch writer.  The receiving goroutine is not waited    *)
(* for: it may still write when Close closes the writer's channel.         *)
(***************************************************************************)
RecvChunk(c) ==
    /\ cmd[c] # "done" /\ recv[c] = "recv" /\ got[c] < Len(sent[c]) /\ cmd[c] # "start"
    /\ got' = [got EXCEPT ![c] = Len(sent[c])]
    /\ recv' = [recv EXCEPT ![c] = "write"]
    /\ UNCHANGED <<server, calls, cmd, given, printed, why>>

WriteBatch(c) ==
    /\ recv[c] = "write" /\ cmd[c] # "done"
    /\ recv' = [recv EXCEPT ![c] = "recv"]
    /\ IF cmd[c] = "pump"
         THEN given' = [given EXCEPT ![c] = got[c]] /\ UNCHANGED <<cmd, why>>
         ELSE /\ why' = [why EXCEPT ![c] = "panic"] /\ cmd' = [cmd EXCEPT ![c] = "done"]
              /\ UNCHANGED given
    /\ UNCHANGED <<server, calls, got, printed>>

RecvEnds(c) ==
    /\ recv[c] = "recv" /\ cmd[c] # "done"
    /\ \/ call[c] = "ended" /\ got[c] = Len(sent[c])
       \/ cmd[c] \in {"closing", "closePTY"}
    /\ recv' = [recv EXCEPT ![c] = "end"]
    /\ UNCHANGED <<server, calls, cmd, got, given, printed, why>>

\* The stream has ended, or an interrupt or a failed WritePTY came first.
PumpReturns(c) ==
    /\ cmd[c] = "pump"
    /\ \/ recv[c] = "end" /\ why' = [why EXCEPT ![c] = "stream"]
       \/ why' = [why EXCEPT ![c] = "abort"]
    /\ cmd' = [cmd EXCEPT ![c] = "closing"]
    /\ UNCHANGED <<server, calls, recv, got, given, printed>>

\* bw.Close closes the channel and waits for the rest to be printed.
CloseWriter(c) ==
    /\ cmd[c] = "closing"
    /\ printed' = [printed EXCEPT ![c] = given[c]]
    /\ cmd' = [cmd EXCEPT ![c] = IF c = Owner THEN "closePTY" ELSE "done"]
    /\ UNCHANGED <<server, calls, recv, got, given, why>>

Process == Output \/ ProcessExits \/ ChildEnds
Session == Reap \/ TimerFires
Stream(c) == StreamPTY(c) \/ ReadData(c) \/ ReadTimesOut(c) \/ ReadFails(c) \/ Check(c)
Attach(c) ==
    \/ RecvChunk(c) \/ WriteBatch(c) \/ RecvEnds(c)
    \/ PumpReturns(c) \/ CloseWriter(c) \/ ClosePTY(c)

Next == Process \/ Session \/ \E c \in Clients : Stream(c) \/ Attach(c)
Spec == Init /\ [][Next]_vars

-----------------------------------------------------------------------------
(***************************************************************************)
(* Types; and only a session that has ended is cleaned up.                 *)
(***************************************************************************)
TypeOK ==
    /\ proc \in {"run", "killed", "exited", "reaped"} /\ {child, timer} \subseteq BOOLEAN
    /\ 0 <= rd /\ rd <= tty /\ tty <= MaxOut
    /\ session \in {"live", "gone"} /\ (session # "live" => closed = "closed")
    /\ \A c \in Clients :
         /\ printed[c] <= given[c] /\ given[c] <= got[c] /\ got[c] <= Len(sent[c])
         /\ Len(pending[c]) < MaxChunk

(***************************************************************************)
(* However many clients read one terminal, no byte goes to two of them,    *)
(* each has its bytes in order, and while none was interrupted every byte  *)
(* that was read has been sent or will be: a call that returns keeps       *)
(* nothing back (StreamPTY's flushes).                                     *)
(***************************************************************************)
ReadIsSentOnce ==
    LET Has(c) == Range(sent[c]) \cup Range(pending[c]) IN
    /\ \A c, d \in Clients : c # d => Has(c) \cap Has(d) = {}
    /\ \A c \in Clients :
         /\ \A i \in 2..Len(sent[c] \o pending[c]) : (sent[c] \o pending[c])[i - 1] < (sent[c] \o pending[c])[i]
         /\ call[c] = "ended" => pending[c] = <<>>
    /\ (\A c \in Clients : cmd[c] \in {"start", "pump"}) => UNION {Has(c) : c \in Clients} = 1..rd

(***************************************************************************)
(* An attach command whose stream ended has printed all that was sent to   *)
(* it, and its batch writer is not written to after it is closed; only a   *)
(* command that was interrupted, or could not write, can panic there.  The *)
(* errors that reach it are those of a terminal without a process, which   *)
(* it takes for the end.                                                   *)
(***************************************************************************)
EndedAttachHasPrinted ==
    \A c \in Clients :
       /\ result[c] = "internal" => ~HasTerminal
       /\ why[c] = "stream" /\ cmd[c] \in {"closePTY", "done"} =>
            printed[c] = Len(sent[c]) /\ recv[c] = "end"
=============================================================================
