----------------------------- MODULE ShellAttach -----------------------------
(***************************************************************************)
(* Following a durable shell (internal/remote/shell.go, AttachShell).  The *)
(* shell runs in tmux, which pipes its output to a log file; each          *)
(* attachment tails the log through a buffer and a channel, and remembers  *)
(* per client how far it got.  Attachments outlive the connection they     *)
(* serve until the server notices; the shell can be killed and made again  *)
(* under the same name, with a new log; the daemon can restart.            *)
(*                                                                         *)
(* Output is counted, not represented: a unit of it is its position in a   *)
(* log.  Markers within the output are the subject of ShellMarkers, the    *)
(* commands run over an attachment that of ShellRuns.                      *)
(***************************************************************************)
EXTENDS Integers, Sequences, FiniteSets

CONSTANTS
    Clients,     \* client ids
    OwnOffset,   \* clients give after_offset, else they resume from the last ack
    QueueLen,    \* capacity of outCh (256)
    MaxLog,      \* bound: output in one log
    MaxConns,    \* bound: attachments
    MaxKills,    \* bound: times the shell is killed
    MaxRestarts  \* bound: restarts of the daemon

VARIABLES
    alive,     \* the tmux session exists
    exists,    \* the log file exists
    gen,       \* how often the log has been made anew
    size,      \* [generation -> output written to that log]
    lastAck,   \* lastAckBy of this shell: [client -> offset], 0 if absent
    conn,      \* the attachments, by number
    used,      \* how many of them were made
    restarts,
    own,       \* [client -> its own offset], chatShell's lastAck
    got,       \* history: [client -> the <<generation, position>> it received]
    panicked   \* history: a send on a closed channel has ended the process

vars == <<alive, exists, gen, size, lastAck, conn, used, restarts, own, got, panicked>>

Conns == 1..MaxConns
Chunks == [off : 0..MaxLog, len : 1..MaxLog]
NoConn == [owner |-> CHOOSE c \in Clients : TRUE, phase |-> "unused", link |-> FALSE,
           stop |-> FALSE, gen |-> 0, rd |-> 0, pending |-> 0, pendingStart |-> 0,
           out |-> <<>>, wire |-> <<>>, acks |-> 0]

\* phase: hello (the greeting is queued), tail (the send loop runs), over.
\* stop: stopSend was called, outCh is closed.  link: the client still listens.
TypeOK ==
    /\ {alive, exists, panicked} \subseteq BOOLEAN
    /\ gen \in 0..MaxKills /\ size \in [0..MaxKills -> 0..MaxLog]
    /\ lastAck \in [Clients -> 0..MaxLog] /\ own \in [Clients -> 0..MaxLog]
    /\ used \in 0..MaxConns /\ restarts \in 0..MaxRestarts
    /\ \A c \in Clients : got[c] \subseteq (0..MaxKills) \X (0..MaxLog - 1)
    /\ \A k \in Conns :
         /\ conn[k].owner \in Clients /\ conn[k].phase \in {"unused", "hello", "tail", "over"}
         /\ {conn[k].link, conn[k].stop} \subseteq BOOLEAN
         /\ conn[k].gen \in 0..MaxKills
         /\ {conn[k].rd, conn[k].pending, conn[k].pendingStart, conn[k].acks} \subseteq 0..MaxLog
         /\ Len(conn[k].out) <= QueueLen
         /\ \A i \in DOMAIN conn[k].out : conn[k].out[i] \in Chunks
         /\ \A i \in DOMAIN conn[k].wire : conn[k].wire[i] \in Chunks

Init ==
    /\ alive = FALSE /\ exists = FALSE /\ gen = 0 /\ size = [g \in 0..MaxKills |-> 0]
    /\ lastAck = [c \in Clients |-> 0] /\ own = [c \in Clients |-> 0]
    /\ conn = [k \in Conns |-> NoConn] /\ used = 0 /\ restarts = 0
    /\ got = [c \in Clients |-> {}] /\ panicked = FALSE

Larger(a, b) == IF a > b THEN a ELSE b
Smaller(a, b) == IF a < b THEN a ELSE b

\* setLastAck: the offset of a client only grows.
SetLastAck(c, off) == lastAck' = [lastAck EXCEPT ![c] = Larger(@, off)]

-----------------------------------------------------------------------------
\* tmux, and a client that kills the shell.

Output ==
    /\ alive /\ exists /\ size[gen] < MaxLog
    /\ size' = [size EXCEPT ![gen] = @ + 1]
    /\ UNCHANGED <<alive, exists, gen, lastAck, conn, used, restarts, own, got, panicked>>

\* CloseShell with kill: the log is removed; open files keep their contents,
\* and lastAckBy its offsets.
CloseShell ==
    /\ alive /\ gen < MaxKills
    /\ alive' = FALSE /\ exists' = FALSE
    /\ UNCHANGED <<gen, size, lastAck, conn, used, restarts, own, got, panicked>>

-----------------------------------------------------------------------------
\* AttachShell: the hello.

\* EnsureShellSession, called on every hello: makes the session and touches the log.
EnsureShellSession ==
    /\ alive' = TRUE /\ exists' = TRUE
    /\ gen' = IF exists \/ used = 0 THEN gen ELSE gen + 1

\* Mutant: an attachment starts at the end of the log.
StartOffset_AtEnd(c, logSize) == logSize

\* after_offset, or the last ack, never beyond the log.
StartOffset(c, logSize) == Smaller(IF OwnOffset THEN own[c] ELSE lastAck[c], logSize)

\* A client attaches; it has no other attachment that it listens to.
Attach(c) ==
    /\ used < MaxConns
    /\ \A k \in Conns : conn[k].owner = c => ~conn[k].link
    /\ EnsureShellSession
    /\ used' = used + 1
    /\ LET start == StartOffset(c, size[gen'])
       IN  conn' = [conn EXCEPT ![used + 1] =
                      [NoConn EXCEPT !.owner = c, !.phase = "hello", !.link = TRUE,
                                     !.rd = start, !.pendingStart = start]]
    /\ UNCHANGED <<size, lastAck, restarts, own, got, panicked>>

\* The send loop opens the log that is there by then, and seeks.
OpenLog(k) ==
    /\ conn[k].phase = "hello" /\ exists
    /\ conn' = [conn EXCEPT ![k].phase = "tail", ![k].gen = gen]
    /\ UNCHANGED <<alive, exists, gen, size, lastAck, used, restarts, own, got, panicked>>

OpenLogFails(k) ==
    /\ conn[k].phase = "hello" /\ ~exists
    /\ conn' = [conn EXCEPT ![k] = [@ EXCEPT !.phase = "over", !.stop = TRUE, !.link = FALSE, !.wire = <<>>]]
    /\ UNCHANGED <<alive, exists, gen, size, lastAck, used, restarts, own, got, panicked>>

-----------------------------------------------------------------------------
\* The send loop of attachment k: read, buffer, flush.

Read(k) ==
    LET a == conn[k] IN
    /\ a.phase = "tail" /\ a.rd < size[a.gen]
    /\ \E n \in 1..size[a.gen] - a.rd :
         conn' = [conn EXCEPT ![k].pendingStart = IF a.pending = 0 THEN a.rd ELSE @,
                              ![k].pending = @ + n, ![k].rd = @ + n]
    /\ UNCHANGED <<alive, exists, gen, size, lastAck, used, restarts, own, got, panicked>>

\* flush: a prefix of the pending output (all of it unless a marker is cut off)
\* is queued, and counts as acknowledged.  Blocks while outCh is full.
Flush(k) ==
    LET a == conn[k] IN
    /\ a.phase = "tail" /\ a.pending > 0 /\ ~a.stop /\ Len(a.out) < QueueLen
    /\ \E n \in 1..a.pending :
         /\ conn' = [conn EXCEPT ![k].out = Append(@, [off |-> a.pendingStart, len |-> n]),
                                 ![k].pending = @ - n, ![k].pendingStart = @ + n]
         /\ SetLastAck(a.owner, a.pendingStart + n)
    /\ UNCHANGED <<alive, exists, gen, size, used, restarts, own, got, panicked>>

\* The process ends: attachments and lastAckBy are gone, tmux and the log stay.
ProcessEnds ==
    /\ conn' = [k \in Conns |->
                  IF conn[k].phase = "unused" THEN NoConn
                  ELSE [conn[k] EXCEPT !.phase = "over", !.stop = TRUE, !.link = FALSE, !.wire = <<>>]]
    /\ lastAck' = [c \in Clients |-> 0]

\* send after stopSend: of the select's ready cases, sendStop or the context
\* ends the loop, and a send on the closed outCh panics.
FlushStopped(k) ==
    LET a == conn[k] IN
    /\ a.phase = "tail" /\ a.pending > 0 /\ a.stop
    /\ \/ conn' = [conn EXCEPT ![k].phase = "over"] /\ UNCHANGED <<lastAck, panicked>>
       \/ ProcessEnds /\ panicked' = TRUE
    /\ UNCHANGED <<alive, exists, gen, size, used, restarts, own, got>>

\* At the end of the log the loop sees that its handler returned.
TailEnds(k) ==
    LET a == conn[k] IN
    /\ a.phase = "tail" /\ a.stop /\ a.pending = 0 /\ a.rd = size[a.gen]
    /\ conn' = [conn EXCEPT ![k].phase = "over"]
    /\ UNCHANGED <<alive, exists, gen, size, lastAck, used, restarts, own, got, panicked>>

\* The sender goroutine: from outCh to the connection.
Sender(k) ==
    LET a == conn[k] IN
    /\ a.phase \in {"hello", "tail"} /\ ~a.stop /\ a.out # <<>>
    /\ conn' = [conn EXCEPT ![k].out = Tail(@), ![k].wire = IF a.link THEN Append(@, Head(a.out)) ELSE @]
    /\ UNCHANGED <<alive, exists, gen, size, lastAck, used, restarts, own, got, panicked>>

\* The receive loop: an acknowledgement.
RecvAck(k) ==
    LET a == conn[k] IN
    /\ a.phase \in {"hello", "tail"} /\ a.link /\ a.acks > 0
    /\ SetLastAck(a.owner, a.acks)
    /\ conn' = [conn EXCEPT ![k].acks = 0]
    /\ UNCHANGED <<alive, exists, gen, size, used, restarts, own, got, panicked>>

\* The handler learns that its connection is gone: stopSend closes outCh.
StopSend(k) ==
    LET a == conn[k] IN
    /\ a.phase \in {"hello", "tail"} /\ ~a.link /\ ~a.stop
    /\ conn' = [conn EXCEPT ![k].stop = TRUE]
    /\ UNCHANGED <<alive, exists, gen, size, lastAck, used, restarts, own, got, panicked>>

-----------------------------------------------------------------------------
\* The client and its connection.

\* recvLoop: count the chunk, acknowledge it.
Recv(k) ==
    LET a == conn[k]
        ch == Head(a.wire)
        end == ch.off + ch.len
    IN
    /\ a.link /\ a.wire # <<>>
    /\ got' = [got EXCEPT ![a.owner] = @ \cup {<<a.gen, p>> : p \in ch.off..end - 1}]
    /\ own' = [own EXCEPT ![a.owner] = end]
    /\ conn' = [conn EXCEPT ![k].wire = Tail(@), ![k].acks = end]
    /\ UNCHANGED <<alive, exists, gen, size, lastAck, used, restarts, panicked>>

\* The connection breaks, or the client leaves; the server does not know yet.
Disconnect(k) ==
    /\ conn[k].link
    /\ conn' = [conn EXCEPT ![k].link = FALSE, ![k].wire = <<>>, ![k].acks = 0]
    /\ UNCHANGED <<alive, exists, gen, size, lastAck, used, restarts, own, got, panicked>>

Restart ==
    /\ restarts < MaxRestarts /\ restarts' = restarts + 1
    /\ ProcessEnds
    /\ UNCHANGED <<alive, exists, gen, size, used, own, got, panicked>>

ServerStep(k) ==
    \/ OpenLog(k) \/ OpenLogFails(k) \/ Read(k) \/ Flush(k) \/ FlushStopped(k) \/ TailEnds(k)
    \/ Sender(k) \/ RecvAck(k) \/ StopSend(k)

Next ==
    \/ Output \/ CloseShell \/ Restart
    \/ \E c \in Clients : Attach(c)
    \/ \E k \in Conns : ServerStep(k) \/ Recv(k) \/ Disconnect(k)

Spec == Init /\ [][Next]_vars

-----------------------------------------------------------------------------
\* As long as the shell is not killed, a client that has received a unit of its
\* output has received all of it up to there, over any number of disconnects
\* (start offset, lastAckBy).
NothingSkipped ==
    gen = 0 => \A c \in Clients : \A u \in got[c] : \A p \in 0..u[2] - 1 : <<u[1], p>> \in got[c]

\* What an attachment still holds - sent, queued, pending, unread - follows
\* without a gap or an overlap from the first byte on its way to the position
\* of the file (pendingStart, the offsets of the chunks, rd).
HeldIsContiguous ==
    \A k \in Conns :
       LET a == conn[k]
           q == a.wire \o a.out
       IN  a.phase = "tail" /\ a.link =>
             /\ \A i \in 1..Len(q) - 1 : q[i].off + q[i].len = q[i + 1].off
             /\ a.pending > 0 => a.pendingStart + a.pending = a.rd
             /\ a.pending > 0 /\ q # <<>> => q[Len(q)].off + q[Len(q)].len = a.pendingStart

\* A client that goes away does not take the daemon along (stopSend, send).
DaemonSurvives == ~panicked

========================================
