------------------------------ MODULE SshExec ------------------------------
(***************************************************************************)
(* `xrunner ssh exec' (cmd/xrunner/ssh.go): one shell call of a session,   *)
(* whose output goes through two batch writers to standard output and      *)
(* standard error and whose exit status becomes the command's.             *)
(*                                                                         *)
(* A chunk is a record of its number on its stream and its size.           *)
(***************************************************************************)
EXTENDS Integers, Sequences

CONSTANTS
    QueueCap,  \* capacity of a writer's channel (128)
    MaxBuf,    \* what a writer gathers (256 KiB)
    Sizes,     \* sizes of chunks
    MaxChunks  \* bound: chunks of the call

VARIABLES
    shared,   \* other calls, old ones included, are in the session as well
    tool,     \* the call on the daemon: start, run, done
    said,     \* said[w]: chunks of the call so far, by stream
    code,     \* its exit status, once it is done
    wire,     \* events on the way to the command
    pc,       \* the command: send, recv, closeOut, closeErr, done, or err
    status,   \* what it returns: the exit status, or "broken"; "none" until then
    ch,       \* ch[w]: the channel of a batch writer
    buf,      \* buf[w]: what the writer has gathered
    size,     \* size[w]: the bytes of that, buf.Len()
    printed,  \* printed[w]: what it has written
    open      \* open[w]: open, closed, or done

vars == <<shared, tool, said, code, wire, pc, status, ch, buf, size, printed, open>>

Writers == {"out", "err"}
Chunk(w, n) == {[on |-> w, n |-> n, size |-> z] : z \in Sizes}

Init ==
    /\ shared \in BOOLEAN /\ tool = "start" /\ said = [w \in Writers |-> 0] /\ code = "none" /\ wire = <<>>
    /\ pc = "send" /\ status = "none"
    /\ ch = [w \in Writers |-> <<>>] /\ buf = ch /\ size = said /\ printed = ch
    /\ open = [w \in Writers |-> "open"]

server == <<shared, tool, said, code>>
writers == <<ch, buf, size, printed, open>>

-----------------------------------------------------------------------------
(* The session, as far as the command sees it: events in order. *)

Say ==
    /\ tool = "run" /\ said["out"] + said["err"] < MaxChunks
    /\ \E w \in Writers : \E k \in Chunk(w, said[w] + 1) :
         /\ wire' = Append(wire, [kind |-> "chunk", of |-> k])
         /\ said' = [said EXCEPT ![w] = @ + 1]
    /\ UNCHANGED <<shared, tool, code, pc, status, writers>>

Result ==
    /\ tool = "run" /\ tool' = "done"
    /\ code' \in {"0", "1"} /\ wire' = Append(wire, [kind |-> "result", of |-> code'])
    /\ UNCHANGED <<shared, said, pc, status, writers>>

\* A call of the past, which the session replays, or of another client.
OtherResult ==
    /\ shared /\ pc = "recv" /\ wire = <<>>
    /\ wire' = <<[kind |-> "result", of |-> "other"]>>
    /\ UNCHANGED <<server, pc, status, writers>>

-----------------------------------------------------------------------------
(* newBatchWriter: the loop of a writer. *)

Writes(w, chunks) == printed' = [printed EXCEPT ![w] = @ \o chunks]
Keeps(w, chunks, bytes) == buf' = [buf EXCEPT ![w] = chunks] /\ size' = [size EXCEPT ![w] = bytes]

\* Mutant: a chunk that is larger than the buffer overtakes it.
BatchTakes_Overtakes(w) ==
    /\ ch[w] # <<>> /\ ch' = [ch EXCEPT ![w] = Tail(@)]
    /\ LET k == Head(ch[w]) IN
       IF k.size > MaxBuf
         THEN Writes(w, <<k>>) /\ Keeps(w, buf[w], size[w])
         ELSE IF size[w] + k.size > MaxBuf
         THEN Writes(w, buf[w]) /\ Keeps(w, <<k>>, k.size)
         ELSE Writes(w, <<>>) /\ Keeps(w, Append(buf[w], k), size[w] + k.size)
    /\ UNCHANGED <<server, wire, pc, status, open>>

BatchTakes(w) ==
    /\ ch[w] # <<>> /\ ch' = [ch EXCEPT ![w] = Tail(@)]
    /\ LET k == Head(ch[w]) IN
       IF k.size > MaxBuf
         THEN Writes(w, buf[w] \o <<k>>) /\ Keeps(w, <<>>, 0)
         ELSE IF size[w] + k.size > MaxBuf
         THEN Writes(w, buf[w]) /\ Keeps(w, <<k>>, k.size)
         ELSE Writes(w, <<>>) /\ Keeps(w, Append(buf[w], k), size[w] + k.size)
    /\ UNCHANGED <<server, wire, pc, status, open>>

Flush(w) == Writes(w, buf[w]) /\ Keeps(w, <<>>, 0)

BatchTicks(w) ==
    /\ buf[w] # <<>> /\ Flush(w)
    /\ UNCHANGED <<server, wire, pc, status, ch, open>>

BatchEnds(w) ==
    /\ open[w] = "closed" /\ ch[w] = <<>> /\ Flush(w)
    /\ open' = [open EXCEPT ![w] = "done"]
    /\ UNCHANGED <<server, wire, pc, status, ch>>

-----------------------------------------------------------------------------
(* newSSHExecCmd. *)

Exec ==
    /\ pc = "send" /\ pc' = "recv" /\ tool' = "run"
    /\ UNCHANGED <<shared, said, code, wire, status, writers>>

\* Writing to a full channel waits for the writer.
PrintEventHuman ==
    /\ pc = "recv" /\ wire # <<>> /\ Head(wire).kind = "chunk" /\ wire' = Tail(wire)
    /\ LET k == Head(wire).of IN Len(ch[k.on]) < QueueCap /\ ch' = [ch EXCEPT ![k.on] = Append(@, k)]
    /\ UNCHANGED <<server, pc, status, buf, size, printed, open>>

\* Whatever result comes first is taken for the call's own.
TakeResult ==
    /\ pc = "recv" /\ wire # <<>> /\ Head(wire).kind = "result" /\ wire' = Tail(wire)
    /\ pc' = "closeOut" /\ status' = Head(wire).of
    /\ UNCHANGED <<server, writers>>

\* batchWriter.Close closes the channel and waits for the loop.
Close(w) ==
    /\ pc = IF w = "out" THEN "closeOut" ELSE "closeErr"
    /\ \/ open[w] = "open" /\ open' = [open EXCEPT ![w] = "closed"] /\ UNCHANGED pc
       \/ /\ open[w] = "done" /\ UNCHANGED open
          /\ pc' = IF w = "out" THEN "closeErr" ELSE "done"
    /\ UNCHANGED <<server, wire, status, ch, buf, size, printed>>

\* The stream breaks: the command returns and the writers keep what they have.
RecvFails ==
    /\ pc = "recv" /\ pc' = "err" /\ status' = "broken"
    /\ UNCHANGED <<server, wire, writers>>

Batch(w) == BatchTakes(w) \/ BatchTicks(w) \/ BatchEnds(w)
Command == Exec \/ PrintEventHuman \/ TakeResult \/ RecvFails
Next == Say \/ Result \/ OtherResult \/ Command \/ \E w \in Writers : Batch(w) \/ Close(w)
Spec == Init /\ [][Next]_vars

-----------------------------------------------------------------------------
Numbers(s) == [i \in DOMAIN s |-> s[i].n]
Prefix(n) == [i \in 1..n |-> i]

TypeOK ==
    /\ said["out"] + said["err"] <= MaxChunks /\ status \in {"none", "0", "1", "other", "broken"}
    /\ \A w \in Writers : Len(ch[w]) <= QueueCap /\ size[w] \in 0..MaxBuf

\* Batches never reorder, repeat or lose the output of a stream, whatever the
\* sizes of its chunks (batchWriter).
BatchesKeepOrder ==
    \A w \in Writers :
       LET s == printed[w] \o buf[w] \o ch[w] IN Numbers(s) = Prefix(Len(s))

\* A command that is alone in its session returns the exit status of its own
\* call, and has printed all of its output by then (newSSHExecCmd).
ExecPrintsAll ==
    pc = "done" /\ ~shared =>
       status = code /\ \A w \in Writers : Len(printed[w]) = said[w]
=============================================================================
