----------------------------- MODULE ChatPrinter -----------------------------
(***************************************************************************)
(* How `xrunner ssh chat' prints a session (cmd/xrunner/chat_printer.go,   *)
(* and its callers in ssh_chat.go).  Four goroutines share the terminal    *)
(* and one mutex, printMu: the receiver, which handles an event with the   *)
(* mutex held and may print a prompt afterwards; the main loop, which      *)
(* prints prompts; the signal handler; and the spinner that a "thinking"   *)
(* status starts.                                                          *)
(*                                                                         *)
(* Text is a sequence of letters, since the printer compares texts.        *)
(***************************************************************************)
EXTENDS Integers, Sequences, FiniteSets, SequencesExt

CONSTANTS
    Interactive,  \* standard output is a terminal
    Texts,        \* what a delta may hold
    MaxEvents     \* bound: events received

VARIABLES
    mu,        \* printMu: "free" or "receiver"; the others hold it within a step
    rpc,       \* receiver: recv, handle, clear (the spinner's line), print, prompt
    ev,        \* the event it handles
    received,  \* events received
    spinning,  \* statusSpinning: the spinner is running
    active,    \* assistantActive: the cursor is on the answer's line
    full,      \* assistantFull
    line,      \* what has been printed of the answer on this line
    deltas     \* history: the deltas received since the line began

vars == <<mu, rpc, ev, received, spinning, active, full, line, deltas>>

\* Other events - messages, results, errors, tool output - are alike here.
Events == [kind : {"thinking", "status", "user", "other"}, text : {<<>>}]
          \cup [kind : {"delta"}, text : Texts]

Letters == UNION {Range(t) : t \in Texts}

TypeOK ==
    /\ mu \in {"free", "receiver"}
    /\ rpc \in {"recv", "handle", "clear", "print", "prompt"}
    /\ (mu = "receiver") = (rpc \in {"handle", "clear", "print"})
    /\ ev \in Events /\ received \in 0..MaxEvents
    /\ spinning \in BOOLEAN /\ active \in BOOLEAN
    /\ {full, line, deltas} \subseteq Seq(Letters)

Init ==
    /\ mu = "free" /\ rpc = "recv" /\ ev = [kind |-> "other", text |-> <<>>] /\ received = 0
    /\ spinning = FALSE /\ active = FALSE
    /\ full = <<>> /\ line = <<>> /\ deltas = <<>>

-----------------------------------------------------------------------------
\* The receive loop of newSSHChatCmd: receive, then lock.
Recv(e) ==
    /\ rpc = "recv" /\ received < MaxEvents /\ mu = "free"
    /\ mu' = "receiver" /\ ev' = e /\ rpc' = "handle"
    /\ received' = received + 1
    /\ UNCHANGED <<spinning, active, full, line, deltas>>

\* Anything but a delta ends the answer's line.
EndsLine == ev.kind # "delta" /\ active

\* The first half of Handle: the line ends, and the spinner is stopped or
\* started.  Stopping it on a terminal clears its line, under the mutex.
Handle ==
    /\ rpc = "handle"
    /\ IF EndsLine
         THEN active' = FALSE /\ full' = <<>> /\ line' = <<>> /\ deltas' = <<>>
         ELSE UNCHANGED <<active, full, line, deltas>>
    /\ spinning' = (ev.kind = "thinking" /\ Interactive)
    /\ rpc' = IF spinning /\ ev.kind # "thinking" THEN "clear" ELSE "print"
    /\ UNCHANGED <<mu, ev, received>>

\* stopThinkingSpinner: p.lock() takes printMu, which is not reentrant.
ClearSpinner ==
    /\ rpc = "clear" /\ mu = "free"
    /\ rpc' = "print"
    /\ UNCHANGED <<mu, ev, received, spinning, active, full, line, deltas>>

\* What is new of a delta: it may repeat the whole text (a cumulative chunk),
\* and one that the text begins with is taken for an old chunk.
News(d) ==
    IF full = <<>> THEN d
    ELSE IF IsPrefix(full, d) THEN SubSeq(d, Len(full) + 1, Len(d))
    ELSE IF IsPrefix(d, full) THEN <<>>
    ELSE d

\* Mutant: cumulative chunks are looked for without a terminal as well.
Render_FiltersAlways ==
    /\ rpc = "print"
    /\ IF ev.kind = "delta"
         THEN /\ line' = line \o News(ev.text) /\ deltas' = deltas \o ev.text
              /\ full' = full \o News(ev.text) /\ active' = Interactive
         ELSE UNCHANGED <<line, deltas, active, full>>
    /\ mu' = "free"
    /\ rpc' = IF Interactive /\ ev.kind \in {"thinking", "delta", "user"} THEN "recv" ELSE "prompt"
    /\ UNCHANGED <<ev, received, spinning>>

\* The second half of Handle: print, unlock; a prompt follows unless the event
\* announces more output.
Render ==
    /\ rpc = "print"
    /\ IF ev.kind = "delta"
         THEN /\ line' = line \o (IF Interactive THEN News(ev.text) ELSE ev.text)
              /\ full' = IF Interactive THEN full \o News(ev.text) ELSE full
              /\ active' = Interactive
              /\ deltas' = deltas \o ev.text
         ELSE UNCHANGED <<line, deltas, active, full>>
    /\ mu' = "free"
    /\ rpc' = IF Interactive /\ ev.kind \in {"thinking", "delta", "user"} THEN "recv" ELSE "prompt"
    /\ UNCHANGED <<ev, received, spinning>>

\* prompt() by the receiver.
Prompt ==
    /\ rpc = "prompt" /\ mu = "free"
    /\ rpc' = "recv"
    /\ UNCHANGED <<mu, ev, received, spinning, active, full, line, deltas>>

Next == (\E e \in Events : Recv(e)) \/ Handle \/ ClearSpinner \/ Render \/ Prompt

Spec == Init /\ [][Next]_vars

-----------------------------------------------------------------------------
(* Properties.                                                             *)

(***************************************************************************)
(* "When streaming assistant deltas arrive, render them on a single line"  *)
(* (chat_printer.go:85): the line holds the deltas, one after the other.   *)
(* Cumulative chunks, which the printer supports too, are not deltas; the  *)
(* daemon sends none.                                                      *)
(***************************************************************************)
DeltasAreRendered == line = deltas
=============================================================================
