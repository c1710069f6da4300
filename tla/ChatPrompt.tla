----------------------------- MODULE ChatPrompt -----------------------------
(***************************************************************************)
(* `xrunner ssh chat --prompt' (cmd/xrunner/ssh_chat.go): one client sends *)
(* one user message on an Interact stream of SessionTurns and waits for    *)
(* the answer, to print it - as JSON, or without the deltas, so that only  *)
(* what it has at the end counts - and exit.                               *)
(***************************************************************************)
EXTENDS SessionTurns, SequencesExt

VARIABLES
    ppc,     \* send, wait, or how it ended: ok, error, timeout
    text,    \* assistantText, as the events it was made of
    streamed \* sawAssistantStream

clientVars == <<ppc, text, streamed>>
PromptTypeOK ==
    /\ TypeOK
    /\ ppc \in {"send", "wait", "ok", "error", "timeout"}
    /\ text \in Seq(Events)
    /\ streamed \in BOOLEAN

PromptInit == Init /\ ppc = "send" /\ text = <<>> /\ streamed = FALSE

\* The hello and the message are sent before anything is received.
PromptSends(h) ==
    /\ ppc = "send" /\ ppc' = "wait"
    /\ ClientSends(h, [kind |-> "user", of |-> NoCall])
    /\ UNCHANGED <<text, streamed>>

\* The process exits as p says; its connection is closed.
Exit(h, p) ==
    /\ ppc' = p
    /\ left' = left \cup {h}
    /\ wire' = [wire EXCEPT ![h] = <<>>]

\* sawAssistant.
Answered == text # <<>>

\* Mutant: the first status or answer ends the wait.
PromptReceives_AnyStatus(h) ==
    LET e == Head(wire[h]) IN
    /\ ppc = "wait" /\ wire[h] # <<>>
    /\ streamed' = (streamed \/ e.kind = "delta")
    /\ text' = CASE e.kind = "delta" -> Append(text, e)
                 [] e.kind = "assistant" /\ ~streamed -> <<e>>
                 [] OTHER -> text
    /\ CASE e.kind = "error" -> Exit(h, "error")
         [] e.kind \in {"idle", "canceled"} -> Exit(h, "ok")
         [] OTHER -> wire' = [wire EXCEPT ![h] = Tail(@)] /\ UNCHANGED <<ppc, left>>
    /\ UNCHANGED <<llm, log, out, hpc, turnVars, cur, callVars, said, q, inbox, asked>>

\* The next event: deltas add up, a message replaces what there was unless the
\* answer was streamed, an error ends the wait, and so does "idle" once there
\* is some text.
PromptReceives(h) ==
    LET e == Head(wire[h]) IN
    /\ ppc = "wait" /\ wire[h] # <<>>
    /\ streamed' = (streamed \/ e.kind = "delta")
    /\ text' = CASE e.kind = "delta" -> Append(text, e)
                 [] e.kind = "assistant" /\ ~streamed -> <<e>>
                 [] OTHER -> text
    /\ CASE e.kind = "error" -> Exit(h, "error")
         [] e.kind \in {"idle", "canceled"} /\ Answered -> Exit(h, "ok")
         [] OTHER -> wire' = [wire EXCEPT ![h] = Tail(@)] /\ UNCHANGED <<ppc, left>>
    /\ UNCHANGED <<llm, log, out, hpc, turnVars, cur, callVars, said, q, inbox, asked>>

\* The stream breaks, or the signal context is done.
PromptFails(h) ==
    /\ ppc = "wait" /\ Exit(h, "error")
    /\ UNCHANGED <<llm, log, out, hpc, turnVars, cur, callVars, said, q, inbox, asked, text, streamed>>

\* --prompt-timeout.
PromptTimesOut(h) ==
    /\ ppc = "wait" /\ Exit(h, "timeout")
    /\ UNCHANGED <<llm, log, out, hpc, turnVars, cur, callVars, said, q, inbox, asked, text, streamed>>

PromptClient(h) == PromptSends(h) \/ PromptReceives(h) \/ PromptFails(h) \/ PromptTimesOut(h)

PromptNext ==
    \/ Server /\ UNCHANGED clientVars
    \/ \E h \in Handlers : PromptClient(h)

-----------------------------------------------------------------------------
(* Properties.                                                             *)

(***************************************************************************)
(* "print only the final assistant message" (--prompt-quiet and            *)
(* --prompt-json, ssh_chat.go:443): when the command succeeds the turn has *)
(* its final message, and this is what was printed - not the answer to an  *)
(* earlier prompt, nor what the model said before it called a tool.        *)
(***************************************************************************)
PromptPrintsFinal ==
    ppc = "ok" => LET final == Ev("assistant", 1) IN
        /\ final \in Range(log)
        /\ ~streamed => text = <<final>>

\* Nothing more will come to the client of h.
Exhausted(h) == AtRest /\ hpc[h] = "loop" /\ inbox[h] = <<>> /\ q[h] = <<>> /\ wire[h] = <<>>

(***************************************************************************)
(* "sends a single prompt and exits" (docs/LLM_CHAT_BACKENDS.md:51): a     *)
(* command that has its answer, from a session with nothing more to say,   *)
(* has exited, it does not wait for its timeout to report a failure; nor   *)
(* does one that was told of an error.                                     *)
(***************************************************************************)
AnsweredPromptExits ==
    \A h \in Handlers : ppc = "wait" /\ Exhausted(h) => ~Answered /\ Indices(log, {"error"}) = {}

=============================================================================
