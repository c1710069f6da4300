---------------------------- MODULE SessionTurns ----------------------------
(***************************************************************************)
(* What happens in a session: the Interact handlers of its clients         *)
(* (internal/remote/session_service.go).  A handler answers a user message *)
(* with a turn - thinking, calls of the LLM, the tools these ask for, the  *)
(* answer - starts the tools a client invokes in goroutines of their own,  *)
(* and forwards the session's events to its client whenever it is not busy *)
(* with a turn.                                                            *)
(*                                                                         *)
(* Each actor - a handler or the goroutine of a tool call - has a queue    *)
(* `out' of the events it is about to append; appending and broadcasting   *)
(* one of them is a step (SessionEvents shows what happens inside it).     *)
(***************************************************************************)
EXTENDS Integers, Sequences, FiniteSets

CONSTANTS
    Handlers,  \* Interact streams of the session
    Calls,     \* tool calls, each used once
    Llms,      \* how the daemon may be configured (llm, below)
    Stream,    \* XR_LLM_STREAM
    MaxIters,  \* XR_LLM_MAX_TOOL_ITERS
    History,   \* XR_LLM_MAX_HISTORY_EVENTS
    Cap,       \* capacity of a subscriber's channel (8192)
    WireCap,   \* events a connection holds that the client has not received
    Old,       \* the events of the session before this run
    NoCall,
    MaxTurns, MaxSaid, MaxAsked  \* bounds: user messages; deltas and outputs; messages of clients

ASSUME LlmAssumption == Llms \subseteq {"off", "broken", "on"} /\ Stream \in BOOLEAN
ASSUME TurnBoundsAssumption ==
    /\ MaxIters \in Nat \ {0} /\ History \in Nat \ {0}
    /\ Cap \in Nat \ {0} /\ WireCap \in Nat \ {0}
    /\ NoCall \notin Calls /\ Handlers \cap Calls = {}

VARIABLES
    llm,       \* XR_LLM_ENABLED and llm.NewClient: "off", "broken" (no client) or "on"
    log,       \* the persisted events
    out,       \* out[a]: what actor a is about to append
    hpc,       \* hello, loop; in a turn: context, generate, tools, tool; spawn; gone
    turn,      \* turn[h]: the turn h is in, or was in last
    turns,     \* user messages so far
    iter,      \* iterations of h's turn
    more,      \* tool calls of the last response h has still to execute
    cur,       \* the call h executes or spawns
    prompt,    \* what buildLLMMessages took of the log for h's turn: positions
    cs,        \* state of a call: unused, sync, spawned, registered, ended, done
    canceled,  \* calls whose context has been canceled
    said,      \* deltas and outputs so far
    q,         \* q[h]: the channel of h's subscriber
    wire,      \* wire[h]: sent to h's client and not received
    inbox,     \* inbox[h]: messages of the client
    left,      \* handlers whose client has disconnected
    asked      \* messages the clients have sent

turnVars == <<turn, turns, iter, more, prompt>>
callVars == <<cs, canceled>>
vars == <<llm, log, out, hpc, turnVars, cur, callVars, said, q, wire, inbox, left, asked>>

Actors == Handlers \cup Calls

\* `of' is a turn or a call; `n' numbers the deltas and outputs.
Ev(kind, of) == [kind |-> kind, of |-> of, n |-> 0]
Piece(kind, of) == [kind |-> kind, of |-> of, n |-> said + 1]

Kinds == {"user", "assistant", "error", "thinking", "idle", "canceled",
          "delta", "started", "running", "output", "result"}
Events == [kind : Kinds, of : 0..MaxTurns \cup Calls, n : 0..MaxSaid]
Messages == [kind : {"user", "tool"}, of : {NoCall}]
            \cup [kind : {"cancel"}, of : Calls \cup {NoCall}]

TypeOK ==
    /\ llm \in Llms
    /\ log \in Seq(Events)
    /\ out \in [Actors -> Seq(Events)]
    /\ hpc \in [Handlers -> {"hello", "loop", "context", "generate", "tools", "tool", "spawn", "gone"}]
    /\ turn \in [Handlers -> 0..MaxTurns] /\ turns \in 0..MaxTurns
    /\ iter \in [Handlers -> 0..MaxIters] /\ more \in [Handlers -> 0..Cardinality(Calls)]
    /\ cur \in [Handlers -> Calls \cup {NoCall}]
    /\ prompt \in [Handlers -> SUBSET Nat]
    /\ cs \in [Calls -> {"unused", "sync", "spawned", "registered", "ended", "done"}]
    /\ canceled \in SUBSET Calls
    /\ said \in 0..MaxSaid
    /\ q \in [Handlers -> Seq(Events)] /\ \A h \in Handlers : Len(q[h]) <= Cap
    /\ wire \in [Handlers -> Seq(Events)]
    /\ inbox \in [Handlers -> Seq(Messages)]
    /\ left \in SUBSET Handlers /\ asked \in 0..MaxAsked

Init ==
    /\ llm \in Llms /\ log = Old
    /\ out = [a \in Actors |-> <<>>]
    /\ hpc = [h \in Handlers |-> "hello"]
    /\ turn = [h \in Handlers |-> 0] /\ turns = 0
    /\ iter = [h \in Handlers |-> 0] /\ more = [h \in Handlers |-> 0]
    /\ cur = [h \in Handlers |-> NoCall]
    /\ prompt = [h \in Handlers |-> {}]
    /\ cs = [c \in Calls |-> "unused"] /\ canceled = {} /\ said = 0
    /\ q = [h \in Handlers |-> <<>>] /\ wire = q
    /\ inbox = [h \in Handlers |-> <<>>]
    /\ left = {} /\ asked = 0

-----------------------------------------------------------------------------
(* Events.                                                                 *)

\* A delta is broadcast and not stored; the answer to a streamed turn is
\* stored and not broadcast ("clients already saw the stream").
Stored(e) == e.kind # "delta"
Broadcast(e) == ~(e.kind = "assistant" /\ llm = "on" /\ Stream)

Subscribed(h) == hpc[h] \notin {"hello", "gone"}

\* sendDropOldest.
Offer(s, e) == IF Len(s) < Cap THEN Append(s, e) ELSE Append(Tail(s), e)

\* appendAndBroadcast, appendOnly or broadcastEphemeral of a's next event.
Say(a) ==
    /\ out[a] # <<>>
    /\ LET e == Head(out[a])
           to == {h \in Handlers : Subscribed(h) /\ Broadcast(e)} IN
       /\ log' = IF Stored(e) THEN Append(log, e) ELSE log
       /\ q' = [h \in Handlers |-> IF h \in to THEN Offer(q[h], e) ELSE q[h]]
    /\ out' = [out EXCEPT ![a] = Tail(@)]
    /\ UNCHANGED <<llm, hpc, turnVars, cur, callVars, said, wire, inbox, left, asked>>

\* h has appended everything it had to and is at p.
At(h, p) == hpc[h] = p /\ out[h] = <<>>

\* h goes on to p, after the events evs.
Goes(h, p, evs) ==
    /\ hpc' = [hpc EXCEPT ![h] = p]
    /\ out' = [out EXCEPT ![h] = evs]

-----------------------------------------------------------------------------
(* The loop of Interact.                                                   *)

\* Replay, then subscribe.  (What falls between them: SessionEvents.)
Hello(h) ==
    /\ At(h, "hello") /\ h \notin left
    /\ wire' = [wire EXCEPT ![h] = log]
    /\ Goes(h, "loop", <<>>)
    /\ UNCHANGED <<llm, log, turnVars, cur, callVars, said, q, inbox, left, asked>>

\* Send blocks while the client does not read.
Forward(h) ==
    /\ At(h, "loop") /\ q[h] # <<>> /\ h \notin left /\ Len(wire[h]) < WireCap
    /\ wire' = [wire EXCEPT ![h] = Append(@, Head(q[h]))]
    /\ q' = [q EXCEPT ![h] = Tail(@)]
    /\ UNCHANGED <<llm, log, out, hpc, turnVars, cur, callVars, said, inbox, left, asked>>

\* Mutant: the handler forwards what it has before it looks at the context.
Return_Drains(h) ==
    /\ At(h, "loop") \/ At(h, "hello")
    /\ h \in left /\ q[h] = <<>>
    /\ Goes(h, "gone", <<>>)
    /\ UNCHANGED <<llm, log, turnVars, cur, callVars, said, q, wire, inbox, left, asked>>

\* The stream's context is done, or a Send fails; the deferred unsubscribe.
Return(h) ==
    /\ At(h, "loop") \/ At(h, "hello")
    /\ h \in left
    /\ Goes(h, "gone", <<>>)
    /\ q' = [q EXCEPT ![h] = <<>>]
    /\ UNCHANGED <<llm, log, turnVars, cur, callVars, said, wire, inbox, left, asked>>

\* h takes the next message of its client, of kind k.
Takes(h, k) ==
    /\ At(h, "loop") /\ inbox[h] # <<>> /\ Head(inbox[h]).kind = k
    /\ inbox' = [inbox EXCEPT ![h] = Tail(@)]

OnUserMessage(h) ==
    LET t == turns + 1 IN
    /\ Takes(h, "user") /\ t <= MaxTurns
    /\ turns' = t
    /\ turn' = [turn EXCEPT ![h] = t]
    /\ \/ llm = "off" /\ Goes(h, "loop", <<Ev("user", t), Ev("assistant", t)>>)
       \/ llm = "broken" /\ Goes(h, "loop", <<Ev("user", t), Ev("error", t)>>)
       \/ llm = "on" /\ Goes(h, "context", <<Ev("user", t), Ev("thinking", t)>>)
    /\ UNCHANGED <<llm, log, iter, more, prompt, cur, callVars, said, q, wire, left, asked>>

-----------------------------------------------------------------------------
(* A turn.                                                                 *)

IsMessage(e) == e.kind \in {"user", "assistant"}

\* Mutant: the ring holds one event less.
Window_OffByOne == {i \in 1..Len(log) : i > Len(log) - History + 1 /\ IsMessage(log[i])}

\* Where the messages among the last History events are.
Window == {i \in 1..Len(log) : i > Len(log) - History /\ IsMessage(log[i])}

\* buildLLMMessages, and the first iteration begins.
BuildMessages(h) ==
    /\ At(h, "context")
    /\ prompt' = [prompt EXCEPT ![h] = Window]
    /\ iter' = [iter EXCEPT ![h] = 1]
    /\ Goes(h, "generate", <<>>)
    /\ UNCHANGED <<llm, log, turn, turns, more, cur, callVars, said, q, wire, inbox, left, asked>>

\* The log cannot be read: no status follows.
BuildMessagesFails(h) ==
    /\ At(h, "context")
    /\ Goes(h, "loop", <<Ev("error", turn[h])>>)
    /\ UNCHANGED <<llm, log, turnVars, cur, callVars, said, q, wire, inbox, left, asked>>

\* onDelta.
GenerateDelta(h) ==
    /\ At(h, "generate") /\ Stream /\ said < MaxSaid
    /\ said' = said + 1
    /\ Goes(h, "generate", <<Piece("delta", turn[h])>>)
    /\ UNCHANGED <<llm, log, turnVars, cur, callVars, q, wire, inbox, left, asked>>

Idle(h) == Ev("idle", turn[h])

\* An error, the timeout of the call, or the client has gone.
GenerateFails(h) ==
    /\ At(h, "generate")
    /\ Goes(h, "loop", <<Ev("error", turn[h]), Idle(h)>>)
    /\ UNCHANGED <<llm, log, turnVars, cur, callVars, said, q, wire, inbox, left, asked>>

\* A response without tool calls, with a text or without.
Answer(h) ==
    /\ At(h, "generate")
    /\ \/ Goes(h, "loop", <<Ev("assistant", turn[h]), Idle(h)>>)
       \/ Goes(h, "loop", <<Idle(h)>>)
    /\ UNCHANGED <<llm, log, turnVars, cur, callVars, said, q, wire, inbox, left, asked>>

AskForTools(h, n) ==
    /\ At(h, "generate")
    /\ more' = [more EXCEPT ![h] = n]
    /\ Goes(h, "tools", <<>>)
    /\ UNCHANGED <<llm, log, turn, turns, iter, prompt, cur, callVars, said, q, wire, inbox, left, asked>>

Announced(c) == <<Ev("started", c), Ev("running", c)>>

\* execToolSync begins; no cancel function is registered for it.
SyncTool(h, c) ==
    /\ At(h, "tools") /\ more[h] > 0 /\ cs[c] = "unused"
    /\ cs' = [cs EXCEPT ![c] = "sync"]
    /\ cur' = [cur EXCEPT ![h] = c]
    /\ Goes(h, "tool", Announced(c))
    /\ UNCHANGED <<llm, log, turnVars, canceled, said, q, wire, inbox, left, asked>>

\* No name, or the bundle does not load or does not allow it: the model is
\* told, the clients are not.
SyncToolRefused(h) ==
    /\ At(h, "tools") /\ more[h] > 0
    /\ more' = [more EXCEPT ![h] = @ - 1]
    /\ UNCHANGED <<llm, log, out, hpc, turn, turns, iter, prompt, cur, callVars, said, q, wire, inbox, left, asked>>

SyncToolOutput(h) ==
    /\ At(h, "tool") /\ said < MaxSaid
    /\ said' = said + 1
    /\ Goes(h, "tool", <<Piece("output", cur[h])>>)
    /\ UNCHANGED <<llm, log, turnVars, cur, callVars, q, wire, inbox, left, asked>>

\* The process ends by itself, or is killed with the stream's context.
SyncToolEnds(h) ==
    /\ At(h, "tool")
    /\ cs' = [cs EXCEPT ![cur[h]] = "done"]
    /\ more' = [more EXCEPT ![h] = @ - 1]
    /\ cur' = [cur EXCEPT ![h] = NoCall]
    /\ Goes(h, "tools", <<Ev("result", cur[h]), Ev("idle", cur[h])>>)
    /\ UNCHANGED <<llm, log, turn, turns, iter, prompt, canceled, said, q, wire, inbox, left, asked>>

\* Mutant: the last iteration ends without a status.
ToolsDone_Silent(h) ==
    /\ At(h, "tools") /\ more[h] = 0
    /\ IF iter[h] < MaxIters
         THEN iter' = [iter EXCEPT ![h] = @ + 1] /\ Goes(h, "generate", <<>>)
         ELSE Goes(h, "loop", <<>>) /\ UNCHANGED iter
    /\ UNCHANGED <<llm, log, turn, turns, more, prompt, cur, callVars, said, q, wire, inbox, left, asked>>

\* The results are fed back, unless this was the last iteration.
ToolsDone(h) ==
    /\ At(h, "tools") /\ more[h] = 0
    /\ IF iter[h] < MaxIters
         THEN iter' = [iter EXCEPT ![h] = @ + 1] /\ Goes(h, "generate", <<>>)
         ELSE Goes(h, "loop", <<Idle(h)>>) /\ UNCHANGED iter
    /\ UNCHANGED <<llm, log, turn, turns, more, prompt, cur, callVars, said, q, wire, inbox, left, asked>>

-----------------------------------------------------------------------------
(* Tools the client invokes.                                               *)

OnToolInvoke(h, c) ==
    /\ Takes(h, "tool") /\ cs[c] = "unused"
    /\ cur' = [cur EXCEPT ![h] = c]
    /\ Goes(h, "spawn", Announced(c))
    /\ cs' = [cs EXCEPT ![c] = "spawned"]
    /\ UNCHANGED <<llm, log, turnVars, canceled, said, q, wire, left, asked>>

OnToolInvokeRefused(h) ==
    /\ Takes(h, "tool")
    /\ Goes(h, "loop", <<Ev("error", turn[h])>>)
    /\ UNCHANGED <<llm, log, turnVars, cur, callVars, said, q, wire, left, asked>>

\* The goroutine starts, and registers its cancel function later.
Spawn(h) ==
    /\ At(h, "spawn")
    /\ cur' = [cur EXCEPT ![h] = NoCall]
    /\ Goes(h, "loop", <<>>)
    /\ UNCHANGED <<llm, log, turnVars, callVars, said, q, wire, inbox, left, asked>>

Register(c) ==
    /\ cs[c] = "spawned" /\ \A h \in Handlers : cur[h] # c
    /\ cs' = [cs EXCEPT ![c] = "registered"]
    /\ UNCHANGED <<llm, log, out, hpc, turnVars, cur, canceled, said, q, wire, inbox, left, asked>>

ToolOutput(c) ==
    /\ cs[c] = "registered" /\ out[c] = <<>> /\ said < MaxSaid
    /\ said' = said + 1
    /\ out' = [out EXCEPT ![c] = <<Piece("output", c)>>]
    /\ UNCHANGED <<llm, log, hpc, turnVars, cur, callVars, q, wire, inbox, left, asked>>

\* Mutant: the call says that it is idle before it gives its result.
ToolEnds_IdleFirst(c) ==
    /\ cs[c] = "registered" /\ out[c] = <<>>
    /\ cs' = [cs EXCEPT ![c] = "ended"]
    /\ out' = [out EXCEPT ![c] = <<Ev("idle", c), Ev("result", c)>>]
    /\ UNCHANGED <<llm, log, hpc, turnVars, cur, canceled, said, q, wire, inbox, left, asked>>

\* The process ends, or is killed.
ToolEnds(c) ==
    /\ cs[c] = "registered" /\ out[c] = <<>>
    /\ cs' = [cs EXCEPT ![c] = "ended"]
    /\ out' = [out EXCEPT ![c] = <<Ev("result", c), Ev("idle", c)>>]
    /\ UNCHANGED <<llm, log, hpc, turnVars, cur, canceled, said, q, wire, inbox, left, asked>>

Unregister(c) ==
    /\ cs[c] = "ended" /\ out[c] = <<>>
    /\ cs' = [cs EXCEPT ![c] = "done"]
    /\ UNCHANGED <<llm, log, out, hpc, turnVars, cur, canceled, said, q, wire, inbox, left, asked>>

\* Mutant: the function is looked up and not called.
OnCancel_NoCall(h) ==
    LET c == Head(inbox[h]).of IN
    /\ Takes(h, "cancel")
    /\ Goes(h, "loop", IF c = NoCall THEN <<>> ELSE <<Ev("canceled", c)>>)
    /\ UNCHANGED <<llm, log, turnVars, cur, callVars, said, q, wire, left, asked>>

\* handleCancel: without an id it returns; a call that is not registered (yet,
\* any more, or ever) is not canceled, and "idle" is reported all the same.
OnCancel(h) ==
    LET c == Head(inbox[h]).of IN
    /\ Takes(h, "cancel")
    /\ IF c = NoCall
         THEN Goes(h, "loop", <<>>) /\ UNCHANGED canceled
         ELSE /\ Goes(h, "loop", <<Ev("canceled", c)>>)
              /\ canceled' = IF cs[c] \in {"registered", "ended"} THEN canceled \cup {c} ELSE canceled
    /\ UNCHANGED <<llm, log, turnVars, cur, cs, said, q, wire, left, asked>>

-----------------------------------------------------------------------------
(* Any client: it sends, receives and disconnects as it likes.             *)

ClientSends(h, m) ==
    /\ h \notin left /\ asked < MaxAsked
    /\ asked' = asked + 1
    /\ inbox' = [inbox EXCEPT ![h] = Append(@, m)]
    /\ UNCHANGED <<llm, log, out, hpc, turnVars, cur, callVars, said, q, wire, left>>

ClientReceives(h) ==
    /\ h \notin left /\ wire[h] # <<>>
    /\ wire' = [wire EXCEPT ![h] = Tail(@)]
    /\ UNCHANGED <<llm, log, out, hpc, turnVars, cur, callVars, said, q, inbox, left, asked>>

ClientLeaves(h) ==
    /\ h \notin left
    /\ left' = left \cup {h}
    /\ wire' = [wire EXCEPT ![h] = <<>>]
    /\ UNCHANGED <<llm, log, out, hpc, turnVars, cur, callVars, said, q, inbox, asked>>

AnyClient(h) ==
    \/ \E m \in Messages : ClientSends(h, m)
    \/ ClientReceives(h)
    \/ ClientLeaves(h)

-----------------------------------------------------------------------------
Turn(h) ==
    \/ BuildMessages(h) \/ BuildMessagesFails(h)
    \/ GenerateDelta(h) \/ GenerateFails(h) \/ Answer(h)
    \/ \E n \in 1..Cardinality(Calls) : AskForTools(h, n)
    \/ \E c \in Calls : SyncTool(h, c)
    \/ SyncToolRefused(h) \/ SyncToolOutput(h) \/ SyncToolEnds(h) \/ ToolsDone(h)

Loop(h) ==
    \/ Hello(h) \/ Forward(h) \/ Return(h)
    \/ OnUserMessage(h) \/ OnToolInvokeRefused(h) \/ Spawn(h) \/ OnCancel(h)
    \/ \E c \in Calls : OnToolInvoke(h, c)

ToolCall(c) == Register(c) \/ ToolOutput(c) \/ ToolEnds(c) \/ Unregister(c)

Server ==
    \/ \E a \in Actors : Say(a)
    \/ \E h \in Handlers : Loop(h) \/ Turn(h)
    \/ \E c \in Calls : ToolCall(c)

Next == Server \/ \E h \in Handlers : AnyClient(h)

Spec == Init /\ [][Next]_vars

(***************************************************************************)
(* Goroutines run, and select takes a ready case sooner or later; an LLM   *)
(* call ends, since it has a timeout.  A tool has none: nothing is assumed *)
(* of a tool but that its process ends when it is killed, which a canceled *)
(* context does to it.                                                     *)
(***************************************************************************)
Fairness ==
    /\ \A a \in Actors : WF_vars(Say(a))
    /\ \A h \in Handlers :
        /\ WF_vars(Hello(h)) /\ SF_vars(Forward(h)) /\ SF_vars(Return(h))
        /\ SF_vars(OnUserMessage(h)) /\ SF_vars(OnCancel(h))
        /\ SF_vars(OnToolInvokeRefused(h) \/ \E c \in Calls : OnToolInvoke(h, c))
        /\ WF_vars(Spawn(h))
        /\ WF_vars(BuildMessages(h) \/ BuildMessagesFails(h))
        /\ SF_vars(GenerateFails(h) \/ Answer(h) \/ \E n \in 1..Cardinality(Calls) : AskForTools(h, n))
        /\ WF_vars(SyncToolRefused(h) \/ \E c \in Calls : SyncTool(h, c))
        /\ WF_vars(ToolsDone(h))
        /\ SF_vars(SyncToolEnds(h) /\ h \in left)
    /\ \A c \in Calls :
        /\ WF_vars(Register(c)) /\ WF_vars(Unregister(c))
        /\ SF_vars(ToolEnds(c) /\ c \in canceled)

FairSpec == Spec /\ Fairness

-----------------------------------------------------------------------------
(* Properties.                                                             *)

Statuses == {"thinking", "running", "idle", "canceled"}
Indices(s, K) == {i \in 1..Len(s) : s[i].kind \in K}

AtRest ==
    /\ \A a \in Actors : out[a] = <<>>
    /\ \A h \in Handlers : hpc[h] \in {"hello", "loop", "gone"}
    /\ \A c \in Calls : cs[c] \in {"unused", "done"}

(***************************************************************************)
(* When no turn and no tool is in progress, the last status of the session *)
(* says so: a front end that shows the last status never shows "thinking"  *)
(* or "running" for a session at rest - with any number of clients and     *)
(* tools at once.  The exception is a turn whose history could not be      *)
(* read: it ends with an error and no status.                              *)
(***************************************************************************)
QuietIsIdle ==
    AtRest => \A i \in Indices(log, Statuses) :
        \/ log[i].kind \in {"idle", "canceled"}
        \/ \E j \in Indices(log, Statuses \cup {"error"}) : j > i

(***************************************************************************)
(* What a reader of the log knows of a call: it is announced, then runs,   *)
(* then has one result, then is idle, and outputs come while it runs; a    *)
(* call that has been given up on (left, canceled) has its result as well. *)
(***************************************************************************)
Life == <<"started", "running", "result", "idle">>

CallsAreWhole ==
    \A c \in Calls :
        LET of == {i \in 1..Len(log) : log[i].of = c /\ log[i].kind # "canceled"}
            at(k) == {i \in of : log[i] = Ev(Life[k], c)} IN
        /\ \A i \in of : log[i].kind = "output" \/ \E k \in 1..4 : i \in at(k)
        /\ \A k \in 1..4 : \A i, j \in at(k) : i = j
        /\ \A k \in 2..4 : \A i \in at(k) : \E j \in at(k - 1) : j < i
        /\ \A i \in of : log[i].kind = "output" =>
               (\E j \in at(2) : j < i) /\ (\A j \in at(3) : i < j)
        /\ (cs[c] = "done" /\ \A a \in Actors : out[a] = <<>>) => at(4) # {}

(***************************************************************************)
(* The prompt of a turn ends with the question it is to answer, unless     *)
(* somebody else said something in the session meanwhile: the window       *)
(* counts every event, so that the output of a tool can push the question  *)
(* out of it, and another client's question can follow it.                 *)
(***************************************************************************)
PromptHasQuestion ==
    \A h \in Handlers :
        At(h, "context") /\ (\A i \in Indices(log, {"user"}), j \in 1..Len(log) :
                                log[i].of = turn[h] /\ j > i => log[j].of = turn[h])
            => \E i \in Window : log[i] = Ev("user", turn[h]) /\ \A j \in Window : j <= i

(***************************************************************************)
(* What sendDropOldest drops is never the end of the story: the last event *)
(* a front end of a session at rest can still receive is the last event of *)
(* the session, be it the idle it waits for.                               *)
(***************************************************************************)
LastIsDelivered ==
    \A h \in Handlers :
        AtRest /\ q[h] # <<>> /\ Broadcast(log[Len(log)]) => q[h][Len(q[h])] = log[Len(log)]

(***************************************************************************)
(* A handler whose client has gone returns, even from a turn whose tool    *)
(* would run for ever.                                                     *)
(***************************************************************************)
AbandonedTurnsEnd == \A h \in Handlers : h \in left ~> hpc[h] = "gone"

(***************************************************************************)
(* A cancel that reaches its handler while the call it names is registered *)
(* ends the call, even one that would run for ever.                        *)
(***************************************************************************)
Cancels(h, c) == At(h, "loop") /\ inbox[h] # <<>> /\ Head(inbox[h]) = [kind |-> "cancel", of |-> c]

CanceledCallsEnd ==
    \A h \in Handlers, c \in Calls :
        (Cancels(h, c) /\ cs[c] = "registered") ~> (cs[c] = "done" \/ h \in left)

=============================================================================
