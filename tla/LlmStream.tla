------------------------------ MODULE LlmStream ------------------------------
(***************************************************************************)
(* One answer of a language model as internal/llm receives it: NewClient   *)
(* and Generate of the OpenAI-compatible client (openai_compat.go) and of  *)
(* the Gemini client (gemini.go), line by line of the event stream.        *)
(*                                                                         *)
(* Providers differ.  style says how this one writes: tool calls with an   *)
(* index, all in one frame without one, one per frame without one, or as   *)
(* the legacy function_call; Gemini frames with the whole text so far or   *)
(* with what is new.  The text is a sequence of units 1, 2, ...; fragment  *)
(* k of call c is <<c, k>>, and the first one carries the id and the name. *)
(***************************************************************************)
EXTENDS FiniteSets, Integers, Sequences

CONSTANTS
    MaxText, \* bound: units of text
    MaxFrag, \* fragments of a call's arguments
    MaxJunk  \* bound: frames that cannot be decoded

VARIABLES
    provider, \* openai or gemini
    style,    \* how the service writes
    pc,       \* new, off, ready, sent, reading, body, done, failed
    frame,    \* the frame whose lines are being read
    left,     \* data lines of that frame still to come
    data,     \* dataLines: how many lines are kept for the next event
    said,     \* units of text the service has written
    frags,    \* [call -> fragments of it the service has written]
    junk,     \* frames that could not be decoded so far
    text,     \* what the client has put together
    toolCalls,
    deltas,   \* history: the arguments of onDelta
    lastLen,  \* lastLen of the Gemini client
    seen,     \* history: DONE and error frames that were read whole
    result

vars == <<provider, style, pc, frame, left, data, said, frags, junk, text, toolCalls,
          deltas, lastLen, seen, result>>
service == <<provider, style, frame, left, said, frags, junk>>
answer == <<text, toolCalls, deltas, lastLen>>

Calls == {1, 2}
Styles == [openai |-> {"indexed", "batched", "omitted", "legacy"}, gemini |-> {"cumulative", "incremental"}]
NoCall == [id |-> 0, name |-> 0, args |-> <<>>]
None == [kind |-> "none"]
Units(from, to) == [i \in 1..(to - from + 1) |-> from + i - 1]

TypeOK ==
    /\ provider \in {"openai", "gemini"} /\ style \in Styles[provider]
    /\ pc \in {"new", "off", "ready", "sent", "reading", "body", "done", "failed"}
    /\ left \in 0..2 /\ data \in 0..2 /\ said \in 0..MaxText /\ frags \in [Calls -> 0..MaxFrag]
    /\ junk \in 0..MaxJunk /\ lastLen \in 0..MaxText /\ seen \subseteq {"DONE", "error"}
    /\ \A x \in {text, deltas} : x \in Seq(1..MaxText)

Init ==
    /\ provider \in {"openai", "gemini"} /\ style \in Styles[provider]
    /\ pc = "new" /\ frame = None /\ left = 0 /\ data = 0 /\ said = 0 /\ frags = [c \in Calls |-> 0]
    /\ junk = 0 /\ text = <<>> /\ toolCalls = <<>> /\ deltas = <<>> /\ lastLen = 0 /\ seen = {}
    /\ result = [text |-> <<>>, calls |-> <<>>]

-----------------------------------------------------------------------------
(* The configuration and the request.                                      *)

\* Not enabled, or not complete (Validate): there is no client.
NewClient ==
    /\ pc = "new" /\ pc' \in {"off", "ready"}
    /\ UNCHANGED <<service, data, answer, seen, result>>

\* Do fails, the status is not 2xx, or the body is read: as a stream if deltas are wanted,
\* by Gemini only if its operator is the default one.
Generate ==
    \/ pc = "ready" /\ pc' \in {"sent", "failed"} /\ UNCHANGED <<service, data, answer, seen, result>>
    \/ pc = "sent" /\ pc' \in {"reading", "body", "failed"} /\ UNCHANGED <<service, data, answer, seen, result>>

Whole(c) == [id |-> c, name |-> c, args |-> [k \in 1..MaxFrag |-> <<c, k>>]]

\* A body that cannot be decoded or holds an error or no choice fails, and so does the
\* list a Gemini stream is without alt=sse.
ReadBody ==
    /\ pc = "body"
    /\ \/ pc' = "failed" /\ UNCHANGED <<said, frags, result>>
       \/ \E n \in 0..MaxText, m \in 0..(IF provider = "gemini" THEN 0 ELSE Cardinality(Calls)) :
            /\ pc' = "done" /\ said' = n /\ frags' = [c \in Calls |-> IF c <= m THEN MaxFrag ELSE 0]
            /\ result' = [text |-> Units(1, n), calls |-> [c \in 1..m |-> Whole(c)]]
    /\ UNCHANGED <<provider, style, frame, left, junk, data, answer, seen>>

-----------------------------------------------------------------------------
(* What the service may write next.                                        *)

Delta(c, index) == [index |-> index, call |-> c, k |-> frags[c] + 1]
Unfinished == {c \in Calls : frags[c] < MaxFrag}
Started == {c \in Calls : frags[c] > 0}

\* Calls that may be continued together: a call is begun after those before it.
Together ==
    CASE style = "indexed" -> {S \in SUBSET Unfinished \ {{}} : \A c \in S : \A d \in 1..(c - 1) : d \in S \cup Started}
      [] style = "batched" -> {Calls} \cap SUBSET Unfinished
      [] style = "omitted" -> {{c} : c \in Unfinished}
      [] style = "legacy" -> {{1}} \cap SUBSET Unfinished
      [] OTHER -> {}

InOrder(S) == IF S = Calls THEN <<1, 2>> ELSE <<CHOOSE c \in S : TRUE>>
CallFrame(S) ==
    [kind |-> IF style = "legacy" THEN "function_call" ELSE "calls",
     deltas |-> [i \in 1..Cardinality(S) |->
                   Delta(InOrder(S)[i], IF style = "indexed" THEN InOrder(S)[i] - 1 ELSE 0)]]

TextFrame(n) == [kind |-> "text", units |-> Units(IF style = "cumulative" THEN 1 ELSE said + 1, n)]

\* The first data line of a frame; a frame may be written on two lines.
Begin(f) == frame' = f /\ \E lines \in 1..(IF provider = "openai" THEN 2 ELSE 1) : left' = lines - 1

WriteText ==
    /\ Started = {} /\ \E n \in (said + 1)..MaxText : said' = n /\ Begin(TextFrame(n))
    /\ UNCHANGED <<frags, junk>>

WriteCalls ==
    /\ \E S \in Together : /\ Begin(CallFrame(S))
                           /\ frags' = [c \in Calls |-> IF c \in S THEN frags[c] + 1 ELSE frags[c]]
    /\ UNCHANGED <<said, junk>>

WriteJunk == junk < MaxJunk /\ junk' = junk + 1 /\ Begin([kind |-> "junk"]) /\ UNCHANGED <<said, frags>>

\* DONE comes when every call that was begun is complete.
WriteEnd ==
    /\ Begin([kind |-> "error"]) \/ (Started \cap Unfinished = {} /\ Begin([kind |-> "DONE"]))
    /\ UNCHANGED <<said, frags, junk>>

-----------------------------------------------------------------------------
(* readStream: lines are kept until a blank one, or the end of the body.   *)

\* Mutant: the place in the frame decides, index or not.
Slot_OrderOnly(ds, i) == i - 1

\* Without an index the place in the frame counts, if there are several.
Slot(ds, i) == IF ds[i].index = 0 /\ Len(ds) > 1 THEN i - 1 ELSE ds[i].index

Known(slot) == IF slot \in DOMAIN toolCalls THEN toolCalls[slot] ELSE NoCall
First(old, d) == IF old = 0 /\ d.k = 1 THEN d.call ELSE old
Merge(tc, d) == [id |-> First(tc.id, d), name |-> First(tc.name, d), args |-> Append(tc.args, <<d.call, d.k>>)]

AddCalls(ds) ==
    LET slots == {Slot(ds, i) : i \in DOMAIN ds} IN
    toolCalls' = [s \in DOMAIN toolCalls \cup slots |->
                    IF s \in slots THEN Merge(Known(s), ds[CHOOSE i \in DOMAIN ds : Slot(ds, i) = s])
                      ELSE toolCalls[s]]

\* The legacy call has no id of its own: call_0, here -1.
AddLegacy(d) ==
    toolCalls' = [s \in DOMAIN toolCalls \cup {0} |->
                    IF s = 0 THEN [Merge(Known(0), d) EXCEPT !.id = -1] ELSE toolCalls[s]]

AddText(units) == text' = text \o units /\ deltas' = deltas \o units

\* The calls by index, as many as there are keys; a call without name and arguments is none.
Ordered ==
    SelectSeq([i \in 1..Cardinality(DOMAIN toolCalls) |-> Known(i - 1)],
              LAMBDA tc : tc.name # 0 \/ tc.args # <<>>)

Return == pc' = "done" /\ result' = [text |-> text', calls |-> Ordered']
Fail == pc' = "failed" /\ UNCHANGED result

\* flushEvent: an event that is not whole, or junk, is ignored.
Flush(whole) ==
    CASE whole /\ frame.kind = "text" -> AddText(frame.units) /\ UNCHANGED <<toolCalls, seen>>
      [] whole /\ frame.kind = "calls" -> AddCalls(frame.deltas) /\ UNCHANGED <<text, deltas, seen>>
      [] whole /\ frame.kind = "function_call" -> AddLegacy(frame.deltas[1]) /\ UNCHANGED <<text, deltas, seen>>
      [] whole /\ frame.kind \in {"DONE", "error"} -> seen' = seen \cup {frame.kind} /\ UNCHANGED <<text, deltas, toolCalls>>
      [] OTHER -> UNCHANGED <<text, deltas, toolCalls, seen>>

\* A data line is kept; DataLine is one of a new frame or the second of a split one.
DataLine ==
    /\ pc = "reading" /\ provider = "openai"
    /\ \/ data = 0 /\ (WriteText \/ WriteCalls \/ WriteJunk \/ WriteEnd)
       \/ left > 0 /\ left' = left - 1 /\ UNCHANGED <<frame, said, frags, junk>>
    /\ data' = data + 1
    /\ UNCHANGED <<provider, style, pc, answer, seen, result>>

BlankLine ==
    /\ pc = "reading" /\ provider = "openai" /\ data > 0 /\ left = 0
    /\ Flush(TRUE) /\ data' = 0 /\ frame' = None
    /\ CASE frame.kind = "DONE" -> Return
         [] frame.kind = "error" -> Fail
         [] OTHER -> UNCHANGED <<pc, result>>
    /\ UNCHANGED <<provider, style, left, said, frags, junk, lastLen>>

\* The end of the body is the end of the answer, with or without DONE.
EndOfBody ==
    /\ pc = "reading" /\ provider = "openai" /\ Flush(data > 0 /\ left = 0) /\ data' = 0
    /\ IF data > 0 /\ left = 0 /\ frame.kind = "error" THEN Fail ELSE Return
    /\ UNCHANGED <<service, lastLen>>

\* The connection breaks, or the client's timeout ends it.
ReadFails ==
    /\ pc = "reading" /\ Fail /\ UNCHANGED <<service, data, answer, seen>>

-----------------------------------------------------------------------------
(* readGeminiSSE: every data line is an event, with the text so far.       *)

GeminiLine ==
    /\ pc = "reading" /\ provider = "gemini" /\ (WriteText \/ WriteJunk \/ WriteEnd)
    /\ LET n == IF frame'.kind = "text" THEN Len(frame'.units) ELSE 0 IN
         IF n > lastLen
           THEN AddText(SubSeq(frame'.units, lastLen + 1, n)) /\ lastLen' = n
           ELSE UNCHANGED <<text, deltas, lastLen>>
    /\ seen' = seen \cup ({frame'.kind} \cap {"DONE", "error"})
    /\ UNCHANGED <<provider, style, data, toolCalls>>
    /\ IF frame'.kind = "DONE" THEN Return ELSE UNCHANGED <<pc, result>>

GeminiEnd ==
    /\ pc = "reading" /\ provider = "gemini" /\ UNCHANGED <<service, data, answer, seen>>
    /\ Return

readStream == DataLine \/ BlankLine \/ EndOfBody \/ ReadFails
readGeminiSSE == GeminiLine \/ GeminiEnd

Next == NewClient \/ Generate \/ ReadBody \/ readStream \/ readGeminiSSE

Spec == Init /\ [][Next]_vars

-----------------------------------------------------------------------------
\* What was shown is what is returned, a beginning of what the service wrote, and all of it
\* after DONE (readStream; readGeminiSSE when frames carry the text so far).
TextIsTheAnswer ==
    pc = "done" /\ style # "incremental" =>
        /\ result.text = Units(1, Len(result.text)) /\ Len(result.text) <= said
        /\ "DONE" \in seen => Len(result.text) = said
        /\ deltas \in {<<>>, result.text}

\* After DONE the calls are the service's, whole and in its order, when it gives an index
\* or writes all of them in each frame (readStream).
CallsAreWhole ==
    "DONE" \in seen /\ pc = "done" /\ style \in {"indexed", "batched"} =>
        result.calls = [c \in 1..Cardinality(Started) |-> Whole(c)]

\* An error the service wrote is never taken for an answer (readStream).
ErrorsFail == provider = "openai" /\ "error" \in seen => pc = "failed"
=============================================================================
