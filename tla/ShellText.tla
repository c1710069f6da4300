------------------------------- MODULE ShellText -------------------------------
(***************************************************************************)
(* Reading a shell's log without following it (internal/remote/shell.go):  *)
(* SearchShell's scan for a query in windows that overlap, and the last    *)
(* lines of TailShell.  One step of the model is one window, or one call.  *)
(*                                                                         *)
(* The log is a text over a few letters, "n" being the end of a line.      *)
(***************************************************************************)
EXTENDS Integers, Sequences, FiniteSets, SequencesExt

CONSTANTS
    Letters, \* what the log consists of
    MaxLen,  \* bound: length of the log
    Query,   \* what is searched for
    Chunk,   \* bytes read at a time (256 KiB)
    Context, \* context bytes around a match, at least 1 in the program
    Limit,   \* matches that are wanted
    TailMax  \* bytes that a tail reads at most

VARIABLES
    log, from, to, \* the log and the range of the search: offsets from..to-1
    base,          \* what has been read of it
    carry,         \* the end of the last window
    found,         \* the offsets reported
    done           \* the search has returned

vars == <<log, from, to, base, carry, found, done>>

TypeOK ==
    /\ base \in from..to /\ done \in BOOLEAN
    /\ Len(carry) <= Len(Query) - 1 + Context + Chunk
    /\ carry = SubSeq(log, base - Len(carry) + 1, base)
    /\ Len(found) <= Limit
    /\ \A i \in DOMAIN found : found[i] \in from..to - 1

\* The range of SearchShell: cut to the log, and to the records of a command.
Init ==
    /\ \E n \in 0..MaxLen : log \in [1..n -> Letters]
    /\ from \in 0..Len(log) /\ to \in from..Len(log)
    /\ base = from /\ carry = <<>> /\ found = <<>> /\ done = FALSE

-----------------------------------------------------------------------------
Smaller(a, b) == IF a < b THEN a ELSE b

\* Occurrences of the query in w, by offset within w.
Occurrences(w) == {p \in 0..Len(w) - Len(Query) : SubSeq(w, p + 1, p + Len(Query)) = Query}

\* Those that bytes.Index finds from idx on, each beyond the end of the last.
IndexAll(w, idx) ==
    LET from_[i \in 0..Len(w)] ==
            LET S == {p \in Occurrences(w) : p >= i}
                p == CHOOSE p \in S : \A q \in S : p <= q
            IN  IF S = {} THEN <<>> ELSE <<p>> \o from_[p + Len(Query)]
    IN  from_[idx]

\* Mutant: the windows do not overlap.
Overlap_None == 0

Overlap == Len(Query) - 1 + Context

\* One window of searchLogRange.
Window ==
    /\ ~done /\ base < to
    /\ LET n == Smaller(Chunk, to - base)
           window == carry \o SubSeq(log, base + 1, base + n)
           windowBase == base - Len(carry)
           hits == SelectSeq([i \in DOMAIN IndexAll(window, 0) |-> windowBase + IndexAll(window, 0)[i]],
                             LAMBDA off : off >= from /\ off < to)
           room == Limit - Len(found)
       IN  /\ found' = found \o SubSeq(hits, 1, Smaller(room, Len(hits)))
           /\ done' = (Len(hits) >= room)
           /\ carry' = IF Len(window) > Overlap THEN SubSeq(window, Len(window) - Overlap + 1, Len(window)) ELSE window
           /\ base' = base + n
    /\ UNCHANGED <<log, from, to>>

SearchEnds ==
    /\ ~done /\ base = to
    /\ done' = TRUE
    /\ UNCHANGED <<log, from, to, base, carry, found>>

Next == Window \/ SearchEnds
Spec == Init /\ [][Next]_vars

-----------------------------------------------------------------------------
Matches == {p \in from..to - Len(Query) : SubSeq(log, p + 1, p + Len(Query)) = Query}

\* What is reported occurs in the range, and what occurs there is reported or
\* overlaps what is reported, unless the limit was reached: no window boundary
\* hides a match (the carry of searchLogRange).
SearchFindsAll ==
    /\ \A i \in DOMAIN found : found[i] \in Matches
    /\ done /\ Len(found) < Limit =>
         \A p \in Matches : \E i \in DOMAIN found : found[i] - p \in 1 - Len(Query)..Len(Query) - 1

-----------------------------------------------------------------------------
\* tailFileLines: the last TailMax bytes, split at line ends, cut to n lines.

\* Split s at every "n" (bytes.Split).
Split(s) ==
    LET cuts == <<0>> \o SetToSortSeq({i \in DOMAIN s : s[i] = "n"}, <) \o <<Len(s) + 1>>
    IN  [i \in 1..Len(cuts) - 1 |-> SubSeq(s, cuts[i] + 1, cuts[i + 1] - 1)]
Join(parts) == Tail(FlattenSeq([i \in DOMAIN parts |-> <<"n">> \o parts[i]]))

tailFileLines(s, n) ==
    LET data == SubSeq(s, Len(s) - Smaller(Len(s), TailMax) + 1, Len(s))
        parts == Split(data)
        out == Join(SubSeq(parts, Len(parts) - n, Len(parts)))
    IN  IF Len(parts) <= n + 1 THEN data
        ELSE IF out # <<>> /\ out[Len(out)] # "n" THEN Append(out, "n") ELSE out

\* For a log that ends with a line end and is not cut by TailMax, the tail is
\* the last n lines, all of it if there are fewer.
TailIsLastLines ==
    log # <<>> /\ Last(log) = "n" /\ Len(log) <= TailMax =>
      \A n \in 1..2 :
        LET out == tailFileLines(log, n) IN
          /\ IsSuffix(out, log)
          /\ Cardinality({i \in DOMAIN out : out[i] = "n"}) = Smaller(n, Cardinality({i \in DOMAIN log : log[i] = "n"}))
          /\ Len(out) < Len(log) => log[Len(log) - Len(out)] = "n"

==============================================================================
