----------------------------- MODULE ShellMarkers -----------------------------
(***************************************************************************)
(* Command markers in the output of a shell (internal/remote/shell.go:     *)
(* the send loop of AttachShell, flushablePrefixLen, stripXRMarkers).  The *)
(* loop reads the log in pieces of any size, keeps back an incomplete      *)
(* marker, and takes complete ones out of what it sends.                   *)
(*                                                                         *)
(* A byte is one of x (data), B (BEL), p (payload) or one of the two       *)
(* halves, E and R, that stand for the nine bytes of xrOscPrefix.          *)
(***************************************************************************)
EXTENDS Integers, Sequences, SequencesExt

CONSTANTS
    Pieces,     \* what the output is made of: data and whole markers
    MaxPieces,  \* bound: pieces in a log
    MaxTail,    \* the longest incomplete marker that is kept back (4096)
    CutsPrefix  \* a read may end within the prefix of a marker

VARIABLES
    log,      \* the output
    offset,   \* how much of it the loop has read
    pending,  \* read and not sent
    chunks,   \* sent: [off, data, len]
    markers   \* the markers found: [from, to], absolute offsets

vars == <<log, offset, pending, chunks, markers>>

xrOscPrefix == <<"E", "R">>

TypeOK ==
    /\ offset \in 0..Len(log) /\ pending = SubSeq(log, offset - Len(pending) + 1, offset)
    /\ \A i \in DOMAIN chunks : chunks[i].off \in 0..Len(log) /\ chunks[i].len \in 0..Len(log)
    /\ markers \in Seq([from : 0..Len(log), to : 1..Len(log)])

Init ==
    /\ \E n \in 1..MaxPieces : \E ps \in [1..n -> Pieces] : log = FlattenSeq(ps)
    /\ offset = 0 /\ pending = <<>> /\ chunks = <<>> /\ markers = <<>>

-----------------------------------------------------------------------------
PrefixAt(b, i) == i + 1 <= Len(b) /\ SubSeq(b, i, i + 1) = xrOscPrefix
OscStarts(b) == {i \in DOMAIN b : PrefixAt(b, i)}
Bells(b, i) == {j \in i..Len(b) : b[j] = "B"}
Least(S) == CHOOSE i \in S : \A j \in S : i <= j
Greatest(S) == CHOOSE i \in S : \A j \in S : j <= i

\* Mutant: a prefix at the very end of the buffer is overlooked.
flushablePrefixLen_OffByOne(b) ==
    LET last == Greatest(OscStarts(b)) IN
    IF OscStarts(b) = {} \/ last + 1 = Len(b) \/ Bells(b, last) # {} \/ Len(b) - last + 1 > MaxTail THEN Len(b) ELSE last - 1

\* How much may be sent: all of it, or what is before an incomplete marker.
flushablePrefixLen(b) ==
    LET last == Greatest(OscStarts(b)) IN
    IF OscStarts(b) = {} \/ Bells(b, last) # {} \/ Len(b) - last + 1 > MaxTail THEN Len(b) ELSE last - 1

\* stripXRMarkers: what is left, and the markers with a payload that parses.
\* base is the offset of b in the log.
stripXRMarkers(b, base) ==
    LET strip[i \in 0..Len(b)] ==  \* of what is behind the first i bytes
            LET starts == {j \in OscStarts(b) : j > i}
                j == Least(starts)
                k == Least(Bells(b, j))
                one == IF k - j > 2 THEN <<[from |-> base + j - 1, to |-> base + k]>> ELSE <<>>
            IN  IF starts = {} \/ Bells(b, j) = {}
                  THEN [clean |-> SubSeq(b, i + 1, Len(b)), found |-> <<>>]
                  ELSE [clean |-> SubSeq(b, i + 1, j - 1) \o strip[k].clean,
                        found |-> one \o strip[k].found]
    IN  strip[0]

\* A read of n bytes ends within a prefix.
Cuts(n) == offset + n < Len(log) /\ PrefixAt(log, offset + n)

Read ==
    /\ offset < Len(log)
    /\ \E n \in 1..Len(log) - offset :
         /\ CutsPrefix \/ ~Cuts(n)
         /\ pending' = pending \o SubSeq(log, offset + 1, offset + n)
         /\ offset' = offset + n
    /\ UNCHANGED <<log, chunks, markers>>

\* flush: the chunk counts the bytes it stands for, markers included.
Flush ==
    /\ pending # <<>> /\ flushablePrefixLen(pending) > 0
    /\ LET n == flushablePrefixLen(pending)
           start == offset - Len(pending)
           s == stripXRMarkers(SubSeq(pending, 1, n), start)
       IN  /\ chunks' = Append(chunks, [off |-> start, data |-> s.clean, len |-> n])
           /\ markers' = markers \o s.found
           /\ pending' = SubSeq(pending, n + 1, Len(pending))
    /\ UNCHANGED <<log, offset>>

Next == Read \/ Flush
Spec == Init /\ [][Next]_vars

-----------------------------------------------------------------------------
AllSent == offset = Len(log) /\ pending = <<>>
Shown == FlattenSeq([i \in DOMAIN chunks |-> chunks[i].data])

\* However the reads cut the log, its markers are found, where they are, and
\* none is shown (flushablePrefixLen keeps back what is not complete).
MarkersAreWhole ==
    AllSent => LET s == stripXRMarkers(log, 0) IN markers = s.found /\ Shown = s.clean

\* The output is not kept back for ever: when all is read, what is left can be
\* flushed (whole markers only).
NothingIsKept == offset = Len(log) => pending = <<>> \/ flushablePrefixLen(pending) > 0

\* The chunks cover the log without gap or overlap, so that a client can
\* acknowledge and resume by offset + uncompressed_len.
ChunksCoverLog ==
    /\ chunks # <<>> => chunks[1].off = 0
    /\ \A i \in 1..Len(chunks) - 1 : chunks[i].off + chunks[i].len = chunks[i + 1].off
    /\ AllSent => chunks # <<>> /\ chunks[Len(chunks)].off + chunks[Len(chunks)].len = Len(log)

==============================================================================
