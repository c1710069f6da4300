--------------------------- MODULE LogStreamProofs ---------------------------
(***************************************************************************)
(* What reaches the clients of StreamJobLogs: proofs about ControlPlane    *)
(* that follow a job's output from the worker to a client's terminal, for  *)
(* every number of jobs, calls and clients and every amount of output.     *)
(***************************************************************************)
EXTENDS ControlPlaneProofs

-----------------------------------------------------------------------------
(* What reaches the clients: CursorIsReceived and PrintedFromLog.          *)

\* Chunk m is the one the log of job j holds at m's offset.
StoredIn(m, j) == m.offset \in 1..Len(logs[j]) /\ m = logs[j][m.offset]

\* Every chunk on its way to the client of call s is one of the log s follows.
Sourced(s) ==
    /\ \A i \in 1..Len(inflight[s]) : StoredIn(inflight[s][i], href[s])
    /\ \A i \in 1..Len(logCh[s]) : StoredIn(logCh[s][i], href[s])
    /\ \A i \in 1..Len(pending[s]) : IsChunk(pending[s][i]) => StoredIn(pending[s][i], href[s])
    /\ \A i \in 1..Len(wire[s]) : IsChunk(wire[s][i]) => StoredIn(wire[s][i], href[s])

\* Message m may follow what a call with cursor last has sent: a chunk is
\* past it, a heartbeat repeats it.
Follows(m, last) == IF IsChunk(m) THEN m.offset > last ELSE m.offset = last

\* What a handler is about to send.
SendPhase(s) ==
    /\ hpc[s] = "free" => wire[s] = <<>>
    /\ hpc[s] = "replay" => \A i \in 1..Len(pending[s]) : IsChunk(pending[s][i])
    /\ hpc[s] = "send" => pending[s] # <<>> /\ Follows(pending[s][1], lastOffset[s])

\* The messages w on the wire, for a client whose cursor is cur and a handler
\* whose cursor is last.
WireInOrder(w, cur) ==
    \A i \in 1..Len(w) :
        IF IsChunk(w[i])
          THEN /\ w[i].offset > cur
               /\ \A k \in 1..(i - 1) : w[k].offset < w[i].offset
          ELSE \/ w[i].offset <= cur
               \/ \E k \in 1..(i - 1) : IsChunk(w[k]) /\ w[k].offset = w[i].offset
WireEndsAt(w, cur, last) ==
    /\ cur <= last
    /\ \A i \in 1..Len(w) : w[i].offset <= last
    /\ last <= cur \/ \E k \in 1..Len(w) : IsChunk(w[k]) /\ w[k].offset = last

\* A connected client reads the call it made.
ReadsCall(c) == cpc[c] = "connected" =>
    /\ hpc[crpc[c]] # "free" /\ href[crpc[c]] = cref[c]
    /\ \A d \in Clients : cpc[d] = "connected" /\ crpc[d] = crpc[c] => d = c
    /\ WireInOrder(wire[crpc[c]], cursor[c])
    /\ WireEndsAt(wire[crpc[c]], cursor[c], lastOffset[crpc[c]])

\* What a client has printed lies at or below its cursor.
Printed(c) ==
    /\ cpc[c] = "idle" => printed[c] = <<>>
    /\ Increasing(printed[c])
    /\ \A i \in 1..Len(printed[c]) :
         printed[c][i].offset <= cursor[c] /\ StoredIn(printed[c][i], cref[c])

FlowInv ==
    /\ \A s \in Rpcs : Sourced(s) /\ SendPhase(s)
    /\ \A c \in Clients : ReadsCall(c) /\ Printed(c)

\* A chunk is not a heartbeat.
LEMMA ChunkIsChunk == \A m \in Chunks : IsChunk(m)
  <1>1. Heartbeat \notin Lines
    BY DEF Heartbeat, Lines, Fds
  <1>2. QED
    BY <1>1 DEF Chunks, IsChunk

\* What the type invariant says of the messages in a queue.
LEMMA MessageFacts ==
    ASSUME NEW w \in Seq(Messages)
    PROVE  /\ Len(w) \in Nat
           /\ \A i \in 1..Len(w) : w[i] \in Messages /\ w[i].offset \in Nat
  <1>1. \A i \in 1..Len(w) : w[i] \in Messages
    OBVIOUS
  <1>2. QED
    BY <1>1 DEF Messages

\* Sending a message that may follow keeps the wire in order.
LEMMA WireAppend ==
    ASSUME NEW w \in Seq(Messages), NEW m \in Messages, NEW cur \in Nat, NEW last \in Nat,
           WireInOrder(w, cur), WireEndsAt(w, cur, last), Follows(m, last)
    PROVE  WireInOrder(Append(w, m), cur) /\ WireEndsAt(Append(w, m), cur, Advance(last, m))
  <1> DEFINE v == Append(w, m)
  <1>1. /\ Len(w) \in Nat /\ Len(v) = Len(w) + 1
        /\ \A i \in 1..Len(w) : v[i] = w[i]
        /\ v[Len(w) + 1] = m
    OBVIOUS
  <1>2. m.offset \in Nat /\ \A i \in 1..Len(w) : w[i].offset \in Nat
    BY MessageFacts DEF Messages
  <1>3. IF IsChunk(m) THEN m.offset > last ELSE m.offset = last
    BY DEF Follows
  <1>4. Advance(last, m) = m.offset
    BY <1>2, <1>3 DEF Advance
  <1>5. /\ cur <= last
        /\ \A i \in 1..Len(w) : w[i].offset <= last
        /\ last <= cur \/ \E k \in 1..Len(w) : IsChunk(w[k]) /\ w[k].offset = last
    BY DEF WireEndsAt
  <1> HIDE DEF v
  <1>6. ASSUME NEW i \in 1..Len(v)
        PROVE  IF IsChunk(v[i])
                 THEN /\ v[i].offset > cur
                      /\ \A k \in 1..(i - 1) : v[k].offset < v[i].offset
                 ELSE \/ v[i].offset <= cur
                      \/ \E k \in 1..(i - 1) : IsChunk(v[k]) /\ v[k].offset = v[i].offset
    <2>1. CASE i \in 1..Len(w)
      <3>1. \A k \in 1..(i - 1) : k \in 1..Len(w) /\ v[k] = w[k]
        BY <2>1, <1>1
      <3>2. IF IsChunk(w[i])
                 THEN /\ w[i].offset > cur
                      /\ \A k \in 1..(i - 1) : w[k].offset < w[i].offset
                 ELSE \/ w[i].offset <= cur
                      \/ \E k \in 1..(i - 1) : IsChunk(w[k]) /\ w[k].offset = w[i].offset
        BY <2>1 DEF WireInOrder
      <3>3. QED
        BY <2>1, <3>1, <3>2, <1>1
    <2>2. CASE i = Len(w) + 1
      <3>1. v[i] = m /\ 1..(i - 1) = 1..Len(w)
        BY <2>2, <1>1
      <3>2. CASE IsChunk(m)
        <4>1. m.offset > cur /\ \A k \in 1..Len(w) : w[k].offset < m.offset
          BY <3>2, <1>1, <1>2, <1>3, <1>5
        <4>2. \A k \in 1..Len(w) : v[k].offset < m.offset
          BY <4>1, <1>1
        <4>3. QED
          BY <3>1, <3>2, <4>1, <4>2
      <3>3. CASE ~IsChunk(m)
        <4>1. m.offset <= cur \/ \E k \in 1..Len(w) : IsChunk(w[k]) /\ w[k].offset = m.offset
          BY <3>3, <1>3, <1>5
        <4>2. m.offset <= cur \/ \E k \in 1..Len(w) : IsChunk(v[k]) /\ v[k].offset = m.offset
          BY <4>1, <1>1
        <4>3. QED
          BY <3>1, <3>3, <4>2
      <3>4. QED
        BY <3>2, <3>3
    <2>3. QED
      BY <2>1, <2>2, <1>1
  <1>7. /\ cur <= m.offset
        /\ \A i \in 1..Len(v) : v[i].offset <= m.offset
    <2>1. last <= m.offset
      BY <1>2, <1>3
    <2>2. cur <= m.offset
      BY <2>1, <1>2, <1>5
    <2>3. ASSUME NEW i \in 1..Len(v) PROVE v[i].offset <= m.offset
      <3>1. CASE i \in 1..Len(w)
        BY <3>1, <2>1, <1>1, <1>2, <1>5
      <3>2. CASE i = Len(w) + 1
        BY <3>2, <1>1, <1>2
      <3>3. QED
        BY <3>1, <3>2, <1>1
    <2>4. QED
      BY <2>2, <2>3
  <1>8. m.offset <= cur \/ \E k \in 1..Len(v) : IsChunk(v[k]) /\ v[k].offset = m.offset
    <2>1. CASE IsChunk(m)
      BY <2>1, <1>1
    <2>2. CASE ~IsChunk(m)
      BY <2>2, <1>1, <1>3, <1>5
    <2>3. QED
      BY <2>1, <2>2
  <1>9. QED
    BY <1>4, <1>6, <1>7, <1>8 DEF WireInOrder, WireEndsAt, v

\* Receiving the first message moves the cursor to it, or past a heartbeat
\* that repeats the cursor.
LEMMA WireTail ==
    ASSUME NEW w \in Seq(Messages), w # <<>>, NEW cur \in Nat, NEW last \in Nat,
           WireInOrder(w, cur), WireEndsAt(w, cur, last)
    PROVE  /\ WireInOrder(Tail(w), Advance(cur, Head(w)))
           /\ WireEndsAt(Tail(w), Advance(cur, Head(w)), last)
           /\ IF IsChunk(Head(w)) THEN Head(w).offset > cur ELSE Head(w).offset <= cur
  <1> DEFINE v == Tail(w)
  <1> DEFINE m == Head(w)
  <1> DEFINE new == Advance(cur, m)
  <1>1. /\ Len(w) \in Nat /\ 1 \in 1..Len(w) /\ Len(v) = Len(w) - 1
        /\ \A i \in 1..Len(v) : v[i] = w[i + 1] /\ i + 1 \in 1..Len(w)
        /\ m = w[1]
    OBVIOUS
  <1>2. \A i \in 1..Len(w) : w[i].offset \in Nat
    BY MessageFacts
  <1>3. IF IsChunk(m) THEN m.offset > cur ELSE m.offset <= cur
    <2>1. 1..(1 - 1) = {}
      OBVIOUS
    <2>2. QED
      BY <2>1, <1>1 DEF WireInOrder
  <1>4. IF IsChunk(m) THEN new = m.offset ELSE new = cur
    BY <1>1, <1>2, <1>3 DEF Advance
  <1>5. cur <= new /\ m.offset <= new /\ new \in Nat
    BY <1>1, <1>2, <1>3, <1>4
  <1>w. \A i \in 1..Len(w) :
        IF IsChunk(w[i])
          THEN /\ w[i].offset > cur
               /\ \A k \in 1..(i - 1) : w[k].offset < w[i].offset
          ELSE \/ w[i].offset <= cur
               \/ \E k \in 1..(i - 1) : IsChunk(w[k]) /\ w[k].offset = w[i].offset
    BY DEF WireInOrder
  <1>e. /\ cur <= last
        /\ \A i \in 1..Len(w) : w[i].offset <= last
        /\ last <= cur \/ \E k \in 1..Len(w) : IsChunk(w[k]) /\ w[k].offset = last
    BY DEF WireEndsAt
  <1> HIDE DEF v, m, new
  <1>6. ASSUME NEW i \in 1..Len(v), IsChunk(v[i])
        PROVE  v[i].offset > new /\ \A k \in 1..(i - 1) : v[k].offset < v[i].offset
    <2>1. /\ v[i] = w[i + 1] /\ i + 1 \in 1..Len(w) /\ 1 \in 1..((i + 1) - 1)
          /\ \A k \in 1..(i - 1) : v[k] = w[k + 1] /\ k + 1 \in 1..((i + 1) - 1)
      BY <1>1
    <2>2. w[i + 1].offset > cur /\ \A k \in 1..((i + 1) - 1) : w[k].offset < w[i + 1].offset
      BY <2>1, <1>6, <1>w
    <2>3. m.offset < v[i].offset
      BY <2>1, <2>2, <1>1
    <2>4. v[i].offset > new
      BY <2>1, <2>2, <2>3, <1>2, <1>4
    <2>5. QED
      BY <2>1, <2>2, <2>4
  <1>7. ASSUME NEW i \in 1..Len(v), ~IsChunk(v[i])
        PROVE  \/ v[i].offset <= new
               \/ \E k \in 1..(i - 1) : IsChunk(v[k]) /\ v[k].offset = v[i].offset
    <2>1. v[i] = w[i + 1] /\ i + 1 \in 1..Len(w)
      BY <1>1
    <2>2. CASE w[i + 1].offset <= cur
      BY <2>1, <2>2, <1>2, <1>5
    <2>3. CASE \E k \in 1..((i + 1) - 1) : IsChunk(w[k]) /\ w[k].offset = w[i + 1].offset
      <3>1. PICK k \in 1..((i + 1) - 1) : IsChunk(w[k]) /\ w[k].offset = w[i + 1].offset
        BY <2>3
      <3>2. CASE k = 1
        BY <3>1, <3>2, <2>1, <1>1, <1>5
      <3>3. CASE k # 1
        <4>1. k - 1 \in 1..(i - 1) /\ k - 1 \in 1..Len(v) /\ (k - 1) + 1 = k
          BY <3>1, <3>3, <1>1
        <4>2. v[k - 1] = w[k]
          BY <4>1, <1>1
        <4>3. QED
          BY <4>1, <4>2, <3>1, <2>1
      <3>4. QED
        BY <3>2, <3>3
    <2>4. QED
      BY <2>1, <2>2, <2>3, <1>7, <1>w
  <1>8. WireInOrder(v, new)
    BY <1>6, <1>7 DEF WireInOrder
  <1>9. WireEndsAt(v, new, last)
    <2>1. new <= last
      BY <1>1, <1>4, <1>e
    <2>2. \A i \in 1..Len(v) : v[i].offset <= last
      BY <1>1, <1>e
    <2>3. last <= new \/ \E k \in 1..Len(v) : IsChunk(v[k]) /\ v[k].offset = last
      <3>1. CASE last <= cur
        BY <3>1, <1>2, <1>5
      <3>2. CASE \E k \in 1..Len(w) : IsChunk(w[k]) /\ w[k].offset = last
        <4>1. PICK k \in 1..Len(w) : IsChunk(w[k]) /\ w[k].offset = last
          BY <3>2
        <4>2. CASE k = 1
          BY <4>1, <4>2, <1>1, <1>5
        <4>3. CASE k # 1
          <5>1. k - 1 \in 1..Len(v) /\ (k - 1) + 1 = k
            BY <4>1, <4>3, <1>1
          <5>2. v[k - 1] = w[k]
            BY <5>1, <1>1
          <5>3. QED
            BY <5>1, <5>2, <4>1
        <4>4. QED
          BY <4>2, <4>3
      <3>3. QED
        BY <3>1, <3>2, <1>e
    <2>4. QED
      BY <2>1, <2>2, <2>3 DEF WireEndsAt
  <1>10. QED
    BY <1>3, <1>8, <1>9 DEF v, m, new

\* A chunk once stored stays where it is stored.
LogsGrow == \A j \in Jobs :
    Len(logs[j]) <= Len(logs'[j]) /\ \A i \in 1..Len(logs[j]) : logs'[j][i] = logs[j][i]

\* What is stored stays stored while logs only grow.
LEMMA StoredStays ==
    ASSUME TypeOK, TypeOK', LogsGrow, NEW j \in Jobs, NEW m, StoredIn(m, j)
    PROVE  StoredIn(m, j)'
  <1>1. Len(logs[j]) \in Nat /\ Len(logs'[j]) \in Nat
    BY DEF TypeOK, StoreTypeOK
  <1>2. QED
    BY <1>1 DEF StoredIn, LogsGrow

\* A step that leaves a call's queues alone, while logs may grow.
LEMMA FrameSourced ==
    ASSUME TypeOK, TypeOK', LogsGrow, NEW s \in Rpcs, Sourced(s), SendPhase(s),
           inflight'[s] = inflight[s], logCh'[s] = logCh[s], pending'[s] = pending[s],
           wire'[s] = wire[s], href'[s] = href[s], hpc'[s] = hpc[s],
           lastOffset'[s] = lastOffset[s]
    PROVE  Sourced(s)' /\ SendPhase(s)'
  <1>1. href[s] \in Jobs
    BY DEF TypeOK, ServiceTypeOK
  <1>2. Sourced(s)'
    BY <1>1, StoredStays DEF Sourced, IsChunk
  <1>3. SendPhase(s)'
    BY DEF SendPhase, IsChunk, Follows
  <1>4. QED
    BY <1>2, <1>3

\* A step that leaves the clients, and the wire a client reads, alone.
LEMMA FrameReader ==
    ASSUME TypeOK, TypeOK', LogsGrow, NEW c \in Clients, ReadsCall(c), Printed(c),
           UNCHANGED clientVars, href'[crpc[c]] = href[crpc[c]],
           hpc[crpc[c]] # "free" => hpc'[crpc[c]] # "free",
           wire'[crpc[c]] = wire[crpc[c]], lastOffset'[crpc[c]] = lastOffset[crpc[c]]
    PROVE  ReadsCall(c)' /\ Printed(c)'
  <1>1. cref[c] \in Jobs /\ crpc[c] \in Rpcs
    BY DEF TypeOK
  <1>2. ReadsCall(c)'
    BY DEF ReadsCall, clientVars, WireInOrder, WireEndsAt, IsChunk
  <1>3. Printed(c)'
    BY <1>1, StoredStays DEF Printed, clientVars, Increasing
  <1>4. QED
    BY <1>2, <1>3

\* The variables FlowInv speaks of, apart from the clients'.
flowVars == <<logs, inflight, logCh, pending, wire, hpc, href, lastOffset>>

\* A step that changes none of these variables keeps the invariant.
LEMMA FrameFlow ==
    ASSUME TypeOK, TypeOK', FlowInv, UNCHANGED <<flowVars, clientVars>>
    PROVE  FlowInv'
  <1>1. LogsGrow
    BY DEF LogsGrow, flowVars, TypeOK, StoreTypeOK
  <1>2. ASSUME NEW s \in Rpcs PROVE Sourced(s)' /\ SendPhase(s)'
    BY <1>1, FrameSourced DEF FlowInv, flowVars
  <1>3. ASSUME NEW c \in Clients PROVE ReadsCall(c)' /\ Printed(c)'
    BY <1>1, FrameReader DEF FlowInv, flowVars
  <1>4. QED
    BY <1>2, <1>3 DEF FlowInv

(***************************************************************************)
(* A step of the server: it is enough to look at the calls whose queues it *)
(* touches, if nothing is sent.                                            *)
(***************************************************************************)
LEMMA ServerFlow ==
    ASSUME TypeOK, TypeOK', FlowInv, LogsGrow, UNCHANGED <<clientVars, href, wire, lastOffset>>,
           \A s \in Rpcs : hpc[s] # "free" => hpc'[s] # "free",
           \A s \in Rpcs : Sourced(s)' /\ SendPhase(s)'
    PROVE  FlowInv'
  <1>1. ASSUME NEW c \in Clients PROVE ReadsCall(c)' /\ Printed(c)'
    <2>1. crpc[c] \in Rpcs
      BY DEF TypeOK
    <2>2. QED
      BY <2>1, FrameReader DEF FlowInv
  <1>2. QED
    BY <1>1 DEF FlowInv

\* AppendLogs extends a log and queues what it appended.
LEMMA AppendFlow ==
    ASSUME TypeOK, TypeOK', SafeInv, FlowInv, NEW j \in Jobs, NEW ls \in Seq(Lines),
           AppendLogs(j, ls), UNCHANGED <<handlerVars, clientVars>>
    PROVE  FlowInv'
  <1>t. /\ logs \in [Jobs -> Seq(Chunks)] /\ logOffsets[j] \in Nat /\ Len(logs[j]) \in Nat
        /\ logs[j] \in Seq(Chunks) /\ Len(ls) \in Nat
    BY DEF TypeOK, StoreTypeOK
  <1>1. /\ Stamped(j, ls) \in Seq(Chunks) /\ Len(Stamped(j, ls)) = Len(ls)
        /\ \A i \in 1..Len(ls) : Stamped(j, ls)[i] = [offset |-> logOffsets[j] + i, line |-> ls[i]]
    BY StampedType DEF TypeOK
  <1>2. /\ logs'[j] = logs[j] \o Stamped(j, ls)
        /\ \A k \in Jobs \ {j} : logs'[k] = logs[k]
        /\ \A s \in Rpcs : inflight'[s] = IF s \in logSubs[j] THEN Stamped(j, ls) ELSE <<>>
        /\ \A s \in Rpcs : inflight[s] = <<>>
        /\ UNCHANGED <<logCh, pending, wire, hpc, href, lastOffset>>
    BY <1>t DEF AppendLogs, Unlocked, handlerVars
  <1>s. PICK st : st = Stamped(j, ls)
    OBVIOUS
  <1>3. /\ Len(logs'[j]) = Len(logs[j]) + Len(ls)
        /\ \A i \in 1..Len(logs[j]) : logs'[j][i] = logs[j][i]
        /\ \A i \in 1..Len(ls) : logs'[j][Len(logs[j]) + i] = st[i]
    <2>1. st \in Seq(Chunks) /\ Len(st) = Len(ls) /\ logs'[j] = logs[j] \o st
      BY <1>1, <1>2, <1>s
    <2>2. QED
      BY <2>1, <1>t
  <1>4. LogsGrow
    <2>1. ASSUME NEW k \in Jobs
          PROVE  Len(logs[k]) <= Len(logs'[k]) /\ \A i \in 1..Len(logs[k]) : logs'[k][i] = logs[k][i]
      <3>1. CASE k = j
        BY <3>1, <1>3, <1>t
      <3>2. CASE k # j
        BY <3>2, <1>2, <1>t
      <3>3. QED
        BY <3>1, <3>2
    <2>2. QED
      BY <2>1 DEF LogsGrow
  <1>5. \A i \in 1..Len(ls) : StoredIn(st[i], j)'
    <2>1. ASSUME NEW i \in 1..Len(ls) PROVE StoredIn(st[i], j)'
      <3>0. Len(logs[j]) = logOffsets[j]
        BY DEF SafeInv, DenseOffsets
      <3>1. st[i].offset = Len(logs[j]) + i
        <4>1. st[i] = [offset |-> logOffsets[j] + i, line |-> ls[i]]
          BY <1>1, <1>s
        <4>2. st[i].offset = logOffsets[j] + i
          BY <4>1
        <4>3. QED
          BY <4>2, <3>0
      <3>2. Len(logs[j]) + i \in 1..Len(logs'[j])
        BY <1>3, <1>t
      <3>3. QED
        BY <3>1, <3>2, <1>3 DEF StoredIn
    <2>2. QED
      BY <2>1
  <1>6. ASSUME NEW s \in Rpcs PROVE Sourced(s)' /\ SendPhase(s)'
    <2>1. href[s] \in Jobs /\ Sourced(s) /\ SendPhase(s)
      BY DEF TypeOK, ServiceTypeOK, FlowInv
    <2>2. SendPhase(s)'
      BY <2>1, <1>2 DEF SendPhase, IsChunk, Follows
    <2>3. \A i \in 1..Len(inflight'[s]) : StoredIn(inflight[s][i], href[s])'
      <3>1. CASE s \in logSubs[j]
        <4>1. href'[s] = j
          BY <3>1, <1>2 DEF SafeInv, Registered
        <4>2. inflight'[s] = st /\ Len(st) = Len(ls)
          BY <3>1, <1>1, <1>2, <1>s
        <4>3. QED
          BY <4>1, <4>2, <1>5 DEF StoredIn
      <3>2. CASE s \notin logSubs[j]
        BY <3>2, <1>2
      <3>3. QED
        BY <3>1, <3>2
    <2>4. \A i \in 1..Len(logCh'[s]) : StoredIn(logCh[s][i], href[s])'
      BY <2>1, <1>2, <1>4, StoredStays DEF Sourced
    <2>5. \A i \in 1..Len(pending'[s]) : IsChunk(pending'[s][i]) => StoredIn(pending[s][i], href[s])'
      BY <2>1, <1>2, <1>4, StoredStays DEF Sourced
    <2>6. \A i \in 1..Len(wire'[s]) : IsChunk(wire'[s][i]) => StoredIn(wire[s][i], href[s])'
      BY <2>1, <1>2, <1>4, StoredStays DEF Sourced
    <2>7. Sourced(s)'
      BY <2>3, <2>4, <2>5, <2>6 DEF Sourced, IsChunk
    <2>8. QED
      BY <2>2, <2>7
  <1>7. QED
    BY <1>2, <1>4, <1>6, ServerFlow

\* A broadcast moves a chunk from what is to be offered to the channel.
LEMMA BroadcastFlow ==
    ASSUME TypeOK, TypeOK', FlowInv, NEW s \in Rpcs, BroadcastOne(s),
           UNCHANGED <<handlerVars, clientVars>>
    PROVE  FlowInv'
  <1>t. /\ logCh \in [Rpcs -> Seq(Chunks)] /\ inflight \in [Rpcs -> Seq(Chunks)]
        /\ logCh[s] \in Seq(Chunks) /\ inflight[s] \in Seq(Chunks)
    BY DEF TypeOK, StoreTypeOK
  <1>1. /\ inflight[s] # <<>> /\ inflight'[s] = Tail(inflight[s])
        /\ logCh'[s] = logCh[s] \/ logCh'[s] = Append(logCh[s], Head(inflight[s]))
        /\ \A r \in Rpcs \ {s} : inflight'[r] = inflight[r] /\ logCh'[r] = logCh[r]
        /\ UNCHANGED <<logs, pending, wire, hpc, href, lastOffset>>
    BY <1>t DEF BroadcastOne, handlerVars
  <1>2. LogsGrow
    BY <1>1 DEF LogsGrow, TypeOK, StoreTypeOK
  <1>3. Sourced(s)' /\ SendPhase(s)'
    <2>0. Sourced(s) /\ SendPhase(s)
      BY DEF FlowInv
    <2>1. /\ Head(inflight[s]) \in Chunks
          /\ StoredIn(Head(inflight[s]), href[s])
          /\ \A i \in 1..Len(Tail(inflight[s])) : StoredIn(Tail(inflight[s])[i], href[s])
      BY <2>0, <1>1, <1>t, TailFacts DEF Sourced
    <2>2. \A i \in 1..Len(logCh'[s]) : StoredIn(logCh'[s][i], href[s])
      <3>1. \A i \in 1..Len(logCh[s]) : StoredIn(logCh[s][i], href[s])
        BY <2>0 DEF Sourced
      <3>2. CASE logCh'[s] = logCh[s]
        BY <3>1, <3>2
      <3>3. CASE logCh'[s] = Append(logCh[s], Head(inflight[s]))
        BY <3>1, <3>3, <2>1, <1>t, AppendFacts
      <3>4. QED
        BY <3>2, <3>3, <1>1
    <2>3. Sourced(s)'
      BY <2>0, <2>1, <2>2, <1>1 DEF Sourced, StoredIn, IsChunk
    <2>4. SendPhase(s)'
      BY <2>0, <1>1 DEF SendPhase, IsChunk, Follows
    <2>5. QED
      BY <2>3, <2>4
  <1>4. ASSUME NEW r \in Rpcs, r # s PROVE Sourced(r)' /\ SendPhase(r)'
    BY <1>1, <1>2, <1>4, FrameSourced DEF FlowInv
  <1>5. QED
    BY <1>1, <1>2, <1>3, <1>4, ServerFlow

\* A handler step that sends nothing: it is enough to look at its own call.
LEMMA QuietFlow ==
    ASSUME TypeOK, TypeOK', FlowInv, NEW s \in Rpcs,
           UNCHANGED <<logs, inflight, href, wire, lastOffset, clientVars>>,
           \A r \in Rpcs \ {s} : /\ pending'[r] = pending[r] /\ logCh'[r] = logCh[r]
                                 /\ hpc'[r] = hpc[r],
           hpc'[s] # "free", SendPhase(s)',
           \A i \in 1..Len(logCh'[s]) : StoredIn(logCh'[s][i], href[s]),
           \A i \in 1..Len(pending'[s]) : IsChunk(pending'[s][i]) => StoredIn(pending'[s][i], href[s])
    PROVE  FlowInv'
  <1>1. LogsGrow
    BY DEF LogsGrow, TypeOK, StoreTypeOK
  <1>2. Sourced(s)'
    <2>1. Sourced(s)
      BY DEF FlowInv
    <2>2. QED
      BY <2>1 DEF Sourced, StoredIn, IsChunk
  <1>3. ASSUME NEW r \in Rpcs, r # s PROVE Sourced(r)' /\ SendPhase(r)'
    BY <1>1, <1>3, FrameSourced DEF FlowInv
  <1>4. QED
    BY <1>1, <1>2, <1>3, ServerFlow

\* The steps of a handler that send nothing keep FlowInv.
LEMMA HandlerQuiet ==
    ASSUME TypeOK, TypeOK', SafeInv, FlowInv, NEW s \in Rpcs, HandlerStep(s), ~Send(s),
           UNCHANGED clientVars
    PROVE  FlowInv'
  <1>t. /\ hpc \in [Rpcs -> {"free", "snapshot", "replay", "check", "subscribe",
                             "live", "send", "unsubscribe", "done"}]
        /\ pending \in [Rpcs -> Seq(Messages)] /\ pending[s] \in Seq(Messages)
        /\ logCh \in [Rpcs -> Seq(Chunks)] /\ logCh[s] \in Seq(Chunks)
        /\ href[s] \in Jobs /\ logs[href[s]] \in Seq(Chunks)
        /\ lastOffset[s] \in Nat
    BY SMTT(40) DEF TypeOK, ServiceTypeOK, StoreTypeOK
  <1>i. /\ \A i \in 1..Len(logCh[s]) : StoredIn(logCh[s][i], href[s])
        /\ \A i \in 1..Len(pending[s]) : IsChunk(pending[s][i]) => StoredIn(pending[s][i], href[s])
        /\ SendPhase(s)
    BY DEF FlowInv, Sourced
  <1>1. CASE ReplayDone(s) \/ CheckState(s) \/ ChannelClosed(s) \/ ContextDone(s)
    <2>1. /\ UNCHANGED <<logs, inflight, href, wire, lastOffset, logCh, pending>>
          /\ \A r \in Rpcs \ {s} : hpc'[r] = hpc[r]
          /\ hpc'[s] \notin {"free", "replay", "send"}
      BY <1>1, <1>t DEF ReplayDone, CheckState, ChannelClosed, ContextDone, storeVars
    <2>2. SendPhase(s)'
      BY <2>1 DEF SendPhase
    <2>3. QED
      BY <2>1, <2>2, <1>i, QuietFlow
  <1>2. CASE Subscribe(s) \/ Unsubscribe(s)
    <2>1. /\ UNCHANGED <<logs, inflight, href, wire, lastOffset, pending>>
          /\ logCh'[s] \in {logCh[s], <<>>}
          /\ \A r \in Rpcs \ {s} : hpc'[r] = hpc[r] /\ logCh'[r] = logCh[r]
          /\ hpc'[s] \notin {"free", "replay", "send"}
      BY <1>2, <1>t DEF Subscribe, SubscribeLogs, Unsubscribe, UnsubscribeLogs
    <2>2. SendPhase(s)'
      BY <2>1 DEF SendPhase
    <2>3. \A i \in 1..Len(logCh'[s]) : StoredIn(logCh'[s][i], href[s])
      BY <2>1, <1>i
    <2>4. QED
      BY <2>1, <2>2, <2>3, <1>i, QuietFlow
  <1>3. CASE SnapshotLogs(s)
    <2>1. /\ UNCHANGED <<logs, inflight, href, wire, lastOffset, logCh>>
          /\ pending'[s] = logs[href[s]]
          /\ \A r \in Rpcs \ {s} : hpc'[r] = hpc[r] /\ pending'[r] = pending[r]
          /\ hpc'[s] = "replay"
      BY <1>3, <1>t DEF SnapshotLogs, storeVars
    <2>2. \A i \in 1..Len(logs[href[s]]) :
            IsChunk(logs[href[s]][i]) /\ StoredIn(logs[href[s]][i], href[s])
      BY <1>t, ChunkIsChunk DEF StoredIn, SafeInv, DenseOffsets
    <2>3. SendPhase(s)'
      BY <2>1, <2>2 DEF SendPhase, IsChunk
    <2>4. QED
      BY <2>1, <2>2, <2>3, <1>i, QuietFlow
  <1>4. CASE SkipStored(s)
    <2>1. /\ UNCHANGED <<logs, inflight, href, wire, lastOffset, logCh, hpc>>
          /\ pending[s] # <<>> /\ pending'[s] = Tail(pending[s])
          /\ \A r \in Rpcs \ {s} : pending'[r] = pending[r]
          /\ hpc[s] = "replay"
      BY <1>4, <1>t DEF SkipStored, storeVars
    <2>2. \A i \in 1..Len(pending'[s]) :
            IsChunk(pending'[s][i]) /\ StoredIn(pending'[s][i], href[s])
      BY <2>1, <1>i, <1>t, TailFacts DEF SendPhase
    <2>3. SendPhase(s)'
      BY <2>1, <2>2 DEF SendPhase, IsChunk
    <2>4. QED
      BY <2>1, <2>2, <2>3, <1>i, QuietFlow
  <1>5. CASE SendFails(s)
    <2>1. /\ UNCHANGED <<logs, inflight, href, wire, lastOffset, logCh>>
          /\ pending'[s] = <<>>
          /\ \A r \in Rpcs \ {s} : pending'[r] = pending[r] /\ hpc'[r] = hpc[r]
          /\ hpc'[s] \notin {"free", "replay", "send"}
      BY <1>5, <1>t DEF SendFails, Sending, storeVars
    <2>2. SendPhase(s)'
      BY <2>1 DEF SendPhase
    <2>3. QED
      BY <2>1, <2>2, <1>i, QuietFlow
  <1>6. CASE ReceiveChunk(s)
    <2>1. /\ UNCHANGED <<logs, inflight, href, wire, lastOffset>>
          /\ logCh[s] # <<>> /\ logCh'[s] = Tail(logCh[s])
          /\ \A r \in Rpcs \ {s} : /\ pending'[r] = pending[r] /\ hpc'[r] = hpc[r]
                                   /\ logCh'[r] = logCh[r]
          /\ hpc[s] = "live"
          /\ \/ hpc'[s] = "live" /\ pending'[s] = pending[s]
             \/ /\ hpc'[s] = "send" /\ pending'[s] = <<Head(logCh[s])>>
                /\ ~(Head(logCh[s]).offset <= after[s])
      BY <1>6, <1>t DEF ReceiveChunk
    <2>2. /\ \A i \in 1..Len(Tail(logCh[s])) : StoredIn(Tail(logCh[s])[i], href[s])
          /\ Head(logCh[s]) \in Chunks /\ IsChunk(Head(logCh[s]))
          /\ StoredIn(Head(logCh[s]), href[s]) /\ NewTo(Head(logCh[s]), s)
      BY <2>1, <1>i, <1>t, TailFacts, ChunkIsChunk DEF SafeInv, CallInv, Ordered
    <2>3. CASE hpc'[s] = "live" /\ pending'[s] = pending[s]
      <3>1. SendPhase(s)'
        BY <2>3 DEF SendPhase
      <3>2. QED
        BY <2>1, <2>2, <2>3, <3>1, <1>i, QuietFlow
    <2>4. CASE /\ hpc'[s] = "send" /\ pending'[s] = <<Head(logCh[s])>>
               /\ ~(Head(logCh[s]).offset <= after[s])
      <3>1. Head(logCh[s]).offset > lastOffset[s]
        <4>1. Head(logCh[s]).offset \in Nat /\ after[s] \in Nat
          BY <2>2 DEF Chunks, TypeOK, ServiceTypeOK
        <4>2. QED
          BY <4>1, <2>2, <2>4 DEF NewTo
      <3>2. SendPhase(s)'
        BY <2>1, <2>2, <2>4, <3>1 DEF SendPhase, Follows, IsChunk
      <3>3. \A i \in 1..Len(pending'[s]) :
               IsChunk(pending'[s][i]) => StoredIn(pending'[s][i], href[s])
        BY <2>2, <2>4
      <3>4. \A i \in 1..Len(logCh'[s]) : StoredIn(logCh'[s][i], href[s])
        BY <2>1, <2>2
      <3>5. QED
        BY <2>1, <2>4, <3>2, <3>3, <3>4, QuietFlow
    <2>5. QED
      BY <2>1, <2>3, <2>4
  <1>7. CASE HeartbeatTick(s)
    <2>1. /\ UNCHANGED <<logs, inflight, href, wire, lastOffset, logCh>>
          /\ \A r \in Rpcs \ {s} : pending'[r] = pending[r] /\ hpc'[r] = hpc[r]
          /\ hpc'[s] = "send"
          /\ pending'[s] = <<[offset |-> lastOffset[s], line |-> Heartbeat]>>
      BY <1>7, <1>t DEF HeartbeatTick, storeVars
    <2>2. ~IsChunk(pending'[s][1]) /\ Len(pending'[s]) = 1
      BY <2>1 DEF IsChunk
    <2>3. SendPhase(s)'
      BY <2>1 DEF SendPhase, Follows, IsChunk
    <2>4. \A i \in 1..Len(pending'[s]) : IsChunk(pending'[s][i]) => StoredIn(pending'[s][i], href[s])
      BY <2>2
    <2>5. QED
      BY <2>1, <2>3, <2>4, <1>i, QuietFlow
  <1>8. QED
    BY <1>1, <1>2, <1>3, <1>4, <1>5, <1>6, <1>7 DEF HandlerStep

\* Sending the next message keeps FlowInv.
LEMMA SendFlow ==
    ASSUME TypeOK, TypeOK', SafeInv, FlowInv, NEW s \in Rpcs, Send(s), UNCHANGED clientVars
    PROVE  FlowInv'
  <1>t. /\ hpc \in [Rpcs -> {"free", "snapshot", "replay", "check", "subscribe",
                             "live", "send", "unsubscribe", "done"}]
        /\ pending \in [Rpcs -> Seq(Messages)] /\ pending[s] \in Seq(Messages)
        /\ wire \in [Rpcs -> Seq(Messages)] /\ wire[s] \in Seq(Messages)
        /\ lastOffset \in [Rpcs -> Nat] /\ lastOffset[s] \in Nat /\ after[s] \in Nat
    BY DEF TypeOK, ServiceTypeOK
  <1>0. PICK m : m = Head(pending[s])
    OBVIOUS
  <1>1. /\ pending[s] # <<>> /\ pending'[s] = Tail(pending[s])
        /\ wire'[s] = Append(wire[s], m)
        /\ lastOffset'[s] = Advance(lastOffset[s], m)
        /\ \/ hpc[s] = "send" /\ hpc'[s] = "live"
           \/ hpc[s] = "replay" /\ hpc'[s] = "replay" /\ m.offset > after[s]
        /\ \A r \in Rpcs \ {s} : /\ hpc'[r] = hpc[r] /\ pending'[r] = pending[r]
                                 /\ lastOffset'[r] = lastOffset[r] /\ wire'[r] = wire[r]
        /\ UNCHANGED <<logs, inflight, logCh, href>>
    BY <1>0, <1>t DEF Send, Sending, storeVars
  <1>2. /\ m \in Messages /\ m = pending[s][1] /\ 1 \in 1..Len(pending[s])
        /\ \A i \in 1..Len(Tail(pending[s])) :
             Tail(pending[s])[i] = pending[s][i + 1] /\ i + 1 \in 1..Len(pending[s])
    BY <1>0, <1>1, <1>t, TailFacts
  <1>i. Sourced(s) /\ SendPhase(s)
    BY DEF FlowInv
  <1>3. Follows(m, lastOffset[s])
    <2>1. CASE hpc[s] = "send"
      BY <2>1, <1>2, <1>i DEF SendPhase
    <2>2. CASE hpc[s] = "replay" /\ m.offset > after[s]
      <3>1. IsChunk(m)
        BY <2>2, <1>2, <1>i DEF SendPhase
      <3>2. m.offset > lastOffset[s]
        BY <2>2, <1>2 DEF SafeInv, CallInv, Ordered
      <3>3. QED
        BY <3>1, <3>2 DEF Follows
    <2>3. QED
      BY <2>1, <2>2, <1>1
  <1>4. LogsGrow
    BY <1>1 DEF LogsGrow, TypeOK, StoreTypeOK
  <1>5. Sourced(s)'
    <2>1. \A i \in 1..Len(wire'[s]) : IsChunk(wire'[s][i]) => StoredIn(wire'[s][i], href[s])
      <3>1. \A i \in 1..Len(wire[s]) : IsChunk(wire[s][i]) => StoredIn(wire[s][i], href[s])
        BY <1>i DEF Sourced
      <3>2. IsChunk(m) => StoredIn(m, href[s])
        BY <1>2, <1>i DEF Sourced
      <3>3. \A i \in 1..Len(Append(wire[s], m)) :
              \/ i \in 1..Len(wire[s]) /\ Append(wire[s], m)[i] = wire[s][i]
              \/ Append(wire[s], m)[i] = m
        BY <1>t, <1>2, AppendFacts
      <3>4. QED
        BY <3>1, <3>2, <3>3, <1>1
    <2>2. \A i \in 1..Len(pending'[s]) :
            IsChunk(pending'[s][i]) => StoredIn(pending'[s][i], href[s])
      BY <1>1, <1>2, <1>i DEF Sourced
    <2>3. QED
      BY <2>1, <2>2, <1>1, <1>i DEF Sourced, StoredIn, IsChunk
  <1>6. SendPhase(s)'
    <2>1. ASSUME hpc'[s] = "replay", NEW i \in 1..Len(pending'[s]) PROVE IsChunk(pending'[s][i])
      BY <2>1, <1>1, <1>2, <1>i DEF SendPhase
    <2>2. QED
      BY <2>1, <1>1 DEF SendPhase, IsChunk
  <1>7. ASSUME NEW r \in Rpcs, r # s PROVE Sourced(r)' /\ SendPhase(r)'
    BY <1>1, <1>4, <1>7, FrameSourced DEF FlowInv
  <1>8. ASSUME NEW c \in Clients PROVE ReadsCall(c)' /\ Printed(c)'
    <2>0. /\ ReadsCall(c) /\ Printed(c) /\ crpc[c] \in Rpcs /\ cursor[c] \in Nat
          /\ cref[c] \in Jobs
      BY DEF FlowInv, TypeOK
    <2>1. CASE crpc[c] # s
      BY <2>0, <2>1, <1>1, <1>4, FrameReader
    <2>2. CASE crpc[c] = s
      <3>1. Printed(c)'
        BY <2>0, <1>4, StoredStays DEF Printed, clientVars, Increasing
      <3>2. CASE cpc[c] = "connected"
        <4>1. /\ WireInOrder(wire[s], cursor[c]) /\ WireEndsAt(wire[s], cursor[c], lastOffset[s])
              /\ href[s] = cref[c]
              /\ \A d \in Clients : cpc[d] = "connected" /\ crpc[d] = crpc[c] => d = c
          BY <2>0, <2>2, <3>2 DEF ReadsCall
        <4>2. /\ WireInOrder(wire'[s], cursor[c])
              /\ WireEndsAt(wire'[s], cursor[c], lastOffset'[s])
          BY <4>1, <2>0, <1>1, <1>2, <1>3, <1>t, WireAppend
        <4>3. ReadsCall(c)'
          BY <4>1, <4>2, <2>2, <1>1 DEF ReadsCall, clientVars, WireInOrder, WireEndsAt, IsChunk
        <4>4. QED
          BY <3>1, <4>3
      <3>3. CASE cpc[c] # "connected"
        BY <3>1, <3>3 DEF ReadsCall, clientVars
      <3>4. QED
        BY <3>2, <3>3
    <2>3. QED
      BY <2>1, <2>2
  <1>9. QED
    BY <1>5, <1>6, <1>7, <1>8 DEF FlowInv

-----------------------------------------------------------------------------
(* The clients' steps.                                                     *)

\* What client c does changes nothing for another client d, if it leaves d's
\* call alone.
LEMMA OtherReader ==
    ASSUME TypeOK, TypeOK', FlowInv, LogsGrow, NEW c \in Clients,
           \A e \in Clients \ {c} :
               /\ cpc'[e] = cpc[e] /\ crpc'[e] = crpc[e] /\ cref'[e] = cref[e]
               /\ cursor'[e] = cursor[e] /\ printed'[e] = printed[e],
           NEW d \in Clients \ {c},
           cpc[d] = "connected" =>
               /\ hpc'[crpc[d]] = hpc[crpc[d]] /\ href'[crpc[d]] = href[crpc[d]]
               /\ wire'[crpc[d]] = wire[crpc[d]] /\ lastOffset'[crpc[d]] = lastOffset[crpc[d]]
               /\ cpc'[c] = "connected" => crpc'[c] # crpc[d]
    PROVE  ReadsCall(d)' /\ Printed(d)'
  <1>0. ReadsCall(d) /\ Printed(d) /\ cref[d] \in Jobs /\ crpc[d] \in Rpcs
    BY DEF FlowInv, TypeOK
  <1>1. Printed(d)'
    BY <1>0, StoredStays DEF Printed, Increasing
  <1>2. CASE cpc[d] = "connected"
    <2>1. /\ hpc'[crpc[d]] # "free" /\ href'[crpc[d]] = cref[d]
          /\ wire'[crpc[d]] = wire[crpc[d]] /\ lastOffset'[crpc[d]] = lastOffset[crpc[d]]
      BY <1>0, <1>2 DEF ReadsCall
    <2>2. \A e \in Clients : cpc'[e] = "connected" /\ crpc'[e] = crpc'[d] => e = d
      BY <1>0, <1>2 DEF ReadsCall
    <2>3. /\ WireInOrder(wire[crpc[d]], cursor[d])
          /\ WireEndsAt(wire[crpc[d]], cursor[d], lastOffset[crpc[d]])
      BY <1>0, <1>2 DEF ReadsCall
    <2>4. /\ crpc'[d] = crpc[d] /\ cref'[d] = cref[d]
          /\ wire'[crpc'[d]] = wire[crpc[d]] /\ cursor'[d] = cursor[d]
          /\ lastOffset'[crpc'[d]] = lastOffset[crpc[d]]
          /\ hpc'[crpc'[d]] # "free" /\ href'[crpc'[d]] = cref'[d]
      BY <2>1
    <2>5. WireInOrder(wire[crpc[d]], cursor[d])' /\ WireEndsAt(wire[crpc[d]], cursor[d], lastOffset[crpc[d]])'
      BY <2>3, <2>4 DEF WireInOrder, WireEndsAt, IsChunk
    <2>6. ReadsCall(d)'
      BY <2>2, <2>4, <2>5 DEF ReadsCall
    <2>7. QED
      BY <1>1, <2>6
  <1>3. CASE cpc[d] # "connected"
    BY <1>1, <1>3 DEF ReadsCall
  <1>4. QED
    BY <1>2, <1>3

\* A step of client c that touches at most its own call s.
LEMMA OneClient ==
    ASSUME TypeOK, TypeOK', FlowInv, NEW c \in Clients, NEW s \in Rpcs,
           UNCHANGED <<logs, inflight, logCh, pending>>,
           \A d \in Clients \ {c} :
               /\ cpc'[d] = cpc[d] /\ crpc'[d] = crpc[d] /\ cref'[d] = cref[d]
               /\ cursor'[d] = cursor[d] /\ printed'[d] = printed[d],
           \A d \in Clients \ {c} : cpc[d] = "connected" => crpc[d] # s,
           \A r \in Rpcs \ {s} : /\ wire'[r] = wire[r] /\ hpc'[r] = hpc[r]
                                 /\ href'[r] = href[r] /\ lastOffset'[r] = lastOffset[r],
           cpc'[c] = "connected" => crpc'[c] = s,
           Sourced(s)', SendPhase(s)', ReadsCall(c)', Printed(c)'
    PROVE  FlowInv'
  <1>1. LogsGrow
    BY DEF LogsGrow, TypeOK, StoreTypeOK
  <1>2. ASSUME NEW r \in Rpcs, r # s PROVE Sourced(r)' /\ SendPhase(r)'
    BY <1>1, <1>2, FrameSourced DEF FlowInv
  <1>3. ASSUME NEW d \in Clients \ {c} PROVE ReadsCall(d)' /\ Printed(d)'
    <2>1. crpc[d] \in Rpcs
      BY DEF TypeOK
    <2>2. QED
      BY <2>1, <1>1, OtherReader
  <1>4. QED
    BY <1>2, <1>3 DEF FlowInv

\* A client that dials, or gives up, without touching a call.
LEMMA IdleFlow ==
    ASSUME TypeOK, TypeOK', FlowInv, NEW c \in Clients, UNCHANGED flowVars,
           \A d \in Clients \ {c} :
               /\ cpc'[d] = cpc[d] /\ crpc'[d] = crpc[d] /\ cref'[d] = cref[d]
               /\ cursor'[d] = cursor[d] /\ printed'[d] = printed[d],
           cpc'[c] \in {"dial", "exited"},
           Printed(c)'
    PROVE  FlowInv'
  <1>1. LogsGrow
    BY DEF LogsGrow, TypeOK, StoreTypeOK, flowVars
  <1>2. ASSUME NEW r \in Rpcs PROVE Sourced(r)' /\ SendPhase(r)'
    BY <1>1, FrameSourced DEF FlowInv, flowVars
  <1>3. ASSUME NEW d \in Clients \ {c} PROVE ReadsCall(d)' /\ Printed(d)'
    BY <1>1, OtherReader DEF flowVars
  <1>4. ReadsCall(c)'
    BY DEF ReadsCall
  <1>5. QED
    BY <1>2, <1>3, <1>4 DEF FlowInv

\* Starting, failing to connect, reaching the end, and Ctrl-C while dialling.
LEMMA StartFlow ==
    ASSUME TypeOK, TypeOK', FlowInv, NEW c \in Clients,
           \/ \E j \in Jobs, off \in StartOffsets : StartClient(c, j, off)
           \/ ConnectFails(c) \/ RecvEOF(c)
           \/ Interrupt(c) /\ cpc[c] = "dial"
    PROVE  FlowInv'
  <1>1. /\ UNCHANGED flowVars
        /\ \A d \in Clients \ {c} :
               /\ cpc'[d] = cpc[d] /\ crpc'[d] = crpc[d] /\ cref'[d] = cref[d]
               /\ cursor'[d] = cursor[d] /\ printed'[d] = printed[d]
        /\ cpc'[c] \in {"dial", "exited"}
        /\ printed'[c] = printed[c]
        /\ \/ cpc[c] = "idle"
           \/ cref'[c] = cref[c] /\ cursor'[c] = cursor[c]
    <2>t. /\ cpc \in [Clients -> {"idle", "dial", "connected", "exited"}]
          /\ cref \in [Clients -> Jobs] /\ cursor \in [Clients -> Nat]
      BY DEF TypeOK
    <2>1. CASE \E j \in Jobs, off \in StartOffsets : StartClient(c, j, off)
      BY <2>1, <2>t DEF StartClient, storeVars, handlerVars, flowVars
    <2>2. CASE ConnectFails(c) \/ RecvEOF(c)
      BY <2>2, <2>t DEF ConnectFails, RecvEOF, Exit, storeVars, handlerVars, flowVars
    <2>3. CASE Interrupt(c) /\ cpc[c] = "dial"
      BY <2>3, <2>t DEF Interrupt, Exit, storeVars, handlerVars, flowVars
    <2>4. QED
      BY <2>1, <2>2, <2>3
  <1>2. Printed(c)'
    <2>0. Printed(c)
      BY DEF FlowInv
    <2>1. CASE cpc[c] = "idle"
      <3>1. printed'[c] = <<>>
        BY <2>0, <2>1, <1>1 DEF Printed
      <3>2. QED
        BY <3>1 DEF Printed, Increasing
    <2>2. CASE cref'[c] = cref[c] /\ cursor'[c] = cursor[c]
      BY <2>0, <2>2, <1>1 DEF Printed, Increasing, StoredIn, flowVars
    <2>3. QED
      BY <2>1, <2>2, <1>1
  <1>3. QED
    BY <1>1, <1>2, IdleFlow

\* A torn down call: what was on its wire is lost.
LEMMA TeardownFlow ==
    ASSUME TypeOK, TypeOK', FlowInv, NEW c \in Clients, cpc[c] = "connected",
           StreamInterrupted(c) \/ StreamFails(c) \/ Interrupt(c)
    PROVE  FlowInv'
  <1>0. PICK s \in Rpcs : s = crpc[c]
    BY DEF TypeOK
  <1>t. /\ cpc \in [Clients -> {"idle", "dial", "connected", "exited"}]
        /\ wire \in [Rpcs -> Seq(Messages)]
    BY DEF TypeOK, ServiceTypeOK
  <1>1. /\ UNCHANGED <<logs, inflight, logCh, pending, hpc, href, lastOffset>>
        /\ UNCHANGED <<crpc, cref, cursor, printed>>
        /\ \A d \in Clients \ {c} : cpc'[d] = cpc[d]
        /\ cpc'[c] \in {"dial", "exited"}
        /\ wire'[s] = <<>> /\ \A r \in Rpcs \ {s} : wire'[r] = wire[r]
    <2>1. Teardown(s) /\ UNCHANGED <<crpc, cref, cursor, printed>>
      BY <1>0 DEF StreamInterrupted, StreamFails, Interrupt
    <2>2. (\A d \in Clients \ {c} : cpc'[d] = cpc[d]) /\ cpc'[c] \in {"dial", "exited"}
      BY <1>t DEF StreamInterrupted, StreamFails, Interrupt, Exit
    <2>3. QED
      BY <2>1, <2>2, <1>t DEF Teardown, storeVars
  <1>2. Sourced(s)' /\ SendPhase(s)'
    <2>1. Sourced(s) /\ SendPhase(s)
      BY DEF FlowInv
    <2>2. Sourced(s)'
      BY <2>1, <1>1 DEF Sourced, StoredIn, IsChunk
    <2>3. SendPhase(s)'
      BY <2>1, <1>1 DEF SendPhase, IsChunk, Follows
    <2>4. QED
      BY <2>2, <2>3
  <1>3. \A d \in Clients \ {c} : cpc[d] = "connected" => crpc[d] # s
    BY <1>0 DEF FlowInv, ReadsCall
  <1>4. ReadsCall(c)' /\ Printed(c)'
    <2>1. Printed(c)
      BY DEF FlowInv
    <2>2. QED
      BY <2>1, <1>1 DEF ReadsCall, Printed, Increasing, StoredIn
  <1>5. QED
    BY <1>1, <1>2, <1>3, <1>4, OneClient

\* A new call starts at the client's cursor with nothing on the wire.
LEMMA ConnectFlow ==
    ASSUME TypeOK, TypeOK', SafeInv, FlowInv, NEW c \in Clients, NEW s \in Rpcs, Connect(c, s)
    PROVE  FlowInv'
  <1>t. /\ cpc \in [Clients -> {"idle", "dial", "connected", "exited"}]
        /\ crpc \in [Clients -> Rpcs] /\ cursor[c] \in Nat
        /\ hpc \in [Rpcs -> {"free", "snapshot", "replay", "check", "subscribe",
                             "live", "send", "unsubscribe", "done"}]
        /\ href \in [Rpcs -> Jobs] /\ lastOffset \in [Rpcs -> Nat] /\ href[s] \in Jobs
    BY DEF TypeOK, ServiceTypeOK
  <1>1. /\ hpc[s] = "free" /\ hpc'[s] = "snapshot"
        /\ href'[s] = cref[c] /\ lastOffset'[s] = cursor[c]
        /\ \A r \in Rpcs \ {s} : /\ hpc'[r] = hpc[r] /\ href'[r] = href[r]
                                 /\ lastOffset'[r] = lastOffset[r]
        /\ cpc[c] = "dial" /\ cpc'[c] = "connected" /\ crpc'[c] = s
        /\ \A d \in Clients \ {c} : cpc'[d] = cpc[d] /\ crpc'[d] = crpc[d]
        /\ UNCHANGED <<logs, inflight, logCh, pending, wire, cref, cursor, printed>>
    BY <1>t DEF Connect, StreamJobLogs, storeVars
  <1>2. wire[s] = <<>> /\ inflight[s] = <<>> /\ logCh[s] = <<>> /\ pending[s] = <<>>
    <2>1. wire[s] = <<>>
      BY <1>1 DEF FlowInv, SendPhase
    <2>2. inflight[s] = <<>>
      BY <1>1, <1>t DEF SafeInv, Registered
    <2>3. logCh[s] = <<>> /\ pending[s] = <<>>
      BY <1>1 DEF SafeInv, CallInv, Phase
    <2>4. QED
      BY <2>1, <2>2, <2>3
  <1>3. Sourced(s)' /\ SendPhase(s)'
    BY <1>1, <1>2 DEF Sourced, SendPhase
  <1>4. \A d \in Clients \ {c} : cpc[d] = "connected" => crpc[d] # s
    BY <1>1 DEF FlowInv, ReadsCall
  <1>5. Printed(c)'
    <2>1. Printed(c)
      BY DEF FlowInv
    <2>2. QED
      BY <2>1, <1>1 DEF Printed, Increasing, StoredIn
  <1>6. ReadsCall(c)'
    <2>1. WireInOrder(<<>>, cursor[c]) /\ WireEndsAt(<<>>, cursor[c], cursor[c])
      BY <1>t DEF WireInOrder, WireEndsAt
    <2>2. \A d \in Clients : cpc'[d] = "connected" /\ crpc'[d] = s => d = c
      BY <1>1, <1>4
    <2>3. wire'[s] = <<>>
      BY <1>1, <1>2
    <2>4. QED
      BY <2>1, <2>2, <2>3, <1>1 DEF ReadsCall, WireInOrder, WireEndsAt, IsChunk
  <1>7. QED
    BY <1>1, <1>3, <1>4, <1>5, <1>6, OneClient

\* Receiving moves the cursor with what is printed.
LEMMA RecvFlow ==
    ASSUME TypeOK, TypeOK', FlowInv, NEW c \in Clients, Recv(c)
    PROVE  FlowInv'
  <1>0. PICK s, m : s = crpc[c] /\ m = Head(wire[s])
    OBVIOUS
  <1>t. /\ s \in Rpcs /\ wire \in [Rpcs -> Seq(Messages)] /\ wire[s] \in Seq(Messages)
        /\ cursor \in [Clients -> Nat] /\ cursor[c] \in Nat
        /\ printed \in [Clients -> Seq(Chunks)] /\ printed[c] \in Seq(Chunks)
        /\ lastOffset[s] \in Nat
    BY <1>0 DEF TypeOK, ServiceTypeOK
  <1>1. /\ cpc[c] = "connected" /\ wire[s] # <<>>
        /\ wire'[s] = Tail(wire[s]) /\ \A r \in Rpcs \ {s} : wire'[r] = wire[r]
        /\ cursor'[c] = Advance(cursor[c], m)
        /\ printed'[c] = IF m.offset > cursor[c] /\ IsChunk(m)
                           THEN Append(printed[c], m) ELSE printed[c]
        /\ \A d \in Clients \ {c} : cursor'[d] = cursor[d] /\ printed'[d] = printed[d]
        /\ UNCHANGED <<logs, inflight, logCh, pending, hpc, href, lastOffset, cpc, cref, crpc>>
    BY <1>0, <1>t DEF Recv, storeVars, IsChunk
  <1>i. Sourced(s) /\ SendPhase(s) /\ ReadsCall(c) /\ Printed(c)
    BY <1>t DEF FlowInv
  <1>r. /\ hpc[s] # "free" /\ href[s] = cref[c]
        /\ \A d \in Clients : cpc[d] = "connected" /\ crpc[d] = s => d = c
        /\ WireInOrder(wire[s], cursor[c])
        /\ WireEndsAt(wire[s], cursor[c], lastOffset[s])
    BY <1>0, <1>1, <1>i DEF ReadsCall
  <1>2. /\ Head(wire[s]) = wire[s][1] /\ 1 \in 1..Len(wire[s])
        /\ m \in Messages /\ m.offset \in Nat
        /\ \A i \in 1..Len(Tail(wire[s])) : Tail(wire[s])[i] = wire[s][i + 1] /\ i + 1 \in 1..Len(wire[s])
    BY <1>0, <1>1, <1>t, TailFacts, MessageFacts
  <1>3. /\ WireInOrder(wire'[s], cursor'[c])
        /\ WireEndsAt(wire'[s], cursor'[c], lastOffset[s])
        /\ IF IsChunk(m) THEN m.offset > cursor[c] ELSE m.offset <= cursor[c]
    BY <1>0, <1>1, <1>t, <1>r, WireTail
  <1>4. Sourced(s)' /\ SendPhase(s)'
    <2>1. \A i \in 1..Len(wire'[s]) : IsChunk(wire'[s][i]) => StoredIn(wire'[s][i], href[s])
      BY <1>1, <1>2, <1>i DEF Sourced
    <2>2. Sourced(s)'
      BY <2>1, <1>1, <1>i DEF Sourced, StoredIn, IsChunk
    <2>3. SendPhase(s)'
      BY <1>1, <1>r, <1>i DEF SendPhase, IsChunk, Follows
    <2>4. QED
      BY <2>2, <2>3
  <1>5. ReadsCall(c)'
    <2>1. crpc'[c] = s /\ cref'[c] = cref[c] /\ cpc' = cpc /\ crpc' = crpc
      BY <1>0, <1>1
    <2>2. QED
      BY <2>1, <1>1, <1>3, <1>r DEF ReadsCall, WireInOrder, WireEndsAt, IsChunk
  <1>6. Printed(c)'
    <2>0. /\ Increasing(printed[c])
          /\ \A i \in 1..Len(printed[c]) :
               /\ printed[c][i].offset <= cursor[c] /\ StoredIn(printed[c][i], cref[c])
               /\ printed[c][i].offset \in Nat
      <3>1. \A i \in 1..Len(printed[c]) : printed[c][i].offset \in Nat
        <4>1. \A i \in 1..Len(printed[c]) : printed[c][i] \in Chunks
          BY <1>t
        <4>2. QED
          BY <4>1 DEF Chunks
      <3>2. QED
        BY <3>1, <1>i DEF Printed
    <2>1. CASE IsChunk(m)
      <3>1. m.offset > cursor[c] /\ cursor'[c] = m.offset /\ printed'[c] = Append(printed[c], m)
        BY <2>1, <1>1, <1>2, <1>3, <1>t DEF Advance
      <3>2. StoredIn(m, cref[c])
        BY <2>1, <1>0, <1>2, <1>i, <1>r DEF Sourced
      <3>3. m \in Chunks
        BY <2>1, <1>2 DEF Messages, Chunks, IsChunk
      <3>4. \A i \in 1..Len(printed[c]) : printed[c][i].offset < m.offset
        BY <2>0, <3>1, <1>2, <1>t
      <3>5. /\ \A i \in 1..Len(Append(printed[c], m)) :
                 \/ i \in 1..Len(printed[c]) /\ Append(printed[c], m)[i] = printed[c][i]
                 \/ i = Len(printed[c]) + 1 /\ Append(printed[c], m)[i] = m
            /\ Increasing(Append(printed[c], m))
        BY <2>0, <3>3, <3>4, <1>t, AppendFacts
      <3>6. \A i \in 1..Len(printed'[c]) :
              printed'[c][i].offset <= cursor'[c] /\ StoredIn(printed'[c][i], cref[c])
        BY <3>1, <3>2, <3>4, <3>5, <2>0, <1>2
      <3>7. QED
        BY <3>1, <3>5, <3>6, <1>1 DEF Printed, StoredIn, Increasing
    <2>2. CASE ~IsChunk(m)
      <3>1. cursor'[c] = cursor[c] /\ printed'[c] = printed[c]
        BY <2>2, <1>1, <1>2, <1>3, <1>t DEF Advance
      <3>2. QED
        BY <3>1, <2>0, <1>1 DEF Printed, StoredIn, Increasing
    <2>3. QED
      BY <2>1, <2>2
  <1>7. \A d \in Clients \ {c} : cpc[d] = "connected" => crpc[d] # s
    BY <1>r
  <1>8. QED
    BY <1>0, <1>1, <1>4, <1>5, <1>6, <1>7, <1>t, OneClient

-----------------------------------------------------------------------------
(* FlowInv is an invariant.                                                *)

\* At first nothing is on its way and nothing is printed.
LEMMA FlowInit == Init => FlowInv
  <1> SUFFICES ASSUME Init PROVE FlowInv
    OBVIOUS
  <1> USE DEF Init, StoreInit, ServiceInit
  <1>1. ASSUME NEW s \in Rpcs PROVE Sourced(s) /\ SendPhase(s)
    BY DEF Sourced, SendPhase
  <1>2. ASSUME NEW c \in Clients PROVE ReadsCall(c) /\ Printed(c)
    BY DEF ReadsCall, Printed, Increasing
  <1>3. QED
    BY <1>1, <1>2 DEF FlowInv

\* A step of the dispatch goroutine only appends to the log and to broadcasts.
LEMMA DispatchFlow ==
    ASSUME TypeOK, TypeOK', SafeInv, FlowInv, NEW j \in Jobs, SubmitJob(j) \/ DispatchStep(j),
           UNCHANGED clientVars
    PROVE  FlowInv'
  <1>1. CASE SubmitJob(j) \/ DispatchStart(j) \/ PutFinal(j)
    BY <1>1, FrameFlow DEF SubmitJob, DispatchStart, PutFinal, Put, flowVars, handlerVars
  <1>2. CASE CallWorker(j) \/ CallWorkerFails(j) \/ RecvFails(j)
    BY <1>2, FrameFlow DEF CallWorker, CallWorkerFails, RecvFails, flowVars, handlerVars, storeVars
  <1>3. CASE RecvResponse(j)
    <2>1. Head(rpc[j]) \in Responses
      BY <1>3 DEF RecvResponse, TypeOK, WorkerTypeOK
    <2>2. Head(rpc[j]).logs \in Seq(Lines)
      BY <2>1 DEF Responses
    <2>3. UNCHANGED handlerVars
      BY <1>3 DEF RecvResponse
    <2>4. CASE Head(rpc[j]).logs # <<>>
      BY <1>3, <2>2, <2>3, <2>4, AppendFlow DEF RecvResponse
    <2>5. CASE Head(rpc[j]).logs = <<>>
      BY <1>3, <2>3, <2>5, FrameFlow DEF RecvResponse, storeVars, flowVars, handlerVars
    <2>6. QED
      BY <2>4, <2>5
  <1>4. CASE CloseStreams(j)
    BY <1>4, FrameFlow DEF CloseStreams, CloseLogStreams, flowVars, handlerVars
  <1>5. QED
    BY <1>1, <1>2, <1>3, <1>4 DEF DispatchStep

\* Every step of a client keeps the invariant.
LEMMA ClientFlow ==
    ASSUME TypeOK, TypeOK', SafeInv, FlowInv, NEW c \in Clients, Client(c)
    PROVE  FlowInv'
  <1>1. CASE Interrupt(c)
    <2>1. cpc[c] \in {"dial", "connected"}
      BY <1>1 DEF Interrupt
    <2>2. QED
      BY <1>1, <2>1, StartFlow, TeardownFlow
  <1>2. CASE StreamInterrupted(c) \/ StreamFails(c)
    <2>1. cpc[c] = "connected"
      BY <1>2 DEF StreamInterrupted, StreamFails
    <2>2. QED
      BY <1>2, <2>1, TeardownFlow
  <1>3. QED
    BY <1>1, <1>2, StartFlow, ConnectFlow, RecvFlow DEF Client

\* Every step keeps FlowInv.
LEMMA FlowNext == TypeOK /\ SafeInv /\ FlowInv /\ [Next]_vars => FlowInv'
  <1> SUFFICES ASSUME TypeOK, SafeInv, FlowInv, [Next]_vars PROVE FlowInv'
    OBVIOUS
  <1>0. TypeOK'
    BY TypeNext
  <1>1. ASSUME NEW j \in Jobs, Submit(j) \/ Dispatch(j)
        PROVE  FlowInv'
    BY <1>0, <1>1, DispatchFlow DEF Submit, Dispatch
  <1>2. ASSUME NEW j \in Jobs, Worker(j)
        PROVE  FlowInv'
    BY <1>0, <1>2, FrameFlow DEF Worker, flowVars, storeVars, handlerVars
  <1>3. ASSUME NEW s \in Rpcs, Broadcast(s)
        PROVE  FlowInv'
    BY <1>0, <1>3, BroadcastFlow DEF Broadcast, BroadcastStep
  <1>4. ASSUME NEW s \in Rpcs, Handler(s)
        PROVE  FlowInv'
    BY <1>0, <1>4, SendFlow, HandlerQuiet DEF Handler
  <1>5. ASSUME NEW c \in Clients, Client(c)
        PROVE  FlowInv'
    BY <1>0, <1>5, ClientFlow
  <1>6. CASE UNCHANGED vars
    BY <1>0, <1>6, FrameFlow DEF vars, flowVars, storeVars, handlerVars
  <1>7. QED
    BY <1>1, <1>2, <1>3, <1>4, <1>5, <1>6 DEF Next, Quiescent

\* FlowInv always holds.
LEMMA FlowIsInv == Spec => [](TypeOK /\ SafeInv /\ FlowInv)
  <1>1. Init => TypeOK /\ SafeInv /\ FlowInv
    BY TypeInit, SafeInit, FlowInit
  <1>2. TypeOK /\ SafeInv /\ FlowInv /\ [Next]_vars => (TypeOK /\ SafeInv /\ FlowInv)'
    BY TypeNext, SafeNext, FlowNext
  <1>3. QED
    BY <1>1, <1>2, PTL DEF Spec

(***************************************************************************)
(* What reaches a client is new to it, over all its reconnects: chunks are *)
(* past its cursor, and a heartbeat never carries an offset it has not     *)
(* received the chunk of.                                                  *)
(***************************************************************************)
THEOREM CursorsAreReceived == Spec => []CursorIsReceived
  <1>1. TypeOK /\ SafeInv /\ FlowInv => CursorIsReceived
    BY DEF FlowInv, ReadsCall, WireInOrder, CursorIsReceived
  <1>2. QED
    BY <1>1, FlowIsInv, PTL

(***************************************************************************)
(* However often it reconnects, a client prints chunks of the log it asked *)
(* for, in the order of the log and each at most once.                     *)
(***************************************************************************)
THEOREM PrintsComeFromTheLog == Spec => []PrintedFromLog
  <1>1. TypeOK /\ SafeInv /\ FlowInv => PrintedFromLog
    BY DEF FlowInv, Printed, StoredIn, PrintedFromLog
  <1>2. QED
    BY <1>1, FlowIsInv, PTL

-----------------------------------------------------------------------------
(* A job that succeeded has its whole output stored.                       *)

\* The worker will not collect anything more.
Ended(j) == run[j] \in {"sent", "gone"}

(***************************************************************************)
(* Behind AllOutputStored: the collected lines are those written so far,   *)
(* only the terminal response carries all of them and nothing is collected *)
(* after it, and a succeeded job got as far as storing it.                 *)
(***************************************************************************)
OutputInv(j) ==
    /\ WholeOutput(j)
    /\ dpc[j] \in {"none", "start", "call"} => run[j] = "idle" /\ rpc[j] = <<>>
    /\ \A i \in 1..Len(rpc[j]) : rpc[j][i].terminal => rpc[j][i].logs = chunks[j] /\ Ended(j)
    /\ dpc[j] = "put" /\ result[j].state = "succeeded" => StoredOutput(j) /\ Ended(j)
    /\ dpc[j] \in {"close", "done"} /\ jobs[j].state = "succeeded" => StoredOutput(j) /\ Ended(j)

AllOutput == \A j \in Jobs : OutputInv(j)

\* The variables OutputInv speaks of.
jobVars == <<jobs, logs, dpc, result, run, pos, chunks, rpc>>

\* A step that changes neither what was collected nor what was sent.
LEMMA WorkerIdle ==
    ASSUME NEW j \in Jobs, OutputInv(j),
           pos'[j] = pos[j], chunks'[j] = chunks[j], logs'[j] = logs[j], rpc'[j] = rpc[j]
    PROVE  WholeOutput(j)' /\ (StoredOutput(j) => StoredOutput(j)')
  BY DEF OutputInv, WholeOutput, StoredOutput

\* A step of one job's dispatch or worker concerns that job only.
LEMMA OneJob ==
    ASSUME AllOutput, NEW j \in Jobs, OutputInv(j)',
           \A k \in Jobs \ {j} :
               /\ jobs'[k] = jobs[k] /\ logs'[k] = logs[k] /\ dpc'[k] = dpc[k]
               /\ result'[k] = result[k] /\ run'[k] = run[k] /\ pos'[k] = pos[k]
               /\ chunks'[k] = chunks[k] /\ rpc'[k] = rpc[k]
    PROVE  AllOutput'
  <1>1. ASSUME NEW k \in Jobs, k # j PROVE OutputInv(k)'
    <2>1. OutputInv(k)
      BY DEF AllOutput
    <2>2. /\ jobs'[k] = jobs[k] /\ logs'[k] = logs[k] /\ dpc'[k] = dpc[k]
          /\ result'[k] = result[k] /\ run'[k] = run[k] /\ pos'[k] = pos[k]
          /\ chunks'[k] = chunks[k] /\ rpc'[k] = rpc[k]
      BY <1>1
    <2>3. WholeOutput(k)'
      BY <2>1, <2>2, WorkerIdle
    <2>4. (StoredOutput(k) => StoredOutput(k)') /\ (Ended(k) => Ended(k)')
      BY <2>2 DEF StoredOutput, Ended
    <2>5. QED
      BY <2>1, <2>2, <2>3, <2>4 DEF OutputInv
  <1>2. QED
    BY <1>1 DEF AllOutput

\* The dispatch goroutine stores what it receives, and takes the response to End last.
LEMMA DispatchOutput ==
    ASSUME TypeOK, DispatchInv, AllOutput, NEW j \in Jobs, SubmitJob(j) \/ DispatchStep(j)
    PROVE  AllOutput'
  <1>t. /\ dpc \in [Jobs -> {"none", "start", "call", "recv", "put", "close", "done"}]
        /\ result \in [Jobs -> Snapshots] /\ jobs \in [Jobs -> Snapshots]
        /\ rpc \in [Jobs -> Seq(Responses)] /\ logs \in [Jobs -> Seq(Chunks)]
        /\ run \in [Jobs -> {"idle", "prepare", "exec", "sent", "gone"}]
        /\ logs[j] \in Seq(Chunks)
    BY DEF TypeOK, StoreTypeOK, WorkerTypeOK, ServiceTypeOK
  <1>i. OutputInv(j) /\ JobInv(j)
    BY DEF AllOutput, DispatchInv
  <1>1. CASE SubmitJob(j) \/ DispatchStart(j)
    <2>1. /\ dpc[j] \in {"none", "start"} /\ dpc'[j] \in {"start", "call"}
          /\ UNCHANGED <<logs, result, run, pos, chunks, rpc>>
          /\ \A k \in Jobs \ {j} : jobs'[k] = jobs[k] /\ dpc'[k] = dpc[k]
      BY <1>1, <1>t DEF SubmitJob, DispatchStart, Put, workerVars
    <2>2. OutputInv(j)'
      BY <2>1, <1>i, WorkerIdle DEF OutputInv, Ended
    <2>3. QED
      BY <2>1, <2>2, OneJob
  <1>2. CASE CallWorker(j)
    <2>1. /\ dpc[j] = "call" /\ dpc'[j] = "recv"
          /\ UNCHANGED <<jobs, logs, result, pos, chunks, rpc>>
          /\ \A k \in Jobs \ {j} : run'[k] = run[k] /\ dpc'[k] = dpc[k]
      BY <1>2, <1>t DEF CallWorker, WorkerAccept, storeVars
    <2>2. rpc[j] = <<>>
      BY <2>1, <1>i DEF OutputInv
    <2>3. OutputInv(j)'
      BY <2>1, <2>2, <1>i, WorkerIdle DEF OutputInv, Ended
    <2>4. QED
      BY <2>1, <2>3, OneJob
  <1>3. CASE CallWorkerFails(j) \/ RecvFails(j)
    <2>1. /\ dpc[j] \in {"call", "recv"} /\ dpc'[j] = "put" /\ result'[j].state = "failed"
          /\ UNCHANGED <<jobs, logs, run, pos, chunks, rpc>>
          /\ \A k \in Jobs \ {j} : result'[k] = result[k] /\ dpc'[k] = dpc[k]
      BY <1>3, <1>t DEF CallWorkerFails, RecvFails, FailWith, storeVars, workerVars, Snapshots
    <2>2. OutputInv(j)'
      BY <2>1, <1>i, WorkerIdle DEF OutputInv, Ended
    <2>3. QED
      BY <2>1, <2>2, OneJob
  <1>4. CASE RecvResponse(j)
    <2>0. PICK q, m : q = rpc[j] /\ m = Head(q)
      OBVIOUS
    <2>1. /\ dpc[j] = "recv" /\ q # <<>> /\ q \in Seq(Responses)
          /\ rpc'[j] = Tail(q) /\ UNCHANGED <<jobs, run, pos, chunks>>
          /\ IF m.terminal
               THEN dpc'[j] = "put" /\ result'[j] = m.result
               ELSE dpc' = dpc /\ result' = result
          /\ \/ m.logs = <<>> /\ logs' = logs
             \/ m.logs # <<>> /\ logs'[j] = logs[j] \o Stamped(j, m.logs)
          /\ \A k \in Jobs \ {j} : /\ rpc'[k] = rpc[k] /\ dpc'[k] = dpc[k]
                                   /\ result'[k] = result[k] /\ logs'[k] = logs[k]
      BY <1>4, <2>0, <1>t DEF RecvResponse, AppendLogs, storeVars, dispatchVars
    <2>2. /\ m = q[1] /\ 1 \in 1..Len(q) /\ m \in Responses
          /\ \A i \in 1..Len(Tail(q)) : Tail(q)[i] = q[i + 1] /\ i + 1 \in 1..Len(q)
      BY <2>0, <2>1
    <2>3. m.logs \in Seq(Lines) /\ Len(m.logs) \in Nat
      BY <2>2 DEF Responses
    <2>4. m.terminal => m.logs = chunks[j] /\ Ended(j)
      BY <2>0, <2>2, <1>i DEF OutputInv
    <2>5. ASSUME m.terminal PROVE StoredOutput(j)'
      <3>1. m.logs = chunks'[j]
        BY <2>1, <2>4, <2>5
      <3>2. CASE m.logs = <<>> /\ logs' = logs
        <4>1. Len(chunks'[j]) = 0 /\ Len(logs'[j]) \in Nat
          BY <3>1, <3>2, <1>t
        <4>2. QED
          BY <4>1 DEF StoredOutput
      <3>3. CASE logs'[j] = logs[j] \o Stamped(j, m.logs)
        <4>1. PICK st : st = Stamped(j, m.logs)
          OBVIOUS
        <4>2. /\ st \in Seq(Chunks) /\ Len(st) = Len(m.logs)
              /\ \A i \in 1..Len(m.logs) : st[i] = [offset |-> logOffsets[j] + i, line |-> m.logs[i]]
          BY <2>3, <4>1, StampedType DEF TypeOK
        <4>a. logs'[j] = logs[j] \o st
          BY <3>3, <4>1
        <4>b. st \in Seq(Chunks)
          BY <4>2
        <4>3. /\ Len(logs[j]) \in Nat /\ Len(logs'[j]) = Len(logs[j]) + Len(st)
              /\ \A i \in 1..Len(st) : logs'[j][Len(logs[j]) + i] = st[i]
          BY <4>a, <4>b, <1>t
        <4>4. ASSUME NEW i \in 1..Len(m.logs) PROVE st[i].line = m.logs[i]
          <5>1. st[i] = [offset |-> logOffsets[j] + i, line |-> m.logs[i]]
            BY <4>2
          <5>2. QED
            BY <5>1
        <4>5. Len(logs'[j]) - Len(m.logs) = Len(logs[j])
          BY <4>2, <4>3, <2>3
        <4>6. \A i \in 1..Len(m.logs) : logs'[j][Len(logs[j]) + i].line = m.logs[i]
          BY <4>2, <4>3, <4>4
        <4>c. Len(chunks'[j]) = Len(m.logs)
          BY <3>1
        <4>d. Len(logs[j]) >= 0
          BY <4>3
        <4>7. Len(logs'[j]) - Len(chunks'[j]) = Len(logs[j]) /\ Len(logs[j]) >= 0
          BY <4>5, <4>c, <4>d
        <4>8. \A i \in 1..Len(chunks'[j]) : logs'[j][Len(logs[j]) + i].line = chunks'[j][i]
          BY <3>1, <4>6
        <4>9. QED
          BY <4>7, <4>8 DEF StoredOutput
      <3>4. QED
        BY <3>2, <3>3, <2>1
    <2>6. WholeOutput(j)'
      BY <2>1, <1>i DEF OutputInv, WholeOutput
    <2>7. \A i \in 1..Len(rpc'[j]) :
            rpc'[j][i].terminal => rpc'[j][i].logs = chunks'[j] /\ run'[j] \in {"sent", "gone"}
      BY <2>0, <2>1, <2>2, <1>i DEF OutputInv, Ended
    <2>8. OutputInv(j)'
      <3>1. CASE m.terminal
        BY <3>1, <2>1, <2>4, <2>5, <2>6, <2>7 DEF OutputInv, Ended
      <3>2. CASE ~m.terminal
        BY <3>2, <2>1, <2>6, <2>7 DEF OutputInv, Ended
      <3>3. QED
        BY <3>1, <3>2
    <2>9. QED
      BY <2>1, <2>8, OneJob
  <1>5. CASE PutFinal(j)
    <2>1. /\ dpc[j] = "put" /\ dpc'[j] = "close" /\ jobs'[j] = result[j]
          /\ UNCHANGED <<logs, result, run, pos, chunks, rpc>>
          /\ \A k \in Jobs \ {j} : jobs'[k] = jobs[k] /\ dpc'[k] = dpc[k]
      BY <1>5, <1>t DEF PutFinal, Put, workerVars
    <2>2. OutputInv(j)'
      BY <2>1, <1>i, WorkerIdle DEF OutputInv, Ended
    <2>3. QED
      BY <2>1, <2>2, OneJob
  <1>6. CASE CloseStreams(j)
    <2>1. /\ dpc[j] = "close" /\ dpc'[j] = "done"
          /\ UNCHANGED <<jobs, logs, result, run, pos, chunks, rpc>>
          /\ \A k \in Jobs \ {j} : dpc'[k] = dpc[k]
      BY <1>6, <1>t DEF CloseStreams, CloseLogStreams, workerVars
    <2>2. OutputInv(j)'
      BY <2>1, <1>i, WorkerIdle DEF OutputInv, Ended
    <2>3. QED
      BY <2>1, <2>2, OneJob
  <1>7. QED
    BY <1>1, <1>2, <1>3, <1>4, <1>5, <1>6 DEF DispatchStep

\* Collecting a line keeps the collected output whole.
LEMMA CollectWhole ==
    ASSUME WorkerTypeOK, NEW j \in Jobs, NEW fd \in Fds, WholeOutput(j), CollectLine(j, fd)
    PROVE  WholeOutput(j)'
  <1>t. /\ pos \in [Jobs -> [Fds -> Nat]] /\ chunks[j] \in Seq(Lines)
        /\ chunks \in [Jobs -> Seq(Lines)]
        /\ \A e \in Fds : pos[j][e] \in Nat
    BY DEF WorkerTypeOK
  <1>0. PICK out, n : out = chunks[j] /\ n = pos[j][fd]
    OBVIOUS
  <1>1. /\ out \in Seq(Lines) /\ n \in Nat /\ Len(out) \in Nat
        /\ chunks'[j] = Append(out, <<fd, n + 1>>)
        /\ pos'[j][fd] = n + 1
        /\ \A e \in Fds : e # fd => pos'[j][e] = pos[j][e]
    BY <1>0, <1>t DEF CollectLine
  <1>2. /\ Len(chunks'[j]) = Len(out) + 1
        /\ \A a \in 1..Len(out) : chunks'[j][a] = out[a] /\ out[a] \in Lines
        /\ chunks'[j][Len(out) + 1] = <<fd, n + 1>>
    BY <1>1
  <1>w. /\ \A e \in Fds : \A i \in 1..pos[j][e] : \E a \in 1..Len(out) : out[a] = <<e, i>>
        /\ \A a \in 1..Len(out) : out[a][2] \in 1..pos[j][out[a][1]]
        /\ \A a, b \in 1..Len(out) : a < b /\ out[a][1] = out[b][1] => out[a][2] < out[b][2]
    BY <1>0 DEF WholeOutput
  <1>l. \A a \in 1..Len(out) : out[a][1] \in Fds /\ out[a][2] \in Nat
    BY <1>2 DEF Lines
  <1>3. ASSUME NEW e \in Fds, NEW i \in 1..pos'[j][e]
        PROVE  \E a \in 1..Len(chunks'[j]) : chunks'[j][a] = <<e, i>>
    <2>1. CASE i \in 1..pos[j][e]
      <3>1. PICK a \in 1..Len(out) : out[a] = <<e, i>>
        BY <2>1, <1>w
      <3>2. a \in 1..Len(chunks'[j]) /\ chunks'[j][a] = <<e, i>>
        BY <3>1, <1>1, <1>2
      <3>3. QED
        BY <3>2
    <2>2. CASE i \notin 1..pos[j][e]
      <3>1. e = fd /\ i = n + 1
        BY <2>2, <1>0, <1>1, <1>t
      <3>2. Len(out) + 1 \in 1..Len(chunks'[j])
        BY <1>1, <1>2
      <3>3. QED
        BY <3>1, <3>2, <1>2
    <2>3. QED
      BY <2>1, <2>2
  <1>4. ASSUME NEW a \in 1..Len(chunks'[j])
        PROVE  chunks'[j][a][2] \in 1..pos'[j][chunks'[j][a][1]]
    <2>1. CASE a \in 1..Len(out)
      <3>1. out[a][2] \in 1..pos[j][out[a][1]]
        BY <2>1, <1>w
      <3>2. pos[j][out[a][1]] \in Nat /\ pos'[j][out[a][1]] \in {pos[j][out[a][1]], pos[j][out[a][1]] + 1}
        BY <2>1, <1>0, <1>1, <1>l, <1>t
      <3>3. out[a][2] \in 1..pos'[j][out[a][1]]
        BY <3>1, <3>2
      <3>4. QED
        BY <2>1, <3>3, <1>2
    <2>2. CASE a = Len(out) + 1
      <3>1. chunks'[j][a][1] = fd /\ chunks'[j][a][2] = n + 1
        BY <2>2, <1>2
      <3>2. QED
        BY <3>1, <1>1
    <2>3. QED
      BY <2>1, <2>2, <1>1, <1>2
  <1>5. ASSUME NEW a \in 1..Len(chunks'[j]), NEW b \in 1..Len(chunks'[j]),
               a < b, chunks'[j][a][1] = chunks'[j][b][1]
        PROVE  chunks'[j][a][2] < chunks'[j][b][2]
    <2>1. a \in 1..Len(out) /\ chunks'[j][a] = out[a]
      BY <1>5, <1>1, <1>2
    <2>2. CASE b \in 1..Len(out)
      BY <2>1, <2>2, <1>2, <1>5, <1>w
    <2>3. CASE b = Len(out) + 1
      <3>1. chunks'[j][b][1] = fd /\ chunks'[j][b][2] = n + 1
        BY <2>3, <1>2
      <3>2. out[a][2] \in 1..n
        BY <2>1, <3>1, <1>0, <1>5, <1>w
      <3>3. QED
        BY <2>1, <3>1, <3>2, <1>1
    <2>4. QED
      BY <2>2, <2>3, <1>1, <1>2
  <1>6. QED
    BY <1>3, <1>4, <1>5 DEF WholeOutput

\* The worker collects each line once and sends all of them with its last response.
LEMMA WorkerOutput ==
    ASSUME TypeOK, AllOutput, NEW j \in Jobs, WorkerStep(j),
           UNCHANGED <<jobs, logs, dpc, result>>
    PROVE  AllOutput'
  <1>t. /\ rpc \in [Jobs -> Seq(Responses)] /\ rpc[j] \in Seq(Responses)
        /\ run \in [Jobs -> {"idle", "prepare", "exec", "sent", "gone"}]
        /\ pos \in [Jobs -> [Fds -> Nat]] /\ chunks \in [Jobs -> Seq(Lines)]
    BY DEF TypeOK, WorkerTypeOK
  <1>i. OutputInv(j)
    BY DEF AllOutput
  <1>b. dpc[j] \notin {"none", "start", "call"}
    BY <1>i DEF OutputInv, WorkerStep, StartProcess, RejectAssignment, CollectLine, ForwardLine,
                CollectorEOF, SendTerminal, WorkerStreamBreaks
  <1>0. ASSUME UNCHANGED <<pos, chunks>>, Ended(j) => Ended(j)',
               \A k \in Jobs \ {j} : run'[k] = run[k] /\ rpc'[k] = rpc[k],
               \A i \in 1..Len(rpc'[j]) :
                   rpc'[j][i].terminal => rpc'[j][i].logs = chunks[j] /\ Ended(j)'
        PROVE  AllOutput'
    <2>1. WholeOutput(j)' /\ (StoredOutput(j) => StoredOutput(j)')
      BY <1>0, <1>i DEF OutputInv, WholeOutput, StoredOutput
    <2>2. OutputInv(j)'
      BY <2>1, <1>0, <1>b, <1>i DEF OutputInv
    <2>3. QED
      BY <2>2, <1>0, OneJob
  <1>1. CASE StartProcess(j) \/ RejectAssignment(j)
    <2>1. /\ run[j] = "prepare" /\ UNCHANGED <<pos, chunks, rpc>>
          /\ \A k \in Jobs \ {j} : run'[k] = run[k]
      BY <1>1, <1>t DEF StartProcess, RejectAssignment
    <2>2. QED
      BY <2>1, <1>0, <1>i DEF OutputInv, Ended
  <1>2. ASSUME NEW fd \in Fds, CollectLine(j, fd)
        PROVE  AllOutput'
    <2>1. /\ run[j] = "exec" /\ UNCHANGED <<run, rpc>>
          /\ \A k \in Jobs \ {j} : pos'[k] = pos[k] /\ chunks'[k] = chunks[k]
      BY <1>2, <1>t DEF CollectLine
    <2>2. ~Ended(j)
      BY <2>1 DEF Ended
    <2>3. WholeOutput(j)'
      BY <1>2, <1>i, CollectWhole DEF OutputInv, TypeOK
    <2>4. OutputInv(j)'
      BY <2>1, <2>2, <2>3, <1>b, <1>i DEF OutputInv
    <2>5. QED
      BY <2>1, <2>4, OneJob
  <1>3. ASSUME NEW fd \in Fds, CollectorEOF(j, fd)
        PROVE  AllOutput'
    <2>1. UNCHANGED <<pos, chunks, rpc, run>>
      BY <1>3 DEF CollectorEOF
    <2>2. QED
      BY <2>1, <1>0, <1>i DEF OutputInv, Ended
  <1>4. ASSUME NEW fd \in Fds, ForwardLine(j, fd)
        PROVE  AllOutput'
    <2>1. PICK m : m = [logs |-> << <<fd, pos[j][fd]>> >>, terminal |-> FALSE, result |-> NoResult]
      OBVIOUS
    <2>2. /\ ~m.terminal /\ UNCHANGED <<pos, chunks, run>>
          /\ rpc'[j] = Append(rpc[j], m)
          /\ \A k \in Jobs \ {j} : rpc'[k] = rpc[k]
      BY <2>1, <1>4, <1>t DEF ForwardLine
    <2>3. \A i \in 1..Len(Append(rpc[j], m)) :
            \/ i \in 1..Len(rpc[j]) /\ Append(rpc[j], m)[i] = rpc[j][i]
            \/ Append(rpc[j], m)[i] = m
      BY <1>t
    <2>4. QED
      BY <2>2, <2>3, <1>0, <1>i DEF OutputInv, Ended
  <1>5. ASSUME NEW code \in ExitCodes, SendTerminal(j, code)
        PROVE  AllOutput'
    <2>1. PICK m : m = [logs |-> chunks[j], terminal |-> TRUE,
                        result |-> [state |-> finalizeState(code), exitCode |-> code]]
      OBVIOUS
    <2>2. /\ m.logs = chunks[j] /\ UNCHANGED <<pos, chunks>>
          /\ rpc'[j] = Append(rpc[j], m) /\ run'[j] = "sent"
          /\ \A k \in Jobs \ {j} : rpc'[k] = rpc[k] /\ run'[k] = run[k]
      BY <2>1, <1>5, <1>t DEF SendTerminal
    <2>3. \A i \in 1..Len(Append(rpc[j], m)) :
            \/ i \in 1..Len(rpc[j]) /\ Append(rpc[j], m)[i] = rpc[j][i]
            \/ Append(rpc[j], m)[i] = m
      BY <1>t
    <2>4. QED
      BY <2>2, <2>3, <1>0, <1>i DEF OutputInv, Ended
  <1>6. CASE WorkerStreamBreaks(j)
    <2>1. PICK n \in 0..Len(rpc[j]) : rpc'[j] = SubSeq(rpc[j], 1, n)
      BY <1>6, <1>t DEF WorkerStreamBreaks
    <2>2. \A i \in 1..Len(SubSeq(rpc[j], 1, n)) :
            i \in 1..Len(rpc[j]) /\ SubSeq(rpc[j], 1, n)[i] = rpc[j][i]
      BY <1>t
    <2>3. /\ UNCHANGED <<pos, chunks>> /\ run'[j] = "gone"
          /\ \A k \in Jobs \ {j} : rpc'[k] = rpc[k] /\ run'[k] = run[k]
      BY <1>6, <1>t DEF WorkerStreamBreaks
    <2>4. QED
      BY <2>1, <2>2, <2>3, <1>0, <1>i DEF OutputInv, Ended
  <1>7. QED
    BY <1>1, <1>2, <1>3, <1>4, <1>5, <1>6 DEF WorkerStep

\* Broadcasts, handlers and clients leave jobs and workers alone.
LEMMA BystanderFrame ==
    ASSUME \/ \E s \in Rpcs : BroadcastStep(s) \/ HandlerStep(s)
           \/ \E c \in Clients : Client(c)
    PROVE  UNCHANGED <<jobVars, col>>
  <1> USE DEF workerVars, dispatchVars, storeVars, jobVars
  <1>1. ASSUME NEW s \in Rpcs, BroadcastStep(s) PROVE UNCHANGED <<jobVars, col>>
    BY <1>1 DEF BroadcastStep, BroadcastOne
  <1>2. ASSUME NEW s \in Rpcs, HandlerStep(s) PROVE UNCHANGED <<jobVars, col>>
    <2>1. UNCHANGED <<workerVars, dispatchVars>>
      BY <1>2 DEF HandlerStep, SnapshotLogs, SkipStored, Send, SendFails, ReplayDone, CheckState,
                  ChannelClosed, HeartbeatTick, ContextDone, Subscribe, ReceiveChunk, Unsubscribe
    <2>2. QED
      BY <2>1, <1>2, HandlerFrame
  <1>3. ASSUME NEW c \in Clients, Client(c) PROVE UNCHANGED <<jobVars, col>>
    <2>1. UNCHANGED <<workerVars, dispatchVars>>
      <3>1. CASE \E s \in Rpcs : Connect(c, s)
        BY <3>1 DEF Connect, StreamJobLogs
      <3>2. CASE \E j \in Jobs, off \in StartOffsets : StartClient(c, j, off)
        BY <3>2 DEF StartClient
      <3>3. CASE ConnectFails(c) \/ Recv(c) \/ RecvEOF(c)
        BY <3>3 DEF ConnectFails, Recv, RecvEOF
      <3>4. CASE StreamInterrupted(c) \/ StreamFails(c) \/ Interrupt(c)
        BY <3>4 DEF StreamInterrupted, StreamFails, Interrupt, Teardown
      <3>5. QED
        BY <1>3, <3>1, <3>2, <3>3, <3>4 DEF Client
    <2>2. QED
      BY <2>1, <1>3, ClientFrame
  <1>4. QED
    BY <1>1, <1>2, <1>3

\* At first nothing is written, collected or stored.
LEMMA OutputInit == Init => AllOutput
  BY DEF Init, StoreInit, WorkerInit, ServiceInit, AllOutput, OutputInv, WholeOutput

\* Every step keeps AllOutput.
LEMMA OutputNext == TypeOK /\ DispatchInv /\ AllOutput /\ [Next]_vars => AllOutput'
  <1> SUFFICES ASSUME TypeOK, DispatchInv, AllOutput, [Next]_vars PROVE AllOutput'
    OBVIOUS
  <1>0. ASSUME UNCHANGED jobVars PROVE AllOutput'
    BY <1>0, ZenonT(60) DEF jobVars, AllOutput, OutputInv, WholeOutput, StoredOutput, Ended
  <1>1. ASSUME NEW j \in Jobs, Submit(j) \/ Dispatch(j)
        PROVE  AllOutput'
    BY <1>1, DispatchOutput DEF Submit, Dispatch
  <1>2. ASSUME NEW j \in Jobs, Worker(j)
        PROVE  AllOutput'
    BY <1>2, WorkerOutput DEF Worker, storeVars, dispatchVars
  <1>3. CASE \/ \E s \in Rpcs : Broadcast(s) \/ Handler(s)
             \/ \E c \in Clients : Client(c)
    BY <1>3, <1>0, BystanderFrame DEF Broadcast, Handler
  <1>4. CASE UNCHANGED vars
    BY <1>4, <1>0 DEF vars, jobVars, storeVars, workerVars, dispatchVars
  <1>5. QED
    BY <1>1, <1>2, <1>3, <1>4 DEF Next, Quiescent

(***************************************************************************)
(* However the two collectors' lines interleave, and whenever the worker's *)
(* stream breaks, a job is reported as succeeded only with every line its  *)
(* process wrote stored, in order, at the end of its log.                  *)
(***************************************************************************)
THEOREM SucceededJobsHaveAllOutput == Spec => []AllOutputStored
  <1>1. Init => TypeOK /\ DispatchInv /\ AllOutput
    BY TypeInit, DispatchInvInit, OutputInit
  <1>2. TypeOK /\ DispatchInv /\ AllOutput /\ [Next]_vars => (TypeOK /\ DispatchInv /\ AllOutput)'
    BY TypeNext, DispatchInvNext, OutputNext
  <1>3. TypeOK /\ DispatchInv /\ AllOutput => AllOutputStored
    <2> SUFFICES ASSUME TypeOK, DispatchInv, AllOutput, NEW j \in Jobs, jobs[j].state = "succeeded"
                 PROVE  StoredOutput(j) /\ WholeOutput(j)
      BY DEF AllOutputStored
    <2>1. OutputInv(j) /\ JobInv(j) /\ dpc[j] \in {"none", "start", "call", "recv", "put", "close", "done"}
      BY DEF AllOutput, DispatchInv, TypeOK, ServiceTypeOK
    <2>2. dpc[j] \in {"close", "done"}
      BY <2>1 DEF JobInv
    <2>3. QED
      BY <2>1, <2>2 DEF OutputInv
  <1>4. QED
    BY <1>1, <1>2, <1>3, PTL DEF Spec

-----------------------------------------------------------------------------
(* What a subscriber misses: NoLiveGap and EarlyTailIsComplete.            *)

\* A broadcast finds room in the channel of every subscriber.
NoOverflow == \A s \in Rpcs : inflight[s] # <<>> => Len(logCh[s]) < ChanCap

\* Message m waits to be sent by call s.
Holds(s, m) ==
    \/ \E i \in 1..Len(pending[s]) : pending[s][i] = m
    \/ \E i \in 1..Len(logCh[s]) : logCh[s][i] = m
    \/ \E i \in 1..Len(inflight[s]) : inflight[s][i] = m

Subscribing(s) == hpc[s] \in {"free", "snapshot", "replay", "check", "subscribe"}

\* A subscribed call holds every chunk that was appended since it subscribed
\* and that it has not sent, and no older one.
HoldsRest(s) ==
    /\ s \in logSubs[href[s]] \/ dpc[href[s]] = "done"
    /\ \A i \in 1..Len(logCh[s]) : logCh[s][i].offset > subAt[s]
    /\ \A i \in 1..Len(inflight[s]) : inflight[s][i].offset > subAt[s]
    /\ \A i \in 1..Len(pending[s]) : IsChunk(pending[s][i]) => pending[s][i].offset > subAt[s]
    /\ \A n \in 1..Len(logs[href[s]]) :
         n > lastOffset[s] /\ n > subAt[s] => Holds(s, logs[href[s]][n])

\* A call that ended because its channel was closed has sent the rest.
SentRest(s) ==
    /\ dpc[href[s]] = "done"
    /\ Len(logs[href[s]]) <= lastOffset[s] \/ Len(logs[href[s]]) <= subAt[s]

GapInv(s) ==
    /\ after[s] <= lastOffset[s]
    /\ Subscribing(s) => subAt[s] = -1
    /\ subAt[s] <= logOffsets[href[s]]
    /\ hpc[s] \in {"live", "send"} => HoldsRest(s)
    /\ hpc[s] \in {"unsubscribe", "done"} /\ hret[s] = "nil" /\ subAt[s] >= 0 => SentRest(s)

NoGapInv == \A s \in Rpcs : GapInv(s)

\* A step that leaves a call and the log it follows alone.
LEMMA FrameGap ==
    ASSUME NEW s \in Rpcs, GapInv(s),
           pending'[s] = pending[s], logCh'[s] = logCh[s], inflight'[s] = inflight[s],
           hpc'[s] = hpc[s], hret'[s] = hret[s], href'[s] = href[s], after'[s] = after[s],
           lastOffset'[s] = lastOffset[s], subAt'[s] = subAt[s],
           logs'[href[s]] = logs[href[s]], logOffsets'[href[s]] = logOffsets[href[s]],
           dpc[href[s]] = "done" => dpc'[href[s]] = "done",
           s \in logSubs[href[s]] => s \in logSubs'[href[s]] \/ dpc'[href[s]] = "done"
    PROVE  GapInv(s)'
  <1>1. HoldsRest(s) => HoldsRest(s)'
    BY DEF HoldsRest, Holds, IsChunk
  <1>2. SentRest(s) => SentRest(s)'
    BY DEF SentRest
  <1>3. QED
    BY <1>1, <1>2 DEF GapInv, Subscribing

\* The variables NoGapInv speaks of.
gapVars == <<logs, logOffsets, logSubs, logCh, inflight, dpc,
             hpc, href, after, lastOffset, pending, hret, subAt>>

\* A step of dispatch that neither appends nor goes back from "done".
LEMMA DispatchGap ==
    ASSUME TypeOK, NoGapInv, NEW j \in Jobs, \A k \in Jobs \ {j} : dpc'[k] = dpc[k],
           dpc[j] # "done" \/ dpc'[j] = "done",
           UNCHANGED <<logs, logOffsets, logCh, inflight, handlerVars>>,
           \/ logSubs' = logSubs
           \/ logSubs' = [logSubs EXCEPT ![j] = {}] /\ dpc'[j] = "done"
    PROVE  NoGapInv'
  <1>1. ASSUME NEW s \in Rpcs PROVE GapInv(s)'
    <2>1. href[s] \in Jobs /\ logSubs \in [Jobs -> SUBSET Rpcs]
      BY DEF TypeOK, ServiceTypeOK, StoreTypeOK
    <2>2. dpc[href[s]] = "done" => dpc'[href[s]] = "done"
      BY <2>1
    <2>3. s \in logSubs[href[s]] => s \in logSubs'[href[s]] \/ dpc'[href[s]] = "done"
      BY <2>1
    <2>4. GapInv(s)
      BY DEF NoGapInv
    <2>5. QED
      BY <2>2, <2>3, <2>4, FrameGap DEF handlerVars
  <1>2. QED
    BY <1>1 DEF NoGapInv

\* What is appended is offered to every subscriber, and only a subscriber or a
\* call that has been closed is live.
LEMMA AppendGap ==
    ASSUME TypeOK, TypeOK', SafeInv, NoGapInv, NEW j \in Jobs, NEW ls \in Seq(Lines),
           AppendLogs(j, ls), dpc[j] = "recv", \A k \in Jobs \ {j} : dpc'[k] = dpc[k],
           UNCHANGED handlerVars
    PROVE  NoGapInv'
  <1>t. /\ logs \in [Jobs -> Seq(Chunks)] /\ logOffsets \in [Jobs -> Nat]
        /\ logOffsets[j] \in Nat /\ Len(logs[j]) \in Nat
        /\ logs[j] \in Seq(Chunks) /\ Len(ls) \in Nat
    BY DEF TypeOK, StoreTypeOK
  <1>s. PICK st : st = Stamped(j, ls)
    OBVIOUS
  <1>1. /\ st \in Seq(Chunks) /\ Len(st) = Len(ls)
        /\ \A i \in 1..Len(ls) : st[i] = [offset |-> logOffsets[j] + i, line |-> ls[i]]
    BY <1>s, StampedType DEF TypeOK
  <1>2. /\ logs'[j] = logs[j] \o st /\ logOffsets'[j] = logOffsets[j] + Len(ls)
        /\ \A k \in Jobs \ {j} : logs'[k] = logs[k] /\ logOffsets'[k] = logOffsets[k]
        /\ \A s \in Rpcs : inflight'[s] = IF s \in logSubs[j] THEN st ELSE <<>>
        /\ \A s \in Rpcs : inflight[s] = <<>>
        /\ UNCHANGED <<logSubs, logCh, pending, hpc, href, after, lastOffset, hret, subAt>>
    BY <1>s, <1>t DEF AppendLogs, Unlocked, handlerVars
  <1>3. /\ Len(logs'[j]) = Len(logs[j]) + Len(ls)
        /\ \A i \in 1..Len(logs[j]) : logs'[j][i] = logs[j][i]
        /\ \A i \in 1..Len(ls) : logs'[j][Len(logs[j]) + i] = st[i]
    <2>1. PICK p, q : p = logs[j] /\ q = logs'[j]
      OBVIOUS
    <2>2. p \in Seq(Chunks) /\ st \in Seq(Chunks) /\ q = p \o st
      BY <2>1, <1>t, <1>1, <1>2
    <2>3. /\ Len(q) = Len(p) + Len(st)
          /\ \A i \in 1..Len(p) : q[i] = p[i]
          /\ \A i \in 1..Len(st) : q[Len(p) + i] = st[i]
      BY <2>2
    <2>4. Len(st) = Len(ls)
      BY <1>1
    <2>5. QED
      BY <2>1, <2>3, <2>4
  <1>4. ASSUME NEW s \in Rpcs, href[s] # j PROVE GapInv(s)'
    <2>1. href[s] \in Jobs /\ s \notin logSubs[j]
      BY <1>4 DEF TypeOK, ServiceTypeOK, SafeInv, Registered
    <2>2. inflight'[s] = inflight[s]
      BY <2>1, <1>2
    <2>3. QED
      BY <1>2, <1>4, <2>1, <2>2, FrameGap DEF NoGapInv
  <1>5. ASSUME NEW s \in Rpcs, href[s] = j PROVE GapInv(s)'
    <2>0. GapInv(s) /\ subAt[s] \in Int /\ after[s] \in Nat /\ lastOffset[s] \in Nat
      BY DEF NoGapInv, TypeOK, ServiceTypeOK
    <2>1. subAt[s] <= logOffsets'[j]
      BY <2>0, <1>2, <1>5, <1>t DEF GapInv
    <2>2. ~SentRest(s)
      BY <1>5 DEF SentRest
    <2>3. ASSUME HoldsRest(s) PROVE HoldsRest(s)'
      <3>1. s \in logSubs[j] /\ inflight'[s] = st
        BY <2>3, <1>2, <1>5 DEF HoldsRest
      <3>2. \A i \in 1..Len(ls) : st[i].offset > subAt[s]
        <4>1. ASSUME NEW i \in 1..Len(ls) PROVE st[i].offset > subAt[s]
          <5>1. st[i].offset = logOffsets[j] + i
            <6>1. st[i] = [offset |-> logOffsets[j] + i, line |-> ls[i]]
              BY <1>1
            <6>2. QED
              BY <6>1
          <5>2. QED
            BY <5>1, <2>0, <1>5, <1>t DEF GapInv
        <4>2. QED
          BY <4>1
      <3>3. ASSUME NEW n \in 1..Len(logs'[j]), n > lastOffset[s], n > subAt[s]
            PROVE  Holds(s, logs[j][n])'
        <4>1. CASE n \in 1..Len(logs[j])
          <5>1. Holds(s, logs[j][n])
            BY <2>3, <3>3, <4>1, <1>5 DEF HoldsRest
          <5>2. inflight[s] = <<>>
            BY <1>2
          <5>3. QED
            BY <5>1, <5>2, <4>1, <1>2, <1>3 DEF Holds
        <4>2. CASE n \notin 1..Len(logs[j])
          <5>1. n - Len(logs[j]) \in 1..Len(ls) /\ Len(logs[j]) + (n - Len(logs[j])) = n
            BY <4>2, <1>3, <1>t
          <5>2. logs'[j][n] = st[n - Len(logs[j])]
            BY <5>1, <1>3
          <5>3. n - Len(logs[j]) \in 1..Len(inflight'[s]) /\ inflight'[s][n - Len(logs[j])] = logs'[j][n]
            BY <5>1, <5>2, <3>1, <1>1
          <5>4. QED
            BY <5>3 DEF Holds
        <4>3. QED
          BY <4>1, <4>2
      <3>4. \A i \in 1..Len(inflight'[s]) : inflight'[s][i].offset > subAt[s]
        BY <3>1, <3>2, <1>1
      <3>5. QED
        BY <2>3, <3>1, <3>3, <3>4, <1>2, <1>5 DEF HoldsRest, IsChunk
    <2>4. QED
      BY <2>0, <2>1, <2>2, <2>3, <1>2, <1>5 DEF GapInv, Subscribing
  <1>6. QED
    BY <1>4, <1>5 DEF NoGapInv

\* A broadcast that finds room loses nothing.
LEMMA BroadcastGap ==
    ASSUME TypeOK, NoGapInv, NoOverflow, NEW s \in Rpcs, BroadcastOne(s),
           UNCHANGED <<dpc, handlerVars>>
    PROVE  NoGapInv'
  <1>t. /\ logCh \in [Rpcs -> Seq(Chunks)] /\ inflight \in [Rpcs -> Seq(Chunks)]
        /\ logCh[s] \in Seq(Chunks) /\ inflight[s] \in Seq(Chunks)
    BY DEF TypeOK, StoreTypeOK
  <1>0. PICK m : m = Head(inflight[s])
    OBVIOUS
  <1>1. /\ inflight[s] # <<>> /\ inflight'[s] = Tail(inflight[s])
        /\ logCh'[s] = Append(logCh[s], m)
        /\ \A r \in Rpcs \ {s} : inflight'[r] = inflight[r] /\ logCh'[r] = logCh[r]
        /\ UNCHANGED <<logs, logOffsets, logSubs, dpc, hpc, href, after, lastOffset, pending, hret, subAt>>
    BY <1>0, <1>t DEF BroadcastOne, handlerVars, NoOverflow
  <1>2. /\ m \in Chunks /\ m = inflight[s][1] /\ 1 \in 1..Len(inflight[s])
        /\ Len(inflight[s]) \in Nat /\ Len(Tail(inflight[s])) = Len(inflight[s]) - 1
        /\ \A i \in 1..Len(Tail(inflight[s])) :
             Tail(inflight[s])[i] = inflight[s][i + 1] /\ i + 1 \in 1..Len(inflight[s])
    BY <1>0, <1>1, <1>t, TailFacts
  <1>3. /\ \A i \in 1..Len(Append(logCh[s], m)) :
             \/ i \in 1..Len(logCh[s]) /\ Append(logCh[s], m)[i] = logCh[s][i]
             \/ i = Len(logCh[s]) + 1 /\ Append(logCh[s], m)[i] = m
        /\ \A i \in 1..Len(logCh[s]) :
             i \in 1..Len(Append(logCh[s], m)) /\ Append(logCh[s], m)[i] = logCh[s][i]
        /\ Len(logCh[s]) + 1 \in 1..Len(Append(logCh[s], m))
        /\ Append(logCh[s], m)[Len(logCh[s]) + 1] = m
    BY <1>2, <1>t
  <1>4. ASSUME NEW x, Holds(s, x) PROVE Holds(s, x)'
    <2>1. ASSUME NEW i \in 1..Len(inflight[s]), inflight[s][i] = x PROVE Holds(s, x)'
      <3>1. CASE i = 1
        BY <3>1, <2>1, <1>1, <1>2, <1>3 DEF Holds
      <3>2. CASE i # 1
        <4>1. i - 1 \in 1..Len(Tail(inflight[s])) /\ (i - 1) + 1 = i
          BY <3>2, <1>2
        <4>2. inflight'[s][i - 1] = x
          BY <4>1, <2>1, <1>1, <1>2
        <4>3. QED
          BY <4>1, <4>2, <1>1 DEF Holds
      <3>3. QED
        BY <3>1, <3>2
    <2>2. ASSUME NEW i \in 1..Len(logCh[s]), logCh[s][i] = x PROVE Holds(s, x)'
      BY <2>2, <1>1, <1>3 DEF Holds
    <2>3. ASSUME NEW i \in 1..Len(pending[s]), pending[s][i] = x PROVE Holds(s, x)'
      BY <2>3, <1>1 DEF Holds
    <2>4. QED
      BY <1>4, <2>1, <2>2, <2>3 DEF Holds
  <1>5. HoldsRest(s) => HoldsRest(s)'
    <2> SUFFICES ASSUME HoldsRest(s) PROVE HoldsRest(s)'
      OBVIOUS
    <2>1. /\ \A i \in 1..Len(logCh'[s]) : logCh'[s][i].offset > subAt[s]
          /\ \A i \in 1..Len(inflight'[s]) : inflight'[s][i].offset > subAt[s]
      BY <1>1, <1>2, <1>3 DEF HoldsRest
    <2>2. \A n \in 1..Len(logs[href[s]]) :
            n > lastOffset[s] /\ n > subAt[s] => Holds(s, logs[href[s]][n])'
      <3>1. ASSUME NEW n \in 1..Len(logs[href[s]]), n > lastOffset[s], n > subAt[s]
            PROVE  Holds(s, logs[href[s]][n])'
        <4>1. PICK x : x = logs[href[s]][n]
          OBVIOUS
        <4>2. Holds(s, x)'
          BY <3>1, <4>1, <1>4 DEF HoldsRest
        <4>3. QED
          BY <4>1, <4>2, <1>1 DEF Holds
      <3>2. QED
        BY <3>1
    <2>3. QED
      BY <2>1, <2>2, <1>1 DEF HoldsRest, IsChunk
  <1>6. GapInv(s)'
    <2>1. GapInv(s) /\ (SentRest(s) => SentRest(s)')
      BY <1>1 DEF NoGapInv, SentRest
    <2>2. QED
      BY <2>1, <1>1, <1>5 DEF GapInv, Subscribing
  <1>7. ASSUME NEW r \in Rpcs, r # s PROVE GapInv(r)'
    BY <1>1, <1>7, FrameGap DEF NoGapInv
  <1>8. QED
    BY <1>6, <1>7 DEF NoGapInv

\* A step of one handler: the other calls keep theirs.
LEMMA OneGap ==
    ASSUME NoGapInv, NEW s \in Rpcs, UNCHANGED <<logs, logOffsets, inflight, dpc>>,
           \A r \in Rpcs \ {s} :
               /\ pending'[r] = pending[r] /\ logCh'[r] = logCh[r] /\ hpc'[r] = hpc[r]
               /\ hret'[r] = hret[r] /\ href'[r] = href[r] /\ after'[r] = after[r]
               /\ lastOffset'[r] = lastOffset[r] /\ subAt'[r] = subAt[r]
               /\ r \in logSubs[href[r]] => r \in logSubs'[href[r]],
           GapInv(s)'
    PROVE  NoGapInv'
  <1>1. ASSUME NEW r \in Rpcs, r # s PROVE GapInv(r)'
    BY <1>1, FrameGap DEF NoGapInv
  <1>2. QED
    BY <1>1 DEF NoGapInv

\* Steps of a handler that move its program counter, before it is live or
\* when it ends; only a closed channel ends a subscribed call normally.
LEMMA PcStepGap ==
    ASSUME TypeOK, SafeInv, FlowInv, NoGapInv, NEW s \in Rpcs,
           ReplayDone(s) \/ CheckState(s) \/ ChannelClosed(s) \/ ContextDone(s)
             \/ SnapshotLogs(s) \/ SkipStored(s) \/ SendFails(s) \/ Unsubscribe(s)
    PROVE  NoGapInv'
  <1>t. /\ hpc \in [Rpcs -> {"free", "snapshot", "replay", "check", "subscribe",
                             "live", "send", "unsubscribe", "done"}]
        /\ hret \in [Rpcs -> {"none", "nil", "err"}]
        /\ pending \in [Rpcs -> Seq(Messages)] /\ logSubs \in [Jobs -> SUBSET Rpcs]
        /\ after[s] \in Nat /\ lastOffset[s] \in Nat /\ subAt[s] \in Int /\ href[s] \in Jobs
        /\ logCh[s] \in Seq(Chunks) /\ Len(logs[href[s]]) \in Nat
    BY DEF TypeOK, ServiceTypeOK, StoreTypeOK
  <1>i. GapInv(s)
    BY DEF NoGapInv
  <1>1. /\ UNCHANGED <<logs, logOffsets, inflight, dpc, href, after, lastOffset, subAt, logCh>>
        /\ \A r \in Rpcs \ {s} :
               /\ pending'[r] = pending[r] /\ hpc'[r] = hpc[r] /\ hret'[r] = hret[r]
               /\ r \in logSubs[href[r]] => r \in logSubs'[href[r]]
    <2>1. UNCHANGED <<logs, logOffsets, inflight, dpc, href, after, lastOffset, subAt, logCh>>
      BY DEF ReplayDone, CheckState, ChannelClosed, ContextDone, SnapshotLogs, SkipStored,
             SendFails, Unsubscribe, UnsubscribeLogs, storeVars, dispatchVars
    <2>2. \A r \in Rpcs \ {s} : pending'[r] = pending[r] /\ hpc'[r] = hpc[r] /\ hret'[r] = hret[r]
      BY <1>t DEF ReplayDone, CheckState, ChannelClosed, ContextDone, SnapshotLogs, SkipStored,
             SendFails, Unsubscribe
    <2>3. \/ logSubs' = logSubs
          \/ logSubs' = [logSubs EXCEPT ![href[s]] = @ \ {s}]
      BY DEF ReplayDone, CheckState, ChannelClosed, ContextDone, SnapshotLogs, SkipStored,
             SendFails, Unsubscribe, UnsubscribeLogs, storeVars
    <2>4. \A r \in Rpcs \ {s} : href[r] \in Jobs
      BY DEF TypeOK, ServiceTypeOK
    <2>5. QED
      BY <2>1, <2>2, <2>3, <2>4, <1>t
  <1>2. CASE ReplayDone(s) \/ SnapshotLogs(s) \/ SkipStored(s)
    <2>1. Subscribing(s) /\ Subscribing(s)'
      BY <1>2, <1>t DEF ReplayDone, SnapshotLogs, SkipStored, Subscribing
    <2>2. hpc'[s] \notin {"live", "send", "unsubscribe", "done"}
      BY <2>1 DEF Subscribing
    <2>3. GapInv(s)'
      BY <2>1, <2>2, <1>1, <1>i DEF GapInv
    <2>4. QED
      BY <2>3, <1>1, OneGap
  <1>3. CASE CheckState(s)
    <2>1. Subscribing(s) /\ hpc'[s] \in {"done", "subscribe"}
      BY <1>3, <1>t DEF CheckState, Subscribing
    <2>2. subAt'[s] = -1
      BY <2>1, <1>1, <1>i DEF GapInv
    <2>3. GapInv(s)'
      BY <2>1, <2>2, <1>1, <1>i DEF GapInv
    <2>4. QED
      BY <2>3, <1>1, OneGap
  <1>4. CASE ContextDone(s) \/ SendFails(s)
    <2>1. hpc'[s] \in {"unsubscribe", "done"} /\ hret'[s] = "err"
      BY <1>4, <1>t DEF ContextDone, SendFails, Sending
    <2>2. GapInv(s)'
      BY <2>1, <1>1, <1>i DEF GapInv, Subscribing
    <2>3. QED
      BY <2>2, <1>1, OneGap
  <1>5. CASE ChannelClosed(s)
    <2>1. /\ hpc[s] = "live" /\ logCh[s] = <<>> /\ ~chOpen[s] /\ hpc'[s] = "unsubscribe"
      BY <1>5, <1>t DEF ChannelClosed
    <2>2. s \notin logSubs[href[s]]
      BY <2>1, <1>t DEF SafeInv, Registered
    <2>3. inflight[s] = <<>> /\ pending[s] = <<>>
      <3>1. inflight[s] = <<>>
        BY <2>2 DEF SafeInv, Registered
      <3>2. Phase(s)
        BY DEF SafeInv, CallInv
      <3>3. QED
        BY <3>1, <3>2, <2>1 DEF Phase
    <2>4. HoldsRest(s)
      BY <2>1, <1>i DEF GapInv
    <2>5. \A n \in 1..Len(logs[href[s]]) : ~(n > lastOffset[s] /\ n > subAt[s])
      BY <2>1, <2>3, <2>4 DEF HoldsRest, Holds
    <2>6. Len(logs[href[s]]) <= lastOffset[s] \/ Len(logs[href[s]]) <= subAt[s]
           \/ Len(logs[href[s]]) = 0
      <3>1. PICK n : n = Len(logs[href[s]])
        OBVIOUS
      <3>2. n \in Nat /\ (n = 0 \/ n \in 1..n)
        BY <3>1, <1>t
      <3>3. n = 0 \/ ~(n > lastOffset[s] /\ n > subAt[s])
        BY <3>1, <3>2, <2>5
      <3>4. QED
        BY <3>1, <3>2, <3>3, <1>t
    <2>7. SentRest(s)
      BY <2>2, <2>4, <2>6, <1>t DEF HoldsRest, SentRest
    <2>8. SentRest(s)'
      BY <2>7, <1>1 DEF SentRest
    <2>9. GapInv(s)'
      BY <2>1, <2>8, <1>1, <1>i DEF GapInv, Subscribing
    <2>10. QED
      BY <2>9, <1>1, OneGap
  <1>6. CASE Unsubscribe(s)
    <2>1. /\ hpc[s] = "unsubscribe" /\ hpc'[s] = "done" /\ hret' = hret
      BY <1>6, <1>t DEF Unsubscribe
    <2>2. SentRest(s) => SentRest(s)'
      BY <1>1 DEF SentRest
    <2>3. GapInv(s)'
      BY <2>1, <2>2, <1>1, <1>i DEF GapInv, Subscribing
    <2>4. QED
      BY <2>3, <1>1, OneGap
  <1>7. QED
    BY <1>2, <1>3, <1>4, <1>5, <1>6

\* A call that subscribes has nothing waiting, and nothing is past subAt.
LEMMA SubscribeGap ==
    ASSUME TypeOK, SafeInv, NoGapInv, NEW s \in Rpcs, Subscribe(s)
    PROVE  NoGapInv'
  <1>t. /\ hpc \in [Rpcs -> {"free", "snapshot", "replay", "check", "subscribe",
                             "live", "send", "unsubscribe", "done"}]
        /\ logSubs \in [Jobs -> SUBSET Rpcs] /\ logCh \in [Rpcs -> Seq(Chunks)]
        /\ subAt \in [Rpcs -> Int] /\ href[s] \in Jobs /\ logOffsets[href[s]] \in Nat
        /\ after[s] \in Nat /\ lastOffset[s] \in Nat
        /\ \A r \in Rpcs : href[r] \in Jobs
    BY DEF TypeOK, ServiceTypeOK, StoreTypeOK
  <1>1. /\ hpc[s] = "subscribe" /\ hpc'[s] = "live" /\ logCh'[s] = <<>>
        /\ subAt'[s] = logOffsets[href[s]] /\ inflight[s] = <<>>
        /\ s \in logSubs'[href[s]]
        /\ UNCHANGED <<logs, logOffsets, inflight, dpc, href, after, lastOffset, pending, hret>>
        /\ \A r \in Rpcs \ {s} :
               /\ logCh'[r] = logCh[r] /\ hpc'[r] = hpc[r] /\ subAt'[r] = subAt[r]
               /\ r \in logSubs[href[r]] => r \in logSubs'[href[r]]
    BY <1>t DEF Subscribe, SubscribeLogs, Unlocked, dispatchVars
  <1>2. pending[s] = <<>>
    BY <1>1 DEF SafeInv, CallInv, Phase
  <1>3. Len(logs[href[s]]) = logOffsets[href[s]]
    BY <1>t DEF SafeInv, DenseOffsets
  <1>4. \A n \in 1..Len(logs[href[s]]) : ~(n > subAt'[s])
    BY <1>1, <1>3, <1>t
  <1>5. HoldsRest(s)'
    BY <1>1, <1>2, <1>4 DEF HoldsRest
  <1>6. GapInv(s)'
    <2>1. GapInv(s)
      BY DEF NoGapInv
    <2>2. QED
      BY <2>1, <1>1, <1>5, <1>t DEF GapInv, Subscribing
  <1>7. QED
    BY <1>1, <1>6, OneGap

\* A chunk taken from the channel is sent next, or was asked to be skipped.
LEMMA ReceiveGap ==
    ASSUME TypeOK, SafeInv, NoGapInv, NEW s \in Rpcs, ReceiveChunk(s) \/ HeartbeatTick(s)
    PROVE  NoGapInv'
  <1>t. /\ hpc \in [Rpcs -> {"free", "snapshot", "replay", "check", "subscribe",
                             "live", "send", "unsubscribe", "done"}]
        /\ pending \in [Rpcs -> Seq(Messages)]
        /\ logCh \in [Rpcs -> Seq(Chunks)] /\ logCh[s] \in Seq(Chunks)
        /\ after[s] \in Nat /\ lastOffset[s] \in Nat /\ href[s] \in Jobs /\ subAt[s] \in Int
    BY DEF TypeOK, ServiceTypeOK, StoreTypeOK
  <1>i. GapInv(s)
    BY DEF NoGapInv
  <1>0. PICK q, m : q = logCh[s] /\ m = Head(q)
    OBVIOUS
  <1>1. /\ hpc[s] = "live" /\ hpc'[s] \in {"live", "send"}
        /\ UNCHANGED <<logs, logOffsets, logSubs, inflight, dpc, href, after, lastOffset, hret, subAt>>
        /\ \A r \in Rpcs \ {s} : /\ logCh'[r] = logCh[r] /\ hpc'[r] = hpc[r]
                                 /\ pending'[r] = pending[r]
    BY <1>t DEF ReceiveChunk, HeartbeatTick, storeVars, dispatchVars
  <1>2. pending[s] = <<>> /\ HoldsRest(s)
    <2>1. Phase(s)
      BY DEF SafeInv, CallInv
    <2>2. QED
      BY <2>1, <1>1, <1>i DEF Phase, GapInv
  <1>3. CASE HeartbeatTick(s)
    <2>1. /\ logCh' = logCh
          /\ pending'[s] = <<[offset |-> lastOffset[s], line |-> Heartbeat]>>
      BY <1>3, <1>t DEF HeartbeatTick, storeVars
    <2>2. ~IsChunk(pending'[s][1]) /\ Len(pending'[s]) = 1
      BY <2>1 DEF IsChunk
    <2>3. \A x : Holds(s, x) => Holds(s, x)'
      BY <2>1, <1>1, <1>2 DEF Holds
    <2>4. \A n \in 1..Len(logs[href[s]]) :
            n > lastOffset[s] /\ n > subAt[s] => Holds(s, logs[href[s]][n])'
      <3>1. ASSUME NEW n \in 1..Len(logs[href[s]]), n > lastOffset[s], n > subAt[s]
            PROVE  Holds(s, logs[href[s]][n])'
        <4>1. Holds(s, logs[href[s]][n])
          BY <3>1, <1>2 DEF HoldsRest
        <4>2. QED
          BY <4>1, <2>1, <1>1, <1>2 DEF Holds
      <3>2. QED
        BY <3>1
    <2>5. HoldsRest(s)'
      BY <2>1, <2>2, <2>4, <1>1, <1>2 DEF HoldsRest, IsChunk
    <2>6. GapInv(s)'
      BY <2>5, <1>1, <1>i DEF GapInv, Subscribing
    <2>7. QED
      BY <2>1, <2>6, <1>1, OneGap
  <1>4. CASE ReceiveChunk(s)
    <2>1. /\ q # <<>> /\ logCh'[s] = Tail(q)
          /\ \/ m.offset <= after[s] /\ pending'[s] = <<>>
             \/ pending'[s] = <<m>>
      BY <1>0, <1>2, <1>4, <1>t DEF ReceiveChunk
    <2>2. /\ m = q[1] /\ 1 \in 1..Len(q) /\ Len(Tail(q)) = Len(q) - 1 /\ Len(q) \in Nat
          /\ m \in Chunks
          /\ \A i \in 1..Len(Tail(q)) : Tail(q)[i] = q[i + 1] /\ i + 1 \in 1..Len(q)
      BY <1>0, <2>1, <1>t, TailFacts
    <2>3. m.offset > subAt[s] /\ \A i \in 1..Len(Tail(q)) : Tail(q)[i].offset > subAt[s]
      BY <1>0, <1>2, <2>2 DEF HoldsRest
    <2>4. ASSUME NEW n \in 1..Len(logs[href[s]]), n > lastOffset[s], n > subAt[s]
          PROVE  Holds(s, logs[href[s]][n])'
      <3>1. PICK x : x = logs[href[s]][n]
        OBVIOUS
      <3>2. Holds(s, x) /\ x.offset = n
        BY <2>4, <3>1, <1>2, <1>t DEF HoldsRest, SafeInv, DenseOffsets
      <3>3. ASSUME NEW i \in 1..Len(q), q[i] = x PROVE Holds(s, x)'
        <4>1. CASE i = 1
          <5>1. m = x /\ m.offset > after[s]
            BY <4>1, <3>2, <3>3, <2>2, <2>4, <1>i, <1>t DEF GapInv
          <5>2. pending'[s] = <<x>>
            BY <5>1, <2>1, <1>t, <3>2
          <5>3. QED
            BY <5>2 DEF Holds
        <4>2. CASE i # 1
          <5>1. i - 1 \in 1..Len(Tail(q)) /\ (i - 1) + 1 = i
            BY <4>2, <2>2
          <5>2. logCh'[s][i - 1] = x
            BY <5>1, <3>3, <2>1, <2>2
          <5>3. QED
            BY <5>1, <5>2, <2>1 DEF Holds
        <4>3. QED
          BY <4>1, <4>2
      <3>4. Holds(s, x)'
        BY <3>2, <3>3, <1>0, <1>1, <1>2 DEF Holds
      <3>5. QED
        BY <3>1, <3>4, <1>1 DEF Holds
    <2>5. HoldsRest(s)'
      <3>1. \A i \in 1..Len(pending'[s]) : pending'[s][i].offset > subAt[s]
        BY <2>1, <2>3
      <3>2. QED
        BY <3>1, <2>1, <2>3, <2>4, <1>1, <1>2 DEF HoldsRest, IsChunk
    <2>6. GapInv(s)'
      BY <2>5, <1>1, <1>i DEF GapInv, Subscribing
    <2>7. QED
      BY <2>6, <1>1, OneGap
  <1>5. QED
    BY <1>3, <1>4

\* Nothing is behind a lone element.
LEMMA TailOfOne ==
    ASSUME NEW S, NEW q \in Seq(S), q # <<>>, Len(q) <= 1
    PROVE  Tail(q) = <<>> /\ Len(q) = 1
  <1>1. Len(q) = 1
    <2>1. Len(q) \in Nat
      OBVIOUS
    <2>2. Len(q) # 0
      OBVIOUS
    <2>3. QED
      BY <2>1, <2>2
  <1>2. \A t \in Seq(S) : Len(t) = 0 => t = <<>>
    OBVIOUS
  <1>3. Tail(q) \in Seq(S) /\ Len(Tail(q)) = 0
    BY <1>1
  <1>4. QED
    BY <1>1, <1>2, <1>3

\* Sending a chunk moves the cursor to it and to nothing past it.
LEMMA SendGap ==
    ASSUME TypeOK, SafeInv, FlowInv, NoGapInv, NEW s \in Rpcs, Send(s)
    PROVE  NoGapInv'
  <1>t. /\ hpc \in [Rpcs -> {"free", "snapshot", "replay", "check", "subscribe",
                             "live", "send", "unsubscribe", "done"}]
        /\ pending \in [Rpcs -> Seq(Messages)] /\ pending[s] \in Seq(Messages)
        /\ lastOffset \in [Rpcs -> Nat] /\ lastOffset[s] \in Nat
        /\ after[s] \in Nat /\ href[s] \in Jobs /\ subAt[s] \in Int
    BY DEF TypeOK, ServiceTypeOK, StoreTypeOK
  <1>i. GapInv(s)
    BY DEF NoGapInv
  <1>0. PICK m : m = Head(pending[s])
    OBVIOUS
  <1>1. /\ pending[s] # <<>> /\ pending'[s] = Tail(pending[s])
        /\ lastOffset'[s] = Advance(lastOffset[s], m)
        /\ \/ hpc[s] = "send" /\ hpc'[s] = "live"
           \/ hpc[s] = "replay" /\ hpc'[s] = "replay"
        /\ \A r \in Rpcs \ {s} : /\ hpc'[r] = hpc[r] /\ pending'[r] = pending[r]
                                 /\ lastOffset'[r] = lastOffset[r]
        /\ UNCHANGED <<logs, logOffsets, logSubs, inflight, logCh, dpc, href, after, hret, subAt>>
    BY <1>0, <1>t DEF Send, Sending, storeVars, dispatchVars
  <1>2. m \in Messages /\ m.offset \in Nat /\ m = pending[s][1]
    <2>1. m \in Messages /\ m = pending[s][1]
      BY <1>0, <1>1, <1>t, TailFacts
    <2>2. 1 \in 1..Len(pending[s])
      BY <1>1, <1>t, TailFacts
    <2>3. QED
      BY <2>1, <2>2, <1>t, MessageFacts
  <1>3. lastOffset'[s] \in Nat /\ lastOffset[s] <= lastOffset'[s] /\ m.offset <= lastOffset'[s]
    BY <1>1, <1>2, <1>t DEF Advance
  <1>4. CASE hpc[s] = "replay" /\ hpc'[s] = "replay"
    <2>1. after'[s] <= lastOffset'[s]
      BY <1>1, <1>3, <1>i, <1>t DEF GapInv
    <2>2. GapInv(s)'
      BY <2>1, <1>1, <1>4, <1>i DEF GapInv, Subscribing
    <2>3. QED
      BY <2>2, <1>1, OneGap
  <1>5. CASE hpc[s] = "send" /\ hpc'[s] = "live"
    <2>1. pending'[s] = <<>> /\ Len(pending[s]) = 1
      <3>1. Phase(s)
        BY DEF SafeInv, CallInv
      <3>2. Len(pending[s]) <= 1
        BY <3>1, <1>5 DEF Phase
      <3>3. PICK p : p = pending[s]
        OBVIOUS
      <3>4. p \in Seq(Messages) /\ p # <<>> /\ Len(p) <= 1 /\ pending'[s] = Tail(p)
        BY <3>2, <3>3, <1>1, <1>t
      <3>5. Tail(p) = <<>> /\ Len(p) = 1
        BY <3>4, TailOfOne
      <3>6. QED
        BY <3>3, <3>4, <3>5
    <2>2. HoldsRest(s)
      BY <1>5, <1>i DEF GapInv
    <2>3. ASSUME NEW n \in 1..Len(logs[href[s]]), n > lastOffset'[s], n > subAt[s]
          PROVE  Holds(s, logs[href[s]][n])'
      <3>1. PICK x : x = logs[href[s]][n]
        OBVIOUS
      <3>2. Holds(s, x) /\ x.offset = n
        BY <2>2, <2>3, <3>1, <1>3, <1>t DEF HoldsRest, SafeInv, DenseOffsets
      <3>3. x # m
        BY <3>2, <2>3, <1>2, <1>3
      <3>4. Holds(s, x)'
        BY <3>2, <3>3, <2>1, <1>1, <1>2 DEF Holds
      <3>5. QED
        BY <3>1, <3>4, <1>1 DEF Holds
    <2>4. HoldsRest(s)'
      BY <2>1, <2>2, <2>3, <1>1 DEF HoldsRest
    <2>5. after'[s] <= lastOffset'[s]
      BY <1>1, <1>3, <1>i, <1>t DEF GapInv
    <2>6. GapInv(s)'
      BY <2>4, <2>5, <1>1, <1>5, <1>i DEF GapInv, Subscribing
    <2>7. QED
      BY <2>6, <1>1, OneGap
  <1>6. QED
    BY <1>1, <1>4, <1>5

\* No step of a handler loses what waits for it.
LEMMA HandlerGap ==
    ASSUME TypeOK, SafeInv, FlowInv, NoGapInv, NEW s \in Rpcs, HandlerStep(s)
    PROVE  NoGapInv'
  BY PcStepGap, SubscribeGap, ReceiveGap, SendGap DEF HandlerStep

-----------------------------------------------------------------------------
(* Without an overflow nothing that follows a subscription is missed.      *)

\* A call that arrives has not subscribed.
LEMMA ConnectGap ==
    ASSUME TypeOK, NoGapInv, NEW c \in Clients, NEW s \in Rpcs, Connect(c, s)
    PROVE  NoGapInv'
  <1>t. /\ hpc \in [Rpcs -> {"free", "snapshot", "replay", "check", "subscribe",
                             "live", "send", "unsubscribe", "done"}]
        /\ href \in [Rpcs -> Jobs] /\ after \in [Rpcs -> Nat] /\ lastOffset \in [Rpcs -> Nat]
        /\ cref[c] \in Jobs /\ cursor[c] \in Nat /\ logOffsets[cref[c]] \in Nat
    BY SMTT(40) DEF TypeOK, ServiceTypeOK, StoreTypeOK
  <1>1. /\ hpc[s] = "free" /\ hpc'[s] = "snapshot" /\ href'[s] = cref[c]
        /\ after'[s] = cursor[c] /\ lastOffset'[s] = cursor[c]
        /\ UNCHANGED <<logs, logOffsets, logSubs, logCh, inflight, dpc, pending, hret, subAt>>
        /\ \A r \in Rpcs \ {s} :
               /\ hpc'[r] = hpc[r] /\ href'[r] = href[r] /\ after'[r] = after[r]
               /\ lastOffset'[r] = lastOffset[r]
    BY <1>t DEF Connect, StreamJobLogs, storeVars, dispatchVars
  <1>2. subAt'[s] = -1
    BY <1>1 DEF NoGapInv, GapInv, Subscribing
  <1>3. GapInv(s)'
    BY <1>1, <1>2, <1>t DEF GapInv
  <1>4. QED
    BY <1>1, <1>3, OneGap

\* A step that changes none of these variables keeps NoGapInv.
LEMMA FrameNoGap ==
    ASSUME NoGapInv, UNCHANGED gapVars
    PROVE  NoGapInv'
  BY DEF gapVars, NoGapInv, GapInv, Subscribing, HoldsRest, Holds, SentRest, IsChunk

\* What the dispatch goroutine appends is offered to every subscribed call.
LEMMA DispatchStepGap ==
    ASSUME TypeOK, TypeOK', SafeInv, NoGapInv, NEW j \in Jobs, SubmitJob(j) \/ DispatchStep(j)
    PROVE  NoGapInv'
  <1>t. dpc \in [Jobs -> {"none", "start", "call", "recv", "put", "close", "done"}]
    BY DEF TypeOK, ServiceTypeOK
  <1>1. CASE SubmitJob(j) \/ DispatchStart(j) \/ PutFinal(j)
    <2>1. /\ UNCHANGED <<logs, logOffsets, logSubs, logCh, inflight, handlerVars>>
          /\ dpc[j] # "done" /\ \A k \in Jobs \ {j} : dpc'[k] = dpc[k]
      BY <1>1, <1>t DEF SubmitJob, DispatchStart, PutFinal, Put
    <2>2. QED
      BY <2>1, DispatchGap
  <1>2. CASE CallWorker(j) \/ CallWorkerFails(j) \/ RecvFails(j)
    <2>1. /\ UNCHANGED <<logs, logOffsets, logSubs, logCh, inflight, handlerVars>>
          /\ dpc[j] # "done" /\ \A k \in Jobs \ {j} : dpc'[k] = dpc[k]
      BY <1>2, <1>t DEF CallWorker, CallWorkerFails, RecvFails, FailWith, storeVars
    <2>2. QED
      BY <2>1, DispatchGap
  <1>3. CASE RecvResponse(j)
    <2>1. Head(rpc[j]) \in Responses
      BY <1>3 DEF RecvResponse, TypeOK, WorkerTypeOK
    <2>2. Head(rpc[j]).logs \in Seq(Lines)
      BY <2>1 DEF Responses
    <2>3. UNCHANGED handlerVars /\ dpc[j] = "recv" /\ \A k \in Jobs \ {j} : dpc'[k] = dpc[k]
      BY <1>3, <1>t DEF RecvResponse, dispatchVars
    <2>4. CASE Head(rpc[j]).logs # <<>>
      BY <1>3, <2>2, <2>3, <2>4, AppendGap DEF RecvResponse
    <2>5. CASE Head(rpc[j]).logs = <<>>
      <3>1. UNCHANGED <<logs, logOffsets, logSubs, logCh, inflight>>
        BY <1>3, <2>5 DEF RecvResponse, storeVars
      <3>2. QED
        BY <3>1, <2>3, DispatchGap
    <2>6. QED
      BY <2>4, <2>5
  <1>4. CASE CloseStreams(j)
    <2>1. /\ UNCHANGED <<logs, logOffsets, logCh, inflight, handlerVars>>
          /\ dpc[j] # "done" /\ dpc'[j] = "done" /\ \A k \in Jobs \ {j} : dpc'[k] = dpc[k]
          /\ logSubs' = [logSubs EXCEPT ![j] = {}]
      BY <1>4, <1>t DEF CloseStreams, CloseLogStreams
    <2>2. QED
      BY <2>1, DispatchGap
  <1>5. QED
    BY <1>1, <1>2, <1>3, <1>4 DEF DispatchStep

\* A client takes nothing from the queues of the server.
LEMMA ClientGap ==
    ASSUME TypeOK, NoGapInv, NEW c \in Clients, Client(c)
    PROVE  NoGapInv'
  <1>1. CASE \E s \in Rpcs : Connect(c, s)
    BY <1>1, ConnectGap
  <1>2. CASE ~ \E s \in Rpcs : Connect(c, s)
    <2>1. UNCHANGED gapVars
      BY <1>2 DEF Client, StartClient, ConnectFails, Recv, RecvEOF, StreamInterrupted, StreamFails,
                  Interrupt, Teardown, gapVars, storeVars, dispatchVars, handlerVars
    <2>2. QED
      BY <2>1, FrameNoGap
  <1>3. QED
    BY <1>1, <1>2

\* At first no call has subscribed.
LEMMA GapInit == Init => NoGapInv
  <1> SUFFICES ASSUME Init, NEW s \in Rpcs PROVE GapInv(s)
    BY DEF NoGapInv
  <1>1. (CHOOSE j \in Jobs : TRUE) \in Jobs
    BY JobsAssumption
  <1>2. QED
    BY <1>1 DEF Init, StoreInit, ServiceInit, GapInv, Subscribing

\* A step that finds room in the channels keeps NoGapInv.
LEMMA GapNext == TypeOK /\ SafeInv /\ FlowInv /\ NoOverflow /\ NoGapInv /\ [Next]_vars => NoGapInv'
  <1> SUFFICES ASSUME TypeOK, SafeInv, FlowInv, NoOverflow, NoGapInv, [Next]_vars PROVE NoGapInv'
    OBVIOUS
  <1>0. TypeOK'
    BY TypeNext
  <1>1. ASSUME NEW j \in Jobs, Submit(j) \/ Dispatch(j)
        PROVE  NoGapInv'
    BY <1>0, <1>1, DispatchStepGap DEF Submit, Dispatch
  <1>2. ASSUME NEW j \in Jobs, Worker(j)
        PROVE  NoGapInv'
    BY <1>2, FrameNoGap DEF Worker, gapVars, storeVars, dispatchVars, handlerVars
  <1>3. ASSUME NEW s \in Rpcs, Broadcast(s)
        PROVE  NoGapInv'
    BY <1>3, BroadcastGap DEF Broadcast, BroadcastStep, dispatchVars
  <1>4. ASSUME NEW s \in Rpcs, Handler(s)
        PROVE  NoGapInv'
    BY <1>4, HandlerGap DEF Handler
  <1>5. ASSUME NEW c \in Clients, Client(c)
        PROVE  NoGapInv'
    BY <1>5, ClientGap
  <1>6. CASE UNCHANGED vars
    BY <1>6, FrameNoGap DEF vars, gapVars, storeVars, dispatchVars, handlerVars
  <1>7. QED
    BY <1>1, <1>2, <1>3, <1>4, <1>5, <1>6 DEF Next, Quiescent

\* What waits for a live call is the rest of its log.
LEMMA GapMeaning == TypeOK /\ SafeInv /\ FlowInv /\ NoGapInv => NoLiveGap
  <1> SUFFICES ASSUME TypeOK, SafeInv, FlowInv, NoGapInv, NEW s \in Rpcs, hpc[s] \in {"live", "send"},
                      NEW seen, seen = IF lastOffset[s] > subAt[s] THEN lastOffset[s] ELSE subAt[s]
               PROVE  Waiting(s) = {logs[href[s]][n] : n \in (seen + 1)..Len(logs[href[s]])}
    BY DEF NoLiveGap, SafeInv, CallInv
  <1>t. /\ lastOffset[s] \in Nat /\ subAt[s] \in Int /\ after[s] \in Nat /\ href[s] \in Jobs
        /\ logs[href[s]] \in Seq(Chunks) /\ Len(logs[href[s]]) \in Nat
        /\ pending[s] \in Seq(Messages)
    BY DEF TypeOK, ServiceTypeOK, StoreTypeOK
  <1>0. seen \in Nat /\ lastOffset[s] <= seen /\ subAt[s] <= seen
        /\ \A n \in Int : n > lastOffset[s] /\ n > subAt[s] => n >= seen + 1
    BY <1>t
  <1>i. /\ HoldsRest(s) /\ after[s] <= lastOffset[s] /\ Phase(s) /\ Ordered(s)
        /\ Sourced(s) /\ SendPhase(s)
    BY DEF NoGapInv, GapInv, SafeInv, CallInv, FlowInv
  <1>1. ASSUME NEW m \in Waiting(s)
        PROVE  m \in {logs[href[s]][n] : n \in (seen + 1)..Len(logs[href[s]])}
    <2>0. IsChunk(m) /\ m.offset > after[s]
      BY DEF Waiting
    <2>1. ASSUME NEW i \in 1..Len(pending[s]), m = pending[s][i]
          PROVE  StoredIn(m, href[s]) /\ m.offset > subAt[s] /\ m.offset > lastOffset[s]
      <3>1. i = 1 /\ hpc[s] = "send"
        BY <2>1, <1>i, <1>t DEF Phase
      <3>2. QED
        BY <3>1, <2>0, <2>1, <1>i DEF HoldsRest, Sourced, SendPhase, Follows
    <2>2. ASSUME NEW i \in 1..Len(logCh[s]), m = logCh[s][i]
          PROVE  StoredIn(m, href[s]) /\ m.offset > subAt[s] /\ m.offset > lastOffset[s]
      BY <2>0, <2>2, <1>i DEF HoldsRest, Sourced, Ordered, NewTo
    <2>3. ASSUME NEW i \in 1..Len(inflight[s]), m = inflight[s][i]
          PROVE  StoredIn(m, href[s]) /\ m.offset > subAt[s] /\ m.offset > lastOffset[s]
      BY <2>0, <2>3, <1>i DEF HoldsRest, Sourced, Ordered, NewTo
    <2>4. StoredIn(m, href[s]) /\ m.offset > subAt[s] /\ m.offset > lastOffset[s]
      BY <2>1, <2>2, <2>3 DEF Waiting, Elements
    <2>5. m.offset \in (seen + 1)..Len(logs[href[s]]) /\ m = logs[href[s]][m.offset]
      BY <2>4, <1>0, <1>t DEF StoredIn
    <2>6. QED
      BY <2>5
  <1>2. ASSUME NEW n \in (seen + 1)..Len(logs[href[s]])
        PROVE  logs[href[s]][n] \in Waiting(s)
    <2>1. n \in 1..Len(logs[href[s]]) /\ n > lastOffset[s] /\ n > subAt[s] /\ n > after[s]
      BY <1>0, <1>i, <1>t
    <2>2. PICK m : m = logs[href[s]][n]
      OBVIOUS
    <2>3. Holds(s, m)
      BY <2>1, <2>2, <1>i DEF HoldsRest
    <2>4. m \in Chunks /\ m.offset = n
      BY <2>1, <2>2, <1>t DEF SafeInv, DenseOffsets
    <2>5. IsChunk(m) /\ m.offset > after[s]
      BY <2>1, <2>4, ChunkIsChunk
    <2>6. m \in Elements(pending[s]) \cup Elements(logCh[s]) \cup Elements(inflight[s])
      BY <2>3 DEF Holds, Elements
    <2>7. QED
      BY <2>2, <2>5, <2>6 DEF Waiting
  <1>3. QED
    BY <1>1, <1>2

(***************************************************************************)
(* As long as the store finds room in the channels of its subscribers, a   *)
(* call that follows a job has all the rest of the job's log waiting, from *)
(* the moment it subscribes to the moment it returns.                      *)
(***************************************************************************)
THEOREM SubscribersMissNothing == Spec /\ []NoOverflow => []NoLiveGap
  <1>1. Init => TypeOK /\ SafeInv /\ FlowInv /\ NoGapInv
    BY TypeInit, SafeInit, FlowInit, GapInit
  <1>2. TypeOK /\ SafeInv /\ FlowInv /\ NoGapInv /\ NoOverflow /\ [Next]_vars
          => (TypeOK /\ SafeInv /\ FlowInv /\ NoGapInv)'
    BY TypeNext, SafeNext, FlowNext, GapNext
  <1>3. QED
    BY <1>1, <1>2, GapMeaning, PTL DEF Spec

-----------------------------------------------------------------------------
(* A call that subscribed before there was any output: EarlyTailIsComplete.*)

\* A client has printed chunks 1, 2, 3, ... up to its cursor.
PrintedAll(c) ==
    /\ Len(printed[c]) = cursor[c]
    /\ \A i \in 1..Len(printed[c]) : printed[c][i].offset = i

\* The messages w on the wire hold every chunk past cur up to last.
WireFills(w, cur, last) ==
    \A n \in (cur + 1)..last : \E i \in 1..Len(w) : IsChunk(w[i]) /\ w[i].offset = n

\* A client of a call that subscribed before there was any output has printed
\* all up to its cursor, and the rest of what the call sent is on the wire.
EarlyClient(c) ==
    /\ cursor[c] <= logOffsets[cref[c]]
    /\ cpc[c] = "idle" => cursor[c] = 0
    /\ cpc[c] = "connected" /\ subAt[crpc[c]] = 0 =>
         PrintedAll(c) /\ WireFills(wire[crpc[c]], cursor[c], lastOffset[crpc[c]])
    /\ cexit[c] = "eof" =>
         /\ cpc[c] = "exited" /\ hpc[crpc[c]] = "done"
         /\ subAt[crpc[c]] = 0 =>
              dpc[cref[c]] = "done" /\ PrintedAll(c) /\ cursor[c] = Len(logs[cref[c]])

\* With clients that begin at the start of the log.
EarlyInv ==
    /\ \A s \in Rpcs : after[s] <= logOffsets[href[s]]
    /\ \A c \in Clients : EarlyClient(c)

\* A chunk right behind what was sent leaves no hole on the wire.
LEMMA WireFillsAppend ==
    ASSUME NEW w \in Seq(Messages), NEW m \in Messages, NEW cur \in Nat, NEW last \in Nat,
           WireFills(w, cur, last), Follows(m, last), IsChunk(m) => m.offset = last + 1
    PROVE  WireFills(Append(w, m), cur, Advance(last, m))
  <1>1. /\ \A i \in 1..Len(w) : i \in 1..Len(Append(w, m)) /\ Append(w, m)[i] = w[i]
        /\ Len(w) + 1 \in 1..Len(Append(w, m)) /\ Append(w, m)[Len(w) + 1] = m
    OBVIOUS
  <1>2. m.offset \in Nat
    BY DEF Messages
  <1>3. CASE IsChunk(m)
    <2>1. Advance(last, m) = last + 1 /\ m.offset = last + 1
      BY <1>2, <1>3 DEF Advance
    <2>2. ASSUME NEW n \in (cur + 1)..(last + 1)
          PROVE  \E i \in 1..Len(Append(w, m)) : IsChunk(Append(w, m)[i]) /\ Append(w, m)[i].offset = n
      <3>1. CASE n = last + 1
        BY <3>1, <2>1, <1>1, <1>3
      <3>2. CASE n # last + 1
        <4>1. n \in (cur + 1)..last
          BY <3>2
        <4>2. PICK i \in 1..Len(w) : IsChunk(w[i]) /\ w[i].offset = n
          BY <4>1 DEF WireFills
        <4>3. QED
          BY <4>2, <1>1
      <3>3. QED
        BY <3>1, <3>2
    <2>3. QED
      BY <2>1, <2>2 DEF WireFills
  <1>4. CASE ~IsChunk(m)
    <2>1. Advance(last, m) = last
      BY <1>2, <1>4 DEF Advance, Follows
    <2>2. QED
      BY <2>1, <1>1 DEF WireFills
  <1>5. QED
    BY <1>3, <1>4

\* The first chunk on a wire without holes is the one right behind the cursor.
LEMMA WireFillsTail ==
    ASSUME NEW w \in Seq(Messages), w # <<>>, NEW cur \in Nat, NEW last \in Nat,
           WireFills(w, cur, last), WireInOrder(w, cur), WireEndsAt(w, cur, last)
    PROVE  /\ WireFills(Tail(w), Advance(cur, Head(w)), last)
           /\ IsChunk(Head(w)) => Head(w).offset = cur + 1
  <1>0. PICK m, v : m = Head(w) /\ v = Tail(w)
    OBVIOUS
  <1>1. /\ Len(w) \in Nat /\ 1 \in 1..Len(w) /\ Len(v) = Len(w) - 1
        /\ \A i \in 1..Len(v) : v[i] = w[i + 1] /\ i + 1 \in 1..Len(w)
        /\ m = w[1]
    BY <1>0
  <1>2. \A i \in 1..Len(w) : w[i].offset \in Nat
    BY MessageFacts
  <1>3. IF IsChunk(m) THEN m.offset > cur ELSE m.offset <= cur
    BY <1>0, WireTail
  <1>4. IsChunk(m) => m.offset = cur + 1
    <2> SUFFICES ASSUME IsChunk(m) PROVE m.offset = cur + 1
      OBVIOUS
    <2>1. m.offset <= last /\ m.offset > cur /\ m.offset \in Nat
      BY <1>1, <1>2, <1>3 DEF WireEndsAt
    <2>2. cur + 1 \in (cur + 1)..last
      BY <2>1
    <2>3. PICK i \in 1..Len(w) : IsChunk(w[i]) /\ w[i].offset = cur + 1
      BY <2>2 DEF WireFills
    <2>4. CASE i = 1
      BY <2>3, <2>4, <1>1
    <2>5. CASE i # 1
      <3>1. 1 \in 1..(i - 1)
        BY <2>5, <1>1
      <3>2. w[1].offset < w[i].offset
        BY <3>1, <2>3 DEF WireInOrder
      <3>3. QED
        BY <3>2, <2>1, <2>3, <1>1
    <2>6. QED
      BY <2>4, <2>5
  <1>5. Advance(cur, m) \in Nat /\ cur <= Advance(cur, m) /\ (IsChunk(m) => m.offset <= Advance(cur, m))
    BY <1>1, <1>2 DEF Advance
  <1>6. ASSUME NEW n \in (Advance(cur, m) + 1)..last
        PROVE  \E i \in 1..Len(v) : IsChunk(v[i]) /\ v[i].offset = n
    <2>1. n \in (cur + 1)..last /\ n > Advance(cur, m)
      BY <1>5
    <2>2. PICK i \in 1..Len(w) : IsChunk(w[i]) /\ w[i].offset = n
      BY <2>1 DEF WireFills
    <2>3. i # 1
      BY <2>1, <2>2, <1>1, <1>2, <1>5
    <2>4. i - 1 \in 1..Len(v) /\ (i - 1) + 1 = i
      BY <2>3, <1>1
    <2>5. v[i - 1] = w[i]
      BY <2>4, <1>1
    <2>6. QED
      BY <2>2, <2>4, <2>5
  <1>7. QED
    BY <1>0, <1>4, <1>6 DEF WireFills

\* A step that leaves a client and what it reads alone, while logs may grow.
LEMMA FrameEarly ==
    ASSUME TypeOK, NEW c \in Clients, EarlyClient(c),
           cpc'[c] = cpc[c], cref'[c] = cref[c], crpc'[c] = crpc[c], cursor'[c] = cursor[c],
           printed'[c] = printed[c], cexit'[c] = cexit[c],
           cpc[c] = "connected" /\ subAt'[crpc[c]] = 0 =>
               /\ subAt[crpc[c]] = 0 /\ wire'[crpc[c]] = wire[crpc[c]]
               /\ lastOffset'[crpc[c]] = lastOffset[crpc[c]],
           cexit[c] = "eof" /\ hpc[crpc[c]] = "done" =>
               hpc'[crpc[c]] = "done" /\ subAt'[crpc[c]] = subAt[crpc[c]],
           logOffsets'[cref[c]] \in Nat, logOffsets[cref[c]] <= logOffsets'[cref[c]],
           dpc[cref[c]] = "done" => dpc'[cref[c]] = "done" /\ logs'[cref[c]] = logs[cref[c]]
    PROVE  EarlyClient(c)'
  <1>1. cursor[c] \in Nat /\ cref[c] \in Jobs /\ logOffsets[cref[c]] \in Nat
    BY DEF TypeOK, StoreTypeOK
  <1>2. cursor'[c] <= logOffsets'[cref'[c]]
    BY <1>1 DEF EarlyClient
  <1>3. PrintedAll(c) => PrintedAll(c)'
    BY DEF PrintedAll
  <1>4. ASSUME cpc'[c] = "connected", subAt'[crpc'[c]] = 0
        PROVE  PrintedAll(c)' /\ WireFills(wire[crpc[c]], cursor[c], lastOffset[crpc[c]])'
    <2>1. PrintedAll(c) /\ WireFills(wire[crpc[c]], cursor[c], lastOffset[crpc[c]])
      BY <1>4 DEF EarlyClient
    <2>2. WireFills(wire[crpc[c]], cursor[c], lastOffset[crpc[c]])'
      BY <2>1, <1>4 DEF WireFills, IsChunk
    <2>3. QED
      BY <2>1, <2>2, <1>3
  <1>5. ASSUME cexit'[c] = "eof"
        PROVE  /\ cpc'[c] = "exited" /\ hpc'[crpc'[c]] = "done"
               /\ subAt'[crpc'[c]] = 0 => dpc'[cref'[c]] = "done" /\ PrintedAll(c)'
                                           /\ cursor'[c] = Len(logs'[cref'[c]])
    BY <1>3, <1>5 DEF EarlyClient
  <1>6. QED
    BY <1>2, <1>4, <1>5 DEF EarlyClient

\* Logs only grow, and only before the dispatch goroutine has ended.
LogsOpen == \A j \in Jobs :
    /\ logOffsets[j] <= logOffsets'[j]
    /\ dpc[j] = "done" => dpc'[j] = "done" /\ logs'[j] = logs[j]

\* A step of the server that sends nothing to an early client.
LEMMA ServerEarly ==
    ASSUME TypeOK, TypeOK', EarlyInv, LogsOpen,
           UNCHANGED <<clientVars, href, after, wire, lastOffset>>,
           \A s \in Rpcs : subAt'[s] = subAt[s] \/ (subAt'[s] # 0 /\ hpc[s] # "done"),
           \A s \in Rpcs : hpc[s] = "done" => hpc'[s] = "done"
    PROVE  EarlyInv'
  <1>1. ASSUME NEW s \in Rpcs PROVE after'[s] <= logOffsets'[href'[s]]
    <2>1. /\ after[s] \in Nat /\ href[s] \in Jobs
          /\ logOffsets[href[s]] \in Nat /\ logOffsets'[href[s]] \in Nat
      BY DEF TypeOK, ServiceTypeOK, StoreTypeOK
    <2>2. after[s] <= logOffsets[href[s]] /\ logOffsets[href[s]] <= logOffsets'[href[s]]
      BY <2>1 DEF EarlyInv, LogsOpen
    <2>3. QED
      BY <2>1, <2>2
  <1>2. ASSUME NEW c \in Clients PROVE EarlyClient(c)'
    <2>1. /\ crpc[c] \in Rpcs /\ cref[c] \in Jobs /\ logOffsets'[cref[c]] \in Nat
      BY DEF TypeOK, StoreTypeOK
    <2>2. EarlyClient(c)
      BY DEF EarlyInv
    <2>3. QED
      BY <2>1, <2>2, FrameEarly DEF LogsOpen, clientVars
  <1>3. QED
    BY <1>1, <1>2 DEF EarlyInv

\* Steps of the server that are neither a subscription nor a send.
LEMMA DispatchEarly ==
    ASSUME TypeOK, TypeOK', EarlyInv, NEW j \in Jobs, SubmitJob(j) \/ DispatchStep(j),
           UNCHANGED clientVars
    PROVE  EarlyInv'
  <1>t. /\ dpc \in [Jobs -> {"none", "start", "call", "recv", "put", "close", "done"}]
        /\ logs \in [Jobs -> Seq(Chunks)] /\ logOffsets \in [Jobs -> Nat]
    BY DEF TypeOK, ServiceTypeOK, StoreTypeOK
  <1>1. UNCHANGED handlerVars /\ dpc[j] # "done" /\ \A k \in Jobs \ {j} : dpc'[k] = dpc[k]
    BY <1>t DEF SubmitJob, DispatchStep, DispatchStart, PutFinal, CallWorker, CallWorkerFails,
                RecvFails, FailWith, RecvResponse, CloseStreams, dispatchVars
  <1>2. /\ \A k \in Jobs \ {j} : logs'[k] = logs[k] /\ logOffsets'[k] = logOffsets[k]
        /\ logOffsets[j] <= logOffsets'[j]
    <2>1. CASE UNCHANGED <<logs, logOffsets>>
      BY <2>1, <1>t
    <2>2. CASE RecvResponse(j) /\ Head(rpc[j]).logs # <<>>
      <3>1. Head(rpc[j]) \in Responses
        BY <2>2 DEF RecvResponse, TypeOK, WorkerTypeOK
      <3>2. PICK ls \in Seq(Lines) : AppendLogs(j, ls)
        BY <2>2, <3>1 DEF RecvResponse, Responses
      <3>3. Len(ls) \in Nat
        OBVIOUS
      <3>4. QED
        BY <3>2, <3>3, <1>t DEF AppendLogs
    <2>3. UNCHANGED <<logs, logOffsets>> \/ (RecvResponse(j) /\ Head(rpc[j]).logs # <<>>)
      BY DEF SubmitJob, DispatchStep, DispatchStart, PutFinal, CallWorker, CallWorkerFails,
             RecvFails, RecvResponse, CloseStreams, CloseLogStreams, Put, storeVars
    <2>4. QED
      BY <2>1, <2>2, <2>3
  <1>3. LogsOpen
    <2>1. ASSUME NEW k \in Jobs
          PROVE  /\ logOffsets[k] <= logOffsets'[k]
                 /\ dpc[k] = "done" => dpc'[k] = "done" /\ logs'[k] = logs[k]
      <3>1. logOffsets[k] \in Nat
        BY <1>t
      <3>2. CASE k = j
        BY <3>2, <1>1, <1>2
      <3>3. CASE k # j
        BY <3>1, <3>3, <1>1, <1>2
      <3>4. QED
        BY <3>2, <3>3
    <2>2. QED
      BY <2>1 DEF LogsOpen
  <1>4. QED
    BY <1>1, <1>3, ServerEarly DEF handlerVars

\* A broadcast, and a step of a handler that neither sends nor subscribes, keep EarlyInv.
LEMMA QuietEarly ==
    ASSUME TypeOK, TypeOK', EarlyInv, UNCHANGED <<clientVars, logs, logOffsets, dpc>>,
           NEW s \in Rpcs,
           \/ BroadcastStep(s)
           \/ SnapshotLogs(s) \/ SkipStored(s) \/ SendFails(s) \/ ReplayDone(s) \/ CheckState(s)
           \/ ReceiveChunk(s) \/ ChannelClosed(s) \/ HeartbeatTick(s) \/ ContextDone(s)
           \/ Unsubscribe(s)
    PROVE  EarlyInv'
  <1>t. hpc \in [Rpcs -> {"free", "snapshot", "replay", "check", "subscribe",
                          "live", "send", "unsubscribe", "done"}]
    BY DEF TypeOK, ServiceTypeOK
  <1>1. UNCHANGED <<href, after, wire, lastOffset, subAt>>
    BY DEF BroadcastStep, SnapshotLogs, SkipStored, SendFails, ReplayDone, CheckState, ReceiveChunk,
           ChannelClosed, HeartbeatTick, ContextDone, Unsubscribe, handlerVars
  <1>2. \A r \in Rpcs : hpc[r] = "done" => hpc'[r] = "done"
    BY <1>t DEF BroadcastStep, SnapshotLogs, SkipStored, SendFails, Sending, ReplayDone, CheckState,
           ReceiveChunk, ChannelClosed, HeartbeatTick, ContextDone, Unsubscribe, handlerVars
  <1>3. LogsOpen
    BY DEF LogsOpen, TypeOK, StoreTypeOK
  <1>4. QED
    BY <1>1, <1>2, <1>3, ServerEarly

\* A call that subscribes to an empty log: its client has received nothing.
LEMMA SubscribeEarly ==
    ASSUME TypeOK, TypeOK', SafeInv, FlowInv, EarlyInv, NEW s \in Rpcs, Subscribe(s),
           UNCHANGED clientVars
    PROVE  EarlyInv'
  <1>t. /\ hpc \in [Rpcs -> {"free", "snapshot", "replay", "check", "subscribe",
                             "live", "send", "unsubscribe", "done"}]
        /\ subAt \in [Rpcs -> Int] /\ href[s] \in Jobs /\ logOffsets[href[s]] \in Nat
        /\ after[s] \in Nat /\ lastOffset[s] \in Nat
    BY SMTT(40) DEF TypeOK, ServiceTypeOK, StoreTypeOK
  <1>1. /\ hpc[s] = "subscribe" /\ hpc'[s] = "live" /\ subAt'[s] = logOffsets[href[s]]
        /\ \A r \in Rpcs \ {s} : hpc'[r] = hpc[r] /\ subAt'[r] = subAt[r]
        /\ UNCHANGED <<logs, logOffsets, dpc, href, after, wire, lastOffset>>
    BY <1>t DEF Subscribe, SubscribeLogs, dispatchVars
  <1>2. ASSUME NEW c \in Clients PROVE EarlyClient(c)'
    <2>0. /\ EarlyClient(c) /\ crpc[c] \in Rpcs /\ cref[c] \in Jobs /\ cursor[c] \in Nat
          /\ logOffsets[cref[c]] \in Nat /\ printed[c] \in Seq(Chunks)
      BY DEF EarlyInv, TypeOK, StoreTypeOK
    <2>1. CASE cpc[c] = "connected" /\ crpc[c] = s /\ logOffsets[href[s]] = 0
      <3>1. href[s] = cref[c] /\ cursor[c] = 0
        BY <2>0, <2>1 DEF FlowInv, ReadsCall, EarlyClient
      <3>2. lastOffset[s] = 0
        <4>1. Reached(lastOffset[s], s) /\ after[s] <= logOffsets[href[s]]
          BY DEF SafeInv, CallInv, Bounded, EarlyInv
        <4>2. QED
          BY <4>1, <2>1, <1>t DEF Reached
      <3>3. Len(printed[c]) = 0
        <4>1. PICK n \in Nat : n = Len(printed[c])
          BY <2>0
        <4>2. 1 \in 1..Len(printed[c]) => printed[c][1].offset <= cursor[c] /\ printed[c][1].offset \in 1..Len(logs[cref[c]])
          BY DEF FlowInv, Printed, StoredIn
        <4>3. 1 \notin 1..n
          BY <4>1, <4>2, <3>1
        <4>4. QED
          BY <4>1, <4>3
      <3>4. PrintedAll(c)'
        BY <3>1, <3>3 DEF PrintedAll, clientVars
      <3>5. WireFills(wire'[crpc'[c]], cursor'[c], lastOffset'[crpc'[c]])
        BY <3>1, <3>2, <2>1, <1>1 DEF WireFills, clientVars
      <3>6. cpc'[c] = "connected" /\ cexit'[c] # "eof"
        BY <2>0, <2>1 DEF EarlyClient, clientVars
      <3>7. cursor'[c] <= logOffsets'[cref'[c]]
        BY <2>0, <1>1 DEF EarlyClient, clientVars
      <3>8. QED
        BY <3>4, <3>5, <3>6, <3>7 DEF EarlyClient, WireFills, IsChunk
    <2>2. CASE cpc[c] = "connected" /\ crpc[c] = s /\ logOffsets[href[s]] # 0
      BY <2>0, <2>2, <1>1, FrameEarly DEF clientVars, EarlyClient
    <2>3. CASE ~(cpc[c] = "connected" /\ crpc[c] = s)
      BY <2>0, <2>3, <1>1, FrameEarly DEF clientVars
    <2>4. QED
      BY <2>1, <2>2, <2>3
  <1>3. QED
    BY <1>1, <1>2 DEF EarlyInv

\* What a call that subscribed to an empty log sends is the next chunk.
LEMMA NextChunk ==
    ASSUME TypeOK, SafeInv, FlowInv, NoGapInv, NEW s \in Rpcs, hpc[s] = "send", subAt[s] = 0,
           IsChunk(pending[s][1])
    PROVE  pending[s][1].offset = lastOffset[s] + 1
  <1>t. /\ lastOffset[s] \in Nat /\ after[s] \in Nat /\ href[s] \in Jobs
        /\ Len(logs[href[s]]) \in Nat /\ pending[s] \in Seq(Messages)
    BY DEF TypeOK, ServiceTypeOK, StoreTypeOK
  <1>i. /\ HoldsRest(s) /\ after[s] <= lastOffset[s] /\ Phase(s) /\ Ordered(s)
        /\ Sourced(s) /\ SendPhase(s)
    BY DEF NoGapInv, GapInv, SafeInv, CallInv, FlowInv
  <1>0. PICK m, n : m = pending[s][1] /\ n = lastOffset[s] + 1
    OBVIOUS
  <1>1. /\ pending[s] # <<>> /\ m.offset > lastOffset[s] /\ 1 \in 1..Len(pending[s])
        /\ \A i \in 1..Len(pending[s]) : i = 1
    BY <1>0, <1>i, <1>t DEF Phase, SendPhase, Follows
  <1>2. m.offset \in 1..Len(logs[href[s]])
    BY <1>0, <1>1, <1>i DEF Sourced, StoredIn
  <1>3. ASSUME m.offset # n PROVE FALSE
    <2>1. n \in 1..Len(logs[href[s]]) /\ n > lastOffset[s] /\ n > subAt[s] /\ n < m.offset /\ n > after[s]
      BY <1>0, <1>1, <1>2, <1>3, <1>i, <1>t
    <2>2. PICK x : x = logs[href[s]][n]
      OBVIOUS
    <2>3. Holds(s, x) /\ x.offset = n
      BY <2>1, <2>2, <1>i, <1>t DEF HoldsRest, SafeInv, DenseOffsets
    <2>4. ASSUME NEW i \in 1..Len(pending[s]), pending[s][i] = x PROVE FALSE
      BY <2>1, <2>3, <2>4, <1>0, <1>1
    <2>5. ASSUME NEW i \in 1..Len(logCh[s]), logCh[s][i] = x PROVE FALSE
      <3>1. NewTo(logCh[s][i], s)
        BY <2>5, <1>i DEF Ordered
      <3>2. m.offset < n
        BY <3>1, <2>1, <2>3, <2>5, <1>0, <1>1 DEF NewTo
      <3>3. QED
        BY <3>2, <2>1, <1>2
    <2>6. ASSUME NEW i \in 1..Len(inflight[s]), inflight[s][i] = x PROVE FALSE
      <3>1. NewTo(inflight[s][i], s)
        BY <2>6, <1>i DEF Ordered
      <3>2. m.offset < n
        BY <3>1, <2>1, <2>3, <2>6, <1>0, <1>1 DEF NewTo
      <3>3. QED
        BY <3>2, <2>1, <1>2
    <2>7. QED
      BY <2>3, <2>4, <2>5, <2>6 DEF Holds
  <1>4. QED
    BY <1>0, <1>3

\* Sending the next chunk extends what was sent by exactly that chunk.
LEMMA SendEarly ==
    ASSUME TypeOK, TypeOK', SafeInv, FlowInv, NoGapInv, EarlyInv, NEW s \in Rpcs, Send(s),
           UNCHANGED clientVars
    PROVE  EarlyInv'
  <1>t. /\ hpc \in [Rpcs -> {"free", "snapshot", "replay", "check", "subscribe",
                             "live", "send", "unsubscribe", "done"}]
        /\ pending[s] \in Seq(Messages)
        /\ wire \in [Rpcs -> Seq(Messages)] /\ wire[s] \in Seq(Messages)
        /\ lastOffset \in [Rpcs -> Nat] /\ lastOffset[s] \in Nat
    BY DEF TypeOK, ServiceTypeOK
  <1>0. PICK m : m = Head(pending[s])
    OBVIOUS
  <1>1. /\ pending[s] # <<>>
        /\ wire'[s] = Append(wire[s], m)
        /\ lastOffset'[s] = Advance(lastOffset[s], m)
        /\ hpc[s] \in {"send", "replay"} /\ hpc'[s] # "done"
        /\ \A r \in Rpcs \ {s} : /\ hpc'[r] = hpc[r]
                                 /\ lastOffset'[r] = lastOffset[r] /\ wire'[r] = wire[r]
        /\ UNCHANGED <<logs, logOffsets, dpc, href, after, subAt>>
    BY <1>0, <1>t DEF Send, Sending, storeVars, dispatchVars
  <1>2. m \in Messages /\ m = pending[s][1]
    BY <1>0, <1>1, <1>t, TailFacts
  <1>3. subAt[s] = 0 => hpc[s] = "send"
    BY <1>1 DEF NoGapInv, GapInv, Subscribing
  <1>4. subAt[s] = 0 => Follows(m, lastOffset[s]) /\ (IsChunk(m) => m.offset = lastOffset[s] + 1)
    BY <1>2, <1>3, NextChunk DEF FlowInv, SendPhase
  <1>5. ASSUME NEW c \in Clients PROVE EarlyClient(c)'
    <2>0. /\ EarlyClient(c) /\ crpc[c] \in Rpcs /\ cref[c] \in Jobs /\ cursor[c] \in Nat
          /\ logOffsets[cref[c]] \in Nat
      BY DEF EarlyInv, TypeOK, StoreTypeOK
    <2>1. CASE cpc[c] = "connected" /\ crpc[c] = s /\ subAt[s] = 0
      <3>1. PrintedAll(c) /\ WireFills(wire[s], cursor[c], lastOffset[s])
        BY <2>0, <2>1 DEF EarlyClient
      <3>2. WireFills(Append(wire[s], m), cursor[c], Advance(lastOffset[s], m))
        BY <3>1, <2>0, <2>1, <1>2, <1>4, <1>t, WireFillsAppend
      <3>3. WireFills(wire'[crpc'[c]], cursor'[c], lastOffset'[crpc'[c]])
        BY <3>2, <2>1, <1>1 DEF clientVars
      <3>4. PrintedAll(c)'
        BY <3>1 DEF PrintedAll, clientVars
      <3>5. cpc'[c] = "connected" /\ cexit'[c] # "eof" /\ cursor'[c] <= logOffsets'[cref'[c]]
        BY <2>0, <2>1, <1>1 DEF EarlyClient, clientVars
      <3>6. QED
        BY <3>3, <3>4, <3>5 DEF EarlyClient, WireFills, IsChunk
    <2>2. CASE ~(cpc[c] = "connected" /\ crpc[c] = s /\ subAt[s] = 0)
      BY <2>0, <2>2, <1>1, FrameEarly DEF clientVars
    <2>3. QED
      BY <2>1, <2>2
  <1>6. QED
    BY <1>1, <1>5 DEF EarlyInv

\* A client's step: the other clients and their calls are left alone.
LEMMA OneEarly ==
    ASSUME TypeOK, TypeOK', FlowInv, EarlyInv, NEW c \in Clients,
           UNCHANGED <<logs, logOffsets, dpc>>,
           \A d \in Clients \ {c} :
               /\ cpc'[d] = cpc[d] /\ cref'[d] = cref[d] /\ crpc'[d] = crpc[d]
               /\ cursor'[d] = cursor[d] /\ printed'[d] = printed[d] /\ cexit'[d] = cexit[d],
           \A d \in Clients \ {c} :
               cpc[d] = "connected" =>
                 /\ wire'[crpc[d]] = wire[crpc[d]]
                 /\ lastOffset'[crpc[d]] = lastOffset[crpc[d]],
           UNCHANGED subAt, \A s \in Rpcs : hpc[s] = "done" => hpc'[s] = "done",
           \A s \in Rpcs : after'[s] <= logOffsets'[href'[s]],
           EarlyClient(c)'
    PROVE  EarlyInv'
  <1>1. ASSUME NEW d \in Clients, d # c PROVE EarlyClient(d)'
    <2>1. /\ EarlyClient(d) /\ crpc[d] \in Rpcs /\ cref[d] \in Jobs
          /\ logOffsets[cref[d]] \in Nat
      BY DEF EarlyInv, TypeOK, StoreTypeOK
    <2>2. QED
      BY <2>1, <1>1, FrameEarly
  <1>2. QED
    BY <1>1 DEF EarlyInv

\* A client that connects starts a stream at its cursor.
LEMMA ConnectEarly ==
    ASSUME TypeOK, TypeOK', FlowInv, NoGapInv, EarlyInv, NEW c \in Clients, NEW s \in Rpcs,
           Connect(c, s)
    PROVE  EarlyInv'
  <1>t. /\ hpc \in [Rpcs -> {"free", "snapshot", "replay", "check", "subscribe",
                             "live", "send", "unsubscribe", "done"}]
        /\ href \in [Rpcs -> Jobs] /\ after \in [Rpcs -> Nat] /\ lastOffset \in [Rpcs -> Nat]
        /\ cref[c] \in Jobs /\ cursor[c] \in Nat /\ logOffsets[cref[c]] \in Nat
        /\ cpc \in [Clients -> {"idle", "dial", "connected", "exited"}]
        /\ crpc \in [Clients -> Rpcs]
    BY ZenonT(60) DEF TypeOK, ServiceTypeOK, StoreTypeOK
  <1>1. /\ hpc[s] = "free" /\ hpc'[s] = "snapshot" /\ href'[s] = cref[c]
        /\ after'[s] = cursor[c] /\ lastOffset'[s] = cursor[c]
        /\ cpc[c] = "dial" /\ cpc'[c] = "connected" /\ crpc'[c] = s
        /\ UNCHANGED <<logs, logOffsets, dpc, wire, subAt, cref, cursor, printed, cexit>>
        /\ \A r \in Rpcs \ {s} :
               /\ hpc'[r] = hpc[r] /\ href'[r] = href[r] /\ after'[r] = after[r]
               /\ lastOffset'[r] = lastOffset[r]
        /\ \A d \in Clients \ {c} : cpc'[d] = cpc[d] /\ crpc'[d] = crpc[d]
    BY <1>t DEF Connect, StreamJobLogs, storeVars, dispatchVars
  <1>2. subAt'[s] = -1
    BY <1>1 DEF NoGapInv, GapInv, Subscribing
  <1>3. \A d \in Clients \ {c} : cpc[d] = "connected" => crpc[d] # s
    BY <1>1 DEF FlowInv, ReadsCall
  <1>4. EarlyClient(c) /\ cursor[c] <= logOffsets[cref[c]]
    BY DEF EarlyInv, EarlyClient
  <1>5. \A r \in Rpcs : after'[r] <= logOffsets'[href'[r]]
    BY <1>1, <1>4 DEF EarlyInv
  <1>6. EarlyClient(c)'
    BY <1>1, <1>2, <1>4 DEF EarlyClient
  <1>7. \A r \in Rpcs : hpc[r] = "done" => hpc'[r] = "done"
    BY <1>1
  <1>8. QED
    BY <1>1, <1>2, <1>3, <1>5, <1>6, <1>7, <1>t, OneEarly

\* Receiving the next chunk prints it.
LEMMA RecvEarly ==
    ASSUME TypeOK, TypeOK', FlowInv, SafeInv, EarlyInv, NEW c \in Clients, Recv(c)
    PROVE  EarlyInv'
  <1>0. PICK s, m : s = crpc[c] /\ m = Head(wire[s])
    OBVIOUS
  <1>t. /\ s \in Rpcs /\ wire \in [Rpcs -> Seq(Messages)] /\ wire[s] \in Seq(Messages)
        /\ cursor \in [Clients -> Nat] /\ cursor[c] \in Nat
        /\ printed \in [Clients -> Seq(Chunks)] /\ printed[c] \in Seq(Chunks)
        /\ lastOffset[s] \in Nat /\ cref[c] \in Jobs /\ logOffsets[cref[c]] \in Nat
        /\ crpc \in [Clients -> Rpcs]
    BY <1>0, ZenonT(60) DEF TypeOK, ServiceTypeOK, StoreTypeOK
  <1>1. /\ cpc[c] = "connected" /\ wire[s] # <<>>
        /\ wire'[s] = Tail(wire[s]) /\ \A r \in Rpcs \ {s} : wire'[r] = wire[r]
        /\ cursor'[c] = Advance(cursor[c], m)
        /\ printed'[c] = IF m.offset > cursor[c] /\ IsChunk(m)
                           THEN Append(printed[c], m) ELSE printed[c]
        /\ \A d \in Clients \ {c} : cursor'[d] = cursor[d] /\ printed'[d] = printed[d]
        /\ UNCHANGED <<logs, logOffsets, dpc, hpc, href, after, lastOffset, subAt,
                       cpc, cref, crpc, cexit>>
    BY <1>0, <1>t DEF Recv, storeVars, dispatchVars, IsChunk
  <1>r. /\ href[s] = cref[c] /\ Sourced(s)
        /\ \A d \in Clients : cpc[d] = "connected" /\ crpc[d] = s => d = c
        /\ WireInOrder(wire[s], cursor[c])
        /\ WireEndsAt(wire[s], cursor[c], lastOffset[s])
    BY <1>0, <1>1, <1>t DEF FlowInv, ReadsCall
  <1>2. /\ m = wire[s][1] /\ 1 \in 1..Len(wire[s]) /\ m \in Messages /\ m.offset \in Nat
        /\ IF IsChunk(m) THEN m.offset > cursor[c] ELSE m.offset <= cursor[c]
    BY <1>0, <1>1, <1>t, <1>r, TailFacts, MessageFacts, WireTail
  <1>e. EarlyClient(c)
    BY DEF EarlyInv
  <1>3. cursor'[c] <= logOffsets[cref[c]]
    <2>1. CASE IsChunk(m)
      <3>1. m.offset \in 1..Len(logs[cref[c]]) /\ Len(logs[cref[c]]) = logOffsets[cref[c]]
        BY <2>1, <1>2, <1>r, <1>t DEF Sourced, StoredIn, SafeInv, DenseOffsets
      <3>2. QED
        BY <3>1, <2>1, <1>1, <1>2, <1>t DEF Advance
    <2>2. CASE ~IsChunk(m)
      BY <2>2, <1>1, <1>2, <1>e, <1>t DEF Advance, EarlyClient
    <2>3. QED
      BY <2>1, <2>2
  <1>4. ASSUME subAt[s] = 0
        PROVE  PrintedAll(c)' /\ WireFills(wire'[s], cursor'[c], lastOffset[s])
    <2>1. PrintedAll(c) /\ WireFills(wire[s], cursor[c], lastOffset[s])
      BY <1>0, <1>1, <1>4, <1>e DEF EarlyClient
    <2>2. /\ WireFills(wire'[s], cursor'[c], lastOffset[s])
          /\ IsChunk(m) => m.offset = cursor[c] + 1
      BY <2>1, <1>0, <1>1, <1>r, <1>t, WireFillsTail
    <2>3. CASE IsChunk(m)
      <3>1. cursor'[c] = m.offset /\ m.offset = cursor[c] + 1 /\ printed'[c] = Append(printed[c], m)
        BY <2>2, <2>3, <1>1, <1>2, <1>t DEF Advance
      <3>2. m \in Chunks
        BY <2>3, <1>2 DEF Messages, Chunks, IsChunk
      <3>3. /\ Len(Append(printed[c], m)) = Len(printed[c]) + 1
            /\ \A i \in 1..Len(Append(printed[c], m)) :
                 \/ i \in 1..Len(printed[c]) /\ Append(printed[c], m)[i] = printed[c][i]
                 \/ i = Len(printed[c]) + 1 /\ Append(printed[c], m)[i] = m
        BY <3>2, <1>t
      <3>4. PrintedAll(c)'
        BY <3>1, <3>3, <2>1 DEF PrintedAll
      <3>5. QED
        BY <3>4, <2>2
    <2>4. CASE ~IsChunk(m)
      <3>1. cursor'[c] = cursor[c] /\ printed'[c] = printed[c]
        BY <2>4, <1>1, <1>2, <1>t DEF Advance
      <3>2. QED
        BY <3>1, <2>1, <2>2 DEF PrintedAll
    <2>5. QED
      BY <2>3, <2>4
  <1>5. EarlyClient(c)'
    <2>1. /\ cursor'[c] <= logOffsets'[cref'[c]] /\ cpc'[c] = "connected" /\ cexit'[c] # "eof"
          /\ crpc'[c] = s /\ lastOffset' = lastOffset /\ subAt' = subAt
      BY <1>0, <1>1, <1>3, <1>e DEF EarlyClient
    <2>2. QED
      BY <2>1, <1>4 DEF EarlyClient, WireFills, IsChunk
  <1>6. \A r \in Rpcs : after'[r] <= logOffsets'[href'[r]]
    BY <1>1 DEF EarlyInv
  <1>7. \A d \in Clients \ {c} : cpc[d] = "connected" => wire'[crpc[d]] = wire[crpc[d]]
    BY <1>1, <1>r, <1>t
  <1>8. QED
    BY <1>1, <1>5, <1>6, <1>7, OneEarly

\* The end of the stream of a call that has sent everything.
LEMMA EofEarly ==
    ASSUME TypeOK, TypeOK', SafeInv, FlowInv, NoGapInv, EarlyInv, NEW c \in Clients, RecvEOF(c)
    PROVE  EarlyInv'
  <1>0. PICK s : s = crpc[c]
    OBVIOUS
  <1>t. /\ s \in Rpcs /\ cpc \in [Clients -> {"idle", "dial", "connected", "exited"}]
        /\ cexit \in [Clients -> {"none", "eof", "err", "interrupt"}]
        /\ cursor[c] \in Nat /\ lastOffset[s] \in Nat /\ cref[c] \in Jobs
        /\ logOffsets[cref[c]] \in Nat
    BY <1>0, ZenonT(60) DEF TypeOK, ServiceTypeOK, StoreTypeOK
  <1>1. /\ cpc[c] = "connected" /\ wire[s] = <<>> /\ hpc[s] = "done" /\ hret[s] = "nil"
        /\ cpc'[c] = "exited" /\ cexit'[c] = "eof"
        /\ \A d \in Clients \ {c} : cpc'[d] = cpc[d] /\ cexit'[d] = cexit[d]
        /\ UNCHANGED <<logs, logOffsets, dpc, hpc, href, after, wire, lastOffset, subAt,
                       cref, crpc, cursor, printed>>
    BY <1>0, <1>t DEF RecvEOF, Exit, storeVars, dispatchVars, handlerVars
  <1>e. EarlyClient(c)
    BY DEF EarlyInv
  <1>2. ASSUME subAt[s] = 0
        PROVE  dpc[cref[c]] = "done" /\ PrintedAll(c) /\ cursor[c] = Len(logs[cref[c]])
    <2>1. PrintedAll(c) /\ WireFills(wire[s], cursor[c], lastOffset[s])
      BY <1>0, <1>1, <1>2, <1>e DEF EarlyClient
    <2>2. href[s] = cref[c] /\ cursor[c] <= lastOffset[s]
      BY <1>0, <1>1 DEF FlowInv, ReadsCall, WireEndsAt
    <2>3. lastOffset[s] = cursor[c]
      <3>1. Len(wire[s]) = 0
        BY <1>1
      <3>2. \A n \in (cursor[c] + 1)..lastOffset[s] : FALSE
        BY <2>1, <3>1 DEF WireFills
      <3>3. QED
        BY <3>2, <2>2, <1>t
    <2>4. SentRest(s)
      BY <1>1, <1>2, <1>t DEF NoGapInv, GapInv
    <2>5. Len(logs[cref[c]]) = logOffsets[cref[c]] /\ cursor[c] <= logOffsets[cref[c]]
      BY <1>e, <1>t DEF SafeInv, DenseOffsets, EarlyClient
    <2>6. dpc[cref[c]] = "done" /\ cursor[c] = Len(logs[cref[c]])
      BY <2>2, <2>3, <2>4, <2>5, <1>2, <1>t DEF SentRest
    <2>7. QED
      BY <2>1, <2>6
  <1>3. EarlyClient(c)'
    BY <1>0, <1>1, <1>2, <1>e DEF EarlyClient, PrintedAll
  <1>4. \A r \in Rpcs : after'[r] <= logOffsets'[href'[r]]
    BY <1>1 DEF EarlyInv
  <1>5. QED
    BY <1>1, <1>3, <1>4, OneEarly

\* Starting at the beginning of the log, giving up, and losing the connection.
LEMMA LeaveEarly ==
    ASSUME TypeOK, TypeOK', FlowInv, EarlyInv, StartOffsets = {0}, NEW c \in Clients,
           \/ \E j \in Jobs, off \in StartOffsets : StartClient(c, j, off)
           \/ ConnectFails(c) \/ StreamInterrupted(c) \/ StreamFails(c) \/ Interrupt(c)
    PROVE  EarlyInv'
  <1>t. /\ cpc \in [Clients -> {"idle", "dial", "connected", "exited"}]
        /\ cexit \in [Clients -> {"none", "eof", "err", "interrupt"}]
        /\ cref \in [Clients -> Jobs] /\ cursor \in [Clients -> Nat]
        /\ crpc \in [Clients -> Rpcs] /\ wire \in [Rpcs -> Seq(Messages)]
        /\ logOffsets \in [Jobs -> Nat]
    BY DEF TypeOK, ServiceTypeOK, StoreTypeOK
  <1>e. EarlyClient(c)
    BY DEF EarlyInv
  <1>1. /\ UNCHANGED <<logs, logOffsets, dpc, hpc, href, after, lastOffset, subAt, crpc, printed>>
        /\ \A d \in Clients \ {c} : /\ cpc'[d] = cpc[d] /\ cexit'[d] = cexit[d]
                                    /\ cref'[d] = cref[d] /\ cursor'[d] = cursor[d]
        /\ \A r \in Rpcs : wire'[r] = wire[r] \/ (cpc[c] = "connected" /\ r = crpc[c])
    BY <1>t DEF StartClient, ConnectFails, StreamInterrupted, StreamFails, Interrupt, Teardown, Exit,
                storeVars, dispatchVars, handlerVars
  <1>2. /\ cpc'[c] \in {"dial", "exited"} /\ cexit'[c] # "eof"
        /\ cursor'[c] <= logOffsets[cref'[c]]
    <2>1. ASSUME NEW j \in Jobs, NEW off \in StartOffsets, StartClient(c, j, off)
          PROVE  /\ cpc'[c] \in {"dial", "exited"} /\ cexit'[c] # "eof"
                 /\ cursor'[c] <= logOffsets[cref'[c]]
      <3>1. cpc[c] = "idle" /\ cpc'[c] = "dial" /\ cexit' = cexit /\ cursor'[c] = 0 /\ cref'[c] = j
        BY <2>1, <1>t DEF StartClient
      <3>2. QED
        BY <3>1, <1>e, <1>t DEF EarlyClient
    <2>2. CASE ConnectFails(c) \/ StreamFails(c) \/ Interrupt(c) \/ StreamInterrupted(c)
      <3>1. /\ cpc'[c] \in {"dial", "exited"} /\ cursor' = cursor /\ cref' = cref
            /\ cexit'[c] \in {"err", "interrupt"} \/ (cexit' = cexit /\ cpc[c] = "connected")
        BY <2>2, <1>t DEF ConnectFails, StreamFails, Interrupt, StreamInterrupted, Exit
      <3>2. QED
        BY <3>1, <1>e, <1>t DEF EarlyClient
    <2>3. QED
      BY <2>1, <2>2
  <1>3. EarlyClient(c)'
    BY <1>1, <1>2 DEF EarlyClient
  <1>4. \A d \in Clients \ {c} : cpc[d] = "connected" => wire'[crpc[d]] = wire[crpc[d]]
    <2>1. \A d \in Clients : cpc[d] = "connected" /\ cpc[c] = "connected" /\ crpc[d] = crpc[c] => d = c
      BY DEF FlowInv, ReadsCall
    <2>2. QED
      BY <2>1, <1>1, <1>t
  <1>5. \A r \in Rpcs : after'[r] <= logOffsets'[href'[r]]
    BY <1>1 DEF EarlyInv
  <1>6. QED
    BY <1>1, <1>3, <1>4, <1>5, OneEarly

\* At first nobody has connected.
LEMMA EarlyInit == Init /\ StartOffsets = {0} => EarlyInv
  <1> SUFFICES ASSUME Init PROVE EarlyInv
    OBVIOUS
  <1>1. (CHOOSE j \in Jobs : TRUE) \in Jobs
    BY JobsAssumption
  <1>2. \A s \in Rpcs : after[s] <= logOffsets[href[s]]
    BY <1>1 DEF Init, StoreInit, ServiceInit
  <1>3. \A c \in Clients : EarlyClient(c)
    BY <1>1 DEF Init, StoreInit, EarlyClient
  <1>4. QED
    BY <1>2, <1>3 DEF EarlyInv

\* A step that finds room in the channels keeps EarlyInv.
LEMMA EarlyNext ==
    StartOffsets = {0} /\ TypeOK /\ SafeInv /\ FlowInv /\ NoGapInv /\ EarlyInv /\ [Next]_vars
      => EarlyInv'
  <1> SUFFICES ASSUME StartOffsets = {0}, TypeOK, SafeInv, FlowInv, NoGapInv, EarlyInv, [Next]_vars
               PROVE  EarlyInv'
    OBVIOUS
  <1>0. TypeOK'
    BY TypeNext
  <1>1. ASSUME NEW j \in Jobs, Submit(j) \/ Dispatch(j)
        PROVE  EarlyInv'
    BY <1>0, <1>1, DispatchEarly DEF Submit, Dispatch
  <1>2. CASE UNCHANGED <<storeVars, dispatchVars, handlerVars, clientVars>>
    <2>1. LogsOpen
      BY <1>2 DEF LogsOpen, storeVars, dispatchVars, TypeOK, StoreTypeOK
    <2>2. QED
      BY <2>1, <1>0, <1>2, ServerEarly DEF handlerVars
  <1>3. ASSUME NEW s \in Rpcs, Broadcast(s)
        PROVE  EarlyInv'
    BY <1>0, <1>3, QuietEarly DEF Broadcast, BroadcastStep, BroadcastOne, dispatchVars
  <1>4. ASSUME NEW s \in Rpcs, Handler(s)
        PROVE  EarlyInv'
    <2>1. UNCHANGED <<logs, logOffsets, dpc>>
      BY <1>4 DEF Handler, HandlerStep, SnapshotLogs, SkipStored, Send, SendFails, ReplayDone,
                  CheckState, ChannelClosed, HeartbeatTick, ContextDone, ReceiveChunk, Subscribe,
                  SubscribeLogs, Unsubscribe, UnsubscribeLogs, storeVars, dispatchVars
    <2>2. QED
      BY <2>1, <1>0, <1>4, QuietEarly, SubscribeEarly, SendEarly DEF Handler, HandlerStep
  <1>5. ASSUME NEW c \in Clients, Client(c)
        PROVE  EarlyInv'
    BY <1>0, <1>5, ConnectEarly, RecvEarly, EofEarly, LeaveEarly DEF Client
  <1>6. QED
    BY <1>1, <1>2, <1>3, <1>4, <1>5 DEF Next, Quiescent, Worker, vars

\* A client that has read to the end of an early stream has printed it all.
LEMMA EarlyMeaning == TypeOK /\ FlowInv /\ (StartOffsets = {0} => EarlyInv) => EarlyTailIsComplete
  <1> SUFFICES ASSUME TypeOK, FlowInv, EarlyInv, NEW c \in Clients,
                      cexit[c] = "eof", subAt[crpc[c]] = 0
               PROVE  printed[c] = logs[cref[c]]
    BY DEF EarlyTailIsComplete
  <1>1. /\ printed[c] \in Seq(Chunks) /\ logs[cref[c]] \in Seq(Chunks)
    BY DEF TypeOK, StoreTypeOK
  <1>2. PrintedAll(c) /\ cursor[c] = Len(logs[cref[c]])
    BY DEF EarlyInv, EarlyClient
  <1>3. Len(printed[c]) = Len(logs[cref[c]])
    BY <1>2 DEF PrintedAll
  <1>4. \A i \in 1..Len(printed[c]) : printed[c][i] = logs[cref[c]][i]
    BY <1>2 DEF PrintedAll, FlowInv, Printed, StoredIn
  <1>5. QED
    <2>1. PICK p, q : p = printed[c] /\ q = logs[cref[c]]
      OBVIOUS
    <2>2. p \in Seq(Chunks) /\ q \in Seq(Chunks) /\ Len(p) = Len(q) /\ \A i \in 1..Len(p) : p[i] = q[i]
      BY <2>1, <1>1, <1>3, <1>4
    <2>3. p = q
      BY <2>2
    <2>4. QED
      BY <2>1, <2>3

(***************************************************************************)
(* As long as no channel overflows, a client that began at the start of    *)
(* the log, was subscribed before there was any output and read to the end *)
(* of the stream has printed the whole log, whatever reconnects it took.   *)
(***************************************************************************)
THEOREM EarlyTailsAreComplete == Spec /\ []NoOverflow => []EarlyTailIsComplete
  <1>1. Init => TypeOK /\ SafeInv /\ FlowInv /\ NoGapInv /\ (StartOffsets = {0} => EarlyInv)
    BY TypeInit, SafeInit, FlowInit, GapInit, EarlyInit
  <1>2. /\ TypeOK /\ SafeInv /\ FlowInv /\ NoGapInv /\ (StartOffsets = {0} => EarlyInv)
        /\ NoOverflow /\ [Next]_vars
        => (TypeOK /\ SafeInv /\ FlowInv /\ NoGapInv /\ (StartOffsets = {0} => EarlyInv))'
    BY TypeNext, SafeNext, FlowNext, GapNext, EarlyNext
  <1>3. QED
    BY <1>1, <1>2, EarlyMeaning, PTL DEF Spec

-----------------------------------------------------------------------------
(* A channel that can hold twice the output never overflows.               *)

MaxOutput == MaxLines["stdout"] + MaxLines["stderr"]
Roomy == 2 * MaxOutput <= ChanCap

\* The lines collected, and those of them still to be forwarded.
Read(j) == pos[j]["stdout"] + pos[j]["stderr"]
ToForward(j, fd) == IF col[j][fd] = "forward" THEN 1 ELSE 0
Forwarded(j) == Read(j) - ToForward(j, "stdout") - ToForward(j, "stderr")

HasTerminal(q) == \E i \in 1..Len(q) : q[i].terminal

\* Every line is appended once when it is forwarded, and once more with the
\* terminal response.
Balance(j) == dpc[j] \in {"none", "start", "call", "recv"} =>
    /\ Len(logs[j]) + Len(rpc[j]) <= Forwarded(j) + 1
    /\ ~HasTerminal(rpc[j]) => Len(logs[j]) + Len(rpc[j]) <= Forwarded(j)
CountInv(j) ==
    /\ \A fd \in Fds : pos[j][fd] <= MaxLines[fd]
    /\ Len(chunks[j]) = Read(j)
    /\ \A i \in 1..Len(rpc[j]) : ~rpc[j][i].terminal => Len(rpc[j][i].logs) = 1
    /\ Balance(j)
    /\ Len(logs[j]) <= 2 * Read(j)

\* What is queued for a call is no more than what was appended.
Packed(s) ==
    /\ \A i \in 1..Len(logCh[s]) : logCh[s][i].offset >= i
    /\ \A i \in 1..Len(inflight[s]) : inflight[s][i].offset >= Len(logCh[s]) + i

RoomInv == (\A j \in Jobs : CountInv(j)) /\ (\A s \in Rpcs : Packed(s))

\* What the type invariant says about one job's counters.
LEMMA CountTypes ==
    ASSUME TypeOK, NEW j \in Jobs
    PROVE  /\ \A fd \in Fds : pos[j][fd] \in Nat
           /\ Read(j) \in Nat /\ Forwarded(j) \in Int /\ Forwarded(j) <= Read(j)
           /\ rpc[j] \in Seq(Responses) /\ Len(rpc[j]) \in Nat
           /\ logs[j] \in Seq(Chunks) /\ Len(logs[j]) \in Nat
           /\ chunks[j] \in Seq(Lines) /\ Len(chunks[j]) \in Nat
  <1>1. \A fd \in Fds : pos[j][fd] \in Nat
    BY DEF TypeOK, WorkerTypeOK
  <1>2. pos[j]["stdout"] \in Nat /\ pos[j]["stderr"] \in Nat
    BY <1>1 DEF Fds
  <1>3. ToForward(j, "stdout") \in {0, 1} /\ ToForward(j, "stderr") \in {0, 1}
    BY DEF ToForward
  <1>4. rpc[j] \in Seq(Responses) /\ logs[j] \in Seq(Chunks) /\ chunks[j] \in Seq(Lines)
    BY DEF TypeOK, WorkerTypeOK, StoreTypeOK
  <1>5. Read(j) \in Nat /\ Forwarded(j) \in Int /\ Forwarded(j) <= Read(j)
    BY <1>2, <1>3 DEF Read, Forwarded
  <1>6. QED
    BY <1>1, <1>4, <1>5

\* What the collector of one descriptor does to the counters.
LEMMA CountStep ==
    ASSUME TypeOK, NEW j \in Jobs, NEW fd \in Fds, NEW d \in 0..1,
           pos'[j][fd] = pos[j][fd] + d,
           \A e \in Fds \ {fd} : pos'[j][e] = pos[j][e] /\ col'[j][e] = col[j][e]
    PROVE  /\ Read(j)' = Read(j) + d
           /\ Forwarded(j)' = Forwarded(j) + d + ToForward(j, fd) - ToForward(j, fd)'
  <1>1. pos[j]["stdout"] \in Nat /\ pos[j]["stderr"] \in Nat
    BY CountTypes DEF Fds
  <1>2. \A e \in Fds : ToForward(j, e) \in Int /\ ToForward(j, e)' \in Int
    BY DEF ToForward
  <1>3. \A e \in Fds \ {fd} : ToForward(j, e)' = ToForward(j, e)
    BY DEF ToForward
  <1>4. CASE fd = "stdout"
    BY <1>1, <1>2, <1>3, <1>4 DEF Read, Forwarded, Fds
  <1>5. CASE fd = "stderr"
    BY <1>1, <1>2, <1>3, <1>5 DEF Read, Forwarded, Fds
  <1>6. QED
    BY <1>4, <1>5 DEF Fds

Counted == \A j \in Jobs : CountInv(j)

\* A step of one job's dispatch or worker counts for that job only.
LEMMA OneCount ==
    ASSUME Counted, NEW j \in Jobs, CountInv(j)',
           \A k \in Jobs \ {j} :
               /\ pos'[k] = pos[k] /\ col'[k] = col[k] /\ chunks'[k] = chunks[k]
               /\ rpc'[k] = rpc[k] /\ logs'[k] = logs[k] /\ dpc'[k] = dpc[k]
    PROVE  Counted'
  <1>1. ASSUME NEW k \in Jobs, k # j PROVE CountInv(k)'
    <2>1. CountInv(k)
      BY DEF Counted
    <2>2. /\ pos'[k] = pos[k] /\ col'[k] = col[k] /\ chunks'[k] = chunks[k]
          /\ rpc'[k] = rpc[k] /\ logs'[k] = logs[k] /\ dpc'[k] = dpc[k]
      BY <1>1
    <2>3. Read(k)' = Read(k) /\ Forwarded(k)' = Forwarded(k)
      BY <2>2 DEF Read, Forwarded, ToForward
    <2>4. QED
      BY <2>1, <2>2, <2>3 DEF CountInv, Balance, HasTerminal
  <1>2. QED
    BY <1>1 DEF Counted

\* The worker: what it has forwarded, and the terminal response, is on the
\* stream to the control plane or was received.
LEMMA WorkerCount ==
    ASSUME TypeOK, AllOutput, Counted, NEW j \in Jobs, WorkerStep(j), UNCHANGED <<logs, dpc>>
    PROVE  Counted'
  <1>t. /\ pos \in [Jobs -> [Fds -> Nat]] /\ col \in [Jobs -> [Fds -> {"read", "forward", "done"}]]
        /\ chunks \in [Jobs -> Seq(Lines)] /\ rpc \in [Jobs -> Seq(Responses)]
        /\ run \in [Jobs -> {"idle", "prepare", "exec", "sent", "gone"}]
        /\ MaxLines \in [Fds -> Nat]
    BY MaxLinesAssumption DEF TypeOK, WorkerTypeOK
  <1>i. CountInv(j) /\ OutputInv(j)
    BY DEF Counted, AllOutput
  <1>n. /\ Read(j) \in Nat /\ Forwarded(j) \in Int /\ Len(rpc[j]) \in Nat /\ Len(logs[j]) \in Nat
        /\ rpc[j] \in Seq(Responses) /\ chunks[j] \in Seq(Lines) /\ Len(chunks[j]) \in Nat
        /\ \A fd \in Fds : pos[j][fd] \in Nat
    BY CountTypes
  <1>1. CASE StartProcess(j) \/ RejectAssignment(j)
    <2>1. UNCHANGED <<pos, col, chunks, rpc>>
      BY <1>1 DEF StartProcess, RejectAssignment
    <2>2. CountInv(j)'
      BY <2>1, <1>i DEF CountInv, Balance, Read, Forwarded, ToForward, HasTerminal
    <2>3. QED
      BY <2>1, <2>2, OneCount
  <1>2. ASSUME NEW fd \in Fds, CollectLine(j, fd)
        PROVE  Counted'
    <2>1. /\ pos'[j][fd] = pos[j][fd] + 1 /\ pos[j][fd] < MaxLines[fd]
          /\ col[j][fd] = "read" /\ col'[j][fd] = "forward"
          /\ \A e \in Fds \ {fd} : pos'[j][e] = pos[j][e] /\ col'[j][e] = col[j][e]
          /\ rpc' = rpc
          /\ \A k \in Jobs \ {j} : pos'[k] = pos[k] /\ col'[k] = col[k] /\ chunks'[k] = chunks[k]
      BY <1>2, <1>t DEF CollectLine
    <2>2. ToForward(j, fd) = 0 /\ ToForward(j, fd)' = 1
      BY <2>1 DEF ToForward
    <2>3. Read(j)' = Read(j) + 1 /\ Forwarded(j)' = Forwarded(j)
      <3>1. /\ Read(j)' = Read(j) + 1
            /\ Forwarded(j)' = Forwarded(j) + 1 + ToForward(j, fd) - ToForward(j, fd)'
        BY <2>1, CountStep
      <3>2. QED
        BY <3>1, <2>2, <1>n
    <2>4. Len(chunks'[j]) = Len(chunks[j]) + 1
      <3>1. <<fd, pos[j][fd] + 1>> \in Lines
        BY <1>n DEF Lines
      <3>2. chunks'[j] = Append(chunks[j], <<fd, pos[j][fd] + 1>>)
        BY <1>2, <1>t DEF CollectLine
      <3>3. QED
        BY <3>1, <3>2, <1>n
    <2>5. \A e \in Fds : pos'[j][e] <= MaxLines[e]
      <3>1. ASSUME NEW e \in Fds PROVE pos'[j][e] <= MaxLines[e]
        <4>1. pos[j][e] <= MaxLines[e] /\ pos[j][e] \in Nat /\ MaxLines[e] \in Nat
          BY <1>i, <1>n, <1>t DEF CountInv
        <4>2. QED
          BY <4>1, <2>1
      <3>2. QED
        BY <3>1
    <2>6. CountInv(j)'
      <3>1. Balance(j)'
        BY <2>1, <2>3, <1>i DEF CountInv, Balance, HasTerminal
      <3>2. Len(logs'[j]) <= 2 * Read(j)'
        BY <2>3, <1>i, <1>n DEF CountInv
      <3>3. Len(chunks'[j]) = Read(j)'
        BY <2>3, <2>4, <1>i DEF CountInv
      <3>4. QED
        BY <3>1, <3>2, <3>3, <2>1, <2>5, <1>i DEF CountInv
    <2>7. QED
      BY <2>1, <2>6, OneCount
  <1>3. ASSUME NEW fd \in Fds, ForwardLine(j, fd)
        PROVE  Counted'
    <2>0. PICK m : m = [logs |-> << <<fd, pos[j][fd]>> >>, terminal |-> FALSE, result |-> NoResult]
      OBVIOUS
    <2>1. /\ pos' = pos /\ chunks' = chunks /\ rpc'[j] = Append(rpc[j], m)
          /\ col[j][fd] = "forward" /\ col'[j][fd] = "read"
          /\ \A e \in Fds \ {fd} : col'[j][e] = col[j][e]
          /\ \A k \in Jobs \ {j} : rpc'[k] = rpc[k] /\ col'[k] = col[k]
      BY <2>0, <1>3, <1>t DEF ForwardLine
    <2>2. ToForward(j, fd) = 1 /\ ToForward(j, fd)' = 0
      BY <2>1 DEF ToForward
    <2>3. Read(j)' = Read(j) /\ Forwarded(j)' = Forwarded(j) + 1
      <3>1. /\ Read(j)' = Read(j) + 0
            /\ Forwarded(j)' = Forwarded(j) + 0 + ToForward(j, fd) - ToForward(j, fd)'
        BY <2>1, <1>n, CountStep
      <3>2. QED
        BY <3>1, <2>2, <1>n
    <2>4. ~m.terminal /\ Len(m.logs) = 1
      BY <2>0
    <2>5. /\ Len(rpc'[j]) = Len(rpc[j]) + 1
          /\ \A i \in 1..Len(rpc[j]) : i \in 1..Len(rpc'[j]) /\ rpc'[j][i] = rpc[j][i]
          /\ \A i \in 1..Len(rpc'[j]) : i \in 1..Len(rpc[j]) \/ rpc'[j][i] = m
      BY <2>1, <1>n
    <2>6. HasTerminal(rpc'[j]) <=> HasTerminal(rpc[j])
      BY <2>4, <2>5 DEF HasTerminal
    <2>7. \A i \in 1..Len(rpc'[j]) : ~rpc'[j][i].terminal => Len(rpc'[j][i].logs) = 1
      BY <2>4, <2>5, <1>i DEF CountInv
    <2>8. CountInv(j)'
      <3>0. PICK a, b, f : a = Len(logs[j]) /\ b = Len(rpc[j]) /\ f = Forwarded(j)
        OBVIOUS
      <3>n. a \in Nat /\ b \in Nat /\ f \in Int /\ Len(logs'[j]) = a /\ dpc'[j] = dpc[j]
        BY <3>0, <1>n
      <3>b. dpc[j] \in {"none", "start", "call", "recv"} =>
              a + b <= f + 1 /\ (~HasTerminal(rpc[j]) => a + b <= f)
        BY <3>0, <1>i DEF CountInv, Balance
      <3>c. Len(rpc'[j]) = b + 1 /\ Forwarded(j)' = f + 1
        BY <3>0, <2>3, <2>5
      <3>1. Balance(j)'
        BY <3>n, <3>b, <3>c, <2>6 DEF Balance
      <3>2. QED
        BY <3>1, <2>1, <2>3, <2>7, <1>i DEF CountInv
    <2>9. QED
      BY <2>1, <2>8, OneCount
  <1>4. ASSUME NEW fd \in Fds, CollectorEOF(j, fd)
        PROVE  Counted'
    <2>1. /\ pos' = pos /\ chunks' = chunks /\ rpc' = rpc
          /\ col[j][fd] = "read" /\ col'[j][fd] = "done"
          /\ \A e \in Fds \ {fd} : col'[j][e] = col[j][e]
          /\ \A k \in Jobs \ {j} : col'[k] = col[k]
      BY <1>4, <1>t DEF CollectorEOF
    <2>2. Read(j)' = Read(j) /\ Forwarded(j)' = Forwarded(j)
      <3>1. /\ Read(j)' = Read(j) + 0
            /\ Forwarded(j)' = Forwarded(j) + 0 + ToForward(j, fd) - ToForward(j, fd)'
        BY <2>1, <1>n, CountStep
      <3>2. ToForward(j, fd) = 0 /\ ToForward(j, fd)' = 0
        BY <2>1 DEF ToForward
      <3>3. QED
        BY <3>1, <3>2, <1>n
    <2>3. CountInv(j)'
      BY <2>1, <2>2, <1>i DEF CountInv, Balance, HasTerminal
    <2>4. QED
      BY <2>1, <2>3, OneCount
  <1>5. ASSUME NEW code \in ExitCodes, SendTerminal(j, code)
        PROVE  Counted'
    <2>0. PICK m : m = [logs |-> chunks[j], terminal |-> TRUE,
                        result |-> [state |-> finalizeState(code), exitCode |-> code]]
      OBVIOUS
    <2>1. /\ pos' = pos /\ col' = col /\ chunks' = chunks /\ rpc'[j] = Append(rpc[j], m)
          /\ run[j] = "exec"
          /\ \A k \in Jobs \ {j} : rpc'[k] = rpc[k]
      BY <2>0, <1>5, <1>t DEF SendTerminal
    <2>2. m.terminal
      BY <2>0
    <2>3. /\ Len(rpc'[j]) = Len(rpc[j]) + 1 /\ Len(rpc'[j]) \in 1..Len(rpc'[j])
          /\ rpc'[j][Len(rpc'[j])] = m
          /\ \A i \in 1..Len(rpc'[j]) :
               (i \in 1..Len(rpc[j]) /\ rpc'[j][i] = rpc[j][i]) \/ rpc'[j][i] = m
      BY <2>1, <1>n
    <2>4. ~HasTerminal(rpc[j]) /\ HasTerminal(rpc'[j])
      BY <2>1, <2>2, <2>3, <1>i DEF HasTerminal, OutputInv, Ended
    <2>5. Read(j)' = Read(j) /\ Forwarded(j)' = Forwarded(j)
      BY <2>1 DEF Read, Forwarded, ToForward
    <2>6. \A i \in 1..Len(rpc'[j]) : ~rpc'[j][i].terminal => Len(rpc'[j][i].logs) = 1
      BY <2>2, <2>3, <1>i DEF CountInv
    <2>7. CountInv(j)'
      <3>0. PICK a, b, f : a = Len(logs[j]) /\ b = Len(rpc[j]) /\ f = Forwarded(j)
        OBVIOUS
      <3>n. a \in Nat /\ b \in Nat /\ f \in Int /\ Len(logs'[j]) = a /\ dpc'[j] = dpc[j]
        BY <3>0, <1>n
      <3>b. dpc[j] \in {"none", "start", "call", "recv"} =>
              a + b <= f + 1 /\ (~HasTerminal(rpc[j]) => a + b <= f)
        BY <3>0, <1>i DEF CountInv, Balance
      <3>c. Len(rpc'[j]) = b + 1 /\ Forwarded(j)' = f
        BY <3>0, <2>3, <2>5
      <3>1. Balance(j)'
        BY <3>n, <3>b, <3>c, <2>4 DEF Balance
      <3>2. QED
        BY <3>1, <2>1, <2>5, <2>6, <1>i DEF CountInv
    <2>8. QED
      BY <2>1, <2>7, OneCount
  <1>6. CASE WorkerStreamBreaks(j)
    <2>1. PICK n \in 0..Len(rpc[j]) : rpc'[j] = SubSeq(rpc[j], 1, n)
      BY <1>6, <1>t DEF WorkerStreamBreaks
    <2>2. /\ UNCHANGED <<pos, col, chunks>>
          /\ \A k \in Jobs \ {j} : rpc'[k] = rpc[k]
      BY <1>6, <1>t DEF WorkerStreamBreaks
    <2>3. /\ Len(rpc'[j]) = n
          /\ \A i \in 1..n : i \in 1..Len(rpc[j]) /\ rpc'[j][i] = rpc[j][i]
      BY <2>1, <1>n
    <2>4. HasTerminal(rpc[j]) /\ ~HasTerminal(rpc'[j]) => n < Len(rpc[j])
      BY <2>3, <1>n DEF HasTerminal
    <2>5. Read(j)' = Read(j) /\ Forwarded(j)' = Forwarded(j)
      BY <2>2 DEF Read, Forwarded, ToForward
    <2>6. \A i \in 1..Len(rpc'[j]) : ~rpc'[j][i].terminal => Len(rpc'[j][i].logs) = 1
      BY <2>3, <1>i DEF CountInv
    <2>7. CountInv(j)'
      <3>0. PICK a, b, f : a = Len(logs[j]) /\ b = Len(rpc[j]) /\ f = Forwarded(j)
        OBVIOUS
      <3>n. a \in Nat /\ b \in Nat /\ f \in Int /\ Len(logs'[j]) = a /\ dpc'[j] = dpc[j]
        BY <3>0, <1>n
      <3>b. dpc[j] \in {"none", "start", "call", "recv"} =>
              a + b <= f + 1 /\ (~HasTerminal(rpc[j]) => a + b <= f)
        BY <3>0, <1>i DEF CountInv, Balance
      <3>c. Len(rpc'[j]) = n /\ n \in Nat /\ n <= b /\ Forwarded(j)' = f
        BY <3>0, <2>1, <2>3, <2>5
      <3>d. HasTerminal(rpc[j]) /\ ~HasTerminal(rpc'[j]) => n < b
        BY <3>0, <2>4
      <3>1. Balance(j)'
        BY <3>n, <3>b, <3>c, <3>d DEF Balance
      <3>2. QED
        BY <3>1, <2>2, <2>5, <2>6, <1>i DEF CountInv
    <2>8. QED
      BY <2>2, <2>7, OneCount
  <1>7. QED
    BY <1>1, <1>2, <1>3, <1>4, <1>5, <1>6 DEF WorkerStep

\* The dispatch goroutine: a response is taken off the stream and stored.
LEMMA DispatchCount ==
    ASSUME TypeOK, AllOutput, Counted, NEW j \in Jobs, SubmitJob(j) \/ DispatchStep(j)
    PROVE  Counted'
  <1>t. /\ dpc \in [Jobs -> {"none", "start", "call", "recv", "put", "close", "done"}]
        /\ rpc \in [Jobs -> Seq(Responses)] /\ logs \in [Jobs -> Seq(Chunks)]
    BY DEF TypeOK, StoreTypeOK, WorkerTypeOK, ServiceTypeOK
  <1>i. CountInv(j) /\ OutputInv(j)
    BY DEF Counted, AllOutput
  <1>n. /\ Read(j) \in Nat /\ Forwarded(j) \in Int /\ Forwarded(j) <= Read(j)
        /\ Len(rpc[j]) \in Nat /\ Len(logs[j]) \in Nat
        /\ rpc[j] \in Seq(Responses) /\ logs[j] \in Seq(Chunks)
    BY CountTypes
  <1>1. CASE ~RecvResponse(j)
    <2>1. /\ UNCHANGED <<pos, col, chunks, rpc, logs>>
          /\ dpc'[j] \in {"none", "start", "call", "recv"} =>
               dpc[j] \in {"none", "start", "call", "recv"}
          /\ \A k \in Jobs \ {j} : dpc'[k] = dpc[k]
      BY <1>1, <1>t DEF SubmitJob, DispatchStep, DispatchStart, CallWorker, WorkerAccept,
                        CallWorkerFails, RecvFails, FailWith, PutFinal, CloseStreams,
                        CloseLogStreams, Put, storeVars, workerVars
    <2>2. Read(j)' = Read(j) /\ Forwarded(j)' = Forwarded(j)
      BY <2>1 DEF Read, Forwarded, ToForward
    <2>3. Balance(j)'
      BY <2>1, <2>2, <1>i DEF CountInv, Balance, HasTerminal
    <2>4. CountInv(j)'
      BY <2>1, <2>2, <2>3, <1>i DEF CountInv
    <2>5. QED
      BY <2>1, <2>4, OneCount
  <1>2. CASE RecvResponse(j)
    <2>0. PICK q, m : q = rpc[j] /\ m = Head(q)
      OBVIOUS
    <2>1. /\ dpc[j] = "recv" /\ q # <<>> /\ q \in Seq(Responses)
          /\ rpc'[j] = Tail(q) /\ UNCHANGED <<pos, col, chunks>>
          /\ IF m.terminal THEN dpc'[j] = "put" ELSE dpc' = dpc
          /\ \/ m.logs = <<>> /\ logs' = logs
             \/ m.logs # <<>> /\ logs'[j] = logs[j] \o Stamped(j, m.logs)
          /\ \A k \in Jobs \ {j} : rpc'[k] = rpc[k] /\ dpc'[k] = dpc[k] /\ logs'[k] = logs[k]
      BY <1>2, <2>0, <1>t DEF RecvResponse, AppendLogs, storeVars, dispatchVars
    <2>2. /\ m = q[1] /\ 1 \in 1..Len(q) /\ m \in Responses /\ Len(Tail(q)) = Len(q) - 1
          /\ \A i \in 1..Len(Tail(q)) : Tail(q)[i] = q[i + 1] /\ i + 1 \in 1..Len(q)
      BY <2>0, <2>1
    <2>3. m.logs \in Seq(Lines) /\ Len(m.logs) \in Nat
      BY <2>2 DEF Responses
    <2>4. Len(logs'[j]) = Len(logs[j]) + Len(m.logs)
      <3>1. CASE m.logs = <<>> /\ logs' = logs
        <4>1. Len(m.logs) = 0
          BY <3>1
        <4>2. QED
          BY <4>1, <3>1, <1>n
      <3>2. CASE logs'[j] = logs[j] \o Stamped(j, m.logs)
        <4>1. PICK st : st = Stamped(j, m.logs)
          OBVIOUS
        <4>2. st \in Seq(Chunks) /\ Len(st) = Len(m.logs)
          BY <2>3, <4>1, StampedType DEF TypeOK
        <4>3. logs'[j] = logs[j] \o st
          BY <3>2, <4>1
        <4>4. st \in Seq(Chunks)
          BY <4>2
        <4>5. Len(logs'[j]) = Len(logs[j]) + Len(st)
          BY <4>3, <4>4, <1>n
        <4>6. QED
          BY <4>2, <4>5
      <3>3. QED
        BY <3>1, <3>2, <2>1
    <2>5. Read(j)' = Read(j) /\ Forwarded(j)' = Forwarded(j)
      BY <2>1 DEF Read, Forwarded, ToForward
    <2>6. \A i \in 1..Len(rpc'[j]) : ~rpc'[j][i].terminal => Len(rpc'[j][i].logs) = 1
      BY <2>0, <2>1, <2>2, <1>i DEF CountInv
    <2>7. PICK a, b, f : a = Len(logs[j]) /\ b = Len(q) /\ f = Forwarded(j)
      OBVIOUS
    <2>8. /\ a \in Nat /\ b \in Nat /\ f \in Int /\ f <= Read(j) /\ b >= 1
          /\ a + b <= f + 1 /\ (~HasTerminal(q) => a + b <= f)
      <3>1. b \in Nat /\ b >= 1 /\ b = Len(rpc[j])
        BY <2>0, <2>2, <2>7, <1>n
      <3>2. /\ Len(logs[j]) + Len(rpc[j]) <= Forwarded(j) + 1
            /\ ~HasTerminal(rpc[j]) => Len(logs[j]) + Len(rpc[j]) <= Forwarded(j)
        BY <2>1, <1>i DEF CountInv, Balance
      <3>3. a + b <= f + 1 /\ (~HasTerminal(q) => a + b <= f)
        BY <3>1, <3>2, <2>0, <2>7
      <3>4. QED
        BY <3>1, <3>3, <2>7, <1>n
    <2>9. CASE m.terminal
      <3>1. Len(m.logs) = Read(j)
        BY <2>0, <2>2, <2>9, <1>i DEF OutputInv, CountInv
      <3>2. a <= Read(j)
        BY <2>8, <1>n
      <3>3. Len(logs'[j]) <= 2 * Read(j)
        BY <3>1, <3>2, <2>4, <2>7, <2>8, <1>n
      <3>4. Balance(j)'
        BY <2>1, <2>9 DEF Balance
      <3>5. CountInv(j)'
        BY <3>3, <3>4, <2>1, <2>5, <2>6, <1>i DEF CountInv
      <3>6. QED
        BY <3>5, <2>1, OneCount
    <2>10. CASE ~m.terminal
      <3>1. Len(m.logs) = 1
        BY <2>0, <2>2, <2>10, <1>i DEF CountInv
      <3>2. Len(logs'[j]) = a + 1 /\ Len(rpc'[j]) = b - 1
        BY <3>1, <2>1, <2>2, <2>4, <2>7
      <3>3. HasTerminal(q) => HasTerminal(rpc'[j])
        <4>1. ASSUME NEW i \in 1..Len(q), q[i].terminal PROVE HasTerminal(Tail(q))
          <5>1. i # 1
            BY <4>1, <2>2, <2>10
          <5>2. i - 1 \in 1..Len(Tail(q)) /\ (i - 1) + 1 = i
            BY <5>1, <2>2, <2>7, <2>8
          <5>3. Tail(q)[i - 1].terminal
            BY <5>2, <4>1, <2>2
          <5>4. QED
            BY <5>2, <5>3 DEF HasTerminal
        <4>2. QED
          BY <4>1, <2>1 DEF HasTerminal
      <3>4. HasTerminal(rpc'[j]) => b - 1 >= 1
        BY <3>2, <2>8 DEF HasTerminal
      <3>5. Balance(j)'
        BY <3>2, <3>3, <2>5, <2>7, <2>8 DEF Balance
      <3>6. a + 1 <= Read(j)
        BY <3>3, <3>4, <2>8, <1>n
      <3>7. Len(logs'[j]) <= 2 * Read(j)
        BY <3>2, <3>6, <2>8, <1>n
      <3>8. CountInv(j)'
        BY <3>5, <3>7, <2>1, <2>5, <2>6, <1>i DEF CountInv
      <3>9. QED
        BY <3>8, <2>1, OneCount
    <2>11. QED
      BY <2>9, <2>10
  <1>3. QED
    BY <1>1, <1>2

\* The variables Packed speaks of.
queueVars == <<logCh, inflight>>

\* An append offers to every subscriber chunks past all that its channel holds.
LEMMA AppendPacked ==
    ASSUME TypeOK, SafeInv, \A s \in Rpcs : Packed(s), NEW j \in Jobs, NEW ls \in Seq(Lines),
           AppendLogs(j, ls)
    PROVE  \A s \in Rpcs : Packed(s)'
  <1>t. logOffsets[j] \in Nat /\ Len(ls) \in Nat
    BY DEF TypeOK, StoreTypeOK
  <1>s. PICK st : st = Stamped(j, ls)
    OBVIOUS
  <1>1. /\ Len(st) = Len(ls)
        /\ \A i \in 1..Len(ls) : st[i] = [offset |-> logOffsets[j] + i, line |-> ls[i]]
    BY <1>s, StampedType DEF TypeOK
  <1>2. /\ \A s \in Rpcs : inflight'[s] = IF s \in logSubs[j] THEN st ELSE <<>>
        /\ logCh' = logCh
    BY <1>s DEF AppendLogs
  <1>3. ASSUME NEW s \in Rpcs PROVE Packed(s)'
    <2>1. /\ \A i \in 1..Len(logCh[s]) : logCh[s][i].offset >= i
          /\ Len(logCh[s]) \in Nat /\ logCh[s] \in Seq(Chunks)
      BY DEF Packed, TypeOK, StoreTypeOK
    <2>2. CASE s \in logSubs[j]
      <3>1. href[s] = j /\ Bounded(s)
        BY <2>2 DEF SafeInv, Registered, CallInv
      <3>2. Len(logCh[s]) <= logOffsets[j]
        <4>1. CASE Len(logCh[s]) = 0
          BY <4>1, <1>t
        <4>2. CASE Len(logCh[s]) # 0
          <5>1. PICK n : n = Len(logCh[s])
            OBVIOUS
          <5>2. n \in Nat /\ n \in 1..Len(logCh[s])
            BY <5>1, <4>2, <2>1
          <5>3. /\ logCh[s][n].offset >= n /\ logCh[s][n].offset <= logOffsets[j]
                /\ logCh[s][n].offset \in Nat
            BY <5>2, <3>1, <2>1, CallTypes DEF Bounded
          <5>4. QED
            BY <5>1, <5>2, <5>3, <1>t
        <4>3. QED
          BY <4>1, <4>2
      <3>3. \A i \in 1..Len(ls) : st[i].offset >= Len(logCh[s]) + i
        <4>1. ASSUME NEW i \in 1..Len(ls) PROVE st[i].offset >= Len(logCh[s]) + i
          <5>1. st[i] = [offset |-> logOffsets[j] + i, line |-> ls[i]]
            BY <1>1
          <5>2. st[i].offset = logOffsets[j] + i
            BY <5>1
          <5>3. QED
            BY <5>2, <3>2, <2>1, <1>t
        <4>2. QED
          BY <4>1
      <3>4. inflight'[s] = st /\ logCh'[s] = logCh[s]
        BY <2>2, <1>2
      <3>5. QED
        BY <3>3, <3>4, <2>1, <1>1 DEF Packed
    <2>3. CASE s \notin logSubs[j]
      <3>1. Len(inflight'[s]) = 0 /\ logCh'[s] = logCh[s]
        BY <2>3, <1>2
      <3>2. QED
        BY <3>1, <2>1 DEF Packed
    <2>4. QED
      BY <2>2, <2>3
  <1>4. QED
    BY <1>3

\* Broadcasting, receiving and subscribing keep the queues packed.
LEMMA QueuePacked ==
    ASSUME TypeOK, \A s \in Rpcs : Packed(s), NEW s \in Rpcs,
           BroadcastStep(s) \/ ReceiveChunk(s) \/ Subscribe(s)
    PROVE  \A r \in Rpcs : Packed(r)'
  <1>t. /\ logCh \in [Rpcs -> Seq(Chunks)] /\ inflight \in [Rpcs -> Seq(Chunks)]
        /\ logCh[s] \in Seq(Chunks) /\ inflight[s] \in Seq(Chunks)
        /\ Len(logCh[s]) \in Nat /\ Len(inflight[s]) \in Nat
        /\ \A i \in 1..Len(logCh[s]) : logCh[s][i].offset \in Nat
        /\ \A i \in 1..Len(inflight[s]) : inflight[s][i].offset \in Nat
    BY CallTypes DEF TypeOK, StoreTypeOK
  <1>i. Packed(s)
    OBVIOUS
  <1>1. CASE BroadcastStep(s)
    <2>0. PICK q, m : q = inflight[s] /\ m = Head(q)
      OBVIOUS
    <2>1. /\ q # <<>> /\ inflight'[s] = Tail(q)
          /\ \/ logCh'[s] = Append(logCh[s], m)
             \/ logCh'[s] = logCh[s]
          /\ \A r \in Rpcs \ {s} : inflight'[r] = inflight[r] /\ logCh'[r] = logCh[r]
      BY <2>0, <1>1, <1>t DEF BroadcastStep, BroadcastOne
    <2>2. /\ m \in Chunks /\ m = q[1] /\ 1 \in 1..Len(q) /\ Len(Tail(q)) = Len(q) - 1
          /\ \A i \in 1..Len(Tail(q)) : Tail(q)[i] = q[i + 1] /\ i + 1 \in 1..Len(q)
      BY <2>0, <2>1, <1>t, TailFacts
    <2>3. \A i \in 1..Len(Tail(q)) :
            Tail(q)[i].offset >= Len(logCh[s]) + 1 + i /\ Tail(q)[i].offset \in Nat
      <3>1. ASSUME NEW i \in 1..Len(Tail(q))
            PROVE  Tail(q)[i].offset >= Len(logCh[s]) + 1 + i /\ Tail(q)[i].offset \in Nat
        <4>1. q[i + 1].offset >= Len(logCh[s]) + (i + 1) /\ q[i + 1].offset \in Nat
          BY <2>0, <2>2, <1>i, <1>t DEF Packed
        <4>2. QED
          BY <4>1, <2>2, <1>t
      <3>2. QED
        BY <3>1
    <2>4. CASE logCh'[s] = Append(logCh[s], m)
      <3>1. Len(Append(logCh[s], m)) = Len(logCh[s]) + 1
        BY <2>2, <1>t
      <3>2. \A i \in 1..Len(Append(logCh[s], m)) :
              \/ i \in 1..Len(logCh[s]) /\ Append(logCh[s], m)[i] = logCh[s][i]
              \/ i = Len(logCh[s]) + 1 /\ Append(logCh[s], m)[i] = m
        BY <2>2, <1>t
      <3>3. m.offset >= Len(logCh[s]) + 1
        BY <2>0, <2>2, <1>i DEF Packed
      <3>4. \A i \in 1..Len(logCh'[s]) : logCh'[s][i].offset >= i
        BY <3>2, <3>3, <2>4, <1>i DEF Packed
      <3>5. \A i \in 1..Len(inflight'[s]) : inflight'[s][i].offset >= Len(logCh'[s]) + i
        BY <3>1, <2>1, <2>3, <2>4
      <3>6. QED
        BY <3>4, <3>5, <2>1 DEF Packed
    <2>5. CASE logCh'[s] = logCh[s]
      <3>1. \A i \in 1..Len(inflight'[s]) : inflight'[s][i].offset >= Len(logCh'[s]) + i
        <4>1. ASSUME NEW i \in 1..Len(Tail(q)) PROVE Tail(q)[i].offset >= Len(logCh[s]) + i
          BY <2>3, <1>t
        <4>2. QED
          BY <4>1, <2>1, <2>5
      <3>2. QED
        BY <3>1, <2>1, <2>5, <1>i DEF Packed
    <2>6. QED
      BY <2>1, <2>4, <2>5
  <1>2. CASE ReceiveChunk(s)
    <2>0. PICK q : q = logCh[s]
      OBVIOUS
    <2>1. /\ q # <<>> /\ logCh'[s] = Tail(q) /\ inflight' = inflight
          /\ \A r \in Rpcs \ {s} : logCh'[r] = logCh[r]
      BY <2>0, <1>2, <1>t DEF ReceiveChunk
    <2>2. /\ Len(Tail(q)) = Len(q) - 1 /\ Len(q) \in Nat
          /\ \A i \in 1..Len(Tail(q)) : Tail(q)[i] = q[i + 1] /\ i + 1 \in 1..Len(q)
      BY <2>0, <2>1, <1>t, TailFacts
    <2>3. \A i \in 1..Len(Tail(q)) : Tail(q)[i].offset >= i
      <3>1. ASSUME NEW i \in 1..Len(Tail(q)) PROVE Tail(q)[i].offset >= i
        <4>1. q[i + 1].offset >= i + 1 /\ q[i + 1].offset \in Nat
          BY <2>0, <2>2, <1>i, <1>t DEF Packed
        <4>2. QED
          BY <4>1, <2>2
      <3>2. QED
        BY <3>1
    <2>4. \A i \in 1..Len(inflight[s]) : inflight[s][i].offset >= Len(Tail(q)) + i
      <3>1. ASSUME NEW i \in 1..Len(inflight[s]) PROVE inflight[s][i].offset >= Len(Tail(q)) + i
        <4>1. inflight[s][i].offset >= Len(q) + i /\ inflight[s][i].offset \in Nat
          BY <2>0, <1>i, <1>t DEF Packed
        <4>2. QED
          BY <4>1, <2>2
      <3>2. QED
        BY <3>1
    <2>5. QED
      BY <2>1, <2>3, <2>4 DEF Packed
  <1>3. CASE Subscribe(s)
    <2>1. /\ logCh'[s] = <<>> /\ inflight' = inflight /\ inflight[s] = <<>>
          /\ \A r \in Rpcs \ {s} : logCh'[r] = logCh[r]
      BY <1>3, <1>t DEF Subscribe, SubscribeLogs, Unlocked
    <2>2. Len(logCh'[s]) = 0 /\ Len(inflight'[s]) = 0
      BY <2>1
    <2>3. Packed(s)'
      BY <2>2 DEF Packed
    <2>4. ASSUME NEW r \in Rpcs, r # s PROVE Packed(r)'
      BY <2>1, <2>4 DEF Packed
    <2>5. QED
      BY <2>3, <2>4
  <1>4. QED
    BY <1>1, <1>2, <1>3

\* At first nothing has been written.
LEMMA RoomInit == Init => RoomInv
  <1> SUFFICES ASSUME Init PROVE RoomInv
    OBVIOUS
  <1>1. ASSUME NEW j \in Jobs PROVE CountInv(j)
    <2>1. \A fd \in Fds : pos[j][fd] = 0 /\ col[j][fd] = "read"
      BY DEF Init, WorkerInit
    <2>2. Read(j) = 0 /\ Forwarded(j) = 0
      BY <2>1 DEF Read, Forwarded, ToForward, Fds
    <2>3. chunks[j] = <<>> /\ rpc[j] = <<>> /\ logs[j] = <<>>
      BY DEF Init, WorkerInit, StoreInit
    <2>4. \A fd \in Fds : MaxLines[fd] \in Nat
      BY MaxLinesAssumption
    <2>5. QED
      BY <2>1, <2>2, <2>3, <2>4 DEF CountInv, Balance
  <1>2. \A s \in Rpcs : Packed(s)
    BY DEF Init, StoreInit, Packed
  <1>3. QED
    BY <1>1, <1>2 DEF RoomInv

\* Every step keeps RoomInv.
LEMMA RoomNext == TypeOK /\ SafeInv /\ AllOutput /\ RoomInv /\ [Next]_vars => RoomInv'
  <1> SUFFICES ASSUME TypeOK, SafeInv, AllOutput, RoomInv, [Next]_vars PROVE RoomInv'
    OBVIOUS
  <1>i. Counted /\ \A s \in Rpcs : Packed(s)
    BY DEF RoomInv, Counted
  <1>1. Counted'
    <2>0. ASSUME UNCHANGED <<jobVars, col>> PROVE Counted'
      BY <2>0, <1>i DEF jobVars, Counted, CountInv, Balance, Read, Forwarded, ToForward, HasTerminal
    <2>1. ASSUME NEW j \in Jobs, Submit(j) \/ Dispatch(j)
          PROVE  Counted'
      BY <2>1, <1>i, DispatchCount DEF Submit, Dispatch
    <2>2. ASSUME NEW j \in Jobs, Worker(j)
          PROVE  Counted'
      BY <2>2, <1>i, WorkerCount DEF Worker, storeVars, dispatchVars
    <2>3. CASE \/ \E s \in Rpcs : Broadcast(s) \/ Handler(s)
               \/ \E c \in Clients : Client(c)
      BY <2>0, <2>3, BystanderFrame DEF Broadcast, Handler
    <2>4. CASE UNCHANGED vars
      BY <2>0, <2>4 DEF vars, jobVars, storeVars, workerVars, dispatchVars
    <2>5. QED
      BY <2>1, <2>2, <2>3, <2>4 DEF Next, Quiescent
  <1>2. ASSUME NEW s \in Rpcs PROVE Packed(s)'
    <2>0. CASE UNCHANGED queueVars
      BY <2>0, <1>i DEF queueVars, Packed
    <2>1. CASE \E j \in Jobs : RecvResponse(j) /\ Head(rpc[j]).logs # <<>>
      <3>1. PICK j \in Jobs : RecvResponse(j) /\ Head(rpc[j]).logs # <<>>
        BY <2>1
      <3>2. Head(rpc[j]) \in Responses
        BY <3>1 DEF RecvResponse, TypeOK, WorkerTypeOK
      <3>3. PICK ls \in Seq(Lines) : AppendLogs(j, ls)
        BY <3>1, <3>2 DEF RecvResponse, Responses
      <3>4. QED
        BY <3>3, <1>i, AppendPacked
    <2>2. CASE \E r \in Rpcs : BroadcastStep(r) \/ ReceiveChunk(r) \/ Subscribe(r)
      BY <2>2, <1>i, QueuePacked
    <2>3. \/ UNCHANGED queueVars
          \/ \E j \in Jobs : RecvResponse(j) /\ Head(rpc[j]).logs # <<>>
          \/ \E r \in Rpcs : BroadcastStep(r) \/ ReceiveChunk(r) \/ Subscribe(r)
      <3>1. ASSUME NEW j \in Jobs, Submit(j) \/ Dispatch(j),
                   ~(RecvResponse(j) /\ Head(rpc[j]).logs # <<>>)
            PROVE  UNCHANGED queueVars
        BY <3>1 DEF Submit, Dispatch, SubmitJob, DispatchStep, DispatchStart, CallWorker,
                    CallWorkerFails, RecvFails, RecvResponse, PutFinal, CloseStreams,
                    CloseLogStreams, Put, storeVars, queueVars
      <3>2. ASSUME NEW r \in Rpcs, Handler(r), ~(ReceiveChunk(r) \/ Subscribe(r))
            PROVE  UNCHANGED queueVars
        BY <3>2 DEF Handler, HandlerStep, SnapshotLogs, SkipStored, Send, SendFails, ReplayDone,
                    CheckState, ChannelClosed, HeartbeatTick, ContextDone, Unsubscribe,
                    UnsubscribeLogs, storeVars, queueVars
      <3>3. ASSUME NEW c \in Clients, Client(c)
            PROVE  UNCHANGED queueVars
        BY <3>3 DEF Client, StartClient, Connect, StreamJobLogs, ConnectFails, Recv, RecvEOF,
                    StreamInterrupted, StreamFails, Interrupt, Teardown, storeVars, queueVars
      <3>4. CASE (\E j \in Jobs : Worker(j)) \/ UNCHANGED vars
        BY <3>4 DEF Worker, vars, storeVars, queueVars
      <3>5. QED
        BY <3>1, <3>2, <3>3, <3>4 DEF Next, Quiescent, Broadcast
    <2>4. QED
      BY <2>0, <2>1, <2>2, <2>3
  <1>3. QED
    BY <1>1, <1>2 DEF RoomInv, Counted

\* What RoomInv is for: the chunk offered next finds room.
LEMMA RoomMeaning ==
    ASSUME Roomy, TypeOK, SafeInv, RoomInv
    PROVE  NoOverflow
  <1> SUFFICES ASSUME NEW s \in Rpcs, inflight[s] # <<>> PROVE Len(logCh[s]) < ChanCap
    BY DEF NoOverflow
  <1>t. /\ href[s] \in Jobs /\ Len(logCh[s]) \in Nat /\ inflight[s] \in Seq(Chunks)
        /\ ChanCap \in Nat /\ MaxLines["stdout"] \in Nat /\ MaxLines["stderr"] \in Nat
    BY ChanCapAssumption, MaxLinesAssumption DEF TypeOK, ServiceTypeOK, StoreTypeOK, Fds
  <1>1. PICK j \in Jobs : j = href[s]
    BY <1>t
  <1>2. /\ pos[j]["stdout"] \in Nat /\ pos[j]["stdout"] <= MaxLines["stdout"]
        /\ pos[j]["stderr"] \in Nat /\ pos[j]["stderr"] <= MaxLines["stderr"]
    BY CountTypes DEF RoomInv, CountInv, Fds
  <1>3. Read(j) \in Nat /\ Read(j) <= MaxOutput /\ MaxOutput \in Nat
    BY <1>2, <1>t, SMTT(40) DEF Read, MaxOutput
  <1>4. Len(logs[j]) <= 2 * Read(j) /\ Len(logs[j]) = logOffsets[j] /\ logOffsets[j] \in Nat
    BY CountTypes DEF RoomInv, CountInv, SafeInv, DenseOffsets
  <1>5. 1 \in 1..Len(inflight[s])
    BY <1>t
  <1>6. /\ inflight[s][1].offset >= Len(logCh[s]) + 1 /\ inflight[s][1].offset <= logOffsets[j]
        /\ inflight[s][1].offset \in Nat
    BY <1>1, <1>5, CallTypes DEF RoomInv, Packed, SafeInv, CallInv, Bounded
  <1>7. PICK x, y, z : x = Read(j) /\ y = MaxOutput /\ z = logOffsets[j]
    OBVIOUS
  <1>8. x \in Nat /\ y \in Nat /\ z \in Nat /\ x <= y /\ z <= 2 * x /\ 2 * y <= ChanCap
    BY <1>3, <1>4, <1>7 DEF Roomy
  <1>9. z <= ChanCap
    BY <1>8, <1>t
  <1>10. PICK o, l : o = inflight[s][1].offset /\ l = Len(logCh[s])
    OBVIOUS
  <1>11. o \in Nat /\ l \in Nat /\ o >= l + 1 /\ o <= z
    BY <1>6, <1>7, <1>10, <1>t
  <1>12. l < ChanCap
    BY <1>8, <1>9, <1>11, <1>t
  <1>13. QED
    BY <1>10, <1>12

\* With room for the output twice over no channel ever overflows.
LEMMA RoomIsInv == ASSUME Roomy PROVE Spec => []NoOverflow
  <1>1. Init => TypeOK /\ SafeInv /\ DispatchInv /\ AllOutput /\ RoomInv
    BY TypeInit, SafeInit, DispatchInvInit, OutputInit, RoomInit
  <1>2. TypeOK /\ SafeInv /\ DispatchInv /\ AllOutput /\ RoomInv /\ [Next]_vars
          => (TypeOK /\ SafeInv /\ DispatchInv /\ AllOutput /\ RoomInv)'
    BY TypeNext, SafeNext, DispatchInvNext, OutputNext, RoomNext
  <1>3. TypeOK /\ SafeInv /\ RoomInv => NoOverflow
    BY RoomMeaning
  <1>4. QED
    BY <1>1, <1>2, <1>3, PTL DEF Spec

(***************************************************************************)
(* A channel with room for a job's output twice over - each line is stored *)
(* when it is forwarded and once more with the terminal response - never   *)
(* overflows, and then both properties hold of the specification alone.    *)
(***************************************************************************)
THEOREM RoomyChannelsLoseNothing ==
    ASSUME Roomy
    PROVE  Spec => [](NoLiveGap /\ EarlyTailIsComplete)
  <1>1. Spec => []NoOverflow
    BY RoomIsInv
  <1>2. QED
    BY <1>1, SubscribersMissNothing, EarlyTailsAreComplete, PTL

=============================================================================
