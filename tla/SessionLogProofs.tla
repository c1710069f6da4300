---------------------------- MODULE SessionLogProofs ----------------------------
(***************************************************************************)
(* Proofs about SessionLog, for any number of sessions, readers, events,   *)
(* failed writes and crashes.                                              *)
(***************************************************************************)
EXTENDS SessionLog, TLAPS, SequenceTheorems, WellFoundedInduction

-----------------------------------------------------------------------------
(* Sequences of records.                                                   *)

Intact(q) == \A i \in 1..Len(q) : q[i] # Orphan

\* The conjuncts of IdsAreDense, of one sequence.
Dense(q) == \A i \in 1..Len(q) : (\A k \in 1..i : q[k] # Orphan) => q[i].id = i
Rising(q) == \A i, k \in 1..Len(q) : i < k /\ q[k] # Orphan => q[i].id < q[k].id
Below(q, n) == \A i \in 1..Len(q) : q[i].id < n

\* A record has an id, that of an orphan is 0.
LEMMA RecordIds ==
    /\ \A e \in Records : e.id \in Nat /\ (e # Orphan => e \in Events)
    /\ \A e \in Events : e.id \in Nat \ {0} /\ e # Orphan /\ e \in Records
    /\ Orphan \in Records /\ Orphan.id = 0
  BY DEF Records, Events, Orphan

\* Going on with the next id keeps the numbering.
LEMMA AppendKeepsIds ==
    ASSUME NEW q \in Seq(Records), NEW e \in Events,
           Dense(q), Rising(q), Below(q, e.id), Intact(q) => e.id = Len(q) + 1
    PROVE  /\ Append(q, e) \in Seq(Records)
           /\ Dense(Append(q, e)) /\ Rising(Append(q, e)) /\ Below(Append(q, e), e.id + 1)
  <1> DEFINE p == Append(q, e)
  <1>1. /\ p \in Seq(Records) /\ Len(p) = Len(q) + 1 /\ p[Len(q) + 1] = e
        /\ \A i \in 1..Len(q) : p[i] = q[i]
    BY RecordIds
  <1>2. Dense(p)
    <2>1. SUFFICES ASSUME NEW i \in 1..Len(p), \A k \in 1..i : p[k] # Orphan
                   PROVE  p[i].id = i
      BY DEF Dense
    <2>2. CASE i \in 1..Len(q)
      BY <1>1, <2>1, <2>2 DEF Dense
    <2>3. CASE i = Len(q) + 1
      <3>1. Intact(q)
        BY <1>1, <2>1, <2>3 DEF Intact
      <3>2. QED BY <1>1, <2>3, <3>1
    <2>4. QED BY <1>1, <2>2, <2>3
  <1>3. Rising(p)
    BY <1>1 DEF Rising, Below
  <1>4. Below(p, e.id + 1)
    <2>1. \A i \in 1..Len(q) : q[i].id \in Nat
      BY RecordIds
    <2>2. QED BY <1>1, <2>1, RecordIds DEF Below
  <1>5. QED BY <1>1, <1>2, <1>3, <1>4

\* A prefix.
LEMMA PrefixOf ==
    ASSUME NEW q \in Seq(Records), NEW n \in 0..Len(q)
    PROVE  /\ SubSeq(q, 1, n) \in Seq(Records) /\ Len(SubSeq(q, 1, n)) = n
           /\ \A i \in 1..n : SubSeq(q, 1, n)[i] = q[i]
  OBVIOUS

\* So does cutting something off,
LEMMA PrefixKeepsIds ==
    ASSUME NEW q \in Seq(Records), Dense(q), Rising(q), NEW n \in 0..Len(q)
    PROVE  /\ SubSeq(q, 1, n) \in Seq(Records) /\ Len(SubSeq(q, 1, n)) = n
           /\ \A i \in 1..n : SubSeq(q, 1, n)[i] = q[i]
           /\ Dense(SubSeq(q, 1, n)) /\ Rising(SubSeq(q, 1, n))
           /\ \A m : Below(q, m) => Below(SubSeq(q, 1, n), m)
  <1> DEFINE p == SubSeq(q, 1, n)
  <1>1. p \in Seq(Records) /\ Len(p) = n /\ \A i \in 1..n : p[i] = q[i]
    OBVIOUS
  <1>2. Dense(p)
    BY <1>1 DEF Dense
  <1>3. Rising(p)
    BY <1>1 DEF Rising
  <1>4. \A m : Below(q, m) => Below(p, m)
    BY <1>1 DEF Below
  <1>5. QED BY <1>1, <1>2, <1>3, <1>4

\* and an orphan behind.
LEMMA OrphanKeepsIds ==
    ASSUME NEW q \in Seq(Records), Dense(q), Rising(q)
    PROVE  /\ q \o <<Orphan>> \in Seq(Records)
           /\ Dense(q \o <<Orphan>>) /\ Rising(q \o <<Orphan>>)
  <1> DEFINE p == q \o <<Orphan>>
  <1>1. /\ p \in Seq(Records) /\ Len(p) = Len(q) + 1 /\ p[Len(q) + 1] = Orphan
        /\ \A i \in 1..Len(q) : p[i] = q[i]
    BY RecordIds
  <1>2. Dense(p)
    <2>1. SUFFICES ASSUME NEW i \in 1..Len(p), \A k \in 1..i : p[k] # Orphan
                   PROVE  p[i].id = i
      BY DEF Dense
    <2>2. i \in 1..Len(q)
      BY <1>1, <2>1
    <2>3. QED BY <1>1, <2>1, <2>2 DEF Dense
  <1>3. Rising(p)
    BY <1>1 DEF Rising
  <1>4. QED BY <1>1, <1>2, <1>3

-----------------------------------------------------------------------------
(* scanNextID.  That a sequence has a largest id is proved by taking a     *)
(* shortest one that has none.                                             *)

Largest(q, m) == m \in Ids(q) \cup {0} /\ \A k \in Ids(q) : k <= m

Less == {ss \in Nat \X Nat : ss[1] < ss[2]}

\* The order of the natural numbers is well-founded.
LEMMA LessIsWellFounded == IsWellFoundedOn(Less, Nat)
  BY NatLessThanWellFounded DEF OpToRel, Less

\* One record more: the larger of the two ids.
LEMMA LargestOfMore ==
    ASSUME NEW q \in Seq(Records), Len(q) # 0, NEW m, Largest(SubSeq(q, 1, Len(q) - 1), m)
    PROVE  \E k : Largest(q, k)
  <1> DEFINE p == SubSeq(q, 1, Len(q) - 1)
             x == q[Len(q)].id
  <1>1. /\ Len(q) \in Nat \ {0} /\ p \in Seq(Records) /\ Len(p) = Len(q) - 1
        /\ \A i \in 1..(Len(q) - 1) : p[i] = q[i]
    <2>1. Len(q) \in Nat \ {0} /\ Len(q) - 1 \in 0..Len(q)
      OBVIOUS
    <2>2. p \in Seq(Records) /\ Len(p) = Len(q) - 1 /\ \A i \in 1..(Len(q) - 1) : p[i] = q[i]
      BY <2>1, PrefixOf
    <2>3. QED BY <2>1, <2>2
  <1>2. Ids(q) = Ids(p) \cup {x}
    <2>1. \A i \in 1..Len(q) : i \in 1..Len(p) \/ i = Len(q)
      BY <1>1
    <2>2. \A i \in 1..Len(p) : i \in 1..Len(q) /\ p[i] = q[i]
      BY <1>1
    <2>3. Len(q) \in 1..Len(q)
      BY <1>1
    <2>4. QED BY <2>1, <2>2, <2>3 DEF Ids
  <1>3. \A k \in Ids(q) \cup {0} : k \in Nat
    BY RecordIds DEF Ids
  <1>4. m \in Nat /\ x \in Nat
    BY <1>2, <1>3 DEF Largest
  <1>5. CASE x <= m
    <2>1. Largest(q, m)
      BY <1>2, <1>5 DEF Largest
    <2>2. QED BY <2>1
  <1>6. CASE m < x
    <2>1. Largest(q, x)
      BY <1>2, <1>3, <1>4, <1>6 DEF Largest
    <2>2. QED BY <2>1
  <1>7. QED BY <1>4, <1>5, <1>6

\* Every log has a largest id.
LEMMA LargestExists == \A q \in Seq(Records) : \E m : Largest(q, m)
  <1> DEFINE Short == {n \in Nat : \E q \in Seq(Records) : Len(q) = n /\ \A m : ~Largest(q, m)}
  <1>1. SUFFICES ASSUME Short # {} PROVE FALSE
    <2>1. \A q \in Seq(Records) : Len(q) \in Nat
      OBVIOUS
    <2>2. QED BY <2>1
  <1>2. PICK n \in Short : \A k \in Short : <<k, n>> \notin Less
    BY <1>1, LessIsWellFounded, WFMin
  <1>3. PICK q \in Seq(Records) : Len(q) = n /\ \A m : ~Largest(q, m)
    OBVIOUS
  <1>4. CASE n = 0
    <2>1. Ids(q) = {}
      BY <1>3, <1>4 DEF Ids
    <2>2. Largest(q, 0)
      BY <2>1 DEF Largest
    <2>3. QED BY <1>3, <2>2
  <1>5. CASE n # 0
    <2> DEFINE p == SubSeq(q, 1, Len(q) - 1)
    <2>1. p \in Seq(Records) /\ Len(p) = n - 1 /\ n - 1 \in Nat
      BY <1>3, <1>5
    <2>2. <<n - 1, n>> \in Less
      BY <2>1 DEF Less
    <2>3. n - 1 \notin Short
      BY <1>2, <2>2
    <2>4. PICK m : Largest(p, m)
      BY <2>1, <2>3
    <2>5. QED BY <1>3, <1>5, <2>4, LargestOfMore
  <1>6. QED BY <1>4, <1>5

\* What scanNextID returns is past all ids, and the next one of a log without orphans.
LEMMA ScanIsNext ==
    ASSUME NEW q \in Seq(Records)
    PROVE  /\ scanNextID(q) \in Nat \ {0} /\ Below(q, scanNextID(q))
           /\ Dense(q) /\ Intact(q) => scanNextID(q) = Len(q) + 1
  <1> DEFINE m == CHOOSE m \in Ids(q) \cup {0} : \A k \in Ids(q) : k <= m
  <1>1. m \in Ids(q) \cup {0} /\ \A k \in Ids(q) : k <= m
    BY LargestExists DEF Largest
  <1>2. scanNextID(q) = 1 + m
    BY DEF scanNextID
  <1> HIDE DEF m
  <1>3. \A i \in 1..Len(q) : q[i].id \in Nat /\ q[i].id <= m
    BY <1>1, RecordIds DEF Ids
  <1>4. m \in Nat
    BY <1>1, RecordIds DEF Ids
  <1>5. Below(q, 1 + m)
    BY <1>3, <1>4 DEF Below
  <1>6. ASSUME Dense(q), Intact(q) PROVE m = Len(q)
    <2>1. \A i \in 1..Len(q) : q[i].id = i
      BY <1>6 DEF Dense, Intact
    <2>2. CASE Len(q) = 0
      BY <1>1, <2>2 DEF Ids
    <2>3. CASE Len(q) # 0
      <3>1. Len(q) \in 1..Len(q) /\ Len(q) \in Nat
        BY <2>3
      <3>2. Len(q) <= m
        BY <1>3, <2>1, <3>1
      <3>3. m <= Len(q)
        BY <1>1, <2>1, <3>1 DEF Ids
      <3>4. QED BY <1>4, <3>1, <3>2, <3>3
    <2>4. QED BY <2>2, <2>3
  <1>7. QED BY <1>2, <1>4, <1>5, <1>6

-----------------------------------------------------------------------------
(* The files.                                                              *)

\* Of a buffer b behind a file f, n records are in the file g now, the others in t.
Moved(f, b, n, g, t) ==
    /\ Len(g) = Len(f) + n
    /\ \A i \in 1..Len(f) : g[i] = f[i]
    /\ \A i \in 1..n : g[Len(f) + i] = b[i]
    /\ Len(t) = Len(b) - n
    /\ \A i \in 1..(Len(b) - n) : t[i] = b[n + i]

\* They are as many,
LEMMA RegroupLen ==
    ASSUME NEW f \in Seq(Records), NEW b \in Seq(Records), NEW n \in 0..Len(b),
           NEW g \in Seq(Records), Len(g) = Len(f) + n,
           NEW t \in Seq(Records), Len(t) = Len(b) - n
    PROVE  Len(g \o t) = Len(f \o b)
  <1>1. Len(g \o t) = Len(g) + Len(t)
    OBVIOUS
  <1>2. Len(f \o b) = Len(f) + Len(b)
    OBVIOUS
  <1>3. Len(b) \in Nat /\ Len(f) \in Nat /\ n \in Int
    OBVIOUS
  <1>4. QED BY <1>1, <1>2, <1>3

\* and the same.
LEMMA Regroup ==
    ASSUME NEW f \in Seq(Records), NEW b \in Seq(Records), NEW n \in 0..Len(b),
           NEW g \in Seq(Records), NEW t \in Seq(Records), Moved(f, b, n, g, t)
    PROVE  g \o t = f \o b
  <1>0. /\ Len(g) = Len(f) + n /\ Len(t) = Len(b) - n
        /\ \A i \in 1..Len(f) : g[i] = f[i]
        /\ \A i \in 1..n : g[Len(f) + i] = b[i]
        /\ \A i \in 1..(Len(b) - n) : t[i] = b[n + i]
    BY DEF Moved
  <1>1. g \o t \in Seq(Records) /\ f \o b \in Seq(Records)
    OBVIOUS
  <1>2. Len(g \o t) = Len(f \o b)
    BY <1>0, RegroupLen
  <1>3. ASSUME NEW i \in 1..Len(f \o b) PROVE (g \o t)[i] = (f \o b)[i]
    <2>1. Len(b) \in Nat /\ Len(f) \in Nat /\ n \in Int /\ Len(f \o b) = Len(f) + Len(b)
      OBVIOUS
    <2>2. CASE i <= Len(f)
      BY <1>0, <2>1, <2>2
    <2>3. CASE i > Len(f) /\ i <= Len(g)
      <3>1. (f \o b)[i] = b[i - Len(f)]
        BY <1>0, <2>1, <2>3
      <3>2. (g \o t)[i] = g[i]
        BY <1>0, <2>1, <2>3
      <3>3. i - Len(f) \in 1..n /\ i = Len(f) + (i - Len(f))
        BY <1>0, <2>1, <2>3
      <3>4. QED BY <1>0, <3>1, <3>2, <3>3
    <2>4. CASE i > Len(g)
      <3>1. (f \o b)[i] = b[i - Len(f)]
        BY <1>0, <2>1, <2>4
      <3>2. (g \o t)[i] = t[i - Len(g)]
        BY <1>0, <2>1, <2>4
      <3>3. i - Len(g) \in 1..(Len(b) - n) /\ i - Len(f) = n + (i - Len(g))
        BY <1>0, <2>1, <2>4
      <3>4. QED BY <1>0, <3>1, <3>2, <3>3
    <2>5. QED BY <1>0, <2>1, <2>2, <2>3, <2>4, SMTT(40)
  <1>4. QED BY <1>1, <1>2, <1>3, SeqEqual

\* Writing out the first n records of a buffer moves them to the file.
LEMMA WriteOutMoves ==
    ASSUME NEW f \in Seq(Records), NEW b \in Seq(Events), NEW n \in 0..Len(b)
    PROVE  LET g == f \o SubSeq(b, 1, n)
               t == SubSeq(b, n + 1, Len(b)) IN
           /\ g \in Seq(Records) /\ Len(g) = Len(f) + n
           /\ \A i \in 1..Len(f) : g[i] = f[i]
           /\ g = SubSeq(f \o b, 1, Len(f) + n)
           /\ t \in Seq(Events)
           /\ g \o t = f \o b
           /\ n = Len(b) => g = f \o b
  <1> DEFINE g == f \o SubSeq(b, 1, n)
             t == SubSeq(b, n + 1, Len(b))
  <1>1. b \in Seq(Records)
    BY DEF Records
  <1>2. t \in Seq(Events)
    OBVIOUS
  <1>3. t \in Seq(Records)
    BY <1>2 DEF Records
  <1>4. SubSeq(b, 1, n) \in Seq(Records) /\ Len(SubSeq(b, 1, n)) = n
    BY <1>1
  <1>5. g \in Seq(Records) /\ Len(g) = Len(f) + n
    BY <1>4
  <1>6. \A i \in 1..Len(f) : g[i] = f[i]
    BY <1>4
  <1>7. g = SubSeq(f \o b, 1, Len(f) + n)
    BY <1>1, <1>5
  <1>8. \A i \in 1..n : g[Len(f) + i] = b[i]
    BY <1>1, <1>5
  <1>9. Len(t) = Len(b) - n /\ \A i \in 1..(Len(b) - n) : t[i] = b[n + i]
    BY <1>1
  <1>10. n = Len(b) => g = f \o b
    BY <1>1, <1>4
  <1>11. g \o t = f \o b
    <2> HIDE DEF g, t
    <2>1. Moved(f, b, n, g, t)
      BY <1>5, <1>6, <1>8, <1>9 DEF Moved
    <2>2. QED BY <1>1, <1>3, <1>5, <2>1, Regroup, SMTT(40)
  <1>12. QED BY <1>2, <1>5, <1>6, <1>7, <1>10, <1>11

\* What a crash leaves of a file: a prefix, and an orphan perhaps.
LEMMA LeaveKeepsIds ==
    ASSUME NEW f \in Seq(Records), Dense(f), Rising(f), NEW n \in 0..Len(f),
           NEW g, g = SubSeq(f, 1, n) \/ g = SubSeq(f, 1, n) \o <<Orphan>>
    PROVE  /\ g \in Seq(Records) /\ n <= Len(g) /\ \A i \in 1..n : g[i] = f[i]
           /\ Dense(g) /\ Rising(g)
  <1> DEFINE p == SubSeq(f, 1, n)
  <1>1. /\ p \in Seq(Records) /\ Len(p) = n /\ \A i \in 1..n : p[i] = f[i]
        /\ Dense(p) /\ Rising(p)
    BY PrefixKeepsIds
  <1> HIDE DEF p
  <1>2. CASE g = p
    BY <1>1, <1>2
  <1>3. CASE g = p \o <<Orphan>>
    <2>1. n <= Len(g) /\ \A i \in 1..n : g[i] = f[i]
      BY <1>1, <1>3, RecordIds
    <2>2. QED BY <1>1, <1>3, <2>1, OrphanKeepsIds
  <1>4. QED BY <1>2, <1>3 DEF p

-----------------------------------------------------------------------------
(* The inductive invariant.                                                *)

\* The records of a session: in the file and behind it in the buffer.
Q(s) == file[s] \o buf[s]

\* The id a session gives out next is past all of them, and the next one as long as no
\* orphan broke the numbering and no failed write has used ids up.
NumberedOf(s) ==
    /\ Dense(Q(s)) /\ Rising(Q(s))
    /\ loaded[s] =>
         /\ nextID[s] # 0 /\ Below(Q(s), nextID[s])
         /\ ~wedged[s] /\ Intact(Q(s)) => nextID[s] = Len(Q(s)) + 1
Numbered == \A s \in Sessions : NumberedOf(s)

\* Only a session in the map has a writer, and it has a directory.
Closed ==
    \A s \in Sessions :
        /\ ~loaded[s] => buf[s] = <<>> /\ ~wedged[s]
        /\ loaded[s] => meta[s] = "present"

\* The Append that holds the mutex has its event at the end of what it is about to flush
\* or to sync.
EndsInEvent(q) == Len(q) # 0 /\ q[Len(q)] # Orphan
Holding ==
    /\ (holder = NoSession) = (stage = "none")
    /\ stage = "flush" => EndsInEvent(Q(holder))
    /\ stage = "sync" => EndsInEvent(file[holder])

\* What a Replay call has read and sent.
ReadingOf(r) ==
    /\ Increasing(got[r]) /\ \A i \in 1..Len(got[r]) : got[r][i].id > rafter[r]
    /\ rpc[r] \in {"idle", "open"} => got[r] = <<>> /\ rpos[r] = 0
    /\ rpc[r] \in {"open", "read", "done"} =>
         /\ rsess[r] \in Sessions /\ seen0[r] \subseteq acked[rsess[r]]
         /\ meta[rsess[r]] # "none"
    /\ rpc[r] = "read" =>
         /\ rpos[r] <= Len(file[rsess[r]])
         /\ \A j \in 1..rpos[r] :
              /\ file[rsess[r]][j] # Orphan
              /\ file[rsess[r]][j].id > rafter[r] =>
                   \E i \in 1..Len(got[r]) : got[r][i] = file[rsess[r]][j]
         /\ \A i \in 1..Len(got[r]) : \E j \in 1..rpos[r] : got[r][i] = file[rsess[r]][j]
    /\ rpc[r] = "done" /\ meta[rsess[r]] = "present" =>
         \A e \in seen0[r] : e.id > rafter[r] => \E i \in 1..Len(got[r]) : got[r][i] = e
Reading == \A r \in Readers : ReadingOf(r)

IInv == TypeOK /\ Numbered /\ Closed /\ Holding /\ AckedIsDurable /\ Reading

\* No session, no file, no call.
LEMMA InitInv ==
    ASSUME NoSession \notin Sessions, Init
    PROVE  IInv
  <1>1. TypeOK
    BY DEF Init, TypeOK, Parts
  <1>2. Numbered
    <2>1. SUFFICES ASSUME NEW s \in Sessions PROVE NumberedOf(s)
      BY DEF Numbered
    <2>2. Q(s) = <<>> /\ ~loaded[s]
      BY DEF Q, Init
    <2>3. QED BY <2>2 DEF NumberedOf, Dense, Rising
  <1>3. Closed /\ Holding
    BY DEF Init, Closed, Holding
  <1>4. AckedIsDurable
    BY DEF Init, AckedIsDurable
  <1>5. Reading
    BY DEF Init, Reading, ReadingOf, Increasing
  <1>6. QED BY <1>1, <1>2, <1>3, <1>4, <1>5 DEF IInv

-----------------------------------------------------------------------------
(* What a step may disturb.                                                *)

\* Files only grow while the process lives.
Grows ==
    \A s \in Sessions :
        /\ Len(file[s]) <= Len(file'[s])
        /\ \A i \in 1..Len(file[s]) : file'[s][i] = file[s][i]

\* Directories come once and go for good.
Ages ==
    \A s \in Sessions :
        /\ meta[s] # "none" => meta'[s] # "none"
        /\ meta[s] = "gone" => meta'[s] = "gone"

\* While files only grow, what is durable stays there,
LEMMA DurableKept ==
    ASSUME IInv, Grows, UNCHANGED <<durable, acked>>, file' \in [Sessions -> Seq(Records)]
    PROVE  AckedIsDurable'
  <1>1. SUFFICES ASSUME NEW s \in Sessions
                 PROVE  /\ durable[s] <= Len(file'[s])
                        /\ \A e \in acked[s] : \E i \in 1..durable[s] : file'[s][i] = e
    BY DEF AckedIsDurable
  <1>2. /\ Len(file[s]) \in Nat /\ Len(file'[s]) \in Nat /\ durable[s] \in Nat
        /\ durable[s] <= Len(file[s]) /\ Len(file[s]) <= Len(file'[s])
    BY DEF IInv, TypeOK, Grows, AckedIsDurable
  <1>3. \A i \in 1..durable[s] : file'[s][i] = file[s][i]
    BY <1>2 DEF Grows
  <1>4. \A e \in acked[s] : \E i \in 1..durable[s] : file[s][i] = e
    BY DEF IInv, AckedIsDurable
  <1>5. QED BY <1>2, <1>3, <1>4

\* and a call that reads one has still read what it had read.
LEMMA ReadingKept ==
    ASSUME IInv, Grows, Ages, UNCHANGED <<rpc, rsess, rafter, rpos, got, seen0>>,
           file' \in [Sessions -> Seq(Records)],
           \A s \in Sessions : acked[s] \subseteq acked'[s]
    PROVE  Reading'
  <1>1. SUFFICES ASSUME NEW r \in Readers PROVE ReadingOf(r)'
    BY DEF Reading
  <1>2. ReadingOf(r)
    BY DEF IInv, Reading
  <1>3. rpc[r] \in {"open", "read", "done"} =>
          /\ rsess[r] \in Sessions /\ seen0[r] \subseteq acked'[rsess[r]]
          /\ meta'[rsess[r]] # "none"
    BY <1>2 DEF ReadingOf, Ages
  <1>4. rpc[r] = "read" =>
          /\ rpos[r] <= Len(file'[rsess[r]])
          /\ \A j \in 1..rpos[r] : file'[rsess[r]][j] = file[rsess[r]][j]
    <2>1. SUFFICES ASSUME rpc[r] = "read", NEW s \in Sessions, s = rsess[r]
                   PROVE  /\ rpos[r] <= Len(file'[s])
                          /\ \A j \in 1..rpos[r] : file'[s][j] = file[s][j]
      BY <1>3
    <2>2. /\ Len(file[s]) \in Nat /\ Len(file'[s]) \in Nat /\ rpos[r] \in Nat
          /\ rpos[r] <= Len(file[s]) /\ Len(file[s]) <= Len(file'[s])
      BY <1>2, <2>1 DEF IInv, TypeOK, Grows, ReadingOf
    <2>3. QED BY <2>2 DEF Grows
  <1>5. rpc[r] = "done" /\ meta'[rsess[r]] = "present" => meta[rsess[r]] = "present"
    BY <1>3, <1>2 DEF IInv, TypeOK, Ages, ReadingOf
  <1>6. /\ got' = got /\ rafter' = rafter /\ rpc' = rpc
        /\ rpos' = rpos /\ rsess' = rsess /\ seen0' = seen0
    OBVIOUS
  <1>7. /\ Increasing(got'[r]) /\ \A i \in 1..Len(got'[r]) : got'[r][i].id > rafter'[r]
        /\ rpc'[r] \in {"idle", "open"} => got'[r] = <<>> /\ rpos'[r] = 0
    BY <1>2, <1>6 DEF ReadingOf
  <1>8. rpc'[r] = "read" =>
          /\ rpos'[r] <= Len(file'[rsess'[r]])
          /\ \A j \in 1..rpos'[r] :
              /\ file'[rsess'[r]][j] # Orphan
              /\ file'[rsess'[r]][j].id > rafter'[r] =>
                   \E i \in 1..Len(got'[r]) : got'[r][i] = file'[rsess'[r]][j]
          /\ \A i \in 1..Len(got'[r]) : \E j \in 1..rpos'[r] : got'[r][i] = file'[rsess'[r]][j]
    BY <1>2, <1>4, <1>6 DEF ReadingOf
  <1>9. rpc'[r] = "done" /\ meta'[rsess'[r]] = "present" =>
          \A e \in seen0'[r] : e.id > rafter'[r] => \E i \in 1..Len(got'[r]) : got'[r][i] = e
    BY <1>2, <1>5, <1>6 DEF ReadingOf
  <1>10. QED BY <1>3, <1>6, <1>7, <1>8, <1>9 DEF ReadingOf

\* A sequence behind another.
LEMMA ConcatFront ==
    ASSUME NEW f \in Seq(Records), NEW b \in Seq(Records)
    PROVE  /\ f \o b \in Seq(Records) /\ Len(f \o b) = Len(f) + Len(b)
           /\ \A i \in 1..Len(f) : i \in 1..Len(f \o b) /\ (f \o b)[i] = f[i]
           /\ b = <<>> => f \o b = f
  <1>1. f \o b \in Seq(Records)
    OBVIOUS
  <1>2. Len(f \o b) = Len(f) + Len(b)
    OBVIOUS
  <1>3. \A i \in 1..Len(f) : (f \o b)[i] = f[i]
    OBVIOUS
  <1>4. \A i \in 1..Len(f) : i \in 1..Len(f \o b)
    <2>1. Len(f) \in Nat /\ Len(b) \in Nat
      OBVIOUS
    <2>2. QED BY <1>2, <2>1
  <1>5. b = <<>> => f \o b = f
    OBVIOUS
  <1>6. QED BY <1>1, <1>2, <1>3, <1>4, <1>5

\* A step on one session leaves the others' numbers alone.
LEMMA OthersNumbered ==
    ASSUME Numbered, NEW s \in Sessions, NumberedOf(s)',
           \A t \in Sessions \ {s} :
               /\ file'[t] = file[t] /\ buf'[t] = buf[t] /\ loaded'[t] = loaded[t]
               /\ nextID'[t] = nextID[t] /\ wedged'[t] = wedged[t]
    PROVE  Numbered'
  <1>1. SUFFICES ASSUME NEW t \in Sessions \ {s} PROVE NumberedOf(t)'
    BY DEF Numbered
  <1>2. NumberedOf(t)
    BY DEF Numbered
  <1>3. QED BY <1>2 DEF NumberedOf, Q

\* The records of a session are records, the file's first.
LEMMA QType ==
    ASSUME IInv, NEW s \in Sessions
    PROVE  /\ file[s] \in Seq(Records) /\ buf[s] \in Seq(Events) /\ buf[s] \in Seq(Records)
           /\ Q(s) \in Seq(Records) /\ Len(Q(s)) = Len(file[s]) + Len(buf[s])
           /\ \A i \in 1..Len(file[s]) : Q(s)[i] = file[s][i]
           /\ buf[s] = <<>> => Q(s) = file[s]
           /\ Dense(file[s]) /\ Rising(file[s])
  <1>1. file[s] \in Seq(Records) /\ buf[s] \in Seq(Events)
    BY DEF IInv, TypeOK
  <1>2. buf[s] \in Seq(Records)
    BY <1>1 DEF Records
  <1>3. /\ Q(s) \in Seq(Records) /\ Len(Q(s)) = Len(file[s]) + Len(buf[s])
        /\ \A i \in 1..Len(file[s]) : i \in 1..Len(Q(s)) /\ Q(s)[i] = file[s][i]
        /\ buf[s] = <<>> => Q(s) = file[s]
    BY <1>1, <1>2, ConcatFront, Zenon DEF Q
  <1>4. Dense(file[s]) /\ Rising(file[s])
    <2>1. Dense(Q(s)) /\ Rising(Q(s))
      BY DEF IInv, Numbered, NumberedOf
    <2>2. \A i \in 1..Len(file[s]) : 1..i \subseteq 1..Len(file[s])
      BY <1>1
    <2>3. Dense(file[s])
      BY <1>3, <2>1, <2>2 DEF Dense
    <2>4. Rising(file[s])
      BY <1>3, <2>1 DEF Rising
    <2>5. QED BY <2>3, <2>4
  <1>5. QED BY <1>1, <1>2, <1>3, <1>4

\* The id the next event gets.
LEMMA NextIdIsNext ==
    ASSUME IInv, NEW s \in Sessions
    PROVE  /\ NextId(s) \in Nat \ {0} /\ Below(Q(s), NextId(s))
           /\ ~wedged[s] /\ Intact(Q(s)) => NextId(s) = Len(Q(s)) + 1
  <1>1. CASE loaded[s]
    BY <1>1 DEF IInv, TypeOK, Numbered, NumberedOf, NextId
  <1>2. CASE ~loaded[s]
    <2>0. buf[s] = <<>>
      BY <1>2 DEF IInv, Closed
    <2>1. Q(s) = file[s] /\ Q(s) \in Seq(Records) /\ Dense(Q(s))
      BY <2>0, QType, Zenon
    <2>2. NextId(s) = scanNextID(Q(s))
      BY <1>2, <2>1 DEF NextId
    <2>3. QED BY <2>1, <2>2, ScanIsNext
  <1>3. QED BY <1>1, <1>2

-----------------------------------------------------------------------------
(* Writing.                                                                *)

\* A record more in the buffer.
LEMMA ConcatAppend ==
    ASSUME NEW f \in Seq(Records), NEW b \in Seq(Events), NEW e \in Events
    PROVE  /\ Append(b, e) \in Seq(Events) /\ Len(Append(b, e)) = Len(b) + 1
           /\ f \o Append(b, e) = Append(f \o b, e)
  <1>1. b \in Seq(Records) /\ e \in Records
    BY DEF Records
  <1>2. Append(b, e) \in Seq(Events) /\ Len(Append(b, e)) = Len(b) + 1
    OBVIOUS
  <1>3. f \o Append(b, e) = Append(f \o b, e)
    BY <1>1
  <1>4. QED BY <1>2, <1>3

\* Positions in a file and a buffer behind it.
LEMMA Within ==
    \A a, b \in Nat : \A n \in 0..b : a + n \in 0..(a + b) /\ a + n \in 0..(a + b + 1)
  OBVIOUS

\* What WriteOut does to the files.
LEMMA WriteOutIs ==
    ASSUME IInv, NEW s \in Sessions, NEW q \in Seq(Events), NEW n \in 0..Len(q),
           NEW part \in Parts, WriteOut(s, q, n, part)
    PROVE  /\ file' \in [Sessions -> Seq(Records)] /\ torn' \in [Sessions -> Parts] /\ Grows
           /\ \A t \in Sessions \ {s} : file'[t] = file[t]
           /\ file'[s] \o SubSeq(q, n + 1, Len(q)) = file[s] \o q
           /\ SubSeq(q, n + 1, Len(q)) \in Seq(Events)
           /\ file'[s] = SubSeq(file[s] \o q, 1, Len(file[s]) + n)
           /\ n = Len(q) => file'[s] = file[s] \o q
  <1> DEFINE g == file[s] \o SubSeq(q, 1, n)
  <1>1. file \in [Sessions -> Seq(Records)] /\ torn \in [Sessions -> Parts]
    BY DEF IInv, TypeOK
  <1>2. file[s] \in Seq(Records)
    BY <1>1
  <1>3. /\ g \in Seq(Records) /\ Len(g) = Len(file[s]) + n
        /\ \A i \in 1..Len(file[s]) : g[i] = file[s][i]
        /\ g \o SubSeq(q, n + 1, Len(q)) = file[s] \o q
        /\ SubSeq(q, n + 1, Len(q)) \in Seq(Events)
        /\ g = SubSeq(file[s] \o q, 1, Len(file[s]) + n)
        /\ n = Len(q) => g = file[s] \o q
    BY <1>2, WriteOutMoves
  <1>4. file' = [file EXCEPT ![s] = g] /\ torn' = [torn EXCEPT ![s] = part]
    BY DEF WriteOut
  <1> HIDE DEF g
  <1>5. /\ file' \in [Sessions -> Seq(Records)] /\ torn' \in [Sessions -> Parts]
        /\ file'[s] = g /\ \A t \in Sessions \ {s} : file'[t] = file[t]
    BY <1>1, <1>3, <1>4
  <1>6. Grows
    <2>1. \A t \in Sessions : Len(file[t]) \in Nat
      BY <1>1
    <2>2. Len(file[s]) <= Len(g)
      BY <1>3, <2>1
    <2>3. QED BY <1>3, <1>5, <2>1, <2>2 DEF Grows
  <1>7. QED BY <1>3, <1>5, <1>6

\* An event is appended to a session.
LEMMA AppendsNext ==
    ASSUME IInv, NEW s \in Sessions, ~wedged[s], (Q(s))' = Append(Q(s), Stamped(s)),
           nextID'[s] = NextId(s) + 1
    PROVE  NumberedOf(s)'
  <1> DEFINE e == Stamped(s)
             p == Append(Q(s), e)
  <1>1. e \in Events /\ e.id = NextId(s)
    BY NextIdIsNext DEF Stamped, Events, IInv, TypeOK
  <1>2. /\ Q(s) \in Seq(Records) /\ Dense(Q(s)) /\ Rising(Q(s)) /\ Below(Q(s), e.id)
        /\ Intact(Q(s)) => e.id = Len(Q(s)) + 1
    BY <1>1, QType, NextIdIsNext DEF IInv, Numbered, NumberedOf
  <1> HIDE DEF e
  <1>3. Dense(p) /\ Rising(p) /\ Below(p, e.id + 1)
    BY <1>1, <1>2, AppendKeepsIds
  <1>4. Intact(p) => e.id + 1 = Len(p) + 1
    <2>1. Len(p) = Len(Q(s)) + 1 /\ \A i \in 1..Len(Q(s)) : i \in 1..Len(p) /\ p[i] = Q(s)[i]
      BY <1>1, <1>2, RecordIds
    <2>2. QED BY <1>2, <2>1 DEF Intact
  <1>5. e.id + 1 # 0
    BY <1>1, RecordIds
  <1>6. (Q(s))' = p /\ nextID'[s] = e.id + 1
    BY <1>1 DEF e
  <1> HIDE DEF p
  <1>7. QED BY <1>3, <1>4, <1>5, <1>6 DEF NumberedOf

\* The records of a session are cut short: its writer is broken, or gone.
LEMMA CutsShort ==
    ASSUME NEW s \in Sessions, NEW q \in Seq(Records), Dense(q), Rising(q), NEW m \in 0..Len(q),
           (Q(s))' = SubSeq(q, 1, m),
           loaded'[s] => wedged'[s] /\ nextID'[s] # 0 /\ Below(q, nextID'[s])
    PROVE  NumberedOf(s)'
  <1>1. /\ Dense(SubSeq(q, 1, m)) /\ Rising(SubSeq(q, 1, m))
        /\ \A k : Below(q, k) => Below(SubSeq(q, 1, m), k)
    BY PrefixKeepsIds
  <1>2. QED BY <1>1 DEF NumberedOf

-----------------------------------------------------------------------------
(* One lemma per action.                                                   *)

\* Files and records of acknowledged events that nothing touches.
LEMMA NothingGrows == ASSUME IInv, UNCHANGED file PROVE Grows /\ file' \in [Sessions -> Seq(Records)]
  BY DEF IInv, TypeOK, Grows

\* A new session counts from its empty file.
LEMMA CreateInv == ASSUME IInv, NEW s \in Sessions, Create(s) PROVE IInv'
  <1>1. /\ UNCHANGED <<file, torn, durable, buf, wedged, holder, stage, crashes, acked>>
        /\ UNCHANGED <<rpc, rsess, rafter, rpos, got, seen0>>
        /\ meta[s] = "none" /\ meta' = [meta EXCEPT ![s] = "present"]
        /\ loaded' = [loaded EXCEPT ![s] = TRUE]
        /\ nextID' = [nextID EXCEPT ![s] = scanNextID(file[s])]
    BY DEF Create, readVars
  <1>2. ~loaded[s] /\ buf[s] = <<>> /\ ~wedged[s]
    BY <1>1 DEF IInv, Closed
  <1>3. scanNextID(file[s]) = NextId(s)
    BY <1>2 DEF NextId
  <1>4. TypeOK'
    BY <1>1, <1>3, NextIdIsNext DEF IInv, TypeOK
  <1>5. Numbered'
    <2>1. loaded'[s] = TRUE /\ nextID'[s] = NextId(s)
      BY <1>1, <1>3 DEF IInv, TypeOK
    <2>2. NumberedOf(s)'
      BY <1>1, <2>1, NextIdIsNext DEF IInv, Numbered, NumberedOf, Q
    <2>3. QED BY <1>1, <2>2, OthersNumbered DEF IInv, TypeOK
  <1>6. Closed' /\ Holding'
    BY <1>1, <1>2 DEF IInv, TypeOK, Closed, Holding, Q
  <1>7. Ages
    BY <1>1 DEF IInv, TypeOK, Ages
  <1>8. AckedIsDurable' /\ Reading'
    BY <1>1, <1>7, NothingGrows, DurableKept, ReadingKept
  <1>9. QED BY <1>4, <1>5, <1>6, <1>8 DEF IInv

\* Append is at its write: the id is taken.
LEMMA TakesId ==
    ASSUME IInv, NEW s \in Sessions, Loadable(s),
           loaded' = [loaded EXCEPT ![s] = TRUE],
           nextID' = [nextID EXCEPT ![s] = NextId(s) + 1]
    PROVE  /\ loaded' \in [Sessions -> BOOLEAN] /\ nextID' \in [Sessions -> Nat]
           /\ loaded'[s] = TRUE /\ nextID'[s] = NextId(s) + 1 /\ meta[s] = "present"
           /\ \A t \in Sessions \ {s} : loaded'[t] = loaded[t] /\ nextID'[t] = nextID[t]
           /\ Stamped(s) \in Events /\ Buffered(s) \in Seq(Events)
           /\ Len(Buffered(s)) = Len(buf[s]) + 1
           /\ file[s] \o Buffered(s) = Append(Q(s), Stamped(s))
  <1>1. Stamped(s) \in Events
    BY NextIdIsNext DEF Stamped, Events, IInv, TypeOK
  <1>2. /\ loaded' \in [Sessions -> BOOLEAN] /\ nextID' \in [Sessions -> Nat]
        /\ loaded'[s] = TRUE /\ nextID'[s] = NextId(s) + 1
        /\ \A t \in Sessions \ {s} : loaded'[t] = loaded[t] /\ nextID'[t] = nextID[t]
    BY NextIdIsNext DEF IInv, TypeOK
  <1>3. /\ Buffered(s) \in Seq(Events) /\ Len(Buffered(s)) = Len(buf[s]) + 1
        /\ file[s] \o Buffered(s) = Append(Q(s), Stamped(s))
    BY <1>1, QType, ConcatAppend DEF Buffered, Q
  <1>4. QED BY <1>1, <1>2, <1>3 DEF Loadable

\* The record is behind the others, in the buffer or, with them, partly in the file.
LEMMA AppendWriteInv ==
    ASSUME NoSession \notin Sessions, IInv, NEW s \in Sessions, NEW syncNow \in BOOLEAN,
           AppendWrite(s, syncNow)
    PROVE  IInv'
  <1>1. /\ UNCHANGED <<meta, durable, wedged, crashes, acked>>
        /\ UNCHANGED <<rpc, rsess, rafter, rpos, got, seen0>>
        /\ holder = NoSession /\ ~wedged[s] /\ Loadable(s)
        /\ loaded' = [loaded EXCEPT ![s] = TRUE]
        /\ nextID' = [nextID EXCEPT ![s] = NextId(s) + 1]
        /\ (holder' = s /\ stage' = "flush") \/ UNCHANGED <<holder, stage>>
    BY DEF AppendWrite, readVars, Unlocked
  <1>2. /\ loaded' \in [Sessions -> BOOLEAN] /\ nextID' \in [Sessions -> Nat]
        /\ loaded'[s] = TRUE /\ nextID'[s] = NextId(s) + 1 /\ meta[s] = "present"
        /\ \A t \in Sessions \ {s} : loaded'[t] = loaded[t] /\ nextID'[t] = nextID[t]
        /\ Stamped(s) \in Events /\ Buffered(s) \in Seq(Events)
        /\ Len(Buffered(s)) = Len(buf[s]) + 1
        /\ file[s] \o Buffered(s) = Append(Q(s), Stamped(s))
    BY <1>1, TakesId
  <1> DEFINE Writes ==
               /\ file' \in [Sessions -> Seq(Records)] /\ torn' \in [Sessions -> Parts] /\ Grows
               /\ buf' \in [Sessions -> Seq(Events)]
               /\ \A t \in Sessions \ {s} : file'[t] = file[t] /\ buf'[t] = buf[t]
               /\ (Q(s))' = Append(Q(s), Stamped(s))
  <1>3. Writes
    <2>1. CASE buf' = [buf EXCEPT ![s] = Buffered(s)] /\ UNCHANGED <<file, torn>>
      <3>1. buf' \in [Sessions -> Seq(Events)] /\ buf'[s] = Buffered(s)
            /\ \A t \in Sessions \ {s} : buf'[t] = buf[t]
        BY <1>2, <2>1 DEF IInv, TypeOK
      <3>2. file' \in [Sessions -> Seq(Records)] /\ torn' \in [Sessions -> Parts] /\ Grows
        BY <2>1, NothingGrows DEF IInv, TypeOK
      <3>3. QED BY <1>2, <2>1, <3>1, <3>2 DEF Q
    <2>2. ASSUME NEW n \in {Len(buf[s]), Len(buf[s]) + 1}, NEW part \in Parts,
                 WriteOut(s, Buffered(s), n, part),
                 buf' = [buf EXCEPT ![s] = SubSeq(Buffered(s), n + 1, Len(Buffered(s)))]
          PROVE  Writes
      <3>1. n \in 0..Len(Buffered(s))
        BY <1>2 DEF IInv, TypeOK
      <3>2. /\ file' \in [Sessions -> Seq(Records)] /\ torn' \in [Sessions -> Parts] /\ Grows
            /\ \A t \in Sessions \ {s} : file'[t] = file[t]
            /\ file'[s] \o SubSeq(Buffered(s), n + 1, Len(Buffered(s))) = file[s] \o Buffered(s)
            /\ SubSeq(Buffered(s), n + 1, Len(Buffered(s))) \in Seq(Events)
        <4> DEFINE b == Buffered(s)
        <4>1. b \in Seq(Events) /\ n \in 0..Len(b) /\ WriteOut(s, b, n, part)
          BY <1>2, <2>2, <3>1
        <4> HIDE DEF b
        <4>2. /\ file' \in [Sessions -> Seq(Records)] /\ torn' \in [Sessions -> Parts] /\ Grows
              /\ \A t \in Sessions \ {s} : file'[t] = file[t]
              /\ file'[s] \o SubSeq(b, n + 1, Len(b)) = file[s] \o b
              /\ SubSeq(b, n + 1, Len(b)) \in Seq(Events)
          BY <4>1, WriteOutIs, Zenon
        <4>3. QED BY <4>2 DEF b
      <3>3. /\ buf' \in [Sessions -> Seq(Events)]
            /\ buf'[s] = SubSeq(Buffered(s), n + 1, Len(Buffered(s)))
            /\ \A t \in Sessions \ {s} : buf'[t] = buf[t]
        BY <2>2, <3>2 DEF IInv, TypeOK
      <3>4. QED BY <1>2, <3>2, <3>3 DEF Q
    <2>3. QED BY <2>1, <2>2 DEF AppendWrite
  <1>4. TypeOK'
    BY <1>1, <1>2, <1>3 DEF IInv, TypeOK
  <1>5. Numbered'
    <2>1. NumberedOf(s)'
      BY <1>1, <1>2, <1>3, AppendsNext
    <2>2. QED BY <1>1, <1>2, <1>3, <2>1, OthersNumbered DEF IInv
  <1>6. Closed'
    BY <1>1, <1>2, <1>3 DEF IInv, TypeOK, Closed
  <1>7. Holding'
    <2>1. stage = "none"
      BY <1>1 DEF IInv, Holding
    <2>2. CASE UNCHANGED <<holder, stage>>
      BY <1>1, <2>1, <2>2 DEF Holding
    <2>3. CASE holder' = s /\ stage' = "flush"
      <3>1. EndsInEvent((Q(s))')
        BY <1>2, <1>3, QType, RecordIds DEF EndsInEvent
      <3>2. QED BY <2>3, <3>1 DEF Holding
    <2>4. QED BY <1>1, <2>2, <2>3
  <1>8. Ages
    BY <1>1 DEF Ages
  <1>9. AckedIsDurable' /\ Reading'
    BY <1>1, <1>3, <1>8, DurableKept, ReadingKept
  <1>10. QED BY <1>4, <1>5, <1>6, <1>7, <1>9 DEF IInv

\* What was written is a prefix of the records, and the writer is wedged for good.
LEMMA AppendWriteFailsInv ==
    ASSUME IInv, NEW s \in Sessions, AppendWriteFails(s)
    PROVE  IInv'
  <1>1. /\ UNCHANGED <<meta, durable, holder, stage, crashes, acked>>
        /\ UNCHANGED <<rpc, rsess, rafter, rpos, got, seen0>>
        /\ holder = NoSession /\ ~wedged[s] /\ Loadable(s)
        /\ loaded' = [loaded EXCEPT ![s] = TRUE]
        /\ nextID' = [nextID EXCEPT ![s] = NextId(s) + 1]
        /\ buf' = [buf EXCEPT ![s] = <<>>] /\ wedged' = [wedged EXCEPT ![s] = TRUE]
    BY DEF AppendWriteFails, readVars, Unlocked
  <1>2. /\ loaded' \in [Sessions -> BOOLEAN] /\ nextID' \in [Sessions -> Nat]
        /\ loaded'[s] = TRUE /\ nextID'[s] = NextId(s) + 1 /\ meta[s] = "present"
        /\ \A t \in Sessions \ {s} : loaded'[t] = loaded[t] /\ nextID'[t] = nextID[t]
        /\ Stamped(s) \in Events /\ Buffered(s) \in Seq(Events)
        /\ Len(Buffered(s)) = Len(buf[s]) + 1
        /\ file[s] \o Buffered(s) = Append(Q(s), Stamped(s))
    BY <1>1, TakesId
  <1>3. PICK n \in 0..Len(buf[s]), part \in Parts : WriteOut(s, Buffered(s), n, part)
    BY DEF AppendWriteFails
  <1>4. n \in 0..Len(Buffered(s))
    BY <1>2, <1>3 DEF IInv, TypeOK
  <1>5. /\ file' \in [Sessions -> Seq(Records)] /\ torn' \in [Sessions -> Parts] /\ Grows
        /\ \A t \in Sessions \ {s} : file'[t] = file[t]
        /\ file'[s] = SubSeq(file[s] \o Buffered(s), 1, Len(file[s]) + n)
    BY <1>2, <1>3, <1>4, WriteOutIs, Zenon
  <1>6. /\ buf' \in [Sessions -> Seq(Events)] /\ buf'[s] = <<>>
        /\ wedged' \in [Sessions -> BOOLEAN] /\ wedged'[s] = TRUE
        /\ \A t \in Sessions \ {s} : buf'[t] = buf[t] /\ wedged'[t] = wedged[t]
    BY <1>1 DEF IInv, TypeOK
  <1>7. TypeOK'
    BY <1>1, <1>2, <1>5, <1>6 DEF IInv, TypeOK
  <1>8. Numbered'
    <2> DEFINE p == Append(Q(s), Stamped(s))
    <2>1. /\ Q(s) \in Seq(Records) /\ Dense(Q(s)) /\ Rising(Q(s)) /\ Below(Q(s), NextId(s))
          /\ Intact(Q(s)) => NextId(s) = Len(Q(s)) + 1
      BY <1>1, QType, NextIdIsNext DEF IInv, Numbered, NumberedOf
    <2>2. Stamped(s).id = NextId(s)
      BY DEF Stamped
    <2>3. p \in Seq(Records) /\ Dense(p) /\ Rising(p) /\ Below(p, NextId(s) + 1)
      BY <1>2, <2>1, <2>2, AppendKeepsIds
    <2>4. Len(file[s]) + n \in 0..Len(p)
      <3>1. Stamped(s) \in Records
        BY <1>2, RecordIds
      <3>2. Len(p) = Len(Q(s)) + 1
        BY <2>1, <3>1
      <3>3. /\ file[s] \in Seq(Records) /\ buf[s] \in Seq(Records)
            /\ Len(Q(s)) = Len(file[s]) + Len(buf[s])
        BY QType, Zenon
      <3>4. Len(file[s]) \in Nat /\ Len(buf[s]) \in Nat
        BY <3>3
      <3>5. Len(p) = Len(file[s]) + Len(buf[s]) + 1
        BY <3>2, <3>3
      <3> HIDE DEF p
      <3>6. QED BY <3>4, <3>5, Within
    <2>5. (Q(s))' = SubSeq(p, 1, Len(file[s]) + n)
      <3>1. file'[s] \in Seq(Records)
        BY <1>5
      <3>2. (Q(s))' = file'[s]
        BY <1>6, <3>1 DEF Q
      <3>3. QED BY <1>2, <1>5, <3>2
    <2>6. nextID'[s] # 0
      BY <1>2, NextIdIsNext
    <2> HIDE DEF p
    <2>7. NumberedOf(s)'
      BY <1>2, <1>6, <2>3, <2>4, <2>5, <2>6, CutsShort
    <2>8. QED BY <1>2, <1>5, <1>6, <2>7, OthersNumbered DEF IInv
  <1>9. Closed'
    BY <1>1, <1>2, <1>6 DEF IInv, TypeOK, Closed
  <1>10. Holding'
    BY <1>1 DEF IInv, Holding
  <1>11. Ages
    BY <1>1 DEF Ages
  <1>12. AckedIsDurable' /\ Reading'
    BY <1>1, <1>5, <1>11, DurableKept, ReadingKept
  <1>13. QED BY <1>7, <1>8, <1>9, <1>10, <1>12 DEF IInv

\* An id is skipped: the next one is still past all others.
LEMMA AppendRefusedInv == ASSUME IInv, NEW s \in Sessions, AppendRefused(s) PROVE IInv'
  <1>1. /\ UNCHANGED <<meta, file, torn, durable, loaded, buf, wedged, holder, stage>>
        /\ UNCHANGED <<crashes, acked, rpc, rsess, rafter, rpos, got, seen0>>
        /\ wedged[s] /\ holder = NoSession
        /\ nextID' = [nextID EXCEPT ![s] = nextID[s] + 1]
    BY DEF AppendRefused, readVars, Unlocked
  <1>2. TypeOK'
    BY <1>1 DEF IInv, TypeOK
  <1>3. Numbered'
    <2>1. nextID[s] \in Nat /\ nextID'[s] = nextID[s] + 1
          /\ \A t \in Sessions \ {s} : nextID'[t] = nextID[t]
      BY <1>1 DEF IInv, TypeOK
    <2>2. \A i \in 1..Len(Q(s)) : Q(s)[i].id \in Nat
      <3>1. Q(s) \in Seq(Records)
        BY QType, Zenon
      <3>2. QED BY <3>1, RecordIds
    <2>3. Below(Q(s), nextID[s]) => Below(Q(s), nextID[s] + 1)
      BY <2>1, <2>2 DEF Below
    <2>4. NumberedOf(s) /\ (Q(s))' = Q(s) /\ nextID[s] + 1 # 0
      BY <1>1, <2>1 DEF IInv, Numbered, Q
    <2>5. NumberedOf(s)'
      BY <1>1, <2>1, <2>3, <2>4 DEF NumberedOf
    <2>6. QED BY <1>1, <2>1, <2>5, OthersNumbered DEF IInv
  <1>4. Closed' /\ Holding'
    BY <1>1 DEF IInv, Closed, Holding
  <1>5. Ages
    BY <1>1 DEF Ages
  <1>6. AckedIsDurable' /\ Reading'
    BY <1>1, <1>5, NothingGrows, DurableKept, ReadingKept
  <1>7. QED BY <1>2, <1>3, <1>4, <1>6 DEF IInv

\* The records stay the same, all of them are in the file now.
LEMMA AppendFlushInv ==
    ASSUME NoSession \notin Sessions, IInv, NEW s \in Sessions, AppendFlush(s)
    PROVE  IInv'
  <1>1. /\ UNCHANGED <<meta, durable, loaded, nextID, wedged, holder, crashes, acked>>
        /\ UNCHANGED <<rpc, rsess, rafter, rpos, got, seen0>>
        /\ holder = s /\ stage = "flush" /\ stage' = "sync"
        /\ buf' = [buf EXCEPT ![s] = <<>>]
        /\ WriteOut(s, buf[s], Len(buf[s]), "no")
    BY DEF AppendFlush, readVars
  <1>2. buf[s] \in Seq(Events) /\ Len(buf[s]) \in 0..Len(buf[s]) /\ "no" \in Parts
    BY DEF IInv, TypeOK, Parts
  <1>3. /\ file' \in [Sessions -> Seq(Records)] /\ torn' \in [Sessions -> Parts] /\ Grows
        /\ \A t \in Sessions \ {s} : file'[t] = file[t]
        /\ file'[s] = Q(s)
    BY <1>1, <1>2, WriteOutIs, Zenon DEF Q
  <1>4. /\ buf' \in [Sessions -> Seq(Events)] /\ buf'[s] = <<>>
        /\ \A t \in Sessions \ {s} : buf'[t] = buf[t]
    BY <1>1 DEF IInv, TypeOK
  <1>5. (Q(s))' = Q(s)
    BY <1>3, <1>4 DEF Q
  <1>6. TypeOK'
    BY <1>1, <1>3, <1>4 DEF IInv, TypeOK
  <1>7. Numbered'
    <2>1. NumberedOf(s)'
      BY <1>1, <1>5 DEF IInv, Numbered, NumberedOf
    <2>2. QED BY <1>1, <1>3, <1>4, <2>1, OthersNumbered DEF IInv
  <1>8. Closed'
    BY <1>1, <1>4 DEF IInv, Closed
  <1>9. Holding'
    BY <1>1, <1>3 DEF IInv, Holding
  <1>10. Ages
    BY <1>1 DEF Ages
  <1>11. AckedIsDurable' /\ Reading'
    BY <1>1, <1>3, <1>10, DurableKept, ReadingKept
  <1>12. QED BY <1>6, <1>7, <1>8, <1>9, <1>11 DEF IInv

\* The event that is acknowledged is the last record of the file, and that is durable.
LEMMA AppendSyncInv ==
    ASSUME NoSession \notin Sessions, IInv, NEW s \in Sessions, AppendSync(s)
    PROVE  IInv'
  <1> DEFINE e == file[s][Len(file[s])]
  <1>1. /\ UNCHANGED <<meta, file, torn, loaded, nextID, buf, wedged, crashes>>
        /\ UNCHANGED <<rpc, rsess, rafter, rpos, got, seen0>>
        /\ holder = s /\ stage = "sync" /\ holder' = NoSession /\ stage' = "none"
        /\ durable' = [durable EXCEPT ![s] = Len(file[s])]
        /\ acked' = [acked EXCEPT ![s] = acked[s] \cup {e}]
    BY DEF AppendSync, readVars
  <1>2. /\ file[s] \in Seq(Records) /\ Len(file[s]) \in Nat /\ Len(file[s]) \in 1..Len(file[s])
        /\ e \in Events
    <2>1. EndsInEvent(file[s])
      BY <1>1 DEF IInv, Holding
    <2>2. file[s] \in Seq(Records)
      BY DEF IInv, TypeOK
    <2>3. Len(file[s]) \in Nat /\ Len(file[s]) \in 1..Len(file[s])
      BY <2>1, <2>2 DEF EndsInEvent
    <2>4. e \in Records /\ e # Orphan
      BY <2>1, <2>2, <2>3 DEF EndsInEvent
    <2>5. QED BY <2>2, <2>3, <2>4, RecordIds
  <1> HIDE DEF e
  <1>3. TypeOK'
    BY <1>1, <1>2 DEF IInv, TypeOK
  <1>4. Numbered' /\ Closed' /\ Holding'
    BY <1>1 DEF IInv, Numbered, NumberedOf, Q, Closed, Holding
  <1>5. AckedIsDurable'
    <2>1. /\ durable'[s] = Len(file[s]) /\ acked'[s] = acked[s] \cup {e}
          /\ \A t \in Sessions \ {s} : durable'[t] = durable[t] /\ acked'[t] = acked[t]
      BY <1>1 DEF IInv, TypeOK
    <2>2. durable[s] \in Nat /\ durable[s] <= Len(file[s])
      BY DEF IInv, TypeOK, AckedIsDurable
    <2>3. \A x \in acked'[s] : \E i \in 1..durable'[s] : file[s][i] = x
      BY <1>2, <2>1, <2>2 DEF IInv, AckedIsDurable, e
    <2>4. durable'[s] <= Len(file[s])
      BY <1>2, <2>1
    <2>5. ASSUME NEW t \in Sessions
          PROVE  /\ durable'[t] <= Len(file[t])
                 /\ \A x \in acked'[t] : \E i \in 1..durable'[t] : file[t][i] = x
      <3>1. CASE t = s
        BY <2>3, <2>4, <3>1
      <3>2. CASE t # s
        BY <2>1, <3>2 DEF IInv, AckedIsDurable
      <3>3. QED BY <3>1, <3>2
    <2>6. QED BY <1>1, <2>5 DEF AckedIsDurable
  <1>6. Ages /\ \A t \in Sessions : acked[t] \subseteq acked'[t]
    BY <1>1 DEF Ages, IInv, TypeOK
  <1>7. Reading'
    BY <1>1, <1>6, NothingGrows, ReadingKept
  <1>8. QED BY <1>3, <1>4, <1>5, <1>7 DEF IInv

\* As AppendWriteFails.
LEMMA AppendFlushFailsInv == ASSUME IInv, NEW s \in Sessions, AppendFlushFails(s) PROVE IInv'
  <1>1. /\ UNCHANGED <<meta, durable, loaded, nextID, crashes, acked>>
        /\ UNCHANGED <<rpc, rsess, rafter, rpos, got, seen0>>
        /\ holder' = NoSession /\ stage' = "none"
        /\ buf' = [buf EXCEPT ![s] = <<>>] /\ wedged' = [wedged EXCEPT ![s] = TRUE]
    BY DEF AppendFlushFails, readVars
  <1>2. PICK n \in 0..(Len(buf[s]) - 1), part \in Parts : WriteOut(s, buf[s], n, part)
    BY DEF AppendFlushFails
  <1>3. /\ file[s] \in Seq(Records) /\ buf[s] \in Seq(Events) /\ Q(s) \in Seq(Records)
        /\ Len(Q(s)) = Len(file[s]) + Len(buf[s])
    BY QType, Zenon
  <1>4. Len(file[s]) \in Nat /\ Len(buf[s]) \in Nat
    BY <1>3
  <1>5. n \in 0..Len(buf[s]) /\ Len(file[s]) + n \in 0..Len(Q(s)) /\ Len(buf[s]) # 0
    <2>1. Len(Q(s)) = Len(file[s]) + Len(buf[s])
      BY <1>3
    <2>2. n \in 0..Len(buf[s]) /\ Len(buf[s]) # 0
      BY <1>4
    <2>3. QED BY <1>4, <2>1, <2>2, Within
  <1>6. /\ file' \in [Sessions -> Seq(Records)] /\ torn' \in [Sessions -> Parts] /\ Grows
        /\ \A t \in Sessions \ {s} : file'[t] = file[t]
        /\ file'[s] = SubSeq(Q(s), 1, Len(file[s]) + n)
    BY <1>2, <1>3, <1>5, WriteOutIs, Zenon DEF Q
  <1>7. /\ buf' \in [Sessions -> Seq(Events)] /\ buf'[s] = <<>>
        /\ wedged' \in [Sessions -> BOOLEAN] /\ wedged'[s] = TRUE
        /\ \A t \in Sessions \ {s} : buf'[t] = buf[t] /\ wedged'[t] = wedged[t]
    BY <1>1 DEF IInv, TypeOK
  <1>8. TypeOK'
    BY <1>1, <1>6, <1>7 DEF IInv, TypeOK
  <1>9. Numbered'
    <2> DEFINE q == Q(s)
    <2>1. /\ Dense(q) /\ Rising(q)
          /\ loaded'[s] => wedged'[s] /\ nextID'[s] # 0 /\ Below(q, nextID'[s])
      BY <1>1, <1>7 DEF IInv, Numbered, NumberedOf
    <2>2. (Q(s))' = SubSeq(q, 1, Len(file[s]) + n)
      <3>1. file'[s] \in Seq(Records)
        BY <1>6
      <3>2. (Q(s))' = file'[s]
        BY <1>7, <3>1 DEF Q
      <3>3. QED BY <1>6, <3>2
    <2>3. q \in Seq(Records) /\ Len(file[s]) + n \in 0..Len(q)
      BY <1>3, <1>5
    <2> HIDE DEF q
    <2>4. NumberedOf(s)'
      BY <2>1, <2>2, <2>3, CutsShort
    <2>5. QED BY <1>1, <1>6, <1>7, <2>4, OthersNumbered DEF IInv
  <1>10. Closed'
    <2>1. loaded[s]
      BY <1>5 DEF IInv, Closed
    <2>2. QED BY <1>1, <1>7, <2>1 DEF IInv, Closed
  <1>11. Holding'
    BY <1>1 DEF Holding
  <1>12. Ages
    BY <1>1 DEF Ages
  <1>13. AckedIsDurable' /\ Reading'
    BY <1>1, <1>6, <1>12, DurableKept, ReadingKept
  <1>14. QED BY <1>8, <1>9, <1>10, <1>11, <1>13 DEF IInv

\* Nothing is acknowledged.
LEMMA AppendSyncFailsInv == ASSUME IInv, NEW s \in Sessions, AppendSyncFails(s) PROVE IInv'
  <1>1. /\ UNCHANGED <<meta, file, torn, durable, loaded, nextID, buf, wedged, crashes, acked>>
        /\ UNCHANGED <<rpc, rsess, rafter, rpos, got, seen0>>
        /\ holder' = NoSession /\ stage' = "none"
    BY DEF AppendSyncFails, readVars
  <1>2. TypeOK'
    BY <1>1 DEF IInv, TypeOK
  <1>3. Numbered' /\ Closed' /\ Holding'
    BY <1>1 DEF IInv, Numbered, NumberedOf, Q, Closed, Holding
  <1>4. Ages
    BY <1>1 DEF Ages
  <1>5. AckedIsDurable' /\ Reading'
    BY <1>1, <1>4, NothingGrows, DurableKept, ReadingKept
  <1>6. QED BY <1>2, <1>3, <1>5 DEF IInv

\* The file ends in a part of the buffer, or in nothing new.
LEMMA DeleteInv == ASSUME IInv, NEW s \in Sessions, Delete(s) PROVE IInv'
  <1>1. /\ UNCHANGED <<durable, nextID, holder, stage, crashes, acked>>
        /\ UNCHANGED <<rpc, rsess, rafter, rpos, got, seen0>>
        /\ holder = NoSession /\ meta[s] = "present"
        /\ meta' = [meta EXCEPT ![s] = "gone"] /\ loaded' = [loaded EXCEPT ![s] = FALSE]
        /\ buf' = [buf EXCEPT ![s] = <<>>] /\ wedged' = [wedged EXCEPT ![s] = FALSE]
    BY DEF Delete, readVars, Unlocked
  <1>2. /\ meta' \in [Sessions -> {"none", "present", "gone"}] /\ meta'[s] = "gone"
        /\ loaded' \in [Sessions -> BOOLEAN] /\ loaded'[s] = FALSE
        /\ buf' \in [Sessions -> Seq(Events)] /\ buf'[s] = <<>>
        /\ wedged' \in [Sessions -> BOOLEAN] /\ wedged'[s] = FALSE
        /\ \A t \in Sessions \ {s} : /\ meta'[t] = meta[t] /\ loaded'[t] = loaded[t]
                                     /\ buf'[t] = buf[t] /\ wedged'[t] = wedged[t]
    BY <1>1 DEF IInv, TypeOK
  <1>3. /\ file[s] \in Seq(Records) /\ buf[s] \in Seq(Events) /\ Q(s) \in Seq(Records)
        /\ Len(Q(s)) = Len(file[s]) + Len(buf[s]) /\ Dense(file[s]) /\ Rising(file[s])
    BY QType, Zenon
  <1> DEFINE Removes ==
               /\ file' \in [Sessions -> Seq(Records)] /\ torn' \in [Sessions -> Parts] /\ Grows
               /\ \A t \in Sessions \ {s} : file'[t] = file[t]
               /\ NumberedOf(s)'
  <1>4. Removes
    <2>1. file' \in [Sessions -> Seq(Records)] => (Q(s))' = file'[s]
      <3>1. ASSUME file'[s] \in Seq(Records) PROVE file'[s] \o <<>> = file'[s]
        BY <3>1
      <3>2. QED BY <1>2, <3>1 DEF Q
    <2>2. CASE UNCHANGED <<file, torn>>
      <3>1. file' \in [Sessions -> Seq(Records)] /\ torn' \in [Sessions -> Parts] /\ Grows
        BY <2>2, NothingGrows DEF IInv, TypeOK
      <3>2. NumberedOf(s)'
        BY <1>2, <1>3, <2>1, <2>2, <3>1 DEF NumberedOf
      <3>3. QED BY <2>2, <3>1, <3>2
    <2>3. ASSUME NEW n \in 0..Len(buf[s]), NEW part \in Parts, WriteOut(s, buf[s], n, part)
          PROVE  Removes
      <3>1. /\ file' \in [Sessions -> Seq(Records)] /\ torn' \in [Sessions -> Parts] /\ Grows
            /\ \A t \in Sessions \ {s} : file'[t] = file[t]
            /\ file'[s] = SubSeq(Q(s), 1, Len(file[s]) + n)
        BY <1>3, <2>3, WriteOutIs, Zenon DEF Q
      <3>2. Len(file[s]) + n \in 0..Len(Q(s))
        <4>1. Len(file[s]) \in Nat /\ Len(buf[s]) \in Nat
          BY <1>3
        <4>2. Len(Q(s)) = Len(file[s]) + Len(buf[s])
          BY <1>3
        <4>3. QED BY <4>1, <4>2, Within
      <3>3. NumberedOf(s)'
        <4> DEFINE q == Q(s)
        <4>1. Dense(q) /\ Rising(q)
          BY DEF IInv, Numbered, NumberedOf
        <4>2. (Q(s))' = SubSeq(q, 1, Len(file[s]) + n)
          BY <2>1, <3>1
        <4>3. q \in Seq(Records) /\ Len(file[s]) + n \in 0..Len(q)
          BY <1>3, <3>2
        <4> HIDE DEF q
        <4>4. QED BY <1>2, <4>1, <4>2, <4>3, CutsShort
      <3>4. QED BY <3>1, <3>3
    <2>4. QED BY <2>2, <2>3 DEF Delete
  <1>5. TypeOK'
    BY <1>1, <1>2, <1>4 DEF IInv, TypeOK
  <1>6. Numbered'
    BY <1>1, <1>2, <1>4, OthersNumbered DEF IInv
  <1>7. Closed'
    BY <1>2 DEF IInv, Closed
  <1>8. Holding'
    BY <1>1 DEF IInv, Holding
  <1>9. Ages
    BY <1>1, <1>2 DEF Ages
  <1>10. AckedIsDurable' /\ Reading'
    BY <1>1, <1>4, <1>9, DurableKept, ReadingKept
  <1>11. QED BY <1>5, <1>6, <1>7, <1>8, <1>10 DEF IInv

\* Both crashes: a prefix of every file is left that has all that is durable, and nothing
\* in memory.
LEMMA CrashInv ==
    ASSUME NoSession \notin Sessions, IInv, Stop,
           NEW kept \in [Sessions -> Nat], NEW part \in [Sessions -> Parts], Leave(kept, part),
           \A s \in Sessions : kept[s] \in durable[s]..Len(file[s]),
           meta' \in [Sessions -> {"none", "present", "gone"}], Ages,
           durable' \in [Sessions -> Nat],
           \A s \in Sessions : durable[s] <= durable'[s],
           \A s \in Sessions : kept[s] <= Len(file'[s]) => durable'[s] <= Len(file'[s])
    PROVE  IInv'
  <1>1. /\ crashes' = crashes + 1 /\ holder' = NoSession /\ stage' = "none"
        /\ loaded' = [s \in Sessions |-> FALSE] /\ nextID' = [s \in Sessions |-> 0]
        /\ buf' = [s \in Sessions |-> <<>>] /\ wedged' = [s \in Sessions |-> FALSE]
        /\ rpc' = [r \in Readers |-> IF rpc[r] \in {"open", "read"} THEN "failed" ELSE rpc[r]]
        /\ UNCHANGED <<rsess, rafter, rpos, got, seen0, acked>>
    BY DEF Stop
  <1>2. ASSUME NEW s \in Sessions
        PROVE  /\ file'[s] \in Seq(Records) /\ kept[s] <= Len(file'[s])
               /\ \A i \in 1..kept[s] : file'[s][i] = file[s][i]
               /\ Dense(file'[s]) /\ Rising(file'[s])
    <2> DEFINE f == file[s]
               g == file'[s]
               n == kept[s]
    <2>1. f \in Seq(Records) /\ Dense(f) /\ Rising(f)
      BY QType, Zenon
    <2>2. n \in 0..Len(f)
      BY DEF IInv, TypeOK
    <2>3. g = SubSeq(f, 1, n) \/ g = SubSeq(f, 1, n) \o <<Orphan>>
      <3>1. g = SubSeq(f, 1, n) \o (IF part[s] = "header" THEN <<Orphan>> ELSE <<>>)
        BY DEF Leave
      <3>2. SubSeq(f, 1, n) \o <<>> = SubSeq(f, 1, n)
        BY <2>1, <2>2
      <3>3. QED BY <3>1, <3>2
    <2> HIDE DEF f, g, n
    <2>4. /\ g \in Seq(Records) /\ n <= Len(g) /\ \A i \in 1..n : g[i] = f[i]
          /\ Dense(g) /\ Rising(g)
      BY <2>1, <2>2, <2>3, LeaveKeepsIds
    <2>5. QED BY <2>4 DEF f, g, n
  <1>3. file' \in [Sessions -> Seq(Records)] /\ torn' \in [Sessions -> Parts]
    <2>1. file' = [s \in Sessions |-> file'[s]]
      BY DEF Leave
    <2>2. torn' \in [Sessions -> Parts]
      BY DEF Leave, Parts
    <2>3. QED BY <1>2, <2>1, <2>2
  <1>4. TypeOK'
    BY <1>1, <1>3 DEF IInv, TypeOK
  <1>5. Numbered' /\ Closed'
    <2>1. ASSUME NEW s \in Sessions PROVE (Q(s))' = file'[s]
      BY <1>1, <1>2 DEF Q
    <2>2. QED BY <1>1, <1>2, <2>1 DEF Numbered, NumberedOf, Closed
  <1>6. Holding'
    BY <1>1 DEF Holding
  <1>7. AckedIsDurable'
    <2>1. SUFFICES ASSUME NEW s \in Sessions
                   PROVE  /\ durable'[s] <= Len(file'[s])
                          /\ \A e \in acked[s] : \E i \in 1..durable'[s] : file'[s][i] = e
      BY <1>1 DEF AckedIsDurable
    <2>2. durable'[s] <= Len(file'[s])
      BY <1>2
    <2>3. \A i \in 1..durable[s] : i \in 1..kept[s] /\ i \in 1..durable'[s]
      BY DEF IInv, TypeOK
    <2>4. \A e \in acked[s] : \E i \in 1..durable[s] : file[s][i] = e
      BY DEF IInv, AckedIsDurable
    <2>5. QED BY <1>2, <2>2, <2>3, <2>4
  <1>8. Reading'
    <2>1. SUFFICES ASSUME NEW r \in Readers PROVE ReadingOf(r)'
      BY DEF Reading
    <2>2. ReadingOf(r)
      BY DEF IInv, Reading
    <2>3. rpc'[r] \in {"idle", "done", "failed"} /\ (rpc'[r] # "failed" => rpc'[r] = rpc[r])
      BY <1>1 DEF IInv, TypeOK
    <2>4. rpc[r] = "done" =>
            /\ meta'[rsess[r]] # "none"
            /\ meta'[rsess[r]] = "present" => meta[rsess[r]] = "present"
      BY <2>2 DEF ReadingOf, Ages, IInv, TypeOK
    <2>5. QED BY <1>1, <2>2, <2>3, <2>4 DEF ReadingOf
  <1>9. QED BY <1>4, <1>5, <1>6, <1>7, <1>8 DEF IInv

\* All that was written is left,
LEMMA ProcessCrashInv == ASSUME NoSession \notin Sessions, IInv, ProcessCrash PROVE IInv'
  <1> DEFINE kept == [s \in Sessions |-> Len(file[s])]
  <1>1. Stop /\ Leave(kept, torn) /\ UNCHANGED <<meta, durable>>
    BY DEF ProcessCrash
  <1>2. \A s \in Sessions : /\ Len(file[s]) \in Nat /\ durable[s] \in Nat
                            /\ durable[s] <= Len(file[s]) /\ kept[s] = Len(file[s])
    BY DEF IInv, TypeOK, AckedIsDurable
  <1>3. /\ kept \in [Sessions -> Nat] /\ torn \in [Sessions -> Parts]
        /\ meta' \in [Sessions -> {"none", "present", "gone"}]
        /\ durable' \in [Sessions -> Nat]
    BY <1>1, <1>2 DEF IInv, TypeOK
  <1>4. Ages
    BY <1>1 DEF Ages
  <1>5. \A s \in Sessions : kept[s] \in durable[s]..Len(file[s]) /\ durable[s] <= durable'[s]
    BY <1>1, <1>2
  <1> HIDE DEF kept
  <1>6. \A s \in Sessions : kept[s] <= Len(file'[s]) => durable'[s] <= Len(file'[s])
    <2>1. SUFFICES ASSUME NEW s \in Sessions, kept[s] <= Len(file'[s])
                   PROVE  durable[s] <= Len(file'[s])
      BY <1>1
    <2>2. file' = [t \in Sessions |->
                     SubSeq(file[t], 1, kept[t]) \o (IF torn[t] = "header" THEN <<Orphan>> ELSE <<>>)]
      BY <1>1 DEF Leave
    <2>3. Len(file'[s]) \in Nat
      <3>1. SubSeq(file[s], 1, kept[s]) \in Seq(Records)
        BY <1>2, <1>5 DEF IInv, TypeOK
      <3>2. file'[s] \in Seq(Records)
        BY <2>2, <3>1, RecordIds
      <3>3. QED BY <3>2
    <2>4. QED BY <1>2, <2>1, <2>3
  <1>7. QED BY <1>1, <1>3, <1>4, <1>5, <1>6, CrashInv

\* or all that was synced, at least.
LEMMA PowerLossInv == ASSUME NoSession \notin Sessions, IInv, PowerLoss PROVE IInv'
  <1>1. PICK kept \in [Sessions -> 0..(MaxEvents + MaxCrashes)], part \in [Sessions -> Parts] :
          /\ \A s \in Sessions : kept[s] \in durable[s]..Len(file[s])
          /\ Leave(kept, part)
          /\ durable' = [s \in Sessions |-> Len(file'[s])]
    BY DEF PowerLoss
  <1>2. PICK lost \in SUBSET Sessions :
          meta' = [s \in Sessions |-> IF s \in lost /\ meta[s] = "present" THEN "gone" ELSE meta[s]]
    BY DEF PowerLoss
  <1>3. /\ meta' \in [Sessions -> {"none", "present", "gone"}] /\ Ages
    BY <1>2 DEF IInv, TypeOK, Ages
  <1>4. \A s \in Sessions : kept[s] \in Nat /\ durable[s] \in Nat /\ durable[s] <= kept[s]
    BY <1>1 DEF IInv, TypeOK
  <1>5. kept \in [Sessions -> Nat]
    BY <1>4
  <1>6. ASSUME NEW s \in Sessions
        PROVE  Len(file'[s]) \in Nat /\ kept[s] <= Len(file'[s])
    <2> DEFINE f == file[s]
               g == file'[s]
               n == kept[s]
    <2>1. f \in Seq(Records) /\ Dense(f) /\ Rising(f)
      BY QType, Zenon
    <2>2. n \in 0..Len(f)
      BY <1>1, <1>4
    <2>3. g = SubSeq(f, 1, n) \/ g = SubSeq(f, 1, n) \o <<Orphan>>
      <3>1. g = SubSeq(f, 1, n) \o (IF part[s] = "header" THEN <<Orphan>> ELSE <<>>)
        BY <1>1 DEF Leave
      <3>2. SubSeq(f, 1, n) \o <<>> = SubSeq(f, 1, n)
        BY <2>1, <2>2
      <3>3. QED BY <3>1, <3>2
    <2> HIDE DEF f, g, n
    <2>4. g \in Seq(Records) /\ n <= Len(g)
      BY <2>1, <2>2, <2>3, LeaveKeepsIds
    <2>5. Len(g) \in Nat
      BY <2>4
    <2>6. QED BY <2>4, <2>5 DEF g, n
  <1>7. /\ durable' \in [Sessions -> Nat]
        /\ \A s \in Sessions : durable[s] <= durable'[s]
        /\ \A s \in Sessions : kept[s] <= Len(file'[s]) => durable'[s] <= Len(file'[s])
    BY <1>1, <1>4, <1>6
  <1>8. Stop
    BY DEF PowerLoss
  <1>9. QED BY <1>1, <1>3, <1>5, <1>7, <1>8, CrashInv

-----------------------------------------------------------------------------
(* Replay.                                                                 *)

\* A step of one call leaves the others alone.
LEMMA OthersRead ==
    ASSUME IInv, NEW r \in Readers, ReadingOf(r)', UNCHANGED <<file, meta, acked>>,
           \A x \in Readers \ {r} :
               /\ rpc'[x] = rpc[x] /\ rsess'[x] = rsess[x] /\ rafter'[x] = rafter[x]
               /\ rpos'[x] = rpos[x] /\ got'[x] = got[x] /\ seen0'[x] = seen0[x]
    PROVE  Reading'
  <1>1. SUFFICES ASSUME NEW x \in Readers \ {r} PROVE ReadingOf(x)'
    BY DEF Reading
  <1>2. ReadingOf(x)
    BY DEF IInv, Reading
  <1>3. /\ rpc'[x] = rpc[x] /\ rsess'[x] = rsess[x] /\ rafter'[x] = rafter[x]
        /\ rpos'[x] = rpos[x] /\ got'[x] = got[x] /\ seen0'[x] = seen0[x]
    OBVIOUS
  <1>4. file' = file /\ meta' = meta /\ acked' = acked
    OBVIOUS
  <1>5. QED BY <1>2, <1>3, <1>4 DEF ReadingOf

\* A step of a call that leaves the log alone.
LEMMA OnlyReads ==
    ASSUME IInv, UNCHANGED <<meta, file, durable, loaded, nextID, buf, wedged, holder, stage, acked>>,
           TypeOK', Reading'
    PROVE  IInv'
  <1>1. Numbered' /\ Closed' /\ Holding'
    BY DEF IInv, Numbered, NumberedOf, Q, Closed, Holding
  <1>2. AckedIsDurable'
    BY DEF IInv, AckedIsDurable
  <1>3. QED BY <1>1, <1>2 DEF IInv

\* A session that is loaded counts from its file.
LEMMA ReplayStartInv ==
    ASSUME IInv, NEW r \in Readers, NEW s \in Sessions, NEW after \in Nat, ReplayStart(r, s, after)
    PROVE  IInv'
  <1>1. /\ UNCHANGED <<meta, file, torn, durable, buf, wedged, holder, stage, crashes, acked>>
        /\ UNCHANGED <<rpos, got>>
        /\ holder = NoSession /\ rpc[r] = "idle"
        /\ rsess' = [rsess EXCEPT ![r] = s] /\ rafter' = [rafter EXCEPT ![r] = after]
        /\ seen0' = [seen0 EXCEPT ![r] = acked[s]]
    BY DEF ReplayStart, Unlocked
  <1>2. \/ /\ Loadable(s) /\ rpc' = [rpc EXCEPT ![r] = "open"]
           /\ loaded' = [loaded EXCEPT ![s] = TRUE] /\ nextID' = [nextID EXCEPT ![s] = NextId(s)]
        \/ rpc' = [rpc EXCEPT ![r] = "failed"] /\ UNCHANGED <<loaded, nextID>>
    BY DEF ReplayStart
  <1>3. TypeOK'
    <2>1. loaded' \in [Sessions -> BOOLEAN] /\ nextID' \in [Sessions -> Nat]
      <3>1. loaded \in [Sessions -> BOOLEAN] /\ nextID \in [Sessions -> Nat]
        BY DEF IInv, TypeOK
      <3>2. NextId(s) \in Nat
        BY NextIdIsNext
      <3>3. QED BY <1>2, <3>1, <3>2
    <2>2. /\ rpc' \in [Readers -> {"idle", "open", "read", "done", "failed"}]
          /\ rsess' \in [Readers -> Sessions \cup {NoSession}] /\ rafter' \in [Readers -> Nat]
      <3>1. /\ rpc \in [Readers -> {"idle", "open", "read", "done", "failed"}]
            /\ rsess \in [Readers -> Sessions \cup {NoSession}] /\ rafter \in [Readers -> Nat]
        BY DEF IInv, TypeOK
      <3>2. rpc' \in [Readers -> {"idle", "open", "read", "done", "failed"}]
        BY <1>2, <3>1
      <3>3. QED BY <1>1, <3>1, <3>2
    <2>3. seen0' \in [Readers -> SUBSET Events]
      <3>1. seen0 \in [Readers -> SUBSET Events] /\ acked[s] \in SUBSET Events
        BY DEF IInv, TypeOK
      <3>2. QED BY <1>1, <3>1
    <2>4. QED BY <1>1, <2>1, <2>2, <2>3 DEF IInv, TypeOK
  <1>4. Numbered' /\ Closed'
    <2>1. CASE UNCHANGED <<loaded, nextID>>
      BY <1>1, <2>1 DEF IInv, Numbered, NumberedOf, Q, Closed
    <2>2. CASE /\ Loadable(s) /\ loaded' = [loaded EXCEPT ![s] = TRUE]
               /\ nextID' = [nextID EXCEPT ![s] = NextId(s)]
      <3>1. loaded'[s] = TRUE /\ nextID'[s] = NextId(s) /\ meta[s] = "present"
            /\ \A t \in Sessions \ {s} : loaded'[t] = loaded[t] /\ nextID'[t] = nextID[t]
        BY <2>2 DEF IInv, TypeOK, Loadable
      <3>2. (Q(s))' = Q(s) /\ wedged'[s] = wedged[s]
        BY <1>1 DEF Q
      <3>3. NumberedOf(s)'
        BY <3>1, <3>2, NextIdIsNext DEF IInv, Numbered, NumberedOf
      <3>4. Numbered'
        BY <1>1, <3>1, <3>3, OthersNumbered DEF IInv
      <3>5. Closed'
        BY <1>1, <3>1 DEF IInv, Closed
      <3>6. QED BY <3>4, <3>5
    <2>3. QED BY <1>2, <2>1, <2>2
  <1>5. Holding' /\ AckedIsDurable'
    <2>1. stage = "none"
      BY <1>1 DEF IInv, Holding
    <2>2. QED BY <1>1, <2>1 DEF IInv, Holding, AckedIsDurable
  <1>6. Reading'
    <2>1. /\ rsess'[r] = s /\ rafter'[r] = after /\ seen0'[r] = acked[s]
          /\ got'[r] = got[r] /\ rpos'[r] = rpos[r]
          /\ (rpc'[r] = "open" /\ meta'[s] = "present") \/ rpc'[r] = "failed"
      BY <1>1, <1>2 DEF IInv, TypeOK, Loadable
    <2>2. got[r] = <<>> /\ rpos[r] = 0
      BY <1>1 DEF IInv, Reading, ReadingOf
    <2>3. ReadingOf(r)'
      BY <1>1, <2>1, <2>2 DEF ReadingOf, Increasing
    <2>4. \A x \in Readers \ {r} :
             /\ rpc'[x] = rpc[x] /\ rsess'[x] = rsess[x] /\ rafter'[x] = rafter[x]
             /\ seen0'[x] = seen0[x]
      BY <1>1, <1>2 DEF IInv, TypeOK
    <2>5. QED BY <1>1, <2>3, <2>4, OthersRead
  <1>7. QED BY <1>3, <1>4, <1>5, <1>6 DEF IInv

\* Nothing has been read yet.
LEMMA ReplayOpenInv == ASSUME IInv, NEW r \in Readers, ReplayOpen(r) PROVE IInv'
  <1>1. /\ UNCHANGED <<meta, file, torn, durable, loaded, nextID, buf, wedged, holder, stage>>
        /\ UNCHANGED <<crashes, rsess, rafter, rpos, got, seen0, acked>>
        /\ rpc[r] = "open"
        /\ rpc' = [rpc EXCEPT ![r] = IF meta[rsess[r]] = "gone" THEN "done" ELSE "read"]
    BY DEF ReplayOpen, logVars
  <1>2. TypeOK'
    BY <1>1 DEF IInv, TypeOK
  <1>3. Reading'
    <2>1. /\ got[r] = <<>> /\ rpos[r] = 0 /\ Increasing(got[r]) /\ rsess[r] \in Sessions
          /\ seen0[r] \subseteq acked[rsess[r]] /\ meta[rsess[r]] # "none"
      BY <1>1 DEF IInv, Reading, ReadingOf
    <2>2. rpc'[r] = IF meta[rsess[r]] = "gone" THEN "done" ELSE "read"
      BY <1>1 DEF IInv, TypeOK
    <2>3. Len(file[rsess[r]]) \in Nat
      BY <2>1 DEF IInv, TypeOK
    <2>4. Len(got[r]) = 0
      BY <2>1
    <2>5. ReadingOf(r)'
      BY <1>1, <2>1, <2>2, <2>3, <2>4 DEF ReadingOf
    <2>6. \A x \in Readers \ {r} : rpc'[x] = rpc[x]
      BY <1>1 DEF IInv, TypeOK
    <2>7. QED BY <1>1, <2>5, <2>6, OthersRead
  <1>4. QED BY <1>1, <1>2, <1>3, OnlyReads

\* One more event, past all those sent.
LEMMA SendsOneMore ==
    ASSUME NEW g \in Seq(Events), Increasing(g), NEW e \in Events,
           \A i \in 1..Len(g) : g[i].id < e.id
    PROVE  /\ Append(g, e) \in Seq(Events) /\ Increasing(Append(g, e))
           /\ Len(Append(g, e)) = Len(g) + 1 /\ Append(g, e)[Len(g) + 1] = e
           /\ \A i \in 1..Len(g) : Append(g, e)[i] = g[i]
  <1> DEFINE p == Append(g, e)
  <1>1. p \in Seq(Events)
    OBVIOUS
  <1>2. Len(p) = Len(g) + 1 /\ p[Len(g) + 1] = e /\ \A i \in 1..Len(g) : p[i] = g[i]
    OBVIOUS
  <1>3. Len(g) \in Nat
    OBVIOUS
  <1> HIDE DEF p
  <1>4. Increasing(p)
    BY <1>2, <1>3 DEF Increasing
  <1>5. QED BY <1>1, <1>2, <1>4 DEF p

\* The record read next has a greater id than all before it, and so than all that was sent.
LEMMA ReplayRecordInv == ASSUME IInv, NEW r \in Readers, ReplayRecord(r) PROVE IInv'
  <1> DEFINE q == file[rsess[r]]
             e == q[rpos[r] + 1]
             g == got[r]
             n == rpos[r]
  <1>1. /\ UNCHANGED <<meta, file, torn, durable, loaded, nextID, buf, wedged, holder, stage>>
        /\ UNCHANGED <<crashes, rpc, rsess, rafter, seen0, acked>>
        /\ rpc[r] = "read" /\ n < Len(q) /\ e # Orphan
        /\ rpos' = [rpos EXCEPT ![r] = n + 1]
        /\ got' = IF e.id <= rafter[r] THEN got ELSE [got EXCEPT ![r] = Append(g, e)]
    BY DEF ReplayRecord, logVars
  <1>2. /\ rsess[r] \in Sessions /\ seen0[r] \subseteq acked[rsess[r]] /\ meta[rsess[r]] # "none"
        /\ n <= Len(q) /\ Increasing(g) /\ \A i \in 1..Len(g) : g[i].id > rafter[r]
        /\ \A j \in 1..n :
             q[j] # Orphan /\ (q[j].id > rafter[r] => \E i \in 1..Len(g) : g[i] = q[j])
        /\ \A i \in 1..Len(g) : \E j \in 1..n : g[i] = q[j]
    BY <1>1 DEF IInv, Reading, ReadingOf
  <1>3. q \in Seq(Records) /\ Rising(q)
    BY <1>2, QType, Zenon
  <1>4. n \in Nat /\ g \in Seq(Events) /\ rafter[r] \in Nat
    BY DEF IInv, TypeOK
  <1>5. Len(q) \in Nat /\ n + 1 \in 1..Len(q)
    <2>1. Len(q) \in Nat
      BY <1>3
    <2>2. QED BY <1>1, <1>4, <2>1
  <1>6. e \in Events /\ e.id \in Nat
    <2>1. e \in Records
      BY <1>3, <1>5
    <2>2. QED BY <1>1, <2>1, RecordIds
  <1>7. \A i \in 1..Len(g) : g[i].id < e.id
    <2>1. \A j \in 1..n : j \in 1..Len(q) /\ j < n + 1
      BY <1>4, <1>5
    <2>2. \A j \in 1..n : q[j].id < e.id
      BY <1>1, <1>5, <2>1, <1>3 DEF Rising
    <2>3. QED BY <1>2, <2>2
  <1> HIDE DEF e, g, n, q
  <1>8. /\ Append(g, e) \in Seq(Events) /\ Increasing(Append(g, e))
        /\ Len(Append(g, e)) = Len(g) + 1 /\ Append(g, e)[Len(g) + 1] = e
        /\ \A i \in 1..Len(g) : Append(g, e)[i] = g[i]
    BY <1>2, <1>4, <1>6, <1>7, SendsOneMore
  <1>9. got \in [Readers -> Seq(Events)] /\ rpos \in [Readers -> Nat]
    BY DEF IInv, TypeOK
  <1>10. got' \in [Readers -> Seq(Events)] /\ rpos' \in [Readers -> Nat]
    BY <1>1, <1>4, <1>8, <1>9
  <1>11. TypeOK'
    BY <1>1, <1>10 DEF IInv, TypeOK
  <1>12. /\ rpos'[r] = n + 1 /\ got'[r] = IF e.id <= rafter[r] THEN g ELSE Append(g, e)
         /\ \A x \in Readers \ {r} : rpos'[x] = rpos[x] /\ got'[x] = got[x]
    BY <1>1, <1>9 DEF g
  <1>13. \A j \in 1..(n + 1) : j \in 1..n \/ j = n + 1
    BY <1>4
  <1>14. \A j \in 1..n : j \in 1..(n + 1)
    BY <1>4
  <1>15. n + 1 \in 1..(n + 1)
    BY <1>4
  <1> DEFINE Sent(h) ==
               /\ Increasing(h) /\ \A i \in 1..Len(h) : h[i].id > rafter[r]
               /\ \A j \in 1..(n + 1) :
                    q[j] # Orphan /\ (q[j].id > rafter[r] => \E i \in 1..Len(h) : h[i] = q[j])
               /\ \A i \in 1..Len(h) : \E j \in 1..(n + 1) : h[i] = q[j]
  <1>16. q[n + 1] = e
    BY DEF e, q, n
  <1>17. ASSUME e.id <= rafter[r] PROVE Sent(g)
    <2>1. ~(e.id > rafter[r])
      BY <1>4, <1>6, <1>17
    <2>2. QED BY <1>1, <1>2, <1>13, <1>14, <1>16, <2>1
  <1>18. ASSUME ~(e.id <= rafter[r]) PROVE Sent(Append(g, e))
    <2> DEFINE h == Append(g, e)
    <2>1. e.id > rafter[r]
      BY <1>4, <1>6, <1>18
    <2>2. \A i \in 1..Len(h) : i \in 1..Len(g) \/ i = Len(g) + 1
      <3>1. Len(g) \in Nat
        BY <1>4
      <3>2. QED BY <1>8, <3>1
    <2>3. Len(g) + 1 \in 1..Len(h) /\ \A i \in 1..Len(g) : i \in 1..Len(h)
      <3>1. Len(g) \in Nat
        BY <1>4
      <3>2. QED BY <1>8, <3>1
    <2>4. Increasing(h) /\ h[Len(g) + 1] = e /\ \A i \in 1..Len(g) : h[i] = g[i]
      BY <1>8
    <2> HIDE DEF h
    <2>5. \A i \in 1..Len(h) : h[i].id > rafter[r]
      BY <1>2, <2>1, <2>2, <2>4
    <2>6. \A j \in 1..(n + 1) :
            q[j] # Orphan /\ (q[j].id > rafter[r] => \E i \in 1..Len(h) : h[i] = q[j])
      BY <1>1, <1>2, <1>13, <1>16, <2>3, <2>4
    <2>7. \A i \in 1..Len(h) : \E j \in 1..(n + 1) : h[i] = q[j]
      <3>1. \A i \in 1..Len(g) : \E j \in 1..(n + 1) : g[i] = q[j]
        BY <1>2, <1>14
      <3>2. SUFFICES ASSUME NEW i \in 1..Len(h) PROVE \E j \in 1..(n + 1) : h[i] = q[j]
        OBVIOUS
      <3>3. CASE i \in 1..Len(g)
        BY <2>4, <3>1, <3>3
      <3>4. CASE i = Len(g) + 1
        BY <1>15, <1>16, <2>4, <3>4
      <3>5. QED BY <2>2, <3>3, <3>4
    <2>8. QED BY <2>4, <2>5, <2>6, <2>7 DEF h
  <1> HIDE DEF Sent
  <1>19. Sent(got'[r])
    BY <1>12, <1>17, <1>18
  <1>20. ReadingOf(r)'
    <2>1. /\ rpc'[r] = "read" /\ file'[rsess'[r]] = q /\ rsess'[r] = rsess[r] /\ rpos'[r] = n + 1
          /\ n + 1 <= Len(q) /\ rafter'[r] = rafter[r] /\ seen0'[r] = seen0[r]
          /\ meta' = meta /\ acked' = acked
      BY <1>1, <1>5, <1>12 DEF q
    <2> DEFINE h == got'[r]
    <2> HIDE DEF h
    <2>2. Sent(h)
      BY <1>19 DEF h
    <2>3. QED BY <1>2, <2>1, <2>2 DEF ReadingOf, Sent, h
  <1>21. Reading'
    BY <1>1, <1>12, <1>20, OthersRead
  <1>22. QED BY <1>1, <1>11, <1>21, OnlyReads

\* Where reading ends without an error no event follows: an orphan is the last record.
LEMMA ReplayEndInv == ASSUME IInv, NEW r \in Readers, ReplayEnd(r) PROVE IInv'
  <1> DEFINE s == rsess[r]
             q == file[s]
             g == got[r]
             n == rpos[r]
  <1>1. /\ UNCHANGED <<meta, file, torn, durable, loaded, nextID, buf, wedged, holder, stage>>
        /\ UNCHANGED <<crashes, rsess, rafter, rpos, got, seen0, acked>>
        /\ rpc[r] = "read" /\ (n < Len(q) => q[n + 1] = Orphan)
        /\ rpc' = [rpc EXCEPT ![r] = IF ReadsToEnd(s) THEN "done" ELSE "failed"]
    BY DEF ReplayEnd, logVars
  <1>2. /\ s \in Sessions /\ seen0[r] \subseteq acked[s] /\ meta[s] # "none"
        /\ n <= Len(q) /\ Increasing(g) /\ \A i \in 1..Len(g) : g[i].id > rafter[r]
        /\ \A j \in 1..n : q[j].id > rafter[r] => \E i \in 1..Len(g) : g[i] = q[j]
    BY <1>1 DEF IInv, Reading, ReadingOf
  <1>3. TypeOK'
    BY <1>1 DEF IInv, TypeOK
  <1>4. n \in Nat /\ Len(q) \in Nat
    BY <1>2 DEF IInv, TypeOK
  <1>5. ASSUME ReadsToEnd(s), NEW e \in seen0[r], e.id > rafter[r]
        PROVE  \E i \in 1..Len(g) : g[i] = e
    <2>1. e \in acked[s] /\ e # Orphan
      <3>1. e \in acked[s] /\ acked[s] \subseteq Events
        BY <1>2 DEF IInv, TypeOK
      <3>2. QED BY <3>1, RecordIds
    <2>2. PICK i \in 1..durable[s] : q[i] = e
      BY <1>2, <2>1 DEF IInv, AckedIsDurable
    <2>3. i \in 1..Len(q)
      BY <1>2, <1>4, <2>2 DEF IInv, TypeOK, AckedIsDurable
    <2>4. i \in 1..n
      <3>1. CASE n < Len(q)
        <4>1. n + 1 \in 1..Len(q) /\ q[n + 1] = Orphan
          BY <1>1, <1>4, <3>1
        <4>2. n + 1 = Len(q)
          BY <1>5, <4>1 DEF ReadsToEnd
        <4>3. i # n + 1
          BY <2>1, <2>2, <4>1
        <4>4. QED BY <1>4, <2>3, <4>2, <4>3
      <3>2. CASE ~(n < Len(q))
        BY <1>4, <2>3, <3>2
      <3>3. QED BY <3>1, <3>2
    <2>5. QED BY <1>2, <1>5, <2>2, <2>4
  <1>6. ReadingOf(r)'
    <2>1. \/ rpc'[r] = "done" /\ ReadsToEnd(s)
          \/ rpc'[r] = "failed"
      BY <1>1 DEF IInv, TypeOK
    <2>2. /\ rsess'[r] = s /\ got'[r] = g /\ rafter'[r] = rafter[r] /\ seen0'[r] = seen0[r]
          /\ meta' = meta /\ acked' = acked
      BY <1>1
    <2> HIDE DEF s, g, n, q
    <2>3. QED BY <1>2, <1>5, <2>1, <2>2 DEF ReadingOf
  <1>7. \A x \in Readers \ {r} : rpc'[x] = rpc[x]
    BY <1>1 DEF IInv, TypeOK
  <1>8. Reading'
    BY <1>1, <1>6, <1>7, OthersRead
  <1>9. QED BY <1>1, <1>3, <1>8, OnlyReads

\* A call that fails promises nothing.
LEMMA ReplaySendFailsInv == ASSUME IInv, NEW r \in Readers, ReplaySendFails(r) PROVE IInv'
  <1>1. /\ UNCHANGED <<meta, file, torn, durable, loaded, nextID, buf, wedged, holder, stage>>
        /\ UNCHANGED <<crashes, rsess, rafter, rpos, got, seen0, acked>>
        /\ rpc' = [rpc EXCEPT ![r] = "failed"]
    BY DEF ReplaySendFails, logVars
  <1>2. TypeOK'
    BY <1>1 DEF IInv, TypeOK
  <1>3. rpc'[r] = "failed" /\ \A x \in Readers \ {r} : rpc'[x] = rpc[x]
    BY <1>1 DEF IInv, TypeOK
  <1>4. ReadingOf(r)'
    BY <1>1, <1>3 DEF IInv, Reading, ReadingOf
  <1>5. Reading'
    BY <1>1, <1>3, <1>4, OthersRead
  <1>6. QED BY <1>1, <1>2, <1>5, OnlyReads

-----------------------------------------------------------------------------
(* The theorems.                                                           *)

\* Nothing changes.
LEMMA StutterInv == ASSUME IInv, UNCHANGED vars PROVE IInv'
  <1>1. /\ UNCHANGED <<meta, file, torn, durable, loaded, nextID, buf, wedged, holder, stage>>
        /\ UNCHANGED <<crashes, rpc, rsess, rafter, rpos, got, seen0, acked>>
    BY DEF vars, logVars, readVars
  <1>2. TypeOK'
    BY <1>1 DEF IInv, TypeOK
  <1>3. Reading'
    BY <1>1 DEF IInv, Reading, ReadingOf
  <1>4. QED BY <1>1, <1>2, <1>3, OnlyReads

\* Every step keeps the invariant.
LEMMA NextInv ==
    ASSUME NoSession \notin Sessions, Afters \subseteq Nat, IInv, [Next]_vars
    PROVE  IInv'
  <1>1. ASSUME NEW s \in Sessions, Create(s) \/ AppendStep(s) \/ Delete(s) PROVE IInv'
    <2>1. CASE Create(s)
      BY <2>1, CreateInv
    <2>2. CASE AppendStep(s)
      BY <2>2, AppendWriteInv, AppendWriteFailsInv, AppendRefusedInv, AppendFlushInv, AppendSyncInv,
         AppendFlushFailsInv, AppendSyncFailsInv DEF AppendStep
    <2>3. CASE Delete(s)
      BY <2>3, DeleteInv
    <2>4. QED BY <1>1, <2>1, <2>2, <2>3
  <1>2. ASSUME NEW r \in Readers, ReplayStep(r) PROVE IInv'
    BY <1>2, ReplayStartInv, ReplayOpenInv, ReplayRecordInv, ReplayEndInv, ReplaySendFailsInv
    DEF ReplayStep
  <1>3. QED BY <1>1, <1>2, ProcessCrashInv, PowerLossInv, StutterInv DEF Next

\* TypeOK is an invariant: every variable keeps its type.
THEOREM TypeCorrect ==
    ASSUME NoSession \notin Sessions, Afters \subseteq Nat
    PROVE  Spec => []TypeOK
  <1>1. Init => IInv
    BY InitInv
  <1>2. IInv /\ [Next]_vars => IInv'
    BY NextInv
  <1>3. IInv => TypeOK
    BY DEF IInv
  <1>4. QED BY <1>1, <1>2, <1>3, PTL DEF Spec

\* The records that can be read are numbered without a gap, whatever crashes, failed writes
\* and restarts that count again from the file (Append, scanNextID).
THEOREM IdsStayDense ==
    ASSUME NoSession \notin Sessions, Afters \subseteq Nat
    PROVE  Spec => []IdsAreDense
  <1>1. Init => IInv
    BY InitInv
  <1>2. IInv /\ [Next]_vars => IInv'
    BY NextInv
  <1>3. IInv => IdsAreDense
    BY DEF IInv, Numbered, NumberedOf, Dense, Rising, Below, Q, IdsAreDense
  <1>4. QED BY <1>1, <1>2, <1>3, PTL DEF Spec

\* An event whose Append synced and returned is never lost (Append, ProcessCrash, PowerLoss).
THEOREM AckedStaysDurable ==
    ASSUME NoSession \notin Sessions, Afters \subseteq Nat
    PROVE  Spec => []AckedIsDurable
  <1>1. Init => IInv
    BY InitInv
  <1>2. IInv /\ [Next]_vars => IInv'
    BY NextInv
  <1>3. IInv => AckedIsDurable
    BY DEF IInv
  <1>4. QED BY <1>1, <1>2, <1>3, PTL DEF Spec

\* A replay that ended normally sent all that was acknowledged when it began, in order
\* (Replay, which reads without the mutex).
THEOREM ReplaysAreComplete ==
    ASSUME NoSession \notin Sessions, Afters \subseteq Nat
    PROVE  Spec => []ReplayIsComplete
  <1>1. Init => IInv
    BY InitInv
  <1>2. IInv /\ [Next]_vars => IInv'
    BY NextInv
  <1>3. IInv => ReplayIsComplete
    BY DEF IInv, Reading, ReadingOf, ReplayIsComplete
  <1>4. QED BY <1>1, <1>2, <1>3, PTL DEF Spec
=============================================================================
