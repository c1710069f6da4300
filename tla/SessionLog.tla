----------------------------- MODULE SessionLog -----------------------------
(***************************************************************************)
(* The event log of the remote sessions                                    *)
(* (internal/remote/sessionstore/store.go): per session a file of          *)
(* length-delimited records, written through a buffered writer.  Events of *)
(* the LOW lane may stay in the buffer; any other event, and a LOW event   *)
(* more than 200 ms after the last sync, is flushed and fsynced before     *)
(* Append returns.  One mutex guards all sessions; Replay takes it only to *)
(* look the session up and reads the file without it.  A process crash     *)
(* loses the buffers, a power loss also what was not fsynced.              *)
(*                                                                         *)
(* events.bin is modelled by its complete records (file) and by what there *)
(* is of one more record behind them (torn): the buffer is written out     *)
(* when it is full, in the middle of a record as a rule.  While the writer *)
(* lives, the rest of that record is the first thing in its buffer.  A     *)
(* crash can leave a length prefix behind without its record: readers take *)
(* it for the end of the file, and whatever is appended behind it is out   *)
(* of step with the framing and taken not to decode.                       *)
(***************************************************************************)
EXTENDS Integers, Sequences, FiniteSets

CONSTANTS
    Sessions,   \* session ids (a fresh UUID per Create)
    Readers,    \* Replay calls, each used once
    Afters,     \* values of after_event_id
    MaxEvents,  \* bound: events appended to a session
    MaxCrashes, \* bound: process crashes and power losses
    NoSession

VARIABLES
    meta,     \* meta[s]: session.pb does not exist yet, exists, is gone
    file,     \* file[s]: complete records of events.bin, and orphans
    torn,     \* torn[s]: what of one more record follows
    durable,  \* durable[s]: number of records known to be on stable storage
    loaded,   \* loaded[s]: s is in the sessions map, its writer is open
    nextID,   \* nextID[s]: id of the next event, if loaded
    buf,      \* buf[s]: records (partly) in the writer's buffer
    wedged,   \* wedged[s]: a write failed and bufio refuses all further ones
    holder,   \* the session whose Append holds the mutex, or NoSession
    stage,    \* what that Append does next: flush or sync
    crashes,
    \* a Replay call r
    rpc,      \* lookup, open, read, done or failed
    rsess,    \* its session
    rafter,   \* after_event_id
    rpos,     \* records read
    got,      \* events sent
    \* history
    acked,    \* acked[s]: events whose Append returned after a sync
    seen0     \* seen0[r]: acked[s] when r began

logVars == <<meta, file, torn, durable, loaded, nextID, buf, wedged, holder, stage>>
readVars == <<rpc, rsess, rafter, rpos, got, seen0>>
vars == <<logVars, crashes, readVars, acked>>

\* Persisted events have ids from 1 (0 marks an ephemeral event); epoch tells
\* apart the events of different incarnations of the process.
Events == [id : Nat \ {0}, epoch : Nat]
\* A length prefix whose record was never written.
Orphan == [id |-> 0, epoch |-> 0]
Records == Events \cup {Orphan}
\* Nothing; part of the prefix or of the record; the prefix and no more.
Parts == {"no", "part", "header"}

TypeOK ==
    /\ meta \in [Sessions -> {"none", "present", "gone"}]
    /\ file \in [Sessions -> Seq(Records)]
    /\ torn \in [Sessions -> Parts]
    /\ durable \in [Sessions -> Nat]
    /\ loaded \in [Sessions -> BOOLEAN]
    /\ nextID \in [Sessions -> Nat]
    /\ buf \in [Sessions -> Seq(Events)]
    /\ wedged \in [Sessions -> BOOLEAN]
    /\ holder \in Sessions \cup {NoSession}
    /\ stage \in {"none", "flush", "sync"}
    /\ crashes \in Nat
    /\ rpc \in [Readers -> {"idle", "open", "read", "done", "failed"}]
    /\ rsess \in [Readers -> Sessions \cup {NoSession}]
    /\ rafter \in [Readers -> Nat]
    /\ rpos \in [Readers -> Nat]
    /\ got \in [Readers -> Seq(Events)]
    /\ acked \in [Sessions -> SUBSET Events]
    /\ seen0 \in [Readers -> SUBSET Events]

Init ==
    /\ meta = [s \in Sessions |-> "none"]
    /\ file = [s \in Sessions |-> <<>>]
    /\ torn = [s \in Sessions |-> "no"]
    /\ durable = [s \in Sessions |-> 0]
    /\ loaded = [s \in Sessions |-> FALSE]
    /\ nextID = [s \in Sessions |-> 0]
    /\ buf = [s \in Sessions |-> <<>>]
    /\ wedged = [s \in Sessions |-> FALSE]
    /\ holder = NoSession /\ stage = "none"
    /\ crashes = 0
    /\ rpc = [r \in Readers |-> "idle"]
    /\ rsess = [r \in Readers |-> NoSession]
    /\ rafter = [r \in Readers |-> 0]
    /\ rpos = [r \in Readers |-> 0]
    /\ got = [r \in Readers |-> <<>>]
    /\ acked = [s \in Sessions |-> {}]
    /\ seen0 = [r \in Readers |-> {}]

Unlocked == holder = NoSession

Ids(q) == {q[i].id : i \in 1..Len(q)}

\* scanNextID: one more than the largest id in the file.
scanNextID(q) == 1 + CHOOSE m \in Ids(q) \cup {0} : \A k \in Ids(q) : k <= m

\* Reading records up to the end of the file meets no error: neither a partial
\* record nor anything behind an orphan.
ReadsToEnd(s) ==
    /\ torn[s] # "part"
    /\ \A i \in 1..Len(file[s]) : file[s][i] = Orphan => i = Len(file[s]) /\ torn[s] = "no"

\* loadLocked succeeds: the session is in the map, or session.pb exists and
\* scanNextID gets to the end of events.bin.
Loadable(s) == meta[s] = "present" /\ (loaded[s] \/ ReadsToEnd(s))

\* The id loadLocked's session gives out next.
NextId(s) == IF loaded[s] THEN nextID[s] ELSE scanNextID(file[s])

-----------------------------------------------------------------------------
(* Create, Append, Delete.                                                 *)

Create(s) ==
    /\ Unlocked
    /\ meta[s] = "none"
    /\ meta' = [meta EXCEPT ![s] = "present"]
    /\ loaded' = [loaded EXCEPT ![s] = TRUE]
    /\ nextID' = [nextID EXCEPT ![s] = scanNextID(file[s])]
    /\ UNCHANGED <<file, torn, durable, buf, wedged, holder, stage, crashes, readVars, acked>>

\* The first n records of q, and `part' of the next, are written to the file.
WriteOut(s, q, n, part) ==
    /\ part = "no" \/ n < Len(q)
    /\ n = 0 /\ torn[s] # "no" => part # "no"
    /\ file' = [file EXCEPT ![s] = @ \o SubSeq(q, 1, n)]
    /\ torn' = [torn EXCEPT ![s] = part]

\* The event Append stamps, and the buffer with it.
Stamped(s) == [id |-> NextId(s), epoch |-> crashes]
Buffered(s) == Append(buf[s], Stamped(s))

\* Append, up to the write into the buffer.  A buffer that overflows is
\* written out with part of the new record, or (a record larger than the
\* buffer) with all of it.  `syncNow': a flush and a sync follow.
AppendWrite(s, syncNow) ==
    /\ Unlocked /\ Loadable(s) /\ ~wedged[s]
    /\ NextId(s) <= MaxEvents
    /\ loaded' = [loaded EXCEPT ![s] = TRUE]
    /\ nextID' = [nextID EXCEPT ![s] = NextId(s) + 1]
    /\ \/ buf' = [buf EXCEPT ![s] = Buffered(s)] /\ UNCHANGED <<file, torn>>
       \/ \E n \in {Len(buf[s]), Len(buf[s]) + 1}, part \in Parts :
            /\ WriteOut(s, Buffered(s), n, part)
            /\ buf' = [buf EXCEPT ![s] = SubSeq(Buffered(s), n + 1, Len(Buffered(s)))]
    /\ IF syncNow
         THEN holder' = s /\ stage' = "flush"
         ELSE UNCHANGED <<holder, stage>>
    /\ UNCHANGED <<meta, durable, wedged, crashes, readVars, acked>>

\* Writing the buffer out fails part way (a full disk): bufio keeps the error
\* and never writes again.  Append returns it; the id is used up.
AppendWriteFails(s) ==
    /\ Unlocked /\ Loadable(s) /\ ~wedged[s]
    /\ NextId(s) <= MaxEvents
    /\ loaded' = [loaded EXCEPT ![s] = TRUE]
    /\ nextID' = [nextID EXCEPT ![s] = NextId(s) + 1]
    /\ \E n \in 0..Len(buf[s]), part \in Parts : WriteOut(s, Buffered(s), n, part)
    /\ buf' = [buf EXCEPT ![s] = <<>>]
    /\ wedged' = [wedged EXCEPT ![s] = TRUE]
    /\ UNCHANGED <<meta, durable, holder, stage, crashes, readVars, acked>>

\* Append on a wedged writer: the id is used up, bufio returns its old error.
AppendRefused(s) ==
    /\ Unlocked /\ Loadable(s) /\ wedged[s]
    /\ nextID[s] <= MaxEvents
    /\ nextID' = [nextID EXCEPT ![s] = @ + 1]
    /\ UNCHANGED <<meta, file, torn, durable, loaded, buf, wedged, holder, stage>>
    /\ UNCHANGED <<crashes, readVars, acked>>

\* Append: bw.Flush.
AppendFlush(s) ==
    /\ holder = s /\ stage = "flush"
    /\ WriteOut(s, buf[s], Len(buf[s]), "no")
    /\ buf' = [buf EXCEPT ![s] = <<>>]
    /\ stage' = "sync"
    /\ UNCHANGED <<meta, durable, loaded, nextID, wedged, holder, crashes, readVars, acked>>

\* Mutant: the file is not fsynced.
AppendSync_Skipped(s) ==
    /\ holder = s /\ stage = "sync"
    /\ acked' = [acked EXCEPT ![s] = @ \cup {file[s][Len(file[s])]}]
    /\ holder' = NoSession /\ stage' = "none"
    /\ UNCHANGED <<meta, file, torn, durable, loaded, nextID, buf, wedged, crashes, readVars>>

\* Append: file.Sync, and Append returns the event.
AppendSync(s) ==
    /\ holder = s /\ stage = "sync"
    /\ durable' = [durable EXCEPT ![s] = Len(file[s])]
    /\ acked' = [acked EXCEPT ![s] = @ \cup {file[s][Len(file[s])]}]
    /\ holder' = NoSession /\ stage' = "none"
    /\ UNCHANGED <<meta, file, torn, loaded, nextID, buf, wedged, crashes, readVars>>

\* Append: bw.Flush fails part way.
AppendFlushFails(s) ==
    /\ holder = s /\ stage = "flush"
    /\ \E n \in 0..(Len(buf[s]) - 1), part \in Parts : WriteOut(s, buf[s], n, part)
    /\ buf' = [buf EXCEPT ![s] = <<>>]
    /\ wedged' = [wedged EXCEPT ![s] = TRUE]
    /\ holder' = NoSession /\ stage' = "none"
    /\ UNCHANGED <<meta, durable, loaded, nextID, crashes, readVars, acked>>

\* Sync fails: Append returns the error, the record stays in the file.
AppendSyncFails(s) ==
    /\ holder = s /\ stage = "sync"
    /\ holder' = NoSession /\ stage' = "none"
    /\ UNCHANGED <<meta, file, torn, durable, loaded, nextID, buf, wedged, crashes, readVars, acked>>

\* Delete: flush and close the writer, ignoring errors, and remove the
\* directory.  A reader that has the file open goes on reading it, so `file' is
\* kept.
Delete(s) ==
    /\ Unlocked
    /\ meta[s] = "present"
    /\ meta' = [meta EXCEPT ![s] = "gone"]
    /\ loaded' = [loaded EXCEPT ![s] = FALSE]
    /\ IF loaded[s] /\ ~wedged[s]
         THEN \E n \in 0..Len(buf[s]), part \in Parts : WriteOut(s, buf[s], n, part)
         ELSE UNCHANGED <<file, torn>>
    /\ buf' = [buf EXCEPT ![s] = <<>>]
    /\ wedged' = [wedged EXCEPT ![s] = FALSE]
    /\ UNCHANGED <<durable, nextID, holder, stage, crashes, readVars, acked>>

-----------------------------------------------------------------------------
(* Crashes.                                                                *)

\* Every goroutine, buffer and cached session is gone.
Stop ==
    /\ crashes < MaxCrashes
    /\ crashes' = crashes + 1
    /\ loaded' = [s \in Sessions |-> FALSE]
    /\ nextID' = [s \in Sessions |-> 0]
    /\ buf' = [s \in Sessions |-> <<>>]
    /\ wedged' = [s \in Sessions |-> FALSE]
    /\ holder' = NoSession /\ stage' = "none"
    /\ rpc' = [r \in Readers |-> IF rpc[r] \in {"open", "read"} THEN "failed" ELSE rpc[r]]
    /\ UNCHANGED <<rsess, rafter, rpos, got, seen0, acked>>

\* What a crash leaves of the files: kept[s] records and `part[s]' of the next.
Leave(kept, part) ==
    /\ file' = [s \in Sessions |->
                  SubSeq(file[s], 1, kept[s]) \o (IF part[s] = "header" THEN <<Orphan>> ELSE <<>>)]
    /\ torn' = [s \in Sessions |-> IF part[s] = "part" THEN "part" ELSE "no"]

\* What was written stays.
ProcessCrash ==
    /\ Stop
    /\ Leave([s \in Sessions |-> Len(file[s])], torn)
    /\ UNCHANGED <<meta, durable>>

\* What was not fsynced survives up to some byte; session.pb never is.
PowerLoss ==
    /\ Stop
    /\ \E kept \in [Sessions -> 0..(MaxEvents + MaxCrashes)], part \in [Sessions -> Parts] :
         /\ \A s \in Sessions :
              /\ kept[s] \in durable[s]..Len(file[s])
              /\ part[s] # "no" => torn[s] # "no" \/ kept[s] < Len(file[s])
         /\ Leave(kept, part)
         /\ durable' = [s \in Sessions |-> Len(file'[s])]
    /\ \E lost \in SUBSET Sessions :
         meta' = [s \in Sessions |-> IF s \in lost /\ meta[s] = "present" THEN "gone" ELSE meta[s]]

-----------------------------------------------------------------------------
(* Replay.                                                                 *)

\* Look the session up (loading it if need be); the mutex is released.
ReplayStart(r, s, after) ==
    /\ Unlocked
    /\ rpc[r] = "idle"
    /\ rsess' = [rsess EXCEPT ![r] = s]
    /\ rafter' = [rafter EXCEPT ![r] = after]
    /\ seen0' = [seen0 EXCEPT ![r] = acked[s]]
    /\ IF Loadable(s)
         THEN /\ rpc' = [rpc EXCEPT ![r] = "open"]
              /\ loaded' = [loaded EXCEPT ![s] = TRUE]
              /\ nextID' = [nextID EXCEPT ![s] = NextId(s)]
         ELSE /\ rpc' = [rpc EXCEPT ![r] = "failed"]
              /\ UNCHANGED <<loaded, nextID>>
    /\ UNCHANGED <<meta, file, torn, durable, buf, wedged, holder, stage, crashes, rpos, got, acked>>

\* os.Open; a file removed in the meantime is an empty replay.
ReplayOpen(r) ==
    /\ rpc[r] = "open"
    /\ rpc' = [rpc EXCEPT ![r] = IF meta[rsess[r]] = "gone" THEN "done" ELSE "read"]
    /\ UNCHANGED <<logVars, crashes, rsess, rafter, rpos, got, seen0, acked>>

\* Mutant: the event at after_event_id is sent again.
ReplayRecord_Inclusive(r) ==
    LET q == file[rsess[r]] IN
    /\ rpc[r] = "read" /\ rpos[r] < Len(q) /\ q[rpos[r] + 1] # Orphan
    /\ rpos' = [rpos EXCEPT ![r] = @ + 1]
    /\ got' = IF q[rpos[r] + 1].id < rafter[r] THEN got
              ELSE [got EXCEPT ![r] = Append(@, q[rpos[r] + 1])]
    /\ UNCHANGED <<logVars, crashes, rpc, rsess, rafter, seen0, acked>>

\* Read a record; send it if it is past after_event_id.
ReplayRecord(r) ==
    LET q == file[rsess[r]] IN
    /\ rpc[r] = "read" /\ rpos[r] < Len(q) /\ q[rpos[r] + 1] # Orphan
    /\ rpos' = [rpos EXCEPT ![r] = @ + 1]
    /\ got' = IF q[rpos[r] + 1].id <= rafter[r] THEN got
              ELSE [got EXCEPT ![r] = Append(@, q[rpos[r] + 1])]
    /\ UNCHANGED <<logVars, crashes, rpc, rsess, rafter, seen0, acked>>

\* The end of what can be read: of the file, or a partial record.
ReplayEnd(r) ==
    LET q == file[rsess[r]] IN
    /\ rpc[r] = "read"
    /\ rpos[r] < Len(q) => q[rpos[r] + 1] = Orphan
    /\ rpc' = [rpc EXCEPT ![r] = IF ReadsToEnd(rsess[r]) THEN "done" ELSE "failed"]
    /\ UNCHANGED <<logVars, crashes, rsess, rafter, rpos, got, seen0, acked>>

\* send fails.
ReplaySendFails(r) ==
    /\ rpc[r] = "read" /\ rpos[r] < Len(file[rsess[r]])
    /\ rpc' = [rpc EXCEPT ![r] = "failed"]
    /\ UNCHANGED <<logVars, crashes, rsess, rafter, rpos, got, seen0, acked>>

-----------------------------------------------------------------------------
AppendStep(s) ==
    \/ \E syncNow \in BOOLEAN : AppendWrite(s, syncNow)
    \/ AppendWriteFails(s)
    \/ AppendRefused(s)
    \/ AppendFlush(s)
    \/ AppendSync(s)
    \/ AppendFlushFails(s)
    \/ AppendSyncFails(s)

ReplayStep(r) ==
    \/ \E s \in Sessions, after \in Afters : ReplayStart(r, s, after)
    \/ ReplayOpen(r)
    \/ ReplayRecord(r)
    \/ ReplayEnd(r)
    \/ ReplaySendFails(r)

Next ==
    \/ \E s \in Sessions : Create(s) \/ AppendStep(s) \/ Delete(s)
    \/ ProcessCrash
    \/ PowerLoss
    \/ \E r \in Readers : ReplayStep(r)

Spec == Init /\ [][Next]_vars

-----------------------------------------------------------------------------
(* Properties.                                                             *)

Increasing(q) == \A a, b \in 1..Len(q) : a < b => q[a].id < q[b].id

(***************************************************************************)
(* The records of a session that can be read, in the file and behind it in *)
(* the buffer, are numbered 1, 2, 3, ...; behind an orphan ids may skip    *)
(* but go on increasing; and the next id is past them all - through        *)
(* crashes that lose the buffer, restarts that count from the file and     *)
(* failed writes that use up an id.                                        *)
(***************************************************************************)
IdsAreDense ==
    \A s \in Sessions : LET q == file[s] \o buf[s] IN
        /\ \A i \in 1..Len(q) : (\A k \in 1..i : q[k] # Orphan) => q[i].id = i
        /\ \A i, k \in 1..Len(q) : i < k /\ q[k] # Orphan => q[i].id < q[k].id
        /\ loaded[s] => \A i \in 1..Len(q) : q[i].id < nextID[s]

(***************************************************************************)
(* An event whose Append returned after a sync is in the file for good,    *)
(* whatever crashes and whatever part of the buffer is lost.               *)
(***************************************************************************)
AckedIsDurable ==
    \A s \in Sessions :
        /\ durable[s] <= Len(file[s])
        /\ \A e \in acked[s] : \E i \in 1..durable[s] : file[s][i] = e

(***************************************************************************)
(* A replay that ended normally sent, in id order, every event past        *)
(* after_event_id that was acknowledged when it began, although it reads a *)
(* growing file without the mutex.  The one exception is a session removed *)
(* before the file was opened.                                             *)
(***************************************************************************)
ReplayIsComplete ==
    \A r \in Readers :
        /\ Increasing(got[r])
        /\ \A i \in 1..Len(got[r]) : got[r][i].id > rafter[r]
        /\ rpc[r] = "done" /\ meta[rsess[r]] = "present" =>
             \A e \in seen0[r] :
                 e.id > rafter[r] => \E i \in 1..Len(got[r]) : got[r][i] = e
=============================================================================
