--------------------------- MODULE SessionEvents ---------------------------
(***************************************************************************)
(* How the events of one session reach its clients                         *)
(* (internal/remote/session_service.go).  A producer - the Interact        *)
(* handler of some client, or the goroutine of a tool - appends an event   *)
(* to the session log and then offers it to the channel of every           *)
(* subscriber, outside both mutexes.  A stream - StreamEvents, or the      *)
(* sending half of Interact - replays the log, subscribes, and forwards    *)
(* what arrives in its channel until its client goes.                      *)
(*                                                                         *)
(* The log is what SessionLog describes in detail; here it is a sequence   *)
(* of which a prefix is in the file, where a replay can read it.           *)
(***************************************************************************)
EXTENDS Integers, Sequences, FiniteSets

CONSTANTS
    Producers,  \* goroutines that call appendAndBroadcast
    Streams,    \* StreamEvents calls, each used once
    Afters,     \* values of after_event_id
    Cap,        \* capacity of a subscriber's channel (8192)
    MaxEvents,  \* bound: events of one producer
    NoStream

VARIABLES
    exists,   \* the session has not been deleted
    log,      \* the records of the session
    flushed,  \* how many of them are in the file
    nextID,   \* the store's next event id
    said,     \* said[p]: number of events p has produced
    \* appendAndBroadcast of producer p
    ppc,      \* idle; copy the targets; send; full (pop the oldest); retry
    cur,      \* the event it broadcasts
    todo,     \* the targets it has still to serve
    at,       \* the target whose channel was full
    \* stream h
    spc,      \* idle, replay, subscribe, loop, gone
    after,    \* its after_event_id
    rpos,     \* records replayed
    ch,       \* its channel
    subs,     \* the streams in the subscribers map
    sent,     \* events sent to the client
    panicked, \* a send on a closed channel has killed the daemon
    \* history
    copied,   \* copied[h]: events one of whose targets was h
    spilled   \* spilled[h]: an event was dropped at h's channel

store == <<exists, log, flushed, nextID>>
producer == <<said, ppc, cur, todo, at>>
stream == <<spc, after, rpos, subs, sent>>
history == <<copied, spilled>>
vars == <<store, producer, stream, ch, panicked, history>>

\* The n-th event of a producer; an ephemeral event has id 0 and no record.
Events == [by : Producers, n : Nat \ {0}, id : Nat]

TypeOK ==
    /\ exists \in BOOLEAN
    /\ log \in Seq(Events)
    /\ flushed \in 0..Len(log)
    /\ nextID \in Nat \ {0}
    /\ said \in [Producers -> 0..MaxEvents]
    /\ ppc \in [Producers -> {"idle", "copy", "send", "full", "retry"}]
    /\ cur \in [Producers -> [by : Producers, n : Nat, id : Nat]]
    /\ todo \in [Producers -> SUBSET Streams]
    /\ at \in [Producers -> Streams \cup {NoStream}]
    /\ spc \in [Streams -> {"idle", "replay", "subscribe", "loop", "gone"}]
    /\ after \in [Streams -> Nat]
    /\ rpos \in [Streams -> Nat]
    /\ ch \in [Streams -> Seq(Events)]
    /\ \A h \in Streams : Len(ch[h]) <= Cap
    /\ subs \in SUBSET Streams
    /\ sent \in [Streams -> Seq(Events)]
    /\ panicked \in BOOLEAN
    /\ copied \in [Streams -> SUBSET Events]
    /\ spilled \in [Streams -> BOOLEAN]

Init ==
    /\ exists = TRUE /\ log = <<>> /\ flushed = 0 /\ nextID = 1
    /\ said = [p \in Producers |-> 0]
    /\ ppc = [p \in Producers |-> "idle"]
    /\ cur = [p \in Producers |-> [by |-> p, n |-> 0, id |-> 0]]
    /\ todo = [p \in Producers |-> {}]
    /\ at = [p \in Producers |-> NoStream]
    /\ spc = [h \in Streams |-> "idle"]
    /\ after = [h \in Streams |-> 0]
    /\ rpos = [h \in Streams |-> 0]
    /\ ch = [h \in Streams |-> <<>>]
    /\ subs = {} /\ panicked = FALSE
    /\ sent = [h \in Streams |-> <<>>]
    /\ copied = [h \in Streams |-> {}]
    /\ spilled = [h \in Streams |-> FALSE]

-----------------------------------------------------------------------------
(* Producers.                                                              *)

Says(p, id) == [by |-> p, n |-> said[p] + 1, id |-> id]

\* p has produced e, which `broadcast' will offer next.
Produce(p, e) ==
    /\ said' = [said EXCEPT ![p] = @ + 1]
    /\ ppc' = [ppc EXCEPT ![p] = "copy"]
    /\ cur' = [cur EXCEPT ![p] = e]
    /\ UNCHANGED <<todo, at>>

Idle(p) == ppc[p] = "idle" /\ said[p] < MaxEvents

\* appendAndBroadcast: the store stamps and stores the event.  Append flushes
\* a HIGH or MEDIUM event; a LOW one may stay in the buffer behind earlier ones.
AppendEvent(p) ==
    /\ Idle(p) /\ exists
    /\ log' = Append(log, Says(p, nextID))
    /\ flushed' \in {flushed, Len(log')}
    /\ nextID' = nextID + 1
    /\ Produce(p, Says(p, nextID))
    /\ UNCHANGED <<exists, stream, ch, panicked, history>>

\* Append returns an error, and the record may be in the file all the same; or
\* the session is gone.  There is no broadcast and the caller does not notice.
AppendFails(p) ==
    /\ Idle(p)
    /\ said' = [said EXCEPT ![p] = @ + 1]
    /\ \/ UNCHANGED <<log, flushed>> /\ nextID' = IF exists THEN nextID + 1 ELSE nextID
       \/ /\ exists
          /\ log' = Append(log, Says(p, nextID)) /\ flushed' = Len(log')
          /\ nextID' = nextID + 1
    /\ UNCHANGED <<exists, ppc, cur, todo, at, stream, ch, panicked, history>>

\* broadcastEphemeral: an assistant's delta is not persisted.
BroadcastEphemeral(p) ==
    /\ Idle(p)
    /\ Produce(p, Says(p, 0))
    /\ UNCHANGED <<store, stream, ch, panicked, history>>

\* p has served its target h.
Served(p, h) ==
    /\ todo' = [todo EXCEPT ![p] = @ \ {h}]
    /\ ppc' = [ppc EXCEPT ![p] = IF todo[p] = {h} THEN "idle" ELSE "send"]
    /\ at' = [at EXCEPT ![p] = NoStream]
    /\ UNCHANGED <<said, cur>>

\* broadcast: copy the subscribers under s.mu.
CopyTargets(p) ==
    /\ ppc[p] = "copy"
    /\ todo' = [todo EXCEPT ![p] = subs]
    /\ ppc' = [ppc EXCEPT ![p] = IF subs = {} THEN "idle" ELSE "send"]
    /\ copied' = [h \in Streams |-> IF h \in subs THEN copied[h] \cup {cur[p]} ELSE copied[h]]
    /\ UNCHANGED <<store, said, cur, at, stream, ch, panicked, spilled>>

Closed(h) == spc[h] = "gone"

\* A send on h's channel by p: panics if it is closed.
SendOn(p, h) ==
    IF Closed(h)
      THEN panicked' = TRUE /\ UNCHANGED <<producer, ch>>
      ELSE ch' = [ch EXCEPT ![h] = Append(@, cur[p])] /\ Served(p, h) /\ UNCHANGED panicked

\* sendDropOldest, the first select.
TrySend(p, h) ==
    /\ ppc[p] = "send" /\ h \in todo[p]
    /\ IF Closed(h) \/ Len(ch[h]) < Cap
         THEN SendOn(p, h)
         ELSE /\ ppc' = [ppc EXCEPT ![p] = "full"]
              /\ at' = [at EXCEPT ![p] = h]
              /\ UNCHANGED <<said, cur, todo, ch, panicked>>
    /\ UNCHANGED <<store, stream, history>>

\* sendDropOldest, the second select: pop the oldest event, if there is one by
\* now (a receive from a closed channel changes nothing).
DropOldest(p) ==
    LET h == at[p] IN
    /\ ppc[p] = "full"
    /\ ch' = IF ch[h] = <<>> THEN ch ELSE [ch EXCEPT ![h] = Tail(@)]
    /\ spilled' = [spilled EXCEPT ![h] = @ \/ ch[h] # <<>>]
    /\ ppc' = [ppc EXCEPT ![p] = "retry"]
    /\ UNCHANGED <<store, said, cur, todo, at, stream, panicked, copied>>

\* sendDropOldest, the third select: another producer may have taken the room.
Retry(p) ==
    LET h == at[p] IN
    /\ ppc[p] = "retry"
    /\ IF Closed(h) \/ Len(ch[h]) < Cap
         THEN SendOn(p, h) /\ UNCHANGED spilled
         ELSE /\ Served(p, h)
              /\ spilled' = [spilled EXCEPT ![h] = TRUE]
              /\ UNCHANGED <<ch, panicked>>
    /\ UNCHANGED <<store, stream, copied>>

\* DeleteSession: streams and running tools are left alone; a replay that has
\* the file open reads on.
DeleteSession ==
    /\ exists
    /\ exists' = FALSE
    /\ UNCHANGED <<log, flushed, nextID, producer, stream, ch, panicked, history>>

-----------------------------------------------------------------------------
(* Streams.                                                                *)

\* StreamEvents or Interact begins; store.Replay fails for a deleted session.
StreamEvents(h, a) ==
    /\ spc[h] = "idle"
    /\ after' = [after EXCEPT ![h] = a]
    /\ spc' = [spc EXCEPT ![h] = IF exists THEN "replay" ELSE "gone"]
    /\ UNCHANGED <<store, producer, rpos, ch, subs, sent, panicked, history>>

\* Replay sends the next record of the file, if it is past after_event_id.
ReplayRecord(h) ==
    /\ spc[h] = "replay" /\ rpos[h] < flushed
    /\ rpos' = [rpos EXCEPT ![h] = @ + 1]
    /\ sent' = IF log[rpos[h] + 1].id <= after[h] THEN sent
               ELSE [sent EXCEPT ![h] = Append(@, log[rpos[h] + 1])]
    /\ UNCHANGED <<store, producer, spc, after, ch, subs, panicked, history>>

\* The end of the file, or no file: it was removed before it was opened.
ReplayEnd(h) ==
    /\ spc[h] = "replay"
    /\ rpos[h] = flushed \/ (~exists /\ rpos[h] = 0)
    /\ spc' = [spc EXCEPT ![h] = "subscribe"]
    /\ UNCHANGED <<store, producer, after, rpos, ch, subs, sent, panicked, history>>

Subscribe(h) ==
    /\ spc[h] = "subscribe"
    /\ subs' = subs \cup {h}
    /\ spc' = [spc EXCEPT ![h] = "loop"]
    /\ UNCHANGED <<store, producer, after, rpos, ch, sent, panicked, history>>

\* Mutant: ephemeral events are filtered like persisted ones.
Forward_SkipsEphemeral(h) ==
    /\ spc[h] = "loop" /\ ch[h] # <<>>
    /\ ch' = [ch EXCEPT ![h] = Tail(@)]
    /\ sent' = IF Head(ch[h]).id <= after[h] THEN sent
               ELSE [sent EXCEPT ![h] = Append(@, Head(ch[h]))]
    /\ UNCHANGED <<store, producer, spc, after, rpos, subs, panicked, history>>

\* Receive an event; sendEvent skips what the client said it has, but never an
\* ephemeral event.
Forward(h) ==
    /\ spc[h] = "loop" /\ ch[h] # <<>>
    /\ ch' = [ch EXCEPT ![h] = Tail(@)]
    /\ sent' = IF Head(ch[h]).id \in 1..after[h] THEN sent
               ELSE [sent EXCEPT ![h] = Append(@, Head(ch[h]))]
    /\ UNCHANGED <<store, producer, spc, after, rpos, subs, panicked, history>>

\* The client goes, or a Send fails: the deferred unsubscribe closes the channel.
Leave(h) ==
    /\ spc[h] \in {"replay", "subscribe", "loop"}
    /\ spc' = [spc EXCEPT ![h] = "gone"]
    /\ subs' = subs \ {h}
    /\ UNCHANGED <<store, producer, after, rpos, ch, sent, panicked, history>>

-----------------------------------------------------------------------------
ProducerStep(p) ==
    \/ AppendEvent(p)
    \/ AppendFails(p)
    \/ BroadcastEphemeral(p)
    \/ CopyTargets(p)
    \/ \E h \in Streams : TrySend(p, h)
    \/ DropOldest(p)
    \/ Retry(p)

StreamStep(h) ==
    \/ \E a \in Afters : StreamEvents(h, a)
    \/ ReplayRecord(h)
    \/ ReplayEnd(h)
    \/ Subscribe(h)
    \/ Forward(h)
    \/ Leave(h)

Next ==
    /\ ~panicked
    /\ \/ \E p \in Producers : ProducerStep(p)
       \/ \E h \in Streams : StreamStep(h)
       \/ DeleteSession

Spec == Init /\ [][Next]_vars

-----------------------------------------------------------------------------
(* Properties.                                                             *)

\* What h's client has been sent, and what waits for it.
Arriving(h) == sent[h] \o ch[h]

(***************************************************************************)
(* A client may see the events of two producers in the reverse order of    *)
(* their ids, and an event twice: replayed, and then live.  But the events *)
(* of one producer - the output of a tool, the deltas of an answer - reach *)
(* it in the order they were produced, even when channels overflow and     *)
(* several producers drop at once; and what comes twice is at most the     *)
(* event the producer was broadcasting while the stream subscribed.        *)
(***************************************************************************)
ProducerOrder ==
    \A h \in Streams : LET q == Arriving(h) IN
        \A i, j \in 1..Len(q) :
            i < j /\ q[i].by = q[j].by =>
                \/ q[i].n < q[j].n
                \/ /\ q[i] = q[j]
                   /\ \A k \in 1..Len(q) : k \notin {i, j} => q[k] # q[i]

(***************************************************************************)
(* A stream that is subscribed when an event's targets are copied gets the *)
(* event, unless its client asked to skip it or the stream's own channel   *)
(* overflowed: no other stream's full or closed channel can cost it one.   *)
(***************************************************************************)
LiveIsComplete ==
    \A h \in subs : ~spilled[h] =>
        \A e \in copied[h] :
            \/ \E i \in 1..Len(Arriving(h)) : Arriving(h)[i] = e
            \/ \E p \in Producers : cur[p] = e /\ h \in todo[p]
            \/ e.id \in 1..after[h]

=============================================================================
