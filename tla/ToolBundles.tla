----------------------------- MODULE ToolBundles -----------------------------
(***************************************************************************)
(* The tool bundle of one session (internal/toolspec/bundle.go and         *)
(* session_service.go): the file is read when the session is created, told *)
(* to the clients, kept in a cache and enforced on every tool call; a call *)
(* that misses the cache reads the file again.  `toolspec bundle' replaces *)
(* the file meanwhile, and a restart empties the cache.                    *)
(***************************************************************************)
EXTENDS Integers

CONSTANTS
    Calls,      \* tool calls in the session
    MaxStops,   \* bound: restarts
    MaxChanges  \* bound: changes of the file

VARIABLES
    path,      \* the session names a bundle file
    file,      \* the content of that file
    tmp,       \* what `toolspec bundle' is about to rename: "" or a version
    create,    \* CreateSession: start, started, load, keep, tell, done
    got,       \* what it has read
    session,   \* in the store: none, here, deleted
    cache,     \* bundles[session]: "" or a version
    told,      \* what the last event about the bundle said: "", bad or a version
    call,      \* call[k]: how far it is, its tool, the bundle it is judged by
    early,     \* calls that began before CreateSession had returned
    stops,     \* restarts so far
    changes    \* changes of the file so far

vars == <<path, file, tmp, create, got, session, cache, told, call, early, stops, changes>>

Versions == {"v1", "v2"}
Tools == {"shell", "write_file_atomic", "unknown"}
Content == Versions \cup {"bad"} \* missing and invalid files alike
bundleAllows(v) == IF v = "v1" THEN {"shell", "unknown"} ELSE {"shell", "write_file_atomic"}

Idle == [at |-> "start", tool |-> "shell", by |-> ""]

Init ==
    /\ path \in BOOLEAN /\ file \in Content /\ tmp = "" /\ create = "start" /\ got = ""
    /\ session = "none" /\ cache = "" /\ told = "" /\ call = [k \in Calls |-> Idle]
    /\ early = FALSE /\ stops = 0 /\ changes = 0

-----------------------------------------------------------------------------
\* CreateSession: the store first, then the event, then the bundle.
Create ==
    /\ create = "start" /\ create' = "started" /\ session' = "here"
    /\ UNCHANGED <<path, file, tmp, got, cache, told, call, early, stops, changes>>

SessionStarted ==
    /\ create = "started" /\ create' = IF path THEN "load" ELSE "done"
    /\ UNCHANGED <<path, file, tmp, got, session, cache, told, call, early, stops, changes>>

\* LoadBundle reads and validates; an error is told at once.
LoadBundle ==
    /\ create = "load" /\ got' = file
    /\ create' = IF file = "bad" THEN "tell" ELSE "keep"
    /\ UNCHANGED <<path, file, tmp, session, cache, told, call, early, stops, changes>>

KeepBundle ==
    /\ create = "keep" /\ create' = "tell" /\ cache' = got
    /\ UNCHANGED <<path, file, tmp, got, session, told, call, early, stops, changes>>

ToolBundleLoaded ==
    /\ create = "tell" /\ create' = "done" /\ told' = got
    /\ UNCHANGED <<path, file, tmp, got, session, cache, call, early, stops, changes>>

DeleteSession ==
    /\ session = "here" /\ session' = "deleted"
    /\ UNCHANGED <<path, file, tmp, create, got, cache, told, call, early, stops, changes>>

-----------------------------------------------------------------------------
(***************************************************************************)
(* handleToolInvoke and execToolSync: bundleForSession looks in the cache, *)
(* then in the store for the path, then reads the file and keeps it.  A    *)
(* session that is not found has no bundle, and no tool works for it.      *)
(***************************************************************************)
Goes(k, to) == call' = [call EXCEPT ![k].at = to]

\* A client of another session may know this one from ListSessions.
ToolInvoke(k) ==
    /\ call[k].at = "start" /\ create # "start"
    /\ \E t \in Tools : call' = [call EXCEPT ![k] = [at |-> "cache", tool |-> t, by |-> ""]]
    /\ early' = (early \/ create # "done")
    /\ UNCHANGED <<path, file, tmp, create, got, session, cache, told, stops, changes>>

LookInCache(k) ==
    /\ call[k].at = "cache"
    /\ call' = [call EXCEPT ![k].by = cache, ![k].at = IF cache # "" THEN "judge" ELSE "store"]
    /\ UNCHANGED <<path, file, tmp, create, got, session, cache, told, early, stops, changes>>

LookInStore(k) ==
    /\ call[k].at = "store"
    /\ Goes(k, IF session = "here" /\ path THEN "read" ELSE "judge")
    /\ UNCHANGED <<path, file, tmp, create, got, session, cache, told, early, stops, changes>>

\* Mutant: a bundle that cannot be read is no bundle.
ReadBundle_Lenient(k) ==
    /\ call[k].at = "read"
    /\ IF file = "bad" THEN Goes(k, "judge")
         ELSE call' = [call EXCEPT ![k].by = file, ![k].at = "keep"]
    /\ UNCHANGED <<path, file, tmp, create, got, session, cache, told, early, stops, changes>>

ReadBundle(k) ==
    /\ call[k].at = "read"
    /\ IF file = "bad" THEN Goes(k, "refused")
         ELSE call' = [call EXCEPT ![k].by = file, ![k].at = "keep"]
    /\ UNCHANGED <<path, file, tmp, create, got, session, cache, told, early, stops, changes>>

CacheBundle(k) ==
    /\ call[k].at = "keep" /\ cache' = call[k].by /\ Goes(k, "judge")
    /\ UNCHANGED <<path, file, tmp, create, got, session, told, early, stops, changes>>

Judge(k) ==
    /\ call[k].at = "judge"
    /\ Goes(k, IF call[k].by = "" \/ call[k].tool \in bundleAllows(call[k].by) THEN "work" ELSE "refused")
    /\ UNCHANGED <<path, file, tmp, create, got, session, cache, told, early, stops, changes>>

\* resolveSessionWorkdir looks for the session once more; a tool may be unknown.
Work(k) ==
    /\ call[k].at = "work"
    /\ Goes(k, IF session = "here" /\ call[k].tool # "unknown" THEN "run" ELSE "refused")
    /\ UNCHANGED <<path, file, tmp, create, got, session, cache, told, early, stops, changes>>

-----------------------------------------------------------------------------
\* `toolspec bundle' validates what it writes, and renames it over the file.
WriteBundle ==
    /\ tmp = "" /\ changes < MaxChanges /\ tmp' \in Versions /\ changes' = changes + 1
    /\ UNCHANGED <<path, file, create, got, session, cache, told, call, early, stops>>

RenameBundle ==
    /\ tmp # "" /\ file' = tmp /\ tmp' = ""
    /\ UNCHANGED <<path, create, got, session, cache, told, call, early, stops, changes>>

\* Anybody else may edit or remove the file.
EditFile ==
    /\ changes < MaxChanges /\ file' = "bad" /\ changes' = changes + 1
    /\ UNCHANGED <<path, tmp, create, got, session, cache, told, call, early, stops>>

Restart ==
    /\ stops < MaxStops /\ stops' = stops + 1 /\ cache' = ""
    /\ create' = IF create = "start" THEN "start" ELSE "done"
    /\ call' = [k \in Calls |-> IF call[k].at \in {"start", "run", "refused"} THEN call[k] ELSE [call[k] EXCEPT !.at = "refused"]]
    /\ UNCHANGED <<path, file, tmp, got, session, told, early, changes>>

CreateSession == Create \/ SessionStarted \/ LoadBundle \/ KeepBundle \/ ToolBundleLoaded
bundleForSession(k) == LookInCache(k) \/ LookInStore(k) \/ ReadBundle(k) \/ CacheBundle(k)

Next ==
    \/ CreateSession \/ DeleteSession \/ WriteBundle \/ RenameBundle \/ EditFile \/ Restart
    \/ \E k \in Calls : ToolInvoke(k) \/ bundleForSession(k) \/ Judge(k) \/ Work(k)

Spec == Init /\ [][Next]_vars

-----------------------------------------------------------------------------
TypeOK ==
    /\ file \in Content /\ {tmp, cache} \subseteq Versions \cup {""} /\ told \in Content \cup {""}
    /\ \A k \in Calls : call[k].tool \in Tools /\ call[k].by \in Versions \cup {""}

(***************************************************************************)
(* In a session that names a bundle no tool runs without a valid one that  *)
(* allows it: whatever happens to the file, the cache and the session      *)
(* between the steps of the call (bundleForSession,                        *)
(* resolveSessionWorkdir).                                                 *)
(***************************************************************************)
NoToolWithoutBundle ==
    \A k \in Calls :
       path /\ call[k].at = "run" => call[k].by # "" /\ call[k].tool \in bundleAllows(call[k].by)

(***************************************************************************)
(* What the clients were told is what is enforced: until a restart, the    *)
(* calls made after CreateSession returned are judged by the announced     *)
(* bundle, however often the file changes (CreateSession, the cache).      *)
(***************************************************************************)
AnnouncedIsEnforced ==
    told \in Versions /\ stops = 0 /\ ~early =>
       cache = told /\ \A k \in Calls : call[k].at \in {"judge", "work", "run"} => call[k].by = told
=============================================================================
