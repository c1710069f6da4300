----------------------------- MODULE FileWrites -----------------------------
(***************************************************************************)
(* Files that are replaced as a whole: RemoteFileService.WriteFileAtomic   *)
(* (internal/remote/file.go) and the write_file tool (session_service.go)  *)
(* write one path, clients read it, and the daemon or the machine may stop *)
(* between any two steps.                                                  *)
(*                                                                         *)
(* Each writer has a content of its own, its name; a file is also "part"   *)
(* while it is being written.                                              *)
(***************************************************************************)
EXTENDS Integers, FiniteSets

CONSTANTS
    Writers,  \* calls; each writes once
    Tools,    \* those that are calls of write_file
    MaxStops  \* bound: crashes and power losses

VARIABLES
    at,      \* at[w]: start, old (read), temp, written, synced, renamed, done, failed
    old,     \* old[w]: what a write_file call read before it wrote
    temp,    \* temp[w]: its temporary file: none, empty, part, whole
    synced,  \* synced[w]: fsync has returned for it
    file,    \* the content at the path
    disk,    \* the contents the path may have after a power loss
    diffs,   \* the FileDiff events: pairs of old and new
    stops    \* crashes and power losses so far

vars == <<at, old, temp, synced, file, disk, diffs, stops>>

Goes(w, to) == at' = [at EXCEPT ![w] = to]

Init ==
    /\ at = [w \in Writers |-> "start"] /\ old = [w \in Writers |-> ""]
    /\ temp = [w \in Writers |-> "none"] /\ synced = [w \in Writers |-> FALSE]
    /\ file \in {"", "first"} /\ disk = {file} /\ diffs = {} /\ stops = 0

-----------------------------------------------------------------------------
\* resolve: a path that leads out of the root is refused before anything happens.
Refuse(w) ==
    /\ at[w] = "start" /\ Goes(w, "failed")
    /\ UNCHANGED <<old, temp, synced, file, disk, diffs, stops>>

\* Only the tool reads what it replaces.
ReadOld(w) ==
    /\ at[w] = "start" /\ Goes(w, "old")
    /\ old' = [old EXCEPT ![w] = IF w \in Tools THEN file ELSE @]
    /\ UNCHANGED <<temp, synced, file, disk, diffs, stops>>

CreateTemp(w) ==
    /\ at[w] = "old" /\ Goes(w, "temp") /\ temp' = [temp EXCEPT ![w] = "empty"]
    /\ UNCHANGED <<old, synced, file, disk, diffs, stops>>

WriteTemp(w) ==
    /\ at[w] = "temp"
    /\ \/ temp[w] = "empty" /\ temp' = [temp EXCEPT ![w] = "part"] /\ UNCHANGED at
       \/ temp[w] = "part" /\ temp' = [temp EXCEPT ![w] = "whole"] /\ Goes(w, "written")
    /\ UNCHANGED <<old, synced, file, disk, diffs, stops>>

\* Mutant: the file is renamed before it has been synced.
SyncTemp_Skipped(w) ==
    /\ at[w] = "written" /\ Goes(w, "synced")
    /\ UNCHANGED <<old, temp, synced, file, disk, diffs, stops>>

SyncTemp(w) ==
    /\ at[w] = "written" /\ Goes(w, "synced") /\ synced' = [synced EXCEPT ![w] = TRUE]
    /\ UNCHANGED <<old, temp, file, disk, diffs, stops>>

\* After a power loss the path is the old file or the new one, which holds
\* what was synced.
Rename(w) ==
    /\ at[w] = "synced" /\ Goes(w, "renamed")
    /\ file' = w /\ temp' = [temp EXCEPT ![w] = "none"]
    /\ disk' = disk \cup (IF synced[w] THEN {w} ELSE {w, "part"})
    /\ UNCHANGED <<old, synced, diffs, stops>>

\* The write, the sync or the rename fails: the temporary file is removed.
WriteFails(w) ==
    /\ at[w] \in {"temp", "written", "synced"} /\ Goes(w, "failed")
    /\ temp' = [temp EXCEPT ![w] = "none"]
    /\ UNCHANGED <<old, synced, file, disk, diffs, stops>>

\* The tool says what it changed.
Report(w) ==
    /\ at[w] = "renamed" /\ Goes(w, "done")
    /\ diffs' = IF w \in Tools THEN diffs \cup {<<old[w], w>>} ELSE diffs
    /\ UNCHANGED <<old, temp, synced, file, disk, stops>>

-----------------------------------------------------------------------------
\* The file system writes the directory back.
DirReachesDisk ==
    /\ disk # {file} /\ file \in disk /\ "part" \notin disk /\ disk' = {file}
    /\ UNCHANGED <<at, old, temp, synced, file, diffs, stops>>

Stopped == [w \in Writers |-> IF at[w] \in {"start", "done", "failed"} THEN at[w] ELSE "failed"]

\* Temporary files are left behind.
Crash ==
    /\ stops < MaxStops /\ stops' = stops + 1 /\ at' = Stopped
    /\ UNCHANGED <<old, temp, synced, file, disk, diffs>>

PowerLoss ==
    /\ stops < MaxStops /\ stops' = stops + 1 /\ at' = Stopped
    /\ file' \in disk /\ disk' = {file'}
    /\ UNCHANGED <<old, temp, synced, diffs>>

WriteFileAtomic(w) ==
    \/ Refuse(w) \/ ReadOld(w) \/ CreateTemp(w) \/ WriteTemp(w)
    \/ SyncTemp(w) \/ Rename(w) \/ WriteFails(w) \/ Report(w)

Next == DirReachesDisk \/ Crash \/ PowerLoss \/ \E w \in Writers : WriteFileAtomic(w)
Spec == Init /\ [][Next]_vars

-----------------------------------------------------------------------------
TypeOK ==
    /\ old \in [Writers -> {"", "first"} \cup Writers]
    /\ temp \in [Writers -> {"none", "empty", "part", "whole"}]
    /\ synced \in [Writers -> BOOLEAN] /\ stops \in 0..MaxStops

(***************************************************************************)
(* Whoever reads the path finds a whole content, the first or one that a   *)
(* call wrote: while others write it, after a failure, and after the       *)
(* daemon or the machine has stopped (WriteFileAtomic).                    *)
(***************************************************************************)
FilesAreWhole == {file} \cup disk \subseteq {"", "first"} \cup Writers

\* A call that failed by itself leaves no temporary file behind, and the ones
\* a stop leaves are never the path's (the deferred Remove).
NoTempIsLeft == stops = 0 => \A w \in Writers : at[w] \in {"failed", "done"} => temp[w] = "none"

(***************************************************************************)
(* Every diff that is told names two contents the path has had, the older  *)
(* one first (execWriteFileToolInternal).                                  *)
(***************************************************************************)
DiffsAreOfThePath ==
    \A d \in diffs : /\ d[1] \in {"", "first"} \cup Writers /\ d[1] # d[2]
                     /\ d[1] \in Writers => at[d[1]] \in {"renamed", "done", "failed"}
=============================================================================
