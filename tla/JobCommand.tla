----------------------------- MODULE JobCommand ------------------------------
(***************************************************************************)
(* From the flags of `xrunner job submit' to the process that a worker     *)
(* starts: the workload and the sandbox that the flags ask for             *)
(* (cmd/xrunner/main.go), the copy of them in the job (jobsvc/service.go), *)
(* the worker's default sandbox (cmd/worker/main.go), and the command that *)
(* Execute builds and wraps (internal/worker/runner.go).                   *)
(*                                                                         *)
(* wrapWithSandbox calls itself without a spec when the sandbox's binary   *)
(* is missing and the worker may fall back; without a spec the worker's    *)
(* default applies, which can be the sandbox that is missing.  Each call   *)
(* is a step here, and a stack of MaxDepth calls overflows, which ends the *)
(* process.                                                                *)
(***************************************************************************)
EXTENDS Naturals

CONSTANTS
    Jobs,
    MaxDepth,   \* bound: calls of wrapWithSandbox that fit on the stack
    MaxStarts   \* bound: starts of the worker

VARIABLES
    default,    \* DefaultSandbox
    fallback,   \* AllowUnsafeFallback
    has,        \* the sandbox binaries on the worker's PATH
    flags,      \* [job -> the flags of its submit]
    at,         \* [job -> where it is]
    spec,       \* [job -> the spec wrapWithSandbox was called with]
    depth,      \* [job -> calls of wrapWithSandbox on the stack]
    runs,       \* [job -> how its process runs: "", host, docker, nsjail, custom]
    dirs,       \* workspaces on the worker's disk
    worker,     \* the worker is up
    starts      \* starts of the worker

vars == <<default, fallback, has, flags, at, spec, depth, runs, dirs, worker, starts>>
config == <<default, fallback, has, flags>>

Nothing == [type |-> "", bin |-> ""]
Specs == [type : {"none", "nsjail", "docker"}, bin : {"", "custom"}]

\* sound: the flags name a workload with what it requires, and files that are there.
Flags == [sound : BOOLEAN, type : {"", "none", "nsjail", "docker", "bad"}, bin : {"", "custom"}]

\* What wrapWithSandbox, Start and Wait can be stopped in by the end of the worker.
InFlight == {"accepted", "prepared", "wrap", "start", "running"}

TypeOK ==
    /\ default \in Specs \cup {Nothing} /\ fallback \in BOOLEAN /\ has \subseteq {"nsjail", "custom"}
    /\ flags \in [Jobs -> Flags] /\ spec \in [Jobs -> Specs \cup {Nothing}]
    /\ at \in [Jobs -> InFlight \cup {"flags", "posted", "refused", "finished", "failed", "lost"}]
    /\ depth \in [Jobs -> 0..MaxDepth] /\ runs \in [Jobs -> {"", "host", "docker", "nsjail", "custom"}]
    /\ dirs \subseteq Jobs /\ worker \in BOOLEAN /\ starts \in 0..MaxStarts

-----------------------------------------------------------------------------
\* cmd/worker/main.go: nothing and none are no sandbox.  nsjail-docker is nsjail here, which
\* wrapWithSandbox treats alike.
parseSandboxType(val) == IF val = "" THEN "none" ELSE val
buildDefaultSandbox(type, bin) ==
    IF parseSandboxType(type) = "none" THEN Nothing ELSE [type |-> parseSandboxType(type), bin |-> bin]

Init ==
    /\ \E type \in {"", "none", "nsjail", "docker"}, bin \in {"", "custom"} :
         default = buildDefaultSandbox(type, bin)
    /\ fallback \in BOOLEAN /\ has \in SUBSET {"nsjail", "custom"}
    /\ flags \in [Jobs -> {f \in Flags : ~f.sound => f.type = "" /\ f.bin = ""}]
    /\ at = [j \in Jobs |-> "flags"] /\ spec = [j \in Jobs |-> Nothing]
    /\ depth = [j \in Jobs |-> 0] /\ runs = [j \in Jobs |-> ""] /\ dirs = {}
    /\ worker = TRUE /\ starts = 1

-----------------------------------------------------------------------------
\* The client.  Flags that ask for nothing leave the choice to the worker; any other
\* sandbox flag without a type means nsjail; of the types one is not known.
parseSandboxTypeFlag(val) == IF val = "bad" THEN "error" ELSE val
buildSandbox(f) ==
    IF f.type = "" /\ f.bin = "" THEN Nothing
      ELSE [type |-> parseSandboxTypeFlag(IF f.type = "" THEN "nsjail" ELSE f.type), bin |-> f.bin]
SubmitIsSound(f) == f.sound /\ buildSandbox(f).type # "error"

Goes(j, to) == at' = [at EXCEPT ![j] = to]

\* A workload without what it requires, a bad variable, a missing file, an unknown type.
SubmitFails(j) ==
    /\ at[j] = "flags" /\ ~SubmitIsSound(flags[j]) /\ Goes(j, "refused")
    /\ UNCHANGED <<config, spec, depth, runs, dirs, worker, starts>>

\* SubmitJob keeps a copy of the spec, and dispatch copies it into the assignment.
SubmitJob(j) ==
    /\ at[j] = "flags" /\ SubmitIsSound(flags[j])
    /\ Goes(j, "posted") /\ spec' = [spec EXCEPT ![j] = buildSandbox(flags[j])]
    /\ UNCHANGED <<config, depth, runs, dirs, worker, starts>>

Dispatch(j) ==
    /\ at[j] = "posted" /\ Goes(j, IF worker THEN "accepted" ELSE "failed")
    /\ UNCHANGED <<config, spec, depth, runs, dirs, worker, starts>>

-----------------------------------------------------------------------------
\* Execute.

PrepareWorkspace(j) ==
    /\ at[j] = "accepted"
    /\ \/ Goes(j, "prepared") /\ dirs' = dirs \cup {j}
       \/ Goes(j, "failed") /\ UNCHANGED dirs
    /\ UNCHANGED <<config, spec, depth, runs, worker, starts>>

\* The base command: the executable, docker run or docker buildx build.
BuildCommand(j) ==
    /\ at[j] = "prepared" /\ Goes(j, "wrap") /\ depth' = [depth EXCEPT ![j] = 1]
    /\ UNCHANGED <<config, spec, runs, dirs, worker, starts>>

Effective(j) == IF spec[j] = Nothing THEN default ELSE spec[j]
Bin(e) == IF e.bin = "" THEN "nsjail" ELSE e.bin
RunsIn(j, how) == runs' = [runs EXCEPT ![j] = how] /\ Goes(j, "start")

\* No sandbox, or docker, which leaves the command as it is.
WrapPlain(j) ==
    /\ at[j] = "wrap"
    /\ \/ Effective(j).type \in {"", "none"} /\ RunsIn(j, "host")
       \/ Effective(j).type = "docker" /\ RunsIn(j, "docker")
    /\ UNCHANGED <<config, spec, depth, dirs, worker, starts>>

WrapNsjail(j) ==
    /\ at[j] = "wrap" /\ Effective(j).type = "nsjail" /\ Bin(Effective(j)) \in has
    /\ RunsIn(j, Bin(Effective(j)))
    /\ UNCHANGED <<config, spec, depth, dirs, worker, starts>>

\* Mutant: the default is used even where falling back is not allowed.
SandboxMissing_AlwaysFalls(j) ==
    /\ at[j] = "wrap" /\ Effective(j).type = "nsjail" /\ Bin(Effective(j)) \notin has
    /\ RunsIn(j, "host")
    /\ UNCHANGED <<config, spec, depth, dirs, worker, starts>>

\* The binary is missing: an error, the job's workspace goes with the return of Execute.
SandboxMissing(j) ==
    /\ at[j] = "wrap" /\ Effective(j).type = "nsjail" /\ Bin(Effective(j)) \notin has
    /\ ~fallback /\ Goes(j, "failed") /\ dirs' = dirs \ {j}
    /\ UNCHANGED <<config, spec, depth, runs, worker, starts>>

\* Or a call of wrapWithSandbox without a spec.
FallBack(j) ==
    /\ at[j] = "wrap" /\ Effective(j).type = "nsjail" /\ Bin(Effective(j)) \notin has
    /\ fallback /\ depth[j] < MaxDepth
    /\ depth' = [depth EXCEPT ![j] = @ + 1] /\ spec' = [spec EXCEPT ![j] = Nothing]
    /\ UNCHANGED <<config, at, runs, dirs, worker, starts>>

\* The stack is full: the process ends, and with it what it was running.
StackOverflow(j) ==
    /\ at[j] = "wrap" /\ Effective(j).type = "nsjail" /\ Bin(Effective(j)) \notin has
    /\ fallback /\ depth[j] = MaxDepth
    /\ worker' = FALSE
    /\ at' = [k \in Jobs |-> IF at[k] \in InFlight THEN "lost" ELSE at[k]]
    /\ UNCHANGED <<config, spec, depth, runs, dirs, starts>>

\* Somebody starts the worker again.
StartWorker ==
    /\ ~worker /\ starts < MaxStarts /\ worker' = TRUE /\ starts' = starts + 1
    /\ UNCHANGED <<config, at, spec, depth, runs, dirs>>

\* cmd.Start fails when the executable, or docker, is not there.
Start(j) ==
    /\ at[j] = "start"
    /\ \/ Goes(j, "running") /\ UNCHANGED dirs
       \/ Goes(j, "failed") /\ dirs' = dirs \ {j}
    /\ UNCHANGED <<config, spec, depth, runs, worker, starts>>

\* The process ends, or is killed when its caller has gone; the workspace is removed.
End(j) ==
    /\ at[j] = "running" /\ Goes(j, "finished") /\ dirs' = dirs \ {j}
    /\ UNCHANGED <<config, spec, depth, runs, worker, starts>>

Client(j) == SubmitFails(j) \/ SubmitJob(j) \/ Dispatch(j)
wrapWithSandbox(j) == WrapPlain(j) \/ WrapNsjail(j) \/ SandboxMissing(j) \/ FallBack(j) \/ StackOverflow(j)
Execute(j) == PrepareWorkspace(j) \/ BuildCommand(j) \/ wrapWithSandbox(j) \/ Start(j) \/ End(j)

Next == StartWorker \/ \E j \in Jobs : Client(j) \/ Execute(j)

Spec == Init /\ [][Next]_vars

-----------------------------------------------------------------------------
\* A process runs outside a sandbox only where somebody said so: the job asked for none,
\* or left the choice to a worker without a default, or the worker may fall back; and it
\* runs in another sandbox than the one asked for only by falling back (wrapWithSandbox).
Asked(j) == buildSandbox(flags[j])
HostNeedsLeave ==
    \A j \in Jobs : runs[j] = "host" =>
        fallback \/ Asked(j).type = "none" \/ (Asked(j) = Nothing /\ default = Nothing)
SandboxIsAsAsked ==
    \A j \in Jobs : runs[j] # "" /\ ~fallback /\ Asked(j) # Nothing =>
        \/ Asked(j).type = "none" /\ runs[j] = "host"
        \/ Asked(j).type = "nsjail" /\ runs[j] = Bin(Asked(j))
        \/ Asked(j).type = "docker" /\ runs[j] = "docker"

\* Workspaces are of jobs that run, or that the end of the worker has caught (Execute).
WorkspacesAreRemoved == \A j \in dirs : at[j] \in InFlight \cup {"lost"}

\* README.md:20: a worker that may fall back runs jobs although the sandbox is missing.
WorkerSurvives == worker
=============================================================================
