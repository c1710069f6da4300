------------------------------- MODULE Daemons -------------------------------
(***************************************************************************)
(* The three daemons as processes: the worker (cmd/worker/main.go), the    *)
(* API (cmd/api/main.go) and xrunner-remote (cmd/xrunner-remote/main.go    *)
(* and internal/remote/server.go), how they start one on the other, and    *)
(* how they stop while jobs run and a log is followed, directly or through *)
(* internal/remote/job_proxy.go.  The follower stands for any open call of *)
(* xrunner-remote, which stops when the last one has ended.                *)
(*                                                                         *)
(* The API waits for its dispatch goroutines before it refuses calls: a    *)
(* job that is submitted in between is not waited for, and if that happens *)
(* while Wait is about to return the WaitGroup panics.  Jobs are in the    *)
(* API's memory only; JobMirror adds the persistence.                      *)
(***************************************************************************)
EXTENDS FiniteSets, Integers

CONSTANTS
    Jobs,
    MaxStarts, \* bound: starts of processes
    MaxKills   \* bound: processes that are killed or crash

VARIABLES
    worker,   \* phases of the processes
    api,
    remote,
    exit,     \* [process -> how it last ended: "", ok, failed, panicked, killed]
    job,      \* [job -> none, accepted, running, finished, failed, lost, killed]
    late,     \* jobs accepted after the signal to stop
    known,    \* jobs in the memory of the API
    follower, \* one StreamJobLogs call
    starts,
    kills

vars == <<worker, api, remote, exit, job, late, known, follower, starts, kills>>
procs == <<worker, api, remote, exit>>
counts == <<starts, kills>>

Processes == {"worker", "api", "remote"}
Terminal == {"finished", "failed"}
Accepting == {"serving", "closing", "woken", "waited"} \* the API takes new calls

TypeOK ==
    /\ worker \in {"down", "serving", "graceful"}
    /\ api \in Accepting \cup {"down", "dialing", "opening", "graceful"}
    /\ remote \in {"down", "dialing", "serving", "graceful"}
    /\ exit \in [Processes -> {"", "ok", "failed", "panicked", "killed"}]
    /\ job \in [Jobs -> Terminal \cup {"none", "accepted", "running", "lost", "killed"}]
    /\ late \subseteq Jobs /\ known \subseteq Jobs
    /\ follower \in [at : {"idle", "waiting", "open", "ended", "cut", "left"},
                     via : {"api", "remote"}, of : Jobs]
    /\ starts \in 0..MaxStarts /\ kills \in 0..MaxKills

Init ==
    /\ worker = "down" /\ api = "down" /\ remote = "down" /\ exit = [p \in Processes |-> ""]
    /\ job = [j \in Jobs |-> "none"] /\ late = {} /\ known = {}
    /\ follower = [at |-> "idle", via |-> "api", of |-> CHOOSE j \in Jobs : TRUE]
    /\ starts = 0 /\ kills = 0

Busy == {j \in known : job[j] \in {"accepted", "running"}}
Follows(at) == follower' = [follower EXCEPT !.at = at]
Open == follower.at = "open"

-----------------------------------------------------------------------------
(* Starting.  The API gives up on its worker after 5 s, xrunner-remote on  *)
(* the API after 10 s; each then exits.                                    *)

StartWorker ==
    /\ worker = "down" /\ starts < MaxStarts /\ starts' = starts + 1 /\ worker' = "serving"
    /\ UNCHANGED <<api, remote, exit, job, late, known, follower, kills>>

StartAPI ==
    /\ api = "down" /\ starts < MaxStarts /\ starts' = starts + 1 /\ api' = "dialing"
    /\ UNCHANGED <<worker, remote, exit, job, late, known, follower, kills>>

DialWorker ==
    /\ api = "dialing"
    /\ \/ worker = "serving" /\ api' = "opening" /\ UNCHANGED exit
       \/ worker # "serving" /\ api' = "down" /\ exit' = [exit EXCEPT !["api"] = "failed"]
    /\ UNCHANGED <<worker, remote, job, late, known, follower, counts>>

\* store.New, which may not reach JetStream, and net.Listen.
ServeAPI ==
    /\ api = "opening"
    /\ \/ api' = "serving" /\ UNCHANGED exit
       \/ api' = "down" /\ exit' = [exit EXCEPT !["api"] = "failed"]
    /\ UNCHANGED <<worker, remote, job, late, known, follower, counts>>

\* Start: listen, dial the API, serve.
StartRemote ==
    /\ remote = "down" /\ starts < MaxStarts /\ starts' = starts + 1 /\ remote' = "dialing"
    /\ UNCHANGED <<worker, api, exit, job, late, known, follower, kills>>

DialJobService ==
    /\ remote = "dialing"
    /\ \/ api \in Accepting /\ remote' = "serving" /\ UNCHANGED exit
       \/ api \notin Accepting /\ remote' = "down" /\ exit' = [exit EXCEPT !["remote"] = "failed"]
    /\ UNCHANGED <<worker, api, job, late, known, follower, counts>>

-----------------------------------------------------------------------------
(* Calls.                                                                  *)

SubmitJob(j) ==
    /\ api \in Accepting /\ job[j] = "none"
    /\ job' = [job EXCEPT ![j] = "accepted"] /\ known' = known \cup {j}
    /\ late' = IF api = "serving" THEN late ELSE late \cup {j}
    /\ UNCHANGED <<procs, follower, counts>>

\* The last dispatch goroutine to end wakes Wait.
Ends(j, state) ==
    /\ job' = [job EXCEPT ![j] = state]
    /\ api' = IF api = "closing" /\ Busy = {j} THEN "woken" ELSE api
    /\ UNCHANGED <<worker, remote, exit, late, known, follower, counts>>

\* dispatch: the worker takes the job, or the call fails.
RunJob(j) ==
    /\ j \in Busy /\ job[j] = "accepted"
    /\ \/ /\ worker = "serving" /\ job' = [job EXCEPT ![j] = "running"]
          /\ UNCHANGED <<procs, late, known, follower, counts>>
       \/ worker # "serving" /\ Ends(j, "failed")

JobEnds(j) == j \in Busy /\ job[j] = "running" /\ \E state \in Terminal : Ends(j, state)

\* A follower asks the API, or xrunner-remote, whose call waits until the API is there.
StreamJobLogs ==
    /\ follower.at = "idle"
    /\ \E j \in Jobs :
         /\ job[j] # "none"
         /\ \/ /\ remote = "serving"
               /\ follower' = [at |-> "waiting", via |-> "remote", of |-> j]
            \/ /\ api \in Accepting
               /\ follower' = [at |-> IF j \in known THEN "open" ELSE "cut", via |-> "api", of |-> j]
    /\ UNCHANGED <<procs, job, late, known, counts>>

Forward ==
    /\ follower.at = "waiting" /\ api \in Accepting
    /\ Follows(IF follower.of \in known THEN "open" ELSE "cut")
    /\ UNCHANGED <<procs, job, late, known, counts>>

\* The job has ended and its streams are closed; the proxy returns nil on io.EOF.
LogsEnd ==
    /\ Open /\ job[follower.of] \in Terminal /\ Follows("ended")
    /\ UNCHANGED <<procs, job, late, known, counts>>

\* The client goes away; the proxied call ends with Canceled.
Leave ==
    /\ follower.at \in {"waiting", "open"} /\ Follows("left")
    /\ UNCHANGED <<procs, job, late, known, counts>>

-----------------------------------------------------------------------------
(* Stopping.  A second signal finds NotifyContext still there and changes  *)
(* nothing.                                                                *)

\* The API goes, in whatever way, with its memory, calls and dispatch goroutines.
APIEnds(how, left) ==
    /\ api' = "down" /\ exit' = [exit EXCEPT !["api"] = how]
    /\ job' = [j \in Jobs |-> IF j \in Busy THEN left ELSE job[j]] /\ known' = {}
    /\ IF Open THEN Follows("cut") ELSE UNCHANGED follower

\* Mutant: Wait is not called.
SignalAPI_NoWait ==
    /\ api = "serving" /\ api' = "waited"
    /\ UNCHANGED <<worker, remote, exit, job, late, known, follower, counts>>

\* jobService.Close returns at once when there is nothing to wait for.
SignalAPI ==
    /\ api = "serving" /\ api' = IF Busy = {} THEN "waited" ELSE "closing"
    /\ UNCHANGED <<worker, remote, exit, job, late, known, follower, counts>>

\* The dial is given up, or GracefulStop comes before Serve: exit 1.
SignalStartingAPI ==
    /\ api \in {"dialing", "opening"} /\ APIEnds("failed", "lost")
    /\ UNCHANGED <<worker, remote, late, counts>>

\* Wait returns; it panics when the group is in use again.
WaitReturns ==
    /\ api = "woken"
    /\ \/ Busy = {} /\ api' = "waited" /\ UNCHANGED <<exit, job, known, follower>>
       \/ Busy # {} /\ APIEnds("panicked", "lost")
    /\ UNCHANGED <<worker, remote, late, counts>>

GracefulStopAPI ==
    /\ api = "waited" /\ api' = "graceful"
    /\ UNCHANGED <<worker, remote, exit, job, late, known, follower, counts>>

\* No call is open, or 5 s have passed: Stop.
APIStops ==
    /\ api = "graceful" /\ APIEnds("ok", "lost")
    /\ UNCHANGED <<worker, remote, late, counts>>

\* The worker waits for its jobs as long as they take.
SignalWorker ==
    /\ worker = "serving" /\ worker' = "graceful"
    /\ UNCHANGED <<api, remote, exit, job, late, known, follower, counts>>

WorkerStops ==
    /\ worker = "graceful" /\ \A j \in Busy : job[j] # "running"
    /\ worker' = "down" /\ exit' = [exit EXCEPT !["worker"] = "ok"]
    /\ UNCHANGED <<api, remote, job, late, known, follower, counts>>

SignalRemote ==
    /\ \/ remote = "serving" /\ remote' = "graceful" /\ UNCHANGED exit
       \/ remote = "dialing" /\ remote' = "down" /\ exit' = [exit EXCEPT !["remote"] = "failed"]
    /\ UNCHANGED <<worker, api, job, late, known, follower, counts>>

Proxied == follower.via = "remote" /\ follower.at \in {"waiting", "open"}

\* And xrunner-remote for its calls, those that wait for the API among them.
RemoteStops ==
    /\ remote = "graceful" /\ ~Proxied
    /\ remote' = "down" /\ exit' = [exit EXCEPT !["remote"] = "ok"]
    /\ UNCHANGED <<worker, api, job, late, known, follower, counts>>

Killed == kills < MaxKills /\ kills' = kills + 1 /\ UNCHANGED starts

\* The calls of the worker break, and dispatch stores its jobs as failed.
KillWorker ==
    /\ worker # "down" /\ Killed /\ worker' = "down" /\ exit' = [exit EXCEPT !["worker"] = "killed"]
    /\ LET hit == {j \in Busy : job[j] = "running"} IN
         /\ job' = [j \in Jobs |-> IF j \in hit THEN "failed" ELSE job[j]]
         /\ api' = IF api = "closing" /\ Busy = hit THEN "woken" ELSE api
    /\ UNCHANGED <<remote, late, known, follower>>

KillAPI == api # "down" /\ Killed /\ APIEnds("killed", "killed") /\ UNCHANGED <<worker, remote, late>>

KillRemote ==
    /\ remote # "down" /\ Killed /\ remote' = "down" /\ exit' = [exit EXCEPT !["remote"] = "killed"]
    /\ IF Proxied THEN Follows("cut") ELSE UNCHANGED follower
    /\ UNCHANGED <<worker, api, job, late, known>>

Starting == StartWorker \/ StartAPI \/ DialWorker \/ ServeAPI \/ StartRemote \/ DialJobService
Calls == StreamJobLogs \/ Forward \/ LogsEnd \/ Leave \/ \E j \in Jobs : SubmitJob(j) \/ RunJob(j) \/ JobEnds(j)
StopAPI == SignalAPI \/ SignalStartingAPI \/ WaitReturns \/ GracefulStopAPI \/ APIStops
Stopping == StopAPI \/ SignalWorker \/ WorkerStops \/ SignalRemote \/ RemoteStops
Killing == KillWorker \/ KillAPI \/ KillRemote

Next == Starting \/ Calls \/ Stopping \/ Killing

Spec == Init /\ [][Next]_vars

-----------------------------------------------------------------------------
\* An API that ends by itself loses only jobs it accepted after the signal, whatever the
\* others do meanwhile, and panics only over such a job (jobService.Close, cmd/api/main.go).
StopsKeepJobs ==
    /\ \A j \in Jobs : job[j] = "lost" => j \in late
    /\ exit["api"] = "panicked" => late # {}

\* Who is told the end of a log was told the truth: the job has ended (StreamJobLogs of
\* job_proxy.go), also when a daemon stopped underneath.
EndIsTheEnd == follower.at = "ended" => job[follower.of] \in Terminal
=============================================================================
