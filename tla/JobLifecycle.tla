---------------------------- MODULE JobLifecycle ----------------------------
(***************************************************************************)
(* What the control plane promises about a job, whatever the interleaving  *)
(* of goroutines and the failures of the worker: it is accepted once, runs *)
(* once and ends once; its log only ever grows, only while it runs, and is *)
(* frozen from the moment the job is reported finished.                    *)
(***************************************************************************)
EXTENDS Integers, Sequences

CONSTANT Jobs

VARIABLES
    status,  \* status[j]: the state GetJob reports
    log      \* log[j]: the chunks StreamJobLogs replays

vars == <<status, log>>

Init ==
    /\ status = [j \in Jobs |-> "absent"]
    /\ log = [j \in Jobs |-> <<>>]

Step(j, from, to) ==
    /\ status[j] = from
    /\ status' = [status EXCEPT ![j] = to]
    /\ UNCHANGED log

Accept(j) == Step(j, "absent", "accepted")
Start(j) == Step(j, "accepted", "running")
Finish(j) == \E final \in {"succeeded", "failed"} : Step(j, "running", final)

\* The log grows by one or more chunks behind those already there.
Emit(j) ==
    /\ status[j] = "running"
    /\ Len(log'[j]) > Len(log[j])
    /\ \A i \in 1..Len(log[j]) : log'[j][i] = log[j][i]
    /\ log' = [log EXCEPT ![j] = log'[j]]
    /\ UNCHANGED status

Next == \E j \in Jobs : Accept(j) \/ Start(j) \/ Finish(j) \/ Emit(j)

Spec == Init /\ [][Next]_vars

\* Once a job is in the system, it ends.
Live == \A j \in Jobs : (status[j] = "accepted") ~> (status[j] \in {"succeeded", "failed"})
=============================================================================
