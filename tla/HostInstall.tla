----------------------------- MODULE HostInstall -----------------------------
(***************************************************************************)
(* `xrunner ssh bootstrap' and `xrunner ssh uninstall' on one host         *)
(* (cmd/xrunner/ssh_bootstrap.go, ssh_uninstall.go): a shell script, fed   *)
(* over ssh and run with `set -e', stops the services, saves what is       *)
(* installed, replaces it piece by piece and starts it, and rolls back if  *)
(* it does not come up; the connection may break between any two steps.    *)
(* One command at a time; its run number is the version it installs.       *)
(***************************************************************************)
EXTENDS Integers

CONSTANTS
    MaxRuns, \* bound: bootstraps
    MaxCuts  \* bound: broken connections

VARIABLES
    health,  \* health[v]: what is wrong with the binaries of a version
    hasSS,   \* the host has ss, and ports can be looked at
    disk,    \* disk[k][s]: the version of a file in the system, 0 if missing
    backup,  \* backup[k][s]: what this run has saved
    before,  \* history: disk as the command found it
    want,    \* want[s]: systemd has been told to run the service
    unit,    \* unit[s]: off, dying or up
    runs,    \* runs[s]: the files the unit was started from
    home,    \* home[s]: binaries below ~/.xrunner
    homeUp,  \* homeUp[s]: the version that nohup started and that has the port
    op,      \* the command: its mode and the step it is at
    run,     \* bootstraps so far
    said,    \* how the last command ended
    cuts,    \* connections broken so far
    saved    \* the configuration names the host

system == <<disk, backup, before>>
services == <<want, unit, runs>>
user == <<home, homeUp>>
vars == <<health, hasSS, system, services, user, op, run, said, cuts, saved>>

Services == {"worker", "api", "remote"}
Kinds == {"bin", "env", "unit"}
None == [k \in Kinds |-> [s \in Services |-> 0]]
Order == <<"api", "worker", "remote">>

Init ==
    /\ health \in [1..MaxRuns -> {"good", "noexec", "dies"}] /\ hasSS \in BOOLEAN
    /\ disk = None /\ backup = None /\ before = None
    /\ want = [s \in Services |-> FALSE] /\ unit = [s \in Services |-> "off"]
    /\ runs = [s \in Services |-> <<0, 0, 0>>]
    /\ home = [s \in Services |-> 0] /\ homeUp = home
    /\ op = [mode |-> "none", at |-> "idle", n |-> 0]
    /\ run = 0 /\ said = "" /\ cuts = 0 /\ saved = FALSE

Goes(to, n) == op' = [op EXCEPT !.at = to, !.n = n]
Ends(with) == op' = [op EXCEPT !.at = "idle", !.n = 0] /\ said' = with
Keeps == UNCHANGED <<health, hasSS, run, cuts, saved>>

-----------------------------------------------------------------------------
(***************************************************************************)
(* systemd.  A unit is active from its start; a binary that dies is        *)
(* started again later, and never listens.                                 *)
(***************************************************************************)
Files(s) == <<disk["bin"][s], disk["env"][s], disk["unit"][s]>>
StartState(s) ==
    IF disk["bin"][s] = 0 \/ disk["unit"][s] = 0 THEN "off"
      ELSE IF health[disk["bin"][s]] = "good" THEN "up" ELSE "dying"

Dies(s) ==
    /\ unit[s] = "dying" /\ unit' = [unit EXCEPT ![s] = "off"]
    /\ UNCHANGED <<system, want, runs, user, op, said>> /\ Keeps

RestartOnFailure(s) ==
    /\ want[s] /\ unit[s] = "off" /\ StartState(s) # "off"
    /\ unit' = [unit EXCEPT ![s] = StartState(s)] /\ runs' = [runs EXCEPT ![s] = Files(s)]
    /\ UNCHANGED <<system, want, user, op, said>> /\ Keeps

StopUnits == /\ want' = [s \in Services |-> FALSE] /\ unit' = [s \in Services |-> "off"]
             /\ UNCHANGED runs
StartUnits == /\ want' = [s \in Services |-> disk["unit"][s] # 0]
              /\ unit' = [s \in Services |-> StartState(s)]
              /\ runs' = [s \in Services |-> Files(s)]

-----------------------------------------------------------------------------
(***************************************************************************)
(* Bootstrap: the local part builds the payload before the host is         *)
(* touched; then the script of renderRemoteSystemdInstallScript.           *)
(***************************************************************************)
Bootstrap ==
    /\ op.at = "idle" /\ run < MaxRuns /\ run' = run + 1 /\ said' = ""
    /\ \E m \in {"systemd", "user"} : op' = [mode |-> m, at |-> "unpack", n |-> 0]
    /\ before' = disk /\ backup' = None
    /\ UNCHANGED <<health, hasSS, disk, services, user, cuts, saved>>

\* The payload, the upload, the packages or the untarring fail.
Refused ==
    /\ op.at = "unpack" /\ Ends("failed")
    /\ UNCHANGED <<system, services, user>> /\ Keeps

StopServices ==
    /\ op.mode = "systemd" /\ op.at = "unpack" /\ Goes("backup", 0)
    /\ StopUnits /\ homeUp' = [s \in Services |-> 0]
    /\ UNCHANGED <<system, home, said>> /\ Keeps

BackUp ==
    /\ op.at = "backup" /\ Goes("bin", 1) /\ backup' = disk
    /\ UNCHANGED <<disk, before, services, user, said>> /\ Keeps

\* ensure_port_free_for_xrunner_remote: somebody else has the port.
PortTaken ==
    /\ op.at = "backup" /\ Ends("failed")
    /\ UNCHANGED <<system, services, user>> /\ Keeps

Next3(k) == CASE k = "bin" -> "tryout" [] k = "env" -> "unit" [] k = "unit" -> "restart"

InstallFile(k) ==
    /\ op.mode = "systemd" /\ op.at = k
    /\ disk' = [disk EXCEPT ![k][Order[op.n]] = run]
    /\ IF op.n < 3 THEN Goes(k, op.n + 1) ELSE Goes(Next3(k), 1)
    /\ UNCHANGED <<backup, before, services, user, said>> /\ Keeps

\* A binary that does not even print its help ends the script, without a rollback.
TryOut ==
    /\ op.at = "tryout"
    /\ IF health[run] = "noexec" THEN Ends("failed") ELSE Goes("env", 1) /\ UNCHANGED said
    /\ UNCHANGED <<system, services, user>> /\ Keeps

Restart ==
    /\ op.at = "restart" /\ Goes("await", 1) /\ StartUnits
    /\ UNCHANGED <<system, user, said>> /\ Keeps

\* check_unit: seen active once within five seconds, one unit after the other.
CheckUnit ==
    /\ op.at = "await"
    /\ \/ unit[Order[op.n]] # "off" /\ (IF op.n < 3 THEN Goes("await", op.n + 1) ELSE Goes("ports", 0))
       \/ unit[Order[op.n]] # "up" /\ Goes("roll", 0)
    /\ UNCHANGED <<system, services, user, said>> /\ Keeps

\* Mutant: the ports are not looked at.
WaitPorts_Skipped ==
    /\ op.at = "ports" /\ Ends("ok")
    /\ UNCHANGED <<system, services, user>> /\ Keeps

\* wait_port: without ss there is nothing to wait for.
WaitPorts ==
    /\ op.at = "ports"
    /\ IF hasSS /\ \E s \in Services : unit[s] # "up" THEN Goes("roll", 0) /\ UNCHANGED said
         ELSE Ends("ok")
    /\ UNCHANGED <<system, services, user>> /\ Keeps

\* rollback: what was saved is put back, kind by kind, and started.
RollBack ==
    /\ op.at = "roll"
    /\ \/ /\ op.n < 3 /\ Goes("roll", op.n + 1)
          /\ LET k == <<"bin", "env", "unit">>[op.n + 1] IN
             disk' = [disk EXCEPT ![k] = [s \in Services |->
                         IF backup[k][s] # 0 THEN backup[k][s] ELSE @[s]]]
          /\ UNCHANGED <<services, said>>
       \/ op.n = 3 /\ Ends("rolled") /\ StartUnits /\ UNCHANGED disk
    /\ UNCHANGED <<backup, before, user>> /\ Keeps

\* verifyRemotePrompt, after a script that went well: nothing is undone.
VerifyFails ==
    /\ op.at = "idle" /\ said = "ok" /\ said' = "unverified"
    /\ UNCHANGED <<health, hasSS, system, services, user, op, run, cuts, saved>>

WriteConfig ==
    /\ op.at = "idle" /\ said = "ok" /\ ~saved /\ saved' = TRUE
    /\ UNCHANGED <<health, hasSS, system, services, user, op, run, said, cuts>>

-----------------------------------------------------------------------------
(***************************************************************************)
(* The script of renderRemoteUserInstallScript: pid files, binaries below  *)
(* ~/.xrunner, nohup.  A process that finds its port taken ends, and       *)
(* wait_port is content with whoever has the port.                         *)
(***************************************************************************)
StopPidfiles ==
    /\ op.mode = "user" /\ op.at = "unpack" /\ Goes("install", 1)
    /\ homeUp' = [s \in Services |-> 0]
    /\ UNCHANGED <<system, services, home, said>> /\ Keeps

InstallHome ==
    /\ op.at = "install" /\ home' = [home EXCEPT ![Order[op.n]] = run]
    /\ IF op.n < 3 THEN Goes("install", op.n + 1) ELSE Goes("nohup", 1)
    /\ UNCHANGED <<system, services, homeUp, said>> /\ Keeps

StartHome ==
    LET s == <<"worker", "api", "remote">>[op.n] IN
    /\ op.at = "nohup"
    /\ homeUp' = [homeUp EXCEPT ![s] = IF unit[s] # "up" /\ health[run] = "good" THEN run ELSE 0]
    /\ IF unit[s] = "up" \/ homeUp'[s] # 0
         THEN IF op.n < 3 THEN Goes("nohup", op.n + 1) /\ UNCHANGED said ELSE Ends("ok")
         ELSE Ends("failed")
    /\ UNCHANGED <<system, services, home>> /\ Keeps

-----------------------------------------------------------------------------
(***************************************************************************)
(* Uninstall.  The mode is detected by the services that are active; the   *)
(* processes are killed by name before systemd is told to stop them.       *)
(***************************************************************************)
Uninstall ==
    /\ op.at = "idle" /\ run > 0 /\ said' = ""
    /\ \E m \in {"purge", "auto"} : op' = [mode |-> m, at |-> "detect", n |-> 0]
    /\ before' = disk
    /\ UNCHANGED <<health, hasSS, disk, backup, services, user, run, cuts, saved>>

DetectMode ==
    LET system_ == op.mode = "purge" \/ \E s \in Services : unit[s] # "off" IN
    /\ op.at = "detect"
    /\ op' = [op EXCEPT !.at = "kill", !.mode = IF system_ THEN "purge" ELSE "home"]
    /\ UNCHANGED <<system, services, user, said>> /\ Keeps

\* A unit that is killed by SIGTERM has not failed and is not started again.
KillByName ==
    /\ op.at = "kill" /\ Goes(IF op.mode = "purge" THEN "disable" ELSE "rmhome", 0)
    /\ unit' = [s \in Services |-> "off"] /\ homeUp' = [s \in Services |-> 0]
    /\ want' = [s \in Services |-> want[s] /\ unit[s] # "up"]
    /\ UNCHANGED <<system, runs, home, said>> /\ Keeps

StopDisable ==
    /\ op.at = "disable" /\ Goes("rm", 0) /\ StopUnits
    /\ UNCHANGED <<system, user, said>> /\ Keeps

PurgeSystemd ==
    /\ op.at = "rm"
    /\ disk' = [disk EXCEPT ![<<"unit", "env", "bin">>[op.n + 1]] = [s \in Services |-> 0]]
    /\ IF op.n < 2 THEN Goes("rm", op.n + 1) ELSE Goes("rmhome", 0)
    /\ UNCHANGED <<backup, before, services, user, said>> /\ Keeps

PurgeUser ==
    /\ op.at = "rmhome" /\ home' = [s \in Services |-> 0] /\ Ends("gone")
    /\ UNCHANGED <<system, services, homeUp>> /\ Keeps

\* The connection breaks, the script ends where it is.
Cut ==
    /\ op.at # "idle" /\ cuts < MaxCuts /\ cuts' = cuts + 1 /\ Ends("cut")
    /\ UNCHANGED <<health, hasSS, system, services, user, run, saved>>

SystemdScript ==
    \/ StopServices \/ PortTaken \/ BackUp \/ TryOut \/ Restart \/ CheckUnit \/ WaitPorts \/ RollBack
    \/ \E k \in Kinds : InstallFile(k)
UserScript == StopPidfiles \/ InstallHome \/ StartHome
UninstallScript == DetectMode \/ KillByName \/ StopDisable \/ PurgeSystemd \/ PurgeUser

Next ==
    \/ Bootstrap \/ Refused \/ SystemdScript \/ VerifyFails \/ WriteConfig \/ UserScript
    \/ Uninstall \/ UninstallScript \/ Cut
    \/ \E s \in Services : Dies(s) \/ RestartOnFailure(s)

Spec == Init /\ [][Next]_vars

-----------------------------------------------------------------------------
TypeOK ==
    /\ \A k \in Kinds, s \in Services : disk[k][s] \in 0..run /\ backup[k][s] \in 0..run
    /\ \A s \in Services : unit[s] \in {"off", "dying", "up"} /\ {home[s], homeUp[s]} \subseteq 0..run
    /\ said \in {"", "ok", "unverified", "failed", "rolled", "cut", "gone"}

Last(m, with) == op.at = "idle" /\ op.mode = m /\ said = with

(***************************************************************************)
(* "bootstrap ok" is the truth: every file is the new version's and, on a  *)
(* host where ports can be looked at, every service runs from the new      *)
(* files, whatever was there before (renderRemoteSystemdInstallScript).    *)
(***************************************************************************)
OkMeansNew ==
    Last("systemd", "ok") =>
       \A s \in Services :
          /\ Files(s) = <<run, run, run>>
          /\ hasSS => unit[s] = "up" /\ runs[s] = <<run, run, run>>

(***************************************************************************)
(* After a rollback every file the command found is there again, and if    *)
(* all of them were of a version that works, it runs again (rollback).     *)
(***************************************************************************)
RollbackRestores ==
    Last("systemd", "rolled") =>
       /\ \A k \in Kinds, s \in Services : before[k][s] # 0 => disk[k][s] = before[k][s]
       /\ \A v \in 1..run :
            health[v] = "good" /\ (\A k \in Kinds, s \in Services : before[k][s] = v) =>
               \A s \in Services : unit[s] = "up" /\ runs[s] = <<v, v, v>>

(***************************************************************************)
(* Services of two versions never serve together, except while a rollback  *)
(* is under way, as long as no connection broke (the services are stopped  *)
(* before the first file is replaced).                                     *)
(***************************************************************************)
NoMixtureRuns ==
    cuts = 0 /\ op.at # "roll" =>
       \A s, t \in Services : unit[s] = "up" /\ unit[t] = "up" => runs[s] = runs[t]

(***************************************************************************)
(* An uninstall of the system leaves no file and no process of it behind,  *)
(* not even one that systemd was about to start again (purge_systemd).     *)
(***************************************************************************)
PurgeIsComplete ==
    Last("purge", "gone") =>
       disk = None /\ \A s \in Services : unit[s] = "off" /\ ~want[s] /\ home[s] = 0 /\ homeUp[s] = 0
=============================================================================
