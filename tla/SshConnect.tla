----------------------------- MODULE SshConnect -----------------------------
(***************************************************************************)
(* How the `xrunner ssh' commands reach xrunner-remote on a host           *)
(* (cmd/xrunner/ssh.go and ssh_proxy.go): over a proxy's address, over a   *)
(* daemon on the local port, or through a tunnel of their own; a command   *)
(* that finds no daemon behind its tunnel copies the binary if it is asked *)
(* to, starts the daemon over ssh and connects once more.  Several         *)
(* commands may do so at once, and so start several daemons for one port.  *)
(***************************************************************************)
EXTENDS Integers

CONSTANTS
    Commands,    \* commands run at the same time, for one host
    Local,       \* a daemon answers on 127.0.0.1:7337
    Saved,       \* the selected context of the config names an sshHost
    UsrBin,      \* /usr/local/bin/xrunner-remote exists
    MaxFaults    \* bound: crashes of the daemon and broken tunnels

VARIABLES
    cmd,     \* cmd[c]: its flags: to (proxy, host, none), start, install, serve
    at,      \* at[c]: where it is
    fwd,     \* fwd[c]: its ssh process runs
    conn,    \* conn[c]: what its connection leads to
    bin,     \* ~/.xrunner/bin/xrunner-remote: missing, partial, whole
    port,    \* the daemon that holds the port: none, starting, ready
    origin,  \* the binary of that daemon
    faults   \* crashes and broken tunnels so far

vars == <<cmd, at, fwd, conn, bin, port, origin, faults>>

\* xrunner ssh proxy is the command that serves; it needs --host.
Flags ==
    {f \in [to : {"proxy", "host", "none"}, start : BOOLEAN, install : BOOLEAN, serve : BOOLEAN] :
        /\ f.serve => f.to = "host"
        /\ f.to # "host" => ~f.start /\ ~f.install
        /\ f.install => f.start}

Init ==
    /\ cmd \in [Commands -> Flags] /\ at = [c \in Commands |-> "start"]
    /\ fwd = [c \in Commands |-> FALSE] /\ conn = [c \in Commands |-> "none"]
    /\ bin \in {"missing", "whole"} /\ port \in {"none", "ready"}
    /\ origin = IF port = "ready" THEN "usr" ELSE "none"
    /\ faults = 0

Goes(c, to) == at' = [at EXCEPT ![c] = to]
remote == <<bin, port, origin, faults>>

-----------------------------------------------------------------------------
\* connect with a proxy: dialRemote tries for twelve seconds.
ConnectProxy(c) ==
    /\ at[c] = "start" /\ cmd[c].to = "proxy"
    /\ LET up == port = "ready" /\ \E d \in Commands : at[d] = "serve" /\ fwd[d] IN
         /\ Goes(c, IF up THEN "use" ELSE "failed")
         /\ conn' = [conn EXCEPT ![c] = IF up THEN "proxy" ELSE "none"]
    /\ UNCHANGED <<cmd, fwd, remote>>

\* Without a host: the local daemon, or what validateHostOrProxy says, which
\* knows the host of the config and then has no complaint.
ConnectLocal(c) ==
    /\ at[c] = "start" /\ cmd[c].to = "none"
    /\ Goes(c, CASE Local -> "use" [] ~Local /\ Saved -> "panic" [] OTHER -> "failed")
    /\ conn' = [conn EXCEPT ![c] = IF Local THEN "local" ELSE "none"]
    /\ UNCHANGED <<cmd, fwd, remote>>

StartTunnel(c) ==
    /\ at[c] = "start" /\ cmd[c].to = "host" /\ ~cmd[c].serve
    /\ Goes(c, "probe") /\ fwd' = [fwd EXCEPT ![c] = TRUE]
    /\ UNCHANGED <<cmd, conn, remote>>

\* ssh proxy makes sure of a daemon without looking for one.
StartProxy(c) ==
    /\ at[c] = "start" /\ cmd[c].serve
    /\ Goes(c, IF cmd[c].start THEN "ensure" ELSE "failed")
    /\ UNCHANGED <<cmd, fwd, conn, remote>>

\* dialRemoteOnce and pingRemote behind the first tunnel.
Probe(c) ==
    /\ at[c] = "probe"
    /\ \/ /\ port = "ready" /\ fwd[c] /\ Goes(c, "ping")
          /\ conn' = [conn EXCEPT ![c] = "host"] /\ UNCHANGED fwd
       \/ /\ port # "ready" \/ ~fwd[c]
          /\ Goes(c, IF cmd[c].start THEN "ensure" ELSE "failed")
          /\ fwd' = [fwd EXCEPT ![c] = FALSE] /\ UNCHANGED conn
    /\ UNCHANGED <<cmd, remote>>

-----------------------------------------------------------------------------
(***************************************************************************)
(* ensureRemoteDaemonViaSSH.  scp overwrites the binary in place, which    *)
(* fails while a daemon runs from it.                                      *)
(***************************************************************************)
Install(c) ==
    /\ at[c] = "ensure" /\ cmd[c].install
    /\ IF origin = "home" THEN Goes(c, "failed") /\ UNCHANGED bin
         ELSE Goes(c, "copy") /\ bin' = "partial"
    /\ UNCHANGED <<cmd, fwd, conn, port, origin, faults>>

Installed(c) ==
    /\ at[c] = "copy" /\ Goes(c, "check") /\ bin' = "whole"
    /\ UNCHANGED <<cmd, fwd, conn, port, origin, faults>>

CheckBin(c) ==
    /\ at[c] = "check" \/ (at[c] = "ensure" /\ ~cmd[c].install)
    /\ Goes(c, IF bin # "missing" THEN "home" ELSE IF UsrBin THEN "usr" ELSE "failed")
    /\ UNCHANGED <<cmd, fwd, conn, remote>>

\* nohup: a second daemon cannot have the port, and a part of a binary does not run.
StartDaemon(c) ==
    /\ at[c] \in {"home", "usr"} /\ Goes(c, "await")
    /\ IF port = "none" /\ (at[c] = "home" => bin = "whole")
         THEN port' = "starting" /\ origin' = at[c]
         ELSE UNCHANGED <<port, origin>>
    /\ UNCHANGED <<cmd, fwd, conn, bin, faults>>

\* Mutant: a daemon that is not yet ready is given up.
AwaitPort_Ready(c) ==
    /\ at[c] = "await"
    /\ IF port = "ready"
         THEN Goes(c, IF cmd[c].serve THEN "forward" ELSE "dial") /\ fwd' = [fwd EXCEPT ![c] = TRUE]
         ELSE Goes(c, "failed") /\ UNCHANGED fwd
    /\ UNCHANGED <<cmd, conn, remote>>

\* The script looks at the port, whoever holds it, 25 times.
AwaitPort(c) ==
    /\ at[c] = "await"
    /\ IF port # "none"
         THEN Goes(c, IF cmd[c].serve THEN "forward" ELSE "dial") /\ fwd' = [fwd EXCEPT ![c] = TRUE]
         ELSE Goes(c, "failed") /\ UNCHANGED fwd
    /\ UNCHANGED <<cmd, conn, remote>>

\* connect's second dial, within twelve seconds.
Dial(c) ==
    /\ at[c] = "dial"
    /\ \/ /\ port = "ready" /\ fwd[c]
          /\ Goes(c, "ping") /\ conn' = [conn EXCEPT ![c] = "host"] /\ UNCHANGED fwd
       \/ /\ port = "none" \/ ~fwd[c]
          /\ Goes(c, "failed") /\ fwd' = [fwd EXCEPT ![c] = FALSE] /\ UNCHANGED conn
    /\ UNCHANGED <<cmd, remote>>

\* The proxy waits for its port, and pings without minding the answer.
Forward(c) ==
    /\ at[c] = "forward" /\ Goes(c, IF fwd[c] THEN "serve" ELSE "failed")
    /\ UNCHANGED <<cmd, fwd, conn, remote>>

\* Every command but those with a proxy pings before it begins.
Ping(c) ==
    /\ at[c] = "ping"
    /\ IF port = "ready" /\ fwd[c] THEN Goes(c, "use") /\ UNCHANGED <<fwd, conn>>
         ELSE /\ Goes(c, "failed") /\ fwd' = [fwd EXCEPT ![c] = FALSE]
              /\ conn' = [conn EXCEPT ![c] = "none"]
    /\ UNCHANGED <<cmd, remote>>

\* The command is done, or interrupted: cleanup, or the end of ctx.
Ends(c) ==
    /\ at[c] \in {"use", "serve"} /\ Goes(c, "done")
    /\ fwd' = [fwd EXCEPT ![c] = FALSE] /\ conn' = [conn EXCEPT ![c] = "none"]
    /\ UNCHANGED <<cmd, remote>>

-----------------------------------------------------------------------------
DaemonIsReady ==
    /\ port = "starting" /\ port' = "ready"
    /\ UNCHANGED <<cmd, at, fwd, conn, bin, origin, faults>>

Fault ==
    /\ faults < MaxFaults /\ faults' = faults + 1
    /\ \/ port # "none" /\ port' = "none" /\ origin' = "none" /\ UNCHANGED fwd
       \/ \E c \in Commands : fwd[c] /\ fwd' = [fwd EXCEPT ![c] = FALSE] /\ UNCHANGED <<port, origin>>
    /\ UNCHANGED <<cmd, at, conn, bin>>

Connect(c) == ConnectProxy(c) \/ ConnectLocal(c) \/ StartTunnel(c) \/ Probe(c) \/ Dial(c)
EnsureRemoteDaemonViaSSH(c) == Install(c) \/ Installed(c) \/ CheckBin(c) \/ StartDaemon(c) \/ AwaitPort(c)

Next ==
    \/ \E c \in Commands :
         Connect(c) \/ EnsureRemoteDaemonViaSSH(c) \/ StartProxy(c) \/ Forward(c) \/ Ping(c) \/ Ends(c)
    \/ DaemonIsReady \/ Fault

Spec == Init /\ [][Next]_vars

-----------------------------------------------------------------------------
Ended(c) == at[c] \in {"failed", "done", "panic"}

TypeOK ==
    /\ cmd \in [Commands -> Flags] /\ fwd \in [Commands -> BOOLEAN]
    /\ conn \in [Commands -> {"none", "proxy", "local", "host"}]
    /\ port = "none" <=> origin = "none"

\* Whatever fails on the way, no ssh process and no connection outlives its
\* command, and a tunnel that was opened for one is still its own (cleanup).
NothingIsLeft ==
    \A c \in Commands :
       /\ Ended(c) => ~fwd[c] /\ conn[c] = "none"
       /\ conn[c] = "host" => at[c] \in {"ping", "use"}

(***************************************************************************)
(* Commands that find the daemon down at once start it together: one has   *)
(* the port, and none fails for it.  A command that may start the daemon   *)
(* fails only without a binary, for a crash or a broken tunnel, or because *)
(* another one is copying the binary.                                      *)
(***************************************************************************)
StartingIsShared ==
    \A c \in Commands :
       cmd[c].start /\ at[c] = "failed" =>
          \/ faults > 0
          \/ \E d \in Commands : cmd[d].install
          \/ bin = "missing" /\ ~UsrBin
=============================================================================
