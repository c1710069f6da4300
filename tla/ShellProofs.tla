---------------------------- MODULE ShellProofs -----------------------------
(***************************************************************************)
(* Proofs about the commands of xrunner ssh and its chat: how they reach   *)
(* and install the daemon, and what they show of its shells and answers,   *)
(* for every value of their constants; the sections are as in              *)
(* RemoteProofs.                                                           *)
(***************************************************************************)
EXTENDS FiniteSets, FiniteSetTheorems, Integers, Sequences, SequencesExt,
        SequenceTheorems, WellFoundedInduction, TLAPS

CONSTANTS
    ConnectCommands, ConnectLocal, ConnectSaved, ConnectUsrBin,
    ConnectMaxFaults, InstallMaxRuns, InstallMaxCuts, DurableSmall,
    DurableSendCap, DurableDoneCap, DurableMaxLog, DurableMaxRuns,
    DurableMaxOthers, ExecQueueCap, ExecMaxBuf, ExecSizes, ExecMaxChunks,
    ChatCmds, ChatMaxLog, ChatMaxHooks, ChatMaxEvents, PrinterInteractive,
    PrinterTexts, PrinterMaxEvents

VARIABLES
    connectCmd, connectAt, connectFwd, connectConn, connectBin, connectPort,
    connectOrigin, connectFaults, installHealth, installHasSS, installDisk,
    installBackup, installBefore, installWant, installUnit, installRuns,
    installHome, installHomeUp, installOp, installRun, installSaid,
    installCuts, installSaved, durableMode, durableZstd, durableAt,
    durableLog, durableTail, durableFrom, durableShown, durableRd,
    durableWire, durableOwed, durableSendCh, durableAcked, durableRun,
    durableWait, durableCompletedCh, durableDropped, durableOthers,
    execShared, execTool, execSaid, execCode, execWire, execPc, execStatus,
    execCh, execBuf, execSize, execPrinted, execOpen, chatQuiet, chatPrintMu,
    chatMu, chatMain, chatRecvLoop, chatEvents, chatLeft, chatHooks, chatRun,
    chatBegin, chatEnd, chatLog, chatWire, chatByID, chatWaiters, chatTold,
    chatReplay, printerMu, printerRpc, printerEv, printerReceived,
    printerSpinning, printerActive, printerFull, printerLine, printerDeltas

Connect == INSTANCE SshConnect WITH
    Commands <- ConnectCommands, Local <- ConnectLocal, Saved <- ConnectSaved,
    UsrBin <- ConnectUsrBin, MaxFaults <- ConnectMaxFaults, cmd <- connectCmd,
    at <- connectAt, fwd <- connectFwd, conn <- connectConn,
    bin <- connectBin, port <- connectPort, origin <- connectOrigin,
    faults <- connectFaults

Install == INSTANCE HostInstall WITH
    MaxRuns <- InstallMaxRuns, MaxCuts <- InstallMaxCuts,
    health <- installHealth, hasSS <- installHasSS, disk <- installDisk,
    backup <- installBackup, before <- installBefore, want <- installWant,
    unit <- installUnit, runs <- installRuns, home <- installHome,
    homeUp <- installHomeUp, op <- installOp, run <- installRun,
    said <- installSaid, cuts <- installCuts, saved <- installSaved

Durable == INSTANCE ShellClient WITH
    Small <- DurableSmall, SendCap <- DurableSendCap,
    DoneCap <- DurableDoneCap, MaxLog <- DurableMaxLog,
    MaxRuns <- DurableMaxRuns, MaxOthers <- DurableMaxOthers,
    mode <- durableMode, zstd <- durableZstd, at <- durableAt,
    log <- durableLog, tail <- durableTail, from <- durableFrom,
    shown <- durableShown, rd <- durableRd, wire <- durableWire,
    owed <- durableOwed, sendCh <- durableSendCh, acked <- durableAcked,
    run <- durableRun, wait <- durableWait, completedCh <- durableCompletedCh,
    dropped <- durableDropped, others <- durableOthers

Exec == INSTANCE SshExec WITH
    QueueCap <- ExecQueueCap, MaxBuf <- ExecMaxBuf, Sizes <- ExecSizes,
    MaxChunks <- ExecMaxChunks, shared <- execShared, tool <- execTool,
    said <- execSaid, code <- execCode, wire <- execWire, pc <- execPc,
    status <- execStatus, ch <- execCh, buf <- execBuf, size <- execSize,
    printed <- execPrinted, open <- execOpen

Chat == INSTANCE ChatShell WITH
    Cmds <- ChatCmds, MaxLog <- ChatMaxLog, MaxHooks <- ChatMaxHooks,
    MaxEvents <- ChatMaxEvents, quiet <- chatQuiet, printMu <- chatPrintMu,
    mu <- chatMu, main <- chatMain, recvLoop <- chatRecvLoop,
    events <- chatEvents, left <- chatLeft, hooks <- chatHooks,
    run <- chatRun, begin <- chatBegin, end <- chatEnd, log <- chatLog,
    wire <- chatWire, byID <- chatByID, waiters <- chatWaiters,
    told <- chatTold, replay <- chatReplay

Printer == INSTANCE ChatPrinter WITH
    Interactive <- PrinterInteractive, Texts <- PrinterTexts,
    MaxEvents <- PrinterMaxEvents, mu <- printerMu, rpc <- printerRpc,
    ev <- printerEv, received <- printerReceived, spinning <- printerSpinning,
    active <- printerActive, full <- printerFull, line <- printerLine,
    deltas <- printerDeltas

-----------------------------------------------------------------------------
(***************************************************************************)
(* Proofs about SshConnect, for any set of commands and any number of      *)
(* faults: what a command holds at each of its steps, and what it may count*)
(* on as long as nothing has gone wrong.                                   *)
(***************************************************************************)

ConnectPlaces == {"start", "probe", "ensure", "copy", "check", "home", "usr", "await", "dial",
  "forward", "ping",
           "use", "serve", "done", "failed", "panic"}

ConnectTypes ==
    /\ connectCmd \in [ConnectCommands -> Connect!Flags] /\
         connectAt \in [ConnectCommands -> ConnectPlaces]
    /\ connectFwd \in [ConnectCommands -> BOOLEAN] /\
         connectConn \in [ConnectCommands -> {"none", "proxy", "local", "host"}]
    /\ connectBin \in {"missing", "partial", "whole"} /\
         connectPort \in {"none", "starting", "ready"}
    /\ connectOrigin \in {"none", "home", "usr"} /\
         (connectPort = "none" <=> connectOrigin = "none") /\ connectFaults \in Nat

\* What a command holds where it is.
ConnectHolding(c) ==
    /\ connectFwd[c] => connectAt[c] \in {"probe", "dial", "forward", "ping", "use", "serve"}
    /\ connectConn[c] # "none" => connectAt[c] \in {"ping", "use"}
    /\ connectAt[c] \in {"copy", "check"} => connectCmd[c].install

\* Nothing has gone wrong that a command could not help.
ConnectSmooth == connectFaults = 0 /\ (\A d \in ConnectCommands : ~connectCmd[d].install) /\
  (connectBin # "missing" \/ ConnectUsrBin)

\* What a command may count on then.
ConnectOnItsWay(c) ==
    /\ connectAt[c] \notin {"copy", "check"}
    /\ connectAt[c] \in {"probe", "dial", "forward", "ping"} => connectFwd[c]
    /\ connectAt[c] = "home" => connectBin = "whole"
    /\ connectAt[c] \in {"await", "dial", "forward"} => connectPort # "none"
    /\ connectAt[c] = "ping" => connectPort = "ready"
    /\ connectCmd[c].start => connectAt[c] # "failed"

ConnectShared == ConnectSmooth =>
  connectBin # "partial" /\ \A c \in ConnectCommands : ConnectOnItsWay(c)

ConnectInv == ConnectTypes /\ (\A c \in ConnectCommands : ConnectHolding(c)) /\ ConnectShared

\* Only a command for the host starts a daemon.
LEMMA ConnectFlagsFacts == \A f \in Connect!Flags : f.start \in BOOLEAN /\ f.install \in BOOLEAN /\
  (f.start => f.to = "host")
  BY DEF Connect!Flags

\* No command has begun.
LEMMA ConnectInitInv == ASSUME Connect!Init PROVE ConnectInv
  <1>1. ConnectTypes /\ \A c \in ConnectCommands : ConnectHolding(c)
    BY DEF Connect!Init, ConnectTypes, ConnectHolding, ConnectPlaces
  <1>2. ConnectShared
    BY DEF Connect!Init, ConnectShared, ConnectSmooth, ConnectOnItsWay
  <1>3. QED
    BY <1>1, <1>2 DEF ConnectInv

\* A command moves on and nothing else changes but what it holds.
LEMMA ConnectOwnStep ==
    ASSUME ConnectInv, NEW c \in ConnectCommands, NEW to \in ConnectPlaces, Connect!Goes(c, to),
             UNCHANGED <<connectCmd, connectBin, connectPort, connectOrigin, connectFaults>>,
           connectFwd' \in [ConnectCommands -> BOOLEAN],
             connectConn' \in [ConnectCommands -> {"none", "proxy", "local", "host"}],
           \A d \in ConnectCommands : d # c =>
             connectFwd'[d] = connectFwd[d] /\ connectConn'[d] = connectConn[d],
           ConnectHolding(c)', ConnectSmooth => ConnectOnItsWay(c)'
    PROVE  ConnectInv'
  <1>1. connectAt' \in [ConnectCommands -> ConnectPlaces] /\ \A d \in ConnectCommands : d # c =>
          connectAt'[d] = connectAt[d]
    BY DEF Connect!Goes, ConnectInv, ConnectTypes
  <1>2. ConnectTypes' /\ \A d \in ConnectCommands : ConnectHolding(d)'
    BY <1>1 DEF ConnectInv, ConnectTypes, ConnectHolding
  <1>3. ConnectShared'
    BY <1>1 DEF ConnectInv, ConnectShared, ConnectSmooth, ConnectOnItsWay
  <1>4. QED
    BY <1>2, <1>3 DEF ConnectInv

\* A connection through a proxy that runs.
LEMMA ConnectConnectProxyInv == ASSUME ConnectInv, NEW c \in ConnectCommands,
  Connect!ConnectProxy(c) PROVE ConnectInv'
  <1>1. PICK to \in {"use", "failed"}, w \in {"proxy", "none"} :
          Connect!Goes(c, to) /\ connectConn' = [connectConn EXCEPT ![c] = w] /\ (w = "proxy" =>
            to = "use")
    <2> DEFINE up == connectPort = "ready" /\ \E d \in ConnectCommands : connectAt[d] = "serve" /\
      connectFwd[d]
    <2>1. Connect!Goes(c, IF up THEN "use" ELSE "failed") /\
            connectConn' = [connectConn EXCEPT ![c] = IF up THEN "proxy" ELSE "none"]
      BY DEF Connect!ConnectProxy
    <2>2. QED
      BY <2>1
  <1>2. connectAt[c] = "start" /\ connectCmd[c].to = "proxy" /\
          UNCHANGED <<connectCmd, connectFwd, connectBin, connectPort, connectOrigin,
            connectFaults>>
    BY DEF Connect!ConnectProxy, Connect!remote
  <1>3. ConnectTypes /\ ConnectHolding(c)
    BY DEF ConnectInv
  <1>4. ~connectCmd[c].start
    BY <1>2, <1>3, ConnectFlagsFacts DEF ConnectTypes
  <1>5. connectAt'[c] = to /\ connectConn'[c] = w
    BY <1>1, <1>3 DEF Connect!Goes, ConnectTypes
  <1>6. ConnectHolding(c)' /\ ConnectOnItsWay(c)'
    BY <1>1, <1>2, <1>3, <1>4, <1>5 DEF ConnectHolding, ConnectOnItsWay
  <1>7. QED
    BY <1>1, <1>2, <1>3, <1>6, ConnectOwnStep DEF ConnectTypes, ConnectPlaces

\* A connection to this machine.
LEMMA ConnectConnectLocalInv == ASSUME ConnectInv, NEW c \in ConnectCommands,
  Connect!ConnectLocal(c) PROVE ConnectInv'
  <1>1. PICK to \in {"use", "failed", "panic"}, w \in {"local", "none"} :
          Connect!Goes(c, to) /\ connectConn' = [connectConn EXCEPT ![c] = w] /\ (w = "local" =>
            to = "use")
    <2>1. /\ Connect!Goes(c, CASE ConnectLocal -> "use" [] ~ConnectLocal /\
               ConnectSaved -> "panic" [] OTHER -> "failed")
          /\ connectConn' = [connectConn EXCEPT ![c] = IF ConnectLocal THEN "local" ELSE "none"]
      BY DEF Connect!ConnectLocal
    <2>2. QED
      BY <2>1
  <1>2. connectAt[c] = "start" /\ connectCmd[c].to = "none" /\
          UNCHANGED <<connectCmd, connectFwd, connectBin, connectPort, connectOrigin,
            connectFaults>>
    BY DEF Connect!ConnectLocal, Connect!remote
  <1>3. ConnectTypes /\ ConnectHolding(c)
    BY DEF ConnectInv
  <1>4. ~connectCmd[c].start
    BY <1>2, <1>3, ConnectFlagsFacts DEF ConnectTypes
  <1>5. connectAt'[c] = to /\ connectConn'[c] = w
    BY <1>1, <1>3 DEF Connect!Goes, ConnectTypes
  <1>6. ConnectHolding(c)' /\ ConnectOnItsWay(c)'
    BY <1>1, <1>2, <1>3, <1>4, <1>5 DEF ConnectHolding, ConnectOnItsWay
  <1>7. QED
    BY <1>1, <1>2, <1>3, <1>6, ConnectOwnStep DEF ConnectTypes, ConnectPlaces

\* A command for the host begins.
LEMMA ConnectStartsInv == ASSUME ConnectInv, NEW c \in ConnectCommands, Connect!StartTunnel(c) \/
  Connect!StartProxy(c) PROVE ConnectInv'
  <1>1. ConnectTypes /\ ConnectHolding(c)
    BY DEF ConnectInv
  <1>2. CASE Connect!StartTunnel(c)
    <2>1. /\ connectAt[c] = "start" /\ Connect!Goes(c, "probe") /\
               connectFwd' = [connectFwd EXCEPT ![c] = TRUE]
          /\ UNCHANGED <<connectCmd, connectConn, connectBin, connectPort, connectOrigin,
               connectFaults>>
      BY <1>2 DEF Connect!StartTunnel, Connect!remote
    <2>2. connectAt'[c] = "probe" /\ connectFwd'[c] /\ connectFwd' \in [ConnectCommands -> BOOLEAN]
      BY <1>1, <2>1 DEF Connect!Goes, ConnectTypes
    <2>3. ConnectHolding(c)' /\ ConnectOnItsWay(c)'
      BY <1>1, <2>1, <2>2 DEF ConnectHolding, ConnectOnItsWay
    <2>4. QED
      BY <1>1, <2>1, <2>2, <2>3, ConnectOwnStep DEF ConnectTypes, ConnectPlaces
  <1>3. CASE Connect!StartProxy(c)
    <2>1. PICK to \in {"ensure", "failed"} :
            /\ Connect!Goes(c, to) /\ (connectCmd[c].start => to = "ensure")
            /\ connectAt[c] = "start" /\
                 UNCHANGED <<connectCmd, connectFwd, connectConn, connectBin, connectPort,
                   connectOrigin, connectFaults>>
      BY <1>3 DEF Connect!StartProxy, Connect!remote
    <2>2. connectAt'[c] = to
      BY <1>1, <2>1 DEF Connect!Goes, ConnectTypes
    <2>3. ConnectHolding(c)' /\ ConnectOnItsWay(c)'
      BY <1>1, <2>1, <2>2 DEF ConnectHolding, ConnectOnItsWay
    <2>4. QED
      BY <1>1, <2>1, <2>2, <2>3, ConnectOwnStep DEF ConnectTypes, ConnectPlaces
  <1>4. QED
    BY <1>2, <1>3

\* A probe that fails gives its tunnel back.
LEMMA ConnectProbeInv == ASSUME ConnectInv, NEW c \in ConnectCommands, Connect!Probe(c)
  PROVE ConnectInv'
  <1>1. ConnectTypes /\ ConnectHolding(c)
    BY DEF ConnectInv
  <1>2. connectAt[c] = "probe" /\
          UNCHANGED <<connectCmd, connectBin, connectPort, connectOrigin, connectFaults>>
    BY DEF Connect!Probe, Connect!remote
  <1>3. CASE connectPort = "ready" /\ connectFwd[c] /\ Connect!Goes(c, "ping") /\
               connectConn' = [connectConn EXCEPT ![c] = "host"] /\ UNCHANGED connectFwd
    <2>1. connectAt'[c] = "ping" /\ connectConn'[c] = "host"
      BY <1>1, <1>3 DEF Connect!Goes, ConnectTypes
    <2>2. ConnectHolding(c)' /\ ConnectOnItsWay(c)'
      BY <1>1, <1>2, <1>3, <2>1 DEF ConnectHolding, ConnectOnItsWay
    <2>3. QED
      BY <1>1, <1>2, <1>3, <2>2, ConnectOwnStep DEF ConnectTypes, ConnectPlaces
  <1>4. CASE /\ Connect!Goes(c, IF connectCmd[c].start THEN "ensure" ELSE "failed")
             /\ connectFwd' = [connectFwd EXCEPT ![c] = FALSE] /\ UNCHANGED connectConn
    <2>1. PICK to \in {"ensure", "failed"} : Connect!Goes(c, to) /\ (connectCmd[c].start =>
            to = "ensure")
      BY <1>4
    <2>2. connectAt'[c] = to /\ ~connectFwd'[c] /\ connectFwd' \in [ConnectCommands -> BOOLEAN]
      BY <1>1, <1>4, <2>1 DEF Connect!Goes, ConnectTypes
    <2>3. ConnectHolding(c)' /\ ConnectOnItsWay(c)'
      BY <1>1, <1>2, <1>4, <2>1, <2>2 DEF ConnectHolding, ConnectOnItsWay
    <2>4. QED
      BY <1>1, <1>2, <1>4, <2>1, <2>2, <2>3, ConnectOwnStep DEF ConnectTypes, ConnectPlaces
  <1>5. QED
    BY <1>3, <1>4 DEF Connect!Probe

\* The binary is replaced only where a command asked for it.
LEMMA ConnectInstallsInv == ASSUME ConnectInv, NEW c \in ConnectCommands, Connect!Install(c) \/
  Connect!Installed(c) PROVE ConnectInv'
  <1>1. ConnectTypes /\ ConnectHolding(c)
    BY DEF ConnectInv
  <1>2. connectAt[c] \in {"ensure", "copy"} /\
          UNCHANGED <<connectCmd, connectFwd, connectConn, connectPort, connectOrigin,
            connectFaults>>
    BY DEF Connect!Install, Connect!Installed
  <1>3. connectCmd[c].install
    BY <1>1 DEF Connect!Install, Connect!Installed, ConnectHolding
  <1>4. PICK to \in {"failed", "copy", "check"} : Connect!Goes(c, to) /\
          connectBin' \in {connectBin, "partial", "whole"}
    BY DEF Connect!Install, Connect!Installed
  <1>5. connectAt' \in [ConnectCommands -> ConnectPlaces] /\ connectAt'[c] = to /\
          \A d \in ConnectCommands : d # c => connectAt'[d] = connectAt[d]
    BY <1>1, <1>4 DEF Connect!Goes, ConnectTypes, ConnectPlaces
  <1>6. ConnectTypes' /\ \A d \in ConnectCommands : ConnectHolding(d)'
    BY <1>1, <1>2, <1>3, <1>4, <1>5 DEF ConnectInv, ConnectTypes, ConnectHolding
  <1>7. ~ConnectSmooth'
    BY <1>2, <1>3 DEF ConnectSmooth
  <1>8. QED
    BY <1>6, <1>7 DEF ConnectInv, ConnectShared

\* There is a binary where nothing has gone wrong.
LEMMA ConnectCheckBinInv == ASSUME ConnectInv, NEW c \in ConnectCommands, Connect!CheckBin(c)
  PROVE ConnectInv'
  <1>1. ConnectTypes /\ ConnectHolding(c)
    BY DEF ConnectInv
  <1>2. PICK to \in {"home", "usr", "failed"} :
          /\ Connect!Goes(c, to) /\
               to = (IF connectBin # "missing" THEN "home" ELSE IF ConnectUsrBin THEN "usr" ELSE "failed")
          /\ connectAt[c] \in {"check", "ensure"}
          /\ UNCHANGED <<connectCmd, connectFwd, connectConn, connectBin, connectPort,
               connectOrigin, connectFaults>>
    BY DEF Connect!CheckBin, Connect!remote
  <1>3. connectAt'[c] = to
    BY <1>1, <1>2 DEF Connect!Goes, ConnectTypes, ConnectPlaces
  <1>4. ConnectHolding(c)'
    BY <1>1, <1>2, <1>3 DEF ConnectHolding
  <1>5. ConnectSmooth => ConnectOnItsWay(c)'
    BY <1>1, <1>2, <1>3 DEF ConnectInv, ConnectShared, ConnectTypes, ConnectSmooth, ConnectOnItsWay
  <1>6. QED
    BY <1>1, <1>2, <1>4, <1>5, ConnectOwnStep DEF ConnectTypes, ConnectPlaces

\* Only the first of the commands that start the daemon at once starts it.
LEMMA ConnectStartDaemonInv == ASSUME ConnectInv, NEW c \in ConnectCommands,
  Connect!StartDaemon(c) PROVE ConnectInv'
  <1>1. ConnectTypes /\ ConnectHolding(c)
    BY DEF ConnectInv
  <1>2. /\ connectAt[c] \in {"home", "usr"} /\ Connect!Goes(c, "await") /\
             UNCHANGED <<connectCmd, connectFwd, connectConn, connectBin, connectFaults>>
        /\ \/ connectPort = "none" /\ (connectAt[c] = "home" =>
                connectBin = "whole") /\ connectPort' = "starting" /\ connectOrigin' = connectAt[c]
           \/ ~(connectPort = "none" /\ (connectAt[c] = "home" =>
                connectBin = "whole")) /\ UNCHANGED <<connectPort, connectOrigin>>
    BY DEF Connect!StartDaemon
  <1>3. connectAt' \in [ConnectCommands -> ConnectPlaces] /\ connectAt'[c] = "await" /\
          \A d \in ConnectCommands : d # c => connectAt'[d] = connectAt[d]
    BY <1>1, <1>2 DEF Connect!Goes, ConnectTypes, ConnectPlaces
  <1>4. ConnectTypes' /\ \A d \in ConnectCommands : ConnectHolding(d)'
    BY <1>1, <1>2, <1>3 DEF ConnectInv, ConnectTypes, ConnectHolding
  <1>5. ConnectShared'
    BY <1>1, <1>2, <1>3 DEF ConnectInv, ConnectTypes, ConnectShared, ConnectSmooth, ConnectOnItsWay
  <1>6. QED
    BY <1>4, <1>5 DEF ConnectInv

\* The port is waited for until somebody has it, whoever that is.
LEMMA ConnectAwaitPortInv == ASSUME ConnectInv, NEW c \in ConnectCommands,
  Connect!AwaitPort(c) PROVE ConnectInv'
  <1>1. ConnectTypes /\ ConnectHolding(c)
    BY DEF ConnectInv
  <1>2. connectAt[c] = "await" /\
          UNCHANGED <<connectCmd, connectConn, connectBin, connectPort, connectOrigin,
            connectFaults>>
    BY DEF Connect!AwaitPort, Connect!remote
  <1>3. CASE connectPort # "none"
    <2>1. PICK to \in {"forward", "dial"} : Connect!Goes(c, to) /\
            connectFwd' = [connectFwd EXCEPT ![c] = TRUE]
      BY <1>3 DEF Connect!AwaitPort
    <2>2. connectAt'[c] = to /\ connectFwd'[c] /\ connectFwd' \in [ConnectCommands -> BOOLEAN]
      BY <1>1, <2>1 DEF Connect!Goes, ConnectTypes
    <2>3. ConnectHolding(c)' /\ ConnectOnItsWay(c)'
      BY <1>1, <1>2, <1>3, <2>2 DEF ConnectHolding, ConnectOnItsWay
    <2>4. QED
      BY <1>1, <1>2, <2>1, <2>2, <2>3, ConnectOwnStep DEF ConnectTypes, ConnectPlaces
  <1>4. CASE connectPort = "none"
    <2>1. Connect!Goes(c, "failed") /\ UNCHANGED connectFwd
      BY <1>4 DEF Connect!AwaitPort
    <2>2. connectAt'[c] = "failed"
      BY <1>1, <2>1 DEF Connect!Goes, ConnectTypes
    <2>3. ConnectHolding(c)'
      BY <1>1, <1>2, <2>1, <2>2 DEF ConnectHolding
    <2>4. ~ConnectSmooth
      BY <1>2, <1>4 DEF ConnectInv, ConnectShared, ConnectOnItsWay
    <2>5. QED
      BY <1>1, <1>2, <2>1, <2>3, <2>4, ConnectOwnStep DEF ConnectTypes, ConnectPlaces
  <1>5. QED
    BY <1>3, <1>4

\* A dial that fails gives its tunnel back.
LEMMA ConnectDialInv == ASSUME ConnectInv, NEW c \in ConnectCommands, Connect!Dial(c)
  PROVE ConnectInv'
  <1>1. ConnectTypes /\ ConnectHolding(c)
    BY DEF ConnectInv
  <1>2. connectAt[c] = "dial" /\
          UNCHANGED <<connectCmd, connectBin, connectPort, connectOrigin, connectFaults>>
    BY DEF Connect!Dial, Connect!remote
  <1>3. CASE connectPort = "ready" /\ connectFwd[c] /\ Connect!Goes(c, "ping") /\
               connectConn' = [connectConn EXCEPT ![c] = "host"] /\ UNCHANGED connectFwd
    <2>1. connectAt'[c] = "ping" /\ connectConn'[c] = "host"
      BY <1>1, <1>3 DEF Connect!Goes, ConnectTypes
    <2>2. ConnectHolding(c)' /\ (ConnectSmooth => ConnectOnItsWay(c)')
      BY <1>1, <1>2, <1>3, <2>1 DEF ConnectHolding, ConnectOnItsWay, ConnectInv, ConnectShared
    <2>3. QED
      BY <1>1, <1>2, <1>3, <2>2, ConnectOwnStep DEF ConnectTypes, ConnectPlaces
  <1>4. CASE /\ connectPort = "none" \/ ~connectFwd[c]
             /\ Connect!Goes(c, "failed") /\ connectFwd' = [connectFwd EXCEPT ![c] = FALSE] /\
                  UNCHANGED connectConn
    <2>1. connectAt'[c] = "failed" /\ ~connectFwd'[c] /\
            connectFwd' \in [ConnectCommands -> BOOLEAN]
      BY <1>1, <1>4 DEF Connect!Goes, ConnectTypes
    <2>2. ConnectHolding(c)'
      BY <1>1, <1>2, <1>4, <2>1 DEF ConnectHolding
    <2>3. ~ConnectSmooth
      BY <1>2, <1>4 DEF ConnectInv, ConnectShared, ConnectOnItsWay
    <2>4. QED
      BY <1>1, <1>2, <1>4, <2>1, <2>2, <2>3, ConnectOwnStep DEF ConnectTypes, ConnectPlaces
  <1>5. QED
    BY <1>3, <1>4 DEF Connect!Dial

\* A proxy serves through its tunnel.
LEMMA ConnectForwardInv == ASSUME ConnectInv, NEW c \in ConnectCommands, Connect!Forward(c)
  PROVE ConnectInv'
  <1>1. ConnectTypes /\ ConnectHolding(c)
    BY DEF ConnectInv
  <1>2. PICK to \in {"serve", "failed"} :
          /\ Connect!Goes(c, to) /\ (to = "serve" <=> connectFwd[c])
          /\ connectAt[c] = "forward" /\
               UNCHANGED <<connectCmd, connectFwd, connectConn, connectBin, connectPort,
                 connectOrigin, connectFaults>>
    BY DEF Connect!Forward, Connect!remote
  <1>3. connectAt'[c] = to
    BY <1>1, <1>2 DEF Connect!Goes, ConnectTypes, ConnectPlaces
  <1>4. ConnectHolding(c)' /\ (ConnectSmooth => ConnectOnItsWay(c)')
    BY <1>1, <1>2, <1>3 DEF ConnectHolding, ConnectInv, ConnectShared, ConnectOnItsWay
  <1>5. QED
    BY <1>1, <1>2, <1>4, ConnectOwnStep DEF ConnectTypes, ConnectPlaces

\* A daemon that does not answer is given up, with its tunnel and its connection.
LEMMA ConnectPingInv == ASSUME ConnectInv, NEW c \in ConnectCommands, Connect!Ping(c)
  PROVE ConnectInv'
  <1>1. ConnectTypes /\ ConnectHolding(c)
    BY DEF ConnectInv
  <1>2. connectAt[c] = "ping" /\
          UNCHANGED <<connectCmd, connectBin, connectPort, connectOrigin, connectFaults>>
    BY DEF Connect!Ping, Connect!remote
  <1>3. CASE connectPort = "ready" /\ connectFwd[c]
    <2>1. Connect!Goes(c, "use") /\ UNCHANGED <<connectFwd, connectConn>>
      BY <1>3 DEF Connect!Ping
    <2>2. connectAt'[c] = "use"
      BY <1>1, <2>1 DEF Connect!Goes, ConnectTypes
    <2>3. ConnectHolding(c)' /\ ConnectOnItsWay(c)'
      BY <1>2, <2>1, <2>2 DEF ConnectHolding, ConnectOnItsWay
    <2>4. QED
      BY <1>1, <1>2, <2>1, <2>3, ConnectOwnStep DEF ConnectTypes, ConnectPlaces
  <1>4. CASE ~(connectPort = "ready" /\ connectFwd[c])
    <2>1. Connect!Goes(c, "failed") /\ connectFwd' = [connectFwd EXCEPT ![c] = FALSE] /\
            connectConn' = [connectConn EXCEPT ![c] = "none"]
      BY <1>4 DEF Connect!Ping
    <2>2. connectAt'[c] = "failed" /\ ~connectFwd'[c] /\ connectConn'[c] = "none" /\
            connectFwd' \in [ConnectCommands -> BOOLEAN]
      BY <1>1, <2>1 DEF Connect!Goes, ConnectTypes
    <2>3. ConnectHolding(c)'
      BY <2>2 DEF ConnectHolding
    <2>4. ~ConnectSmooth
      BY <1>2, <1>4 DEF ConnectInv, ConnectShared, ConnectOnItsWay
    <2>5. QED
      BY <1>1, <1>2, <2>1, <2>2, <2>3, <2>4, ConnectOwnStep DEF ConnectTypes, ConnectPlaces
  <1>5. QED
    BY <1>3, <1>4

\* A command that ends gives back what it holds.
LEMMA ConnectEndsInv == ASSUME ConnectInv, NEW c \in ConnectCommands, Connect!Ends(c)
  PROVE ConnectInv'
  <1>1. ConnectTypes /\ ConnectHolding(c)
    BY DEF ConnectInv
  <1>2. /\ Connect!Goes(c, "done") /\ connectFwd' = [connectFwd EXCEPT ![c] = FALSE] /\
             connectConn' = [connectConn EXCEPT ![c] = "none"]
        /\ UNCHANGED <<connectCmd, connectBin, connectPort, connectOrigin, connectFaults>>
    BY DEF Connect!Ends, Connect!remote
  <1>3. connectAt'[c] = "done" /\ ~connectFwd'[c] /\ connectConn'[c] = "none" /\
          connectFwd' \in [ConnectCommands -> BOOLEAN]
    BY <1>1, <1>2 DEF Connect!Goes, ConnectTypes
  <1>4. ConnectHolding(c)' /\ ConnectOnItsWay(c)'
    BY <1>3 DEF ConnectHolding, ConnectOnItsWay
  <1>5. QED
    BY <1>1, <1>2, <1>3, <1>4, ConnectOwnStep DEF ConnectTypes, ConnectPlaces

\* A fault is what Smooth excludes.
LEMMA ConnectDaemonInv == ASSUME ConnectInv, Connect!DaemonIsReady \/ Connect!Fault
  PROVE ConnectInv'
  <1>1. CASE Connect!DaemonIsReady
    <2>1. ConnectTypes' /\ \A d \in ConnectCommands : ConnectHolding(d)'
      BY <1>1 DEF Connect!DaemonIsReady, ConnectInv, ConnectTypes, ConnectHolding
    <2>2. ConnectShared'
      BY <1>1 DEF Connect!DaemonIsReady, ConnectInv, ConnectShared, ConnectSmooth, ConnectOnItsWay
    <2>3. QED
      BY <2>1, <2>2 DEF ConnectInv
  <1>2. CASE Connect!Fault
    <2>1. /\ connectFaults' = connectFaults + 1 /\
               UNCHANGED <<connectCmd, connectAt, connectConn, connectBin>> /\
                 connectFwd' \in [ConnectCommands -> BOOLEAN]
          /\ \A c \in ConnectCommands : connectFwd'[c] => connectFwd[c]
          /\ connectPort' \in {"none", "starting", "ready"} /\
               connectOrigin' \in {"none", "home", "usr"}
          /\ (connectPort' = "none" <=> connectOrigin' = "none")
      BY <1>2 DEF Connect!Fault, ConnectInv, ConnectTypes
    <2>2. ConnectTypes' /\ \A d \in ConnectCommands : ConnectHolding(d)'
      BY <2>1 DEF ConnectInv, ConnectTypes, ConnectHolding
    <2>3. ~ConnectSmooth'
      BY <2>1 DEF ConnectInv, ConnectTypes, ConnectSmooth
    <2>4. QED
      BY <2>2, <2>3 DEF ConnectInv, ConnectShared
  <1>3. QED
    BY <1>1, <1>2

\* No step of a command disturbs another one.
LEMMA ConnectNextInv == ASSUME ConnectInv, [Connect!Next]_Connect!vars PROVE ConnectInv'
  <1>1. CASE UNCHANGED Connect!vars
    BY <1>1 DEF Connect!vars, ConnectInv, ConnectTypes, ConnectHolding, ConnectShared,
       ConnectSmooth, ConnectOnItsWay
  <1>2. CASE Connect!Next
    BY <1>2, ConnectConnectProxyInv, ConnectConnectLocalInv, ConnectStartsInv, ConnectProbeInv,
       ConnectInstallsInv, ConnectCheckBinInv, ConnectStartDaemonInv,
       ConnectAwaitPortInv, ConnectDialInv, ConnectForwardInv, ConnectPingInv, ConnectEndsInv,
       ConnectDaemonInv DEF Connect!Next, Connect!Connect, Connect!EnsureRemoteDaemonViaSSH
  <1>3. QED
    BY <1>1, <1>2

\* Where a command has ended it holds nothing, and without a fault it has not failed.
LEMMA ConnectMeaning == ASSUME ConnectInv
  PROVE Connect!TypeOK /\ Connect!NothingIsLeft /\ Connect!StartingIsShared
  <1>1. Connect!TypeOK
    BY DEF ConnectInv, ConnectTypes, Connect!TypeOK
  <1>2. Connect!NothingIsLeft
    BY DEF ConnectInv, ConnectTypes, ConnectHolding, Connect!Ended, Connect!NothingIsLeft
  <1>3. Connect!StartingIsShared
    BY DEF ConnectInv, ConnectTypes, ConnectShared, ConnectSmooth, ConnectOnItsWay,
       Connect!StartingIsShared
  <1>4. QED
    BY <1>1, <1>2, <1>3

\* Whatever happens to the host, a command that has ended leaves no ssh process and no
\* connection behind; and where nothing has gone wrong, commands that start the daemon at
\* once all reach it, however their steps interleave (connect, ensureRemoteDaemonViaSSH).
THEOREM ConnectHolds == Connect!Spec =>
  [](Connect!TypeOK /\ Connect!NothingIsLeft /\ Connect!StartingIsShared)
  <1>1. Connect!Init => ConnectInv
    BY ConnectInitInv
  <1>2. ConnectInv /\ [Connect!Next]_Connect!vars => ConnectInv'
    BY ConnectNextInv
  <1>3. QED
    BY <1>1, <1>2, ConnectMeaning, PTL DEF Connect!Spec

-----------------------------------------------------------------------------
(***************************************************************************)
(* Proofs about HostInstall, for any number of bootstraps and of broken    *)
(* connections: what is on the disk and what runs, place by place in the   *)
(* scripts.                                                                *)
(***************************************************************************)

InstallPlaces == {"idle", "unpack", "backup", "bin", "tryout", "env", "unit", "restart", "await",
  "ports", "roll",
           "install", "nohup", "detect", "kill", "disable", "rm", "rmhome"}
InstallModes == {"none", "systemd", "user", "purge", "auto", "home"}
InstallSteps == [mode : InstallModes, at : InstallPlaces, n : 0..3]
InstallDisks == [Install!Kinds -> [Install!Services -> 0..installRun]]
InstallSaidOK == installSaid \in {"", "ok", "unverified", "failed", "rolled", "cut", "gone"}

InstallTypes ==
    /\ installOp \in InstallSteps /\ installRun \in Nat /\ installCuts \in Nat
    /\ installDisk \in InstallDisks /\ installBackup \in InstallDisks /\
         installBefore \in InstallDisks
    /\ installWant \in [Install!Services -> BOOLEAN] /\
         installUnit \in [Install!Services -> {"off", "dying", "up"}]
    /\ installRuns \in [Install!Services -> Nat \X Nat \X Nat]
    /\ installHome \in [Install!Services -> 0..installRun] /\
         installHomeUp \in [Install!Services -> 0..installRun]
    /\ installOp.at \in {"bin", "env", "unit", "await", "install", "nohup"} => installOp.n \in 1..3
    /\ installOp.at = "rm" => installOp.n \in 0..2
    /\ installOp.at \in {"install", "nohup"} => installOp.mode = "user"

\* The services are off and stay off.
InstallQuiet == \A s \in Install!Services : installUnit[s] = "off" /\ ~installWant[s]

\* What has been replaced by the run that is under way.
InstallNew(k, i) == \A j \in 1..3 : j < i => installDisk[k][Install!Order[j]] = installRun
InstallAllNew(k) == \A s \in Install!Services : installDisk[k][s] = installRun
InstallServing == \A s \in Install!Services : installRuns[s] = <<installRun, installRun,
  installRun>>

InstallReplaced ==
    /\ installOp.at = "bin" => InstallNew("bin", installOp.n)
    /\ installOp.at \in {"tryout", "env", "unit", "restart", "await", "ports"} =>
         InstallAllNew("bin")
    /\ installOp.at = "env" => InstallNew("env", installOp.n)
    /\ installOp.at \in {"unit", "restart", "await", "ports"} => InstallAllNew("env")
    /\ installOp.at = "unit" => InstallNew("unit", installOp.n)
    /\ installOp.at \in {"restart", "await", "ports"} => InstallAllNew("unit")
    /\ installOp.at \in {"await", "ports"} => InstallServing
    /\ installOp.at \in {"backup", "bin", "tryout", "env", "unit", "restart"} => InstallQuiet

\* What can be put back, and what has been.
InstallBack(k) == \A s \in Install!Services : installBefore[k][s] # 0 =>
  installDisk[k][s] = installBefore[k][s]
InstallWorking == {"bin", "tryout", "env", "unit", "restart", "await", "ports", "roll"}

InstallKept ==
    /\ installOp.at \in {"unpack", "backup"} => installBefore = installDisk
    /\ installOp.at \in InstallWorking => installBackup = installBefore
    /\ installOp.at = "roll" =>
         /\ installOp.n >= 1 => InstallBack("bin")
         /\ installOp.n >= 2 => InstallBack("env")
         /\ installOp.n = 3 => InstallBack("unit")

\* As long as no connection broke, a kind that is not being replaced is of one version, and
\* services run from the files that are there.
InstallSame(d, k) == \A s, t \in Install!Services : d[k][s] = d[k][t]
InstallLevel ==
    installCuts = 0 =>
       /\ \A k \in Install!Kinds : installOp.at # k => InstallSame(installDisk, k)
       /\ installOp.at \in InstallWorking => \A k \in Install!Kinds : InstallSame(installBefore, k)
       /\ installOp.at # "roll" => \A s \in Install!Services : installUnit[s] = "up" =>
            installRuns[s] = Install!Files(s)

\* What an uninstall has removed.
InstallGone(k) == \A s \in Install!Services : installDisk[k][s] = 0
InstallDown == InstallQuiet /\ \A s \in Install!Services : installHomeUp[s] = 0
InstallPurged ==
    /\ installOp.at = "disable" => \A s \in Install!Services : installHomeUp[s] = 0
    /\ installOp.at = "rm" => InstallDown /\ (installOp.n >= 1 =>
         InstallGone("unit")) /\ (installOp.n >= 2 => InstallGone("env"))
    /\ installOp.at = "rmhome" /\ installOp.mode = "purge" =>
         InstallDown /\ \A k \in Install!Kinds : InstallGone(k)

\* What the end of a command says is kept until the next one.
InstallEnded == Install!OkMeansNew /\ Install!RollbackRestores /\ Install!PurgeIsComplete

InstallInv == InstallTypes /\ InstallReplaced /\ InstallKept /\ InstallLevel /\ InstallPurged /\
  InstallEnded /\ InstallSaidOK

\* A step goes to another place of the script.
LEMMA InstallGoesTo ==
    ASSUME installOp \in InstallSteps, NEW to \in InstallPlaces, NEW n \in 0..3, Install!Goes(to, n)
    PROVE  installOp' \in InstallSteps /\ installOp'.at = to /\ installOp'.n = n /\
             installOp'.mode = installOp.mode
  BY DEF Install!Goes, InstallSteps

\* A command ends.
LEMMA InstallEndsAt ==
    ASSUME installOp \in InstallSteps, NEW with, Install!Ends(with)
    PROVE  installOp' \in InstallSteps /\ installOp'.at = "idle" /\ installOp'.n = 0 /\
             installOp'.mode = installOp.mode /\ installSaid' = with
  <1>1. Install!Goes("idle", 0) /\ installSaid' = with
    BY Zenon DEF Install!Ends, Install!Goes
  <1>2. "idle" \in InstallPlaces /\ 0 \in 0..3
    BY DEF InstallPlaces
  <1>3. QED
    BY <1>1, <1>2, InstallGoesTo

\* The host before the first command.
LEMMA InstallInitInv == ASSUME Install!Init PROVE InstallInv
  <1>1. /\ installDisk = Install!None /\ installBackup = Install!None /\
             installBefore = Install!None
        /\ installWant = [s \in Install!Services |-> FALSE] /\
             installUnit = [s \in Install!Services |-> "off"]
        /\ installRuns = [s \in Install!Services |-> <<0, 0, 0>>]
        /\ installHome = [s \in Install!Services |-> 0] /\ installHomeUp = installHome
        /\ installOp = [mode |-> "none", at |-> "idle", n |-> 0] /\ installRun = 0 /\
             installCuts = 0
    BY Zenon DEF Install!Init
  <1>2. InstallSaidOK
    BY Zenon DEF Install!Init, InstallSaidOK
  <1>3. installOp \in InstallSteps /\ installOp.at = "idle" /\ installOp.mode = "none"
    BY <1>1 DEF InstallSteps, InstallPlaces, InstallModes
  <1>4. Install!None \in InstallDisks
    BY <1>1 DEF Install!None, InstallDisks
  <1>5. InstallTypes
    BY <1>1, <1>3, <1>4 DEF InstallTypes
  <1>6. InstallReplaced /\ InstallKept /\ InstallPurged
    BY <1>3 DEF InstallReplaced, InstallKept, InstallPurged, InstallWorking
  <1>7. InstallLevel
    BY <1>1, <1>3 DEF InstallLevel, InstallSame, Install!None, InstallWorking
  <1>8. InstallEnded
    BY <1>3 DEF InstallEnded, Install!OkMeansNew, Install!RollbackRestores,
       Install!PurgeIsComplete, Install!Last
  <1>9. QED
    BY <1>2, <1>5, <1>6, <1>7, <1>8 DEF InstallInv

\* A command that ends without saying what was done, where nothing is half replaced or after a
\* broken connection.
LEMMA InstallHaltsInv ==
    ASSUME InstallInv, installOp' \in InstallSteps, installOp'.at = "idle",
             installOp'.mode = installOp.mode,
           UNCHANGED <<installHealth, installHasSS, Install!system, Install!services, Install!user,
             installRun>>,
           \/ installCuts' = installCuts /\ installOp.at \notin Install!Kinds \cup {"roll"}
           \/ installCuts' = installCuts + 1,
           InstallSaidOK', installSaid' \notin {"ok", "rolled", "gone"}
    PROVE  InstallInv'
  <1>1. InstallTypes'
    <2>1. InstallDisks' = InstallDisks
      BY DEF InstallDisks
    <2>2. QED
      BY <2>1 DEF InstallInv, InstallTypes, Install!system, Install!services, Install!user
  <1>2. InstallReplaced' /\ InstallKept' /\ InstallPurged'
    BY DEF InstallReplaced, InstallKept, InstallPurged, InstallWorking
  <1>3. InstallLevel'
    <2>1. CASE installCuts' = installCuts /\ installOp.at \notin Install!Kinds \cup {"roll"}
      BY <2>1 DEF InstallInv, InstallLevel, InstallSame, InstallWorking, Install!Files,
         Install!system, Install!services
    <2>2. CASE installCuts' = installCuts + 1
      BY <2>2 DEF InstallInv, InstallTypes, InstallLevel
    <2>3. QED
      BY <2>1, <2>2
  <1>4. InstallEnded'
    BY DEF InstallEnded, Install!OkMeansNew, Install!RollbackRestores, Install!PurgeIsComplete,
       Install!Last
  <1>5. QED
    BY <1>1, <1>2, <1>3, <1>4 DEF InstallInv

\* A command begins.
LEMMA InstallBeginsInv ==
    ASSUME InstallInv, installOp' \in InstallSteps, installOp'.at \in {"unpack", "detect"},
             installOp.at = "idle",
           UNCHANGED <<installHealth, installHasSS, installDisk, Install!services, Install!user,
             installCuts>>, installRun' \in {installRun, installRun + 1},
           installBefore' = installDisk, installBackup' \in InstallDisks, InstallSaidOK'
    PROVE  InstallInv'
  <1>1. InstallTypes'
    <2>1. 0..installRun \subseteq 0..installRun'
      BY DEF InstallInv, InstallTypes
    <2>2. installDisk \in InstallDisks'
      BY <2>1 DEF InstallInv, InstallTypes, InstallDisks
    <2>3. installBackup' \in InstallDisks'
      BY <2>1 DEF InstallDisks
    <2>4. installHome \in [Install!Services -> 0..installRun'] /\
            installHomeUp \in [Install!Services -> 0..installRun']
      BY <2>1 DEF InstallInv, InstallTypes
    <2>5. QED
      BY <2>2, <2>3, <2>4 DEF InstallInv, InstallTypes, Install!services, Install!user
  <1>2. InstallReplaced' /\ InstallKept' /\ InstallPurged'
    BY DEF InstallReplaced, InstallKept, InstallPurged, InstallWorking
  <1>3. InstallLevel'
    BY DEF InstallInv, InstallLevel, InstallSame, InstallWorking, Install!Files, Install!Kinds,
       Install!services
  <1>4. InstallEnded'
    BY DEF InstallEnded, Install!OkMeansNew, Install!RollbackRestores, Install!PurgeIsComplete,
       Install!Last
  <1>5. QED
    BY <1>1, <1>2, <1>3, <1>4 DEF InstallInv

\* A bootstrap begins.
LEMMA InstallBootstrapInv == ASSUME InstallInv, Install!Bootstrap PROVE InstallInv'
  <1>1. /\ installOp.at = "idle" /\ installRun' = installRun + 1 /\ installBefore' = installDisk /\
             installBackup' = Install!None
        /\ \E m \in {"systemd", "user"} : installOp' = [mode |-> m, at |-> "unpack", n |-> 0]
        /\ UNCHANGED <<installHealth, installHasSS, installDisk, Install!services, Install!user,
             installCuts>>
    BY Zenon DEF Install!Bootstrap
  <1>2. InstallSaidOK'
    BY Zenon DEF Install!Bootstrap, InstallSaidOK
  <1>3. installOp' \in InstallSteps /\ installOp'.at = "unpack"
    BY <1>1 DEF InstallSteps, InstallPlaces, InstallModes
  <1>4. installBackup' \in InstallDisks
    BY <1>1 DEF InstallInv, InstallTypes, InstallDisks, Install!None
  <1>5. QED
    BY <1>1, <1>2, <1>3, <1>4, InstallBeginsInv

\* An uninstall begins.
LEMMA InstallUninstallInv == ASSUME InstallInv, Install!Uninstall PROVE InstallInv'
  <1>1. /\ installOp.at = "idle" /\ installBefore' = installDisk
        /\ \E m \in {"purge", "auto"} : installOp' = [mode |-> m, at |-> "detect", n |-> 0]
        /\ UNCHANGED <<installHealth, installHasSS, installDisk, installBackup, Install!services,
             Install!user, installRun, installCuts>>
    BY Zenon DEF Install!Uninstall
  <1>2. InstallSaidOK'
    BY Zenon DEF Install!Uninstall, InstallSaidOK
  <1>3. installOp' \in InstallSteps /\ installOp'.at = "detect"
    BY <1>1 DEF InstallSteps, InstallPlaces, InstallModes
  <1>4. installBackup' \in InstallDisks
    BY <1>1 DEF InstallInv, InstallTypes
  <1>5. QED
    BY <1>1, <1>2, <1>3, <1>4, InstallBeginsInv

\* The payload, the upload or the packages fail.
LEMMA InstallRefusedInv == ASSUME InstallInv, Install!Refused PROVE InstallInv'
  <1>1. installOp' \in InstallSteps /\ installOp'.at = "idle" /\
          installOp'.mode = installOp.mode /\ installSaid' = "failed"
    BY InstallEndsAt DEF Install!Refused, InstallInv, InstallTypes
  <1>2. InstallSaidOK'
    BY <1>1, Zenon DEF InstallSaidOK
  <1>3. QED
    BY <1>1, <1>2, InstallHaltsInv DEF Install!Refused, Install!Keeps, Install!Kinds

\* Somebody else has the port.
LEMMA InstallPortTakenInv == ASSUME InstallInv, Install!PortTaken PROVE InstallInv'
  <1>1. installOp' \in InstallSteps /\ installOp'.at = "idle" /\
          installOp'.mode = installOp.mode /\ installSaid' = "failed"
    BY InstallEndsAt DEF Install!PortTaken, InstallInv, InstallTypes
  <1>2. InstallSaidOK'
    BY <1>1, Zenon DEF InstallSaidOK
  <1>3. QED
    BY <1>1, <1>2, InstallHaltsInv DEF Install!PortTaken, Install!Keeps, Install!Kinds

\* The connection breaks.
LEMMA InstallCutInv == ASSUME InstallInv, Install!Cut PROVE InstallInv'
  <1>1. installOp' \in InstallSteps /\ installOp'.at = "idle" /\
          installOp'.mode = installOp.mode /\ installSaid' = "cut"
    BY InstallEndsAt DEF Install!Cut, InstallInv, InstallTypes
  <1>2. InstallSaidOK'
    BY <1>1, Zenon DEF InstallSaidOK
  <1>3. QED
    BY <1>1, <1>2, InstallHaltsInv DEF Install!Cut

\* The end was good and the call fails all the same.
LEMMA InstallVerifyFailsInv == ASSUME InstallInv, Install!VerifyFails PROVE InstallInv'
  <1>1. installOp.at = "idle" /\ installSaid' = "unverified"
        /\ UNCHANGED <<installHealth, installHasSS, Install!system, Install!services, Install!user,
             installOp, installRun, installCuts, installSaved>>
    BY DEF Install!VerifyFails
  <1>2. InstallSaidOK'
    BY <1>1, Zenon DEF InstallSaidOK
  <1>3. QED
    BY <1>1, <1>2, InstallHaltsInv DEF InstallInv, InstallTypes, Install!Kinds

\* Nothing of this changes.
LEMMA InstallFrameInv ==
    ASSUME InstallInv, UNCHANGED <<installHealth, installHasSS, Install!system, Install!services,
             Install!user, installOp, installRun, installSaid, installCuts>>
    PROVE  InstallInv'
  <1>1. InstallTypes' /\ InstallReplaced' /\ InstallKept' /\ InstallPurged' /\ InstallSaidOK'
    <2>1. InstallDisks' = InstallDisks
      BY DEF InstallDisks
    <2>2. InstallTypes'
      BY <2>1 DEF InstallInv, InstallTypes, Install!system, Install!services, Install!user
    <2>3. InstallSaidOK'
      BY Zenon DEF InstallInv, InstallSaidOK
    <2>4. InstallReplaced'
      BY DEF InstallInv, InstallReplaced, InstallNew, InstallAllNew, InstallServing, InstallQuiet,
         Install!system, Install!services
    <2>5. InstallKept' /\ InstallPurged'
      BY DEF InstallInv, InstallKept, InstallPurged, InstallBack, InstallGone, InstallDown,
         InstallQuiet, Install!system, Install!services, Install!user
    <2>6. QED
      BY <2>2, <2>3, <2>4, <2>5
  <1>2. InstallLevel'
    BY DEF InstallInv, InstallLevel, InstallSame, Install!Files, Install!system, Install!services
  <1>3. InstallEnded'
    BY DEF InstallInv, InstallEnded, Install!OkMeansNew, Install!RollbackRestores,
       Install!PurgeIsComplete, Install!Last, Install!Files, Install!system,
       Install!services, Install!user
  <1>4. QED
    BY <1>1, <1>2, <1>3 DEF InstallInv

\* The configuration is written.
LEMMA InstallWriteConfigInv == ASSUME InstallInv, Install!WriteConfig PROVE InstallInv'
  BY InstallFrameInv DEF Install!WriteConfig

\* What every step of a script leaves as it is, and that it has not ended yet.
LEMMA InstallGoesOn ==
    ASSUME InstallInv, installOp' \in InstallSteps, installOp'.at # "idle",
             UNCHANGED <<installSaid, installRun>>
    PROVE  InstallSaidOK' /\ InstallEnded' /\ InstallDisks' = InstallDisks
  <1>1. InstallSaidOK'
    BY Zenon DEF InstallInv, InstallSaidOK
  <1>2. InstallEnded'
    BY DEF InstallEnded, Install!OkMeansNew, Install!RollbackRestores, Install!PurgeIsComplete,
       Install!Last
  <1>3. QED
    BY <1>1, <1>2 DEF InstallDisks

\* The services stop.
LEMMA InstallStopServicesInv == ASSUME InstallInv, Install!StopServices PROVE InstallInv'
  <1>1. installOp' \in InstallSteps /\ installOp'.at = "backup" /\ installOp.at = "unpack" /\
          UNCHANGED <<installSaid, installRun, installCuts>>
    BY InstallGoesTo DEF Install!StopServices, InstallInv, InstallTypes, InstallPlaces,
       Install!Keeps
  <1>2. /\ InstallQuiet' /\ installWant' \in [Install!Services -> BOOLEAN]
        /\ installUnit' \in [Install!Services -> {"off", "dying", "up"}] /\
             installHomeUp' \in [Install!Services -> 0..installRun]
        /\ \A s \in Install!Services : installUnit'[s] = "off"
        /\ UNCHANGED <<installDisk, installBackup, installBefore, installHome, installRuns>>
    BY DEF Install!StopServices, Install!StopUnits, InstallQuiet, InstallInv, InstallTypes,
       Install!system
  <1>3. InstallTypes'
    BY <1>1, <1>2, InstallGoesOn DEF InstallInv, InstallTypes
  <1>4. InstallReplaced' /\ InstallKept' /\ InstallPurged'
    BY <1>1, <1>2 DEF InstallInv, InstallReplaced, InstallKept, InstallPurged, InstallWorking
  <1>5. InstallLevel'
    BY <1>1, <1>2 DEF InstallInv, InstallLevel, InstallSame, InstallWorking, Install!Kinds
  <1>6. QED
    BY <1>1, <1>3, <1>4, <1>5, InstallGoesOn DEF InstallInv

\* What is installed is saved.
LEMMA InstallBackUpInv == ASSUME InstallInv, Install!BackUp PROVE InstallInv'
  <1>1. /\ installOp' \in InstallSteps /\ installOp'.at = "bin" /\ installOp'.n = 1 /\
             installOp.at = "backup"
        /\ UNCHANGED <<installSaid, installRun, installCuts, installDisk, installBefore,
             Install!services, Install!user>> /\ installBackup' = installDisk
    BY InstallGoesTo DEF Install!BackUp, InstallInv, InstallTypes, InstallPlaces, Install!Keeps
  <1>2. InstallTypes'
    BY <1>1, InstallGoesOn DEF InstallInv, InstallTypes, Install!services, Install!user
  <1>3. InstallReplaced' /\ InstallKept' /\ InstallPurged'
    BY <1>1 DEF InstallInv, InstallReplaced, InstallKept, InstallPurged, InstallWorking,
       InstallNew, InstallQuiet, Install!services
  <1>4. InstallLevel'
    BY <1>1 DEF InstallInv, InstallLevel, InstallKept, InstallSame, InstallWorking, Install!Kinds,
       Install!Files, Install!services
  <1>5. QED
    BY <1>1, <1>2, <1>3, <1>4, InstallGoesOn DEF InstallInv

\* One file is replaced.
LEMMA InstallInstallFileInv == ASSUME InstallInv, NEW k \in Install!Kinds,
  Install!InstallFile(k) PROVE InstallInv'
  <1>1. /\ installOp.at = k /\ installOp.n \in 1..3 /\ InstallQuiet
        /\ installDisk' = [installDisk EXCEPT ![k][Install!Order[installOp.n]] = installRun]
        /\ UNCHANGED <<installSaid, installRun, installCuts, installBackup, installBefore,
             Install!services, Install!user>>
        /\ installBackup = installBefore
    BY DEF Install!InstallFile, InstallInv, InstallTypes, InstallReplaced, Install!Kinds,
       InstallKept, InstallWorking, Install!Keeps
  <1>2. /\ installOp' \in InstallSteps /\ installOp'.at \in {k, Install!Next3(k)} /\
             installOp'.n \in 1..3
        /\ installOp'.at = k => installOp'.n = installOp.n + 1
        /\ installOp'.at # k => installOp.n = 3 /\ installOp'.n = 1
    <2>1. Install!Next3(k) \in InstallPlaces /\ k \in InstallPlaces /\ Install!Next3(k) # k
      BY DEF Install!Kinds, Install!Next3, InstallPlaces
    <2>2. CASE installOp.n < 3
      BY <1>1, <2>1, <2>2, InstallGoesTo DEF Install!InstallFile, InstallInv, InstallTypes
    <2>3. CASE installOp.n = 3
      BY <1>1, <2>1, <2>3, InstallGoesTo DEF Install!InstallFile, InstallInv, InstallTypes
    <2>4. QED
      BY <1>1, <2>2, <2>3
  <1>3. /\ installDisk' \in InstallDisks
        /\ \A l \in Install!Kinds : l # k => installDisk'[l] = installDisk[l]
        /\ installDisk'[k][Install!Order[installOp.n]] = installRun
        /\ \A s \in Install!Services : s # Install!Order[installOp.n] =>
             installDisk'[k][s] = installDisk[k][s]
    <2>1. Install!Order[installOp.n] \in Install!Services
      BY <1>1 DEF Install!Order, Install!Services
    <2>2. QED
      BY <1>1, <2>1 DEF InstallInv, InstallTypes, InstallDisks
  <1>4. installOp'.at \in {"bin", "tryout", "env", "unit", "restart"}
    BY <1>2 DEF Install!Next3, Install!Kinds
  <1>5. InstallTypes'
    BY <1>1, <1>2, <1>3, <1>4, InstallGoesOn DEF InstallInv, InstallTypes, Install!services,
       Install!user
  <1>6. InstallReplaced'
    <2>1. \A j \in 1..3 : j <= installOp.n => installDisk'[k][Install!Order[j]] = installRun
      BY <1>1, <1>3 DEF InstallInv, InstallReplaced, InstallNew, Install!Kinds, Install!Order
    <2>2. installOp'.at # k => InstallAllNew(k)'
      BY <1>1, <1>2, <2>1 DEF InstallAllNew, Install!Services, Install!Order
    <2>3. \A l \in Install!Kinds : l # k /\ InstallAllNew(l) => InstallAllNew(l)'
      BY <1>1, <1>3 DEF InstallAllNew
    <2>4. installOp'.at = k => InstallNew(k, installOp.n)'
      BY <1>1, <1>2, <2>1 DEF InstallNew
    <2>5. InstallQuiet'
      BY <1>1 DEF InstallQuiet, Install!services
    <2>6. CASE k = "bin"
      BY <1>1, <1>2, <2>2, <2>4, <2>5, <2>6 DEF Install!Next3, InstallReplaced, InstallInv
    <2>7. CASE k = "env"
      <3>1. installOp'.at = "unit" => InstallNew("unit", installOp.n)'
        BY <1>2, <2>7 DEF InstallNew
      <3>2. QED
        BY <3>1, <1>1, <1>2, <2>2, <2>3, <2>4, <2>5, <2>7
           DEF Install!Next3, InstallReplaced, InstallInv, Install!Kinds
    <2>8. CASE k = "unit"
      BY <1>1, <1>2, <2>2, <2>3, <2>4, <2>5, <2>8 DEF Install!Next3, InstallReplaced, InstallInv,
         Install!Kinds
    <2>9. QED
      BY <2>6, <2>7, <2>8 DEF Install!Kinds
  <1>7. InstallKept' /\ InstallPurged'
    BY <1>1, <1>4 DEF InstallKept, InstallPurged, InstallWorking
  <1>8. InstallLevel'
    <2>1. installOp'.at # k => InstallSame(installDisk, k)'
      BY <1>6, <1>2, <1>4 DEF InstallReplaced, InstallAllNew, InstallSame, Install!Next3,
         Install!Kinds
    <2>2. \A l \in Install!Kinds : l # k /\ InstallSame(installDisk, l) =>
            InstallSame(installDisk', l)
      BY <1>3 DEF InstallSame
    <2>3. \A s \in Install!Services : installUnit'[s] # "up"
      BY <1>1 DEF InstallQuiet, Install!services
    <2>4. installCuts = 0 => \A l \in Install!Kinds : InstallSame(installBefore, l) /\ (l # k =>
            InstallSame(installDisk, l))
      BY <1>1 DEF InstallInv, InstallLevel, InstallWorking, Install!Kinds
    <2>5. QED
      BY <1>1, <2>1, <2>2, <2>3, <2>4 DEF InstallLevel, InstallSame
  <1>9. QED
    BY <1>1, <1>2, <1>4, <1>5, <1>6, <1>7, <1>8, InstallGoesOn DEF InstallInv

\* The binaries are tried out.
LEMMA InstallTryOutInv == ASSUME InstallInv, Install!TryOut PROVE InstallInv'
  <1>1. installOp.at = "tryout" /\
          UNCHANGED <<installHealth, installHasSS, Install!system, Install!services, Install!user,
            installRun, installCuts>>
    BY DEF Install!TryOut, Install!Keeps
  <1>2. CASE Install!Ends("failed")
    <2>1. installOp' \in InstallSteps /\ installOp'.at = "idle" /\
            installOp'.mode = installOp.mode /\ installSaid' = "failed"
      BY <1>2, InstallEndsAt DEF InstallInv, InstallTypes
    <2>2. InstallSaidOK'
      BY <2>1, Zenon DEF InstallSaidOK
    <2>3. QED
      BY <1>1, <2>1, <2>2, InstallHaltsInv DEF Install!Kinds
  <1>3. CASE Install!Goes("env", 1) /\ UNCHANGED installSaid
    <2>1. installOp' \in InstallSteps /\ installOp'.at = "env" /\ installOp'.n = 1
      BY <1>3, InstallGoesTo DEF InstallInv, InstallTypes, InstallPlaces
    <2>2. InstallTypes'
      BY <1>1, <1>3, <2>1, InstallGoesOn DEF InstallInv, InstallTypes, Install!system,
         Install!services, Install!user
    <2>3. InstallReplaced'
      BY <1>1, <2>1 DEF InstallInv, InstallReplaced, InstallNew, InstallAllNew, InstallQuiet,
         Install!system, Install!services
    <2>4. InstallKept' /\ InstallPurged'
      BY <1>1, <2>1 DEF InstallInv, InstallKept, InstallPurged, InstallWorking, Install!system
    <2>5. InstallLevel'
      BY <1>1, <2>1 DEF InstallInv, InstallLevel, InstallSame, InstallWorking, Install!Kinds,
         Install!Files, Install!system, Install!services
    <2>6. QED
      BY <1>1, <1>3, <2>1, <2>2, <2>3, <2>4, <2>5, InstallGoesOn DEF InstallInv
  <1>4. QED
    BY <1>2, <1>3 DEF Install!TryOut

\* systemd starts the units it has files of.
LEMMA InstallStartedUnits ==
    ASSUME InstallInv, Install!StartUnits
    PROVE  /\ installWant' \in [Install!Services -> BOOLEAN] /\
                installUnit' \in [Install!Services -> {"off", "dying", "up"}]
           /\ installRuns' \in [Install!Services -> Nat \X Nat \X Nat]
           /\ \A s \in Install!Services : installRuns'[s] = Install!Files(s) /\
                installUnit'[s] = Install!StartState(s)
  <1>1. \A s \in Install!Services : Install!StartState(s) \in {"off", "dying", "up"}
    BY DEF Install!StartState
  <1>2. \A s \in Install!Services : Install!Files(s) \in Nat \X Nat \X Nat
    BY DEF Install!Files, InstallInv, InstallTypes, InstallDisks, Install!Kinds
  <1>3. QED
    BY <1>1, <1>2 DEF Install!StartUnits

\* The new version is started.
LEMMA InstallRestartInv == ASSUME InstallInv, Install!Restart PROVE InstallInv'
  <1>1. /\ installOp' \in InstallSteps /\ installOp'.at = "await" /\ installOp'.n = 1 /\
             installOp.at = "restart"
        /\ UNCHANGED <<installSaid, installRun, installCuts, installDisk, installBefore,
             installBackup, Install!user>> /\ Install!StartUnits
    BY InstallGoesTo DEF Install!Restart, InstallInv, InstallTypes, InstallPlaces, Install!Keeps,
       Install!system
  <1>2. InstallTypes'
    BY <1>1, InstallStartedUnits, InstallGoesOn DEF InstallInv, InstallTypes, Install!user
  <1>3. InstallReplaced'
    <2>1. InstallAllNew("bin")' /\ InstallAllNew("env")' /\ InstallAllNew("unit")'
      BY <1>1 DEF InstallInv, InstallReplaced, InstallAllNew
    <2>2. InstallServing'
      BY <1>1, <2>1, InstallStartedUnits DEF InstallServing, InstallAllNew, Install!Files
    <2>3. QED
      BY <1>1, <2>1, <2>2 DEF InstallReplaced
  <1>4. InstallKept' /\ InstallPurged'
    BY <1>1 DEF InstallInv, InstallKept, InstallPurged, InstallWorking
  <1>5. InstallLevel'
    BY <1>1, InstallStartedUnits DEF InstallInv, InstallLevel, InstallSame, InstallWorking,
       Install!Kinds, Install!Files
  <1>6. QED
    BY <1>1, <1>2, <1>3, <1>4, <1>5, InstallGoesOn DEF InstallInv

\* A step that only goes on in the script, from where everything has been replaced.
LEMMA InstallStepsInv ==
    ASSUME InstallInv, installOp.at \in {"await", "ports"}, installOp' \in InstallSteps,
             installOp'.at \in {"await", "ports", "roll"},
           installOp'.at = "await" => installOp'.n \in 1..3, installOp'.at = "roll" =>
             installOp'.n = 0,
           UNCHANGED <<Install!system, Install!services, Install!user, installSaid, installRun,
             installCuts>>
    PROVE  InstallInv'
  <1>1. InstallTypes'
    BY InstallGoesOn DEF InstallInv, InstallTypes, Install!system, Install!services, Install!user
  <1>2. InstallReplaced'
    BY DEF InstallInv, InstallReplaced, InstallAllNew, InstallServing, Install!system,
       Install!services
  <1>3. InstallKept' /\ InstallPurged'
    BY DEF InstallInv, InstallKept, InstallPurged, InstallWorking, Install!system
  <1>4. InstallLevel'
    BY DEF InstallInv, InstallLevel, InstallSame, InstallWorking, Install!Kinds, Install!Files,
       Install!system, Install!services
  <1>5. QED
    BY <1>1, <1>2, <1>3, <1>4, InstallGoesOn DEF InstallInv

\* One unit is checked.
LEMMA InstallCheckUnitInv == ASSUME InstallInv, Install!CheckUnit PROVE InstallInv'
  <1>1. /\ installOp.at = "await" /\ installOp.n \in 1..3
        /\ UNCHANGED <<Install!system, Install!services, Install!user, installSaid, installRun,
             installCuts>>
        /\ \E to \in {"await", "ports", "roll"}, n \in 0..3 :
              /\ Install!Goes(to, n) /\ (to = "await" => n \in 1..3) /\ (to = "roll" => n = 0)
    BY DEF Install!CheckUnit, Install!Keeps, InstallInv, InstallTypes
  <1>2. PICK to \in {"await", "ports", "roll"}, n \in 0..3 :
           Install!Goes(to, n) /\ (to = "await" => n \in 1..3) /\ (to = "roll" => n = 0)
    BY <1>1
  <1>3. installOp' \in InstallSteps /\ installOp'.at = to /\ installOp'.n = n
    BY <1>2, InstallGoesTo DEF InstallInv, InstallTypes, InstallPlaces
  <1>4. QED
    BY <1>1, <1>2, <1>3, InstallStepsInv

\* The ports are looked at.
LEMMA InstallWaitPortsInv == ASSUME InstallInv, Install!WaitPorts PROVE InstallInv'
  <1>1. /\ installOp.at = "ports" /\ InstallAllNew("bin") /\ InstallAllNew("env") /\
             InstallAllNew("unit") /\ InstallServing
        /\ UNCHANGED <<installHealth, installHasSS, Install!system, Install!services, Install!user,
             installRun, installCuts>>
    BY DEF Install!WaitPorts, Install!Keeps, InstallInv, InstallReplaced
  <1>2. CASE Install!Goes("roll", 0) /\ UNCHANGED installSaid
    <2>1. installOp' \in InstallSteps /\ installOp'.at = "roll" /\ installOp'.n = 0
      BY <1>2, InstallGoesTo DEF InstallInv, InstallTypes, InstallPlaces
    <2>2. QED
      BY <1>1, <1>2, <2>1, InstallStepsInv
  <1>3. CASE Install!Ends("ok") /\ (installHasSS =>
               \A s \in Install!Services : installUnit[s] = "up")
    <2>1. installOp' \in InstallSteps /\ installOp'.at = "idle" /\
            installOp'.mode = installOp.mode /\ installSaid' = "ok"
      BY <1>3, InstallEndsAt DEF InstallInv, InstallTypes
    <2>2. InstallSaidOK'
      BY <2>1, Zenon DEF InstallSaidOK
    <2>3. InstallTypes'
      <3>1. InstallDisks' = InstallDisks
        BY <1>1 DEF InstallDisks
      <3>2. QED
        BY <1>1, <2>1, <3>1 DEF InstallInv, InstallTypes, Install!system, Install!services,
           Install!user
    <2>4. InstallReplaced' /\ InstallKept' /\ InstallPurged'
      BY <2>1 DEF InstallReplaced, InstallKept, InstallPurged, InstallWorking
    <2>5. InstallLevel'
      BY <1>1, <2>1 DEF InstallInv, InstallLevel, InstallSame, InstallWorking, Install!Kinds,
         Install!Files, Install!system, Install!services
    <2>6. Install!OkMeansNew'
      BY <1>1, <1>3 DEF Install!OkMeansNew, InstallAllNew, InstallServing, Install!Files,
         Install!system, Install!services
    <2>7. Install!RollbackRestores' /\ Install!PurgeIsComplete'
      BY <2>1 DEF Install!RollbackRestores, Install!PurgeIsComplete, Install!Last
    <2>8. QED
      BY <2>2, <2>3, <2>4, <2>5, <2>6, <2>7 DEF InstallInv, InstallEnded
  <1>4. QED
    BY <1>2, <1>3 DEF Install!WaitPorts

\* What was saved is put back, or started.
LEMMA InstallRollBackInv == ASSUME InstallInv, Install!RollBack PROVE InstallInv'
  <1>1. /\ installOp.at = "roll" /\ installOp.n \in 0..3 /\ installBackup = installBefore
        /\ UNCHANGED <<installHealth, installHasSS, installRun, installCuts, installBackup,
             installBefore, Install!user>>
        /\ installOp.n >= 1 => InstallBack("bin")
        /\ installOp.n >= 2 => InstallBack("env")
        /\ installOp.n = 3 => InstallBack("unit")
    BY DEF Install!RollBack, Install!Keeps, InstallInv, InstallTypes, InstallSteps, InstallKept,
       InstallWorking
  <1>2. CASE installOp.n < 3 /\ Install!Goes("roll", installOp.n + 1) /\
               UNCHANGED <<Install!services, installSaid>>
    <2>1. installOp' \in InstallSteps /\ installOp'.at = "roll" /\ installOp'.n = installOp.n + 1
      BY <1>1, <1>2, InstallGoesTo DEF InstallInv, InstallTypes, InstallPlaces
    <2>2. PICK k \in Install!Kinds :
            /\ installDisk' = [installDisk EXCEPT ![k] = [s \in Install!Services |->
                         IF installBackup[k][s] # 0 THEN installBackup[k][s] ELSE installDisk[k][s]]]
            /\ k = <<"bin", "env", "unit">>[installOp.n + 1]
      BY <1>1, <1>2 DEF Install!RollBack, Install!Kinds
    <2>3. /\ installDisk' \in InstallDisks
          /\ \A l \in Install!Kinds : l # k => installDisk'[l] = installDisk[l]
          /\ \A s \in Install!Services :
                installDisk'[k][s] =
                  IF installBackup[k][s] # 0 THEN installBackup[k][s] ELSE installDisk[k][s]
      BY <2>2 DEF InstallInv, InstallTypes, InstallDisks
    <2>4. InstallTypes'
      BY <1>1, <1>2, <2>1, <2>3, InstallGoesOn DEF InstallInv, InstallTypes, Install!services,
         Install!user
    <2>5. InstallReplaced' /\ InstallPurged'
      BY <2>1 DEF InstallReplaced, InstallPurged
    <2>6. InstallKept'
      <3>1. InstallBack(k)'
        BY <1>1, <2>3 DEF InstallBack
      <3>2. \A l \in Install!Kinds : l # k /\ InstallBack(l) => InstallBack(l)'
        BY <1>1, <2>3 DEF InstallBack
      <3>3. /\ installOp'.n >= 1 => InstallBack("bin")'
            /\ installOp'.n >= 2 => InstallBack("env")'
            /\ installOp'.n = 3 => InstallBack("unit")'
        BY <1>1, <1>2, <2>1, <2>2, <3>1, <3>2 DEF Install!Kinds
      <3>4. QED
        BY <1>1, <2>1, <3>3 DEF InstallKept
    <2>7. InstallLevel'
      <3>1. installCuts = 0 =>
              \A l \in Install!Kinds : InstallSame(installBefore, l) /\ InstallSame(installDisk, l)
        BY <1>1 DEF InstallInv, InstallLevel, InstallWorking, Install!Kinds
      <3>2. installCuts = 0 => \A l \in Install!Kinds : InstallSame(installDisk', l)
        BY <1>1, <2>3, <3>1 DEF InstallSame
      <3>3. QED
        BY <1>1, <2>1, <3>1, <3>2 DEF InstallLevel, InstallSame
    <2>8. QED
      BY <1>1, <1>2, <2>1, <2>4, <2>5, <2>6, <2>7, InstallGoesOn DEF InstallInv
  <1>3. CASE installOp.n = 3 /\ Install!Ends("rolled") /\ Install!StartUnits /\
               UNCHANGED installDisk
    <2>1. installOp' \in InstallSteps /\ installOp'.at = "idle" /\
            installOp'.mode = installOp.mode /\ installSaid' = "rolled"
      BY <1>3, InstallEndsAt DEF InstallInv, InstallTypes
    <2>2. InstallSaidOK'
      BY <2>1, Zenon DEF InstallSaidOK
    <2>3. InstallTypes'
      <3>1. InstallDisks' = InstallDisks
        BY <1>1 DEF InstallDisks
      <3>2. QED
        BY <1>1, <1>3, <2>1, <3>1, InstallStartedUnits DEF InstallInv, InstallTypes, Install!user
    <2>4. InstallReplaced' /\ InstallKept' /\ InstallPurged'
      BY <2>1 DEF InstallReplaced, InstallKept, InstallPurged, InstallWorking
    <2>5. InstallLevel'
      BY <1>1, <1>3, <2>1, InstallStartedUnits DEF InstallInv, InstallLevel, InstallSame,
         InstallWorking, Install!Kinds, Install!Files
    <2>6. Install!RollbackRestores'
      <3>1. \A k \in Install!Kinds : InstallBack(k)
        BY <1>1, <1>3 DEF Install!Kinds
      <3>2. ASSUME NEW v \in 1..installRun, installHealth[v] = "good",
                   \A k \in Install!Kinds, s \in Install!Services : installBefore[k][s] = v,
                     NEW s \in Install!Services
            PROVE  installUnit'[s] = "up" /\ installRuns'[s] = <<v, v, v>>
        <4>1. installDisk["bin"][s] = v /\ installDisk["env"][s] = v /\
                installDisk["unit"][s] = v /\ v # 0
          BY <3>1, <3>2 DEF InstallBack, Install!Kinds, InstallInv, InstallTypes
        <4>2. QED
          BY <1>3, <3>2, <4>1, InstallStartedUnits DEF Install!StartState, Install!Files
      <3>3. QED
        BY <1>1, <1>3, <3>1, <3>2 DEF Install!RollbackRestores, InstallBack
    <2>7. Install!OkMeansNew' /\ Install!PurgeIsComplete'
      BY <2>1 DEF Install!OkMeansNew, Install!PurgeIsComplete, Install!Last
    <2>8. QED
      BY <2>2, <2>3, <2>4, <2>5, <2>6, <2>7 DEF InstallInv, InstallEnded
  <1>4. QED
    BY <1>2, <1>3 DEF Install!RollBack

\* A step of the script below ~/.xrunner, which touches nothing of the system.
LEMMA InstallHomeInv ==
    ASSUME InstallInv, installOp.at \in {"unpack", "install", "nohup"},
           installOp' \in InstallSteps, installOp'.at \in {"install", "nohup"},
             installOp'.n \in 1..3, installOp'.mode = "user",
           installHome' \in [Install!Services -> 0..installRun],
             installHomeUp' \in [Install!Services -> 0..installRun],
           UNCHANGED <<Install!system, Install!services, installSaid, installRun, installCuts>>
    PROVE  InstallInv'
  <1>1. InstallTypes'
    BY InstallGoesOn DEF InstallInv, InstallTypes, Install!system, Install!services
  <1>2. InstallReplaced' /\ InstallKept' /\ InstallPurged'
    BY DEF InstallReplaced, InstallKept, InstallPurged, InstallWorking
  <1>3. InstallLevel'
    BY DEF InstallInv, InstallLevel, InstallSame, InstallWorking, Install!Kinds, Install!Files,
       Install!system, Install!services
  <1>4. QED
    BY <1>1, <1>2, <1>3, InstallGoesOn DEF InstallInv

\* The processes of the pid files are stopped.
LEMMA InstallStopPidfilesInv == ASSUME InstallInv, Install!StopPidfiles PROVE InstallInv'
  <1>1. installOp' \in InstallSteps /\ installOp'.at = "install" /\ installOp'.n = 1 /\
          installOp'.mode = "user"
    BY InstallGoesTo DEF Install!StopPidfiles, InstallInv, InstallTypes, InstallPlaces
  <1>2. /\ installOp.at = "unpack" /\
             UNCHANGED <<Install!system, Install!services, installSaid, installRun, installCuts,
               installHome>>
        /\ installHomeUp' \in [Install!Services -> 0..installRun]
    BY DEF Install!StopPidfiles, Install!Keeps, InstallInv, InstallTypes
  <1>3. QED
    BY <1>1, <1>2, InstallHomeInv DEF InstallInv, InstallTypes

\* One binary is replaced below ~/.xrunner.
LEMMA InstallInstallHomeInv == ASSUME InstallInv, Install!InstallHome PROVE InstallInv'
  <1>1. /\ installOp.at = "install" /\ installOp.n \in 1..3 /\ installOp.mode = "user"
        /\ UNCHANGED <<Install!system, Install!services, installSaid, installRun, installCuts,
             installHomeUp>>
        /\ installHome' \in [Install!Services -> 0..installRun]
    <2>1. /\ installOp.at = "install" /\ installOp.n \in 1..3 /\ installOp.mode = "user" /\
               installRun \in 0..installRun
          /\ installHome \in [Install!Services -> 0..installRun]
      BY DEF Install!InstallHome, InstallInv, InstallTypes
    <2>2. installHome' = [installHome EXCEPT ![Install!Order[installOp.n]] = installRun]
      BY DEF Install!InstallHome
    <2>3. installHome' \in [Install!Services -> 0..installRun]
      BY <2>1, <2>2
    <2>4. QED
      BY <2>1, <2>3 DEF Install!InstallHome, Install!Keeps
  <1>2. installOp' \in InstallSteps /\ installOp'.at \in {"install", "nohup"} /\
          installOp'.n \in 1..3 /\ installOp'.mode = "user"
    <2>1. CASE installOp.n < 3
      BY <1>1, <2>1, InstallGoesTo DEF Install!InstallHome, InstallInv, InstallTypes, InstallPlaces
    <2>2. CASE installOp.n = 3
      BY <1>1, <2>2, InstallGoesTo DEF Install!InstallHome, InstallInv, InstallTypes, InstallPlaces
    <2>3. QED
      BY <1>1, <2>1, <2>2
  <1>3. QED
    BY <1>1, <1>2, InstallHomeInv DEF InstallInv, InstallTypes

\* One process is started with nohup.
LEMMA InstallStartHomeInv == ASSUME InstallInv, Install!StartHome PROVE InstallInv'
  <1>1. /\ installOp.at = "nohup" /\ installOp.n \in 1..3 /\ installOp.mode = "user"
        /\ UNCHANGED <<installHealth, installHasSS, Install!system, Install!services, installRun,
             installCuts, installHome>>
        /\ installHomeUp' \in [Install!Services -> 0..installRun]
    <2>1. /\ installOp.at = "nohup" /\ installOp.n \in 1..3 /\ installOp.mode = "user" /\
               installRun \in 0..installRun /\ 0 \in 0..installRun
          /\ installHomeUp \in [Install!Services -> 0..installRun]
      BY DEF Install!StartHome, InstallInv, InstallTypes
    <2>2. PICK v \in {0, installRun} :
             installHomeUp' = [installHomeUp EXCEPT ![<<"worker", "api",
               "remote">>[installOp.n]] = v]
      BY DEF Install!StartHome
    <2>3. installHomeUp' \in [Install!Services -> 0..installRun]
      BY <2>1, <2>2
    <2>4. QED
      BY <2>1, <2>3 DEF Install!StartHome, Install!Keeps
  <1>2. CASE installOp.n < 3 /\ Install!Goes("nohup", installOp.n + 1) /\ UNCHANGED installSaid
    <2>1. installOp' \in InstallSteps /\ installOp'.at = "nohup" /\ installOp'.n \in 1..3 /\
            installOp'.mode = "user"
      BY <1>1, <1>2, InstallGoesTo DEF InstallInv, InstallTypes, InstallPlaces
    <2>2. QED
      BY <1>1, <1>2, <2>1, InstallHomeInv DEF InstallInv, InstallTypes
  <1>3. ASSUME NEW with \in {"ok", "failed"}, Install!Ends(with) PROVE InstallInv'
    <2>1. installOp' \in InstallSteps /\ installOp'.at = "idle" /\ installOp'.mode = "user" /\
            installSaid' = with
      BY <1>1, <1>3, InstallEndsAt DEF InstallInv, InstallTypes
    <2>2. InstallSaidOK'
      BY <1>3, <2>1, Zenon DEF InstallSaidOK
    <2>3. InstallTypes'
      <3>1. InstallDisks' = InstallDisks
        BY <1>1 DEF InstallDisks
      <3>2. QED
        BY <1>1, <2>1, <3>1 DEF InstallInv, InstallTypes, Install!system, Install!services
    <2>4. InstallReplaced' /\ InstallKept' /\ InstallPurged'
      BY <2>1 DEF InstallReplaced, InstallKept, InstallPurged, InstallWorking
    <2>5. InstallLevel'
      BY <1>1, <2>1 DEF InstallInv, InstallLevel, InstallSame, InstallWorking, Install!Kinds,
         Install!Files, Install!system, Install!services
    <2>6. InstallEnded'
      BY <2>1 DEF InstallEnded, Install!OkMeansNew, Install!RollbackRestores,
         Install!PurgeIsComplete, Install!Last
    <2>7. QED
      BY <2>2, <2>3, <2>4, <2>5, <2>6 DEF InstallInv
  <1>4. QED
    BY <1>2, <1>3 DEF Install!StartHome

\* An uninstall finds out what there is.
LEMMA InstallDetectModeInv == ASSUME InstallInv, Install!DetectMode PROVE InstallInv'
  <1>1. installOp.at = "detect" /\
          UNCHANGED <<Install!system, Install!services, Install!user, installSaid, installRun,
            installCuts>>
        /\ installOp' \in InstallSteps /\ installOp'.at = "kill"
    <2>1. PICK m \in InstallModes : installOp' = [installOp EXCEPT !.at = "kill", !.mode = m]
      BY DEF Install!DetectMode, InstallModes
    <2>2. "kill" \in InstallPlaces
      BY DEF InstallPlaces
    <2>3. QED
      BY <2>1, <2>2 DEF Install!DetectMode, Install!Keeps, InstallInv, InstallTypes, InstallSteps
  <1>2. InstallTypes'
    BY <1>1, InstallGoesOn DEF InstallInv, InstallTypes, Install!system, Install!services,
       Install!user
  <1>3. InstallReplaced' /\ InstallKept' /\ InstallPurged'
    BY <1>1 DEF InstallReplaced, InstallKept, InstallPurged, InstallWorking
  <1>4. InstallLevel'
    BY <1>1 DEF InstallInv, InstallLevel, InstallSame, InstallWorking, Install!Kinds,
       Install!Files, Install!system, Install!services
  <1>5. QED
    BY <1>1, <1>2, <1>3, <1>4, InstallGoesOn DEF InstallInv

\* The processes are killed by name.
LEMMA InstallKillByNameInv == ASSUME InstallInv, Install!KillByName PROVE InstallInv'
  <1>1. installOp' \in InstallSteps /\ installOp'.at \in {"disable", "rmhome"} /\
          (installOp'.at = "rmhome" => installOp'.mode # "purge")
    <2>1. CASE installOp.mode = "purge"
      BY <2>1, InstallGoesTo DEF Install!KillByName, InstallInv, InstallTypes, InstallPlaces
    <2>2. CASE installOp.mode # "purge"
      BY <2>2, InstallGoesTo DEF Install!KillByName, InstallInv, InstallTypes, InstallPlaces
    <2>3. QED
      BY <2>1, <2>2
  <1>2. /\ installOp.at = "kill" /\
             UNCHANGED <<Install!system, installRuns, installHome, installSaid, installRun,
               installCuts>>
        /\ \A s \in Install!Services : installUnit'[s] = "off" /\ installHomeUp'[s] = 0
        /\ installUnit' \in [Install!Services -> {"off", "dying", "up"}] /\
             installHomeUp' \in [Install!Services -> 0..installRun]
    BY DEF Install!KillByName, Install!Keeps, InstallInv, InstallTypes
  <1>3. installWant' \in [Install!Services -> BOOLEAN]
    BY Zenon DEF Install!KillByName
  <1>4. InstallTypes'
    BY <1>1, <1>2, <1>3, InstallGoesOn DEF InstallInv, InstallTypes, Install!system
  <1>5. InstallReplaced' /\ InstallKept' /\ InstallPurged'
    BY <1>1, <1>2 DEF InstallReplaced, InstallKept, InstallPurged, InstallWorking
  <1>6. InstallLevel'
    BY <1>1, <1>2 DEF InstallInv, InstallLevel, InstallSame, InstallWorking, Install!Kinds,
       Install!system
  <1>7. QED
    BY <1>1, <1>2, <1>4, <1>5, <1>6, InstallGoesOn DEF InstallInv

\* systemd is told to stop.
LEMMA InstallStopDisableInv == ASSUME InstallInv, Install!StopDisable PROVE InstallInv'
  <1>1. installOp' \in InstallSteps /\ installOp'.at = "rm" /\ installOp'.n = 0
    BY InstallGoesTo DEF Install!StopDisable, InstallInv, InstallTypes, InstallPlaces
  <1>2. /\ installOp.at = "disable" /\
             UNCHANGED <<Install!system, installRuns, Install!user, installSaid, installRun,
               installCuts>>
        /\ InstallDown' /\ \A s \in Install!Services : installUnit'[s] = "off"
        /\ installUnit' \in [Install!Services -> {"off", "dying", "up"}] /\
             installWant' \in [Install!Services -> BOOLEAN]
    BY DEF Install!StopDisable, Install!StopUnits, Install!Keeps, InstallInv, InstallPurged,
       InstallDown, InstallQuiet, Install!user
  <1>3. InstallTypes'
    BY <1>1, <1>2, InstallGoesOn DEF InstallInv, InstallTypes, Install!system, Install!user
  <1>4. InstallReplaced' /\ InstallKept' /\ InstallPurged'
    BY <1>1, <1>2 DEF InstallReplaced, InstallKept, InstallPurged, InstallWorking
  <1>5. InstallLevel'
    BY <1>1, <1>2 DEF InstallInv, InstallLevel, InstallSame, InstallWorking, Install!Kinds,
       Install!system
  <1>6. QED
    BY <1>1, <1>2, <1>3, <1>4, <1>5, InstallGoesOn DEF InstallInv

\* One kind of files is removed.
LEMMA InstallPurgeSystemdInv == ASSUME InstallInv, Install!PurgeSystemd PROVE InstallInv'
  <1>1. /\ installOp.at = "rm" /\ installOp.n \in 0..2
        /\ UNCHANGED <<installBackup, installBefore, Install!services, Install!user, installSaid,
             installRun, installCuts>>
        /\ InstallDown /\ (installOp.n >= 1 => InstallGone("unit")) /\ (installOp.n >= 2 =>
             InstallGone("env"))
    BY DEF Install!PurgeSystemd, Install!Keeps, InstallInv, InstallPurged, InstallTypes
  <1>2. /\ installOp' \in InstallSteps
        /\ IF installOp.n < 2 THEN installOp'.at = "rm" /\
             installOp'.n = installOp.n + 1 ELSE installOp'.at = "rmhome"
    <2>1. CASE installOp.n < 2
      BY <1>1, <2>1, InstallGoesTo DEF Install!PurgeSystemd, InstallInv, InstallTypes, InstallPlaces
    <2>2. CASE ~(installOp.n < 2)
      BY <1>1, <2>2, InstallGoesTo DEF Install!PurgeSystemd, InstallInv, InstallTypes, InstallPlaces
    <2>3. QED
      BY <2>1, <2>2
  <1>3. PICK k \in Install!Kinds :
          /\ installDisk' = [installDisk EXCEPT ![k] = [s \in Install!Services |-> 0]]
          /\ k = <<"unit", "env", "bin">>[installOp.n + 1]
    <2>1. <<"unit", "env", "bin">>[installOp.n + 1] \in Install!Kinds
      BY <1>1 DEF Install!Kinds
    <2>2. QED
      BY <2>1 DEF Install!PurgeSystemd
  <1>4. /\ installDisk' \in InstallDisks /\ \A s \in Install!Services : installDisk'[k][s] = 0
        /\ \A l \in Install!Kinds : l # k => installDisk'[l] = installDisk[l]
    BY <1>3 DEF InstallInv, InstallTypes, InstallDisks
  <1>5. InstallTypes'
    BY <1>1, <1>2, <1>4, InstallGoesOn DEF InstallInv, InstallTypes, Install!services, Install!user
  <1>6. InstallReplaced' /\ InstallKept'
    BY <1>2 DEF InstallReplaced, InstallKept, InstallWorking
  <1>7. InstallPurged'
    <2>1. InstallGone(k)' /\ \A l \in Install!Kinds : InstallGone(l) => InstallGone(l)'
      BY <1>4 DEF InstallGone
    <2>2. InstallDown'
      BY <1>1 DEF InstallDown, InstallQuiet, Install!services, Install!user
    <2>3. CASE installOp.n = 0
      BY <1>1, <1>2, <1>3, <2>1, <2>2, <2>3 DEF InstallPurged
    <2>4. CASE installOp.n = 1
      BY <1>1, <1>2, <1>3, <2>1, <2>2, <2>4 DEF InstallPurged, Install!Kinds
    <2>5. CASE installOp.n = 2
      BY <1>1, <1>2, <1>3, <2>1, <2>2, <2>5 DEF InstallPurged, Install!Kinds
    <2>6. QED
      BY <1>1, <2>3, <2>4, <2>5
  <1>8. InstallLevel'
    <2>1. installCuts = 0 => \A l \in Install!Kinds : InstallSame(installDisk', l)
      BY <1>1, <1>4 DEF InstallInv, InstallLevel, InstallSame, Install!Kinds
    <2>2. \A s \in Install!Services : installUnit'[s] # "up"
      BY <1>1 DEF InstallDown, InstallQuiet, Install!services
    <2>3. QED
      BY <1>1, <1>2, <2>1, <2>2 DEF InstallLevel, InstallSame, InstallWorking
  <1>9. QED
    BY <1>1, <1>2, <1>5, <1>6, <1>7, <1>8, InstallGoesOn DEF InstallInv

\* What is below ~/.xrunner is removed.
LEMMA InstallPurgeUserInv == ASSUME InstallInv, Install!PurgeUser PROVE InstallInv'
  <1>1. installOp' \in InstallSteps /\ installOp'.at = "idle" /\
          installOp'.mode = installOp.mode /\ installSaid' = "gone"
    BY InstallEndsAt DEF Install!PurgeUser, InstallInv, InstallTypes
  <1>2. /\ installOp.at = "rmhome" /\
             UNCHANGED <<Install!system, Install!services, installHomeUp, installRun, installCuts>>
        /\ installHome' \in [Install!Services -> 0..installRun] /\
             \A s \in Install!Services : installHome'[s] = 0
    BY DEF Install!PurgeUser, Install!Keeps, InstallInv, InstallTypes
  <1>3. InstallSaidOK'
    BY <1>1, Zenon DEF InstallSaidOK
  <1>4. InstallTypes'
    <2>1. InstallDisks' = InstallDisks
      BY <1>2 DEF InstallDisks
    <2>2. QED
      BY <1>1, <1>2, <2>1 DEF InstallInv, InstallTypes, Install!system, Install!services
  <1>5. InstallReplaced' /\ InstallKept' /\ InstallPurged'
    BY <1>1 DEF InstallReplaced, InstallKept, InstallPurged, InstallWorking
  <1>6. InstallLevel'
    BY <1>1, <1>2 DEF InstallInv, InstallLevel, InstallSame, InstallWorking, Install!Kinds,
       Install!Files, Install!system, Install!services
  <1>7. Install!OkMeansNew' /\ Install!RollbackRestores'
    BY <1>1 DEF Install!OkMeansNew, Install!RollbackRestores, Install!Last
  <1>8. Install!PurgeIsComplete'
    <2>1. SUFFICES ASSUME installOp.mode = "purge"
          PROVE  installDisk = Install!None /\
                   \A s \in Install!Services : installUnit[s] = "off" /\ ~installWant[s] /\
                     installHomeUp[s] = 0
      BY <1>1, <1>2 DEF Install!PurgeIsComplete, Install!Last, Install!system, Install!services
    <2>2. InstallDown /\ \A k \in Install!Kinds : InstallGone(k)
      BY <1>2, <2>1 DEF InstallInv, InstallPurged
    <2>3. installDisk = Install!None
      BY <2>2 DEF InstallGone, Install!None, InstallInv, InstallTypes, InstallDisks
    <2>4. QED
      BY <2>2, <2>3 DEF InstallDown, InstallQuiet
  <1>9. QED
    BY <1>3, <1>4, <1>5, <1>6, <1>7, <1>8 DEF InstallInv, InstallEnded

\* A service ends or is started again by systemd.
LEMMA InstallUnitInv ==
    ASSUME InstallInv, NEW s \in Install!Services,
           \/ installUnit[s] = "dying" /\ installUnit' = [installUnit EXCEPT ![s] = "off"] /\
                UNCHANGED installRuns
           \/ /\ installWant[s] /\ installUnit[s] = "off"
              /\ installUnit' = [installUnit EXCEPT ![s] = Install!StartState(s)]
              /\ installRuns' = [installRuns EXCEPT ![s] = Install!Files(s)],
           UNCHANGED <<installHealth, installHasSS, installDisk, installBackup, installBefore,
             installWant, Install!user, installOp, installSaid, installRun, installCuts>>
    PROVE  InstallInv'
  <1>1. /\ installUnit' \in [Install!Services -> {"off", "dying", "up"}]
        /\ installRuns' \in [Install!Services -> Nat \X Nat \X Nat]
        /\ \A t \in Install!Services :
              \/ installUnit'[t] = installUnit[t] /\ installRuns'[t] = installRuns[t]
              \/ installRuns'[t] = Install!Files(t)
              \/ installUnit'[t] = "off" /\ installRuns'[t] = installRuns[t]
        /\ ~InstallQuiet
        /\ \A t \in Install!Services : installUnit[t] = "up" =>
             installUnit'[t] = "up" /\ installRuns'[t] = installRuns[t]
        /\ ~installWant[s] => installUnit'[s] = "off" /\ installUnit[s] # "off"
        /\ \A t \in Install!Services \ {s} : installUnit'[t] = installUnit[t]
    <2>1. Install!StartState(s) \in {"off", "dying", "up"}
      BY DEF Install!StartState
    <2>2. Install!Files(s) \in Nat \X Nat \X Nat
      BY DEF Install!Files, InstallInv, InstallTypes, InstallDisks, Install!Kinds
    <2>3. /\ installUnit \in [Install!Services -> {"off", "dying", "up"}] /\
               installWant \in [Install!Services -> BOOLEAN]
          /\ installRuns \in [Install!Services -> Nat \X Nat \X Nat]
      BY DEF InstallInv, InstallTypes
    <2>4. CASE installUnit[s] = "dying" /\ installUnit' = [installUnit EXCEPT ![s] = "off"] /\
                 UNCHANGED installRuns
      BY <2>3, <2>4 DEF InstallQuiet
    <2>5. CASE /\ installWant[s] /\ installUnit[s] = "off"
               /\ installUnit' = [installUnit EXCEPT ![s] = Install!StartState(s)]
               /\ installRuns' = [installRuns EXCEPT ![s] = Install!Files(s)]
      <3>1. installWant[s] /\ ~InstallQuiet
        BY <2>5, Zenon DEF InstallQuiet
      <3>2. /\ installUnit' \in [Install!Services -> {"off", "dying", "up"}] /\
                 installUnit[s] = "off"
            /\ installRuns' \in [Install!Services -> Nat \X Nat \X Nat] /\
                 installRuns'[s] = Install!Files(s)
            /\ \A t \in Install!Services \ {s} : installUnit'[t] = installUnit[t] /\
                 installRuns'[t] = installRuns[t]
        BY <2>1, <2>2, <2>3, <2>5
      <3>3. ~installWant[s] => installUnit'[s] = "off" /\ installUnit[s] # "off"
        BY <3>1, Zenon
      <3>4. \A t \in Install!Services :
            \/ installUnit'[t] = installUnit[t] /\ installRuns'[t] = installRuns[t]
            \/ installRuns'[t] = Install!Files(t)
            \/ installUnit'[t] = "off" /\ installRuns'[t] = installRuns[t]
        BY <3>2
      <3>5. \A t \in Install!Services : installUnit[t] = "up" =>
              installUnit'[t] = "up" /\ installRuns'[t] = installRuns[t]
        BY <3>2
      <3>6. \A t \in Install!Services \ {s} : installUnit'[t] = installUnit[t]
        BY <3>2
      <3>7. QED
        BY <3>1, <3>2, <3>3, <3>4, <3>5, <3>6, Zenon
    <2>6. QED
      BY <2>4, <2>5
  <1>2. InstallTypes'
    <2>1. InstallDisks' = InstallDisks
      BY DEF InstallDisks
    <2>2. QED
      BY <1>1, <2>1 DEF InstallInv, InstallTypes, Install!user
  <1>3. InstallSaidOK'
    BY Zenon DEF InstallInv, InstallSaidOK
  <1>4. InstallReplaced'
    <2>1. installOp.at \in {"await", "ports"} => InstallServing'
      BY <1>1 DEF InstallInv, InstallReplaced, InstallServing, InstallAllNew, Install!Files
    <2>2. QED
      BY <1>1, <2>1 DEF InstallInv, InstallReplaced, InstallNew, InstallAllNew
  <1>5. InstallKept' /\ InstallPurged'
    BY <1>1 DEF InstallInv, InstallKept, InstallPurged, InstallBack, InstallGone, InstallDown,
       Install!user
  <1>6. InstallLevel'
    BY <1>1 DEF InstallInv, InstallLevel, InstallSame, Install!Files
  <1>7. InstallEnded'
    <2>1. Install!OkMeansNew'
      BY <1>1 DEF InstallInv, InstallEnded, Install!OkMeansNew, Install!Last, Install!Files
    <2>2. Install!RollbackRestores'
      BY <1>1 DEF InstallInv, InstallEnded, Install!RollbackRestores, Install!Last
    <2>3. Install!PurgeIsComplete'
      BY <1>1 DEF InstallInv, InstallEnded, Install!PurgeIsComplete, Install!Last, InstallQuiet,
         Install!user
    <2>4. QED
      BY <2>1, <2>2, <2>3 DEF InstallEnded
  <1>8. QED
    BY <1>2, <1>3, <1>4, <1>5, <1>6, <1>7 DEF InstallInv

\* Every step keeps the invariant.
LEMMA InstallNextInv == InstallInv /\ [Install!Next]_Install!vars => InstallInv'
  <1>1. ASSUME InstallInv, UNCHANGED Install!vars PROVE InstallInv'
    <2>1. UNCHANGED <<installHealth, installHasSS, Install!system, Install!services, Install!user,
            installOp, installRun, installSaid, installCuts>>
      BY <1>1 DEF Install!vars
    <2>2. QED
      BY <1>1, <2>1, InstallFrameInv
  <1>2. ASSUME InstallInv, NEW s \in Install!Services, Install!Dies(s) \/
                 Install!RestartOnFailure(s) PROVE InstallInv'
    BY <1>2, InstallUnitInv DEF Install!Dies, Install!RestartOnFailure, Install!Keeps,
       Install!system, Install!services
  <1>3. ASSUME InstallInv, Install!SystemdScript PROVE InstallInv'
    BY <1>3, InstallStopServicesInv, InstallPortTakenInv, InstallBackUpInv, InstallTryOutInv,
       InstallRestartInv, InstallCheckUnitInv,
       InstallWaitPortsInv, InstallRollBackInv, InstallInstallFileInv DEF Install!SystemdScript
  <1>4. ASSUME InstallInv, Install!UserScript \/ Install!UninstallScript PROVE InstallInv'
    BY <1>4, InstallStopPidfilesInv, InstallInstallHomeInv, InstallStartHomeInv,
       InstallDetectModeInv, InstallKillByNameInv,
       InstallStopDisableInv, InstallPurgeSystemdInv, InstallPurgeUserInv DEF Install!UserScript,
       Install!UninstallScript
  <1>5. QED
    BY <1>1, <1>2, <1>3, <1>4, InstallBootstrapInv, InstallRefusedInv, InstallVerifyFailsInv,
       InstallWriteConfigInv,
       InstallUninstallInv, InstallCutInv DEF Install!Next

\* What the invariant says of what runs.
LEMMA InstallMeaning ==
    ASSUME InstallInv
      PROVE Install!OkMeansNew /\ Install!RollbackRestores /\ Install!NoMixtureRuns /\
              Install!PurgeIsComplete
  <1>1. Install!NoMixtureRuns
    <2>1. SUFFICES ASSUME installCuts = 0, installOp.at # "roll", NEW s \in Install!Services,
                     NEW t \in Install!Services,
                          installUnit[s] = "up", installUnit[t] = "up"
          PROVE  installRuns[s] = installRuns[t]
      BY DEF Install!NoMixtureRuns
    <2>2. installOp.at \notin Install!Kinds
      BY <2>1 DEF InstallInv, InstallReplaced, InstallQuiet, Install!Kinds
    <2>3. QED
      BY <2>1, <2>2 DEF InstallInv, InstallLevel, InstallSame, Install!Files, Install!Kinds
  <1>2. QED
    BY <1>1 DEF InstallInv, InstallEnded

\* Every variable keeps its type, for any number of bootstraps and of broken connections.
THEOREM InstallTypeCorrect == Install!Spec => []Install!TypeOK
  <1>1. Install!Init => InstallInv
    BY InstallInitInv
  <1>2. InstallInv /\ [Install!Next]_Install!vars => InstallInv'
    BY InstallNextInv
  <1>3. InstallInv => Install!TypeOK
    <2>1. ASSUME InstallInv
          PROVE  /\
                      \A k \in Install!Kinds,
                        s \in Install!Services : installDisk[k][s] \in 0..installRun /\
                          installBackup[k][s] \in 0..installRun
                 /\ \A s \in Install!Services :
                      installUnit[s] \in {"off", "dying", "up"} /\
                        {installHome[s], installHomeUp[s]} \subseteq 0..installRun
      BY <2>1 DEF InstallInv, InstallTypes, InstallDisks
    <2>2. QED
      BY <2>1, Zenon DEF InstallInv, InstallSaidOK, Install!TypeOK
  <1>4. QED
    BY <1>1, <1>2, <1>3, PTL DEF Install!Spec

(***************************************************************************)
(* "bootstrap ok" is the truth, a rollback restores, an uninstall is       *)
(* complete, and services of two versions never serve together unless a    *)
(* connection broke: for any number of bootstraps, uninstalls and broken   *)
(* connections.                                                            *)
(***************************************************************************)
THEOREM InstallsHold ==
    Install!Spec =>
      [](Install!OkMeansNew /\ Install!RollbackRestores /\ Install!NoMixtureRuns /\
        Install!PurgeIsComplete)
  <1>1. Install!Init => InstallInv
    BY InstallInitInv
  <1>2. InstallInv /\ [Install!Next]_Install!vars => InstallInv'
    BY InstallNextInv
  <1>3. InstallInv =>
          Install!OkMeansNew /\ Install!RollbackRestores /\ Install!NoMixtureRuns /\
            Install!PurgeIsComplete
    BY InstallMeaning
  <1>4. QED
    BY <1>1, <1>2, <1>3, PTL DEF Install!Spec

-----------------------------------------------------------------------------
(***************************************************************************)
(* Proofs about ShellClient, for any size of the log, any number of        *)
(* commands and any capacities.                                            *)
(***************************************************************************)

DurableBounds ==
    /\ DurableSmall \in Nat /\ DurableSendCap \in Nat /\ DurableDoneCap \in Nat
    /\ DurableMaxLog \in Nat /\ DurableMaxRuns \in Nat /\ DurableMaxOthers \in Nat

DurableBefore == {"ensure", "replay", "tailed", "attach"}
DurableLive == {"stream", "deaf", "closing", "closed"}
DurableChunks == [kind : {"chunk"}, off : Nat, len : Nat \ {0}, packed : BOOLEAN]
DurableDones == [kind : {"completed"}, id : 0..DurableMaxRuns]
DurableMessages == DurableChunks \cup DurableDones

DurableTypes ==
    /\ durableMode \in {"pump", "command"} /\ durableZstd \in BOOLEAN /\
         durableAt \in Durable!Phases
    /\ durableLog \in 0..DurableMaxLog /\ durableTail \in 0..durableLog /\
         durableFrom \in 0..durableLog /\ durableRd \in 0..durableLog
    /\ durableShown \in Seq(Nat) /\
         \A i \in 1..Len(durableShown) : durableShown[i] \in 1..durableLog
    /\ durableWire \in Seq(DurableMessages) /\ durableOwed \in 0..durableLog /\
         durableAcked \in 0..durableLog
    /\ durableSendCh \in Seq(Nat) /\ Len(durableSendCh) <= DurableSendCap
    /\ \A i \in 1..Len(durableSendCh) : durableSendCh[i] \in 0..durableLog
    /\ durableRun \in [Durable!Runs -> {"none", "sent", "running", "late", "finished"}]
    /\ durableWait \in 0..DurableMaxRuns /\ durableDropped \subseteq 0..DurableMaxRuns /\
         durableOthers \in 0..DurableMaxOthers
    /\ durableCompletedCh \in Seq(0..DurableMaxRuns) /\ Len(durableCompletedCh) <= DurableDoneCap

-----------------------------------------------------------------------------
\* Until the stream begins there is nothing to receive.
DurableWaiting ==
    durableAt \in DurableBefore =>
        /\ durableWire = <<>> /\ durableOwed = 0 /\ durableSendCh = <<>> /\ durableAcked = 0 /\
             durableRd = 0 /\ durableWait = 0
        /\ \A i \in Durable!Runs : durableRun[i] = "none"

\* The last unit on the screen.
DurableEnd == IF durableShown = <<>> THEN 0 ELSE durableShown[Len(durableShown)]

DurableFollows ==
    \A i \in 1..Len(durableShown) - 1 :
        /\ durableShown[i] < durableShown[i + 1]
        /\ \A p \in durableShown[i] + 1..durableShown[i + 1] - 1 :
             p \in durableTail + 1..durableFrom

\* The tail is one stretch, and the stream goes on from there or from behind it.
DurableScreen ==
    /\ DurableFollows
    /\ durableAt \in {"ensure", "replay"} => durableShown = <<>> /\ durableTail = 0
    /\ durableAt = "tailed" =>
                        /\ \A i \in 1..Len(durableShown) - 1 :
                             durableShown[i + 1] = durableShown[i] + 1
                        /\ durableShown # <<>> => DurableEnd = durableTail
    /\ durableAt \notin {"ensure", "replay", "tailed"} =>
           durableTail <= durableFrom /\ (durableShown # <<>> =>
             DurableEnd = durableTail \/ DurableEnd > durableFrom)
    /\ durableAt = "attach" => DurableEnd <= durableFrom

\* Where the next chunk begins.
DurablePos == IF DurableEnd > durableFrom THEN DurableEnd ELSE durableFrom

\* What the server has read and the client has not is on the wire, in order.
DurableIsChunk(p) == durableWire[p].kind = "chunk"
DurableUpto(p) == durableWire[p].off + durableWire[p].len
DurableComing ==
    /\ durableAt \in DurableLive => DurablePos <= durableRd
    /\ \A p \in 1..Len(durableWire) : DurableIsChunk(p) =>
         DurablePos <= durableWire[p].off /\ DurableUpto(p) <= durableRd
    /\ \A p, r \in 1..Len(durableWire) : DurableIsChunk(p) /\ DurableIsChunk(r) /\ p < r =>
         DurableUpto(p) <= durableWire[r].off
    /\ \A n \in DurablePos + 1..durableRd :
           \E p \in 1..Len(durableWire) : DurableIsChunk(p) /\ durableWire[p].off < n /\
             n <= DurableUpto(p)

DurableAcked == durableOwed <= DurableEnd /\ durableAcked <= DurableEnd /\
  \A i \in 1..Len(durableSendCh) : durableSendCh[i] <= DurableEnd

\* A command that is not over is the one the prompt waits for, and a completion
\* is of one that is.
DurableActive == {"sent", "running", "late"}
DurableIsDone(p, i) == durableWire[p].kind = "completed" /\ durableWire[p].id = i
DurablePrompted ==
    /\ \A i \in Durable!Runs : durableRun[i] \in DurableActive => durableWait = i
    /\ \A i \in Durable!Runs, p \in 1..Len(durableWire) : DurableIsDone(p, i) =>
         durableRun[i] = "finished"
    /\ \A i \in Durable!Runs, p \in 1..Len(durableCompletedCh) : durableCompletedCh[p] = i =>
         durableRun[i] = "finished"
    /\ durableWait # 0 =>
                   \/ durableRun[durableWait] \in DurableActive \/ durableWait \in durableDropped
                   \/ \E p \in 1..Len(durableCompletedCh) : durableCompletedCh[p] = durableWait
                   \/ \E p \in 1..Len(durableWire) : DurableIsDone(p, durableWait)

DurableInv == DurableTypes /\ DurableWaiting /\ DurableScreen /\ DurableComing /\ DurableAcked /\
  DurablePrompted

-----------------------------------------------------------------------------
(* Sequences.                                                              *)

LEMMA DurableGrown ==
    ASSUME NEW S, NEW s \in Seq(S), NEW e \in S
    PROVE  /\ Append(s, e) \in Seq(S) /\ Len(Append(s, e)) = Len(s) + 1 /\ Len(s) \in Nat
           /\ Append(s, e)[Len(s) + 1] = e
           /\ \A i \in 1..Len(s) : Append(s, e)[i] = s[i]
  OBVIOUS

LEMMA DurableShrunk ==
    ASSUME NEW S, NEW s \in Seq(S), s # <<>>
    PROVE  /\ Head(s) \in S /\ Head(s) = s[1] /\ Tail(s) \in Seq(S)
           /\ Len(s) \in Nat \ {0} /\ Len(Tail(s)) = Len(s) - 1
           /\ \A i \in 1..Len(s) - 1 : Tail(s)[i] = s[i + 1]
  OBVIOUS

LEMMA DurableJoined ==
    ASSUME NEW S, NEW s \in Seq(S), NEW t \in Seq(S)
    PROVE  /\ s \o t \in Seq(S) /\ Len(s \o t) = Len(s) + Len(t)
           /\ \A i \in 1..Len(s) : (s \o t)[i] = s[i]
           /\ \A i \in Len(s) + 1..Len(s) + Len(t) : (s \o t)[i] = t[i - Len(s)]
  OBVIOUS

LEMMA DurableStretch ==
    ASSUME NEW off \in Nat, NEW n \in Nat
    PROVE  /\ [i \in 1..n |-> off + i] \in Seq(Nat) /\ Len([i \in 1..n |-> off + i]) = n
           /\ \A i \in 1..n : [j \in 1..n |-> off + j][i] = off + i
  OBVIOUS

LEMMA DurableChunkFields ==
    /\ \A m \in DurableMessages : m.kind = "chunk" =>
           /\ m \in DurableChunks /\ m.off \in Nat /\ m.len \in Nat /\ m.len # 0 /\
                m.packed \in BOOLEAN
    /\ \A m \in DurableMessages : m.kind # "chunk" =>
         m.kind = "completed" /\ m.id \in 0..DurableMaxRuns
  BY DEF DurableMessages, DurableChunks, DurableDones

LEMMA DurableEndTyped == ASSUME DurableTypes
  PROVE DurableEnd \in Nat /\ DurablePos \in Nat /\ DurableEnd <= durableLog /\
          DurablePos <= durableLog
  <1>1. CASE durableShown = <<>>
    BY <1>1 DEF DurableTypes, DurableEnd, DurablePos
  <1>2. CASE durableShown # <<>>
    <2>1. Len(durableShown) \in 1..Len(durableShown)
      BY <1>2 DEF DurableTypes
    <2>2. durableShown[Len(durableShown)] \in 1..durableLog
      BY <2>1 DEF DurableTypes
    <2>3. QED
      BY <1>2, <2>2 DEF DurableTypes, DurableEnd, DurablePos
  <1>3. QED
    BY <1>1, <1>2

-----------------------------------------------------------------------------
(* What a step leaves alone.                                               *)

LEMMA DurableScreenStays ==
    ASSUME DurableScreen, durableAt \notin DurableBefore, durableAt' \notin DurableBefore,
             UNCHANGED <<durableShown, durableTail, durableFrom>>
    PROVE  DurableScreen' /\ DurableEnd' = DurableEnd /\ DurablePos' = DurablePos
  BY DEF DurableScreen, DurableBefore, DurableEnd, DurablePos, DurableFollows

LEMMA DurableComingStays ==
    ASSUME DurableComing, UNCHANGED <<durableWire, durableRd>>, DurablePos' = DurablePos,
             durableAt' \in DurableLive => durableAt \in DurableLive
    PROVE  DurableComing'
  BY DEF DurableComing, DurableIsChunk, DurableUpto

LEMMA DurableAckedStays ==
    ASSUME DurableAcked, DurableEnd' = DurableEnd, UNCHANGED <<durableOwed, durableAcked,
             durableSendCh>>
    PROVE  DurableAcked'
  BY DEF DurableAcked

LEMMA DurablePromptedStays ==
    ASSUME DurablePrompted, UNCHANGED <<durableRun, durableWait, durableDropped,
             durableCompletedCh, durableWire>>
    PROVE  DurablePrompted'
  BY DEF DurablePrompted, DurableIsDone

LEMMA DurableLater == ASSUME durableAt' \notin DurableBefore PROVE DurableWaiting'
  BY DEF DurableWaiting

\* The command goes from one place to another of those behind the attach.
LEMMA DurableMoves ==
    ASSUME DurableInv, durableAt \notin DurableBefore,
             durableAt' \in Durable!Phases \ DurableBefore, durableAt' \in DurableLive =>
               durableAt \in DurableLive,
           UNCHANGED <<durableMode, durableZstd, durableLog, durableTail, durableFrom,
             durableShown, durableRd, durableWire, durableOwed, durableSendCh, durableAcked,
                       durableRun, durableWait, durableCompletedCh, durableDropped, durableOthers>>
    PROVE  DurableInv'
  <1>1. DurableTypes'
    BY DEF DurableInv, DurableTypes
  <1>2. DurableScreen' /\ DurableEnd' = DurableEnd /\ DurablePos' = DurablePos
    BY DurableScreenStays DEF DurableInv
  <1>3. QED
    BY <1>1, <1>2, DurableLater, DurableComingStays, DurableAckedStays,
       DurablePromptedStays DEF DurableInv

-----------------------------------------------------------------------------
LEMMA DurableInitInv == DurableBounds /\ Durable!Init => DurableInv
  <1>1. SUFFICES ASSUME DurableBounds, Durable!Init PROVE DurableInv
    OBVIOUS
  <1>2. /\ durableAt = "ensure" /\ durableLog = 0 /\ durableTail = 0 /\ durableFrom = 0 /\
             durableShown = <<>> /\ durableRd = 0 /\ durableWire = <<>>
        /\ durableOwed = 0 /\ durableSendCh = <<>> /\ durableAcked = 0 /\ durableWait = 0 /\
             durableCompletedCh = <<>> /\ durableDropped = {}
        /\ durableOthers = 0 /\ Len(durableShown) = 0 /\ Len(durableWire) = 0 /\
             Len(durableSendCh) = 0 /\ Len(durableCompletedCh) = 0
        /\ \A i \in Durable!Runs : durableRun[i] = "none"
    BY <1>1 DEF Durable!Init
  <1>3. DurableTypes
    <2>1. durableRun \in [Durable!Runs -> {"none", "sent", "running", "late", "finished"}]
      BY <1>1 DEF Durable!Init
    <2>2. durableShown \in Seq(Nat) /\ durableWire \in Seq(DurableMessages) /\
            durableSendCh \in Seq(Nat)
          /\ durableCompletedCh \in Seq(0..DurableMaxRuns)
      BY <1>2
    <2>3. durableMode \in {"pump", "command"} /\ durableZstd \in BOOLEAN
      BY <1>1 DEF Durable!Init
    <2>4. QED
      BY <1>1, <1>2, <2>1, <2>2, <2>3 DEF DurableBounds, DurableTypes, Durable!Phases
  <1>4. DurableEnd = 0 /\ DurablePos = 0
    BY <1>2 DEF DurableEnd, DurablePos
  <1>5. DurableWaiting /\ DurableAcked
    BY <1>2, <1>4 DEF DurableWaiting, DurableAcked
  <1>6. DurableScreen
    BY <1>2, <1>4 DEF DurableScreen, DurableFollows
  <1>7. DurableComing
    BY <1>2, <1>4 DEF DurableComing, DurableLive
  <1>8. DurablePrompted
    BY <1>2 DEF DurablePrompted, DurableActive
  <1>9. QED
    BY <1>3, <1>5, <1>6, <1>7, <1>8 DEF DurableInv

-----------------------------------------------------------------------------
(* The shell and the server.                                               *)

LEMMA DurableOutputInv == ASSUME DurableBounds, DurableInv, Durable!Output PROVE DurableInv'
  <1>1. /\ durableLog < DurableMaxLog /\ durableLog' = durableLog + 1
        /\ UNCHANGED <<durableMode, durableZstd, durableAt, durableTail, durableFrom, durableShown,
             durableRd, durableWire, durableOwed, durableSendCh, durableAcked,
                       durableRun, durableWait, durableCompletedCh, durableDropped, durableOthers>>
    BY DEF Durable!Output, Durable!prompt
  <1>2. DurableTypes'
    <2>1. durableLog \in Nat /\ durableLog' \in 0..DurableMaxLog
      BY <1>1 DEF DurableInv, DurableTypes, DurableBounds
    <2>2. (\A k \in 0..durableLog : k \in 0..durableLog') /\
            (\A k \in 1..durableLog : k \in 1..durableLog')
      BY <1>1, <2>1
    <2>3. (\A i \in 1..Len(durableShown) : durableShown[i] \in 1..durableLog)
          /\ (\A i \in 1..Len(durableSendCh) : durableSendCh[i] \in 0..durableLog)
      BY DEF DurableInv, DurableTypes
    <2>4. (\A i \in 1..Len(durableShown) : durableShown[i] \in 1..durableLog')
          /\ (\A i \in 1..Len(durableSendCh) : durableSendCh[i] \in 0..durableLog')
      BY <2>2, <2>3
    <2>5. QED
      BY <1>1, <2>1, <2>2, <2>4 DEF DurableInv, DurableTypes
  <1>3. DurableScreen' /\ DurableEnd' = DurableEnd /\ DurablePos' = DurablePos /\ DurableWaiting'
    BY <1>1 DEF DurableInv, DurableScreen, DurableEnd, DurablePos, DurableFollows, DurableWaiting
  <1>4. QED
    BY <1>1, <1>2, <1>3, DurableComingStays, DurableAckedStays, DurablePromptedStays DEF DurableInv

\* A message that is no chunk is behind all chunks.
LEMMA DurableDoneOnWire ==
    ASSUME DurableTypes, DurableComing, NEW m \in DurableDones, durableWire' = Append(durableWire,
             m),
           durableAt' \in DurableLive =>
             durableAt \in DurableLive, UNCHANGED durableRd, DurablePos' = DurablePos
    PROVE  /\ durableWire' \in Seq(DurableMessages) /\ DurableComing'
           /\ \A p \in 1..Len(durableWire) : p \in 1..Len(durableWire') /\
                durableWire'[p] = durableWire[p]
           /\ \A p \in 1..Len(durableWire') : p \in 1..Len(durableWire) \/ durableWire'[p] = m
           /\ \E p \in 1..Len(durableWire') : durableWire'[p] = m
  <1>1. m \in DurableMessages /\ m.kind = "completed"
    BY DEF DurableMessages, DurableDones
  <1>2. /\ durableWire' \in Seq(DurableMessages) /\ Len(durableWire') = Len(durableWire) + 1 /\
             Len(durableWire) \in Nat
        /\ durableWire'[Len(durableWire) + 1] = m /\
             \A p \in 1..Len(durableWire) : durableWire'[p] = durableWire[p]
    BY <1>1, DurableGrown DEF DurableTypes
  <1>3. /\ \A p \in 1..Len(durableWire) : p \in 1..Len(durableWire') /\
             durableWire'[p] = durableWire[p]
        /\ \A p \in 1..Len(durableWire') : p \in 1..Len(durableWire) \/ durableWire'[p] = m
        /\ \E p \in 1..Len(durableWire') : durableWire'[p] = m
    BY <1>2
  <1>4. \A p \in 1..Len(durableWire') : DurableIsChunk(p)' =>
          p \in 1..Len(durableWire) /\ DurableIsChunk(p)
    BY <1>1, <1>3 DEF DurableIsChunk
  <1>5. \A p \in 1..Len(durableWire) : (DurableIsChunk(p)' <=> DurableIsChunk(p)) /\
          DurableUpto(p)' = DurableUpto(p)
    BY <1>2 DEF DurableIsChunk, DurableUpto
  <1>6. DurableComing'
    BY <1>2, <1>3, <1>4, <1>5 DEF DurableComing
  <1>7. QED
    BY <1>2, <1>3, <1>6

LEMMA DurableSendChunkInv == ASSUME DurableBounds, DurableInv, Durable!SendChunk PROVE DurableInv'
  <1>1. /\ durableAt \in DurableLive /\ durableRd < durableLog
        /\ UNCHANGED <<durableMode, durableZstd, durableAt, durableLog, durableTail, durableFrom,
             durableShown, durableOwed, durableSendCh, durableAcked,
                       durableRun, durableWait, durableCompletedCh, durableDropped, durableOthers>>
    BY DEF Durable!SendChunk, Durable!prompt, DurableLive
  <1>2. PICK n \in 1..durableLog - durableRd :
                                 /\ durableWire' = Append(durableWire, Durable!Chunk(durableRd, n,
                                      durableZstd /\ n >= DurableSmall))
                                 /\ durableRd' = durableRd + n
    BY DEF Durable!SendChunk
  <1>3. n \in Nat /\ n # 0 /\ durableRd + n <= durableLog /\ durableRd \in Nat /\
          durableLog \in Nat /\ durableRd' \in 0..durableLog
    BY <1>1, <1>2 DEF DurableInv, DurableTypes, DurableBounds
  <1>4. PICK m \in DurableChunks : m = Durable!Chunk(durableRd, n, durableZstd /\ n >= DurableSmall)
    <2>1. (durableZstd /\ n >= DurableSmall) \in BOOLEAN
      OBVIOUS
    <2>2. QED
      BY <1>3, <2>1 DEF Durable!Chunk, DurableChunks
  <1>5. m.kind = "chunk" /\ m.off = durableRd /\ m.len = n /\ m \in DurableMessages
    BY <1>4 DEF Durable!Chunk, DurableMessages
  <1>6. /\ durableWire' \in Seq(DurableMessages) /\ Len(durableWire') = Len(durableWire) + 1 /\
             Len(durableWire) \in Nat
        /\ durableWire'[Len(durableWire) + 1] = m /\
             \A p \in 1..Len(durableWire) : durableWire'[p] = durableWire[p]
    BY <1>2, <1>4, <1>5, DurableGrown DEF DurableInv, DurableTypes
  <1>7. DurableTypes'
    BY <1>1, <1>3, <1>6 DEF DurableInv, DurableTypes
  <1>8. DurableScreen' /\ DurableEnd' = DurableEnd /\ DurablePos' = DurablePos
    BY <1>1, DurableScreenStays DEF DurableInv, DurableBefore, DurableLive
  <1>9. PICK k \in Nat : k = Len(durableWire) + 1
    BY <1>6
  <1>10. /\ \A p \in 1..Len(durableWire) : p \in 1..Len(durableWire') /\ p # k /\ p < k
         /\ \A p \in 1..Len(durableWire') : p \in 1..Len(durableWire) \/ p = k
         /\ k \in 1..Len(durableWire')
         /\ durableWire'[k] = m
    BY <1>6, <1>9
  <1>11. \A p \in 1..Len(durableWire) :
           /\ DurableIsChunk(p)' <=> DurableIsChunk(p)
           /\ DurableUpto(p)' = DurableUpto(p) /\ durableWire'[p].off = durableWire[p].off
    BY <1>6 DEF DurableIsChunk, DurableUpto
  <1>12. DurableIsChunk(k)' /\ DurableUpto(k)' = durableRd' /\ durableWire'[k].off = durableRd
    BY <1>2, <1>5, <1>10 DEF DurableIsChunk, DurableUpto
  <1>13. \A p \in 1..Len(durableWire) : DurableIsChunk(p) =>
           DurablePos <= durableWire[p].off /\ DurableUpto(p) <= durableRd /\ DurableUpto(p) \in Nat
    <2>1. ASSUME NEW p \in 1..Len(durableWire), DurableIsChunk(p) PROVE DurableUpto(p) \in Nat
      <3>1. durableWire[p] \in DurableMessages
        BY DEF DurableInv, DurableTypes
      <3>2. QED
        BY <2>1, <3>1, DurableChunkFields DEF DurableIsChunk, DurableUpto
    <2>2. QED
      BY <2>1 DEF DurableInv, DurableComing
  <1>14. DurableComing'
    <2>1. DurablePos <= durableRd /\ DurablePos \in Nat
      BY <1>1, DurableEndTyped DEF DurableInv, DurableComing
    <2>2. DurablePos' <= durableRd'
      BY <1>2, <1>3, <1>8, <2>1
    <2>3. ASSUME NEW p \in 1..Len(durableWire'), DurableIsChunk(p)'
          PROVE  DurablePos' <= durableWire'[p].off /\ DurableUpto(p)' <= durableRd'
      BY <1>2, <1>3, <1>8, <1>10, <1>11, <1>12, <1>13, <2>1, <2>3
    <2>4. ASSUME NEW p \in 1..Len(durableWire'), NEW r \in 1..Len(durableWire'),
                   DurableIsChunk(p)', DurableIsChunk(r)', p < r
          PROVE  DurableUpto(p)' <= durableWire'[r].off
      <3>1. p \in 1..Len(durableWire) /\ DurableIsChunk(p) /\ DurableUpto(p)' = DurableUpto(p)
        BY <1>6, <1>9, <1>10, <1>11, <2>4
      <3>2. CASE r = k
        BY <1>12, <1>13, <3>1, <3>2
      <3>3. CASE r \in 1..Len(durableWire)
        BY <1>11, <2>4, <3>1, <3>3 DEF DurableInv, DurableComing
      <3>4. QED
        BY <1>10, <3>2, <3>3
    <2>5. ASSUME NEW n_1 \in DurablePos + 1..durableRd'
          PROVE  \E p \in 1..Len(durableWire') : DurableIsChunk(p)' /\ durableWire'[p].off < n_1 /\
                   n_1 <= DurableUpto(p)'
      <3>1. CASE n_1 \in DurablePos + 1..durableRd
        BY <1>10, <1>11, <3>1 DEF DurableInv, DurableComing
      <3>2. CASE n_1 \notin DurablePos + 1..durableRd
        <4>1. durableRd < n_1 /\ n_1 <= durableRd'
          BY <1>3, <2>1, <2>5, <3>2
        <4>2. QED
          BY <1>10, <1>12, <4>1
      <3>3. QED
        BY <3>1, <3>2
    <2>6. QED
      BY <1>8, <2>2, <2>3, <2>4, <2>5, Zenon DEF DurableComing
  <1>15. DurablePrompted'
    <2>1. \A p \in 1..Len(durableWire'), i \in Nat : DurableIsDone(p, i)' =>
            p \in 1..Len(durableWire) /\ DurableIsDone(p, i)
      BY <1>5, <1>6, <1>10 DEF DurableIsDone
    <2>2. \A p \in 1..Len(durableWire), i \in Nat : DurableIsDone(p, i) =>
            p \in 1..Len(durableWire') /\ DurableIsDone(p, i)'
      BY <1>6, <1>10 DEF DurableIsDone
    <2>3. Durable!Runs \subseteq Nat /\ durableWait \in Nat
      BY DEF DurableInv, DurableTypes, Durable!Runs, DurableBounds
    <2>4. QED
      BY <1>1, <2>1, <2>2, <2>3 DEF DurableInv, DurablePrompted
  <1>16. QED
    BY <1>1, <1>7, <1>8, <1>14, <1>15, DurableLater, DurableAckedStays DEF DurableInv,
       DurableBefore, DurableLive

\* A completion is sent, of a command that has just finished or of none of this prompt.
LEMMA DurableCompletionInv ==
    ASSUME DurableBounds, DurableInv, durableAt \notin DurableBefore, NEW i \in 0..DurableMaxRuns,
             durableWire' = Append(durableWire, Durable!Completed(i)),
           UNCHANGED <<durableMode, durableZstd, durableAt, durableLog, durableTail, durableFrom,
             durableShown, durableRd, durableOwed, durableSendCh, durableAcked,
                       durableWait, durableCompletedCh, durableDropped>>,
           durableOthers' \in 0..DurableMaxOthers,
           \/ i = 0 /\ UNCHANGED durableRun
           \/ i \in Durable!Runs /\ durableRun[i] \in DurableActive /\
                durableRun' = [durableRun EXCEPT ![i] = "finished"]
    PROVE  DurableInv'
  <1>1. PICK m \in DurableDones : m = Durable!Completed(i)
    BY DEF Durable!Completed, DurableDones
  <1>2. m.kind = "completed" /\ m.id = i /\ m \in DurableMessages
    BY <1>1 DEF Durable!Completed, DurableMessages
  <1>3. DurableScreen' /\ DurableEnd' = DurableEnd /\ DurablePos' = DurablePos
    BY DurableScreenStays DEF DurableInv
  <1>4. /\ durableWire' \in Seq(DurableMessages) /\ DurableComing'
        /\ \A p \in 1..Len(durableWire) : p \in 1..Len(durableWire') /\
             durableWire'[p] = durableWire[p]
        /\ \A p \in 1..Len(durableWire') : p \in 1..Len(durableWire) \/ durableWire'[p] = m
        /\ \E p \in 1..Len(durableWire') : durableWire'[p] = m
    BY <1>1, <1>3, DurableDoneOnWire DEF DurableInv
  <1>5. /\ durableRun' \in [Durable!Runs -> {"none", "sent", "running", "late", "finished"}]
        /\ \A j \in Durable!Runs : durableRun'[j] = durableRun[j] \/ (j = i /\
             durableRun'[j] = "finished" /\ durableRun[j] \in DurableActive)
        /\ i \in Durable!Runs => durableRun'[i] = "finished"
        /\ i \notin Durable!Runs => i = 0
    <2>1. CASE i = 0 /\ UNCHANGED durableRun
      BY <2>1 DEF DurableInv, DurableTypes, Durable!Runs, DurableBounds
    <2>2. CASE i \in Durable!Runs /\ durableRun[i] \in DurableActive /\
                 durableRun' = [durableRun EXCEPT ![i] = "finished"]
      BY <2>2 DEF DurableInv, DurableTypes
    <2>3. QED
      BY <2>1, <2>2
  <1>6. DurableTypes'
    BY <1>4, <1>5 DEF DurableInv, DurableTypes
  <1>7. DurablePrompted'
    <2>1. \A p \in 1..Len(durableWire'), j \in Nat : DurableIsDone(p, j)' =>
            (p \in 1..Len(durableWire) /\ DurableIsDone(p, j)) \/ j = i
      BY <1>2, <1>4 DEF DurableIsDone
    <2>2. \A p \in 1..Len(durableWire), j \in Nat : DurableIsDone(p, j) =>
            p \in 1..Len(durableWire') /\ DurableIsDone(p, j)'
      BY <1>4 DEF DurableIsDone
    <2>3. \E p \in 1..Len(durableWire') : DurableIsDone(p, i)'
      BY <1>2, <1>4 DEF DurableIsDone
    <2>4. Durable!Runs \subseteq Nat /\ durableWait \in Nat /\ 0 \notin Durable!Runs
      BY DEF DurableInv, DurableTypes, Durable!Runs, DurableBounds
    <2>5. \A j \in Durable!Runs : durableRun'[j] \in DurableActive => durableRun[j] = durableRun'[j]
      BY <1>5 DEF DurableActive
    <2>6. \A j \in Durable!Runs : durableRun'[j] \in DurableActive => durableWait = j
      BY <2>5 DEF DurableInv, DurablePrompted
    <2>7. \A j \in Durable!Runs : durableRun[j] = "finished" => durableRun'[j] = "finished"
      BY <1>5
    <2>8. \A j \in Durable!Runs, p \in 1..Len(durableWire') : DurableIsDone(p, j)' =>
            durableRun'[j] = "finished"
      BY <1>5, <2>1, <2>4, <2>7 DEF DurableInv, DurablePrompted
    <2>9. \A j \in Durable!Runs, p \in 1..Len(durableCompletedCh) : durableCompletedCh[p] = j =>
            durableRun'[j] = "finished"
      BY <2>7 DEF DurableInv, DurablePrompted
    <2>10. durableWait # 0 =>
                       \/ durableRun'[durableWait] \in DurableActive \/
                            durableWait \in durableDropped
                       \/ \E p \in 1..Len(durableCompletedCh) : durableCompletedCh[p] = durableWait
                       \/ \E p \in 1..Len(durableWire') : DurableIsDone(p, durableWait)'
      <3>1. SUFFICES ASSUME durableWait # 0, durableRun'[durableWait] \notin DurableActive,
                       durableWait \notin durableDropped,
                            ~(\E p \in 1..Len(durableCompletedCh) :
                              durableCompletedCh[p] = durableWait)
                     PROVE  \E p \in 1..Len(durableWire') : DurableIsDone(p, durableWait)'
        OBVIOUS
      <3>2. durableWait \in Durable!Runs
        BY <3>1 DEF DurableInv, DurableTypes, Durable!Runs, DurableBounds
      <3>3. CASE durableWait = i
        BY <2>3, <3>3
      <3>4. CASE durableWait # i
        <4>1. durableRun'[durableWait] = durableRun[durableWait]
          BY <1>5, <3>2, <3>4
        <4>2. \E p \in 1..Len(durableWire) : DurableIsDone(p, durableWait)
          BY <3>1, <4>1 DEF DurableInv, DurablePrompted
        <4>3. QED
          BY <2>2, <2>4, <4>2
      <3>5. QED
        BY <3>3, <3>4
    <2>11. QED
      BY <2>6, <2>8, <2>9, <2>10, Zenon DEF DurablePrompted
  <1>8. QED
    BY <1>3, <1>4, <1>6, <1>7, DurableLater, DurableAckedStays DEF DurableInv

LEMMA DurableCompleteOtherInv == ASSUME DurableBounds, DurableInv, Durable!CompleteOther
  PROVE DurableInv'
  <1>1. /\ durableAt \notin DurableBefore /\ durableOthers' \in 0..DurableMaxOthers /\
             0 \in 0..DurableMaxRuns
        /\ durableWire' = Append(durableWire, Durable!Completed(0))
        /\ UNCHANGED <<durableMode, durableZstd, durableAt, durableLog, durableTail, durableFrom,
             durableShown, durableRd, durableOwed, durableSendCh, durableAcked,
                       durableRun, durableWait, durableCompletedCh, durableDropped>>
    BY DEF Durable!CompleteOther, Durable!server, DurableInv, DurableTypes, DurableBounds,
       DurableBefore
  <1>2. QED
    BY <1>1, DurableCompletionInv

\* A command is in the shell only when the stream has begun.
LEMMA DurableBegun == ASSUME DurableInv, NEW i \in Durable!Runs, durableRun[i] # "none"
  PROVE durableAt \notin DurableBefore
  BY DEF DurableInv, DurableWaiting

LEMMA DurableCompleteRunInv == ASSUME DurableBounds, DurableInv, NEW i \in Durable!Runs,
  Durable!CompleteRun(i) PROVE DurableInv'
  <1>1. durableAt \notin DurableBefore /\ i \in 0..DurableMaxRuns /\
          durableOthers' \in 0..DurableMaxOthers
    BY DurableBegun DEF Durable!CompleteRun, Durable!Runs, DurableBounds, DurableInv, DurableTypes
  <1>2. QED
    BY <1>1, DurableCompletionInv DEF Durable!CompleteRun, Durable!server, DurableActive

\* The state of a command changes, and the prompt begins to wait at most.
LEMMA DurableRunChanges ==
    ASSUME DurableBounds, DurableInv, durableAt \notin DurableBefore, NEW i \in Durable!Runs,
             NEW s \in DurableActive,
           durableRun' = [durableRun EXCEPT ![i] = s], durableWait' = i,
           durableRun[i] \in DurableActive \/ (durableWait = 0 /\ durableRun[i] = "none"),
           UNCHANGED <<durableMode, durableZstd, durableAt, durableLog, durableTail, durableFrom,
             durableShown, durableRd, durableWire, durableOwed, durableSendCh, durableAcked,
                       durableCompletedCh, durableDropped, durableOthers>>
    PROVE  DurableInv'
  <1>1. /\ durableRun' \in [Durable!Runs -> {"none", "sent", "running", "late", "finished"}]
        /\ \A j \in Durable!Runs : j # i => durableRun'[j] = durableRun[j]
        /\ durableRun'[i] = s /\ durableRun[i] # "finished"
    BY DEF DurableInv, DurableTypes, DurableActive
  <1>2. DurableTypes'
    BY <1>1 DEF DurableInv, DurableTypes, Durable!Runs, DurableBounds
  <1>3. DurableScreen' /\ DurableEnd' = DurableEnd /\ DurablePos' = DurablePos
    BY DurableScreenStays DEF DurableInv
  <1>4. DurablePrompted'
    <2>1. ASSUME NEW j \in Durable!Runs, durableRun'[j] \in DurableActive PROVE j = i
      <3>1. CASE durableRun[i] \in DurableActive
        <4>1. durableWait = i
          BY <3>1 DEF DurableInv, DurablePrompted
        <4>2. QED
          BY <1>1, <2>1, <4>1 DEF DurableInv, DurablePrompted
      <3>2. CASE durableWait = 0 /\ durableRun[i] = "none"
        <4>1. j # i => durableRun[j] \in DurableActive /\ durableWait = j /\ j # 0
          BY <1>1, <2>1 DEF DurableInv, DurablePrompted, Durable!Runs
        <4>2. QED
          BY <3>2, <4>1
      <3>3. QED
        BY <3>1, <3>2
    <2>2. QED
      BY <1>1, <2>1 DEF DurableInv, DurablePrompted, DurableIsDone
  <1>5. QED
    BY <1>2, <1>3, <1>4, DurableLater, DurableComingStays, DurableAckedStays DEF DurableInv

LEMMA DurableRunStepInv ==
    ASSUME DurableBounds, DurableInv, NEW i \in Durable!Runs, Durable!StartRun(i) \/
             Durable!RunTimesOut(i) \/ Durable!Scan(i)
    PROVE  DurableInv'
  <1>1. CASE Durable!StartRun(i)
    <2>1. durableRun[i] \in DurableActive /\ "running" \in DurableActive /\ durableWait = i /\
            durableAt \notin DurableBefore
      BY <1>1, DurableBegun DEF Durable!StartRun, DurableInv, DurablePrompted, DurableActive
    <2>2. QED
      BY <1>1, <2>1, DurableRunChanges DEF Durable!StartRun, Durable!server
  <1>2. CASE Durable!RunTimesOut(i)
    <2>1. durableRun[i] \in DurableActive /\ "late" \in DurableActive /\ durableWait = i /\
            durableAt \notin DurableBefore
      BY <1>2, DurableBegun DEF Durable!RunTimesOut, DurableInv, DurablePrompted, DurableActive
    <2>2. QED
      BY <1>2, <2>1, DurableRunChanges DEF Durable!RunTimesOut, Durable!server
  <1>3. CASE Durable!Scan(i)
    <2>1. "sent" \in DurableActive /\ durableAt \notin DurableBefore
      BY <1>3 DEF Durable!Scan, DurableActive, DurableBefore
    <2>2. QED
      BY <1>3, <2>1, DurableRunChanges DEF Durable!Scan, Durable!server
  <1>4. QED
    BY <1>1, <1>2, <1>3

LEMMA DurableTakeCompletedInv == ASSUME DurableBounds, DurableInv, Durable!TakeCompleted
  PROVE DurableInv'
  <1>1. /\ durableAt \notin DurableBefore /\ durableCompletedCh # <<>> /\
             durableCompletedCh' = Tail(durableCompletedCh)
        /\ durableWait # 0 /\
             durableWait' = IF Head(durableCompletedCh) = durableWait THEN 0 ELSE durableWait
        /\ UNCHANGED <<durableMode, durableZstd, durableAt, durableLog, durableTail, durableFrom,
             durableShown, durableRd, durableWire, durableOwed, durableSendCh, durableAcked,
                       durableRun, durableDropped, durableOthers>>
    BY DEF Durable!TakeCompleted, Durable!server, DurableBefore
  <1>2. /\ durableCompletedCh' \in Seq(0..DurableMaxRuns) /\
             Len(durableCompletedCh') <= DurableDoneCap
        /\ Head(durableCompletedCh) = durableCompletedCh[1] /\ 1 \in 1..Len(durableCompletedCh)
        /\ \A p \in 1..Len(durableCompletedCh') :
             p + 1 \in 1..Len(durableCompletedCh) /\
               durableCompletedCh'[p] = durableCompletedCh[p + 1]
        /\ \A p \in 1..Len(durableCompletedCh) : p = 1 \/ p - 1 \in 1..Len(durableCompletedCh')
    BY <1>1, DurableShrunk DEF DurableInv, DurableTypes, DurableBounds
  <1>3. DurableTypes'
    BY <1>1, <1>2 DEF DurableInv, DurableTypes, DurableBounds
  <1>4. DurableScreen' /\ DurableEnd' = DurableEnd /\ DurablePos' = DurablePos
    BY <1>1, DurableScreenStays DEF DurableInv
  <1>5. DurablePrompted'
    <2>1. durableWait \in Durable!Runs
      BY <1>1 DEF DurableInv, DurableTypes, Durable!Runs, DurableBounds
    <2>2. \A j \in Durable!Runs, p \in 1..Len(durableCompletedCh') : durableCompletedCh'[p] = j =>
            durableRun[j] = "finished"
      BY <1>2 DEF DurableInv, DurablePrompted
    <2>3. CASE Head(durableCompletedCh) = durableWait
      <3>1. durableRun[durableWait] = "finished"
        BY <1>2, <2>1, <2>3 DEF DurableInv, DurablePrompted
      <3>2. \A j \in Durable!Runs : durableRun[j] \notin DurableActive
        BY <3>1 DEF DurableInv, DurablePrompted, DurableActive
      <3>3. QED
        BY <1>1, <2>2, <2>3, <3>2 DEF DurableInv, DurablePrompted, DurableIsDone
    <2>4. CASE Head(durableCompletedCh) # durableWait
      <3>1. \A p \in 1..Len(durableCompletedCh) : durableCompletedCh[p] = durableWait =>
              p - 1 \in 1..Len(durableCompletedCh') /\ durableCompletedCh'[p - 1] = durableWait
        <4>1. ASSUME NEW p \in 1..Len(durableCompletedCh), durableCompletedCh[p] = durableWait
              PROVE  p - 1 \in 1..Len(durableCompletedCh') /\
                       durableCompletedCh'[p - 1] = durableWait
          <5>1. p # 1 /\ p - 1 \in 1..Len(durableCompletedCh')
            BY <1>2, <2>4, <4>1
          <5>2. durableCompletedCh'[p - 1] = durableCompletedCh[(p - 1) + 1] /\ (p - 1) + 1 = p
            BY <1>2, <5>1
          <5>3. QED
            BY <4>1, <5>1, <5>2
        <4>2. QED
          BY <4>1
      <3>2. QED
        BY <1>1, <2>2, <2>4, <3>1 DEF DurableInv, DurablePrompted, DurableIsDone
    <2>5. QED
      BY <2>3, <2>4
  <1>6. QED
    BY <1>1, <1>3, <1>4, <1>5, DurableLater, DurableComingStays, DurableAckedStays DEF DurableInv

-----------------------------------------------------------------------------
(* attach --resume, up to the stream.                                      *)

\* A step to another place before the stream, to its beginning, or to the end.
LEMMA DurableReplays ==
    ASSUME DurableBounds, DurableInv, durableAt \in DurableBefore, durableAt' \in Durable!Phases,
             DurableScreen',
           durableTail' \in 0..durableLog, durableFrom' \in 0..durableLog,
             durableRd' \in 0..durableLog,
           durableShown' \in Seq(Nat),
             \A i \in 1..Len(durableShown') : durableShown'[i] \in 1..durableLog,
           UNCHANGED <<durableMode, durableZstd, durableLog, durableWire, durableOwed,
             durableSendCh, durableAcked,
                       durableRun, durableWait, durableCompletedCh, durableDropped, durableOthers>>,
           durableAt' \in DurableBefore => durableRd' = 0,
           durableAt' \in DurableLive => durableRd' = DurablePos', durableAt' \notin DurableLive =>
             durableRd' = 0
    PROVE  DurableInv'
  <1>1. DurableTypes'
    BY DEF DurableInv, DurableTypes
  <1>2. /\ durableWire = <<>> /\ durableOwed = 0 /\ durableSendCh = <<>> /\ durableAcked = 0 /\
             durableRd = 0 /\ durableWait = 0
        /\ \A i \in Durable!Runs : durableRun[i] = "none"
    BY DEF DurableInv, DurableWaiting
  <1>3. DurableWaiting'
    BY <1>2 DEF DurableWaiting
  <1>4. DurableEnd' \in Nat /\ DurablePos' \in Nat
    <2>1. CASE durableShown' = <<>>
      BY <2>1 DEF DurableEnd, DurablePos
    <2>2. CASE durableShown' # <<>>
      <3>1. Len(durableShown') \in 1..Len(durableShown')
        BY <2>2
      <3>2. QED
        BY <2>2, <3>1 DEF DurableEnd, DurablePos
    <2>3. QED
      BY <2>1, <2>2
  <1>5. DurableComing'
    <2>1. Len(durableWire') = 0
      BY <1>2
    <2>2. durableRd' = 0 \/ durableRd' = DurablePos'
      OBVIOUS
    <2>3. \A n \in DurablePos' + 1..durableRd' : FALSE
      <3>1. \A p \in Nat : \A r \in {0, p} : \A n \in p + 1..r : FALSE
        OBVIOUS
      <3>2. durableRd' \in {0, DurablePos'}
        BY <2>2
      <3>3. QED
        BY <1>4, <3>1, <3>2, Zenon
    <2>4. durableAt' \in DurableLive => DurablePos' <= durableRd'
      BY <1>4
    <2>5. QED
      BY <2>1, <2>3, <2>4 DEF DurableComing
  <1>6. DurableAcked'
    BY <1>2, <1>4 DEF DurableAcked
  <1>7. QED
    BY <1>1, <1>3, <1>5, <1>6, DurablePromptedStays DEF DurableInv

\* The tail that is printed is one stretch of the log, up to its end.
LEMMA DurableTailPrinted ==
    ASSUME NEW size \in Nat, NEW first \in 1..size + 1, NEW s,
           s = [i \in 1..size + 1 - first |-> first + i - 1]
    PROVE  /\ s \in Seq(Nat) /\ Len(s) = size + 1 - first /\ Len(s) \in Nat
           /\ \A i \in 1..Len(s) : s[i] = first + i - 1 /\ s[i] \in 1..size
           /\ \A i \in 1..Len(s) - 1 : s[i + 1] = s[i] + 1
           /\ s # <<>> => Len(s) \in 1..Len(s) /\ s[Len(s)] = size
  <1>1. PICK n \in Nat : n = size + 1 - first
    OBVIOUS
  <1>2. s = [i \in 1..n |-> first + i - 1]
    BY <1>1
  <1>3. \A i \in 1..n : first + i - 1 \in 1..size
    BY <1>1
  <1>4. s \in Seq(Nat) /\ Len(s) = n
    <2>1. \A i \in 1..n : first + i - 1 \in Nat
      BY <1>3
    <2>2. QED
      BY <1>2, <2>1
  <1>5. \A i \in 1..n : s[i] = first + i - 1
    BY <1>2
  <1>6. QED
    BY <1>1, <1>3, <1>4, <1>5

LEMMA DurableReplayInv == ASSUME DurableBounds, DurableInv, Durable!Replay PROVE DurableInv'
  <1>0. /\ durableLog \in Nat /\ durableTail \in 0..durableLog /\ durableFrom \in 0..durableLog /\
             durableRd \in 0..durableLog
        /\ durableShown \in Seq(Nat) /\
             \A i \in 1..Len(durableShown) : durableShown[i] \in 1..durableLog
    BY DEF DurableInv, DurableTypes, DurableBounds
  <1>s. /\ "replay" \in DurableBefore /\ "attach" \in DurableBefore /\
             "ensure" \in DurableBefore /\ "tailed" \in DurableBefore
        /\ "over" \in Durable!Phases /\ DurableBefore \subseteq Durable!Phases /\
             "over" \notin DurableLive
        /\ DurableBefore \cap DurableLive = {} /\ "stream" \in DurableLive /\
             "stream" \in Durable!Phases
        /\ "stream" \notin DurableBefore
    BY DEF DurableBefore, Durable!Phases, DurableLive
  <1>1. CASE Durable!EnsureShellSession
    <2>1. /\ durableAt = "ensure" /\ durableFrom' = durableLog /\
               durableAt' \in {"replay", "attach"} /\ durableTail' = durableTail
          /\ durableShown' = durableShown /\ durableRd' = durableRd
          /\ UNCHANGED <<durableMode, durableZstd, durableLog, durableWire, durableOwed,
               durableSendCh, durableAcked,
                         durableRun, durableWait, durableCompletedCh, durableDropped,
                           durableOthers>>
      BY <1>1 DEF Durable!EnsureShellSession, Durable!server, Durable!prompt
    <2>2. durableShown = <<>> /\ durableTail = 0 /\ durableRd = 0
      BY <2>1, <1>s DEF DurableInv, DurableScreen, DurableWaiting
    <2>3. DurableScreen'
      BY <1>0, <2>1, <2>2 DEF DurableScreen, DurableFollows, DurableEnd
    <2>4. durableFrom' \in 0..durableLog
      BY <1>0, <2>1
    <2>5. QED
      BY <1>0, <1>s, <2>1, <2>2, <2>3, <2>4, DurableReplays
  <1>2. CASE Durable!TailFileLines
    <2>1. /\ durableAt = "replay" /\ durableAt' = "tailed" /\ durableTail' = durableLog /\
               durableFrom' = durableFrom /\ durableRd' = durableRd
          /\ UNCHANGED <<durableMode, durableZstd, durableLog, durableWire, durableOwed,
               durableSendCh, durableAcked,
                         durableRun, durableWait, durableCompletedCh, durableDropped,
                           durableOthers>>
      BY <1>2 DEF Durable!TailFileLines, Durable!server, Durable!prompt
    <2>2. PICK first \in 1..durableLog + 1 :
            durableShown' = [i \in 1..durableLog + 1 - first |-> first + i - 1]
      BY <1>2 DEF Durable!TailFileLines
    <2>3. /\ durableShown' \in Seq(Nat) /\ Len(durableShown') \in Nat
          /\ \A i \in 1..Len(durableShown') : durableShown'[i] \in 1..durableLog
          /\ \A i \in 1..Len(durableShown') - 1 : durableShown'[i + 1] = durableShown'[i] + 1
          /\ durableShown' # <<>> => durableShown'[Len(durableShown')] = durableLog
      <3>1. PICK size \in Nat : size = durableLog
        BY <1>0
      <3>2. PICK s \in Seq(Nat) : s = durableShown'
        <4>1. durableShown' \in Seq(Nat)
          BY <1>0, <2>2, DurableTailPrinted
        <4>2. QED
          BY <4>1
      <3>3. QED
        BY <2>2, <3>1, <3>2, DurableTailPrinted
    <2>4. DurableFollows'
      <3>1. ASSUME NEW i \in 1..Len(durableShown') - 1
            PROVE  durableShown'[i] \in Nat /\ durableShown'[i + 1] = durableShown'[i] + 1
        BY <2>3
      <3>2. QED
        BY <3>1 DEF DurableFollows
    <2>5. DurableScreen'
      BY <2>1, <2>3, <2>4 DEF DurableScreen, DurableEnd
    <2>6. durableRd = 0
      BY <1>s, <2>1 DEF DurableInv, DurableWaiting
    <2>7. durableTail' \in 0..durableLog
      BY <1>0, <2>1
    <2>8. QED
      BY <1>0, <1>s, <2>1, <2>3, <2>5, <2>6, <2>7, DurableReplays
  <1>3. CASE Durable!TailShell
    <2>1. /\ durableAt = "tailed" /\ durableAt' \in {"attach", "over"} /\
               durableFrom' = durableLog /\ durableTail' = durableTail
          /\ durableShown' = durableShown /\ durableRd' = durableRd
          /\ UNCHANGED <<durableMode, durableZstd, durableLog, durableWire, durableOwed,
               durableSendCh, durableAcked,
                         durableRun, durableWait, durableCompletedCh, durableDropped,
                           durableOthers>>
      BY <1>3 DEF Durable!TailShell, Durable!server, Durable!prompt
    <2>2. /\ \A i \in 1..Len(durableShown) - 1 : durableShown[i + 1] = durableShown[i] + 1
          /\ durableShown # <<>> => DurableEnd = durableTail
          /\ durableRd = 0
      BY <1>s, <2>1 DEF DurableInv, DurableScreen, DurableWaiting
    <2>3. DurableFollows'
      <3>1. ASSUME NEW i \in 1..Len(durableShown) - 1
            PROVE  durableShown[i] \in Nat /\ durableShown[i + 1] = durableShown[i] + 1
        BY <1>0, <2>2
      <3>2. QED
        BY <2>1, <3>1 DEF DurableFollows
    <2>4. DurableEnd' = DurableEnd /\ (DurableEnd = durableTail \/ DurableEnd = 0)
      BY <2>1, <2>2 DEF DurableEnd
    <2>5. DurableScreen'
      BY <1>0, <2>1, <2>2, <2>3, <2>4 DEF DurableScreen
    <2>6. durableFrom' \in 0..durableLog
      BY <1>0, <2>1
    <2>7. QED
      BY <1>0, <1>s, <2>1, <2>2, <2>5, <2>6, DurableReplays
  <1>4. CASE Durable!ReplayFails
    <2>1. /\ durableAt = "replay" /\ durableAt' \in {"attach", "over"}
          /\ UNCHANGED <<durableMode, durableZstd, durableLog, durableTail, durableFrom,
               durableShown, durableRd, durableWire, durableOwed, durableSendCh, durableAcked,
                         durableRun, durableWait, durableCompletedCh, durableDropped,
                           durableOthers>>
      BY <1>4 DEF Durable!ReplayFails, Durable!server, Durable!prompt
    <2>2. durableShown = <<>> /\ durableTail = 0 /\ durableRd = 0
      BY <2>1, <1>s DEF DurableInv, DurableScreen, DurableWaiting
    <2>3. DurableScreen'
      BY <1>0, <2>1, <2>2 DEF DurableScreen, DurableFollows, DurableEnd
    <2>4. QED
      BY <1>0, <1>s, <2>1, <2>2, <2>3, DurableReplays
  <1>5. CASE Durable!AttachShell
    <2>1. /\ durableAt = "attach" /\ durableAt' = "stream" /\ durableRd' = durableFrom
          /\ UNCHANGED <<durableMode, durableZstd, durableLog, durableTail, durableFrom,
               durableShown, durableWire, durableOwed, durableSendCh, durableAcked,
                         durableRun, durableWait, durableCompletedCh, durableDropped,
                           durableOthers>>
      BY <1>5 DEF Durable!AttachShell, Durable!prompt
    <2>2. durableTail <= durableFrom /\ (durableShown # <<>> =>
            DurableEnd = durableTail \/ DurableEnd > durableFrom) /\ DurableEnd <= durableFrom /\
              DurableFollows
      BY <2>1 DEF DurableInv, DurableScreen
    <2>3. DurableEnd' = DurableEnd /\ DurablePos' = DurablePos
      BY <2>1 DEF DurableEnd, DurablePos
    <2>4. DurablePos = durableFrom
      BY <2>2, DurableEndTyped, <1>0 DEF DurablePos, DurableInv
    <2>5. DurableFollows'
      BY <2>1, <2>2 DEF DurableFollows
    <2>6. DurableScreen'
      BY <2>1, <2>2, <2>3, <2>5 DEF DurableScreen
    <2>7. QED
      BY <1>0, <1>s, <2>1, <2>3, <2>4, <2>6, DurableReplays
  <1>6. QED
    BY <1>1, <1>2, <1>3, <1>4, <1>5 DEF Durable!Replay

-----------------------------------------------------------------------------
(* The receiving goroutine.                                                *)

LEMMA DurableWireShrinks ==
    ASSUME DurableTypes, durableWire # <<>>, durableWire' = Tail(durableWire)
    PROVE  /\ durableWire' \in Seq(DurableMessages) /\ Head(durableWire) = durableWire[1] /\
                1 \in 1..Len(durableWire)
           /\ durableWire[1] \in DurableMessages
           /\ \A p \in 1..Len(durableWire') : p + 1 \in 1..Len(durableWire) /\
                durableWire'[p] = durableWire[p + 1] /\ 1 < p + 1
           /\ \A p \in 1..Len(durableWire) :
                p = 1 \/ (1 < p /\ p - 1 \in 1..Len(durableWire') /\
                  durableWire'[p - 1] = durableWire[p])
  <1>1. /\ durableWire' \in Seq(DurableMessages) /\ Head(durableWire) = durableWire[1] /\
             durableWire[1] \in DurableMessages
        /\ Len(durableWire) \in Nat \ {0} /\ Len(durableWire') = Len(durableWire) - 1
        /\ \A p \in 1..Len(durableWire) - 1 : durableWire'[p] = durableWire[p + 1]
    BY DurableShrunk DEF DurableTypes
  <1>2. ASSUME NEW p \in 1..Len(durableWire), p # 1
        PROVE  1 < p /\ p - 1 \in 1..Len(durableWire') /\ durableWire'[p - 1] = durableWire[p]
    <2>1. p - 1 \in 1..Len(durableWire) - 1 /\ (p - 1) + 1 = p
      BY <1>1, <1>2
    <2>2. QED
      BY <1>1, <2>1
  <1>3. QED
    BY <1>1, <1>2

\* What is behind the first chunk, or behind a completion, is still to come.
LEMMA DurableStillComing ==
    ASSUME DurableTypes, DurableComing, durableWire # <<>>, durableWire' = Tail(durableWire),
             UNCHANGED durableRd, DurablePos' \in Nat, durableAt' \in DurableLive,
           durableAt \in DurableLive,
           IF DurableIsChunk(1) THEN DurablePos' = DurableUpto(1) ELSE DurablePos' = DurablePos
    PROVE  DurableComing'
  <1>1. /\ 1 \in 1..Len(durableWire) /\ durableWire[1] \in DurableMessages
        /\ \A p \in 1..Len(durableWire') : p + 1 \in 1..Len(durableWire) /\
             durableWire'[p] = durableWire[p + 1] /\ 1 < p + 1
        /\ \A p \in 1..Len(durableWire) :
             p = 1 \/ (1 < p /\ p - 1 \in 1..Len(durableWire') /\
               durableWire'[p - 1] = durableWire[p])
    BY DurableWireShrinks
  <1>2. \A p \in 1..Len(durableWire') : (DurableIsChunk(p)' <=> DurableIsChunk(p + 1)) /\
          DurableUpto(p)' = DurableUpto(p + 1)
    BY <1>1 DEF DurableIsChunk, DurableUpto
  <1>3. \A p \in 1..Len(durableWire) : p # 1 =>
          (DurableIsChunk(p - 1)' <=> DurableIsChunk(p)) /\ DurableUpto(p - 1)' = DurableUpto(p)
    BY <1>1 DEF DurableIsChunk, DurableUpto
  <1>4. DurablePos' <= durableRd'
    BY <1>1 DEF DurableComing
  <1>5. ASSUME NEW p \in 1..Len(durableWire'), DurableIsChunk(p)'
        PROVE  DurablePos' <= durableWire'[p].off /\ DurableUpto(p)' <= durableRd'
    <2>1. p + 1 \in 1..Len(durableWire) /\ DurableIsChunk(p + 1) /\
            DurableUpto(p)' = DurableUpto(p + 1) /\ 1 < p + 1
          /\ durableWire'[p].off = durableWire[p + 1].off
      BY <1>1, <1>2, <1>5
    <2>2. QED
      BY <1>1, <2>1 DEF DurableComing
  <1>6. ASSUME NEW p \in 1..Len(durableWire'), NEW r \in 1..Len(durableWire'), DurableIsChunk(p)',
                 DurableIsChunk(r)', p < r
        PROVE  DurableUpto(p)' <= durableWire'[r].off
    <2>1. /\ p + 1 \in 1..Len(durableWire) /\ DurableIsChunk(p + 1) /\
               DurableUpto(p)' = DurableUpto(p + 1)
          /\ r + 1 \in 1..Len(durableWire) /\ DurableIsChunk(r + 1) /\
               durableWire'[r].off = durableWire[r + 1].off
          /\ p + 1 < r + 1
      BY <1>1, <1>2, <1>6
    <2>2. QED
      BY <2>1 DEF DurableComing
  <1>7. ASSUME NEW n \in DurablePos' + 1..durableRd'
        PROVE  \E p \in 1..Len(durableWire') : DurableIsChunk(p)' /\ durableWire'[p].off < n /\
                 n <= DurableUpto(p)'
    <2>1. n \in DurablePos + 1..durableRd /\ (DurableIsChunk(1) => DurableUpto(1) < n)
      <3>1. CASE ~DurableIsChunk(1)
        BY <1>7, <3>1
      <3>2. CASE DurableIsChunk(1)
        <4>1. durableWire[1].off \in Nat /\ durableWire[1].len \in Nat
          BY <1>1, <3>2, DurableChunkFields DEF DurableIsChunk
        <4>2. DurablePos <= durableWire[1].off /\
                DurableUpto(1) = durableWire[1].off + durableWire[1].len
          BY <1>1, <3>2 DEF DurableComing, DurableUpto
        <4>3. DurablePos \in Nat /\ DurablePos' = DurableUpto(1) /\ durableRd \in Nat
          BY <3>2, DurableEndTyped DEF DurableTypes
        <4>4. QED
          BY <1>7, <4>1, <4>2, <4>3
      <3>3. QED
        BY <3>1, <3>2
    <2>2. PICK p \in 1..Len(durableWire) : DurableIsChunk(p) /\ durableWire[p].off < n /\
            n <= DurableUpto(p)
      BY <2>1 DEF DurableComing
    <2>3. p # 1
      <3>1. SUFFICES ASSUME p = 1 PROVE FALSE
        OBVIOUS
      <3>2. DurableIsChunk(1) /\ n <= DurableUpto(1) /\ DurableUpto(1) < n
        BY <2>1, <2>2, <3>1
      <3>3. DurableUpto(1) \in Nat /\ n \in Int
        <4>1. durableWire[1].off \in Nat /\ durableWire[1].len \in Nat
          BY <1>1, <3>2, DurableChunkFields DEF DurableIsChunk
        <4>2. QED
          BY <1>7, <4>1 DEF DurableUpto
      <3>4. QED
        BY <3>2, <3>3
    <2>4. /\ p - 1 \in 1..Len(durableWire') /\ DurableIsChunk(p - 1)' /\ durableWire'[p - 1].off < n
          /\ n <= DurableUpto(p - 1)'
      BY <1>1, <1>3, <2>2, <2>3
    <2>5. QED
      BY <2>4
  <1>8. QED
    BY <1>4, <1>5, <1>6, <1>7, Zenon DEF DurableComing

LEMMA DurableRecvChunkInv == ASSUME DurableBounds, DurableInv, Durable!RecvChunk PROVE DurableInv'
  <1>1. PICK c \in DurableChunks : c = Head(durableWire)
    <2>1. durableWire # <<>> /\ Head(durableWire).kind = "chunk" /\
            Head(durableWire) \in DurableMessages
      BY DurableShrunk DEF Durable!RecvChunk, DurableInv, DurableTypes
    <2>2. QED
      BY <2>1, DurableChunkFields
  <1>2. /\ durableAt \in {"stream", "closing", "closed"} /\ durableWire # <<>> /\
             durableWire' = Tail(durableWire)
        /\ durableShown' = durableShown \o [i \in 1..c.len |-> c.off + i] /\
             durableOwed' = c.off + c.len
        /\ UNCHANGED <<durableMode, durableZstd, durableAt, durableLog, durableTail, durableFrom,
             durableRd, durableSendCh, durableAcked,
                       durableRun, durableWait, durableCompletedCh, durableDropped, durableOthers>>
    BY <1>1 DEF Durable!RecvChunk, Durable!Streams, Durable!server, Durable!prompt
  <1>3. /\ durableWire' \in Seq(DurableMessages) /\ durableWire[1] = c /\
             1 \in 1..Len(durableWire) /\ DurableIsChunk(1)
        /\ \A p \in 1..Len(durableWire') : p + 1 \in 1..Len(durableWire) /\
             durableWire'[p] = durableWire[p + 1]
        /\ \A p \in 1..Len(durableWire) : p = 1 \/ (p - 1 \in 1..Len(durableWire') /\
             durableWire'[p - 1] = durableWire[p])
    <2>1. c.kind = "chunk"
      BY DEF DurableChunks
    <2>2. QED
      BY <1>1, <1>2, <2>1, DurableWireShrinks DEF DurableInv, DurableIsChunk
  <1>4. /\ c.off \in Nat /\ c.len \in Nat /\ c.len # 0 /\ DurableUpto(1) = c.off + c.len
        /\ DurableEnd \in Nat /\ DurablePos \in Nat /\ durableFrom \in Nat /\ durableLog \in Nat /\
             durableRd \in Nat /\ durableRd <= durableLog
        /\ durableFrom <= DurablePos /\ DurableEnd <= DurablePos /\
             (DurablePos = DurableEnd \/ DurablePos = durableFrom)
    <2>1. DurableEnd \in Nat /\ DurablePos \in Nat /\ durableFrom \in Nat /\ durableLog \in Nat /\
            durableRd \in Nat /\ durableRd <= durableLog
      BY DurableEndTyped DEF DurableInv, DurableTypes, DurableBounds
    <2>2. QED
      BY <1>3, <2>1 DEF DurableChunks, DurableUpto, DurablePos
  <1>5. DurablePos <= c.off /\ c.off + c.len <= durableRd
    BY <1>3, <1>4 DEF DurableInv, DurableComing
  <1>6. c.off = DurablePos
    <2>1. SUFFICES ASSUME c.off # DurablePos PROVE FALSE
      OBVIOUS
    <2>2. DurablePos + 1 \in DurablePos + 1..durableRd
      BY <1>4, <1>5
    <2>3. PICK p \in 1..Len(durableWire) : DurableIsChunk(p) /\
            durableWire[p].off < DurablePos + 1 /\ DurablePos + 1 <= DurableUpto(p)
      BY <2>2 DEF DurableInv, DurableComing
    <2>4. durableWire[p].off \in Nat /\ p \in Nat
      <3>1. durableWire[p] \in DurableMessages
        BY DEF DurableInv, DurableTypes
      <3>2. QED
        BY <2>3, <3>1, DurableChunkFields DEF DurableIsChunk
    <2>5. p # 1
      BY <1>3, <1>4, <1>5, <2>1, <2>3
    <2>6. DurableUpto(1) <= durableWire[p].off
      BY <1>3, <2>3, <2>4, <2>5 DEF DurableInv, DurableComing
    <2>7. QED
      BY <1>4, <1>5, <2>3, <2>4, <2>6
  <1>7. PICK new \in Seq(Nat) :
                                /\ new = [i \in 1..c.len |-> c.off + i] /\ Len(new) = c.len
                                /\ \A i \in 1..c.len : new[i] = DurablePos + i
    <2>1. /\ [i \in 1..c.len |-> c.off + i] \in Seq(Nat) /\
               Len([i \in 1..c.len |-> c.off + i]) = c.len
          /\ \A i \in 1..c.len : [j \in 1..c.len |-> c.off + j][i] = c.off + i
      BY <1>4, DurableStretch
    <2>2. QED
      BY <1>6, <2>1
  <1>8. PICK n \in Nat : n = Len(durableShown)
    BY DEF DurableInv, DurableTypes
  <1>9. /\ durableShown' \in Seq(Nat) /\ Len(durableShown') = n + c.len
        /\ \A i \in 1..n : durableShown'[i] = durableShown[i] /\ durableShown'[i] \in 1..durableLog
        /\ \A i \in 1..c.len : durableShown'[n + i] = DurablePos + i
    <2>1. durableShown \in Seq(Nat) /\ \A i \in 1..n : durableShown[i] \in 1..durableLog
      BY <1>8 DEF DurableInv, DurableTypes
    <2>2. /\ durableShown' \in Seq(Nat) /\ Len(durableShown') = n + c.len
          /\ \A i \in 1..n : durableShown'[i] = durableShown[i]
          /\ \A i \in n + 1..n + c.len : durableShown'[i] = new[i - n]
      <3>1. durableShown' = durableShown \o new
        BY <1>2, <1>7
      <3>2. /\ durableShown \o new \in Seq(Nat) /\
                 Len(durableShown \o new) = Len(durableShown) + Len(new)
            /\ \A i \in 1..Len(durableShown) : (durableShown \o new)[i] = durableShown[i]
            /\ \A i \in Len(durableShown) + 1..Len(durableShown) + Len(new) :
                 (durableShown \o new)[i] = new[i - Len(durableShown)]
        BY <2>1, DurableJoined
      <3>3. QED
        BY <1>7, <1>8, <3>1, <3>2
    <2>3. ASSUME NEW i \in 1..c.len PROVE durableShown'[n + i] = DurablePos + i
      <3>1. n + i \in n + 1..n + c.len /\ (n + i) - n = i
        BY <1>4
      <3>2. QED
        BY <1>7, <2>2, <3>1
    <2>4. QED
      BY <2>1, <2>2, <2>3
  <1>10. \A i \in 1..Len(durableShown') : i \in 1..n \/ (i - n \in 1..c.len /\ n + (i - n) = i)
    BY <1>4, <1>9
  <1>11. DurableEnd' = DurablePos + c.len /\ DurablePos' = DurablePos + c.len /\
           durableShown' # <<>>
    <2>1. c.len \in 1..c.len /\ Len(durableShown') # 0
      BY <1>4, <1>9
    <2>2. DurableEnd' = DurablePos + c.len /\ durableShown' # <<>>
      BY <1>9, <2>1 DEF DurableEnd
    <2>3. QED
      BY <1>2, <1>4, <2>2 DEF DurablePos
  <1>12. DurableTypes'
    <2>1. \A i \in 1..Len(durableShown') : durableShown'[i] \in 1..durableLog
      <3>1. \A k \in 1..c.len : DurablePos + k \in 1..durableLog
        BY <1>4, <1>5, <1>6
      <3>2. QED
        BY <1>9, <1>10, <3>1
    <2>2. durableOwed' \in 0..durableLog
      BY <1>2, <1>4, <1>5
    <2>3. QED
      BY <1>2, <1>3, <1>9, <2>1, <2>2 DEF DurableInv, DurableTypes
  <1>13. DurableFollows'
    <2>1. ASSUME NEW i \in 1..Len(durableShown') - 1
          PROVE  /\ durableShown'[i] < durableShown'[i + 1]
                 /\ \A p \in durableShown'[i] + 1..durableShown'[i + 1] - 1 :
                      p \in durableTail + 1..durableFrom
      <3>1. CASE i < n
        <4>1. i \in 1..Len(durableShown) - 1 /\ i \in 1..n /\ i + 1 \in 1..n
          BY <1>8, <3>1
        <4>2. durableShown'[i] = durableShown[i] /\ durableShown'[i + 1] = durableShown[i + 1]
          BY <1>9, <4>1
        <4>3. QED
          BY <4>1, <4>2 DEF DurableInv, DurableScreen, DurableFollows
      <3>2. CASE i = n
        <4>1. durableShown # <<>> /\ durableShown'[i] = DurableEnd /\
                durableShown'[i + 1] = DurablePos + 1
          <5>1. n \in 1..n /\ 1 \in 1..c.len /\ n # 0
            BY <1>4, <3>2
          <5>2. QED
            BY <1>8, <1>9, <3>2, <5>1 DEF DurableEnd
        <4>2. durableTail <= durableFrom /\
                (DurableEnd = durableTail \/ DurableEnd > durableFrom) /\ durableTail \in Nat
          BY <1>2, <4>1 DEF DurableInv, DurableScreen, DurableTypes
        <4>3. QED
          BY <1>4, <4>1, <4>2 DEF DurablePos
      <3>3. CASE i > n
        <4>1. PICK k \in 1..c.len : k = i - n
          <5>1. i \in 1..Len(durableShown') /\ i \notin 1..n
            BY <1>9, <3>3
          <5>2. QED
            BY <1>10, <5>1
        <4>2. k + 1 \in 1..c.len /\ i = n + k /\ i + 1 = n + (k + 1)
          BY <1>4, <1>9, <2>1, <4>1
        <4>3. durableShown'[i] = DurablePos + k /\ durableShown'[i + 1] = DurablePos + (k + 1)
          BY <1>9, <4>2
        <4>4. QED
          BY <1>4, <4>1, <4>3
      <3>4. QED
        BY <3>1, <3>2, <3>3
    <2>2. QED
      BY <1>2, <2>1 DEF DurableFollows
  <1>14. DurableScreen'
    <2>1. durableAt' \notin {"ensure", "replay", "tailed", "attach"} /\ durableTail' <= durableFrom'
      BY <1>2 DEF DurableInv, DurableScreen
    <2>2. DurableEnd' > durableFrom'
      BY <1>2, <1>4, <1>11
    <2>3. QED
      BY <1>13, <2>1, <2>2 DEF DurableScreen
  <1>15. DurableComing'
    <2>1. DurablePos' = DurableUpto(1) /\ DurablePos' \in Nat /\ durableAt \in DurableLive /\
            durableAt' \in DurableLive
      BY <1>2, <1>4, <1>6, <1>11 DEF DurableLive
    <2>2. QED
      BY <1>2, <1>3, <2>1, DurableStillComing DEF DurableInv
  <1>16. DurableAcked'
    <2>1. DurableEnd <= DurableEnd' /\ DurableEnd' = durableOwed'
      BY <1>2, <1>4, <1>6, <1>11
    <2>2. durableAcked <= DurableEnd' /\
            \A i \in 1..Len(durableSendCh) : durableSendCh[i] <= DurableEnd'
      <3>1. durableAcked \in Nat /\ \A i \in 1..Len(durableSendCh) : durableSendCh[i] \in Nat
        BY DEF DurableInv, DurableTypes
      <3>2. durableAcked <= DurableEnd /\
              \A i \in 1..Len(durableSendCh) : durableSendCh[i] <= DurableEnd
        BY DEF DurableInv, DurableAcked
      <3>3. DurableEnd' \in Nat
        BY <1>4, <1>11
      <3>4. QED
        BY <1>4, <2>1, <3>1, <3>2, <3>3
    <2>3. durableOwed' <= DurableEnd'
      BY <1>2, <1>4, <2>1
    <2>4. QED
      BY <1>2, <2>2, <2>3 DEF DurableAcked
  <1>17. DurablePrompted'
    <2>1. \A p \in 1..Len(durableWire'), i \in Nat : DurableIsDone(p, i)' =>
            p + 1 \in 1..Len(durableWire) /\ DurableIsDone(p + 1, i)
      BY <1>3 DEF DurableIsDone
    <2>2. \A p \in 1..Len(durableWire), i \in Nat : DurableIsDone(p, i) =>
            p - 1 \in 1..Len(durableWire') /\ DurableIsDone(p - 1, i)'
      <3>1. \A i \in Nat : ~DurableIsDone(1, i)
        BY <1>3 DEF DurableIsDone, DurableIsChunk
      <3>2. ASSUME NEW p \in 1..Len(durableWire), NEW i \in Nat, DurableIsDone(p, i)
            PROVE  p - 1 \in 1..Len(durableWire') /\ DurableIsDone(p - 1, i)'
        <4>1. p # 1
          BY <3>1, <3>2
        <4>2. QED
          BY <1>3, <3>2, <4>1 DEF DurableIsDone
      <3>3. QED
        BY <3>2
    <2>3. Durable!Runs \subseteq Nat /\ durableWait \in Nat
      BY DEF DurableInv, DurableTypes, Durable!Runs, DurableBounds
    <2>4. \A i \in Durable!Runs, p \in 1..Len(durableWire') : DurableIsDone(p, i)' =>
            durableRun[i] = "finished"
      BY <2>1, <2>3 DEF DurableInv, DurablePrompted
    <2>5. (\E p \in 1..Len(durableWire) : DurableIsDone(p, durableWait)) =>
            \E p \in 1..Len(durableWire') : DurableIsDone(p, durableWait)'
      <3>1. SUFFICES ASSUME NEW p \in 1..Len(durableWire), DurableIsDone(p, durableWait)
                     PROVE  \E r \in 1..Len(durableWire') : DurableIsDone(r, durableWait)'
        BY <1>2
      <3>2. p - 1 \in 1..Len(durableWire') /\ DurableIsDone(p - 1, durableWait)'
        BY <1>2, <2>2, <2>3, <3>1
      <3>3. QED
        BY <3>2
    <2>6. QED
      BY <1>2, <2>4, <2>5 DEF DurableInv, DurablePrompted
  <1>18. durableAt' \notin DurableBefore
    BY <1>2 DEF DurableBefore
  <1>19. QED
    BY <1>12, <1>14, <1>15, <1>16, <1>17, <1>18, DurableLater DEF DurableInv

\* A goroutine ends, or the command does.
LEMMA DurableEndingInv ==
    ASSUME DurableBounds, DurableInv, Durable!DecodeFails \/ Durable!Ends \/ Durable!PromptEnds \/
             Durable!CloseSendCh \/ Durable!PumpReturns
    PROVE  DurableInv'
  <1>1. /\ durableAt \notin DurableBefore /\ durableAt' \in Durable!Phases \ DurableBefore /\
             (durableAt' \in DurableLive => durableAt \in DurableLive)
        /\ UNCHANGED <<durableMode, durableZstd, durableLog, durableTail, durableFrom,
             durableShown, durableRd, durableWire, durableOwed, durableSendCh, durableAcked,
                       durableRun, durableWait, durableCompletedCh, durableDropped, durableOthers>>
    <2>1. CASE Durable!DecodeFails
      BY <2>1 DEF Durable!DecodeFails, DurableBefore, Durable!Phases, DurableLive, Durable!server,
         Durable!prompt
    <2>2. CASE Durable!Ends
      BY <2>2 DEF Durable!Ends, DurableBefore, Durable!Phases, DurableLive, Durable!server,
         Durable!prompt
    <2>3. CASE Durable!PromptEnds \/ Durable!CloseSendCh \/ Durable!PumpReturns
      BY <2>3 DEF Durable!PromptEnds, Durable!CloseSendCh, Durable!PumpReturns, DurableBefore,
         Durable!Phases, DurableLive, Durable!server, Durable!prompt
    <2>4. QED
      BY <2>1, <2>2, <2>3
  <1>2. QED
    BY <1>1, DurableMoves

\* An acknowledgement goes on: to the queue, or to the server, or nowhere.
LEMMA DurableAckMoves ==
    ASSUME DurableBounds, DurableInv, durableAt \notin DurableBefore,
             durableAt' \in Durable!Phases \ DurableBefore, durableAt' \in DurableLive =>
               durableAt \in DurableLive,
           UNCHANGED <<durableMode, durableZstd, durableLog, durableTail, durableFrom,
             durableShown, durableRd, durableWire,
                       durableRun, durableWait, durableCompletedCh, durableDropped, durableOthers>>,
           durableSendCh' \in Seq(Nat), Len(durableSendCh') <= DurableSendCap,
           \A i \in 1..Len(durableSendCh') :
             durableSendCh'[i] = durableOwed \/
               \E j \in 1..Len(durableSendCh) : durableSendCh'[i] = durableSendCh[j],
           durableOwed' \in {0, durableOwed},
           durableAcked' \in {durableAcked, durableOwed} \/
             \E j \in 1..Len(durableSendCh) : durableAcked' = durableSendCh[j]
    PROVE  DurableInv'
  <1>1. /\ durableLog \in Nat /\ durableOwed \in 0..durableLog /\ durableAcked \in 0..durableLog /\
             0 \in 0..durableLog
        /\ \A i \in 1..Len(durableSendCh) : durableSendCh[i] \in 0..durableLog
    BY DEF DurableInv, DurableTypes, DurableBounds
  <1>2. durableOwed' \in 0..durableLog /\ durableAcked' \in 0..durableLog /\
          \A i \in 1..Len(durableSendCh') : durableSendCh'[i] \in 0..durableLog
    BY <1>1
  <1>3. DurableTypes'
    BY <1>2 DEF DurableInv, DurableTypes
  <1>4. DurableScreen' /\ DurableEnd' = DurableEnd /\ DurablePos' = DurablePos
    BY DurableScreenStays DEF DurableInv
  <1>5. /\ durableOwed <= DurableEnd /\ durableAcked <= DurableEnd /\ 0 <= DurableEnd /\
             \A i \in 1..Len(durableSendCh) : durableSendCh[i] <= DurableEnd
    BY DurableEndTyped DEF DurableInv, DurableAcked
  <1>6. /\ durableOwed' <= DurableEnd /\ durableAcked' <= DurableEnd /\
             \A i \in 1..Len(durableSendCh') : durableSendCh'[i] <= DurableEnd
    BY <1>5
  <1>7. DurableAcked'
    BY <1>4, <1>6 DEF DurableAcked
  <1>8. QED
    BY <1>3, <1>4, <1>7, DurableLater, DurableComingStays, DurablePromptedStays DEF DurableInv

LEMMA DurableEnqueueInv == ASSUME DurableBounds, DurableInv, Durable!Enqueue PROVE DurableInv'
  <1>1. /\ durableAt \in {"stream", "closing", "closed"} /\ durableOwed' = 0 /\
             durableAcked' = durableAcked
        /\ UNCHANGED <<durableMode, durableZstd, durableLog, durableTail, durableFrom,
             durableShown, durableRd, durableWire,
                       durableRun, durableWait, durableCompletedCh, durableDropped, durableOthers>>
        /\ durableAt' = durableAt \/ durableAt' = "panicked"
    BY DEF Durable!Enqueue, Durable!Streams, Durable!server, Durable!prompt
  <1>2. durableAt \notin DurableBefore /\ durableAt' \in Durable!Phases \ DurableBefore /\
          (durableAt' \in DurableLive => durableAt \in DurableLive)
    BY <1>1 DEF DurableBefore, Durable!Phases, DurableLive
  <1>3. \/ Len(durableSendCh) < DurableSendCap /\
             durableSendCh' = Append(durableSendCh, durableOwed)
        \/ durableSendCh' = durableSendCh
    BY DEF Durable!Enqueue
  <1>4. /\ durableSendCh' \in Seq(Nat) /\ Len(durableSendCh') <= DurableSendCap
        /\ \A i \in 1..Len(durableSendCh') :
             durableSendCh'[i] = durableOwed \/
               \E j \in 1..Len(durableSendCh) : durableSendCh'[i] = durableSendCh[j]
    <2>0. durableSendCh \in Seq(Nat) /\ Len(durableSendCh) <= DurableSendCap /\
            durableOwed \in Nat /\ DurableSendCap \in Nat
      BY DEF DurableInv, DurableTypes, DurableBounds
    <2>1. CASE durableSendCh' = durableSendCh
      BY <2>0, <2>1
    <2>2. CASE Len(durableSendCh) < DurableSendCap /\
                 durableSendCh' = Append(durableSendCh, durableOwed)
      <3>1. /\ durableSendCh' \in Seq(Nat) /\ Len(durableSendCh') = Len(durableSendCh) + 1 /\
                 Len(durableSendCh) \in Nat
            /\ durableSendCh'[Len(durableSendCh) + 1] = durableOwed
            /\ \A i \in 1..Len(durableSendCh) : durableSendCh'[i] = durableSendCh[i]
        BY <2>0, <2>2, DurableGrown
      <3>2. QED
        BY <2>0, <2>2, <3>1
    <2>3. QED
      BY <1>3, <2>1, <2>2
  <1>5. QED
    BY <1>1, <1>2, <1>4, DurableAckMoves

LEMMA DurableSendInv == ASSUME DurableBounds, DurableInv, Durable!Send PROVE DurableInv'
  <1>1. /\ durableAt \in {"stream", "closing", "closed"} /\ durableAt' = durableAt /\
             durableSendCh # <<>>
        /\ durableSendCh' = Tail(durableSendCh) /\ durableAcked' = Head(durableSendCh) /\
             durableOwed' = durableOwed
        /\ UNCHANGED <<durableMode, durableZstd, durableLog, durableTail, durableFrom,
             durableShown, durableRd, durableWire,
                       durableRun, durableWait, durableCompletedCh, durableDropped, durableOthers>>
    BY DEF Durable!Send, Durable!Streams, Durable!server, Durable!prompt
  <1>2. durableAt \notin DurableBefore /\ durableAt' \in Durable!Phases \ DurableBefore /\
          (durableAt' \in DurableLive => durableAt \in DurableLive)
    BY <1>1 DEF DurableBefore, Durable!Phases, DurableLive
  <1>3. /\ durableSendCh' \in Seq(Nat) /\ Len(durableSendCh') = Len(durableSendCh) - 1 /\
             Len(durableSendCh) \in Nat \ {0}
        /\ Head(durableSendCh) = durableSendCh[1] /\
             \A i \in 1..Len(durableSendCh) - 1 : durableSendCh'[i] = durableSendCh[i + 1]
    BY <1>1, DurableShrunk DEF DurableInv, DurableTypes
  <1>4. Len(durableSendCh) <= DurableSendCap /\ DurableSendCap \in Nat
    BY DEF DurableInv, DurableTypes, DurableBounds
  <1>5. /\ \A i \in 1..Len(durableSendCh') : i + 1 \in 1..Len(durableSendCh) /\
             durableSendCh'[i] = durableSendCh[i + 1]
        /\ 1 \in 1..Len(durableSendCh) /\ Len(durableSendCh') <= DurableSendCap
    BY <1>3, <1>4
  <1>6. QED
    BY <1>1, <1>2, <1>3, <1>5, DurableAckMoves

LEMMA DurableSendAckInv == ASSUME DurableBounds, DurableInv, Durable!SendAck PROVE DurableInv'
  <1>1. /\ durableAt \in {"stream", "closing", "closed"} /\ durableAt' = durableAt /\
             durableSendCh' = durableSendCh
        /\ durableAcked' = durableOwed /\ durableOwed' = 0
        /\ UNCHANGED <<durableMode, durableZstd, durableLog, durableTail, durableFrom,
             durableShown, durableRd, durableWire,
                       durableRun, durableWait, durableCompletedCh, durableDropped, durableOthers>>
    BY DEF Durable!SendAck, Durable!Streams, Durable!server, Durable!prompt
  <1>2. durableAt \notin DurableBefore /\ durableAt' \in Durable!Phases \ DurableBefore /\
          (durableAt' \in DurableLive => durableAt \in DurableLive)
    BY <1>1 DEF DurableBefore, Durable!Phases, DurableLive
  <1>3. durableSendCh \in Seq(Nat) /\ Len(durableSendCh) <= DurableSendCap
    BY DEF DurableInv, DurableTypes
  <1>4. QED
    BY <1>1, <1>2, <1>3, DurableAckMoves

LEMMA DurableRecvCompletedInv == ASSUME DurableBounds, DurableInv, Durable!RecvCompleted
  PROVE DurableInv'
  <1>1. /\ durableAt \in {"stream", "closing", "closed"} /\ durableWire # <<>> /\
             durableWire' = Tail(durableWire)
        /\ Head(durableWire).kind = "completed"
        /\ UNCHANGED <<durableMode, durableZstd, durableAt, durableLog, durableTail, durableFrom,
             durableShown, durableRd, durableOwed, durableSendCh, durableAcked,
                       durableRun, durableWait, durableOthers>>
        /\ \/ /\ Len(durableCompletedCh) < DurableDoneCap
              /\ durableCompletedCh' = Append(durableCompletedCh, Head(durableWire).id) /\
                   durableDropped' = durableDropped
           \/ durableDropped' = durableDropped \cup {Head(durableWire).id} /\
                durableCompletedCh' = durableCompletedCh
    BY DEF Durable!RecvCompleted, Durable!Streams, Durable!server, Durable!prompt
  <1>2. /\ durableWire' \in Seq(DurableMessages) /\ durableWire[1] = Head(durableWire) /\
             1 \in 1..Len(durableWire) /\ ~DurableIsChunk(1)
        /\ durableWire[1] \in DurableMessages
        /\ \A p \in 1..Len(durableWire') : p + 1 \in 1..Len(durableWire) /\
             durableWire'[p] = durableWire[p + 1]
        /\ \A p \in 1..Len(durableWire) : p = 1 \/ (p - 1 \in 1..Len(durableWire') /\
             durableWire'[p - 1] = durableWire[p])
    BY <1>1, DurableWireShrinks DEF DurableInv, DurableIsChunk
  <1>3. PICK d \in 0..DurableMaxRuns : d = Head(durableWire).id /\ DurableIsDone(1, d)
    <2>1. Head(durableWire).id \in 0..DurableMaxRuns
      BY <1>1, <1>2, DurableChunkFields
    <2>2. QED
      BY <1>1, <1>2, <2>1 DEF DurableIsDone
  <1>4. /\ durableCompletedCh' \in Seq(0..DurableMaxRuns) /\
             Len(durableCompletedCh') <= DurableDoneCap
        /\ \A p \in 1..Len(durableCompletedCh) : p \in 1..Len(durableCompletedCh') /\
             durableCompletedCh'[p] = durableCompletedCh[p]
        /\ \A p \in 1..Len(durableCompletedCh') :
             durableCompletedCh'[p] = d \/ (p \in 1..Len(durableCompletedCh) /\
               durableCompletedCh'[p] = durableCompletedCh[p])
        /\ d \in durableDropped' \/
             \E p \in 1..Len(durableCompletedCh') : durableCompletedCh'[p] = d
        /\ durableDropped \subseteq durableDropped' /\ durableDropped' \subseteq 0..DurableMaxRuns
    <2>0. /\ durableCompletedCh \in Seq(0..DurableMaxRuns) /\
               Len(durableCompletedCh) <= DurableDoneCap /\ DurableDoneCap \in Nat
          /\ durableDropped \subseteq 0..DurableMaxRuns
      BY DEF DurableInv, DurableTypes, DurableBounds
    <2>1. CASE durableDropped' = durableDropped \cup {d} /\ durableCompletedCh' = durableCompletedCh
      BY <2>0, <2>1
    <2>2. CASE /\ Len(durableCompletedCh) < DurableDoneCap
               /\ durableCompletedCh' = Append(durableCompletedCh, d) /\
                    durableDropped' = durableDropped
      <3>1. /\ durableCompletedCh' \in Seq(0..DurableMaxRuns) /\
                 Len(durableCompletedCh') = Len(durableCompletedCh) + 1
            /\ Len(durableCompletedCh) \in Nat /\
                 durableCompletedCh'[Len(durableCompletedCh) + 1] = d
            /\ \A i \in 1..Len(durableCompletedCh) : durableCompletedCh'[i] = durableCompletedCh[i]
        BY <2>0, <2>2, DurableGrown
      <3>2. QED
        BY <2>0, <2>2, <3>1
    <2>3. QED
      BY <1>1, <1>3, <2>1, <2>2
  <1>5. DurableTypes'
    BY <1>1, <1>2, <1>4 DEF DurableInv, DurableTypes
  <1>6. durableAt \notin DurableBefore /\ durableAt' \notin DurableBefore /\
          durableAt \in DurableLive /\ durableAt' \in DurableLive
    BY <1>1 DEF DurableBefore, DurableLive
  <1>7. DurableScreen' /\ DurableEnd' = DurableEnd /\ DurablePos' = DurablePos
    BY <1>1, <1>6, DurableScreenStays DEF DurableInv
  <1>8. DurableComing'
    BY <1>1, <1>2, <1>6, <1>7, DurableEndTyped, DurableStillComing DEF DurableInv
  <1>9. DurablePrompted'
    <2>1. Durable!Runs \subseteq Nat /\ durableWait \in Nat /\ durableWait = durableWait'
      BY <1>1 DEF DurableInv, DurableTypes, Durable!Runs, DurableBounds
    <2>2. \A i \in Durable!Runs, p \in 1..Len(durableWire') : DurableIsDone(p, i)' =>
            durableRun[i] = "finished"
      <3>1. \A p \in 1..Len(durableWire'), i \in Nat : DurableIsDone(p, i)' =>
              p + 1 \in 1..Len(durableWire) /\ DurableIsDone(p + 1, i)
        BY <1>2 DEF DurableIsDone
      <3>2. QED
        BY <2>1, <3>1 DEF DurableInv, DurablePrompted
    <2>3. \A i \in Durable!Runs : d = i => durableRun[i] = "finished"
      BY <1>2, <1>3 DEF DurableInv, DurablePrompted
    <2>4. \A i \in Durable!Runs, p \in 1..Len(durableCompletedCh') : durableCompletedCh'[p] = i =>
            durableRun[i] = "finished"
      BY <1>4, <2>3 DEF DurableInv, DurablePrompted
    <2>5. (\E p \in 1..Len(durableWire) : DurableIsDone(p, durableWait)) =>
             d = durableWait \/ \E p \in 1..Len(durableWire') : DurableIsDone(p, durableWait)'
      <3>1. SUFFICES ASSUME NEW p \in 1..Len(durableWire), DurableIsDone(p, durableWait),
                       d # durableWait
                     PROVE  \E r \in 1..Len(durableWire') : DurableIsDone(r, durableWait)'
        BY <2>1
      <3>2. p # 1
        BY <1>3, <3>1 DEF DurableIsDone
      <3>3. p - 1 \in 1..Len(durableWire') /\ DurableIsDone(p - 1, durableWait)'
        BY <1>2, <2>1, <3>1, <3>2 DEF DurableIsDone
      <3>4. QED
        BY <3>3
    <2>6. durableWait # 0 =>
                      \/ durableRun[durableWait] \in DurableActive \/
                           durableWait \in durableDropped'
                      \/ \E p \in 1..Len(durableCompletedCh') : durableCompletedCh'[p] = durableWait
                      \/ \E p \in 1..Len(durableWire') : DurableIsDone(p, durableWait)'
      <3>1. SUFFICES ASSUME durableWait # 0, durableRun[durableWait] \notin DurableActive,
                       durableWait \notin durableDropped',
                            ~\E p \in 1..Len(durableWire') : DurableIsDone(p, durableWait)'
                     PROVE  \E p \in 1..Len(durableCompletedCh') :
                              durableCompletedCh'[p] = durableWait
        OBVIOUS
      <3>2. CASE d = durableWait
        BY <1>4, <3>1, <3>2
      <3>3. CASE d # durableWait
        <4>1. \E p \in 1..Len(durableCompletedCh) : durableCompletedCh[p] = durableWait
          BY <1>4, <2>5, <3>1, <3>3 DEF DurableInv, DurablePrompted
        <4>2. QED
          BY <1>4, <4>1
      <3>4. QED
        BY <3>2, <3>3
    <2>7. QED
      BY <1>1, <2>2, <2>4, <2>6 DEF DurableInv, DurablePrompted
  <1>10. QED
    BY <1>1, <1>5, <1>6, <1>7, <1>8, <1>9, DurableLater, DurableAckedStays DEF DurableInv

LEMMA DurableNextInv == DurableBounds /\ DurableInv /\ [Durable!Next]_Durable!vars => DurableInv'
  <1>1. SUFFICES ASSUME DurableBounds, DurableInv, [Durable!Next]_Durable!vars PROVE DurableInv'
    OBVIOUS
  <1>2. CASE UNCHANGED Durable!vars
    BY <1>1, <1>2 DEF Durable!vars, DurableInv, DurableTypes, DurableWaiting, DurableScreen,
       DurableFollows, DurableEnd, DurablePos, DurableComing, DurableIsChunk, DurableUpto,
       DurableAcked, DurablePrompted, DurableIsDone
  <1>3. CASE Durable!Shell
    BY <1>1, <1>3, DurableOutputInv, DurableSendChunkInv, DurableCompleteOtherInv,
       DurableCompleteRunInv, DurableRunStepInv DEF Durable!Shell
  <1>4. CASE Durable!Replay
    BY <1>1, <1>4, DurableReplayInv
  <1>5. CASE Durable!pumpShell
    BY <1>1, <1>5, DurableRecvChunkInv, DurableEndingInv, DurableEnqueueInv, DurableSendInv,
       DurableSendAckInv, DurableRecvCompletedInv
       DEF Durable!pumpShell
  <1>6. CASE Durable!runShellCommandMode
    BY <1>1, <1>6, DurableTakeCompletedInv, DurableEndingInv,
       DurableRunStepInv DEF Durable!runShellCommandMode
  <1>7. QED
    BY <1>1, <1>2, <1>3, <1>4, <1>5, <1>6 DEF Durable!Next

-----------------------------------------------------------------------------
(* What the invariant says.                                                *)

LEMMA DurableMeaning == ASSUME DurableBounds, DurableInv
                 PROVE  Durable!TypeOK /\ Durable!ScreenFollowsTheLog /\ Durable!AcksAreShown /\
                          Durable!RunsOneAtATime /\ Durable!PromptIsAnswered
  <1>1. Durable!TypeOK
    <2>1. Durable!Range(durableShown) \subseteq 1..durableLog /\
            Durable!Range(durableSendCh) \subseteq 0..durableLog
      BY DEF DurableInv, DurableTypes, Durable!Range
    <2>2. QED
      BY <2>1 DEF DurableInv, DurableTypes, Durable!TypeOK
  <1>2. Durable!ScreenFollowsTheLog
    BY DEF DurableInv, DurableScreen, DurableFollows, Durable!ScreenFollowsTheLog
  <1>3. Durable!AcksAreShown
    <2>1. SUFFICES ASSUME NEW p \in Durable!Range(durableSendCh) \cup {durableOwed, durableAcked}, p > 0
                   PROVE  durableShown # <<>> /\ p <= Durable!Last(durableShown)
      BY DEF Durable!AcksAreShown
    <2>2. p \in Nat /\ p <= DurableEnd
      BY DEF DurableInv, DurableTypes, DurableAcked, Durable!Range
    <2>3. QED
      BY <2>1, <2>2 DEF DurableEnd, Durable!Last
  <1>4. Durable!RunsOneAtATime
    <2>1. {i \in Durable!Runs : durableRun[i] \in {"sent", "running",
            "late"}} \subseteq {durableWait}
      BY DEF DurableInv, DurablePrompted, DurableActive
    <2>2. IsFiniteSet({durableWait}) /\ Cardinality({durableWait}) = 1
      BY FS_Singleton
    <2>3. Cardinality({i \in Durable!Runs : durableRun[i] \in {"sent", "running", "late"}}) <= 1
      BY <2>1, <2>2, FS_Subset, FS_CardinalityType
    <2>4. \A S : Durable!Cardinality(S) = Cardinality(S)
      BY Zenon DEF Durable!Cardinality, Cardinality
    <2>5. QED
      BY <2>3, <2>4, Zenon DEF Durable!RunsOneAtATime
  <1>5. Durable!PromptIsAnswered
    <2>1. SUFFICES ASSUME durableWait # 0, durableRun[durableWait] \notin {"sent", "running",
                     "late"},
                          durableWait \notin Durable!Range(durableCompletedCh) \cup durableDropped
                   PROVE  Durable!Completed(durableWait) \in Durable!Range(durableWire)
      BY DEF Durable!PromptIsAnswered
    <2>2. ~\E p \in 1..Len(durableCompletedCh) : durableCompletedCh[p] = durableWait
      BY <2>1 DEF DurableInv, DurableTypes, Durable!Range
    <2>3. PICK p \in 1..Len(durableWire) : DurableIsDone(p, durableWait)
      BY <2>1, <2>2 DEF DurableInv, DurablePrompted, DurableActive
    <2>4. durableWire[p] \in DurableMessages
      BY DEF DurableInv, DurableTypes
    <2>5. durableWire[p] = Durable!Completed(durableWait)
      BY <2>3, <2>4 DEF DurableIsDone, DurableMessages, DurableChunks, DurableDones,
         Durable!Completed
    <2>6. QED
      BY <2>5 DEF DurableInv, DurableTypes, Durable!Range
  <1>6. QED
    BY <1>1, <1>2, <1>3, <1>4, <1>5

\* The screen of attach --resume follows the log without a gap or a repetition but for what was
\* written while its tail was read, only output on the screen is acknowledged, the commands of a
\* prompt run one after the other, and a prompt that waits is answered or knows why not
\* (newSSHAttachCmd, pumpShell, runShellCommandMode).
THEOREM DurableHolds ==
    ASSUME DurableBounds
    PROVE  Durable!Spec =>
             [](Durable!TypeOK /\ Durable!ScreenFollowsTheLog /\ Durable!AcksAreShown /\
               Durable!RunsOneAtATime /\ Durable!PromptIsAnswered)
  <1>1. DurableBounds
    OBVIOUS
  <1>2. Durable!Init => DurableInv
    BY DurableInitInv
  <1>3. DurableInv /\ [Durable!Next]_Durable!vars => DurableInv'
    BY DurableNextInv
  <1>4. DurableInv =>
          Durable!TypeOK /\ Durable!ScreenFollowsTheLog /\ Durable!AcksAreShown /\
            Durable!RunsOneAtATime /\ Durable!PromptIsAnswered
    BY DurableMeaning
  <1>5. QED
    BY <1>2, <1>3, <1>4, PTL DEF Durable!Spec

-----------------------------------------------------------------------------
(***************************************************************************)
(* Proofs about SshExec, for any number of chunks of any size, any buffer  *)
(* and any capacity of the channels.                                       *)
(***************************************************************************)

ExecBounds == ExecQueueCap \in Nat /\ ExecMaxBuf \in Nat /\ ExecMaxChunks \in Nat /\
  ExecSizes \subseteq Nat

ExecChunks == [on : Exec!Writers, n : Nat, size : ExecSizes]
ExecEvents == [kind : {"chunk"}, of : ExecChunks] \cup [kind : {"result"}, of : {"0", "1", "other"}]

ExecTypes ==
    /\ execShared \in BOOLEAN /\ execTool \in {"start", "run", "done"} /\
         execCode \in {"none", "0", "1"}
    /\ execSaid \in [Exec!Writers -> Nat] /\ execWire \in Seq(ExecEvents)
    /\ execPc \in {"send", "recv", "closeOut", "closeErr", "done", "err"}
    /\ execCh \in [Exec!Writers -> Seq(ExecChunks)] /\ execBuf \in [Exec!Writers -> Seq(ExecChunks)]
    /\ execPrinted \in [Exec!Writers -> Seq(ExecChunks)] /\
         execSize \in [Exec!Writers -> 0..ExecMaxBuf]
    /\ execOpen \in [Exec!Writers -> {"open", "closed", "done"}]

-----------------------------------------------------------------------------
\* Chunks from, from + 1, ... of a stream: printed, then gathered, then in the channel.
ExecNumbered(s, from) == \A i \in 1..Len(s) : s[i].n = from + i
ExecOrdered(w) ==
    /\ ExecNumbered(execPrinted[w], 0)
    /\ ExecNumbered(execBuf[w], Len(execPrinted[w]))
    /\ ExecNumbered(execCh[w], Len(execPrinted[w]) + Len(execBuf[w]))
ExecTotal(w) == Len(execPrinted[w]) + Len(execBuf[w]) + Len(execCh[w])

\* The rest of the stream is on its way, in order.
ExecIsChunk(p, w) == execWire[p].kind = "chunk" /\ execWire[p].of.on = w
ExecComing(w) ==
    /\ ExecTotal(w) <= execSaid[w]
    /\ \A p \in 1..Len(execWire) : ExecIsChunk(p, w) =>
         execWire[p].of.n \in ExecTotal(w) + 1..execSaid[w]
    /\ \A p, r \in 1..Len(execWire) :
           ExecIsChunk(p, w) /\ ExecIsChunk(r, w) /\ p < r => execWire[p].of.n < execWire[r].of.n
    /\ \A n \in ExecTotal(w) + 1..execSaid[w] :
           \E p \in 1..Len(execWire) : ExecIsChunk(p, w) /\ execWire[p].of.n = n

\* A command that is alone gets one result, the last event of its call.
ExecResultIsLast ==
    /\ execPc = "send" => execTool = "start"
    /\ ~execShared => \A p \in 1..Len(execWire) :
           execWire[p].kind = "result" =>
             p = Len(execWire) /\ execTool = "done" /\ execWire[p].of = execCode

\* What the command has at each place of its end.
ExecEnding ==
    /\ execPc \in {"closeOut", "closeErr", "done"} /\ ~execShared =>
           execStatus = execCode /\ execTool = "done" /\
             \A w \in Exec!Writers : ExecTotal(w) = execSaid[w]
    /\ \A w \in Exec!Writers : execOpen[w] = "done" => execCh[w] = <<>> /\ execBuf[w] = <<>>
    /\ \A w \in Exec!Writers : execOpen[w] # "open" => execPc \notin {"send", "recv"}
    /\ execPc \in {"closeErr", "done"} => execOpen["out"] = "done"
    /\ execPc = "done" => execOpen["err"] = "done"

ExecInv ==
    /\ Exec!TypeOK /\ ExecTypes /\ ExecResultIsLast /\ ExecEnding
    /\ \A w \in Exec!Writers : ExecOrdered(w) /\ ExecComing(w)

-----------------------------------------------------------------------------
(* Sequences.                                                              *)

LEMMA ExecGrown ==
    ASSUME NEW S, NEW s \in Seq(S), NEW e \in S
    PROVE  /\ Append(s, e) \in Seq(S) /\ Len(Append(s, e)) = Len(s) + 1
           /\ Append(s, e)[Len(s) + 1] = e
           /\ \A i \in 1..Len(s) : Append(s, e)[i] = s[i]
  OBVIOUS

LEMMA ExecShrunk ==
    ASSUME NEW S, NEW s \in Seq(S), s # <<>>
    PROVE  /\ Head(s) \in S /\ Head(s) = s[1] /\ Tail(s) \in Seq(S)
           /\ Len(s) \in Nat \ {0} /\ Len(Tail(s)) = Len(s) - 1
           /\ \A i \in 1..Len(s) - 1 : Tail(s)[i] = s[i + 1]
  OBVIOUS

LEMMA ExecJoined ==
    ASSUME NEW S, NEW s \in Seq(S), NEW t \in Seq(S)
    PROVE  /\ s \o t \in Seq(S) /\ Len(s \o t) = Len(s) + Len(t)
           /\ \A i \in 1..Len(s) : (s \o t)[i] = s[i]
           /\ \A i \in Len(s) + 1..Len(s) + Len(t) : (s \o t)[i] = t[i - Len(s)]
  OBVIOUS

LEMMA ExecSingle ==
    ASSUME NEW S, NEW e \in S
    PROVE  <<e>> \in Seq(S) /\ Len(<<e>>) = 1 /\ <<e>>[1] = e /\ <<>> \in Seq(S) /\ Len(<<>>) = 0
  OBVIOUS

LEMMA ExecRegrouped == \A a, b \in Nat : a + (b + 1) = a + b + 1
  OBVIOUS

LEMMA ExecNumberedJoined ==
    ASSUME NEW s \in Seq(ExecChunks), NEW t \in Seq(ExecChunks), NEW from \in Nat,
           ExecNumbered(s, from), ExecNumbered(t, from + Len(s))
    PROVE  ExecNumbered(s \o t, from)
  <1>1. ASSUME NEW i \in 1..Len(s \o t) PROVE (s \o t)[i].n = from + i
    <2>1. CASE i \in 1..Len(s)
      BY <1>1, <2>1, ExecJoined DEF ExecNumbered
    <2>2. CASE i \in Len(s) + 1..Len(s) + Len(t)
      <3>1. (s \o t)[i] = t[i - Len(s)] /\ i - Len(s) \in 1..Len(t)
        BY <2>2, ExecJoined
      <3>2. t[i - Len(s)].n = from + Len(s) + (i - Len(s))
        BY <3>1 DEF ExecNumbered
      <3>3. QED
        BY <2>2, <3>1, <3>2
    <2>3. QED
      BY <1>1, <2>1, <2>2, ExecJoined
  <1>2. QED
    BY <1>1 DEF ExecNumbered

LEMMA ExecNumberedTail ==
    ASSUME NEW s \in Seq(ExecChunks), NEW from \in Nat, s # <<>>, ExecNumbered(s, from)
    PROVE  Head(s).n = from + 1 /\ ExecNumbered(Tail(s), from + 1)
  <1>1. /\ Head(s) = s[1] /\ 1 \in 1..Len(s)
        /\ \A i \in 1..Len(Tail(s)) : Tail(s)[i] = s[i + 1] /\ i + 1 \in 1..Len(s)
    BY ExecShrunk
  <1>2. Head(s).n = from + 1
    BY <1>1 DEF ExecNumbered
  <1>3. ASSUME NEW i \in 1..Len(Tail(s)) PROVE Tail(s)[i].n = from + 1 + i
    <2>1. Tail(s)[i] = s[i + 1] /\ s[i + 1].n = from + (i + 1)
      BY <1>1 DEF ExecNumbered
    <2>2. QED
      BY <2>1
  <1>4. QED
    BY <1>2, <1>3 DEF ExecNumbered

LEMMA ExecNumberedSingle ==
    ASSUME NEW k \in ExecChunks, NEW from \in Nat, k.n = from + 1
    PROVE  ExecNumbered(<<k>>, from) /\ ExecNumbered(<<>>, from)
  BY DEF ExecNumbered

\* An event that is no chunk leaves every stream as it is.
LEMMA ExecOtherEvent ==
    ASSUME ExecInv, NEW v \in Exec!Writers, Len(execWire) \in Nat,
             Len(execWire') = Len(execWire) + 1,
           execWire'[Len(execWire) + 1].kind = "result",
           \A p \in 1..Len(execWire) : execWire'[p] = execWire[p],
           UNCHANGED <<execSaid, execPrinted, execBuf, execCh>>
    PROVE  ExecOrdered(v)' /\ ExecComing(v)'
  <1>1. ExecOrdered(v)' /\ ExecTotal(v)' = ExecTotal(v)
    BY DEF ExecInv, ExecOrdered, ExecNumbered, ExecTotal
  <1>2. \A p \in 1..Len(execWire') : ExecIsChunk(p, v)' =>
          p \in 1..Len(execWire) /\ ExecIsChunk(p, v)
    <2>1. ASSUME NEW p \in 1..Len(execWire'), ExecIsChunk(p, v)'
      PROVE p \in 1..Len(execWire) /\ ExecIsChunk(p, v)
      <3>1. p # Len(execWire) + 1
        BY <2>1 DEF ExecIsChunk
      <3>2. p \in 1..Len(execWire)
        BY <2>1, <3>1
      <3>3. QED
        BY <2>1, <3>2 DEF ExecIsChunk
    <2>2. QED
      BY <2>1
  <1>3. \A p \in 1..Len(execWire) : p \in 1..Len(execWire') /\ (ExecIsChunk(p, v) =>
          ExecIsChunk(p, v)')
    BY DEF ExecIsChunk
  <1>4. QED
    BY <1>1, <1>2, <1>3 DEF ExecInv, ExecComing

-----------------------------------------------------------------------------
LEMMA ExecInitInv == ExecBounds /\ Exec!Init => ExecInv
  <1>1. SUFFICES ASSUME ExecBounds, Exec!Init PROVE ExecInv
    OBVIOUS
  <1>2. /\ Len(execWire) = 0 /\ execWire \in Seq(ExecEvents) /\ execWire = <<>>
        /\ \A w \in Exec!Writers :
                              /\ execCh[w] = <<>> /\ execBuf[w] = <<>> /\ execPrinted[w] = <<>>
                              /\ execSaid[w] = 0 /\ execSize[w] = 0 /\ execOpen[w] = "open"
    BY <1>1 DEF Exec!Init
  <1>3. ExecTypes
    BY <1>1 DEF ExecBounds, Exec!Init, ExecTypes
  <1>4. Exec!TypeOK
    BY <1>1, <1>2 DEF ExecBounds, Exec!Init, Exec!TypeOK, Exec!Writers
  <1>5. ExecResultIsLast /\ ExecEnding
    BY <1>1, <1>2 DEF Exec!Init, ExecResultIsLast, ExecEnding
  <1>6. \A w \in Exec!Writers : ExecOrdered(w) /\ ExecComing(w)
    <2>1. ASSUME NEW w \in Exec!Writers
          PROVE  /\ Len(execPrinted[w]) = 0 /\ Len(execBuf[w]) = 0 /\ Len(execCh[w]) = 0 /\
                      ExecTotal(w) = 0
                 /\ execSaid[w] = 0
      <3>1. Len(execPrinted[w]) = 0 /\ Len(execBuf[w]) = 0 /\ Len(execCh[w]) = 0 /\ execSaid[w] = 0
        BY <1>2
      <3>2. QED
        BY <3>1 DEF ExecTotal
    <2>2. ASSUME NEW w \in Exec!Writers PROVE ExecOrdered(w)
      BY <1>2, <1>3 DEF ExecTypes, ExecOrdered, ExecNumbered
    <2>3. ASSUME NEW w \in Exec!Writers PROVE ExecComing(w)
      <3>1. ExecTotal(w) = 0 /\ execSaid[w] = 0
        BY <2>1
      <3>2. QED
        BY <1>2, <3>1 DEF ExecComing
    <2>4. QED
      BY <2>2, <2>3
  <1>7. QED
    BY <1>3, <1>4, <1>5, <1>6 DEF ExecInv

-----------------------------------------------------------------------------
(* The session.                                                            *)

\* A chunk is added to a stream.
LEMMA ExecSayInv ==
    ASSUME ExecBounds, ExecInv, Exec!Say
    PROVE  ExecInv'
  <1>0. PICK w \in Exec!Writers : \E k \in Exec!Chunk(w, execSaid[w] + 1) :
          /\ execWire' = Append(execWire, [kind |-> "chunk", of |-> k])
          /\ execSaid' = [execSaid EXCEPT ![w] = @ + 1]
    BY Zenon DEF Exec!Say
  <1>01. \A k \in Exec!Chunk(w, execSaid[w] + 1) : k \in ExecChunks /\ k.on = w /\
           k.n = execSaid[w] + 1
    BY DEF Exec!Chunk, ExecChunks, ExecInv, ExecTypes
  <1>1. PICK k \in ExecChunks :
          /\ k.on = w /\ k.n = execSaid[w] + 1
          /\ execWire' = Append(execWire, [kind |-> "chunk", of |-> k])
          /\ execSaid' = [execSaid EXCEPT ![w] = @ + 1]
    BY <1>0, <1>01, Zenon
  <1> DEFINE e == [kind |-> "chunk", of |-> k]
  <1>2. /\ execTool = "run" /\ execSaid["out"] + execSaid["err"] < ExecMaxChunks
        /\ UNCHANGED <<execShared, execTool, execCode, execPc, execStatus, execCh, execBuf,
             execSize, execPrinted, execOpen>>
    BY DEF Exec!Say, Exec!writers
  <1>3. k \in ExecChunks /\ k.on = w /\ k.n = execSaid[w] + 1
    BY <1>1
  <1>31. e \in ExecEvents /\ e.kind = "chunk" /\ e.of = k
    BY <1>3 DEF ExecEvents
  <1>4. /\ execWire' \in Seq(ExecEvents) /\ Len(execWire') = Len(execWire) + 1
        /\ execWire'[Len(execWire) + 1].kind = "chunk" /\ execWire'[Len(execWire) + 1].of = k
        /\ \A p \in 1..Len(execWire) : execWire'[p] = execWire[p]
        /\ Len(execWire) \in Nat
    BY <1>1, <1>31, ExecGrown DEF ExecInv, ExecTypes
  <1>5. /\ execSaid' \in [Exec!Writers -> Nat] /\ execSaid'[w] = execSaid[w] + 1
        /\ \A v \in Exec!Writers \ {w} : execSaid'[v] = execSaid[v]
    BY <1>1 DEF ExecInv, ExecTypes
  <1>51. "out" \in Exec!Writers /\ "err" \in Exec!Writers /\
           \A v \in Exec!Writers : v = "out" \/ v = "err"
    BY DEF Exec!Writers
  <1>52. execSaid'["out"] + execSaid'["err"] = execSaid["out"] + execSaid["err"] + 1
    <2>1. execSaid["out"] \in Nat /\ execSaid["err"] \in Nat /\ (w = "out" \/ w = "err") /\
            "out" # "err"
      BY <1>51 DEF ExecInv, ExecTypes
    <2>2. CASE w = "out"
      BY <1>5, <1>51, <2>1, <2>2
    <2>3. CASE w = "err"
      BY <1>5, <1>51, <2>1, <2>3
    <2>4. QED
      BY <2>1, <2>2, <2>3
  <1>6. ExecTypes' /\ Exec!TypeOK'
    <2>1. ExecTypes'
      BY <1>2, <1>4, <1>5 DEF ExecInv, ExecTypes
    <2>2. execSaid'["out"] + execSaid'["err"] <= ExecMaxChunks
      <3>1. execSaid["out"] \in Nat /\ execSaid["err"] \in Nat /\ ExecMaxChunks \in Nat
        BY <1>51 DEF ExecBounds, ExecInv, ExecTypes
      <3>2. QED
        BY <1>2, <1>52, <3>1
    <2>3. Exec!TypeOK'
      BY <1>2, <2>2 DEF ExecInv, Exec!TypeOK
    <2>4. QED
      BY <2>1, <2>3
  <1>7. ExecResultIsLast'
    BY <1>2, <1>4 DEF ExecInv, ExecResultIsLast
  <1>8. ExecEnding'
    BY <1>2 DEF ExecInv, ExecEnding, ExecTotal
  <1>9. ASSUME NEW v \in Exec!Writers PROVE ExecOrdered(v)' /\ ExecComing(v)'
    <2>1. ExecOrdered(v)' /\ ExecTotal(v)' = ExecTotal(v) /\ ExecTotal(v) \in Nat /\
            execSaid[v] \in Nat
      <3>1. Len(execPrinted[v]) \in Nat /\ Len(execBuf[v]) \in Nat /\ Len(execCh[v]) \in Nat
        BY DEF ExecInv, ExecTypes
      <3>2. ExecOrdered(v) /\ execSaid[v] \in Nat
        BY DEF ExecInv, ExecTypes
      <3>3. ExecOrdered(v)' /\ ExecTotal(v)' = ExecTotal(v)
        BY <1>2, <3>2 DEF ExecOrdered, ExecNumbered, ExecTotal
      <3>4. ExecTotal(v) \in Nat
        BY DEF ExecInv, ExecTypes, ExecTotal
      <3>5. QED
        BY <3>2, <3>3, <3>4
    <2>2. \A p \in 1..Len(execWire) : ExecIsChunk(p, v)' <=> ExecIsChunk(p, v)
      BY <1>4 DEF ExecIsChunk
    <2>0. PICK m \in Nat : m = Len(execWire) + 1
      BY <1>4
    <2>3. ExecIsChunk(m, v)' <=> v = w
      <3>1. execWire'[m].kind = "chunk" /\ execWire'[m].of.on = w
        BY <1>3, <1>4, <2>0
      <3>2. QED
        BY <3>1, Zenon DEF ExecIsChunk
    <2>4. \A p \in 1..Len(execWire') : p \in 1..Len(execWire) \/ p = m
      BY <1>4, <2>0
    <2>5. ExecTotal(v) <= execSaid'[v]
      BY <1>5, <2>1 DEF ExecInv, ExecComing
    <2>6. ASSUME NEW p \in 1..Len(execWire'), ExecIsChunk(p, v)'
          PROVE  execWire'[p].of.n \in ExecTotal(v) + 1..execSaid'[v]
      <3>1. CASE p \in 1..Len(execWire)
        <4>1. execWire[p].of.n \in ExecTotal(v) + 1..execSaid[v]
          BY <2>2, <2>6, <3>1 DEF ExecInv, ExecComing
        <4>2. QED
          BY <1>4, <1>5, <2>1, <3>1, <4>1
      <3>2. CASE p = m
        <4>1. v = w
          BY <2>3, <2>6, <3>2, Zenon
        <4>2. execWire'[p].of = k /\ k.n = execSaid[v] + 1 /\ execSaid'[v] = execSaid[v] + 1
          BY <1>3, <1>4, <1>5, <2>0, <3>2, <4>1
        <4>3. ExecTotal(v) <= execSaid[v]
          BY DEF ExecInv, ExecComing
        <4>4. QED
          BY <2>1, <4>2, <4>3
      <3>3. QED
        BY <2>4, <3>1, <3>2
    <2>7. ASSUME NEW p \in 1..Len(execWire'), NEW r \in 1..Len(execWire'), ExecIsChunk(p, v)',
                   ExecIsChunk(r, v)',
                 p < r
          PROVE  execWire'[p].of.n < execWire'[r].of.n
      <3>1. p \in 1..Len(execWire) /\ ExecIsChunk(p, v) /\ execWire'[p] = execWire[p]
        BY <1>4, <2>2, <2>7
      <3>2. execWire[p].of.n \in ExecTotal(v) + 1..execSaid[v]
        BY <3>1 DEF ExecInv, ExecComing
      <3>3. CASE r \in 1..Len(execWire)
        BY <1>4, <2>2, <2>7, <3>1, <3>3 DEF ExecInv, ExecComing
      <3>4. CASE r = m
        <4>1. v = w
          BY <2>3, <2>7, <3>4, Zenon
        <4>2. execWire'[r].of = k /\ k.n = execSaid[v] + 1
          BY <1>3, <1>4, <2>0, <3>4, <4>1
        <4>3. QED
          BY <2>1, <3>1, <3>2, <4>2
      <3>5. QED
        BY <2>4, <3>3, <3>4
    <2>8. ASSUME NEW n \in ExecTotal(v) + 1..execSaid'[v]
          PROVE  \E p \in 1..Len(execWire') : ExecIsChunk(p, v)' /\ execWire'[p].of.n = n
      <3>1. CASE n \in ExecTotal(v) + 1..execSaid[v]
        BY <1>4, <2>2, <3>1 DEF ExecInv, ExecComing
      <3>2. CASE n \notin ExecTotal(v) + 1..execSaid[v]
        <4>1. v = w /\ n = execSaid[w] + 1
          BY <1>5, <2>1, <2>8, <3>2
        <4>2. ExecIsChunk(m, v)' /\ execWire'[m].of.n = n /\ m \in 1..Len(execWire')
          BY <1>3, <1>4, <2>0, <2>3, <4>1
        <4>3. QED
          BY <4>2
      <3>3. QED
        BY <3>1, <3>2
    <2>9. QED
      BY <2>1, <2>5, <2>6, <2>7, <2>8, Zenon DEF ExecComing
  <1>10. QED
    BY <1>6, <1>7, <1>8, <1>9 DEF ExecInv

\* The call ends, with its exit status.
LEMMA ExecResultInv ==
    ASSUME ExecBounds, ExecInv, Exec!Result
    PROVE  ExecInv'
  <1> DEFINE e == [kind |-> "result", of |-> execCode']
  <1>1. /\ execTool = "run" /\ execTool' = "done" /\ execCode' \in {"0", "1"} /\
             execWire' = Append(execWire, e)
        /\ UNCHANGED <<execShared, execSaid, execPc, execStatus, execCh, execBuf, execSize,
             execPrinted, execOpen>>
    BY DEF Exec!Result, Exec!writers
  <1>2. e \in ExecEvents
    BY <1>1 DEF ExecEvents
  <1>3. /\ execWire' \in Seq(ExecEvents) /\ Len(execWire') = Len(execWire) + 1 /\
             execWire'[Len(execWire) + 1] = e
        /\ \A p \in 1..Len(execWire) : execWire'[p] = execWire[p]
        /\ Len(execWire) \in Nat
    BY <1>1, <1>2, ExecGrown DEF ExecInv, ExecTypes
  <1>4. ExecTypes' /\ Exec!TypeOK'
    BY <1>1, <1>3 DEF ExecBounds, ExecInv, ExecTypes, Exec!TypeOK
  <1>5. ExecResultIsLast'
    <2>1. execPc # "send"
      BY <1>1 DEF ExecInv, ExecResultIsLast
    <2>2. ~execShared => \A p \in 1..Len(execWire) : execWire[p].kind # "result"
      BY <1>1 DEF ExecInv, ExecResultIsLast
    <2>3. \A p \in 1..Len(execWire') : p \in 1..Len(execWire) \/ p = Len(execWire) + 1
      BY <1>3
    <2>4. QED
      BY <1>1, <1>3, <2>1, <2>2, <2>3 DEF ExecResultIsLast
  <1>6. ExecEnding'
    BY <1>1 DEF ExecInv, ExecEnding, ExecTotal
  <1>7. \A v \in Exec!Writers : ExecOrdered(v)' /\ ExecComing(v)'
    BY <1>1, <1>2, <1>3, ExecOtherEvent DEF ExecInv, ExecTypes
  <1>8. QED
    BY <1>4, <1>5, <1>6, <1>7 DEF ExecInv

\* The result of another call comes first.
LEMMA ExecOtherResultInv ==
    ASSUME ExecBounds, ExecInv, Exec!OtherResult
    PROVE  ExecInv'
  <1> DEFINE e == [kind |-> "result", of |-> "other"]
  <1>1. /\ execShared /\ execPc = "recv" /\ execWire = <<>> /\ execWire' = <<e>>
        /\ UNCHANGED <<execShared, execTool, execSaid, execCode, execPc, execStatus, execCh,
             execBuf, execSize, execPrinted, execOpen>>
    BY DEF Exec!OtherResult, Exec!server, Exec!writers
  <1>2. e \in ExecEvents
    BY DEF ExecEvents
  <1>3. /\ execWire' \in Seq(ExecEvents) /\ Len(execWire) = 0 /\ Len(execWire') = Len(execWire) + 1
        /\ execWire'[Len(execWire) + 1] = e
        /\ \A p \in 1..Len(execWire) : execWire'[p] = execWire[p]
    BY <1>1, <1>2, ExecSingle
  <1>4. ExecTypes' /\ Exec!TypeOK'
    BY <1>1, <1>3 DEF ExecBounds, ExecInv, ExecTypes, Exec!TypeOK
  <1>5. ExecResultIsLast'
    BY <1>1 DEF ExecInv, ExecResultIsLast
  <1>6. ExecEnding'
    BY <1>1 DEF ExecInv, ExecEnding, ExecTotal
  <1>7. \A v \in Exec!Writers : ExecOrdered(v)' /\ ExecComing(v)'
    BY <1>1, <1>2, <1>3, ExecOtherEvent DEF ExecInv, ExecTypes
  <1>8. QED
    BY <1>4, <1>5, <1>6, <1>7 DEF ExecInv

-----------------------------------------------------------------------------
(* The writers.                                                            *)

\* What a writer may do with a stream: pass it on, in order.
LEMMA ExecBatched ==
    ASSUME ExecInv, NEW w \in Exec!Writers,
           UNCHANGED <<execShared, execTool, execSaid, execCode, execWire, execPc, execStatus>>,
             ExecTypes',
           Len(execCh'[w]) <= ExecQueueCap, ExecOrdered(w)', ExecTotal(w)' = ExecTotal(w),
           execOpen'[w] = "open" <=> execOpen[w] = "open", execOpen[w] = "done" =>
             execOpen'[w] = "done",
           execOpen'[w] = "done" => execCh'[w] = <<>> /\ execBuf'[w] = <<>>,
           \A v \in Exec!Writers \ {w} :
              /\ execCh'[v] = execCh[v] /\ execBuf'[v] = execBuf[v] /\
                   execPrinted'[v] = execPrinted[v]
              /\ execOpen'[v] = execOpen[v]
    PROVE  ExecInv'
  <1>1. \A v \in Exec!Writers : ExecTotal(v)' = ExecTotal(v)
    BY Zenon DEF ExecTotal
  <1>2. \A v \in Exec!Writers : ExecOrdered(v)'
    <2>1. ASSUME NEW v \in Exec!Writers PROVE ExecOrdered(v)'
      <3>1. CASE v = w
        BY <3>1
      <3>2. CASE v # w
        <4>1. ExecOrdered(v) /\ execCh'[v] = execCh[v] /\ execBuf'[v] = execBuf[v] /\
                execPrinted'[v] = execPrinted[v]
          BY <3>2 DEF ExecInv
        <4>2. QED
          BY <4>1, Zenon DEF ExecOrdered, ExecNumbered
      <3>3. QED
        BY <3>1, <3>2
    <2>2. QED
      BY <2>1
  <1>3. \A v \in Exec!Writers : ExecComing(v)'
    <2>1. ASSUME NEW v \in Exec!Writers PROVE ExecComing(v)'
      <3>1. ExecComing(v) /\ ExecTotal(v)' = ExecTotal(v)
        BY <1>1 DEF ExecInv
      <3>2. QED
        BY <3>1, Zenon DEF ExecComing, ExecIsChunk
    <2>2. QED
      BY <2>1
  <1>4. Exec!TypeOK'
    BY DEF ExecInv, Exec!TypeOK, ExecTypes
  <1>5. ExecResultIsLast'
    BY DEF ExecInv, ExecResultIsLast
  <1>6. ExecEnding'
    <2>1. \A v \in Exec!Writers :
            /\ execOpen'[v] = "done" => execCh'[v] = <<>> /\ execBuf'[v] = <<>>
            /\ execOpen'[v] # "open" => execOpen[v] # "open"
            /\ execOpen[v] = "done" => execOpen'[v] = "done"
      BY Zenon DEF ExecInv, ExecEnding
    <2>2. execPc \in {"closeOut", "closeErr", "done"} /\ ~execShared =>
            execStatus = execCode /\ execTool = "done" /\
              \A v \in Exec!Writers : ExecTotal(v)' = execSaid[v]
      BY <1>1, Zenon DEF ExecInv, ExecEnding
    <2>3. "out" \in Exec!Writers /\ "err" \in Exec!Writers
      BY DEF Exec!Writers
    <2>4. \A v \in Exec!Writers : execOpen[v] # "open" => execPc \notin {"send", "recv"}
      BY DEF ExecInv, ExecEnding
    <2>5. (execPc \in {"closeErr", "done"} => execOpen["out"] = "done") /\ (execPc = "done" =>
            execOpen["err"] = "done")
      BY DEF ExecInv, ExecEnding
    <2>6. QED
      BY <2>1, <2>2, <2>3, <2>4, <2>5, Zenon DEF ExecEnding
  <1>7. QED
    BY <1>2, <1>3, <1>4, <1>5, <1>6, Zenon DEF ExecInv

\* A stream, cut at the head of the channel.
LEMMA ExecCut ==
    ASSUME NEW P \in Seq(ExecChunks), NEW B \in Seq(ExecChunks), NEW C \in Seq(ExecChunks),
             C # <<>>,
           NEW k, k = Head(C),
           ExecNumbered(P, 0), ExecNumbered(B, Len(P)), ExecNumbered(C, Len(P) + Len(B))
    PROVE  /\ ExecNumbered(P \o (B \o <<k>>), 0) /\ P \o (B \o <<k>>) \in Seq(ExecChunks)
           /\ Len(P \o (B \o <<k>>)) = Len(P) + Len(B) + 1
           /\ ExecNumbered(P \o B, 0) /\ P \o B \in Seq(ExecChunks) /\ Len(P \o B) = Len(P) + Len(B)
           /\ ExecNumbered(<<k>>, Len(P) + Len(B)) /\ <<k>> \in Seq(ExecChunks) /\ Len(<<k>>) = 1
           /\ ExecNumbered(Append(B, k), Len(P)) /\ Append(B, k) \in Seq(ExecChunks)
           /\ Len(Append(B, k)) = Len(B) + 1
           /\ ExecNumbered(Tail(C), Len(P) + Len(B) + 1) /\ Tail(C) \in Seq(ExecChunks)
           /\ Len(C) \in Nat \ {0} /\ Len(Tail(C)) = Len(C) - 1
           /\ k \in ExecChunks /\ Len(P) \in Nat /\ Len(B) \in Nat
  <1>1. /\ k \in ExecChunks /\ Tail(C) \in Seq(ExecChunks) /\ Len(P) \in Nat /\ Len(B) \in Nat
        /\ Len(C) \in Nat \ {0} /\ Len(Tail(C)) = Len(C) - 1
    BY ExecShrunk
  <1>2. k.n = Len(P) + Len(B) + 1 /\ ExecNumbered(Tail(C), Len(P) + Len(B) + 1)
    BY <1>1, ExecNumberedTail
  <1>3. ExecNumbered(<<k>>, Len(P) + Len(B)) /\ <<k>> \in Seq(ExecChunks) /\ Len(<<k>>) = 1
    BY <1>1, <1>2, ExecNumberedSingle, ExecSingle
  <1>4. /\ ExecNumbered(B \o <<k>>, Len(P)) /\ B \o <<k>> \in Seq(ExecChunks)
        /\ Len(B \o <<k>>) = Len(B) + 1
    <2>1. ExecNumbered(B \o <<k>>, Len(P))
      BY <1>1, <1>3, ExecNumberedJoined
    <2>2. QED
      BY <1>1, <1>3, <2>1, ExecJoined
  <1>5. /\ ExecNumbered(P \o B, 0) /\ P \o B \in Seq(ExecChunks) /\ Len(P \o B) = Len(P) + Len(B)
    <2>1. ExecNumbered(B, 0 + Len(P))
      BY <1>1
    <2>2. ExecNumbered(P \o B, 0)
      BY <2>1, ExecNumberedJoined
    <2>3. QED
      BY <2>2, ExecJoined
  <1>6. /\ ExecNumbered(P \o (B \o <<k>>), 0) /\ P \o (B \o <<k>>) \in Seq(ExecChunks)
        /\ Len(P \o (B \o <<k>>)) = Len(P) + Len(B) + 1
    <2>1. ExecNumbered(B \o <<k>>, 0 + Len(P))
      BY <1>1, <1>4
    <2>2. ExecNumbered(P \o (B \o <<k>>), 0)
      BY <1>4, <2>1, ExecNumberedJoined
    <2>3. P \o (B \o <<k>>) \in Seq(ExecChunks) /\ Len(P \o (B \o <<k>>)) = Len(P) + Len(B \o <<k>>)
      BY <1>4, ExecJoined
    <2>4. QED
      BY <1>1, <1>4, <2>2, <2>3
  <1>7. Append(B, k) \in Seq(ExecChunks) /\ Len(Append(B, k)) = Len(B) + 1
    BY <1>1, ExecGrown
  <1>8. Append(B, k) = B \o <<k>>
    BY <1>1
  <1>9. QED
    BY <1>1, <1>2, <1>3, <1>4, <1>5, <1>6, <1>7, <1>8

\* The writer takes a chunk from its channel.
LEMMA ExecBatchTakesInv ==
    ASSUME ExecBounds, ExecInv, NEW w \in Exec!Writers, Exec!BatchTakes(w)
    PROVE  ExecInv'
  <1>1. /\ execPrinted[w] \in Seq(ExecChunks) /\ execBuf[w] \in Seq(ExecChunks) /\
             execCh[w] \in Seq(ExecChunks)
        /\ execCh[w] # <<>> /\ execCh' = [execCh EXCEPT ![w] = Tail(execCh[w])]
        /\ ExecOrdered(w) /\ execSize[w] \in 0..ExecMaxBuf /\ ExecMaxBuf \in Nat /\
             Len(execCh[w]) <= ExecQueueCap
    BY DEF ExecBounds, Exec!BatchTakes, ExecInv, ExecTypes, Exec!TypeOK
  <1>2. UNCHANGED <<execShared, execTool, execSaid, execCode, execWire, execPc, execStatus,
          execOpen>>
    BY DEF Exec!BatchTakes, Exec!server
  <1>3. PICK k : k = Head(execCh[w])
    OBVIOUS
  <1>4. \/ Exec!Writes(w, execBuf[w] \o <<k>>) /\ Exec!Keeps(w, <<>>, 0)
        \/ k.size <= ExecMaxBuf /\ Exec!Writes(w, execBuf[w]) /\ Exec!Keeps(w, <<k>>, k.size)
        \/ Exec!Writes(w, <<>>) /\ Exec!Keeps(w, Append(execBuf[w], k), execSize[w] + k.size) /\
             execSize[w] + k.size <= ExecMaxBuf
    <2>1. k \in ExecChunks
      BY <1>1, <1>3, ExecShrunk
    <2>2. k.size \in Nat
      BY <2>1 DEF ExecBounds, ExecChunks
    <2>3. \/ Exec!Writes(w, execBuf[w] \o <<k>>) /\ Exec!Keeps(w, <<>>, 0)
          \/ ~(k.size > ExecMaxBuf) /\ Exec!Writes(w, execBuf[w]) /\ Exec!Keeps(w, <<k>>, k.size)
          \/ Exec!Writes(w, <<>>) /\ Exec!Keeps(w, Append(execBuf[w], k), execSize[w] + k.size)
               /\ ~(execSize[w] + k.size > ExecMaxBuf)
      BY <1>3, Zenon DEF Exec!BatchTakes
    <2>4. ~(k.size > ExecMaxBuf) <=> k.size <= ExecMaxBuf
      BY <1>1, <2>2
    <2>5. ~(execSize[w] + k.size > ExecMaxBuf) <=> execSize[w] + k.size <= ExecMaxBuf
      BY <1>1, <2>2
    <2>6. QED
      BY <2>3, <2>4, <2>5, Zenon
  <1> DEFINE P == execPrinted[w]
             B == execBuf[w]
             C == execCh[w]
  <1>5. /\ ExecNumbered(P \o (B \o <<k>>), 0) /\ P \o (B \o <<k>>) \in Seq(ExecChunks)
        /\ Len(P \o (B \o <<k>>)) = Len(P) + Len(B) + 1
        /\ ExecNumbered(P \o B, 0) /\ P \o B \in Seq(ExecChunks) /\ Len(P \o B) = Len(P) + Len(B)
        /\ ExecNumbered(<<k>>, Len(P) + Len(B)) /\ <<k>> \in Seq(ExecChunks) /\ Len(<<k>>) = 1
        /\ ExecNumbered(Append(B, k), Len(P)) /\ Append(B, k) \in Seq(ExecChunks)
        /\ Len(Append(B, k)) = Len(B) + 1
        /\ ExecNumbered(Tail(C), Len(P) + Len(B) + 1) /\ Tail(C) \in Seq(ExecChunks)
        /\ Len(C) \in Nat \ {0} /\ Len(Tail(C)) = Len(C) - 1
        /\ k \in ExecChunks /\ Len(P) \in Nat /\ Len(B) \in Nat
    <2>1. ExecNumbered(P, 0) /\ ExecNumbered(B, Len(P)) /\ ExecNumbered(C, Len(P) + Len(B)) /\
            C # <<>> /\ k = Head(C)
      BY <1>1, <1>3, Zenon DEF ExecOrdered
    <2>2. P \in Seq(ExecChunks) /\ B \in Seq(ExecChunks) /\ C \in Seq(ExecChunks)
      BY <1>1
    <2> HIDE DEF P, B, C
    <2>3. QED
      BY <2>1, <2>2, ExecCut
  <1>6. k.size \in Nat
    BY <1>5 DEF ExecBounds, ExecChunks
  <1>7. /\ execCh' \in [Exec!Writers -> Seq(ExecChunks)] /\ execCh'[w] = Tail(C)
        /\ \A v \in Exec!Writers \ {w} : execCh'[v] = execCh[v]
    BY <1>1, <1>5 DEF ExecInv, ExecTypes
  <1>8. Len(execCh'[w]) <= ExecQueueCap
    BY <1>1, <1>5, <1>7 DEF ExecBounds
  <1>9. execOpen[w] # "done"
    BY <1>1 DEF ExecInv, ExecEnding
  <1>10. SUFFICES
          /\ execPrinted' \in [Exec!Writers -> Seq(ExecChunks)] /\
               execBuf' \in [Exec!Writers -> Seq(ExecChunks)]
          /\ execSize' \in [Exec!Writers -> 0..ExecMaxBuf]
          /\ \A v \in Exec!Writers \ {w} : execBuf'[v] = execBuf[v] /\
               execPrinted'[v] = execPrinted[v]
          /\ ExecNumbered(execPrinted'[w], 0) /\ ExecNumbered(execBuf'[w], Len(execPrinted'[w]))
          /\ Len(execPrinted'[w]) + Len(execBuf'[w]) = Len(P) + Len(B) + 1
    <2>1. ExecTypes'
      BY <1>2, <1>7, <1>10 DEF ExecInv, ExecTypes
    <2>2. ExecOrdered(w)'
      BY <1>5, <1>7, <1>10 DEF ExecOrdered
    <2>3. ExecTotal(w)' = ExecTotal(w)
      <3>1. Len(execPrinted'[w]) \in Nat /\ Len(execBuf'[w]) \in Nat
        BY <1>10
      <3>2. Len(execCh'[w]) = Len(execCh[w]) - 1 /\ Len(execCh[w]) \in Nat
        BY <1>5, <1>7
      <3>3. Len(execPrinted'[w]) + Len(execBuf'[w]) + Len(execCh'[w]) =
              Len(execPrinted[w]) + Len(execBuf[w]) + Len(execCh[w])
        <4>1. PICK x \in Nat, y \in Nat, z \in Nat :
                x = Len(execPrinted'[w]) /\ y = Len(execBuf'[w]) /\ z = Len(execCh[w])
          BY <3>1, <3>2, Zenon
        <4>2. PICK p \in Nat, b \in Nat : p = Len(execPrinted[w]) /\ b = Len(execBuf[w])
          BY <1>5, Zenon
        <4>3. x + y = p + b + 1 /\ Len(execCh'[w]) = z - 1
          BY <1>10, <3>2, <4>1, <4>2, Zenon
        <4>4. x + y + (z - 1) = p + b + z
          BY <4>3
        <4>5. QED
          BY <4>1, <4>2, <4>3, <4>4, Zenon
      <3>4. QED
        BY <3>3, Zenon DEF ExecTotal
    <2>4. QED
      BY <1>2, <1>7, <1>8, <1>9, <1>10, <2>1, <2>2, <2>3, ExecBatched, Zenon
  <1>11. CASE Exec!Writes(w, B \o <<k>>) /\ Exec!Keeps(w, <<>>, 0)
    <2>1. /\ execPrinted' = [execPrinted EXCEPT ![w] = P \o (B \o <<k>>)]
          /\ execBuf' = [execBuf EXCEPT ![w] = <<>>] /\ execSize' = [execSize EXCEPT ![w] = 0]
      BY <1>11 DEF Exec!Writes, Exec!Keeps
    <2>2. execPrinted'[w] = P \o (B \o <<k>>) /\ execBuf'[w] = <<>>
      BY <2>1 DEF ExecInv, ExecTypes
    <2>3. ExecNumbered(<<>>, Len(P) + Len(B) + 1) /\ Len(<<>>) = 0
      BY DEF ExecNumbered
    <2>31. Len(execPrinted'[w]) = Len(P) + Len(B) + 1
      BY <1>5, <2>2
    <2>4. ExecNumbered(execBuf'[w], Len(execPrinted'[w])) /\
            Len(execPrinted'[w]) + Len(execBuf'[w]) = Len(P) + Len(B) + 1
      <3>1. Len(execPrinted'[w]) + 0 = Len(execPrinted'[w])
        BY <1>5, <2>31
      <3>2. QED
        BY <2>2, <2>3, <2>31, <3>1, Zenon
    <2>5. /\ execPrinted' \in [Exec!Writers -> Seq(ExecChunks)] /\
               execBuf' \in [Exec!Writers -> Seq(ExecChunks)]
          /\ execSize' \in [Exec!Writers -> 0..ExecMaxBuf]
          /\ \A v \in Exec!Writers \ {w} : execBuf'[v] = execBuf[v] /\
               execPrinted'[v] = execPrinted[v]
      BY <1>1, <1>5, <2>1 DEF ExecInv, ExecTypes
    <2>6. QED
      BY <1>5, <2>2, <2>4, <2>5
  <1>12. CASE k.size <= ExecMaxBuf /\ Exec!Writes(w, B) /\ Exec!Keeps(w, <<k>>, k.size)
    <2>1. /\ execPrinted' = [execPrinted EXCEPT ![w] = P \o B]
          /\ execBuf' = [execBuf EXCEPT ![w] = <<k>>] /\ execSize' = [execSize EXCEPT ![w] = k.size]
      BY <1>12 DEF Exec!Writes, Exec!Keeps
    <2>2. execPrinted'[w] = P \o B /\ execBuf'[w] = <<k>>
      BY <2>1 DEF ExecInv, ExecTypes
    <2>3. ExecNumbered(execBuf'[w], Len(execPrinted'[w])) /\
            Len(execPrinted'[w]) + Len(execBuf'[w]) = Len(P) + Len(B) + 1
      BY <1>5, <2>2
    <2>4. k.size \in 0..ExecMaxBuf
      BY <1>1, <1>6, <1>12
    <2>5. /\ execPrinted' \in [Exec!Writers -> Seq(ExecChunks)] /\
               execBuf' \in [Exec!Writers -> Seq(ExecChunks)]
          /\ execSize' \in [Exec!Writers -> 0..ExecMaxBuf]
          /\ \A v \in Exec!Writers \ {w} : execBuf'[v] = execBuf[v] /\
               execPrinted'[v] = execPrinted[v]
      BY <1>5, <2>1, <2>4 DEF ExecInv, ExecTypes
    <2>6. QED
      BY <1>5, <2>2, <2>3, <2>5
  <1>13. CASE Exec!Writes(w, <<>>) /\ Exec!Keeps(w, Append(B, k), execSize[w] + k.size) /\
                execSize[w] + k.size <= ExecMaxBuf
    <2>1. /\ execPrinted' = [execPrinted EXCEPT ![w] = P \o <<>>]
          /\ execBuf' = [execBuf EXCEPT ![w] = Append(B, k)] /\
               execSize' = [execSize EXCEPT ![w] = execSize[w] + k.size]
      BY <1>13 DEF Exec!Writes, Exec!Keeps
    <2>2. P \o <<>> = P
      BY <1>1
    <2>3. execPrinted'[w] = P /\ execBuf'[w] = Append(B, k)
      BY <2>1, <2>2 DEF ExecInv, ExecTypes
    <2>4. /\ ExecNumbered(execPrinted'[w], 0) /\ ExecNumbered(execBuf'[w], Len(execPrinted'[w]))
          /\ Len(execPrinted'[w]) + Len(execBuf'[w]) = Len(P) + Len(B) + 1
      <3>1. ExecNumbered(P, 0)
        BY <1>1 DEF ExecOrdered
      <3>2. QED
        <4>1. Len(P) + (Len(B) + 1) = Len(P) + Len(B) + 1
          BY <1>5, ExecRegrouped, Zenon
        <4>2. QED
          BY <1>5, <2>3, <3>1, <4>1, Zenon
    <2>5. execSize[w] + k.size \in 0..ExecMaxBuf
      BY <1>1, <1>6, <1>13
    <2>6. /\ execPrinted' \in [Exec!Writers -> Seq(ExecChunks)] /\
               execBuf' \in [Exec!Writers -> Seq(ExecChunks)]
          /\ execSize' \in [Exec!Writers -> 0..ExecMaxBuf]
          /\ \A v \in Exec!Writers \ {w} : execBuf'[v] = execBuf[v] /\
               execPrinted'[v] = execPrinted[v]
      BY <1>1, <1>5, <2>1, <2>2, <2>5 DEF ExecInv, ExecTypes
    <2>7. QED
      BY <2>4, <2>6
  <1>14. QED
    BY <1>4, <1>11, <1>12, <1>13

\* What a flush does.
LEMMA ExecFlushed ==
    ASSUME ExecBounds, ExecInv, NEW w \in Exec!Writers, Exec!Flush(w)
    PROVE  /\ execPrinted' \in [Exec!Writers -> Seq(ExecChunks)] /\
                execBuf' \in [Exec!Writers -> Seq(ExecChunks)]
           /\ execSize' \in [Exec!Writers -> 0..ExecMaxBuf]
           /\ \A v \in Exec!Writers \ {w} : execBuf'[v] = execBuf[v] /\
                execPrinted'[v] = execPrinted[v]
           /\ ExecNumbered(execPrinted'[w], 0) /\ execBuf'[w] = <<>>
           /\ Len(execPrinted'[w]) = Len(execPrinted[w]) + Len(execBuf[w])
  <1>1. /\ execPrinted' = [execPrinted EXCEPT ![w] = execPrinted[w] \o execBuf[w]]
        /\ execBuf' = [execBuf EXCEPT ![w] = <<>>] /\ execSize' = [execSize EXCEPT ![w] = 0]
    BY DEF Exec!Flush, Exec!Writes, Exec!Keeps
  <1>2. execPrinted[w] \in Seq(ExecChunks) /\ execBuf[w] \in Seq(ExecChunks) /\ ExecOrdered(w) /\
          0 \in 0..ExecMaxBuf
    BY DEF ExecBounds, ExecInv, ExecTypes
  <1>3. /\ ExecNumbered(execPrinted[w] \o execBuf[w], 0) /\
             execPrinted[w] \o execBuf[w] \in Seq(ExecChunks)
        /\ Len(execPrinted[w] \o execBuf[w]) = Len(execPrinted[w]) + Len(execBuf[w])
    <2>1. Len(execPrinted[w]) \in Nat
      BY <1>2
    <2>2. QED
      BY <1>2, <2>1, ExecNumberedJoined, ExecJoined DEF ExecOrdered
  <1>4. execPrinted'[w] = execPrinted[w] \o execBuf[w] /\ execBuf'[w] = <<>>
    BY <1>1 DEF ExecInv, ExecTypes
  <1>5. /\ execPrinted' \in [Exec!Writers -> Seq(ExecChunks)] /\
             execBuf' \in [Exec!Writers -> Seq(ExecChunks)]
        /\ execSize' \in [Exec!Writers -> 0..ExecMaxBuf]
        /\ \A v \in Exec!Writers \ {w} : execBuf'[v] = execBuf[v] /\
             execPrinted'[v] = execPrinted[v]
    BY <1>1, <1>2, <1>3 DEF ExecInv, ExecTypes
  <1>6. QED
    BY <1>3, <1>4, <1>5

LEMMA ExecFlushedOrder ==
    ASSUME ExecBounds, ExecInv, NEW w \in Exec!Writers, Exec!Flush(w), UNCHANGED execCh
    PROVE  ExecOrdered(w)' /\ ExecTotal(w)' = ExecTotal(w)
  <1>1. /\ ExecNumbered(execPrinted'[w], 0) /\ execBuf'[w] = <<>>
        /\ Len(execPrinted'[w]) = Len(execPrinted[w]) + Len(execBuf[w])
    BY ExecFlushed
  <1>2. Len(execPrinted[w]) \in Nat /\ Len(execBuf[w]) \in Nat /\ Len(execCh[w]) \in Nat /\
          Len(<<>>) = 0
    BY DEF ExecInv, ExecTypes
  <1>3. ExecNumbered(execBuf'[w], Len(execPrinted'[w]))
    BY <1>1 DEF ExecNumbered
  <1>4. ExecNumbered(execCh[w], Len(execPrinted[w]) + Len(execBuf[w]))
    BY DEF ExecInv, ExecOrdered
  <1>5. Len(execPrinted'[w]) + Len(execBuf'[w]) = Len(execPrinted[w]) + Len(execBuf[w])
    BY <1>1, <1>2
  <1>6. QED
    BY <1>1, <1>3, <1>4, <1>5, Zenon DEF ExecOrdered, ExecTotal

\* The timer of the writer fires.
LEMMA ExecBatchTicksInv ==
    ASSUME ExecBounds, ExecInv, NEW w \in Exec!Writers, Exec!BatchTicks(w)
    PROVE  ExecInv'
  <1>1. /\ execBuf[w] # <<>> /\ Exec!Flush(w)
        /\ UNCHANGED <<execShared, execTool, execSaid, execCode, execWire, execPc, execStatus,
             execCh, execOpen>>
    BY DEF Exec!BatchTicks, Exec!server
  <1>2. ExecTypes'
    BY <1>1, ExecFlushed DEF ExecInv, ExecTypes
  <1>3. Len(execCh'[w]) <= ExecQueueCap /\ execOpen[w] # "done"
    BY <1>1 DEF ExecInv, Exec!TypeOK, ExecEnding
  <1>4. ExecOrdered(w)' /\ ExecTotal(w)' = ExecTotal(w)
    BY <1>1, ExecFlushedOrder
  <1>5. \A v \in Exec!Writers \ {w} : execBuf'[v] = execBuf[v] /\ execPrinted'[v] = execPrinted[v]
    BY <1>1, ExecFlushed
  <1>6. QED
    BY <1>1, <1>2, <1>3, <1>4, <1>5, ExecBatched, Zenon

\* The writer has written all and ends.
LEMMA ExecBatchEndsInv ==
    ASSUME ExecBounds, ExecInv, NEW w \in Exec!Writers, Exec!BatchEnds(w)
    PROVE  ExecInv'
  <1>1. /\ execOpen[w] = "closed" /\ execCh[w] = <<>> /\ Exec!Flush(w) /\
             execOpen' = [execOpen EXCEPT ![w] = "done"]
        /\ UNCHANGED <<execShared, execTool, execSaid, execCode, execWire, execPc, execStatus,
             execCh>>
    BY DEF Exec!BatchEnds, Exec!server
  <1>2. /\ execOpen' \in [Exec!Writers -> {"open", "closed", "done"}] /\ execOpen'[w] = "done"
        /\ \A v \in Exec!Writers \ {w} : execOpen'[v] = execOpen[v]
    BY <1>1 DEF ExecInv, ExecTypes
  <1>3. ExecTypes'
    BY <1>1, <1>2, ExecFlushed DEF ExecInv, ExecTypes
  <1>4. Len(execCh'[w]) <= ExecQueueCap
    BY <1>1 DEF ExecInv, Exec!TypeOK
  <1>5. ExecOrdered(w)' /\ ExecTotal(w)' = ExecTotal(w)
    BY <1>1, ExecFlushedOrder
  <1>6. execBuf'[w] = <<>> /\ \A v \in Exec!Writers \ {w} : execBuf'[v] = execBuf[v] /\
          execPrinted'[v] = execPrinted[v]
    BY <1>1, ExecFlushed
  <1>7. execOpen'[w] # "open" /\ execOpen[w] # "open" /\ execOpen[w] # "done"
    BY <1>1, <1>2
  <1>8. QED
    BY <1>1, <1>2, <1>3, <1>4, <1>5, <1>6, <1>7, ExecBatched, Zenon

-----------------------------------------------------------------------------
(* The command.                                                            *)

\* What the command does not take from a stream stays on its way.
LEMMA ExecPassed ==
    ASSUME NEW v \in Exec!Writers, execWire \in Seq(ExecEvents), execWire # <<>>,
             execWire' = Tail(execWire),
           ~ExecIsChunk(1, v), UNCHANGED execSaid, ExecTotal(v)' = ExecTotal(v), ExecComing(v)
    PROVE  ExecComing(v)'
  <1>1. /\ Len(execWire) \in Nat \ {0} /\ Len(execWire') = Len(execWire) - 1
        /\ \A p \in 1..Len(execWire) - 1 : execWire'[p] = execWire[p + 1]
    BY ExecShrunk
  <1>2. \A p \in 1..Len(execWire') : p + 1 \in 1..Len(execWire) /\ execWire'[p] = execWire[p + 1]
    BY <1>1
  <1>3. \A p \in 1..Len(execWire') : ExecIsChunk(p, v)' => ExecIsChunk(p + 1, v)
    BY <1>2, Zenon DEF ExecIsChunk
  <1>4. ASSUME NEW p \in 1..Len(execWire'), ExecIsChunk(p, v)'
        PROVE  execWire'[p].of.n \in ExecTotal(v) + 1..execSaid[v]
    BY <1>2, <1>3, <1>4, Zenon DEF ExecComing
  <1>5. ASSUME NEW p \in 1..Len(execWire'), NEW r \in 1..Len(execWire'), ExecIsChunk(p, v)',
                 ExecIsChunk(r, v)',
               p < r
        PROVE  execWire'[p].of.n < execWire'[r].of.n
    <2>1. p + 1 < r + 1
      BY <1>5
    <2>2. QED
      BY <1>2, <1>3, <1>5, <2>1, Zenon DEF ExecComing
  <1>6. ASSUME NEW n \in ExecTotal(v) + 1..execSaid[v]
        PROVE  \E p \in 1..Len(execWire') : ExecIsChunk(p, v)' /\ execWire'[p].of.n = n
    <2>1. PICK r \in 1..Len(execWire) : ExecIsChunk(r, v) /\ execWire[r].of.n = n
      BY <1>6, Zenon DEF ExecComing
    <2>2. PICK p \in Nat : p = r - 1
      BY <1>1, <2>1
    <2>3. r # 1
      BY <2>1
    <2>4. p \in 1..Len(execWire') /\ p + 1 = r
      BY <1>1, <2>2, <2>3
    <2>5. execWire'[p] = execWire[r]
      BY <1>2, <2>4, Zenon
    <2>6. ExecIsChunk(p, v)' /\ execWire'[p].of.n = n
      BY <2>1, <2>5, Zenon DEF ExecIsChunk
    <2>7. QED
      BY <2>4, <2>6
  <1>7. QED
    BY <1>4, <1>5, <1>6, Zenon DEF ExecComing

LEMMA ExecUnmoved ==
    ASSUME NEW v \in Exec!Writers, UNCHANGED <<execWire, execSaid, execPrinted, execBuf, execCh>>,
             ExecOrdered(v), ExecComing(v)
    PROVE  ExecOrdered(v)' /\ ExecComing(v)'
  <1>1. ExecOrdered(v)'
    BY Zenon DEF ExecOrdered, ExecNumbered
  <1>2. ExecTotal(v)' = ExecTotal(v)
    BY Zenon DEF ExecTotal
  <1>3. ExecComing(v)'
    BY <1>2, Zenon DEF ExecComing, ExecIsChunk
  <1>4. QED
    BY <1>1, <1>3

\* The command calls the shell.
LEMMA ExecExecInv ==
    ASSUME ExecBounds, ExecInv, Exec!Exec
    PROVE  ExecInv'
  <1>1. /\ execPc = "send" /\ execPc' = "recv" /\ execTool' = "run"
        /\ UNCHANGED <<execShared, execSaid, execCode, execWire, execStatus, execCh, execBuf,
             execSize, execPrinted, execOpen>>
    BY DEF Exec!Exec, Exec!writers
  <1>2. execTool = "start" /\ \A w \in Exec!Writers : execOpen[w] = "open"
    BY <1>1, Zenon DEF ExecInv, ExecResultIsLast, ExecEnding
  <1>3. ExecTypes' /\ Exec!TypeOK'
    BY <1>1 DEF ExecInv, ExecTypes, Exec!TypeOK
  <1>4. ExecResultIsLast'
    BY <1>1, <1>2 DEF ExecInv, ExecResultIsLast
  <1>5. ExecEnding'
    BY <1>1, <1>2 DEF ExecInv, ExecEnding
  <1>6. \A v \in Exec!Writers : ExecOrdered(v)' /\ ExecComing(v)'
    BY <1>1, ExecUnmoved DEF ExecInv
  <1>7. QED
    BY <1>3, <1>4, <1>5, <1>6 DEF ExecInv

\* The first chunk on its way is the next of its stream.
LEMMA ExecNextChunk ==
    ASSUME NEW w \in Exec!Writers, execWire \in Seq(ExecEvents), execWire # <<>>, ExecIsChunk(1,
             w), ExecComing(w),
           ExecTotal(w) \in Nat, execSaid[w] \in Nat
    PROVE  execWire[1].of.n = ExecTotal(w) + 1 /\ ExecTotal(w) + 1 <= execSaid[w]
  <1>1. 1 \in 1..Len(execWire) /\ \A p \in 1..Len(execWire) : p # 1 => 1 < p
    BY ExecShrunk
  <1>2. execWire[1].of.n \in ExecTotal(w) + 1..execSaid[w]
    BY <1>1, Zenon DEF ExecComing
  <1>3. ExecTotal(w) + 1 \in ExecTotal(w) + 1..execSaid[w]
    BY <1>2
  <1>4. PICK p \in 1..Len(execWire) : ExecIsChunk(p, w) /\ execWire[p].of.n = ExecTotal(w) + 1
    BY <1>3, Zenon DEF ExecComing
  <1>5. p # 1 => execWire[1].of.n < execWire[p].of.n
    BY <1>1, <1>4, Zenon DEF ExecComing
  <1>6. QED
    BY <1>2, <1>4, <1>5

\* The command passes a chunk to its writer.
LEMMA ExecPrintEventHumanInv ==
    ASSUME ExecBounds, ExecInv, Exec!PrintEventHuman
    PROVE  ExecInv'
  <1>1. /\ execPc = "recv" /\ execWire # <<>> /\ execWire[1].kind = "chunk" /\
             execWire' = Tail(execWire)
        /\ UNCHANGED <<execShared, execTool, execSaid, execCode, execPc, execStatus, execBuf,
             execSize, execPrinted, execOpen>>
    BY DEF Exec!PrintEventHuman, Exec!server, ExecInv, ExecTypes
  <1>2. execWire[1] \in ExecEvents /\ execWire' \in Seq(ExecEvents) /\ execWire \in Seq(ExecEvents)
    BY <1>1, ExecShrunk DEF ExecInv, ExecTypes
  <1>3. PICK k \in ExecChunks : k = execWire[1].of
    BY <1>1, <1>2 DEF ExecEvents
  <1>4. PICK w \in Exec!Writers : w = k.on
    BY <1>3 DEF ExecChunks
  <1>5. Len(execCh[w]) < ExecQueueCap /\ execCh' = [execCh EXCEPT ![w] = Append(execCh[w], k)]
    <2>1. Head(execWire).of = k
      BY <1>1, <1>2, <1>3
    <2>2. QED
      BY <1>4, <2>1, Zenon DEF Exec!PrintEventHuman
  <1>6. ExecIsChunk(1, w) /\ \A v \in Exec!Writers : v # w => ~ExecIsChunk(1, v)
    BY <1>1, <1>3, <1>4, Zenon DEF ExecIsChunk
  <1>7. \A v \in Exec!Writers : ExecTotal(v) \in Nat /\ execSaid[v] \in Nat
    BY DEF ExecInv, ExecTypes, ExecTotal
  <1>8. k.n = ExecTotal(w) + 1 /\ ExecTotal(w) + 1 <= execSaid[w] /\ ExecComing(w)
    BY <1>1, <1>2, <1>3, <1>6, <1>7, ExecNextChunk DEF ExecInv
  <1>9. /\ Append(execCh[w], k) \in Seq(ExecChunks) /\
             Len(Append(execCh[w], k)) = Len(execCh[w]) + 1
        /\ Append(execCh[w], k)[Len(execCh[w]) + 1] = k
        /\ \A i \in 1..Len(execCh[w]) : Append(execCh[w], k)[i] = execCh[w][i]
        /\ Len(execCh[w]) \in Nat /\ Len(execBuf[w]) \in Nat /\ Len(execPrinted[w]) \in Nat
    BY ExecGrown DEF ExecInv, ExecTypes
  <1>10. /\ execCh' \in [Exec!Writers -> Seq(ExecChunks)] /\ execCh'[w] = Append(execCh[w], k)
         /\ \A v \in Exec!Writers \ {w} : execCh'[v] = execCh[v]
    BY <1>5, <1>9 DEF ExecInv, ExecTypes
  <1>11. ExecTypes'
    BY <1>1, <1>2, <1>10 DEF ExecInv, ExecTypes
  <1>12. Exec!TypeOK'
    <2>1. ASSUME NEW v \in Exec!Writers PROVE Len(execCh'[v]) <= ExecQueueCap
      <3>1. CASE v = w
        BY <1>5, <1>9, <1>10, <3>1 DEF ExecBounds
      <3>2. CASE v # w
        BY <1>10, <3>2 DEF ExecInv, Exec!TypeOK
      <3>3. QED
        BY <3>1, <3>2
    <2>2. QED
      BY <1>1, <2>1, Zenon DEF ExecInv, Exec!TypeOK
  <1>13. ExecResultIsLast'
    <2>1. /\ Len(execWire) \in Nat \ {0} /\ Len(execWire') = Len(execWire) - 1
          /\ \A p \in 1..Len(execWire') : execWire'[p] = execWire[p + 1] /\
               p + 1 \in 1..Len(execWire)
      BY <1>1, <1>2, ExecShrunk
    <2>2. ASSUME NEW p \in 1..Len(execWire'), ~execShared, execWire'[p].kind = "result"
          PROVE  p = Len(execWire') /\ execTool = "done" /\ execWire'[p].of = execCode
      <3>1. execWire[p + 1].kind = "result" /\ p + 1 \in 1..Len(execWire) /\
              execWire'[p] = execWire[p + 1]
        BY <2>1, <2>2
      <3>2. p + 1 = Len(execWire) /\ execTool = "done" /\ execWire[p + 1].of = execCode
        BY <2>2, <3>1 DEF ExecInv, ExecResultIsLast
      <3>3. QED
        BY <2>1, <3>1, <3>2
    <2>3. QED
      BY <1>1, <2>2, Zenon DEF ExecInv, ExecResultIsLast
  <1>14. \A v \in Exec!Writers : execOpen[v] = "open"
    BY <1>1 DEF ExecInv, ExecEnding
  <1>15. ExecEnding'
    BY <1>1, <1>14 DEF ExecEnding
  <1>16. \A v \in Exec!Writers : v # w => ExecTotal(v)' = ExecTotal(v) /\ ExecOrdered(v)'
    <2>1. ASSUME NEW v \in Exec!Writers, v # w PROVE ExecTotal(v)' = ExecTotal(v) /\ ExecOrdered(v)'
      <3>1. ExecOrdered(v) /\ execCh'[v] = execCh[v]
        BY <1>10, <2>1 DEF ExecInv
      <3>2. QED
        BY <1>1, <3>1, Zenon DEF ExecOrdered, ExecNumbered, ExecTotal
    <2>2. QED
      BY <2>1
  <1>17. ExecTotal(w)' = ExecTotal(w) + 1
    <2>1. Len(execCh'[w]) = Len(execCh[w]) + 1
      BY <1>9, <1>10
    <2>2. ExecTotal(w)' = Len(execPrinted[w]) + Len(execBuf[w]) + (Len(execCh[w]) + 1)
      BY <1>1, <2>1, Zenon DEF ExecTotal
    <2>3. PICK p \in Nat, b \in Nat, c \in Nat :
            p = Len(execPrinted[w]) /\ b = Len(execBuf[w]) /\ c = Len(execCh[w])
      BY <1>9, Zenon
    <2>4. p + b + (c + 1) = p + b + c + 1
      OBVIOUS
    <2>5. QED
      BY <2>2, <2>3, <2>4, Zenon DEF ExecTotal
  <1>18. ExecOrdered(w)'
    <2>1. ExecNumbered(execCh[w], Len(execPrinted[w]) + Len(execBuf[w]))
      BY DEF ExecInv, ExecOrdered
    <2>2. PICK f \in Nat : f = Len(execPrinted[w]) + Len(execBuf[w])
      BY DEF ExecInv, ExecTypes
    <2>3. PICK c \in Nat : c = Len(execCh[w])
      BY <1>9
    <2>4. ExecTotal(w) = f + c
      BY <2>2, <2>3, Zenon DEF ExecTotal
    <2>5. Append(execCh[w], k)[c + 1].n = f + (c + 1)
      <3>1. k.n = f + c + 1
        BY <1>8, <2>4
      <3>2. f + c + 1 = f + (c + 1)
        OBVIOUS
      <3>3. QED
        BY <1>9, <2>3, <3>1, <3>2, Zenon
    <2>6. ASSUME NEW i \in 1..c + 1 PROVE Append(execCh[w], k)[i].n = f + i
      <3>1. CASE i = c + 1
        BY <2>5, <3>1
      <3>2. CASE i # c + 1
        <4>1. i \in 1..c
          BY <3>2
        <4>2. QED
          BY <1>9, <2>1, <2>2, <2>3, <4>1, Zenon DEF ExecNumbered
      <3>3. QED
        BY <3>1, <3>2
    <2>7. ExecNumbered(execCh'[w], f)
      BY <1>9, <1>10, <2>3, <2>6, Zenon DEF ExecNumbered
    <2>8. ExecNumbered(execPrinted[w], 0) /\ ExecNumbered(execBuf[w], Len(execPrinted[w]))
      BY DEF ExecInv, ExecOrdered
    <2>9. QED
      BY <1>1, <2>2, <2>7, <2>8, Zenon DEF ExecOrdered
  <1>19. ExecComing(w)'
    <2>1. /\ Len(execWire) \in Nat \ {0} /\ Len(execWire') = Len(execWire) - 1
          /\ \A p \in 1..Len(execWire') : execWire'[p] = execWire[p + 1] /\
               p + 1 \in 1..Len(execWire) /\ 1 < p + 1
      BY <1>1, <1>2, ExecShrunk
    <2>2. 1 \in 1..Len(execWire)
      BY <2>1
    <2>3. \A p \in 1..Len(execWire') : ExecIsChunk(p, w)' => ExecIsChunk(p + 1, w)
      BY <2>1, Zenon DEF ExecIsChunk
    <2>4. PICK t \in Nat, m \in Nat : t = ExecTotal(w) /\ m = execSaid[w]
      BY <1>7, Zenon
    <2>5. execWire[1].of.n = t + 1 /\ t + 1 <= m /\ ExecTotal(w)' = t + 1 /\ execSaid'[w] = m
      BY <1>1, <1>3, <1>8, <1>17, <2>4, Zenon
    <2>6. ASSUME NEW p \in 1..Len(execWire'), ExecIsChunk(p, w)'
          PROVE  execWire'[p].of.n \in t + 1 + 1..m
      <3>1. execWire[p + 1].of.n \in t + 1..m
        BY <1>8, <2>1, <2>3, <2>4, <2>6, Zenon DEF ExecComing
      <3>2. execWire[1].of.n < execWire[p + 1].of.n
        BY <1>6, <1>8, <2>1, <2>2, <2>3, <2>6, Zenon DEF ExecComing
      <3>3. QED
        BY <2>1, <2>5, <3>1, <3>2
    <2>7. ASSUME NEW p \in 1..Len(execWire'), NEW r \in 1..Len(execWire'), ExecIsChunk(p, w)',
                 ExecIsChunk(r, w)', p < r
          PROVE  execWire'[p].of.n < execWire'[r].of.n
      <3>1. p + 1 < r + 1
        BY <2>7
      <3>2. QED
        BY <1>8, <2>1, <2>3, <2>7, <3>1, Zenon DEF ExecComing
    <2>8. ASSUME NEW n \in t + 1 + 1..m
          PROVE  \E p \in 1..Len(execWire') : ExecIsChunk(p, w)' /\ execWire'[p].of.n = n
      <3>1. n \in t + 1..m /\ n # t + 1
        OBVIOUS
      <3>2. PICK r \in 1..Len(execWire) : ExecIsChunk(r, w) /\ execWire[r].of.n = n
        BY <1>8, <2>4, <3>1, Zenon DEF ExecComing
      <3>3. PICK p \in Nat : p = r - 1
        BY <2>1, <3>2
      <3>4. r # 1
        BY <2>5, <3>1, <3>2
      <3>5. p \in 1..Len(execWire') /\ p + 1 = r
        BY <2>1, <3>3, <3>4
      <3>6. execWire'[p] = execWire[r]
        BY <2>1, <3>5, Zenon
      <3>7. ExecIsChunk(p, w)' /\ execWire'[p].of.n = n
        BY <3>2, <3>6, Zenon DEF ExecIsChunk
      <3>8. QED
        BY <3>5, <3>7
    <2>9. QED
      BY <2>5, <2>6, <2>7, <2>8, Zenon DEF ExecComing
  <1>20. \A v \in Exec!Writers : v # w => ExecComing(v)'
    <2>1. ASSUME NEW v \in Exec!Writers, v # w PROVE ExecComing(v)'
      <3>1. ExecComing(v) /\ UNCHANGED execSaid
        BY <1>1 DEF ExecInv
      <3>2. QED
        BY <1>1, <1>2, <1>6, <1>16, <2>1, <3>1, ExecPassed
    <2>2. QED
      BY <2>1
  <1>21. QED
    BY <1>11, <1>12, <1>13, <1>15, <1>16, <1>18, <1>19, <1>20, Zenon DEF ExecInv

\* The command takes the first result.
LEMMA ExecTakeResultInv ==
    ASSUME ExecBounds, ExecInv, Exec!TakeResult
    PROVE  ExecInv'
  <1>1. /\ execPc = "recv" /\ execWire # <<>> /\ execWire[1].kind = "result" /\
             execWire' = Tail(execWire)
        /\ execPc' = "closeOut" /\ execStatus' = execWire[1].of
        /\ UNCHANGED <<execShared, execTool, execSaid, execCode, execCh, execBuf, execSize,
             execPrinted, execOpen>>
    BY DEF Exec!TakeResult, Exec!server, Exec!writers, ExecInv, ExecTypes
  <1>2. execWire[1] \in ExecEvents /\ execWire' \in Seq(ExecEvents) /\ execWire \in Seq(ExecEvents)
    BY <1>1, ExecShrunk DEF ExecInv, ExecTypes
  <1>3. execWire[1].of \in {"0", "1", "other"}
    BY <1>1, <1>2 DEF ExecEvents
  <1>4. ExecTypes' /\ Exec!TypeOK'
    BY <1>1, <1>2, <1>3 DEF ExecInv, ExecTypes, Exec!TypeOK
  <1>5. /\ Len(execWire) \in Nat \ {0} /\ Len(execWire') = Len(execWire) - 1
        /\ \A p \in 1..Len(execWire') : execWire'[p] = execWire[p + 1] /\ p + 1 \in 1..Len(execWire)
    BY <1>1, <1>2, ExecShrunk
  <1>6. ExecResultIsLast'
    <2>1. ASSUME NEW p \in 1..Len(execWire'), ~execShared, execWire'[p].kind = "result"
          PROVE  p = Len(execWire') /\ execTool = "done" /\ execWire'[p].of = execCode
      <3>1. execWire[p + 1].kind = "result" /\ p + 1 \in 1..Len(execWire) /\
              execWire'[p] = execWire[p + 1]
        BY <1>5, <2>1
      <3>2. p + 1 = Len(execWire) /\ execTool = "done" /\ execWire[p + 1].of = execCode
        BY <2>1, <3>1 DEF ExecInv, ExecResultIsLast
      <3>3. QED
        BY <1>5, <3>1, <3>2
    <2>2. QED
      BY <1>1, <2>1, Zenon DEF ExecResultIsLast
  <1>7. \A v \in Exec!Writers : ~ExecIsChunk(1, v)
    BY <1>1 DEF ExecIsChunk
  <1>8. \A v \in Exec!Writers : ExecTotal(v)' = ExecTotal(v) /\ ExecTotal(v) \in Nat /\
          execSaid[v] \in Nat
    BY <1>1 DEF ExecInv, ExecTypes, ExecTotal
  <1>9. ExecEnding'
    <2>1. \A v \in Exec!Writers : execOpen[v] = "open"
      BY <1>1 DEF ExecInv, ExecEnding
    <2>2. ASSUME ~execShared
          PROVE  execStatus' = execCode /\ execTool = "done" /\
                   \A v \in Exec!Writers : ExecTotal(v) = execSaid[v]
      <3>0. 1 \in 1..Len(execWire)
        BY <1>5
      <3>1. 1 = Len(execWire) /\ execTool = "done" /\ execWire[1].of = execCode
        BY <1>1, <2>2, <3>0, Zenon DEF ExecInv, ExecResultIsLast
      <3>2. ASSUME NEW v \in Exec!Writers PROVE ExecTotal(v) = execSaid[v]
        <4>1. \A n \in ExecTotal(v) + 1..execSaid[v] : FALSE
          <5>1. Len(execWire) = 1
            BY <3>1, Zenon
          <5>2. \A p \in 1..Len(execWire) : p = 1
            BY <5>1
          <5>3. \A p \in 1..Len(execWire) : ~ExecIsChunk(p, v)
            BY <1>7, <5>2, Zenon
          <5>4. ExecComing(v)
            BY DEF ExecInv
          <5>5. QED
            BY <5>3, <5>4, Zenon DEF ExecComing
        <4>2. PICK t \in Nat, m \in Nat : t = ExecTotal(v) /\ m = execSaid[v]
          BY <1>8, Zenon
        <4>3. t <= m /\ \A n \in t + 1..m : FALSE
          BY <4>1, <4>2, Zenon DEF ExecInv, ExecComing
        <4>4. t = m
          BY <4>3
        <4>5. QED
          BY <4>2, <4>4
      <3>3. QED
        BY <1>1, <3>1, <3>2
    <2>3. QED
      BY <1>1, <1>8, <2>1, <2>2, Zenon DEF ExecEnding
  <1>10. ASSUME NEW v \in Exec!Writers PROVE ExecOrdered(v)' /\ ExecComing(v)'
    <2>1. ExecOrdered(v) /\ ExecComing(v) /\ ExecTotal(v)' = ExecTotal(v) /\ UNCHANGED execSaid
      BY <1>1, <1>8, Zenon DEF ExecInv
    <2>2. ExecOrdered(v)'
      BY <1>1, <2>1, Zenon DEF ExecOrdered, ExecNumbered
    <2>3. ExecComing(v)'
      BY <1>1, <1>2, <1>7, <2>1, ExecPassed
    <2>4. QED
      BY <2>2, <2>3
  <1>11. QED
    BY <1>4, <1>6, <1>9, <1>10, Zenon DEF ExecInv

\* The command closes a writer, or goes on when it has ended.
LEMMA ExecCloseInv ==
    ASSUME ExecBounds, ExecInv, NEW w \in Exec!Writers, Exec!Close(w)
    PROVE  ExecInv'
  <1>1. /\
             UNCHANGED <<execShared, execTool, execSaid, execCode, execWire, execStatus, execCh,
               execBuf, execSize, execPrinted>>
        /\ execPc \in {"closeOut", "closeErr"}
    BY DEF Exec!Close, Exec!server
  <1>2. \/ execOpen[w] = "open" /\ execOpen' = [execOpen EXCEPT ![w] = "closed"] /\ execPc' = execPc
        \/ w = "out" /\ execOpen[w] = "done" /\ execOpen' = execOpen /\ execPc' = "closeErr"
        \/ /\ w = "err" /\ execPc = "closeErr" /\ execOpen[w] = "done"
           /\ execOpen' = execOpen /\ execPc' = "done"
    BY DEF Exec!Close, Exec!Writers
  <1>3. ExecTypes'
    BY <1>1, <1>2 DEF ExecInv, ExecTypes
  <1>4. Exec!TypeOK' /\ ExecResultIsLast'
    BY <1>1, <1>2 DEF ExecInv, Exec!TypeOK, ExecResultIsLast
  <1>5. \A v \in Exec!Writers : ExecTotal(v)' = ExecTotal(v)
    BY <1>1, Zenon DEF ExecTotal
  <1>6. \A v \in Exec!Writers : execOpen'[v] = "done" <=> execOpen[v] = "done"
    BY <1>2 DEF ExecInv, ExecTypes
  <1>7. "out" \in Exec!Writers /\ "err" \in Exec!Writers
    BY DEF Exec!Writers
  <1>8. ExecEnding'
    <2>1. execPc' \in {"closeOut", "closeErr", "done"}
      BY <1>1, <1>2
    <2>2. ~execShared =>
            execStatus = execCode /\ execTool = "done" /\
              \A v \in Exec!Writers : ExecTotal(v) = execSaid[v]
      BY <1>1 DEF ExecInv, ExecEnding
    <2>3. execPc' \in {"closeErr", "done"} => execOpen["out"] = "done"
      BY <1>2 DEF ExecInv, ExecEnding
    <2>4. execPc' = "done" => execOpen["err"] = "done"
      BY <1>1, <1>2
    <2>5. \A v \in Exec!Writers : execOpen[v] = "done" => execCh[v] = <<>> /\ execBuf[v] = <<>>
      BY DEF ExecInv, ExecEnding
    <2>6. execPc' \notin {"send", "recv"}
      BY <2>1
    <2>7. QED
      BY <1>1, <1>5, <1>6, <1>7, <2>1, <2>2, <2>3, <2>4, <2>5, <2>6, Zenon DEF ExecEnding
  <1>9. \A v \in Exec!Writers : ExecOrdered(v)' /\ ExecComing(v)'
    BY <1>1, ExecUnmoved DEF ExecInv
  <1>10. QED
    BY <1>3, <1>4, <1>8, <1>9, Zenon DEF ExecInv

\* The stream breaks.
LEMMA ExecRecvFailsInv ==
    ASSUME ExecBounds, ExecInv, Exec!RecvFails
    PROVE  ExecInv'
  <1>1. /\ execPc = "recv" /\ execPc' = "err" /\ execStatus' = "broken"
        /\ UNCHANGED <<execShared, execTool, execSaid, execCode, execWire, execCh, execBuf,
             execSize, execPrinted, execOpen>>
    BY DEF Exec!RecvFails, Exec!server, Exec!writers
  <1>2. ExecTypes' /\ Exec!TypeOK' /\ ExecResultIsLast'
    BY <1>1 DEF ExecInv, ExecTypes, Exec!TypeOK, ExecResultIsLast
  <1>3. ExecEnding'
    BY <1>1 DEF ExecInv, ExecEnding
  <1>4. \A v \in Exec!Writers : ExecOrdered(v)' /\ ExecComing(v)'
    BY <1>1, ExecUnmoved DEF ExecInv
  <1>5. QED
    BY <1>2, <1>3, <1>4, Zenon DEF ExecInv

-----------------------------------------------------------------------------
LEMMA ExecNextInv == ExecBounds /\ ExecInv /\ [Exec!Next]_Exec!vars => ExecInv'
  <1>1. SUFFICES ASSUME ExecBounds, ExecInv, [Exec!Next]_Exec!vars PROVE ExecInv'
    OBVIOUS
  <1>2. CASE Exec!Say
    BY <1>1, <1>2, ExecSayInv
  <1>3. CASE Exec!Result
    BY <1>1, <1>3, ExecResultInv
  <1>4. CASE Exec!OtherResult
    BY <1>1, <1>4, ExecOtherResultInv
  <1>5. CASE Exec!Command
    BY <1>1, <1>5, ExecExecInv, ExecPrintEventHumanInv, ExecTakeResultInv,
       ExecRecvFailsInv DEF Exec!Command
  <1>6. ASSUME NEW w \in Exec!Writers, Exec!Batch(w) \/ Exec!Close(w) PROVE ExecInv'
    BY <1>1, <1>6, ExecBatchTakesInv, ExecBatchTicksInv, ExecBatchEndsInv,
       ExecCloseInv DEF Exec!Batch
  <1>7. CASE UNCHANGED Exec!vars
    <2>1. UNCHANGED <<execShared, execTool, execSaid, execCode, execWire, execPc, execStatus,
            execCh, execBuf, execSize, execPrinted, execOpen>>
      BY <1>7 DEF Exec!vars
    <2>2. ExecTypes' /\ Exec!TypeOK' /\ ExecResultIsLast'
      BY <1>1, <2>1 DEF ExecInv, ExecTypes, Exec!TypeOK, ExecResultIsLast
    <2>3. ExecEnding'
      BY <1>1, <2>1, Zenon DEF ExecInv, ExecEnding, ExecTotal
    <2>4. \A v \in Exec!Writers : ExecOrdered(v)' /\ ExecComing(v)'
      BY <1>1, <2>1, ExecUnmoved DEF ExecInv
    <2>5. QED
      BY <2>2, <2>3, <2>4, Zenon DEF ExecInv
  <1>8. QED
    BY <1>1, <1>2, <1>3, <1>4, <1>5, <1>6, <1>7, Zenon DEF Exec!Next

\* What a stream in order is: the numbers of its chunks.
LEMMA ExecWhole ==
    ASSUME ExecInv, NEW w \in Exec!Writers, NEW s, s = execPrinted[w] \o execBuf[w] \o execCh[w]
    PROVE  Exec!Numbers(s) = Exec!Prefix(Len(s))
  <1> DEFINE P == execPrinted[w]
             B == execBuf[w]
             C == execCh[w]
  <1>1. P \in Seq(ExecChunks) /\ B \in Seq(ExecChunks) /\ C \in Seq(ExecChunks)
    BY DEF ExecInv, ExecTypes
  <1>2. ExecNumbered(P, 0) /\ ExecNumbered(B, Len(P)) /\ ExecNumbered(C, Len(P) + Len(B))
    BY Zenon DEF ExecInv, ExecOrdered
  <1>3. s = P \o B \o C
    OBVIOUS
  <1> HIDE DEF P, B, C
  <1>4. Len(P) \in Nat /\ Len(B) \in Nat /\ Len(C) \in Nat
    BY <1>1
  <1>5. ExecNumbered(P \o B, 0) /\ P \o B \in Seq(ExecChunks) /\ Len(P \o B) = Len(P) + Len(B)
    <2>1. ExecNumbered(B, 0 + Len(P))
      BY <1>2, <1>4
    <2>2. QED
      BY <1>1, <1>2, <2>1, ExecNumberedJoined, ExecJoined
  <1>6. ExecNumbered(s, 0) /\ s \in Seq(ExecChunks)
    <2>1. ExecNumbered(C, 0 + Len(P \o B))
      BY <1>2, <1>4, <1>5
    <2>2. QED
      <3>1. ExecNumbered(P \o B \o C, 0)
        BY <1>1, <1>5, <2>1, ExecNumberedJoined
      <3>2. P \o B \o C \in Seq(ExecChunks)
        BY <1>1, <1>5
      <3>3. QED
        BY <1>3, <3>1, <3>2
  <1>7. DOMAIN s = 1..Len(s)
    BY <1>6
  <1>8. \A i \in 1..Len(s) : s[i].n = i
    <2>1. \A i \in 1..Len(s) : s[i].n = 0 + i
      BY <1>6, Zenon DEF ExecNumbered
    <2>2. \A i \in 1..Len(s) : 0 + i = i
      BY <1>6
    <2>3. QED
      BY <2>1, <2>2, Zenon
  <1>9. QED
    BY <1>7, <1>8, Zenon DEF Exec!Numbers, Exec!Prefix

LEMMA ExecMeaning == ExecInv => Exec!TypeOK /\ Exec!BatchesKeepOrder /\ Exec!ExecPrintsAll
  <1>1. SUFFICES ASSUME ExecInv PROVE Exec!TypeOK /\ Exec!BatchesKeepOrder /\ Exec!ExecPrintsAll
    OBVIOUS
  <1>2. Exec!BatchesKeepOrder
    BY <1>1, ExecWhole DEF Exec!BatchesKeepOrder
  <1>3. ASSUME execPc = "done", ~execShared
        PROVE  execStatus = execCode /\ \A w \in Exec!Writers : Len(execPrinted[w]) = execSaid[w]
    <2>1. execStatus = execCode /\ \A w \in Exec!Writers : ExecTotal(w) = execSaid[w]
      BY <1>1, <1>3 DEF ExecInv, ExecEnding
    <2>2. \A w \in Exec!Writers : execOpen[w] = "done"
      BY <1>1, <1>3 DEF ExecInv, ExecEnding, Exec!Writers
    <2>3. \A w \in Exec!Writers : Len(execCh[w]) = 0 /\ Len(execBuf[w]) = 0 /\
            Len(execPrinted[w]) \in Nat
      BY <1>1, <2>2 DEF ExecInv, ExecEnding, ExecTypes
    <2>4. \A w \in Exec!Writers : ExecTotal(w) = Len(execPrinted[w])
      BY <1>1, <2>3 DEF ExecInv, ExecTypes, ExecTotal
    <2>5. QED
      BY <2>1, <2>4
  <1>4. QED
    BY <1>1, <1>2, <1>3 DEF ExecInv, Exec!ExecPrintsAll

-----------------------------------------------------------------------------
\* What a batch writer has written, gathered and not yet taken is the output of
\* its stream, in order, once each, whatever the sizes of the chunks; a command
\* that is alone in its session returns the status of its own call and has
\* printed all of the call's output by then (batchWriter, newSSHExecCmd).
THEOREM ExecHolds ==
    ASSUME ExecBounds
    PROVE  Exec!Spec => [](Exec!TypeOK /\ Exec!BatchesKeepOrder /\ Exec!ExecPrintsAll)
  <1>1. Exec!Init => ExecInv
    BY ExecInitInv
  <1>2. ExecInv /\ [Exec!Next]_Exec!vars => ExecInv'
    BY ExecNextInv
  <1>3. QED
    BY <1>1, <1>2, ExecMeaning, PTL DEF Exec!Spec

-----------------------------------------------------------------------------
(***************************************************************************)
(* Proofs about ChatShell, for any number of commands, any output and any  *)
(* number of commands of others.                                           *)
(***************************************************************************)

ChatBounds ==
    /\ ChatCmds \subseteq Nat \ {0}
    /\ ChatMaxLog \in Nat /\ ChatMaxHooks \in Nat /\ ChatMaxEvents \in Nat

-----------------------------------------------------------------------------
\* What is on the way from AttachShell has happened, and the end of a command is
\* behind its start.
ChatWired ==
    /\ chatWire \in Seq({"started", "completed"} \X Chat!Ids)
    /\ \A p \in 1..Len(chatWire) :
           \/ chatWire[p][1] = "started" /\ chatWire[p][2] \in ChatCmds /\
                chatRun[chatWire[p][2]] \notin {"none", "sent"}
           \/ chatWire[p][1] = "completed" /\ chatWire[p][2] \in ChatCmds /\
                chatRun[chatWire[p][2]] = "done"
           \/ chatWire[p][1] = "completed" /\ chatWire[p][2] = 0
    /\ \A p, r \in 1..Len(chatWire) :
           chatWire[p][1] = "completed" /\ chatWire[r][1] = "started" /\
             chatWire[p][2] = chatWire[r][2] => r < p

\* The records of this chat's commands are true.
ChatRecorded ==
    /\ \A i \in ChatCmds : chatByID[i] # "none" => chatRun[i] \notin {"none", "sent"}
    /\ \A i \in ChatCmds : chatByID[i] = "completed" => chatRun[i] = "done"
    /\ \A i \in chatTold : chatRun[i] = "done"

\* What the loop knows of its command.
ChatWaiting ==
    /\ chatMain.at \in {"register", "wait", "find", "replay"} => chatMain.id \in ChatCmds
    /\ chatMain.at = "register" => chatRun[chatMain.id] = "none"
    /\ chatMain.at = "wait" =>
           /\ chatMain.id \in chatWaiters \cup chatTold
           /\ chatByID[chatMain.id] = "completed" => chatMain.id \in chatTold

\* The end of command i has been received.
ChatEnded(i) ==
    /\ chatByID[i] = "completed" /\ (i = 0 \/ chatRun[i] = "done")
    /\ \A p \in 1..Len(chatWire) : chatWire[p] # <<"started", i>>

ChatTaken == (chatPrintMu = "shell" \/ chatMu # "free" \/ chatRecvLoop = "print") =>
  \E i \in Chat!Ids : ChatEnded(i)

\* A replay has printed a stretch of the log, from where its command began.
ChatFrom(b) == \A k \in 1..Len(chatReplay) : chatReplay[k] = b + k
ChatReplayed ==
    /\ chatReplay \in Seq(1..ChatMaxLog)
    /\ chatMain.at = "replay" =>
           /\ chatRun[chatMain.id] = "done" /\ chatEnd[chatMain.id] > chatBegin[chatMain.id]
           /\ ChatFrom(chatBegin[chatMain.id])
    /\ chatMain.at # "replay" /\ chatReplay # <<>> =>
           \E i \in ChatCmds :
               /\ chatRun[i] = "done" /\ chatEnd[i] > chatBegin[i] /\ ChatFrom(chatBegin[i])
               /\ chatMain.at # "over" => chatBegin[i] + Len(chatReplay) >= chatEnd[i]

ChatInv == Chat!TypeOK /\ ChatWired /\ ChatRecorded /\ ChatWaiting /\ ChatTaken /\ ChatReplayed

-----------------------------------------------------------------------------
\* The loop goes on.
ChatNexts == {"none", "shell", "replay", "rerun", "failing"}

LEMMA ChatAtTyped ==
    ASSUME NEW p \in Chat!MainAt, NEW i \in {0} \cup ChatCmds, NEW n \in ChatNexts, Chat!At(p, i, n)
    PROVE  /\ chatMain' \in [at : Chat!MainAt, id : {0} \cup ChatCmds, next : ChatNexts]
           /\ chatMain'.at = p /\ chatMain'.id = i /\ chatMain'.next = n
  BY DEF Chat!At

\* A queue and one more, or one less.
LEMMA ChatGrown ==
    ASSUME NEW S, NEW s \in Seq(S), NEW e \in S
    PROVE  /\ Append(s, e) \in Seq(S) /\ Len(Append(s, e)) = Len(s) + 1
           /\ Append(s, e)[Len(s) + 1] = e
           /\ \A i \in 1..Len(s) : Append(s, e)[i] = s[i]
  OBVIOUS

LEMMA ChatShrunk ==
    ASSUME NEW S, NEW s \in Seq(S), s # <<>>
    PROVE  /\ Head(s) \in S /\ Head(s) = s[1] /\ Tail(s) \in Seq(S)
           /\ Len(s) \in Nat \ {0} /\ Len(Tail(s)) = Len(s) - 1
           /\ \A i \in 1..Len(s) - 1 : Tail(s)[i] = s[i + 1]
  OBVIOUS

\* Functions that are sequences, and what is in a sequence.
LEMMA ChatSequence ==
    ASSUME NEW S, NEW n \in Nat, NEW f \in [1..n -> S]
    PROVE  f \in Seq(S) /\ Len(f) = n
  OBVIOUS

LEMMA ChatJoined ==
    ASSUME NEW S, NEW s \in Seq(S), NEW t \in Seq(S)
    PROVE  /\ s \o t \in Seq(S) /\ Len(s \o t) = Len(s) + Len(t)
           /\ \A i \in 1..Len(s) : (s \o t)[i] = s[i]
           /\ \A i \in Len(s) + 1..Len(s) + Len(t) : (s \o t)[i] = t[i - Len(s)]
  OBVIOUS

LEMMA ChatShifted == \A a, b, k \in Int : a + b + (k - b) = a + k
  OBVIOUS

LEMMA ChatInitInv == ChatBounds /\ Chat!Init => ChatInv
  <1>1. SUFFICES ASSUME ChatBounds, Chat!Init PROVE ChatInv
    OBVIOUS
  <1>2. chatMain \in [at : Chat!MainAt, id : {0} \cup ChatCmds, next : ChatNexts] /\
          chatMain.at = "prompt"
    BY <1>1 DEF Chat!Init, Chat!MainAt, ChatNexts
  <1>3. chatReplay \in Seq(1..ChatMaxLog) /\ Len(chatReplay) = 0 /\ chatReplay = <<>>
    BY <1>1 DEF Chat!Init
  <1>4. chatWire \in Seq({"started", "completed"} \X Chat!Ids) /\ Len(chatWire) = 0
    BY <1>1 DEF Chat!Init
  <1>5. Chat!TypeOK
    BY <1>1, <1>2, <1>3 DEF ChatBounds, Chat!Init, Chat!TypeOK, ChatNexts
  <1>6. ChatWired /\ ChatTaken
    BY <1>1, <1>4 DEF Chat!Init, ChatWired, ChatTaken
  <1>7. ChatRecorded /\ ChatWaiting /\ ChatReplayed
    BY <1>1, <1>2, <1>3, <1>4 DEF Chat!Init, ChatRecorded, ChatWaiting, ChatReplayed, Chat!Ids
  <1>8. QED
    BY <1>5, <1>6, <1>7 DEF ChatInv

-----------------------------------------------------------------------------
(* The goroutine that prints events, and the shell.                        *)

LEMMA ChatEventsInv ==
    ASSUME ChatBounds, ChatInv, Chat!Events
    PROVE  ChatInv'
  <1>1. /\
             UNCHANGED <<chatQuiet, chatPrintMu, chatMu, chatMain, chatRecvLoop, chatHooks,
               chatRun, chatBegin, chatEnd, chatLog, chatWire,
                       chatByID, chatWaiters, chatTold, chatReplay>>
        /\ chatEvents' \in {"recv", "handle", "prompt"} /\ chatLeft' \in 0..ChatMaxEvents
    BY DEF ChatBounds, ChatInv, Chat!TypeOK, Chat!Events, Chat!RecvEvent, Chat!HandleEvent,
       Chat!EventPrompt, Chat!locks, Chat!shell, Chat!records
  <1>2. Chat!TypeOK'
    BY <1>1 DEF ChatInv, Chat!TypeOK
  <1>3. QED
    BY <1>1, <1>2 DEF ChatInv, ChatWired, ChatRecorded, ChatWaiting, ChatTaken, ChatEnded,
       ChatReplayed, ChatFrom

\* The loop, while nothing is replayed and nothing is waited for.
LEMMA ChatMainInv ==
    ASSUME ChatBounds, ChatInv,
           UNCHANGED <<chatQuiet, chatMu, chatRecvLoop, chatEvents, chatLeft, chatHooks, chatRun,
             chatBegin, chatEnd, chatLog, chatWire,
                       chatByID, chatWaiters, chatTold, chatReplay>>,
           chatPrintMu' \in {chatPrintMu, "free", "main"},
           chatMain' \in [at : Chat!MainAt, id : {0} \cup ChatCmds, next : ChatNexts],
           chatMain'.at \notin {"wait", "replay"},
           chatMain'.at \in {"register", "find"} => chatMain'.id \in ChatCmds,
           chatMain'.at = "register" => chatRun[chatMain'.id] = "none",
           chatMain.at = "replay" => chatMain'.at = "over",
           chatMain.at # "over"
    PROVE  ChatInv'
  <1>1. Chat!TypeOK'
    BY DEF ChatInv, Chat!TypeOK, ChatNexts
  <1>2. ChatWired' /\ ChatRecorded'
    BY DEF ChatInv, ChatWired, ChatRecorded
  <1>3. ChatWaiting'
    BY DEF ChatWaiting
  <1>4. ChatTaken'
    <2>1. \A i \in Chat!Ids : ChatEnded(i) => ChatEnded(i)'
      BY DEF ChatEnded
    <2>2. chatPrintMu' = "shell" => chatPrintMu = "shell"
      OBVIOUS
    <2>3. QED
      BY <2>1, <2>2 DEF ChatInv, ChatTaken
  <1>5. ChatReplayed'
    <2>1. \A b : ChatFrom(b) => ChatFrom(b)'
      BY DEF ChatFrom
    <2>2. CASE chatMain.at = "replay"
      BY <2>1, <2>2 DEF ChatInv, ChatReplayed, ChatWaiting
    <2>3. CASE chatMain.at # "replay"
      BY <2>1, <2>3 DEF ChatInv, ChatReplayed
    <2>4. QED
      BY <2>2, <2>3
  <1>6. QED
    BY <1>1, <1>2, <1>3, <1>4, <1>5 DEF ChatInv

-----------------------------------------------------------------------------
(* The first command that has not been entered is one.                     *)

ChatLess == {ss \in Nat \X Nat : ss[1] < ss[2]}

\* The order of the natural numbers is well-founded.
LEMMA ChatLessIsWellFounded == IsWellFoundedOn(ChatLess, Nat)
  BY NatLessThanWellFounded DEF OpToRel, ChatLess

LEMMA ChatNextCmdIsFree ==
    ASSUME ChatBounds, Chat!CmdsLeft
    PROVE  Chat!NextCmd \in ChatCmds /\ chatRun[Chat!NextCmd] = "none"
  <1> DEFINE Free == {i \in ChatCmds : chatRun[i] = "none"}
  <1>1. Free # {} /\ Free \subseteq Nat
    BY DEF Chat!CmdsLeft, ChatBounds
  <1>2. PICK i \in Free : \A j \in Free : <<j, i>> \notin ChatLess
    BY <1>1, ChatLessIsWellFounded, WFMin
  <1>3. \A j \in Free : i <= j
    <2>0. i \in Nat /\ \A j \in Free : j \in Nat
      BY <1>1, <1>2, Zenon
    <2>1. SUFFICES ASSUME NEW j \in Free, j < i PROVE FALSE
      <3>1. \A j \in Free : ~(j < i) => i <= j
        BY <2>0
      <3>2. QED
        BY <3>1, <2>1, Zenon
    <2>2. <<j, i>> \in ChatLess
      <3>1. j \in Nat /\ i \in Nat
        BY <2>0, <2>1
      <3>2. QED
        BY <2>1, <3>1 DEF ChatLess
    <2>3. QED
      BY <1>2, <2>2
  <1>4. \E k \in ChatCmds : chatRun[k] = "none" /\ \A j \in ChatCmds : chatRun[j] = "none" => k <= j
    BY <1>2, <1>3
  <1>5. QED
    BY <1>4, Zenon DEF Chat!NextCmd

LEMMA ChatPromptInv ==
    ASSUME ChatBounds, ChatInv, chatMain.at # "over", Chat!Prompt \/ Chat!ReadCommand
    PROVE  ChatInv'
  <1>1. CASE Chat!Prompt
    <2>1. Chat!At("idle", 0, "none") /\ chatMain.at = "prompt"
      BY <1>1 DEF Chat!Prompt
    <2>2. /\ chatMain' \in [at : Chat!MainAt, id : {0} \cup ChatCmds, next : ChatNexts]
          /\ chatMain'.at = "idle"
      BY <2>1, ChatAtTyped DEF Chat!MainAt, ChatNexts
    <2>3. QED
      BY <1>1, <2>1, <2>2, ChatMainInv DEF Chat!Prompt, Chat!locks, Chat!shell, Chat!records
  <1>2. CASE Chat!ReadCommand
    <2>1. \/ \E next \in {"shell", "failing"} : Chat!CmdsLeft /\
               Chat!At("register", Chat!NextCmd, next)
          \/ \E i \in ChatCmds, next \in {"replay", "rerun"} : Chat!At("find", i, next)
          \/ Chat!At("over", 0, "none")
      BY <1>2 DEF Chat!ReadCommand
    <2>2. /\ chatMain' \in [at : Chat!MainAt, id : {0} \cup ChatCmds, next : ChatNexts]
          /\ chatMain'.at \in {"register", "find", "over"}
          /\ chatMain'.at \in {"register", "find"} => chatMain'.id \in ChatCmds
          /\ chatMain'.at = "register" => chatRun[chatMain'.id] = "none"
      <3>1. CASE \E next \in {"shell", "failing"} : Chat!CmdsLeft /\
                   Chat!At("register", Chat!NextCmd, next)
        BY <3>1, ChatNextCmdIsFree, ChatAtTyped DEF Chat!MainAt, ChatNexts
      <3>2. CASE \E i \in ChatCmds, next \in {"replay", "rerun"} : Chat!At("find", i, next)
        BY <3>2, ChatAtTyped DEF Chat!MainAt, ChatNexts
      <3>3. CASE Chat!At("over", 0, "none")
        BY <3>3, ChatAtTyped DEF Chat!MainAt, ChatNexts
      <3>4. QED
        BY <2>1, <3>1, <3>2, <3>3
    <2>3. chatMain.at = "idle"
      BY <1>2 DEF Chat!ReadCommand
    <2>4. QED
      BY <1>2, <2>2, <2>3, ChatMainInv DEF Chat!ReadCommand, Chat!locks, Chat!shell, Chat!records
  <1>3. QED
    BY <1>1, <1>2

\* /timeline, and the comparison of /rerun-failing.
LEMMA ChatTimelineInv ==
    ASSUME ChatBounds, ChatInv, chatMain.at # "over",
           Chat!ReadTimeline \/ Chat!PrintTimeline \/ Chat!ReadRecords \/ Chat!Compare
    PROVE  ChatInv'
  <1>1. Chat!At("listed", 0, "none") \/ Chat!At("prompt", 0, "none") \/ Chat!At("locked", 0, "none")
    BY DEF Chat!ReadTimeline, Chat!PrintTimeline, Chat!ReadRecords, Chat!Compare
  <1>2. /\ chatMain' \in [at : Chat!MainAt, id : {0} \cup ChatCmds, next : ChatNexts]
        /\ chatMain'.at \in {"listed", "prompt", "locked"}
    BY <1>1, ChatAtTyped DEF Chat!MainAt, ChatNexts
  <1>3. chatPrintMu' \in {chatPrintMu, "free", "main"} /\ chatMain.at # "replay"
    BY DEF Chat!ReadTimeline, Chat!PrintTimeline, Chat!ReadRecords, Chat!Compare
  <1>4. UNCHANGED <<chatQuiet, chatMu, chatRecvLoop, chatEvents, chatLeft, chatHooks, chatRun,
          chatBegin, chatEnd, chatLog, chatWire,
                    chatByID, chatWaiters, chatTold, chatReplay>>
    BY DEF Chat!ReadTimeline, Chat!PrintTimeline, Chat!ReadRecords, Chat!Compare, Chat!shell,
       Chat!records
  <1>5. QED
    BY <1>2, <1>3, <1>4, ChatMainInv

\* The ends: a command that has returned, one that has not, and a broken stream.
LEMMA ChatReturnsInv ==
    ASSUME ChatBounds, ChatInv, chatMain.at # "over", Chat!RunReturns \/ Chat!RunTimesOut \/
             Chat!Fails
    PROVE  ChatInv'
  <1>1. UNCHANGED <<chatQuiet, chatPrintMu, chatMu, chatRecvLoop, chatEvents, chatLeft, chatHooks,
          chatRun, chatBegin, chatEnd, chatLog, chatWire,
                    chatByID, chatWaiters, chatTold, chatReplay>>
    BY DEF Chat!RunReturns, Chat!RunTimesOut, Chat!Fails, Chat!locks, Chat!shell, Chat!records
  <1>2. CASE Chat!RunReturns
    <2>1. chatMain.at = "wait" /\ chatMain.id \in ChatCmds
      BY <1>2 DEF Chat!RunReturns, ChatInv, ChatWaiting
    <2>2. \/ Chat!At("compare", chatMain.id, "none") \/ Chat!At("prompt", 0, "none")
          \/ Chat!At("find", chatMain.id, "replay")
      BY <1>2 DEF Chat!RunReturns
    <2>3. /\ chatMain' \in [at : Chat!MainAt, id : {0} \cup ChatCmds, next : ChatNexts]
          /\ chatMain'.at \in {"compare", "prompt", "find"}
          /\ chatMain'.at = "find" => chatMain'.id \in ChatCmds
      BY <2>1, <2>2, ChatAtTyped DEF Chat!MainAt, ChatNexts
    <2>4. QED
      BY <1>1, <2>1, <2>3, ChatMainInv
  <1>3. CASE Chat!RunTimesOut \/ Chat!Fails
    <2>1. Chat!At("over", 0, "none")
      BY <1>3 DEF Chat!RunTimesOut, Chat!Fails
    <2>2. /\ chatMain' \in [at : Chat!MainAt, id : {0} \cup ChatCmds, next : ChatNexts]
          /\ chatMain'.at = "over"
      BY <2>1, ChatAtTyped DEF Chat!MainAt, ChatNexts
    <2>3. QED
      BY <1>1, <2>2, ChatMainInv
  <1>4. QED
    BY <1>2, <1>3

-----------------------------------------------------------------------------
(* Run, findRecord and Replay.                                             *)

\* A command is entered: it is new to the shell and to the records.
LEMMA ChatRunInv ==
    ASSUME ChatBounds, ChatInv, chatMain.at # "over", Chat!Run
    PROVE  ChatInv'
  <1>1. chatMain.id \in ChatCmds /\ chatRun[chatMain.id] = "none" /\ chatMain.at = "register"
    BY DEF Chat!Run, ChatInv, ChatWaiting
  <1>2. chatMain.next \in ChatNexts
    BY DEF ChatInv, Chat!TypeOK, ChatNexts
  <1>3. /\ chatMain' \in [at : Chat!MainAt, id : {0} \cup ChatCmds, next : ChatNexts]
        /\ chatMain'.at = "wait" /\ chatMain'.id = chatMain.id
    BY <1>1, <1>2, ChatAtTyped DEF Chat!Run, Chat!MainAt
  <1>4. /\ chatRun' = [chatRun EXCEPT ![chatMain.id] = "sent"] /\
             chatWaiters' = chatWaiters \cup {chatMain.id}
        /\ UNCHANGED <<chatQuiet, chatPrintMu, chatMu, chatRecvLoop, chatEvents, chatLeft,
             chatHooks, chatBegin, chatEnd, chatLog, chatWire,
                       chatByID, chatTold, chatReplay>>
    BY DEF Chat!Run, Chat!locks
  <1>5. /\ \A i \in ChatCmds : chatRun'[i] = IF i = chatMain.id THEN "sent" ELSE chatRun[i]
        /\ chatRun' \in [ChatCmds -> {"none", "sent", "running", "late", "done"}]
    BY <1>1, <1>4 DEF ChatInv, Chat!TypeOK
  <1>6. Chat!TypeOK'
    BY <1>1, <1>3, <1>4, <1>5 DEF ChatInv, Chat!TypeOK, ChatNexts
  <1>7. ChatWired'
    <2>1. \A j \in ChatCmds : chatRun[j] # "none" => chatRun'[j] = chatRun[j]
      BY <1>1, <1>5
    <2>2. QED
      BY <1>4, <2>1 DEF ChatInv, ChatWired
  <1>8. ChatRecorded'
    BY <1>1, <1>4, <1>5 DEF ChatInv, Chat!TypeOK, ChatRecorded
  <1>9. ChatWaiting'
    BY <1>1, <1>3, <1>4, <1>5 DEF ChatInv, ChatRecorded, ChatWaiting
  <1>10. ChatTaken'
    <2>1. \A i \in Chat!Ids : ChatEnded(i) => ChatEnded(i)'
      BY <1>1, <1>4, <1>5 DEF ChatEnded, Chat!Ids
    <2>2. QED
      BY <1>4, <2>1 DEF ChatInv, ChatTaken
  <1>11. ChatReplayed'
    <2>1. \A b : ChatFrom(b) => ChatFrom(b)'
      BY <1>4 DEF ChatFrom
    <2>2. QED
      BY <1>1, <1>3, <1>4, <1>5, <2>1 DEF ChatInv, ChatReplayed
  <1>12. QED
    BY <1>6, <1>7, <1>8, <1>9, <1>10, <1>11 DEF ChatInv

LEMMA ChatFindRecordInv ==
    ASSUME ChatBounds, ChatInv, chatMain.at # "over", Chat!FindRecord
    PROVE  ChatInv'
  <1> DEFINE i == chatMain.id
             seen == chatByID[i] # "none" \/ chatRun[i] = "done"
  <1>1. i \in ChatCmds /\ chatMain.at = "find" /\ i \in Chat!Ids /\ i # 0
    BY DEF Chat!FindRecord, ChatInv, ChatWaiting, Chat!Ids, ChatBounds
  <1>2. UNCHANGED <<chatQuiet, chatPrintMu, chatMu, chatRecvLoop, chatEvents, chatLeft, chatHooks,
          chatRun, chatBegin, chatEnd, chatLog, chatWire,
                    chatWaiters, chatTold>>
    BY DEF Chat!FindRecord, Chat!locks, Chat!shell
  <1>3. /\ chatByID' \in [Chat!Ids -> {"none", "started", "completed"}]
        /\ \A j \in Chat!Ids : chatByID'[j] = chatByID[j]
                          \/ (j = i /\ chatByID[i] = "none" /\ chatByID'[i] = "completed" /\
                               chatRun[i] = "done")
    <2>1. chatByID \in [Chat!Ids -> {"none", "started", "completed"}]
      BY DEF ChatInv, Chat!TypeOK
    <2>2. chatByID' = IF seen /\
            chatByID[i] = "none" THEN [chatByID EXCEPT ![i] = "completed"] ELSE chatByID
      BY Zenon DEF Chat!FindRecord
    <2>3. CASE chatByID[i] = "none" /\ chatRun[i] = "done"
      BY <1>1, <2>1, <2>2, <2>3
    <2>4. CASE ~(chatByID[i] = "none" /\ chatRun[i] = "done")
      <3>1. chatByID' = chatByID
        BY <2>2, <2>4
      <3>2. QED
        BY <2>1, <3>1, Zenon
    <2>5. QED
      BY <2>3, <2>4
  <1>4. \/ Chat!At("over", 0, "none") /\ UNCHANGED chatReplay
        \/ Chat!CmdsLeft /\ Chat!At("register", Chat!NextCmd, "shell") /\ UNCHANGED chatReplay
        \/ Chat!At("prompt", 0, "none") /\ UNCHANGED chatReplay
        \/ chatReplay' = <<>> /\ Chat!At("prompt", 0, "none")
        \/ /\ chatReplay' = <<>> /\ Chat!At("replay", i, "none") /\ chatEnd[i] > chatBegin[i]
           /\ chatByID[i] = "completed" \/ (chatByID[i] = "none" /\ seen)
    BY DEF Chat!FindRecord
  <1>5. /\ chatMain' \in [at : Chat!MainAt, id : {0} \cup ChatCmds, next : ChatNexts]
        /\ chatMain'.at \in {"over", "register", "prompt", "replay"}
        /\ chatMain'.at = "register" => chatMain'.id \in ChatCmds /\ chatRun[chatMain'.id] = "none"
        /\ chatMain'.at = "replay" =>
               chatMain'.id = i /\ chatRun[i] = "done" /\ chatEnd[i] > chatBegin[i] /\
                 chatReplay' = <<>>
        /\ chatReplay' \in {chatReplay, <<>>}
    <2>1. CASE Chat!CmdsLeft /\ Chat!At("register", Chat!NextCmd, "shell") /\ UNCHANGED chatReplay
      BY <2>1, ChatNextCmdIsFree, ChatAtTyped DEF Chat!MainAt, ChatNexts
    <2>2. CASE /\ chatReplay' = <<>> /\ Chat!At("replay", i, "none") /\ chatEnd[i] > chatBegin[i]
               /\ chatByID[i] = "completed" \/ (chatByID[i] = "none" /\ seen)
      BY <1>1, <2>2, ChatAtTyped DEF Chat!MainAt, ChatNexts, ChatInv, ChatRecorded
    <2>3. CASE Chat!At("over", 0, "none") /\ UNCHANGED chatReplay
      BY <2>3, ChatAtTyped DEF Chat!MainAt, ChatNexts
    <2>4. CASE (Chat!At("prompt", 0, "none") /\ UNCHANGED chatReplay) \/ (chatReplay' = <<>> /\
                 Chat!At("prompt", 0, "none"))
      BY <2>4, ChatAtTyped DEF Chat!MainAt, ChatNexts
    <2>5. QED
      BY <1>4, <2>1, <2>2, <2>3, <2>4
  <1>6. Chat!TypeOK'
    <2>1. chatReplay' \in Seq(1..ChatMaxLog)
      <3>1. <<>> \in Seq(1..ChatMaxLog) /\ chatReplay \in Seq(1..ChatMaxLog)
        BY DEF ChatInv, Chat!TypeOK
      <3>2. QED
        BY <1>5, <3>1
    <2>2. QED
      BY <1>2, <1>3, <1>5, <2>1 DEF ChatInv, Chat!TypeOK, ChatNexts
  <1>7. ChatWired'
    BY <1>2 DEF ChatInv, ChatWired
  <1>8. ChatRecorded'
    BY <1>1, <1>2, <1>3 DEF ChatInv, Chat!TypeOK, ChatRecorded, Chat!Ids
  <1>9. ChatWaiting'
    BY <1>1, <1>2, <1>5 DEF ChatWaiting
  <1>10. ChatTaken'
    <2>1. \A j \in Chat!Ids : ChatEnded(j) => ChatEnded(j)'
      BY <1>2, <1>3 DEF ChatEnded
    <2>2. QED
      BY <1>2, <2>1 DEF ChatInv, ChatTaken
  <1>11. ChatReplayed'
    <2>1. CASE chatReplay' = <<>>
      BY <1>1, <1>2, <1>5, <2>1 DEF ChatReplayed, ChatFrom
    <2>2. CASE chatReplay' = chatReplay /\ chatReplay' # <<>>
      <3>1. \A b : ChatFrom(b) => ChatFrom(b)'
        BY <2>2 DEF ChatFrom
      <3>2. QED
        BY <1>1, <1>2, <1>5, <2>2, <3>1 DEF ChatInv, ChatReplayed
    <2>3. QED
      BY <1>5, <2>1, <2>2
  <1>12. QED
    BY <1>6, <1>7, <1>8, <1>9, <1>10, <1>11 DEF ChatInv

LEMMA ChatReplayInv ==
    ASSUME ChatBounds, ChatInv, chatMain.at # "over", Chat!Replay
    PROVE  ChatInv'
  <1> DEFINE i == chatMain.id
             pos == chatBegin[i] + Len(chatReplay)
  <1>1. i \in ChatCmds /\ chatMain.at = "replay" /\ chatRun[i] = "done" /\
          chatEnd[i] > chatBegin[i] /\ ChatFrom(chatBegin[i])
    BY DEF Chat!Replay, ChatInv, ChatWaiting, ChatReplayed
  <1>2. /\ chatBegin[i] \in Nat /\ chatEnd[i] \in Nat /\ chatLog \in 0..ChatMaxLog /\
             Len(chatReplay) \in Nat
        /\ chatReplay \in Seq(1..ChatMaxLog)
    <2>1. chatBegin[i] \in 0..ChatMaxLog /\ chatEnd[i] \in 0..ChatMaxLog /\
            chatLog \in 0..ChatMaxLog
      BY <1>1 DEF ChatInv, Chat!TypeOK
    <2>2. chatReplay \in Seq(1..ChatMaxLog)
      BY DEF ChatInv, ChatReplayed
    <2>3. QED
      BY <2>1, <2>2 DEF ChatBounds
  <1>3. PICK n \in 1..chatLog - pos :
          /\ chatReplay' = chatReplay \o [k \in 1..n |-> pos + k]
          /\ (pos + n >= chatEnd[i] /\
               Chat!At("prompt", 0, "none")) \/ (~(pos + n >= chatEnd[i]) /\ UNCHANGED chatMain)
    BY DEF Chat!Replay
  <1>4. UNCHANGED <<chatQuiet, chatPrintMu, chatMu, chatRecvLoop, chatEvents, chatLeft, chatHooks,
          chatRun, chatBegin, chatEnd, chatLog, chatWire,
                    chatByID, chatWaiters, chatTold>>
    BY DEF Chat!Replay, Chat!locks, Chat!shell, Chat!records
  <1>5. /\ chatMain' \in [at : Chat!MainAt, id : {0} \cup ChatCmds, next : ChatNexts]
        /\ (chatMain'.at = "prompt" /\ pos + n >= chatEnd[i]) \/ UNCHANGED chatMain
    BY <1>3, ChatAtTyped DEF Chat!MainAt, ChatNexts, ChatInv, Chat!TypeOK
  <1>6. /\ [k \in 1..n |-> pos + k] \in Seq(1..ChatMaxLog)
        /\ Len([k \in 1..n |-> pos + k]) = n
    <2>1. n \in Nat /\ pos \in Nat /\ pos + n <= ChatMaxLog
      BY <1>2, <1>3 DEF ChatBounds
    <2>2. \A k \in 1..n : pos + k \in 1..ChatMaxLog
      BY <2>1 DEF ChatBounds
    <2>3. [k \in 1..n |-> pos + k] \in [1..n -> 1..ChatMaxLog]
      BY <2>2
    <2>4. QED
      BY <2>1, <2>3, ChatSequence
  <1>7. /\ chatReplay' \in Seq(1..ChatMaxLog) /\ Len(chatReplay') = Len(chatReplay) + n
        /\ \A k \in 1..Len(chatReplay) + n : chatReplay'[k] = chatBegin[i] + k
    <2> DEFINE added == [k \in 1..n |-> pos + k]
    <2>1. added \in Seq(1..ChatMaxLog) /\ Len(added) = n /\ chatReplay' = chatReplay \o added
      BY <1>3, <1>6
    <2>2. \A k \in 1..n : added[k] = pos + k
      OBVIOUS
    <2> HIDE DEF added
    <2>3. /\ chatReplay \o added \in Seq(1..ChatMaxLog) /\
               Len(chatReplay \o added) = Len(chatReplay) + n
          /\ \A k \in 1..Len(chatReplay) : (chatReplay \o added)[k] = chatReplay[k]
          /\ \A k \in Len(chatReplay) + 1..Len(chatReplay) + n :
                 (chatReplay \o added)[k] = added[k - Len(chatReplay)]
      BY <1>2, <2>1, ChatJoined
    <2>4. ASSUME NEW k \in 1..Len(chatReplay) + n PROVE chatReplay'[k] = chatBegin[i] + k
      <3>1. CASE k \in 1..Len(chatReplay)
        BY <1>1, <2>1, <2>3, <3>1 DEF ChatFrom
      <3>2. CASE k \in Len(chatReplay) + 1..Len(chatReplay) + n
        <4>1. k - Len(chatReplay) \in 1..n
          BY <1>2, <1>3, <3>2
        <4>2. chatReplay'[k] = pos + (k - Len(chatReplay))
          BY <2>1, <2>2, <2>3, <3>2, <4>1
        <4>3. chatBegin[i] \in Int /\ Len(chatReplay) \in Int /\ k \in Int
          BY <1>2
        <4>4. chatBegin[i] + Len(chatReplay) + (k - Len(chatReplay)) = chatBegin[i] + k
          BY <4>3, ChatShifted, Zenon
        <4>5. QED
          BY <4>2, <4>4, Zenon
      <3>3. QED
        BY <1>2, <1>3, <2>4, <3>1, <3>2
    <2>5. QED
      BY <2>1, <2>3, <2>4
  <1>8. chatReplay' \in Seq(1..ChatMaxLog)
    BY <1>7
  <1>9. Chat!TypeOK'
    BY <1>4, <1>5, <1>8 DEF ChatInv, Chat!TypeOK, ChatNexts
  <1>10. ChatWired' /\ ChatRecorded'
    BY <1>4 DEF ChatInv, ChatWired, ChatRecorded
  <1>11. ChatWaiting'
    BY <1>1, <1>4, <1>5 DEF ChatInv, ChatWaiting
  <1>12. ChatTaken'
    <2>1. \A j \in Chat!Ids : ChatEnded(j) => ChatEnded(j)'
      BY <1>4 DEF ChatEnded
    <2>2. QED
      BY <1>4, <2>1 DEF ChatInv, ChatTaken
  <1>13. ChatReplayed'
    <2>1. \A k \in 1..Len(chatReplay') : chatReplay'[k] = chatBegin'[i] + k
      BY <1>4, <1>7
    <2>2. chatRun'[i] = "done" /\ chatEnd'[i] > chatBegin'[i]
      BY <1>1, <1>4
    <2>3. CASE UNCHANGED chatMain
      BY <1>1, <1>7, <2>1, <2>2, <2>3 DEF ChatReplayed, ChatFrom
    <2>4. CASE chatMain'.at = "prompt" /\ pos + n >= chatEnd[i]
      <3>1. chatBegin'[i] + Len(chatReplay') >= chatEnd'[i]
        BY <1>2, <1>3, <1>4, <1>7, <2>4
      <3>2. QED
        BY <1>1, <1>7, <2>1, <2>2, <2>4, <3>1 DEF ChatReplayed, ChatFrom
    <2>5. QED
      BY <1>5, <2>3, <2>4
  <1>14. QED
    BY <1>9, <1>10, <1>11, <1>12, <1>13 DEF ChatInv

-----------------------------------------------------------------------------
(* The shell.                                                              *)

\* More of the log is written, or a command is given up.
LEMMA ChatOutputInv ==
    ASSUME ChatBounds, ChatInv, chatMain.at # "over", Chat!Output
    PROVE  ChatInv'
  <1>1. /\
             UNCHANGED <<chatQuiet, chatPrintMu, chatMu, chatMain, chatRecvLoop, chatEvents,
               chatLeft, chatHooks, chatRun, chatBegin, chatEnd,
                       chatWire, chatByID, chatWaiters, chatTold, chatReplay>>
        /\ chatLog' \in 0..ChatMaxLog
    BY DEF ChatBounds, ChatInv, Chat!TypeOK, Chat!Output, Chat!locks, Chat!records
  <1>2. Chat!TypeOK'
    BY <1>1 DEF ChatInv, Chat!TypeOK
  <1>3. QED
    BY <1>1, <1>2 DEF ChatInv, ChatWired, ChatRecorded, ChatWaiting, ChatTaken, ChatEnded,
       ChatReplayed, ChatFrom

LEMMA ChatGiveUpInv ==
    ASSUME ChatBounds, ChatInv, chatMain.at # "over", NEW i \in ChatCmds, Chat!GiveUp(i)
    PROVE  ChatInv'
  <1>1. /\
             UNCHANGED <<chatQuiet, chatPrintMu, chatMu, chatMain, chatRecvLoop, chatEvents,
               chatLeft, chatHooks, chatBegin, chatEnd, chatLog,
                       chatWire, chatByID, chatWaiters, chatTold, chatReplay>>
        /\ chatRun[i] = "running" /\
             chatRun' \in [ChatCmds -> {"none", "sent", "running", "late", "done"}]
        /\ \A j \in ChatCmds : chatRun'[j] = IF j = i THEN "late" ELSE chatRun[j]
    BY DEF ChatInv, Chat!TypeOK, Chat!GiveUp, Chat!locks, Chat!records
  <1>2. Chat!TypeOK'
    BY <1>1 DEF ChatInv, Chat!TypeOK
  <1>3. ChatWired'
    <2>1. \A j \in ChatCmds :
            /\ chatRun[j] \notin {"none", "sent"} => chatRun'[j] \notin {"none", "sent"}
            /\ chatRun[j] = "done" => chatRun'[j] = "done"
      BY <1>1
    <2>2. QED
      BY <1>1, <2>1 DEF ChatInv, ChatWired
  <1>4. ChatRecorded' /\ ChatWaiting'
    BY <1>1 DEF ChatInv, Chat!TypeOK, ChatRecorded, ChatWaiting
  <1>5. ChatTaken'
    <2>1. \A j \in Chat!Ids : ChatEnded(j) => ChatEnded(j)'
      BY <1>1 DEF ChatEnded, Chat!Ids
    <2>2. QED
      BY <1>1, <2>1 DEF ChatInv, ChatTaken
  <1>6. ChatReplayed'
    <2>1. \A b : ChatFrom(b) => ChatFrom(b)'
      BY <1>1 DEF ChatFrom
    <2>2. QED
      BY <1>1, <2>1 DEF ChatInv, ChatWaiting, ChatReplayed
  <1>7. QED
    BY <1>2, <1>3, <1>4, <1>5, <1>6 DEF ChatInv

\* An event of AttachShell: a command begins.
LEMMA ChatStartRunInv ==
    ASSUME ChatBounds, ChatInv, chatMain.at # "over", NEW i \in ChatCmds, Chat!StartRun(i)
    PROVE  ChatInv'
  <1> DEFINE e == <<"started", i>>
  <1>1. /\
             UNCHANGED <<chatQuiet, chatPrintMu, chatMu, chatMain, chatRecvLoop, chatEvents,
               chatLeft, chatHooks, chatEnd, chatLog,
                       chatByID, chatWaiters, chatTold, chatReplay>>
        /\ chatRun[i] = "sent" /\
             chatRun' \in [ChatCmds -> {"none", "sent", "running", "late", "done"}]
        /\ \A j \in ChatCmds : chatRun'[j] = IF j = i THEN "running" ELSE chatRun[j]
        /\ chatBegin' \in [ChatCmds -> 0..ChatMaxLog] /\
             \A j \in ChatCmds \ {i} : chatBegin'[j] = chatBegin[j]
        /\ chatWire' = Append(chatWire, e)
    BY DEF ChatInv, Chat!TypeOK, Chat!StartRun, Chat!locks, Chat!records
  <1>2. Chat!TypeOK'
    BY <1>1 DEF ChatInv, Chat!TypeOK
  <1>3. /\ chatWire' \in Seq({"started", "completed"} \X Chat!Ids) /\
             Len(chatWire') = Len(chatWire) + 1
        /\ chatWire'[Len(chatWire) + 1] = e /\
             \A p \in 1..Len(chatWire) : chatWire'[p] = chatWire[p]
        /\ Len(chatWire) \in Nat
    BY <1>1, ChatGrown DEF ChatInv, ChatWired, Chat!Ids
  <1>4. ChatWired'
    <2>1. \A j \in ChatCmds :
            /\ chatRun[j] \notin {"none", "sent"} => chatRun'[j] \notin {"none", "sent"}
            /\ chatRun[j] = "done" => chatRun'[j] = "done"
      BY <1>1
    <2>2. ASSUME NEW p \in 1..Len(chatWire')
          PROVE  \/ chatWire'[p][1] = "started" /\ chatWire'[p][2] \in ChatCmds
                    /\ chatRun'[chatWire'[p][2]] \notin {"none", "sent"}
                 \/ chatWire'[p][1] = "completed" /\ chatWire'[p][2] \in ChatCmds /\
                      chatRun'[chatWire'[p][2]] = "done"
                 \/ chatWire'[p][1] = "completed" /\ chatWire'[p][2] = 0
      BY <1>1, <1>3, <2>1 DEF ChatInv, ChatWired
    <2>3. \A p \in 1..Len(chatWire) : chatWire[p][1] = "completed" => chatWire[p][2] # i
      BY <1>1 DEF ChatInv, ChatWired, ChatBounds
    <2>4. ASSUME NEW p \in 1..Len(chatWire'), NEW r \in 1..Len(chatWire'),
                 chatWire'[p][1] = "completed", chatWire'[r][1] = "started",
                   chatWire'[p][2] = chatWire'[r][2]
          PROVE  r < p
      <3>1. p \in 1..Len(chatWire) /\ chatWire'[p] = chatWire[p]
        BY <1>3, <2>4
      <3>2. CASE r \in 1..Len(chatWire)
        BY <1>3, <2>4, <3>1, <3>2 DEF ChatInv, ChatWired
      <3>3. CASE r = Len(chatWire) + 1
        BY <1>3, <2>3, <2>4, <3>1, <3>3
      <3>4. QED
        BY <1>3, <3>2, <3>3
    <2>5. QED
      BY <1>3, <2>2, <2>4, Zenon DEF ChatWired
  <1>5. ChatRecorded' /\ ChatWaiting'
    BY <1>1 DEF ChatInv, Chat!TypeOK, ChatRecorded, ChatWaiting
  <1>6. ChatTaken'
    <2>1. \A j \in Chat!Ids : ChatEnded(j) => ChatEnded(j)'
      <3>1. SUFFICES ASSUME NEW j \in Chat!Ids, ChatEnded(j) PROVE ChatEnded(j)'
        OBVIOUS
      <3>2. j # i /\ e # <<"started", j>>
        BY <1>1, <3>1 DEF ChatEnded, ChatBounds
      <3>3. \A p \in 1..Len(chatWire') : chatWire'[p] # <<"started", j>>
        BY <1>3, <3>1, <3>2 DEF ChatEnded
      <3>4. chatByID'[j] = "completed" /\ (j = 0 \/ chatRun'[j] = "done")
        BY <1>1, <3>1, <3>2 DEF ChatEnded, Chat!Ids
      <3>5. QED
        BY <3>3, <3>4 DEF ChatEnded
    <2>2. QED
      BY <1>1, <2>1 DEF ChatInv, ChatTaken
  <1>7. ChatReplayed'
    <2>1. \A b : ChatFrom(b) => ChatFrom(b)'
      BY <1>1 DEF ChatFrom
    <2>2. QED
      BY <1>1, <2>1 DEF ChatInv, ChatWaiting, ChatReplayed
  <1>8. QED
    BY <1>2, <1>4, <1>5, <1>6, <1>7 DEF ChatInv

\* A command of this chat, or another one, ends.
LEMMA ChatEndRunInv ==
    ASSUME ChatBounds, ChatInv, chatMain.at # "over", NEW i \in Chat!Ids,
           (i \in ChatCmds /\ Chat!EndRun(i)) \/ (i = 0 /\ Chat!HookEnd)
    PROVE  ChatInv'
  <1> DEFINE e == <<"completed", i>>
  <1>1. /\
             UNCHANGED <<chatQuiet, chatPrintMu, chatMu, chatMain, chatRecvLoop, chatEvents,
               chatLeft, chatBegin, chatLog,
                       chatByID, chatWaiters, chatTold, chatReplay>>
        /\ i \in ChatCmds => chatRun[i] = "running" /\ chatRun'[i] = "done"
        /\ chatRun' \in [ChatCmds -> {"none", "sent", "running", "late", "done"}]
        /\ \A j \in ChatCmds \ {i} : chatRun'[j] = chatRun[j] /\ chatEnd'[j] = chatEnd[j]
        /\ chatHooks' \in 0..ChatMaxHooks /\ chatEnd' \in [ChatCmds -> 0..ChatMaxLog]
        /\ chatWire' = Append(chatWire, e)
    <2>1. CASE i \in ChatCmds /\ Chat!EndRun(i)
      BY <2>1 DEF ChatInv, Chat!TypeOK, Chat!EndRun, Chat!locks, Chat!records
    <2>2. CASE i = 0 /\ Chat!HookEnd
      BY <2>2 DEF ChatInv, Chat!TypeOK, Chat!HookEnd, Chat!locks, Chat!records, ChatBounds
    <2>3. QED
      BY <2>1, <2>2
  <1>2. Chat!TypeOK'
    BY <1>1 DEF ChatInv, Chat!TypeOK
  <1>3. /\ chatWire' \in Seq({"started", "completed"} \X Chat!Ids) /\
             Len(chatWire') = Len(chatWire) + 1
        /\ chatWire'[Len(chatWire) + 1] = e /\
             \A p \in 1..Len(chatWire) : chatWire'[p] = chatWire[p]
        /\ Len(chatWire) \in Nat
    BY <1>1, ChatGrown DEF ChatInv, ChatWired
  <1>4. ChatWired'
    <2>1. \A j \in ChatCmds :
            /\ chatRun[j] \notin {"none", "sent"} => chatRun'[j] \notin {"none", "sent"}
            /\ chatRun[j] = "done" => chatRun'[j] = "done"
      BY <1>1
    <2>2. ASSUME NEW p \in 1..Len(chatWire')
          PROVE  \/ chatWire'[p][1] = "started" /\ chatWire'[p][2] \in ChatCmds
                    /\ chatRun'[chatWire'[p][2]] \notin {"none", "sent"}
                 \/ chatWire'[p][1] = "completed" /\ chatWire'[p][2] \in ChatCmds /\
                      chatRun'[chatWire'[p][2]] = "done"
                 \/ chatWire'[p][1] = "completed" /\ chatWire'[p][2] = 0
      BY <1>1, <1>3, <2>1 DEF ChatInv, ChatWired, Chat!Ids
    <2>3. ASSUME NEW p \in 1..Len(chatWire'), NEW r \in 1..Len(chatWire'),
                 chatWire'[p][1] = "completed", chatWire'[r][1] = "started",
                   chatWire'[p][2] = chatWire'[r][2]
          PROVE  r < p
      <3>1. r \in 1..Len(chatWire) /\ chatWire'[r] = chatWire[r]
        BY <1>3, <2>3
      <3>2. CASE p \in 1..Len(chatWire)
        BY <1>3, <2>3, <3>1, <3>2 DEF ChatInv, ChatWired
      <3>3. CASE p = Len(chatWire) + 1
        BY <1>3, <3>1, <3>3
      <3>4. QED
        BY <1>3, <3>2, <3>3
    <2>4. QED
      BY <1>3, <2>2, <2>3, Zenon DEF ChatWired
  <1>5. ChatRecorded' /\ ChatWaiting'
    BY <1>1 DEF ChatInv, Chat!TypeOK, ChatRecorded, ChatWaiting
  <1>6. ChatTaken'
    <2>1. \A j \in Chat!Ids : ChatEnded(j) => ChatEnded(j)'
      <3>1. SUFFICES ASSUME NEW j \in Chat!Ids, ChatEnded(j) PROVE ChatEnded(j)'
        OBVIOUS
      <3>2. \A p \in 1..Len(chatWire') : chatWire'[p] # <<"started", j>>
        BY <1>3, <3>1 DEF ChatEnded
      <3>3. chatByID'[j] = "completed" /\ (j = 0 \/ chatRun'[j] = "done")
        BY <1>1, <3>1 DEF ChatEnded, Chat!Ids
      <3>4. QED
        BY <3>2, <3>3 DEF ChatEnded
    <2>2. QED
      BY <1>1, <2>1 DEF ChatInv, ChatTaken
  <1>7. ChatReplayed'
    <2>1. \A b : ChatFrom(b) => ChatFrom(b)'
      BY <1>1 DEF ChatFrom
    <2>2. \A j \in ChatCmds : chatRun[j] = "done" =>
            chatRun'[j] = "done" /\ chatEnd'[j] = chatEnd[j]
      BY <1>1
    <2>3. QED
      BY <1>1, <2>1, <2>2 DEF ChatInv, ChatWaiting, ChatReplayed
  <1>8. QED
    BY <1>2, <1>4, <1>5, <1>6, <1>7 DEF ChatInv

-----------------------------------------------------------------------------
(* recvLoop.                                                               *)

\* What is received is of a command of this chat, or 0.
LEMMA ChatReceived ==
    ASSUME ChatBounds, ChatInv, chatWire # <<>>, chatWire' = Tail(chatWire), UNCHANGED chatRun
    PROVE  /\ ChatWired' /\ Head(chatWire) = chatWire[1] /\ Head(chatWire)[2] \in Chat!Ids
           /\ Head(chatWire)[1] = "started" => Head(chatWire)[2] \in ChatCmds
                                           /\ chatRun[Head(chatWire)[2]] \notin {"none", "sent"}
           /\ Head(chatWire)[1] = "completed" =>
                  /\ Head(chatWire)[2] = 0 \/ (Head(chatWire)[2] \in ChatCmds /\
                       chatRun[Head(chatWire)[2]] = "done")
                  /\ \A p \in 1..Len(chatWire') : chatWire'[p] # <<"started", Head(chatWire)[2]>>
           /\ \A p \in 1..Len(chatWire') : \E r \in 1..Len(chatWire) : chatWire'[p] = chatWire[r]
  <1>1. /\ Head(chatWire) = chatWire[1] /\ Len(chatWire) \in Nat \ {0}
        /\ chatWire' \in Seq({"started", "completed"} \X Chat!Ids) /\
             Len(chatWire') = Len(chatWire) - 1
        /\ \A p \in 1..Len(chatWire) - 1 : chatWire'[p] = chatWire[p + 1]
    BY ChatShrunk DEF ChatInv, ChatWired
  <1>2. \A p \in 1..Len(chatWire') : p + 1 \in 1..Len(chatWire) /\ chatWire'[p] = chatWire[p + 1]
    BY <1>1
  <1>3. ChatWired'
    <2>1. ASSUME NEW p \in 1..Len(chatWire')
          PROVE  \/ chatWire'[p][1] = "started" /\ chatWire'[p][2] \in ChatCmds
                    /\ chatRun'[chatWire'[p][2]] \notin {"none", "sent"}
                 \/ chatWire'[p][1] = "completed" /\ chatWire'[p][2] \in ChatCmds /\
                      chatRun'[chatWire'[p][2]] = "done"
                 \/ chatWire'[p][1] = "completed" /\ chatWire'[p][2] = 0
      BY <1>2 DEF ChatInv, ChatWired
    <2>2. ASSUME NEW p \in 1..Len(chatWire'), NEW r \in 1..Len(chatWire'),
                 chatWire'[p][1] = "completed", chatWire'[r][1] = "started",
                   chatWire'[p][2] = chatWire'[r][2]
          PROVE  r < p
      <3>1. r + 1 < p + 1
        BY <1>2, <2>2 DEF ChatInv, ChatWired
      <3>2. QED
        BY <3>1
    <2>3. QED
      BY <1>1, <2>1, <2>2, Zenon DEF ChatWired
  <1>4. 1 \in 1..Len(chatWire)
    BY <1>1
  <1>5. /\ Head(chatWire)[1] = "started" => Head(chatWire)[2] \in ChatCmds
                                        /\ chatRun[Head(chatWire)[2]] \notin {"none", "sent"}
        /\ Head(chatWire)[1] = "completed" =>
               Head(chatWire)[2] = 0 \/ (Head(chatWire)[2] \in ChatCmds /\
                 chatRun[Head(chatWire)[2]] = "done")
    BY <1>1, <1>4 DEF ChatInv, ChatWired
  <1>6. Head(chatWire)[2] \in Chat!Ids
    BY <1>1, <1>4 DEF ChatInv, ChatWired, Chat!Ids
  <1>7. ASSUME Head(chatWire)[1] = "completed", NEW p \in 1..Len(chatWire'),
               chatWire'[p] = <<"started", Head(chatWire)[2]>>
        PROVE  FALSE
    <2>1. chatWire[p + 1][1] = "started" /\ chatWire[p + 1][2] = Head(chatWire)[2]
      BY <1>2, <1>7
    <2>2. p + 1 < 1
      BY <1>1, <1>2, <1>4, <1>7, <2>1 DEF ChatInv, ChatWired
    <2>3. QED
      BY <2>2
  <1>8. QED
    BY <1>1, <1>2, <1>3, <1>5, <1>6, <1>7

LEMMA ChatRecvStartedInv ==
    ASSUME ChatBounds, ChatInv, chatMain.at # "over", Chat!RecvStarted
    PROVE  ChatInv'
  <1> DEFINE i == Head(chatWire)[2]
  <1>1. /\
             UNCHANGED <<chatQuiet, chatPrintMu, chatMu, chatMain, chatRecvLoop, chatEvents,
               chatLeft, chatHooks, chatRun, chatBegin, chatEnd,
                       chatLog, chatWaiters, chatTold, chatReplay>>
        /\ chatWire # <<>> /\ chatWire' = Tail(chatWire) /\ Head(chatWire)[1] = "started" /\
             chatMu = "free"
        /\ chatRecvLoop = "recv" /\ chatByID' = [chatByID EXCEPT ![i] = "started"]
    BY DEF Chat!RecvStarted, Chat!locks, Chat!shell
  <1>2. ChatWired' /\ i \in ChatCmds /\ i \in Chat!Ids /\ chatRun[i] \notin {"none", "sent"}
    BY <1>1, ChatReceived
  <1>3. /\ chatByID' \in [Chat!Ids -> {"none", "started", "completed"}]
        /\ \A j \in Chat!Ids : chatByID'[j] = IF j = i THEN "started" ELSE chatByID[j]
    BY <1>1, <1>2 DEF ChatInv, Chat!TypeOK
  <1>4. Chat!TypeOK'
    BY <1>1, <1>3 DEF ChatInv, Chat!TypeOK
  <1>5. ChatRecorded' /\ ChatWaiting'
    BY <1>1, <1>2, <1>3 DEF ChatInv, ChatRecorded, ChatWaiting, Chat!Ids
  <1>6. ChatTaken'
    <2>1. ASSUME NEW j \in Chat!Ids, ChatEnded(j) PROVE ChatEnded(j)'
      <3>1. 1 \in 1..Len(chatWire) /\ Head(chatWire) = chatWire[1]
        BY <1>1, ChatShrunk DEF ChatInv, ChatWired
      <3>2. Head(chatWire) = <<"started", i>>
        BY <1>1, <3>1 DEF ChatInv, ChatWired
      <3>3. j # i
        BY <2>1, <3>1, <3>2 DEF ChatEnded
      <3>4. \A p \in 1..Len(chatWire') : chatWire'[p] # <<"started", j>>
        BY <1>1, <2>1, ChatReceived DEF ChatEnded
      <3>5. QED
        BY <1>1, <1>3, <2>1, <3>3, <3>4 DEF ChatEnded
    <2>2. QED
      BY <1>1, <2>1 DEF ChatInv, ChatTaken
  <1>7. ChatReplayed'
    BY <1>1 DEF ChatInv, ChatReplayed, ChatFrom
  <1>8. QED
    BY <1>2, <1>4, <1>5, <1>6, <1>7 DEF ChatInv

LEMMA ChatRecvCompletedInv ==
    ASSUME ChatBounds, ChatInv, chatMain.at # "over", Chat!RecvCompleted
    PROVE  ChatInv'
  <1> DEFINE i == Head(chatWire)[2]
  <1>1. /\
             UNCHANGED <<chatQuiet, chatPrintMu, chatMain, chatEvents, chatLeft, chatHooks,
               chatRun, chatBegin, chatEnd, chatLog, chatReplay>>
        /\ chatWire # <<>> /\ chatWire' = Tail(chatWire) /\ Head(chatWire)[1] = "completed"
        /\ chatMu' = "shell" /\ chatRecvLoop' = "print" /\
             chatByID' = [chatByID EXCEPT ![i] = "completed"]
        /\ chatWaiters' = chatWaiters \ {i} /\ chatTold' = chatTold \cup (chatWaiters \cap {i})
    BY DEF Chat!RecvCompleted, Chat!shell
  <1>2. /\ ChatWired' /\ i \in Chat!Ids /\ (i = 0 \/ (i \in ChatCmds /\ chatRun[i] = "done"))
        /\ \A p \in 1..Len(chatWire') : chatWire'[p] # <<"started", i>>
    BY <1>1, ChatReceived
  <1>3. /\ chatByID' \in [Chat!Ids -> {"none", "started", "completed"}]
        /\ \A j \in Chat!Ids : chatByID'[j] = IF j = i THEN "completed" ELSE chatByID[j]
    BY <1>1, <1>2 DEF ChatInv, Chat!TypeOK
  <1>4. chatWaiters \subseteq ChatCmds /\ chatTold \subseteq ChatCmds /\ 0 \notin ChatCmds
    BY DEF ChatInv, Chat!TypeOK, ChatBounds
  <1>5. Chat!TypeOK'
    BY <1>1, <1>3, <1>4 DEF ChatInv, Chat!TypeOK
  <1>6. ChatRecorded'
    BY <1>1, <1>2, <1>3, <1>4 DEF ChatInv, ChatRecorded, Chat!Ids
  <1>7. ChatWaiting'
    BY <1>1, <1>2, <1>3 DEF ChatInv, ChatWaiting, Chat!Ids
  <1>8. ChatTaken'
    BY <1>1, <1>2, <1>3 DEF ChatTaken, ChatEnded
  <1>9. ChatReplayed'
    BY <1>1 DEF ChatInv, ChatReplayed, ChatFrom
  <1>10. QED
    BY <1>2, <1>5, <1>6, <1>7, <1>8, <1>9 DEF ChatInv

\* Printing, unlocking, the end of the goroutine.
LEMMA ChatLocksInv ==
    ASSUME ChatBounds, ChatInv, chatMain.at # "over", Chat!PrintCompletion \/ Chat!UnlockRecords \/
             Chat!RecvFails
    PROVE  ChatInv'
  <1>1. /\
             UNCHANGED <<chatQuiet, chatMain, chatEvents, chatLeft, chatHooks, chatRun, chatBegin,
               chatEnd, chatLog, chatWire,
                       chatByID, chatWaiters, chatTold, chatReplay>>
        /\ chatPrintMu' \in {"free", "main", "shell"} /\ chatMu' \in {"free", "shell"}
        /\ chatRecvLoop' \in {"recv", "unlock", "ended"}
        /\ (chatPrintMu' = "shell" \/ chatMu' # "free") =>
               chatPrintMu = "shell" \/ chatMu # "free" \/ chatRecvLoop = "print"
    BY DEF ChatInv, Chat!TypeOK, Chat!PrintCompletion, Chat!UnlockRecords, Chat!RecvFails,
       Chat!shell, Chat!records
  <1>2. Chat!TypeOK'
    BY <1>1 DEF ChatInv, Chat!TypeOK
  <1>3. ChatTaken'
    <2>1. \A j \in Chat!Ids : ChatEnded(j) => ChatEnded(j)'
      BY <1>1 DEF ChatEnded
    <2>2. QED
      BY <1>1, <2>1 DEF ChatInv, ChatTaken
  <1>4. QED
    BY <1>1, <1>2, <1>3 DEF ChatInv, ChatWired, ChatRecorded, ChatWaiting, ChatReplayed, ChatFrom

-----------------------------------------------------------------------------
LEMMA ChatNextInv == ChatBounds /\ ChatInv /\ [Chat!Next]_Chat!vars => ChatInv'
  <1>1. SUFFICES ASSUME ChatBounds, ChatInv, [Chat!Next]_Chat!vars PROVE ChatInv'
    OBVIOUS
  <1>2. CASE UNCHANGED Chat!vars
    <2>1. UNCHANGED <<chatQuiet, chatPrintMu, chatMu, chatMain, chatRecvLoop, chatEvents, chatLeft,
            chatHooks, chatRun, chatBegin, chatEnd,
                      chatLog, chatWire, chatByID, chatWaiters, chatTold, chatReplay>>
      BY <1>2 DEF Chat!vars
    <2>2. Chat!TypeOK' /\ ChatWired' /\ ChatRecorded' /\ ChatWaiting'
      BY <1>1, <2>1 DEF ChatInv, Chat!TypeOK, ChatWired, ChatRecorded, ChatWaiting
    <2>3. ChatTaken' /\ ChatReplayed'
      BY <1>1, <2>1 DEF ChatInv, ChatTaken, ChatEnded, ChatReplayed, ChatFrom
    <2>4. QED
      BY <2>2, <2>3 DEF ChatInv
  <1>3. CASE Chat!Next
    <2>1. chatMain.at # "over"
      BY <1>3 DEF Chat!Next
    <2>2. CASE Chat!Shell
      <3>1. CASE Chat!HookEnd
        BY <1>1, <2>1, <3>1, ChatEndRunInv DEF Chat!Ids
      <3>2. CASE \E i \in ChatCmds : Chat!StartRun(i) \/ Chat!EndRun(i) \/ Chat!GiveUp(i)
        BY <1>1, <2>1, <3>2, ChatStartRunInv, ChatEndRunInv, ChatGiveUpInv DEF Chat!Ids
      <3>3. QED
        BY <1>1, <2>1, <2>2, <3>1, <3>2, ChatOutputInv DEF Chat!Shell
    <2>3. CASE Chat!RecvLoop
      BY <1>1, <2>1, <2>3, ChatRecvStartedInv, ChatRecvCompletedInv, ChatLocksInv DEF Chat!RecvLoop
    <2>4. CASE Chat!Events
      BY <1>1, <2>4, ChatEventsInv
    <2>5. CASE Chat!handleChatCommand
      BY <1>1, <2>1, <2>5, ChatPromptInv, ChatTimelineInv, ChatRunInv, ChatReturnsInv,
         ChatFindRecordInv, ChatReplayInv
         DEF Chat!handleChatCommand
    <2>6. QED
      BY <1>3, <2>2, <2>3, <2>4, <2>5 DEF Chat!Next
  <1>4. QED
    BY <1>1, <1>2, <1>3

\* What the invariant says of replays and locks.
LEMMA ChatMeaning ==
    ASSUME ChatBounds, ChatInv
    PROVE  Chat!WaitersAreTold /\ Chat!RunsHaveEnded /\ Chat!ReplayIsWhole /\ Chat!LocksAreGivenBack
  <1>1. Chat!WaitersAreTold /\ Chat!RunsHaveEnded
    BY DEF ChatInv, ChatWaiting, ChatRecorded, Chat!WaitersAreTold, Chat!RunsHaveEnded
  <1>2. Chat!LocksAreGivenBack
    BY DEF ChatInv, ChatTaken, ChatEnded, Chat!LocksAreGivenBack
  <1>3. ASSUME chatReplay # <<>>
    PROVE Len(chatReplay) \in Nat \ {0} /\ chatReplay \in Seq(1..ChatMaxLog)
    BY <1>3 DEF ChatInv, ChatReplayed
  <1>4. ASSUME chatReplay # <<>>, NEW b \in Nat, ChatFrom(b)
        PROVE  /\ \A k \in 1..Len(chatReplay) - 1 : chatReplay[k + 1] = chatReplay[k] + 1
               /\ chatReplay[1] = b + 1 /\ chatReplay[Len(chatReplay)] = b + Len(chatReplay)
    BY <1>3, <1>4 DEF ChatFrom
  <1>5. \A i \in ChatCmds : chatBegin[i] \in Nat
    BY DEF ChatInv, Chat!TypeOK
  <1>6. Chat!ReplayIsWhole
    <2>1. SUFFICES ASSUME chatReplay # <<>>
                   PROVE  /\ \A k \in 1..Len(chatReplay) - 1 : chatReplay[k + 1] = chatReplay[k] + 1
                          /\ chatMain.at \notin {"replay", "over"} =>
                                 \E i \in ChatCmds :
                                                 /\ chatReplay[1] = chatBegin[i] + 1
                                                 /\ chatReplay[Len(chatReplay)] >= chatEnd[i] /\
                                                      chatEnd[i] > chatBegin[i]
      BY DEF Chat!ReplayIsWhole
    <2>2. CASE chatMain.at = "replay"
      BY <1>4, <1>5, <2>1, <2>2 DEF ChatInv, ChatWaiting, ChatReplayed
    <2>3. CASE chatMain.at # "replay"
      <3>1. PICK i \in ChatCmds :
               /\ chatEnd[i] > chatBegin[i] /\ ChatFrom(chatBegin[i])
               /\ chatMain.at # "over" => chatBegin[i] + Len(chatReplay) >= chatEnd[i]
        BY <2>1, <2>3 DEF ChatInv, ChatReplayed
      <3>2. QED
        BY <1>4, <1>5, <2>1, <3>1
    <2>4. QED
      BY <2>2, <2>3
  <1>7. QED
    BY <1>1, <1>2, <1>6

(***************************************************************************)
(* Whoever waits for a command is told when it completes, a command that   *)
(* returned has ended, replays are whole, and no lock is kept before the   *)
(* shell reports the end of a command (chatShell, handleChatCommand).      *)
(***************************************************************************)
THEOREM ChatShellHolds ==
    ASSUME ChatBounds
    PROVE  Chat!Spec =>
             [](Chat!TypeOK /\ Chat!WaitersAreTold /\ Chat!RunsHaveEnded /\ Chat!ReplayIsWhole /\
               Chat!LocksAreGivenBack)
  <1>1. ChatInv =>
          Chat!TypeOK /\ Chat!WaitersAreTold /\ Chat!RunsHaveEnded /\ Chat!ReplayIsWhole /\
            Chat!LocksAreGivenBack
    BY ChatMeaning DEF ChatInv
  <1>2. QED
    BY <1>1, ChatInitInv, ChatNextInv, PTL DEF Chat!Spec

-----------------------------------------------------------------------------
(***************************************************************************)
(* Proofs about ChatPrinter, for any deltas, off a terminal and on one.    *)
(***************************************************************************)

\* Texts are sequences of letters.
PrinterWords == PrinterTexts \subseteq Seq(Printer!Letters) /\ PrinterMaxEvents \in Nat /\
  PrinterInteractive \in BOOLEAN

\* A terminal shows what the printer believes to have shown, and off a terminal
\* nothing is filtered.
PrinterShown ==
    /\ PrinterInteractive => printerLine = printerFull
    /\ ~PrinterInteractive => printerLine = printerDeltas /\ ~printerActive /\ ~printerSpinning

PrinterInv == Printer!TypeOK /\ PrinterShown

-----------------------------------------------------------------------------
LEMMA PrinterInitInv == PrinterWords /\ Printer!Init => PrinterInv
  <1>1. SUFFICES ASSUME PrinterWords, Printer!Init PROVE PrinterInv
    OBVIOUS
  <1>2. <<>> \in Seq(Printer!Letters)
    OBVIOUS
  <1>3. printerEv \in Printer!Events
    BY <1>1 DEF Printer!Init, Printer!Events
  <1>4. Printer!TypeOK
    <2>1. {printerFull, printerLine, printerDeltas} \subseteq Seq(Printer!Letters)
      BY <1>1, <1>2, Zenon DEF Printer!Init
    <2>2. printerMu \in {"free", "receiver"} /\
            printerRpc \in {"recv", "handle", "clear", "print", "prompt"}
      BY <1>1 DEF Printer!Init
    <2>3. (printerMu = "receiver") = (printerRpc \in {"handle", "clear", "print"})
      BY <1>1 DEF Printer!Init
    <2>4. printerReceived \in 0..PrinterMaxEvents
      <3>1. printerReceived = 0 /\ PrinterMaxEvents \in Nat
        BY <1>1, Zenon DEF PrinterWords, Printer!Init
      <3>2. QED
        BY <3>1
    <2>5. printerSpinning \in BOOLEAN /\ printerActive \in BOOLEAN
      BY <1>1, Zenon DEF Printer!Init
    <2>6. QED
      BY <1>3, <2>1, <2>2, <2>3, <2>4, <2>5, Zenon DEF Printer!TypeOK
  <1>5. QED
    BY <1>1, <1>4 DEF Printer!Init, PrinterInv, PrinterShown

\* What is new of a delta is a text.
LEMMA PrinterNewsTyped ==
    ASSUME NEW d \in Seq(Printer!Letters), printerFull \in Seq(Printer!Letters)
    PROVE  Printer!News(d) \in Seq(Printer!Letters)
  <1>1. SubSeq(d, Len(printerFull) + 1, Len(d)) \in Seq(Printer!Letters)
    OBVIOUS
  <1>2. <<>> \in Seq(Printer!Letters)
    OBVIOUS
  <1>3. QED
    BY <1>1, <1>2, Zenon DEF Printer!News

\* Texts are put together.
LEMMA PrinterJoined ==
    ASSUME NEW s \in Seq(Printer!Letters), NEW t \in Seq(Printer!Letters)
    PROVE  s \o t \in Seq(Printer!Letters)
  OBVIOUS

\* The receiver takes an event.
LEMMA PrinterRecvInv ==
    ASSUME PrinterWords, PrinterInv, NEW e \in Printer!Events, Printer!Recv(e)
    PROVE  PrinterInv'
  BY DEF PrinterWords, PrinterInv, Printer!TypeOK, PrinterShown, Printer!Recv

\* The first half of Handle.
LEMMA PrinterHandleInv ==
    ASSUME PrinterWords, PrinterInv, Printer!Handle
    PROVE  PrinterInv'
  <1>1. Printer!TypeOK'
    <2>1. {printerFull', printerLine', printerDeltas'} \subseteq Seq(Printer!Letters)
      <3>1. <<>> \in Seq(Printer!Letters)
        OBVIOUS
      <3>2. QED
        BY <3>1, Zenon DEF PrinterInv, Printer!TypeOK, Printer!Handle
    <2>2. printerActive' \in BOOLEAN /\ printerSpinning' \in BOOLEAN
      BY DEF PrinterInv, Printer!TypeOK, Printer!Handle, PrinterWords
    <2>3. QED
      BY <2>1, <2>2 DEF PrinterInv, Printer!TypeOK, Printer!Handle
  <1>2. PrinterShown'
    BY DEF PrinterInv, Printer!TypeOK, PrinterShown, Printer!Handle, Printer!EndsLine, PrinterWords
  <1>3. QED
    BY <1>1, <1>2 DEF PrinterInv

\* The second half.
LEMMA PrinterRenderInv ==
    ASSUME PrinterWords, PrinterInv, Printer!Render
    PROVE  PrinterInv'
  <1>1. printerEv.kind = "delta" =>
          printerEv.text \in Seq(Printer!Letters) /\
            Printer!News(printerEv.text) \in Seq(Printer!Letters)
    <2>1. printerEv.kind = "delta" => printerEv.text \in PrinterTexts
      BY DEF PrinterInv, Printer!TypeOK, Printer!Events
    <2>2. QED
      BY <2>1, PrinterNewsTyped DEF PrinterWords, PrinterInv, Printer!TypeOK
  <1>2. {printerFull', printerLine', printerDeltas'} \subseteq Seq(Printer!Letters)
    <2>1. CASE printerEv.kind = "delta"
      <3>1. /\ printerLine \o Printer!News(printerEv.text) \in Seq(Printer!Letters) /\
                 printerLine \o printerEv.text \in Seq(Printer!Letters)
            /\ printerFull \o Printer!News(printerEv.text) \in Seq(Printer!Letters) /\
                 printerDeltas \o printerEv.text \in Seq(Printer!Letters)
        BY <1>1, <2>1, PrinterJoined DEF PrinterInv, Printer!TypeOK
      <3>2. QED
        BY <2>1, <3>1 DEF PrinterInv, Printer!TypeOK, Printer!Render
    <2>2. CASE printerEv.kind # "delta"
      BY <2>2 DEF PrinterInv, Printer!TypeOK, Printer!Render
    <2>3. QED
      BY <2>1, <2>2
  <1>3. printerActive' \in BOOLEAN
    BY DEF PrinterInv, Printer!TypeOK, Printer!Render, PrinterWords
  <1>4. Printer!TypeOK'
    BY <1>2, <1>3 DEF PrinterInv, Printer!TypeOK, Printer!Render
  <1>5. PrinterShown'
    <2>1. CASE printerEv.kind = "delta"
      BY <2>1 DEF PrinterInv, PrinterShown, Printer!Render, PrinterWords
    <2>2. CASE printerEv.kind # "delta"
      BY <2>2 DEF PrinterInv, PrinterShown, Printer!Render
    <2>3. QED
      BY <2>1, <2>2
  <1>6. QED
    BY <1>4, <1>5 DEF PrinterInv

LEMMA PrinterNextInv == PrinterWords /\ PrinterInv /\ [Printer!Next]_Printer!vars => PrinterInv'
  <1>1. SUFFICES ASSUME PrinterWords, PrinterInv, [Printer!Next]_Printer!vars PROVE PrinterInv'
    OBVIOUS
  <1>2. CASE \E e \in Printer!Events : Printer!Recv(e)
    BY <1>1, <1>2, PrinterRecvInv
  <1>3. CASE Printer!ClearSpinner
    BY <1>1, <1>3 DEF PrinterInv, Printer!TypeOK, PrinterShown, Printer!ClearSpinner
  <1>4. CASE Printer!Prompt
    BY <1>1, <1>4 DEF PrinterInv, Printer!TypeOK, PrinterShown, Printer!Prompt
  <1>5. CASE UNCHANGED Printer!vars
    BY <1>1, <1>5 DEF PrinterInv, Printer!TypeOK, PrinterShown, Printer!vars
  <1>6. QED
    BY <1>1, <1>2, <1>3, <1>4, <1>5, PrinterHandleInv, PrinterRenderInv DEF Printer!Next

-----------------------------------------------------------------------------
(***************************************************************************)
(* Off a terminal the line holds the deltas, one after the other; on one   *)
(* it holds what the printer compares the next chunk with, be it a delta   *)
(* or cumulative (streamingChatPrinter.Handle).                            *)
(***************************************************************************)
THEOREM PrinterHolds ==
    ASSUME PrinterWords
    PROVE  Printer!Spec => [](Printer!TypeOK /\ (~PrinterInteractive =>
             Printer!DeltasAreRendered) /\ (PrinterInteractive => printerLine = printerFull))
  <1>1. PrinterInv => Printer!TypeOK /\ (~PrinterInteractive =>
          Printer!DeltasAreRendered) /\ (PrinterInteractive => printerLine = printerFull)
    BY DEF PrinterInv, PrinterShown, Printer!DeltasAreRendered
  <1>2. QED
    BY <1>1, PrinterInitInv, PrinterNextInv, PTL DEF Printer!Spec
=============================================================================
