------------------------------ MODULE LlmConfig ------------------------------
(***************************************************************************)
(* How xrunner-remote comes to a language model: `xrunner ssh bootstrap'   *)
(* reads the laptop's settings and writes them to a file on the host       *)
(* (ssh_bootstrap.go), a command that starts the daemon over ssh forwards  *)
(* them (ssh.go), and the daemon resolves what its environment then holds  *)
(* and builds its client from it (internal/llm/config.go and client.go,    *)
(* newSessionService).  The same rules are written down three times.       *)
(*                                                                         *)
(* Settings are records of the variables XR_LLM_* and OPENAI_*.  key       *)
(* stands for the model as well, which is resolved like it; the variables  *)
(* that no check looks at are left out.  An installation that fails is in  *)
(* HostInstall, the daemon that has a client in SessionTurns.              *)
(***************************************************************************)
EXTENDS Naturals

CONSTANT MaxStarts \* bound: starts of the daemon

VARIABLES
    local,  \* the laptop's environment, or the file named by --llm-from-env-file
    host,   \* what the host's own shells set
    mode,   \* --install-mode: systemd or user
    file,   \* LLM settings in the host's environment file
    cfg,    \* llmCfg of the running daemon
    client, \* down; none, error or client: llmClient and llmInitErr
    origin, \* who started the daemon: bootstrap (with settings or without), unit, ssh
    starts

vars == <<local, host, mode, file, cfg, client, origin, starts>>

Settings ==
    [enabled : {"", "1", "alias"},  \* alias: XR_LLM_ENABLE
     provider : {"", "openai_compat", "gemini", "other"},
     base : {"", "url", "url/v1", "bad"}, openaiBase : {"", "openai"},
     key : {"", "key"}, openaiKey : {"", "key2"},
     path : {"", "/v1/chat", "/chat"}]

Unset == [enabled |-> "", provider |-> "", base |-> "", openaiBase |-> "", key |-> "", openaiKey |-> "", path |-> ""]
HostEnvs == {Unset, [Unset EXCEPT !.path = "/chat"], [Unset EXCEPT !.openaiKey = "key2"]}

Default(value, fallback) == IF value = "" THEN fallback ELSE value

\* What is set later hides what was set before.
Over(old, new) == [k \in DOMAIN old |-> Default(new[k], old[k])]

-----------------------------------------------------------------------------
(* The daemon.                                                             *)

FromEnv(env) ==
    [enabled |-> env.enabled # "",
     provider |-> Default(env.provider, "openai_compat"),
     base |-> Default(env.base, env.openaiBase),
     key |-> Default(env.key, env.openaiKey),
     path |-> Default(env.path, "/v1/chat")]

\* The address of an OpenAI-compatible service does not repeat /v1.
ValidateOpenAICompatBaseURL(base, provider, path) ==
    ~(provider = "openai_compat" /\ base = "url/v1" /\ Default(path, "/v1/chat") = "/v1/chat")

Complete(c) == c.base # "" /\ c.key # ""
Validate(c) == c.enabled => Complete(c) /\ ValidateOpenAICompatBaseURL(c.base, c.provider, c.path)

NewClient(c) ==
    CASE ~c.enabled -> "none"
      [] c.enabled /\ Validate(c) /\ c.provider \in {"openai_compat", "gemini"} /\ c.base # "bad" -> "client"
      [] OTHER -> "error"

\* newSessionService: the daemon starts with what it finds, and keeps it.
Start(env, by) ==
    /\ starts < MaxStarts /\ starts' = starts + 1 /\ origin' = by
    /\ cfg' = FromEnv(env) /\ client' = NewClient(FromEnv(env))
    /\ UNCHANGED <<local, host, mode>>

TypeOK ==
    /\ local \in Settings /\ host \in HostEnvs /\ mode \in {"systemd", "user"}
    /\ DOMAIN file = DOMAIN Unset /\ cfg.enabled \in BOOLEAN
    /\ client \in {"down", "none", "error", "client"} /\ starts \in 0..MaxStarts
    /\ origin \in {"none", "bootstrap", "plain", "unit", "ssh"}

Init ==
    /\ local \in Settings /\ host \in HostEnvs /\ mode \in {"systemd", "user"}
    /\ file = Unset /\ cfg = FromEnv(Unset) /\ client = "down" /\ origin = "none" /\ starts = 0

-----------------------------------------------------------------------------
(* The ways to start it.                                                   *)

\* llmEnvForBootstrap, llmEnvForBootstrapFromFile: what they refuse, and what they write.
Accepted(s) ==
    LET c == FromEnv(s) IN Complete(c) /\ ValidateOpenAICompatBaseURL(c.base, c.provider, s.path)

\* Mutant: the variables that are copied through if set locally are forgotten.
Lines_NoKnobs(s) ==
    LET c == FromEnv(s) IN
    [Unset EXCEPT !.enabled = "1", !.provider = c.provider, !.base = c.base, !.key = c.key]

Lines(s) ==
    LET c == FromEnv(s) IN
    [Unset EXCEPT !.enabled = "1", !.provider = c.provider, !.base = c.base, !.key = c.key, !.path = s.path]

\* A unit has the file's variables only; a daemon of user mode has the shell's too.
Environment(f) == IF mode = "systemd" THEN f ELSE Over(host, f)

\* User mode leaves a daemon alone that its pid file does not name; the units' script
\* kills it for the port.
Foreign == mode = "user" /\ client # "down" /\ origin = "ssh"

\* The file is replaced, and the daemon restarted.
BootstrapWithLLM ==
    /\ ~Foreign /\ Accepted(local)
    /\ file' = Lines(local) /\ Start(Environment(Lines(local)), "bootstrap")

\* The foreign daemon keeps the port, and the script finds it answered.
BootstrapBesideForeign ==
    /\ Foreign /\ Accepted(local) /\ file' = Lines(local)
    /\ UNCHANGED <<local, host, mode, cfg, client, origin, starts>>

\* Without settings the file of user mode stays, that of the units is the shipped one again.
BootstrapWithout ==
    LET f == IF mode = "systemd" THEN Unset ELSE file IN
    ~Foreign /\ file' = f /\ Start(Environment(f), "plain")

\* The unit restarts after a failure, and with the host.
UnitStarts ==
    /\ client = "down" /\ mode = "systemd" /\ origin # "none"
    /\ Start(file, "unit") /\ UNCHANGED file

\* ensureRemoteDaemonViaSSH forwards what is set, but not XR_LLM_ENABLE.
Forwarded == [local EXCEPT !.enabled = IF @ = "alias" THEN "" ELSE @]

StartOverSSH ==
    client = "down" /\ Start(Over(host, Forwarded), "ssh") /\ UNCHANGED file

Stops == client # "down" /\ client' = "down" /\ UNCHANGED <<local, host, mode, file, cfg, origin, starts>>

Next == BootstrapWithLLM \/ BootstrapBesideForeign \/ BootstrapWithout \/ UnitStarts \/ StartOverSSH \/ Stops

Spec == Init /\ [][Next]_vars

-----------------------------------------------------------------------------
Understood == local.provider # "other" /\ local.base # "bad"

\* Settings that bootstrap accepted give the daemon a client that uses just these, now and
\* when the unit starts again, where the host's shells do not interfere (llmEnvForBootstrap).
AcceptedIsUsable ==
    client # "down" /\ origin \in {"bootstrap", "unit"} /\ file # Unset /\ Understood
      /\ (mode = "user" => host = Unset) =>
        client = "client" /\ cfg = [FromEnv(local) EXCEPT !.enabled = TRUE]

\* A daemon started over ssh has the laptop's own settings and verdict (forwardedEnv).
ForwardedIsLocal ==
    client # "down" /\ origin = "ssh" /\ host = Unset /\ local.enabled # "alias" =>
        cfg = FromEnv(local) /\ client = NewClient(FromEnv(local))

\* However the daemon came to its settings, those of two sources mixed included, a client
\* is complete and calls no address twice under /v1 (Validate).
ClientsAreComplete ==
    client = "client" =>
        /\ cfg.enabled /\ Complete(cfg)
        /\ ~(cfg.provider = "openai_compat" /\ cfg.base = "url/v1" /\ cfg.path = "/v1/chat")
=============================================================================
