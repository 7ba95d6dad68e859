--------------------------- MODULE SessionStartup ---------------------------
(***************************************************************************)
(* How the desktop app comes to have a session (gloscope-app/src-tauri/    *)
(* src/lib.rs, gloscope-app/src/SetupWizard.tsx and App.tsx, codex-rs/     *)
(* gloscope-config/src/lib.rs).  Three parties read the configuration for  *)
(* themselves: setup, which may start a core thread; the window, which     *)
(* asks whether to show the wizard or the chat; and every core thread.     *)
(* The wizard writes the settings file and the key and asks for a session. *)
(* The app may quit at any step; file and keyring outlive it.              *)
(***************************************************************************)
EXTENDS Integers

CONSTANTS MaxSubmits,    \* bound: submissions of the wizard
          MaxLaunches    \* bound: launches of the app

\* A key is named by the submission that typed it; GLOSCOPE_API_KEY may hold
\* another one at launch.
NoKey == 0
LaunchKey == -1
LaunchKeys == {NoKey, LaunchKey}
Submits == 1..MaxSubmits
Keys == Submits \cup {NoKey, LaunchKey}

\* The core of setup, and one per submission.
Setup == 0
Cores == {Setup} \cup Submits

ASSUME BoundAssumption == MaxSubmits \in Nat /\ MaxLaunches \in Nat

\* settings.toml: missing, half written, or the settings of a submission.
NoFile == 0
Torn == -1
Files == Submits \cup {NoFile, Torn}

VARIABLES
  settings,   \* settings.toml
  negative,   \* submissions that carry a negative timeout
  keyring     \* the key in the keyring: the submission that saved it
VARIABLES
  app,        \* "down", "up"
  env,        \* GLOSCOPE_API_KEY of the process
  view,       \* what the window shows: "checking", "wizard", "chat"
  wizard,     \* where handleSubmit is
  submits,    \* submissions so far; the last one is under way
  launches,
  core,       \* where each core thread is
  cfg, key,   \* what each core loaded
  managed     \* the core whose AppState is managed, or -1

\* History: whether the window came to the chat by the wizard, and whether
\* setup started a core in this launch.
VARIABLES via, autostarted

disk == <<settings, negative, keyring>>
window == <<view, via>>
wizardState == <<wizard, submits>>
cores == <<core, cfg, key, managed>>
vars == <<disk, app, env, window, wizardState, launches, cores, autostarted>>

CorePc == {"none", "load", "build", "start", "manage", "running", "failed"}
Nobody == -1

TypeOK ==
  /\ settings \in Files /\ keyring \in Keys \ {LaunchKey} /\ negative \subseteq Submits
  /\ app \in {"down", "up"} /\ env \in Keys
  /\ view \in {"checking", "wizard", "chat"} /\ via \in {"none", "check", "wizard"}
  /\ wizard \in {"idle", "write", "key", "start", "wait"}
  /\ submits \in 0..MaxSubmits /\ launches \in 0..MaxLaunches
  /\ core \in [Cores -> CorePc] /\ cfg \in [Cores -> Files] /\ key \in [Cores -> Keys]
  /\ managed \in Cores \cup {Nobody}
  /\ autostarted \in BOOLEAN

Closed ==
  /\ view = "checking" /\ via = "none" /\ wizard = "idle"
  /\ core = [c \in Cores |-> "none"]
  /\ cfg = [c \in Cores |-> NoFile] /\ key = [c \in Cores |-> NoKey]
  /\ managed = Nobody /\ autostarted = FALSE

Init ==
  /\ settings = NoFile /\ negative = {} /\ keyring = NoKey
  /\ app = "down" /\ env = NoKey /\ submits = 0 /\ launches = 0
  /\ Closed
-----------------------------------------------------------------------------
(* load_config.                                                            *)

load_settings == settings \notin {NoFile, Torn}

\* Seeded fault: the environment wins over the keyring.
load_env_key(e) == IF e # NoKey THEN e ELSE keyring

\* The key found when the keyring can be read: the stored one, else the
\* environment's.
load_api_key(e) == IF keyring # NoKey THEN keyring ELSE e

\* What a call of load_config may come to: a configuration, an error (no
\* settings, no key, or a keyring that cannot be read), or, with a negative
\* timeout, a panic of Duration::from_secs_f64.
load_config(e) ==
  {"error"} \cup
  (IF load_settings /\ load_api_key(e) # NoKey
   THEN {IF settings \in negative THEN "panic" ELSE "ok"} ELSE {})
-----------------------------------------------------------------------------
(* The process.                                                            *)

\* run: setup starts a core when the configuration loads, and the window
\* opens.  A panic ends the process.
setup(k, r) ==
  /\ app = "down" /\ launches < MaxLaunches
  /\ launches' = launches + 1
  /\ env' = k
  /\ r \in load_config(k)
  /\ app' = IF r = "panic" THEN "down" ELSE "up"
  /\ core' = [c \in Cores |-> IF c = Setup /\ r = "ok" THEN "load" ELSE "none"]
  /\ cfg' = [c \in Cores |-> NoFile] /\ key' = [c \in Cores |-> NoKey]
  /\ managed' = Nobody /\ autostarted' = (r = "ok")
  /\ view' = "checking" /\ via' = "none" /\ wizard' = "idle"
  /\ UNCHANGED <<disk, submits>>

\* The user quits, or the process dies.
quit ==
  /\ app = "up"
  /\ app' = "down"
  /\ view' = "checking" /\ via' = "none" /\ wizard' = "idle"
  /\ core' = [c \in Cores |-> "none"]
  /\ cfg' = [c \in Cores |-> NoFile] /\ key' = [c \in Cores |-> NoKey]
  /\ managed' = Nobody /\ autostarted' = FALSE
  /\ env' = NoKey
  /\ UNCHANGED <<disk, submits, launches>>

\* App: the window asks gloscope_is_configured, once.  (A panic here ends
\* the process: that is quit.)
gloscope_is_configured(r) ==
  /\ app = "up" /\ view = "checking"
  /\ r \in load_config(env) \ {"panic"}
  /\ view' = IF r = "ok" THEN "chat" ELSE "wizard"
  /\ via' = IF r = "ok" THEN "check" ELSE "none"
  /\ UNCHANGED <<disk, app, env, wizardState, launches, cores, autostarted>>
-----------------------------------------------------------------------------
(* handleSubmit of the wizard.                                             *)

SubmitFails ==
  /\ wizard' = "idle"
  /\ UNCHANGED window

\* gloscope_save_settings opens the file, which empties it ...
save_settings ==
  /\ app = "up" /\ view = "wizard" /\ wizard = "idle" /\ submits < MaxSubmits
  /\ submits' = submits + 1
  /\ \/ /\ wizard' = "write" /\ settings' = Torn
        /\ \E n \in {{}, {submits'}} : negative' = negative \cup n
     \/ /\ wizard' = "idle"
        /\ UNCHANGED <<settings, negative>>
  /\ UNCHANGED <<keyring, app, env, window, launches, cores, autostarted>>

\* ... and writes it, unless the disk is full.
write_settings ==
  /\ wizard = "write"
  /\ \/ settings' = submits /\ wizard' = "key"
     \/ wizard' = "idle" /\ UNCHANGED settings
  /\ UNCHANGED <<negative, keyring, app, env, window, submits, launches, cores, autostarted>>

\* gloscope_save_api_key, if one was typed; it must be when none is stored.
save_api_key ==
  /\ wizard = "key"
  /\ \/ keyring' = submits /\ wizard' = "start"
     \/ keyring # NoKey /\ wizard' = "start" /\ UNCHANGED keyring
     \/ wizard' = "idle" /\ UNCHANGED keyring
  /\ UNCHANGED <<settings, negative, app, env, window, submits, launches, cores, autostarted>>

Configured == view' = "chat" /\ via' = "wizard" /\ wizard' = "idle"

\* gloscope_start_session: nothing to do when a state is managed, else a
\* core is started and awaited.
gloscope_start_session ==
  /\ wizard = "start"
  /\ \/ /\ managed # Nobody
        /\ Configured
        /\ UNCHANGED core
     \/ /\ managed = Nobody
        /\ core' = [core EXCEPT ![submits] = "load"]
        /\ wizard' = "wait"
        /\ UNCHANGED window
  /\ UNCHANGED <<disk, app, env, submits, launches, cfg, key, managed, autostarted>>

\* Seeded fault: a core that failed keeps its ready_tx and says nothing.
await_ok ==
  /\ wizard = "wait"
  /\ core[submits] = "running" /\ Configured
  /\ UNCHANGED <<disk, app, env, submits, launches, cores, autostarted>>

\* ready_rx: the core reported, or dropped ready_tx.
await_ready ==
  /\ wizard = "wait"
  /\ \/ core[submits] = "running" /\ Configured
     \/ core[submits] = "failed" /\ SubmitFails
  /\ UNCHANGED <<disk, app, env, submits, launches, cores, autostarted>>
-----------------------------------------------------------------------------
(* A core thread.                                                          *)

fails(c) == core' = [core EXCEPT ![c] = "failed"]

\* A panic of load_config ends the thread like an error.
core_load(c, r) ==
  /\ core[c] = "load"
  /\ r \in load_config(env)
  /\ \/ /\ r = "ok"
        /\ core' = [core EXCEPT ![c] = "build"]
        /\ cfg' = [cfg EXCEPT ![c] = settings]
        /\ key' = [key EXCEPT ![c] = load_api_key(env)]
     \/ r # "ok" /\ fails(c) /\ UNCHANGED <<cfg, key>>
  /\ UNCHANGED <<disk, app, env, window, wizardState, launches, managed, autostarted>>

\* Seeded fault: the key is put into the environment only when it is empty.
build_config_once(c) ==
  /\ core[c] = "build"
  /\ env' = IF env = NoKey THEN key[c] ELSE env
  /\ core' = [core EXCEPT ![c] = "start"]
  /\ UNCHANGED <<disk, app, window, wizardState, launches, cfg, key, managed, autostarted>>

build_config(c) ==
  /\ core[c] = "build"
  /\ env' = key[c]
  /\ \/ core' = [core EXCEPT ![c] = "start"]
     \/ fails(c)
  /\ UNCHANGED <<disk, app, window, wizardState, launches, cfg, key, managed, autostarted>>

\* start_app_server and start_thread.
start_app_server(c) ==
  /\ core[c] = "start"
  /\ \/ core' = [core EXCEPT ![c] = "manage"]
     \/ fails(c)
  /\ UNCHANGED <<disk, app, env, window, wizardState, launches, cfg, key, managed, autostarted>>

\* Seeded fault: a core nobody waits for does not manage its state.
manage_if_awaited(c) ==
  /\ core[c] = "manage"
  /\ managed' = IF managed = Nobody /\ c # Setup THEN c ELSE managed
  /\ core' = [core EXCEPT ![c] = "running"]
  /\ UNCHANGED <<disk, app, env, window, wizardState, launches, cfg, key, autostarted>>

\* manage keeps the first state it is given; then ready_tx is answered.
manage(c) ==
  /\ core[c] = "manage"
  /\ managed' = IF managed = Nobody THEN c ELSE managed
  /\ core' = [core EXCEPT ![c] = "running"]
  /\ UNCHANGED <<disk, app, env, window, wizardState, launches, cfg, key, autostarted>>

WizardStep == write_settings \/ save_api_key \/ gloscope_start_session \/ await_ready
CoreStep(c) ==
  (\E r \in {"ok", "error", "panic"} : core_load(c, r))
  \/ build_config(c) \/ start_app_server(c) \/ manage(c)

Next ==
  \/ \E k \in LaunchKeys, r \in {"ok", "error", "panic"} : setup(k, r)
  \/ quit
  \/ \E r \in {"ok", "error"} : gloscope_is_configured(r)
  \/ save_settings \/ WizardStep
  \/ \E c \in Cores : CoreStep(c)

Spec == Init /\ [][Next]_vars

\* The window's question, the wizard's commands and the core threads run;
\* users neither have to launch the app nor to submit the form.
Fairness ==
  /\ WF_vars(\E r \in {"ok", "error"} : gloscope_is_configured(r))
  /\ WF_vars(WizardStep)
  /\ \A c \in Cores : WF_vars(CoreStep(c))
FairSpec == Spec /\ Fairness
-----------------------------------------------------------------------------
(* Properties.                                                             *)

\* A wizard that closes leaves a session behind, whether it awaited a core
\* or found the state managed (gloscope_start_session).
SessionBehindWizard == via = "wizard" => managed # Nobody

\* That session runs with the settings and the key just saved, unless it is
\* the one setup started: then start_session is a no-op, or the wizard's own
\* core comes second and its state is not kept.
SessionIsWhatWasSaved ==
  (via = "wizard" /\ managed # Setup) => cfg[managed] = settings /\ key[managed] = keyring

\* The key in the environment, which the session's provider reads for every
\* request, is the session's own, unless a second core was started before
\* the session was managed and has put its key there since.
EnvKeyIsSessions ==
  managed # Nobody =>
    \/ env = key[managed]
    \/ \E c \in Cores \ {managed} : core[c] \notin {"none", "load", "build"} /\ env = key[c]

\* Every submission comes to an end: the chat, or an error to show.
WizardSettles == wizard # "idle" ~> wizard = "idle"

\* A chat view gets its session.  The exceptions: setup could not read what
\* the window could read a moment later, so nobody starts a core; and the
\* core setup started failed, which nobody is told.
ChatGetsSession ==
  view = "chat" ~> managed # Nobody \/ app = "down" \/ ~autostarted \/ core[Setup] = "failed"

=============================================================================
