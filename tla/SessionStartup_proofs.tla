------------------------ MODULE SessionStartup_proofs ------------------------
(***************************************************************************)
(* Proofs for SessionStartup, for every bound on submissions and launches. *)
(* The inductive invariant relates the wizard, the cores and the managed   *)
(* state: a core that waits for the wizard's answer belongs to the         *)
(* submission under way, and was started after its settings were written.  *)
(***************************************************************************)
EXTENDS SessionStartup, TLAPS

LEMMA TypeInit == Init => TypeOK
<1> SUFFICES ASSUME Init PROVE TypeOK
  OBVIOUS
<1> USE DEF Init, Closed
<1>1. settings \in Files /\ keyring \in Keys \ {LaunchKey} /\ negative \subseteq Submits /\ env \in Keys
  BY DEF Files, Keys, NoFile, NoKey, LaunchKey
<1>2. core \in [Cores -> CorePc] /\ cfg \in [Cores -> Files] /\ key \in [Cores -> Keys]
  BY DEF CorePc, Files, Keys
<1>3. submits \in 0..MaxSubmits /\ launches \in 0..MaxLaunches
  BY BoundAssumption
<1>4. autostarted \in BOOLEAN
  OBVIOUS
<1> QED BY <1>1, <1>2, <1>3, <1>4 DEF TypeOK

LEMMA TypeStep == TypeOK /\ [Next]_vars => TypeOK'
<1> SUFFICES ASSUME TypeOK, [Next]_vars PROVE TypeOK'
  OBVIOUS
<1> USE BoundAssumption DEF TypeOK
<1>1. CASE \E k \in LaunchKeys, r \in {"ok", "error", "panic"} : setup(k, r)
  BY <1>1 DEF setup, disk, Keys, LaunchKeys, Files, Cores, CorePc, NoFile, NoKey, LaunchKey, Submits
<1>2. CASE quit
  BY <1>2 DEF quit, disk, Keys, Files, NoFile, NoKey, CorePc
<1>3. CASE \E r \in {"ok", "error"} : gloscope_is_configured(r)
  BY <1>3 DEF gloscope_is_configured, disk, wizardState, cores
<1>4. CASE save_settings
  <2>1. submits' \in 1..MaxSubmits
    BY <1>4 DEF save_settings
  <2>2. negative' \subseteq Submits /\ settings' \in Files
    BY <1>4, <2>1 DEF save_settings, Submits, Files
  <2> QED BY <1>4, <2>1, <2>2 DEF save_settings, window, cores
<1>5. CASE write_settings
  <2>1. submits \in Submits \/ submits = 0
    BY DEF Submits
  <2> QED BY <1>5, <2>1 DEF write_settings, window, cores, Files, NoFile
<1>6. CASE save_api_key
  <2>1. submits \in Keys \ {LaunchKey}
    BY DEF Submits, Keys, NoKey, LaunchKey
  <2> QED BY <1>6, <2>1 DEF save_api_key, window, cores
<1>7. CASE gloscope_start_session
  BY <1>7 DEF gloscope_start_session, Configured, disk, window, CorePc
<1>8. CASE await_ready
  BY <1>8 DEF await_ready, Configured, SubmitFails, disk, window, cores
<1>9. ASSUME NEW c \in Cores, CoreStep(c) PROVE TypeOK'
  <2>1. load_api_key(env) \in Keys
    BY DEF load_api_key
  <2>2. CASE \E r \in {"ok", "error", "panic"} : core_load(c, r)
    BY <2>1, <2>2 DEF core_load, fails, disk, window, wizardState, CorePc
  <2>3. CASE build_config(c)
    BY <2>3 DEF build_config, fails, disk, window, wizardState, CorePc
  <2>4. CASE start_app_server(c)
    BY <2>4 DEF start_app_server, fails, disk, window, wizardState, CorePc
  <2>5. CASE manage(c)
    BY <2>5 DEF manage, disk, window, wizardState, CorePc
  <2> QED BY <1>9, <2>2, <2>3, <2>4, <2>5 DEF CoreStep
<1>10. CASE UNCHANGED vars
  BY <1>10 DEF vars, disk, window, wizardState, cores
<1> QED BY <1>1, <1>2, <1>3, <1>4, <1>5, <1>6, <1>7, <1>8, <1>9, <1>10 DEF Next, WizardStep

\* Type correctness: in particular, the keyring never holds the key the
\* process was launched with (save_api_key stores what was typed).
THEOREM TypeCorrect == Spec => []TypeOK
  BY TypeInit, TypeStep, PTL DEF Spec

-----------------------------------------------------------------------------
(* The inductive invariant.                                                *)

\* handleSubmit runs in an open wizard, and from gloscope_start_session on a
\* key is stored.
WizardInv ==
  /\ wizard # "idle" => view = "wizard" /\ submits \in Submits
  /\ wizard \in {"start", "wait"} => keyring # NoKey
  /\ via = "wizard" => view = "chat"

\* A core that lives was started by setup or by the submission under way,
\* and what it loaded is what is stored.
CoresInv ==
  \A c \in Submits :
    /\ core[c] \notin {"none", "failed"} =>
         c = submits /\ (wizard = "wait" \/ via = "wizard") /\ keyring # NoKey
    /\ core[c] \in {"build", "start", "manage", "running"} => cfg[c] = settings /\ key[c] = keyring
    /\ c > submits \/ (c = submits /\ wizard \in {"write", "key", "start"}) => core[c] = "none"

\* A core reports only when a state is managed, and the managed one's runs.
ManagedInv ==
  /\ \A c \in Cores : core[c] = "running" => managed # Nobody
  /\ managed # Nobody => core[managed] = "running"
  /\ via = "wizard" => managed # Nobody

\* The environment holds the key of a core that got past build_config.
EnvInv ==
  (\E c \in Cores : core[c] \in {"start", "manage", "running"}) =>
     \E d \in Cores : core[d] \notin {"none", "load", "build"} /\ env = key[d]

IInv == TypeOK /\ WizardInv /\ CoresInv /\ ManagedInv /\ EnvInv

LEMMA CoreNames == Setup \notin Submits /\ Nobody \notin Cores /\ Setup \in Cores /\ Submits \subseteq Cores
  BY BoundAssumption DEF Setup, Submits, Nobody, Cores

LEMMA InitIInv == Init => IInv
<1> SUFFICES ASSUME Init PROVE IInv
  OBVIOUS
<1>1. WizardInv
  BY DEF Init, Closed, WizardInv
<1>2. \A c \in Cores : core[c] = "none"
  BY DEF Init, Closed
<1>3. CoresInv /\ EnvInv
  BY <1>2, CoreNames DEF CoresInv, EnvInv
<1>4. ManagedInv
  BY <1>2 DEF ManagedInv, Init, Closed
<1> QED BY <1>1, <1>3, <1>4, TypeInit DEF IInv

\* Every core is gone: launching, quitting.
LEMMA FreshProcess ==
  ASSUME \A c \in Cores : core'[c] = "none" \/ (c = Setup /\ core'[c] = "load"),
         managed' = Nobody, wizard' = "idle", via' = "none"
  PROVE  WizardInv' /\ CoresInv' /\ ManagedInv' /\ EnvInv'
<1>1. WizardInv'
  BY DEF WizardInv
<1>2. CoresInv'
  BY CoreNames DEF CoresInv
<1>3. ManagedInv'
  BY DEF ManagedInv
<1>4. EnvInv'
  BY DEF EnvInv
<1> QED BY <1>1, <1>2, <1>3, <1>4

LEMMA CoreStepIInv ==
  ASSUME IInv, NEW c \in Cores, CoreStep(c), TypeOK'
  PROVE  IInv'
<1>1. core[c] \notin {"none", "failed"}
  BY DEF CoreStep, core_load, build_config, start_app_server, manage
<1>2. /\ UNCHANGED <<settings, keyring, wizard, submits, view, via>>
      /\ \A d \in Cores : d # c => core'[d] = core[d] /\ cfg'[d] = cfg[d] /\ key'[d] = key[d]
  BY DEF CoreStep, core_load, build_config, start_app_server, manage, fails, disk, window, wizardState,
     IInv, TypeOK
<1>3. WizardInv'
  BY <1>2 DEF IInv, WizardInv
<1>4. core'[c] \in {"build", "start", "manage", "running", "failed"}
  BY DEF CoreStep, core_load, build_config, start_app_server, manage, fails, IInv, TypeOK
<1>5. c \in Submits => keyring # NoKey
  BY <1>1 DEF IInv, CoresInv
<1>6. (c \in Submits /\ core'[c] # "failed") => cfg'[c] = settings /\ key'[c] = keyring
  <2> SUFFICES ASSUME c \in Submits, core'[c] # "failed" PROVE cfg'[c] = settings /\ key'[c] = keyring
    OBVIOUS
  <2>1. CASE \E r \in {"ok", "error", "panic"} : core_load(c, r)
    BY <2>1, <1>5 DEF core_load, fails, load_api_key, IInv, TypeOK
  <2>2. CASE build_config(c)
    BY <2>2 DEF build_config, IInv, CoresInv
  <2>3. CASE start_app_server(c)
    BY <2>3 DEF start_app_server, IInv, CoresInv
  <2>4. CASE manage(c)
    BY <2>4 DEF manage, IInv, CoresInv
  <2> QED BY <2>1, <2>2, <2>3, <2>4 DEF CoreStep
<1>7. CoresInv'
  <2> SUFFICES ASSUME NEW d \in Submits
               PROVE  /\ core'[d] \notin {"none", "failed"} =>
                           d = submits' /\ (wizard' = "wait" \/ via' = "wizard") /\ keyring' # NoKey
                      /\ core'[d] \in {"build", "start", "manage", "running"} =>
                           cfg'[d] = settings' /\ key'[d] = keyring'
                      /\ d > submits' \/ (d = submits' /\ wizard' \in {"write", "key", "start"}) =>
                           core'[d] = "none"
    BY DEF CoresInv
  <2>1. CASE d = c
    BY <2>1, <1>1, <1>2, <1>4, <1>6 DEF IInv, CoresInv
  <2>2. CASE d # c
    BY <2>2, <1>2, CoreNames DEF IInv, CoresInv
  <2> QED BY <2>1, <2>2
<1>8. ManagedInv'
  <2>1. CASE manage(c)
    BY <2>1, <1>2, CoreNames DEF manage, IInv, ManagedInv, TypeOK
  <2>2. CASE ~manage(c)
    <3>1. managed' = managed /\ core'[c] # "running" /\ core[c] # "running"
      BY <2>2 DEF CoreStep, core_load, build_config, start_app_server, fails, IInv, TypeOK
    <3> QED BY <3>1, <1>2, CoreNames DEF IInv, ManagedInv, TypeOK
  <2> QED BY <2>1, <2>2
<1>9. EnvInv'
  <2>1. CASE build_config(c)
    <3>1. env' = key'[c] /\ core'[c] \notin {"none", "load", "build"}
      BY <2>1 DEF build_config, fails, IInv, TypeOK
    <3> QED BY <3>1 DEF EnvInv
  <2>2. CASE ~build_config(c)
    <3>1. env' = env
      BY <2>2 DEF CoreStep, core_load, start_app_server, manage
    <3>2. CASE core[c] = "load"
      <4>1. core'[c] \in {"build", "failed"}
        BY <3>2, <2>2 DEF CoreStep, core_load, start_app_server, manage, fails, IInv, TypeOK
      <4> QED BY <4>1, <3>1, <3>2, <1>2 DEF IInv, EnvInv
    <3>3. CASE core[c] # "load"
      <4>1. core[c] \in {"start", "manage"} /\ key'[c] = key[c]
            /\ core'[c] \notin {"none", "load", "build"}
        BY <3>3, <2>2, <1>4 DEF CoreStep, core_load, start_app_server, manage, fails, IInv, TypeOK
      <4>2. PICK d \in Cores : core[d] \notin {"none", "load", "build"} /\ env = key[d]
        BY <4>1 DEF IInv, EnvInv
      <4>3. core'[d] \notin {"none", "load", "build"} /\ env' = key'[d]
        BY <4>1, <4>2, <3>1, <1>2
      <4> QED BY <4>3 DEF EnvInv
    <3> QED BY <3>2, <3>3
  <2> QED BY <2>1, <2>2
<1> QED BY <1>3, <1>7, <1>8, <1>9 DEF IInv

LEMMA WizardStepIInv ==
  ASSUME IInv, save_settings \/ write_settings \/ save_api_key, TypeOK'
  PROVE  IInv'
<1>1. /\ view = "wizard" /\ via # "wizard"
      /\ wizard # "wait"
      /\ UNCHANGED <<env, view, via, core, cfg, key, managed>>
  BY DEF save_settings, write_settings, save_api_key, window, cores, IInv, WizardInv
<1>2. submits' \in Submits /\ submits' >= submits /\ (submits' = submits \/ wizard = "idle")
  BY DEF save_settings, write_settings, save_api_key, IInv, WizardInv, TypeOK, Submits
<1>3. /\ wizard' # "wait"
      /\ wizard' = "start" => keyring' # NoKey
  <2>1. submits \in Submits => submits # NoKey
    BY DEF Submits, NoKey
  <2> QED BY <2>1 DEF save_settings, write_settings, save_api_key, IInv, WizardInv
<1>4. WizardInv'
  BY <1>1, <1>2, <1>3 DEF WizardInv
<1>5. \A d \in Submits : core[d] \in {"none", "failed"}
  BY <1>1 DEF IInv, CoresInv
<1>6. \A d \in Submits :
        d > submits' \/ (d = submits' /\ wizard' \in {"write", "key", "start"}) =>
          d > submits \/ (d = submits /\ wizard \in {"write", "key", "start"})
  BY DEF save_settings, write_settings, save_api_key, IInv, TypeOK, Submits
<1>7. CoresInv'
  BY <1>1, <1>5, <1>6 DEF CoresInv, IInv
<1>8. ManagedInv' /\ EnvInv'
  BY <1>1 DEF IInv, ManagedInv, EnvInv
<1> QED BY <1>4, <1>7, <1>8 DEF IInv

LEMMA StartStepIInv ==
  ASSUME IInv, gloscope_start_session \/ await_ready, TypeOK'
  PROVE  IInv'
<1>1. /\ view = "wizard" /\ via # "wizard" /\ submits \in Submits /\ keyring # NoKey
      /\ UNCHANGED <<settings, keyring, env, submits, cfg, key, managed>>
  BY DEF gloscope_start_session, await_ready, cores, disk, IInv, WizardInv
<1>2. CASE gloscope_start_session /\ managed = Nobody
  <2>1. /\ wizard = "start" /\ wizard' = "wait" /\ view' = view /\ via' = via
        /\ core'[submits] = "load"
        /\ \A d \in Cores : d # submits => core'[d] = core[d]
    BY <1>2, <1>1, CoreNames DEF gloscope_start_session, window, IInv, TypeOK
  <2>2. core[submits] = "none"
    BY <1>1, <2>1 DEF IInv, CoresInv
  <2>3. WizardInv'
    BY <1>1, <2>1 DEF WizardInv
  <2>4. CoresInv'
    BY <1>1, <2>1, CoreNames DEF IInv, CoresInv, TypeOK, Submits
  <2>5. ManagedInv'
    BY <1>1, <1>2, <2>1, CoreNames DEF IInv, ManagedInv
  <2>6. EnvInv'
    <3> SUFFICES ASSUME NEW d \in Cores, core'[d] \in {"start", "manage", "running"}
                 PROVE  \E e \in Cores : core'[e] \notin {"none", "load", "build"} /\ env' = key'[e]
      BY DEF EnvInv
    <3>1. core[d] \in {"start", "manage", "running"}
      BY <2>1
    <3>2. PICK e \in Cores : core[e] \notin {"none", "load", "build"} /\ env = key[e]
      BY <3>1 DEF IInv, EnvInv
    <3> QED BY <3>2, <2>1, <2>2, <1>1
  <2> QED BY <2>3, <2>4, <2>5, <2>6 DEF IInv
<1>3. CASE (gloscope_start_session /\ managed # Nobody) \/ (await_ready /\ Configured)
  <2>1. /\ wizard' = "idle" /\ view' = "chat" /\ via' = "wizard"
        /\ managed # Nobody /\ core' = core
    BY <1>1, <1>3, CoreNames DEF gloscope_start_session, await_ready, Configured, SubmitFails, cores, window,
       IInv, ManagedInv
  <2>2. WizardInv'
    BY <2>1 DEF WizardInv
  <2>3. CoresInv'
    BY <1>1, <2>1 DEF IInv, CoresInv
  <2>4. ManagedInv' /\ EnvInv'
    BY <1>1, <2>1 DEF IInv, ManagedInv, EnvInv
  <2> QED BY <2>2, <2>3, <2>4 DEF IInv
<1>4. CASE await_ready /\ ~Configured
  <2>1. wizard' = "idle" /\ view' = view /\ via' = via /\ core' = core /\ core[submits] = "failed"
    BY <1>4 DEF await_ready, SubmitFails, window, cores
  <2>2. WizardInv'
    BY <2>1, <1>1 DEF WizardInv
  <2>3. CoresInv'
    BY <1>1, <2>1 DEF IInv, CoresInv
  <2>4. ManagedInv' /\ EnvInv'
    BY <1>1, <2>1 DEF IInv, ManagedInv, EnvInv
  <2> QED BY <2>2, <2>3, <2>4 DEF IInv
<1> QED BY <1>2, <1>3, <1>4

LEMMA StepIInv == IInv /\ [Next]_vars => IInv'
<1> SUFFICES ASSUME IInv, [Next]_vars PROVE IInv'
  OBVIOUS
<1>t. TypeOK'
  BY TypeStep DEF IInv
<1>1. CASE \E k \in LaunchKeys, r \in {"ok", "error", "panic"} : setup(k, r)
  BY <1>1, <1>t, FreshProcess DEF setup, IInv
<1>2. CASE quit
  BY <1>2, <1>t, FreshProcess DEF quit, IInv
<1>3. CASE \E r \in {"ok", "error"} : gloscope_is_configured(r)
  <2>1. /\ view = "checking" /\ wizard = "idle" /\ via # "wizard" /\ via' # "wizard"
        /\ UNCHANGED <<settings, keyring, env, wizard, submits, core, cfg, key, managed>>
    BY <1>3 DEF gloscope_is_configured, disk, wizardState, cores, IInv, WizardInv
  <2>2. WizardInv'
    BY <2>1 DEF WizardInv
  <2>3. CoresInv' /\ ManagedInv' /\ EnvInv'
    BY <2>1 DEF IInv, CoresInv, ManagedInv, EnvInv
  <2> QED BY <2>2, <2>3, <1>t DEF IInv
<1>4. CASE save_settings \/ write_settings \/ save_api_key
  BY <1>4, <1>t, WizardStepIInv
<1>5. CASE gloscope_start_session \/ await_ready
  BY <1>5, <1>t, StartStepIInv
<1>6. CASE \E c \in Cores : CoreStep(c)
  BY <1>6, <1>t, CoreStepIInv
<1>7. CASE UNCHANGED vars
  BY <1>7, <1>t DEF vars, disk, window, wizardState, cores, IInv, WizardInv, CoresInv, ManagedInv, EnvInv
<1> QED BY <1>1, <1>2, <1>3, <1>4, <1>5, <1>6, <1>7 DEF Next, WizardStep

\* A wizard that closes leaves a managed session behind: manage comes before
\* the answer on ready_tx, whatever other cores do.
THEOREM SessionBehindWizardHolds == Spec => []SessionBehindWizard
<1>1. IInv => SessionBehindWizard
  BY DEF IInv, ManagedInv, SessionBehindWizard
<1> QED BY InitIInv, StepIInv, <1>1, PTL DEF Spec

\* That session is setup's, or runs with the settings and the key the wizard
\* has just saved: a core loads them only after they were written.
THEOREM SessionIsWhatWasSavedHolds == Spec => []SessionIsWhatWasSaved
<1>1. IInv => SessionIsWhatWasSaved
  BY CoreNames DEF IInv, ManagedInv, CoresInv, SessionIsWhatWasSaved, TypeOK, Cores
<1> QED BY InitIInv, StepIInv, <1>1, PTL DEF Spec

\* The environment holds the session's key or that of another core that got
\* past build_config.
THEOREM EnvKeyIsSessionsHolds == Spec => []EnvKeyIsSessions
<1>1. IInv => EnvKeyIsSessions
  <2> SUFFICES ASSUME IInv, managed # Nobody PROVE EnvKeyIsSessions
    BY DEF EnvKeyIsSessions
  <2>1. managed \in Cores /\ core[managed] = "running"
    BY DEF IInv, TypeOK, ManagedInv
  <2>2. PICK d \in Cores : core[d] \notin {"none", "load", "build"} /\ env = key[d]
    BY <2>1 DEF IInv, EnvInv
  <2> QED BY <2>2 DEF EnvKeyIsSessions
<1> QED BY InitIInv, StepIInv, <1>1, PTL DEF Spec
=============================================================================
