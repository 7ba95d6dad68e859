------------------------------ MODULE PatchGate ------------------------------
(***************************************************************************)
(* An apply_patch call from its admission to its last write: the           *)
(* parallel-execution lock, the GloScope branch gate in front of every     *)
(* patch (tools/git_safety.rs), the safety assessment, the approval, the   *)
(* first attempt and the retry without a sandbox (tools/orchestrator.rs).  *)
(*                                                                         *)
(* The calls of a turn share one work tree.  Calls of the apply_patch tool *)
(* take the lock for writing; a patch found inside a shell command takes   *)
(* it for reading and runs beside others (Parallel).  The user, an IDE or  *)
(* another shell command may switch branches at any moment.                *)
(*                                                                         *)
(* A branch name is the sequence of its path segments, because the lookup  *)
(* of the default branch cuts names at a slash.                            *)
(***************************************************************************)
EXTENDS Integers, Sequences, FiniteSets

CONSTANTS Calls,         \* tool calls of the turn that carry a patch
          Parallel,      \* those intercepted from shell_command
          LocalBranches, \* branches that exist at the start
          StartHeads,    \* what may be checked out at the start
          Default,       \* the remote's default branch
          Remote,        \* how git reports it: "symref", "show" or "none"
          Settings,      \* approval and sandbox settings a turn may have
          Insides,       \* whether a patch may stay in the writable roots
          Grants,        \* whether its permissions may be granted already
          Timeouts,      \* whether a git query may exceed GIT_COMMAND_TIMEOUT
          GitErrors,     \* whether git checkout may fail by itself
          MaxClock,      \* bound: seconds that pass
          MaxCheckouts   \* bound: branch switches by others

\* git prints no branch name for a detached HEAD.
Detached == <<>>
Main == <<"main">>
Master == <<"master">>

\* Branches the gate is there for: main, master and the remote's default.
Protected(b) == b \in {Main, Master} \/ (b = Default /\ Remote # "none")

FixNames == {<<"gloscope", t>> : t \in 0..MaxClock}
Branches == LocalBranches \cup FixNames

Policies == {"never", "on_request", "unless_trusted", "granular"}

\* The approval policy and the permission profile: whether it is managed (or
\* disabled or external), lets the whole disk be written, confines the
\* network or leaves it to a proxy, denies reads; and whether the host has
\* a sandbox.  Only a managed profile narrows the file system.
SettingRecords ==
  {r \in [policy : Policies, managed : BOOLEAN, fullDisk : BOOLEAN, netConfined : BOOLEAN,
          deniedReads : BOOLEAN, platform : BOOLEAN] :
     r.managed \/ (r.fullDisk /\ ~r.deniedReads)}

ASSUME CallAssumption == Parallel \subseteq Calls
ASSUME BoundAssumption == MaxClock \in Nat /\ MaxCheckouts \in Nat
ASSUME FlagAssumption == Timeouts \in BOOLEAN /\ GitErrors \in BOOLEAN
ASSUME PatchAssumption == Insides \subseteq BOOLEAN /\ Grants \subseteq BOOLEAN
ASSUME SettingAssumption == Settings \subseteq SettingRecords
ASSUME BranchAssumption ==
  /\ StartHeads \subseteq LocalBranches \cup {Detached}
  /\ Default \notin FixNames \cup {Detached}
  /\ Remote \in {"symref", "show", "none"}

VARIABLES
  setting,     \* the turn's settings
  repo,        \* the working directory is inside a git repository
  inside,      \* per call: the patch stays within the writable roots
  preapproved, \* per call: its permissions were granted earlier in the turn
  head,        \* the branch checked out
  branches,    \* existing branches
  clock,       \* unix_timestamp()
  checkouts,   \* branch switches made by others so far
  pc,          \* where each call is
  seen,        \* the branch each call read
  consent,     \* on what ground each call may write
  created,     \* the branch each call created (Detached: none)
  writes       \* files written so far, with the circumstances

\* History: calls that passed the gate before others switched branches, and
\* calls let through on a wrong or missing answer of git.
VARIABLES stale, blind

turnVars == <<setting, repo, inside, preapproved>>
vars == <<turnVars, head, branches, clock, checkouts, pc, seen, consent, created, writes,
          stale, blind>>

Terminal == {"refused", "rejected", "ok", "failed", "aborted"}
PastGate == {"gated", "approval", "attempt", "retry_approval", "retry"}
Active == {"gate", "default", "checkout"} \cup PastGate

Init ==
  /\ setting \in Settings
  /\ repo \in BOOLEAN
  /\ inside \in [Calls -> IF setting.fullDisk THEN {TRUE} ELSE Insides]
  /\ preapproved \in [Calls -> Grants]
  /\ head \in StartHeads
  /\ branches = LocalBranches
  /\ clock = 0 /\ checkouts = 0
  /\ pc = [c \in Calls |-> "queued"]
  /\ seen = [c \in Calls |-> Detached]
  /\ consent = [c \in Calls |-> "none"]
  /\ created = [c \in Calls |-> Detached]
  /\ writes = {} /\ stale = {} /\ blind = {}

Goto(c, l) == pc' = [pc EXCEPT ![c] = l]
-----------------------------------------------------------------------------
(* Admission: tokio's RwLock.                                              *)

Running == {c \in Calls : pc[c] \in Active}

\* Seeded fault: the lock is taken for reading by every call.
all_read(c) == TRUE

\* Seeded fault: a call that has ended keeps its guard.
guard_leaked(c) ==
  LET holders == {d \in Calls : pc[d] # "queued"}
  IN  IF c \in Parallel THEN holders \subseteq Parallel ELSE holders = {}

\* lock.read() for the parallel tools, lock.write() for the others.
lock_free(c) == IF c \in Parallel THEN Running \subseteq Parallel ELSE Running = {}

admit(c) ==
  /\ pc[c] = "queued"
  /\ lock_free(c)
  /\ Goto(c, "gate")
  /\ UNCHANGED <<turnVars, head, branches, clock, checkouts, seen, consent, created, writes,
                 stale, blind>>
-----------------------------------------------------------------------------
(* ensure_safe_branch_for_patch.                                           *)

\* No repository, no rollback: the patch is refused.
get_git_repo_root(c) ==
  /\ pc[c] = "gate" /\ ~repo
  /\ Goto(c, "refused")
  /\ UNCHANGED <<turnVars, head, branches, clock, checkouts, seen, consent, created, writes,
                 stale, blind>>

\* `git branch --show-current`.  No name (a detached HEAD, or a query that
\* timed out) lets the patch through.
current_branch_name(c) ==
  /\ pc[c] = "gate" /\ repo
  /\ \/ /\ head # Detached
        /\ seen' = [seen EXCEPT ![c] = head]
        /\ Goto(c, IF head \in {Main, Master} THEN "checkout" ELSE "default")
        /\ UNCHANGED blind
     \/ /\ head = Detached \/ Timeouts
        /\ Goto(c, "gated")
        /\ blind' = IF head = Detached THEN blind ELSE blind \cup {c}
        /\ UNCHANGED seen
  /\ UNCHANGED <<turnVars, head, branches, clock, checkouts, consent, created, writes, stale>>

\* get_default_branch_local; Detached stands for None.
get_default_branch_local ==
  IF Main \in branches THEN Main ELSE IF Master \in branches THEN Master ELSE Detached

\* rsplit_once('/') on refs/remotes/origin/<name>: only the last segment.
rsplit_name(name) == <<name[Len(name)]>>

\* What get_default_branch may return: the symbolic ref, else `remote show`,
\* else a local main or master; a query that times out falls to the next.
get_default_branch ==
  (IF Remote = "symref" THEN {rsplit_name(Default)} ELSE {})
  \cup (IF Remote = "show" \/ (Remote = "symref" /\ Timeouts) THEN {Default} ELSE {})
  \cup (IF Remote = "none" \/ Timeouts THEN {get_default_branch_local} ELSE {})
  \cup (IF Timeouts /\ Master \in branches THEN {Master} ELSE {})
  \cup (IF Timeouts THEN {Detached} ELSE {})

\* Seeded fault: only the literal names are protected.
literal_names_only(c, default) == FALSE

\* The comparison of is_protected_branch once main and master are ruled out.
is_default_branch(c, default) == seen[c] = default

is_protected_branch(c) ==
  /\ pc[c] = "default"
  /\ \E default \in get_default_branch :
       /\ Goto(c, IF is_default_branch(c, default) THEN "checkout" ELSE "gated")
       /\ blind' = IF default # seen[c] /\ Protected(seen[c]) THEN blind \cup {c} ELSE blind
  /\ UNCHANGED <<turnVars, head, branches, clock, checkouts, seen, consent, created, writes,
                 stale>>

unix_timestamp == clock
new_branch == <<"gloscope", unix_timestamp>>

\* `git checkout -b` refuses a name that exists.
branch_creatable(b) == b \notin branches

checkout_new_branch(c) ==
  /\ pc[c] = "checkout"
  /\ \/ /\ branch_creatable(new_branch)
        /\ branches' = branches \cup {new_branch}
        /\ head' = new_branch
        /\ created' = [created EXCEPT ![c] = new_branch]
        /\ stale' = stale \ {c}
        /\ Goto(c, "gated")
     \/ /\ ~branch_creatable(new_branch) \/ GitErrors
        /\ Goto(c, "refused")
        /\ UNCHANGED <<branches, head, created, stale>>
  /\ UNCHANGED <<turnVars, clock, checkouts, seen, consent, writes, blind>>
-----------------------------------------------------------------------------
(* prepare_apply_patch and the orchestrator.                               *)

rejects_sandbox_approval == setting.policy \in {"never", "granular"}

assess_patch_safety(c) ==
  IF setting.policy = "unless_trusted" THEN "ask"
  ELSE IF inside[c] /\ (setting.managed => setting.platform) THEN "auto"
  ELSE IF rejects_sandbox_approval THEN "reject" ELSE "ask"

prepare_apply_patch(c) ==
  /\ pc[c] = "gated"
  /\ \/ /\ assess_patch_safety(c) = "auto"
        /\ consent' = [consent EXCEPT ![c] = "auto"]
        /\ Goto(c, "attempt")
     \/ /\ assess_patch_safety(c) = "ask"
        /\ Goto(c, "approval")
        /\ UNCHANGED consent
     \/ /\ assess_patch_safety(c) = "reject"
        /\ Goto(c, "rejected")
        /\ UNCHANGED consent
  /\ UNCHANGED <<turnVars, head, branches, clock, checkouts, seen, created, writes, stale, blind>>

\* A preapproved patch is not shown to anybody.
preapproved_shortcut(c) ==
  /\ pc[c] = "approval" /\ preapproved[c]
  /\ consent' = [consent EXCEPT ![c] = "preapproved"]
  /\ Goto(c, "attempt")
  /\ UNCHANGED <<turnVars, head, branches, clock, checkouts, seen, created, writes, stale, blind>>

\* The user's decision, on the first request or on the retry request; a
\* request that is dropped or fails on its way counts as a refusal.
request_patch_approval(c, approved) ==
  /\ pc[c] = "retry_approval" \/ (pc[c] = "approval" /\ ~preapproved[c])
  /\ \/ /\ approved
        /\ consent' = [consent EXCEPT ![c] = "user"]
        /\ Goto(c, IF pc[c] = "approval" THEN "attempt" ELSE "retry")
     \/ /\ ~approved
        /\ Goto(c, "rejected")
        /\ UNCHANGED consent
  /\ UNCHANGED <<turnVars, head, branches, clock, checkouts, seen, created, writes, stale, blind>>

\* A profile that leaves both disk and network open asks for no sandbox.
should_sandbox == setting.netConfined \/ ~setting.fullDisk

\* select_initial: the sandbox asked for, where the host has one.
initial_sandbox == should_sandbox /\ setting.platform

Boxed(c) == pc[c] = "attempt" /\ initial_sandbox

\* codex_apply_patch::apply_patch writes one file.  Files are written one
\* by one, so an attempt may be anywhere among them when something happens.
apply_hunk(c) ==
  /\ pc[c] \in {"attempt", "retry"}
  /\ writes' = writes \cup {[call |-> c, on |-> head, boxed |-> Boxed(c), consent |-> consent[c]]}
  /\ UNCHANGED <<turnVars, head, branches, clock, checkouts, pc, seen, consent, created,
                 stale, blind>>

\* The attempt ends, all files written or stopped by an ordinary error.
attempt_returns(c) ==
  /\ pc[c] \in {"attempt", "retry"}
  /\ \E result \in {"ok", "failed"} : Goto(c, result)
  /\ UNCHANGED <<turnVars, head, branches, clock, checkouts, seen, consent, created, writes,
                 stale, blind>>

wants_no_sandbox_approval == setting.policy \in {"on_request", "unless_trusted"}

unsandboxed_execution_allowed == ~setting.deniedReads

\* Seeded fault: nobody is asked before the retry.
never_ask_again(c) == TRUE

\* should_bypass_approval: a call approved before its first attempt.
should_bypass_approval(c) == consent[c] \in {"preapproved", "user"}

\* The sandbox denied the first attempt: retry outside it, or give up.
sandbox_denied(c) ==
  /\ pc[c] = "attempt" /\ initial_sandbox
  /\ Goto(c, IF ~(wants_no_sandbox_approval /\ unsandboxed_execution_allowed) THEN "failed"
             ELSE IF should_bypass_approval(c) THEN "retry" ELSE "retry_approval")
  /\ UNCHANGED <<turnVars, head, branches, clock, checkouts, seen, consent, created, writes,
                 stale, blind>>

\* The turn is interrupted: the task of an apply_patch call is aborted at
\* its next await (there is none between the last query of the gate and the
\* checkout).  A shell command is left to finish.
cancel(c) ==
  /\ c \notin Parallel
  /\ pc[c] \in (Active \ {"checkout"}) \cup {"queued"}
  /\ Goto(c, "aborted")
  /\ UNCHANGED <<turnVars, head, branches, clock, checkouts, seen, consent, created, writes,
                 stale, blind>>
-----------------------------------------------------------------------------
(* The environment.                                                        *)

\* Somebody else checks out an existing branch.
outside_checkout(b) ==
  /\ repo /\ checkouts < MaxCheckouts
  /\ b \in branches \ {head}
  /\ checkouts' = checkouts + 1
  /\ head' = b
  /\ stale' = stale \cup {c \in Calls : pc[c] \in Active \ {"gate"}}
  /\ UNCHANGED <<turnVars, branches, clock, pc, seen, consent, created, writes, blind>>

tick ==
  /\ clock < MaxClock
  /\ clock' = clock + 1
  /\ UNCHANGED <<turnVars, head, branches, checkouts, pc, seen, consent, created, writes,
                 stale, blind>>

\* What call c does by itself, and what the user does for it.
CallStep(c) ==
  \/ get_git_repo_root(c) \/ current_branch_name(c)
  \/ is_protected_branch(c) \/ checkout_new_branch(c)
  \/ prepare_apply_patch(c) \/ preapproved_shortcut(c)
  \/ attempt_returns(c) \/ sandbox_denied(c)

CallNext(c) ==
  \/ admit(c)
  \/ CallStep(c)
  \/ apply_hunk(c)
  \/ cancel(c)
  \/ \E approved \in BOOLEAN : request_patch_approval(c, approved)

Next ==
  \/ \E c \in Calls : CallNext(c)
  \/ \E b \in Branches : outside_checkout(b)
  \/ tick

Spec == Init /\ [][Next]_vars

\* Tasks are polled and the lock is handed on; the user may never answer.
Fairness == \A c \in Calls : WF_vars(admit(c)) /\ WF_vars(CallStep(c))
FairSpec == Spec /\ Fairness
-----------------------------------------------------------------------------
WriteRecords == [call : Calls, on : Branches \cup {Detached}, boxed : BOOLEAN,
                 consent : {"auto", "preapproved", "user"}]

(***************************************************************************)
(* The type invariant.  Its substance: whatever is checked out or created  *)
(* is a branch of the start or a gloscope branch of some second that has   *)
(* passed, and nothing is ever written without a ground for it.            *)
(***************************************************************************)
TypeOK ==
  /\ setting \in Settings /\ repo \in BOOLEAN
  /\ inside \in [Calls -> BOOLEAN] /\ preapproved \in [Calls -> BOOLEAN]
  /\ head \in Branches \cup {Detached}
  /\ branches \subseteq Branches
  /\ clock \in 0..MaxClock /\ checkouts \in 0..MaxCheckouts
  /\ pc \in [Calls -> Active \cup Terminal \cup {"queued"}]
  /\ seen \in [Calls -> Branches \cup {Detached}]
  /\ consent \in [Calls -> {"none", "auto", "preapproved", "user"}]
  /\ created \in [Calls -> FixNames \cup {Detached}]
  /\ writes \subseteq WriteRecords
  /\ stale \subseteq Calls /\ blind \subseteq Calls

(***************************************************************************)
(* The gate's promise with everything that can break it named: a patch is  *)
(* written to a protected branch only if others switched branches after    *)
(* the gate read its own, or git gave the gate a wrong or no answer.       *)
(* Sibling patches creating their own branches never cause it.             *)
(***************************************************************************)
ProtectedWriteHasCause ==
  \A w \in writes : Protected(w.on) => w.call \in stale \cup blind

\* The files of one apply_patch call all land on one branch, and when the
\* gate created a branch for the call it is that one: the write lock keeps
\* the other patches' gates out.  Only somebody outside the turn, switching
\* branches under the call, can spread its files (stale).
OnePatchOneBranch ==
  \A w \in writes :
    w.call \notin Parallel \cup stale =>
      /\ \A v \in writes : v.call = w.call => v.on = w.on
      /\ created[w.call] # Detached => w.on = created[w.call]

\* Two calls never share a branch made by the gate: whatever the user
\* rolls back by deleting one is the work of one call or of later ones.
BranchPerCall ==
  \A c, d \in Calls : c # d /\ created[c] # Detached => created[c] # created[d]

(***************************************************************************)
(* Under a managed profile that confines the disk or the network, only     *)
(* what the user accepted, or granted earlier, is written outside the      *)
(* sandbox; where approvals are off nothing is, and no patch that leaves   *)
(* the writable roots writes at all.  A managed profile that opens both    *)
(* asks for no sandbox, and its patches are written outside one on the     *)
(* automatic approval of assess_patch_safety.                              *)
(***************************************************************************)
WritesAreConsented ==
  setting.managed =>
    \A w \in writes :
      /\ should_sandbox /\ ~w.boxed => w.consent \in {"preapproved", "user"}
      /\ should_sandbox /\ rejects_sandbox_approval => w.boxed
      /\ rejects_sandbox_approval => inside[w.call]

\* Doc of unsandboxed_execution_allowed (sandboxing.rs:267-272): denied
\* reads exist only inside the sandbox, so no attempt of such a turn leaves
\* it, whatever was approved.
DeniedReadsKeepSandbox ==
  initial_sandbox /\ setting.deniedReads => \A w \in writes : w.boxed

\* A queued patch gets its turn, unless one that holds the lock waits for
\* an answer the user never gives.
QueuedIsAdmitted ==
  \A c \in Calls :
    (pc[c] = "queued") ~> (\/ pc[c] # "queued"
                           \/ \E d \in Calls : pc[d] \in {"approval", "retry_approval"})
=============================================================================
