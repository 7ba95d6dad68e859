------------------------ MODULE MemoryConsolidation ------------------------
(***************************************************************************)
(* Phase 2 of the memory pipeline: under one global lease a session syncs  *)
(* the selected memories into the memories directory, lets an agent fold   *)
(* the difference to the last git baseline into the consolidated           *)
(* artifacts, and moves the baseline: codex-rs/memories/write/src/phase2.rs*)
(* and workspace.rs, codex-rs/state/src/runtime/memories.rs.  The memories *)
(* themselves arrive from phase 1 (MemoryExtraction), threads are polluted *)
(* and deleted, and the whole memory can be reset.                         *)
(*                                                                         *)
(* A step is one transaction or one pass over the directory.  The content  *)
(* of the directory is, per thread, the version its input files hold and   *)
(* the version the artifacts reflect; 0 stands for "nothing of it".        *)
(* "The row carries my token" is: the row's owner is this session, which   *)
(* holds no older claim (tokens are fresh UUIDs).                          *)
(***************************************************************************)
EXTENDS Naturals, FiniteSets

CONSTANTS
    Threads,     \* threads with a memory to consolidate
    Sessions,    \* root sessions that reach phase 2
    NoSession,
    MaxRaw,      \* max_raw_memories_for_consolidation
    MaxVersion,  \* bound: versions of a thread's memory
    MaxFaults,   \* bound: crashes, failed steps, agents that err or hang
    MaxActs      \* bound: what phase 1 and the user do

ASSUME RawAssumption == MaxRaw \in Nat \ {0}
ASSUME BoundAssumption ==
    MaxVersion \in Nat \ {0} /\ MaxFaults \in Nat /\ MaxActs \in Nat
ASSUME SessionAssumption == NoSession \notin Sessions

VARIABLES
    row,       \* threads.memory_mode of a thread; "gone": no row
    deleting,  \* threads whose deletion has cleared the memory, not the row
    mem,       \* stage1_outputs.source_updated_at; 0: no row
    sel,       \* selected_for_phase2_source_updated_at; 0: not selected
    job,       \* the memory_consolidate_global row of the jobs table
    pc,        \* where a session is in phase 2
    snap,      \* the memories a session has selected
    files,     \* versions in rollout_summaries/ and raw_memories.md
    digest,    \* versions MEMORY.md and the other artifacts reflect
    valid,     \* validate_consolidation_artifacts would succeed
    git,       \* the baseline: whether there is one, and its content
    orphans,   \* sessions whose agent outlived its shutdown
    clearing,  \* a memory reset has cleared the rows, not the directory
    faults,    \* faults so far
    acts,      \* acts so far
    lapse,     \* history: a lease ran out, or a memory reset came, under
               \* somebody at work
    halved     \* history: a memory reset stopped with the baseline gone and
               \* the inputs and the artifacts that are left in disagreement

store == <<row, deleting, mem, sel>>
dir == <<files, digest, valid, git>>
history == <<lapse, halved>>
vars == <<store, job, pc, snap, dir, orphans, clearing, faults, acts, history>>

Version == 0 .. MaxVersion
Content == [Threads -> Version]
Nothing == [t \in Threads |-> 0]
Job == [status : {"none", "pending", "running", "done", "error"},
        owner : Sessions \cup {NoSession},
        lease : BOOLEAN, backoff : BOOLEAN, cooldown : BOOLEAN]
NoJob == [status |-> "none", owner |-> NoSession, lease |-> FALSE,
          backoff |-> FALSE, cooldown |-> FALSE]
NoGit == [set |-> FALSE, files |-> Nothing, digest |-> Nothing]

Init ==
    /\ row = [t \in Threads |-> "enabled"]
    /\ deleting = {}
    /\ mem = [t \in Threads |-> 1]
    /\ sel = Nothing
    /\ job = NoJob
    /\ pc = [w \in Sessions |-> "idle"]
    /\ snap = [w \in Sessions |-> Nothing]
    /\ files = Nothing
    /\ digest = Nothing
    /\ valid = FALSE
    /\ git = NoGit
    /\ orphans = {}
    /\ clearing = FALSE
    /\ faults = 0
    /\ acts = 0
    /\ lapse = FALSE
    /\ halved = FALSE

-----------------------------------------------------------------------------
(* The job row.                                                            *)

live == job.status = "running" /\ job.lease
owns(w) == job.status = "running" /\ job.owner = w
at_work(w) == pc[w] # "idle"

\* try_claim_global_phase2_job: the three Skipped outcomes are its guard.
claimable == ~job.backoff /\ ~live /\ ~job.cooldown

claimed_row(w) == [job EXCEPT !.status = "running", !.owner = w,
                              !.lease = TRUE, !.cooldown = FALSE]

\* Only the owner's row is finished; mark_global_phase2_job_failed_if_unowned
\* would also take a running row without a token, which no claim leaves.
\* Seeded fault: the row is failed whoever holds it.
fails_anyone(w) == IF job.status = "running"
                   THEN [job EXCEPT !.status = "error", !.lease = FALSE,
                                    !.backoff = TRUE]
                   ELSE job
failed_row(w) == IF owns(w) THEN [job EXCEPT !.status = "error",
                                   !.lease = FALSE, !.backoff = TRUE]
                 ELSE job
done_row == [job EXCEPT !.status = "done", !.lease = FALSE, !.cooldown = TRUE]

\* enqueue_global_consolidation: a running row stays running, any other is
\* pending and loses its back-off, not its cooldown.
enqueued(j) == IF j.status = "running" THEN j
               ELSE [j EXCEPT !.status = "pending", !.backoff = FALSE]

\* mark_global_phase2_job_succeeded marks the snapshots that are still the
\* stored ones, and no others.
selected_by(w) == [t \in Threads |->
    IF snap[w][t] > 0 /\ mem[t] = snap[w][t] THEN snap[w][t] ELSE 0]

-----------------------------------------------------------------------------
(* The directory.                                                          *)

here == [set |-> TRUE, files |-> files, digest |-> digest]
\* Seeded fault: only the input files are compared.
inputs_only == git.files # files
has_changes == git.files # files \/ git.digest # digest

\* Some files written, some not yet.
torn(old, new) == {c \in Content : \A t \in Threads : c[t] \in {old[t], new[t]}}

-----------------------------------------------------------------------------
(* A session in phase 2, run() and agent::handle().                        *)

Fault == faults < MaxFaults /\ faults' = faults + 1
Goto(w, step) == pc' = [pc EXCEPT ![w] = step]
GiveUp(w) == Goto(w, "idle") /\ snap' = [snap EXCEPT ![w] = Nothing]
\* job::failed, the end of every error path.
Failed(w) == GiveUp(w) /\ job' = failed_row(w)

Claim(w) ==
    /\ pc[w] = "idle" /\ claimable
    /\ job' = claimed_row(w)
    /\ Goto(w, "claimed")
    /\ lapse' = (lapse \/ clearing)
    /\ UNCHANGED <<store, snap, dir, orphans, clearing, faults, acts, halved>>

\* ensure_git_baseline_repository: a missing baseline is made of what is there.
ensured == IF git.set THEN git ELSE here

\* prepare_memory_workspace
Prepare(w) ==
    /\ pc[w] = "claimed"
    /\ git' = ensured
    /\ Goto(w, "prepared")
    /\ UNCHANGED <<store, job, snap, files, digest, valid, orphans, clearing,
                   faults, acts, history>>

\* get_phase2_input_selection: usage and age decide which enabled threads'
\* memories are the top ones.
\* Seeded fault: the thread's memory mode is not looked at.
any_mode(t) == mem[t] > 0
eligible(t) == mem[t] > 0 /\ row[t] = "enabled"
Select(w) ==
    /\ pc[w] = "prepared"
    /\ \E S \in SUBSET {t \in Threads : eligible(t)} :
          /\ Cardinality(S) <= MaxRaw
          /\ snap' = [snap EXCEPT ![w] =
                [t \in Threads |-> IF t \in S THEN mem[t] ELSE 0]]
    /\ Goto(w, "selected")
    /\ UNCHANGED <<store, job, dir, orphans, clearing, faults, acts, history>>

\* sync_phase2_workspace_inputs
Sync(w) ==
    /\ pc[w] = "selected"
    /\ files' = snap[w]
    /\ Goto(w, "synced")
    /\ UNCHANGED <<store, job, snap, digest, valid, git, orphans, clearing,
                   faults, acts, history>>

\* Nothing to consolidate: the job is done without an agent.
NoChanges(w) ==
    /\ pc[w] = "synced" /\ git.set /\ ~has_changes /\ valid
    /\ GiveUp(w)
    /\ IF owns(w) THEN job' = done_row /\ sel' = selected_by(w)
                  ELSE UNCHANGED <<job, sel>>
    /\ UNCHANGED <<row, deleting, mem, dir, orphans, clearing, faults, acts,
                   history>>

Spawn(w) ==
    /\ pc[w] = "synced" /\ git.set /\ (has_changes \/ ~valid)
    /\ Goto(w, "agent")
    /\ UNCHANGED <<store, job, snap, dir, orphans, clearing, faults, acts,
                   history>>

\* The directory was wiped under the session: there is no baseline to
\* compare with.
DiffFails(w) ==
    /\ pc[w] = "synced" /\ ~git.set
    /\ Failed(w)
    /\ UNCHANGED <<store, dir, orphans, clearing, faults, acts, history>>

\* A step before the agent fails; a failed sync leaves some files written,
\* and a baseline may be committed although its index could not be written.
StepFails(w) ==
    /\ pc[w] \in {"claimed", "prepared", "selected", "synced"} /\ Fault
    /\ files' \in IF pc[w] = "selected" THEN torn(files, snap[w]) ELSE {files}
    /\ git' \in IF pc[w] = "claimed" THEN {git, ensured} ELSE {git}
    /\ Failed(w)
    /\ UNCHANGED <<store, digest, valid, orphans, clearing, acts, history>>

\* The agent has folded the input files into the artifacts; it may have
\* left them malformed.
AgentCompletes(w) ==
    /\ pc[w] = "agent"
    /\ digest' = files
    /\ \/ valid' = TRUE /\ UNCHANGED faults
       \/ valid' = FALSE /\ Fault
    /\ Goto(w, "completed")
    /\ UNCHANGED <<store, job, snap, files, git, orphans, clearing, acts, history>>

\* The agent errs, exits early or the heartbeat fails: loop_agent ends with
\* Errored and whatever was written stays.
AgentErrs(w) ==
    /\ pc[w] = "agent" /\ Fault
    /\ digest' \in torn(digest, files)
    /\ valid' \in {valid, FALSE}
    /\ Goto(w, "errored")
    /\ UNCHANGED <<store, job, snap, files, git, orphans, clearing, acts, history>>

\* Every 90 seconds the lease is renewed; a lost one ends the watch.
Heartbeat(w) ==
    /\ pc[w] = "agent"
    /\ \/ owns(w) /\ job' = [job EXCEPT !.lease = TRUE] /\ UNCHANGED pc
       \/ ~owns(w) /\ Goto(w, "errored") /\ UNCHANGED job
    /\ UNCHANGED <<store, snap, dir, orphans, clearing, faults, acts, history>>

\* The agent is shut down before anything else.  An agent that did not
\* complete fails the job; one that did is validated.
\* Seeded fault: artifacts that look right pass for a completed agent.
looks_right(w) == valid
agent_completed(w) == pc[w] = "completed" /\ valid
Shutdown(w) ==
    /\ pc[w] \in {"completed", "errored"}
    /\ IF agent_completed(w)
       THEN Goto(w, "closed") /\ UNCHANGED <<job, snap>>
       ELSE Failed(w)
    /\ UNCHANGED <<store, dir, orphans, clearing, faults, acts, history>>

\* After ten seconds the session leaves; the lease stays until it runs out.
\* Seeded fault: the job is failed although its agent is still there.
timeout_row(w) == failed_row(w)
kept_row(w) == job
ShutdownTimesOut(w) ==
    /\ pc[w] \in {"completed", "errored"} /\ Fault
    /\ GiveUp(w)
    /\ job' = kept_row(w)
    /\ orphans' = orphans \cup {w}
    /\ UNCHANGED <<store, dir, clearing, acts, history>>

\* The heartbeat that confirms the ownership before the baseline moves.
Confirm(w) ==
    /\ pc[w] = "closed"
    /\ \/ /\ owns(w)
          /\ job' = [job EXCEPT !.lease = TRUE]
          /\ Goto(w, "confirmed")
          /\ UNCHANGED <<snap, faults>>
       \/ ~owns(w) /\ GiveUp(w) /\ UNCHANGED <<job, faults>>
       \/ Fault /\ Failed(w)
    /\ UNCHANGED <<store, dir, orphans, clearing, acts, history>>

\* reset_memory_workspace_baseline; one that fails may have removed .git, or
\* committed the new baseline without its index.
Reset(w) ==
    /\ pc[w] = "confirmed"
    /\ git' = here
    /\ halved' = FALSE
    /\ Goto(w, "reset")
    /\ UNCHANGED <<store, job, snap, files, digest, valid, orphans, clearing,
                   faults, acts, lapse>>

ResetFails(w) ==
    /\ pc[w] = "confirmed" /\ Fault
    /\ git' \in {git, NoGit, here}
    /\ Failed(w)
    /\ UNCHANGED <<store, files, digest, valid, orphans, clearing, acts, history>>

\* job::succeed; when it fails the row stays running until its lease ends.
Succeed(w) ==
    /\ pc[w] = "reset"
    /\ GiveUp(w)
    /\ \/ owns(w) /\ job' = done_row /\ sel' = selected_by(w)
          /\ UNCHANGED faults
       \/ ~owns(w) /\ UNCHANGED <<job, sel, faults>>
       \/ Fault /\ UNCHANGED <<job, sel>>
    /\ UNCHANGED <<row, deleting, mem, dir, orphans, clearing, acts, history>>

\* The process dies with its agent, in the middle of any write.
Crash(w) ==
    /\ at_work(w) /\ Fault
    /\ GiveUp(w)
    /\ files' \in IF pc[w] = "selected" THEN torn(files, snap[w]) ELSE {files}
    /\ digest' \in IF pc[w] = "agent" THEN torn(digest, files) ELSE {digest}
    /\ valid' \in IF pc[w] = "agent" THEN {valid, FALSE} ELSE {valid}
    /\ git' \in CASE pc[w] = "claimed" -> {git, ensured}
                 [] pc[w] = "confirmed" -> {git, NoGit, here}
                 [] OTHER -> {git}
    /\ UNCHANGED <<store, job, orphans, clearing, acts, history>>

\* An agent left behind ends, having written or not.
OrphanEnds(w) ==
    /\ w \in orphans
    /\ orphans' = orphans \ {w}
    /\ digest' \in torn(digest, files)
    /\ valid' \in {valid, FALSE}
    /\ UNCHANGED <<store, job, pc, snap, files, git, clearing, faults, acts,
                   history>>

-----------------------------------------------------------------------------
(* Time, phase 1, the user.                                                *)

\* The holder of the row, or the agent it left, is still there.
working == job.owner # NoSession /\ (at_work(job.owner) \/ job.owner \in orphans)

LeaseExpires ==
    /\ live
    /\ job' = [job EXCEPT !.lease = FALSE]
    /\ IF working THEN Fault /\ lapse' = TRUE ELSE UNCHANGED <<faults, lapse>>
    /\ UNCHANGED <<store, pc, snap, dir, orphans, clearing, acts, halved>>

BackoffElapses ==
    /\ job.backoff
    /\ job' = [job EXCEPT !.backoff = FALSE]
    /\ UNCHANGED <<store, pc, snap, dir, orphans, clearing, faults, acts, history>>

CooldownElapses ==
    /\ job.cooldown
    /\ job' = [job EXCEPT !.cooldown = FALSE]
    /\ UNCHANGED <<store, pc, snap, dir, orphans, clearing, faults, acts, history>>

Act == acts < MaxActs /\ acts' = acts + 1
others == <<pc, snap, dir, orphans, faults, history>>

\* mark_stage1_job_succeeded stores a newer memory, also of a thread that
\* was polluted or deleted meanwhile, and enqueues.
Extract(t) ==
    /\ mem[t] < MaxVersion /\ Act
    /\ mem' = [mem EXCEPT ![t] = @ + 1]
    /\ job' = enqueued(job)
    /\ UNCHANGED <<row, deleting, sel, clearing, others>>

\* mark_stage1_job_succeeded_no_output: the row goes, selected or not.
NoOutput(t) ==
    /\ mem[t] > 0 /\ Act
    /\ mem' = [mem EXCEPT ![t] = 0]
    /\ sel' = [sel EXCEPT ![t] = 0]
    /\ job' = enqueued(job)
    /\ UNCHANGED <<row, deleting, clearing, others>>

\* The retention of the startup: selected rows are kept.
Prune(t) ==
    /\ mem[t] > 0 /\ sel[t] = 0 /\ Act
    /\ mem' = [mem EXCEPT ![t] = 0]
    /\ UNCHANGED <<row, deleting, sel, job, clearing, others>>

\* mark_thread_memory_mode_polluted reads the selection before it writes
\* the mode, so a thread selected in between is not enqueued, nor the reverse.
Pollute(t) ==
    /\ row[t] \notin {"polluted", "gone"} /\ Act
    /\ row' = [row EXCEPT ![t] = "polluted"]
    /\ job' \in {job, enqueued(job)}
    /\ UNCHANGED <<deleting, mem, sel, clearing, others>>

\* set_thread_memory_mode: the user's choice, or the mode of the rollout when
\* reconcile_rollout rewrites the row; a polluted thread can be enabled again.
SetMode(t, mode) ==
    /\ row[t] \notin {mode, "gone"} /\ Act
    /\ row' = [row EXCEPT ![t] = mode]
    /\ UNCHANGED <<deleting, mem, sel, job, clearing, others>>

\* delete_threads_strict: the memory first, the thread's row last.
DeleteMemory(t) ==
    /\ row[t] # "gone" /\ t \notin deleting /\ Act
    /\ deleting' = deleting \cup {t}
    /\ mem' = [mem EXCEPT ![t] = 0]
    /\ sel' = [sel EXCEPT ![t] = 0]
    /\ job' = IF sel[t] > 0 THEN enqueued(job) ELSE job
    /\ UNCHANGED <<row, clearing, others>>

DeleteRow(t) ==
    /\ t \in deleting
    /\ deleting' = deleting \ {t}
    /\ row' = [row EXCEPT ![t] = "gone"]
    /\ UNCHANGED <<mem, sel, job, clearing, acts, others>>

busy == orphans # {} \/ \E w \in Sessions : at_work(w)

\* memory/reset: first the rows, the running job's with them ...
ClearRows ==
    /\ ~clearing /\ Act
    /\ clearing' = TRUE
    /\ mem' = Nothing
    /\ sel' = Nothing
    /\ job' = NoJob
    /\ lapse' = (lapse \/ busy)
    /\ UNCHANGED <<row, deleting, pc, snap, dir, orphans, faults, halved>>

\* ... then the directory, .git included, entry by entry.
ClearRoots ==
    /\ clearing
    /\ clearing' = FALSE
    /\ files' = Nothing
    /\ digest' = Nothing
    /\ valid' = FALSE
    /\ git' = NoGit
    /\ halved' = FALSE
    /\ lapse' = (lapse \/ busy)
    /\ UNCHANGED <<store, job, pc, snap, orphans, faults, acts>>

\* A symlinked root is refused, an entry cannot be removed, or the process
\* dies: what was not reached yet stays.  Without MEMORY.md nothing validates.
RootsFail ==
    /\ clearing /\ Fault
    /\ clearing' = FALSE
    /\ files' \in torn(files, Nothing)
    /\ \/ digest' = digest /\ valid' \in {valid, FALSE}
       \/ digest' = Nothing /\ valid' = FALSE
    /\ git' \in {git, NoGit}
    /\ halved' = (halved \/ (~git'.set /\ files' # digest'))
    /\ lapse' = (lapse \/ busy)
    /\ UNCHANGED <<store, job, pc, snap, orphans, acts>>

-----------------------------------------------------------------------------
Session(w) == \/ Claim(w) \/ Prepare(w) \/ Select(w) \/ Sync(w)
              \/ NoChanges(w) \/ Spawn(w) \/ DiffFails(w)
              \/ AgentCompletes(w) \/ Shutdown(w) \/ Confirm(w)
              \/ Reset(w) \/ Succeed(w)
Failure(w) == \/ StepFails(w) \/ AgentErrs(w) \/ ShutdownTimesOut(w)
              \/ ResetFails(w) \/ Crash(w)
User(t) == \/ Extract(t) \/ NoOutput(t) \/ Prune(t) \/ Pollute(t)
           \/ DeleteMemory(t) \/ DeleteRow(t)
           \/ \E mode \in {"enabled", "disabled"} : SetMode(t, mode)

Next == \/ \E w \in Sessions : Session(w) \/ Failure(w) \/ Heartbeat(w)
                               \/ OrphanEnds(w)
        \/ \E t \in Threads : User(t)
        \/ LeaseExpires \/ BackoffElapses \/ CooldownElapses
        \/ ClearRows \/ ClearRoots \/ RootsFail

Spec == Init /\ [][Next]_vars

\* A session in phase 2 goes on, agents end, time passes, and sessions go
\* on being started.
FairSpec ==
    /\ Spec
    /\ \A w \in Sessions : WF_vars(Session(w)) /\ WF_vars(OrphanEnds(w))
    /\ WF_vars(LeaseExpires /\ ~working)
    /\ WF_vars(BackoffElapses) /\ WF_vars(CooldownElapses)
    /\ WF_vars(ClearRoots)

-----------------------------------------------------------------------------
\* Every variable keeps its type.
TypeOK ==
    /\ row \in [Threads -> {"enabled", "disabled", "polluted", "gone"}]
    /\ deleting \in SUBSET Threads
    /\ mem \in Content /\ sel \in Content
    /\ job \in Job
    /\ pc \in [Sessions -> {"idle", "claimed", "prepared", "selected",
                            "synced", "agent", "completed", "errored",
                            "closed", "confirmed", "reset"}]
    /\ snap \in [Sessions -> Content]
    /\ files \in Content /\ digest \in Content
    /\ valid \in BOOLEAN
    /\ git \in [set : BOOLEAN, files : Content, digest : Content]
    /\ orphans \in SUBSET Sessions
    /\ clearing \in BOOLEAN /\ lapse \in BOOLEAN /\ halved \in BOOLEAN
    /\ faults \in 0 .. MaxFaults
    /\ acts \in 0 .. MaxActs

\* At most one session, or the agent one left behind, is in the memories
\* directory, unless a lease ran out under somebody at work or the memory
\* was reset meanwhile: crashes, failures and agents that do not shut down
\* let nobody else in.
OneWriter ==
    lapse \/ Cardinality({w \in Sessions : at_work(w)}) + Cardinality(orphans) <= 1

\* What the baseline records as consolidated has been consolidated: its
\* input files are the ones its artifacts reflect, so no memory is skipped
\* by a later comparison, whichever step of a session or of a reset failed
\* or crashed.  The one exception is a reset that stopped with the baseline
\* gone and inputs and artifacts apart (halved): the next Prepare makes them
\* the baseline, and it lasts until a consolidation or a reset completes.
BaselineIsDigested == lapse \/ halved \/ (git.set => git.files = git.digest)

\* A job that is done has left a clean directory: baseline, input files and
\* valid artifacts agree.  After a halved reset a job may be done without an
\* agent, because the comparison with the new baseline finds no change.
DoneIsClean ==
    lapse \/ halved
    \/ (job.status = "done" => git = here /\ valid /\ files = digest)

\* A running job is finished by its owner alone, lost leases or not: the
\* late reports of a former owner change nothing.
FinishedByOwner ==
    [][job.status = "running" /\ job'.status \in {"done", "error"}
         => at_work(job.owner) /\ pc'[job.owner] = "idle"]_vars

\* A memory whose thread stays polluted, disabled or deleted leaves the
\* consolidated artifacts in the end and for good, even when it was being
\* consolidated at the time, and whichever steps fail, unless a lock was lost
\* under somebody at work or a reset stopped halfway.  (Enabled again, the
\* thread may be selected again.)
ForgottenLeavesArtifacts ==
    \A t \in Threads :
        <>[](row[t] # "enabled") => <>[](lapse \/ halved \/ digest[t] = 0)
=============================================================================
