-------------------------- MODULE MemoryExtraction --------------------------
(***************************************************************************)
(* Phase 1 of the memory pipeline: every root session that starts scans    *)
(* the threads, claims up to Cap extraction jobs in the memories database  *)
(* under a lease, has a model extract a memory from each rollout and       *)
(* reports the result.  Sessions of several processes do this against one  *)
(* database: codex-rs/memories/write/src/{start,phase1}.rs and             *)
(* codex-rs/state/src/runtime/memories.rs.                                 *)
(*                                                                         *)
(* A step is one transaction, or what a session does between two awaits    *)
(* that touch the database.  Clocks are flags: a lease or a back-off       *)
(* holds until the step that lets it run out.  An ownership token is a     *)
(* fresh UUID and a session never claims a thread it still holds, so "the  *)
(* row carries my token" is: the row's owner is this session and the       *)
(* session holds the thread.                                               *)
(***************************************************************************)
EXTENDS Naturals, FiniteSets

CONSTANTS
    Threads,     \* rollouts old and idle enough for the startup query
    Sessions,    \* root sessions, each running the startup pipeline
    NoSession,
    Cap,         \* max_rollouts_per_startup: claims of a pass, live leases
    Retries,     \* DEFAULT_RETRY_REMAINING
    MaxVersion,  \* bound: updated_at of a thread takes 1 .. MaxVersion
    MaxFaults,   \* bound: crashes, database errors, rate limits, slow models
    MaxActs      \* bound: threads used, deleted, changed in mode; resets

ASSUME CapAssumption == Cap \in Nat \ {0}
ASSUME RetriesAssumption == Retries \in Nat \ {0}
ASSUME VersionAssumption == MaxVersion \in Nat \ {0}
ASSUME BoundAssumption == MaxFaults \in Nat /\ MaxActs \in Nat
ASSUME SessionAssumption == NoSession \notin Sessions /\ IsFiniteSet(Threads)

VARIABLES
    row,       \* threads.memory_mode of a thread; "gone": no row
    deleting,  \* threads whose deletion has cleared the memory, not the row
    updated,   \* threads.updated_at
    out,       \* stage1_outputs.source_updated_at; 0: no row
    job,       \* the memory_stage1 row of the jobs table
    pc,        \* where the startup pipeline of a session is
    list,      \* scanned threads a pass will still look at; 0: not listed
    held,      \* claimed threads, with their version; 0: not held
    faults,    \* faults so far
    acts,      \* what users did so far
    void,      \* history: claims taken before the thread was forgotten
    undead,    \* history: threads whose output a void claim wrote
    peak,      \* history: latest version ever claimed of a thread
    fails,     \* history: failures reported since that first claim of it
    allowed    \* history: attempts granted since then

counts == <<peak, fails, allowed>>
history == <<void, undead, counts>>
vars == <<row, deleting, updated, out, job, pc, list, held, faults, acts,
          history>>

Version == 0 .. MaxVersion
Job == [status : {"none", "running", "done", "error"},
        owner : Sessions \cup {NoSession}, lease : BOOLEAN, backoff : BOOLEAN,
        retries : 0 .. Retries, input : Version, success : Version]
NoJob == [status |-> "none", owner |-> NoSession, lease |-> FALSE,
          backoff |-> FALSE, retries |-> 0, input |-> 0, success |-> 0]
Nothing == [t \in Threads |-> 0]

Init ==
    /\ row \in [Threads -> {"enabled", "polluted"}]
    /\ deleting = {}
    /\ updated = [t \in Threads |-> 1]
    /\ out = Nothing
    /\ job = [t \in Threads |-> NoJob]
    /\ pc = [w \in Sessions |-> "idle"]
    /\ list = [w \in Sessions |-> Nothing]
    /\ held = [w \in Sessions |-> Nothing]
    /\ faults = 0
    /\ acts = 0
    /\ void = {}
    /\ undead = {}
    /\ peak = Nothing
    /\ fails = Nothing
    /\ allowed = [t \in Threads |-> Retries]

-----------------------------------------------------------------------------
(* Reads of the two tables.                                                *)

\* A running row whose lease_until is still ahead.
live(t) == job[t].status = "running" /\ job[t].lease
running_jobs == {t \in Threads : live(t)}

\* SkippedUpToDate: an output or a success at this version or later.
up_to_date(t, v) == out[t] >= v \/ job[t].success >= v

newer(t, v) == v > job[t].input
\* Seeded fault: a running row is never taken over.
never_expires(t) == job[t].status # "running"
not_running(t) == ~live(t)
may_retry(t, v) == /\ ~job[t].backoff \/ newer(t, v)
                   /\ job[t].retries > 0 \/ newer(t, v)
\* Seeded fault: the cap counts this session's claims, not the table's.
cap_is_mine(t) == TRUE
below_cap(t) == Cardinality(running_jobs \ {t}) < Cap

\* The INSERT (no row yet) or the ON CONFLICT UPDATE (a row to take over).
claimable(t, v) ==
    /\ ~up_to_date(t, v)
    /\ below_cap(t)
    /\ job[t].status = "none" \/ (not_running(t) /\ may_retry(t, v))

\* Seeded fault: a takeover leaves the token of the previous owner valid.
token_kept(w, t, v) ==
    [job[t] EXCEPT !.status = "running", !.lease = TRUE, !.backoff = FALSE,
        !.owner = IF job[t].status = "none" THEN w ELSE @, !.input = v,
        !.retries = IF newer(t, v) THEN Retries ELSE job[t].retries]
claimed_row(w, t, v) ==
    [job[t] EXCEPT !.status = "running", !.owner = w, !.lease = TRUE,
        !.backoff = FALSE, !.input = v,
        !.retries = IF newer(t, v) THEN Retries ELSE job[t].retries]
owns(w, t) == job[t].status = "running" /\ job[t].owner = w

-----------------------------------------------------------------------------
(* The startup pipeline of a session.                                      *)

\* The loop over the scanned threads has not ended.
claiming(w) == list[w] # Nothing
\* Claims of this pass; none is reported before the loop has ended.
claimed(w) == Cardinality({t \in Threads : held[w][t] > 0})

\* start_memories_startup_task: outputs past their retention are pruned
\* whatever the rate limits say; job rows keep their watermarks.  (Which
\* outputs the last consolidation protects: MemoryConsolidation.)
Startup(w) ==
    /\ pc[w] = "idle"
    /\ \E stale \in SUBSET {t \in Threads : out[t] > 0} :
          out' = [t \in Threads |-> IF t \in stale THEN 0 ELSE out[t]]
    /\ \/ pc' = [pc EXCEPT ![w] = "phase1"] /\ UNCHANGED faults
       \/ faults < MaxFaults /\ faults' = faults + 1 /\ UNCHANGED pc
    /\ UNCHANGED <<row, deleting, updated, job, list, held, acts, history>>

\* The startup query on the state database, in its own connection.
Scan(w) ==
    /\ pc[w] = "phase1"
    /\ pc' = [pc EXCEPT ![w] = "jobs"]
    /\ list' = [list EXCEPT ![w] =
          [t \in Threads |-> IF row[t] = "enabled" THEN updated[t] ELSE 0]]
    /\ UNCHANGED <<row, deleting, updated, out, job, held, faults, acts,
                   history>>

\* What a claim means for the history: a version later than any claimed
\* before opens a new account, one that an old list named late adds to it.
Account(t, v) ==
    /\ peak' = [peak EXCEPT ![t] = IF v > @ THEN v ELSE @]
    /\ fails' = [fails EXCEPT ![t] = IF v > peak[t] THEN 0 ELSE @]
    /\ allowed' = [allowed EXCEPT ![t] =
          IF v > peak[t] THEN Retries
          ELSE IF v < peak[t] THEN @ + Retries ELSE @]

\* The next listed thread, latest first; ties in any order.  The claim that
\* fills the pass ends the loop: the rest is left to a later start.
Claim(w) ==
    /\ pc[w] = "jobs" /\ claiming(w)
    /\ \E t \in Threads :
          LET v == list[w][t] IN
          /\ v > 0 /\ \A u \in Threads : list[w][u] <= v
          /\ IF claimable(t, v)
             THEN /\ job' = [job EXCEPT ![t] = claimed_row(w, t, v)]
                  /\ held' = [held EXCEPT ![w][t] = v]
                  /\ Account(t, v)
             ELSE UNCHANGED <<job, held, counts>>
          /\ list' = [list EXCEPT ![w] =
                IF claimed(w)' < Cap THEN [@ EXCEPT ![t] = 0] ELSE Nothing]
    /\ UNCHANGED <<row, deleting, updated, out, pc, faults, acts, void,
                   undead>>

\* A database error ends the pass: the claims already taken are dropped
\* with the vector that held them, their rows stay running.
ClaimError(w) ==
    /\ pc[w] = "jobs" /\ claiming(w) /\ faults < MaxFaults
    /\ faults' = faults + 1
    /\ pc' = [pc EXCEPT ![w] = "idle"]
    /\ list' = [list EXCEPT ![w] = Nothing]
    /\ held' = [held EXCEPT ![w] = Nothing]
    /\ void' = {c \in void : c[1] # w}
    /\ UNCHANGED <<row, deleting, updated, out, job, acts, undead, counts>>

Drop(w, t) == /\ held' = [held EXCEPT ![w][t] = 0]
              /\ void' = void \ {<<w, t>>}
Extracted(w, t) == pc[w] = "jobs" /\ ~claiming(w) /\ held[w][t] > 0

done_row(t) == [job[t] EXCEPT !.status = "done", !.lease = FALSE,
                              !.success = job[t].input]
\* result::success: only the owner's result counts, and the output is
\* replaced unless the stored one is newer.
Succeed(w, t) ==
    /\ Extracted(w, t)
    /\ Drop(w, t)
    /\ IF owns(w, t)
       THEN /\ job' = [job EXCEPT ![t] = done_row(t)]
            /\ out' = [out EXCEPT ![t] = IF held[w][t] >= @ THEN held[w][t]
                                                            ELSE @]
            /\ undead' = IF <<w, t>> \in void THEN undead \cup {t}
                                              ELSE undead \ {t}
       ELSE UNCHANGED <<job, out, undead>>
    /\ UNCHANGED <<row, deleting, updated, pc, list, faults, acts, counts>>

\* result::no_output: a success without a memory removes the old one.
NoOutput(w, t) ==
    /\ Extracted(w, t)
    /\ Drop(w, t)
    /\ IF owns(w, t)
       THEN /\ job' = [job EXCEPT ![t] = done_row(t)]
            /\ out' = [out EXCEPT ![t] = 0]
       ELSE UNCHANGED <<job, out>>
    /\ UNCHANGED <<row, deleting, updated, pc, list, faults, acts, undead,
                   counts>>

\* Seeded fault: a failure takes no retry away.
free_retry(t) == [job[t] EXCEPT !.status = "error", !.lease = FALSE,
                                !.backoff = TRUE]
failed_row(t) == [job[t] EXCEPT !.status = "error", !.lease = FALSE,
                                !.backoff = TRUE,
                                !.retries = job[t].retries - 1]

\* result::failed: one retry fewer and a back-off.
Fail(w, t) ==
    /\ Extracted(w, t)
    /\ Drop(w, t)
    /\ IF owns(w, t)
       THEN /\ job' = [job EXCEPT ![t] = failed_row(t)]
            /\ fails' = [fails EXCEPT ![t] = @ + 1]
       ELSE UNCHANGED <<job, fails>>
    /\ UNCHANGED <<row, deleting, updated, out, pc, list, faults, acts,
                   undead, peak, allowed>>

\* The report itself fails: the error is swallowed and the row stays running.
ReportLost(w, t) ==
    /\ Extracted(w, t) /\ faults < MaxFaults
    /\ faults' = faults + 1
    /\ Drop(w, t)
    /\ UNCHANGED <<row, deleting, updated, out, job, pc, list, acts,
                   undead, counts>>

\* Every job has reported: phase 2 follows, see MemoryConsolidation.
PhaseOneEnds(w) ==
    /\ pc[w] = "jobs" /\ ~claiming(w) /\ held[w] = Nothing
    /\ pc' = [pc EXCEPT ![w] = "idle"]
    /\ list' = [list EXCEPT ![w] = Nothing]
    /\ UNCHANGED <<row, deleting, updated, out, job, held, faults, acts,
                   history>>

\* The process dies: its claims are nobody's until their leases run out.
Crash(w) ==
    /\ pc[w] # "idle" /\ faults < MaxFaults
    /\ faults' = faults + 1
    /\ pc' = [pc EXCEPT ![w] = "idle"]
    /\ list' = [list EXCEPT ![w] = Nothing]
    /\ held' = [held EXCEPT ![w] = Nothing]
    /\ void' = {c \in void : c[1] # w}
    /\ UNCHANGED <<row, deleting, updated, out, job, acts, undead, counts>>

-----------------------------------------------------------------------------
(* Time, the user and the other writers of the two databases.              *)

abandoned(t) == \A w \in Sessions : ~(owns(w, t) /\ held[w][t] > 0)

\* The lease of an hour is never renewed in phase 1; an extraction that
\* outlives it is a fault.
LeaseExpires(t) ==
    /\ live(t)
    /\ job' = [job EXCEPT ![t].lease = FALSE]
    /\ \/ abandoned(t) /\ UNCHANGED faults
       \/ ~abandoned(t) /\ faults < MaxFaults /\ faults' = faults + 1
    /\ UNCHANGED <<row, deleting, updated, out, pc, list, held, acts,
                   history>>

BackoffElapses(t) ==
    /\ job[t].backoff
    /\ job' = [job EXCEPT ![t].backoff = FALSE]
    /\ UNCHANGED <<row, deleting, updated, out, pc, list, held, faults,
                   acts, history>>

Act == acts < MaxActs /\ acts' = acts + 1

\* The thread is used again, then idles.
Touch(t) ==
    /\ row[t] # "gone" /\ updated[t] < MaxVersion /\ Act
    /\ updated' = [updated EXCEPT ![t] = @ + 1]
    /\ UNCHANGED <<row, deleting, out, job, pc, list, held, faults, history>>

\* mark_thread_memory_mode_polluted, as far as phase 1 reads it.
Pollute(t) ==
    /\ row[t] \notin {"polluted", "gone"} /\ Act
    /\ row' = [row EXCEPT ![t] = "polluted"]
    /\ UNCHANGED <<deleting, updated, out, job, pc, list, held, faults,
                   history>>

\* set_thread_memory_mode, by the user or from the rollout's own mode; a
\* polluted thread can be enabled again.
SetMode(t, mode) ==
    /\ row[t] \notin {mode, "gone"} /\ Act
    /\ row' = [row EXCEPT ![t] = mode]
    /\ UNCHANGED <<deleting, updated, out, job, pc, list, held, faults,
                   history>>

\* Seeded fault: the output goes, the job row stays.
output_only(S) ==
    /\ out' = [t \in Threads |-> IF t \in S THEN 0 ELSE out[t]]
    /\ void' = void \cup {c \in Sessions \X S : held[c[1]][c[2]] > 0}
    /\ undead' = undead \ S
    /\ UNCHANGED <<job, counts>>
Forget(S) ==
    /\ out' = [t \in Threads |-> IF t \in S THEN 0 ELSE out[t]]
    /\ job' = [t \in Threads |-> IF t \in S THEN NoJob ELSE job[t]]
    /\ peak' = [t \in Threads |-> IF t \in S THEN 0 ELSE peak[t]]
    /\ fails' = [t \in Threads |-> IF t \in S THEN 0 ELSE fails[t]]
    /\ allowed' = [t \in Threads |-> IF t \in S THEN Retries ELSE allowed[t]]
    /\ void' = void \cup {c \in Sessions \X S : held[c[1]][c[2]] > 0}
    /\ undead' = undead \ S

\* delete_threads_strict clears the memory first, in one transaction ...
DeleteMemory(t) ==
    /\ row[t] # "gone" /\ t \notin deleting /\ Act
    /\ deleting' = deleting \cup {t}
    /\ Forget({t})
    /\ UNCHANGED <<row, updated, pc, list, held, faults>>

\* ... and the thread's row last, in another database.
DeleteRow(t) ==
    /\ t \in deleting
    /\ deleting' = deleting \ {t}
    /\ row' = [row EXCEPT ![t] = "gone"]
    /\ UNCHANGED <<updated, out, job, pc, list, held, faults, acts,
                   history>>

\* clear_memory_data: every output and every job, in one transaction.
ClearMemory ==
    /\ Act
    /\ Forget(Threads)
    /\ UNCHANGED <<row, deleting, updated, pc, list, held, faults>>

-----------------------------------------------------------------------------
Report(w) == \E t \in Threads : Succeed(w, t) \/ NoOutput(w, t) \/ Fail(w, t)
Session(w) == \/ Startup(w) \/ Scan(w) \/ Claim(w) \/ Report(w)
              \/ PhaseOneEnds(w)
Fault(w) == \/ ClaimError(w) \/ Crash(w)
            \/ \E t \in Threads : ReportLost(w, t)
Clock(t) == LeaseExpires(t) \/ BackoffElapses(t)
User(t) == \/ Touch(t) \/ Pollute(t) \/ DeleteMemory(t) \/ DeleteRow(t)
           \/ \E mode \in {"enabled", "disabled"} : SetMode(t, mode)

Next == \/ \E w \in Sessions : Session(w) \/ Fault(w)
        \/ \E t \in Threads : Clock(t) \/ User(t)
        \/ ClearMemory

Spec == Init /\ [][Next]_vars

\* A started pipeline goes on, a model request ends, time passes, and
\* sessions go on being started.
FairSpec ==
    /\ Spec
    /\ \A w \in Sessions : WF_vars(Session(w))
    /\ \A t \in Threads : WF_vars(abandoned(t) /\ LeaseExpires(t))
    /\ \A t \in Threads : WF_vars(BackoffElapses(t))

-----------------------------------------------------------------------------
\* Every variable keeps its type; a held or listed thread is held or listed
\* by a session inside phase 1.
TypeOK ==
    /\ row \in [Threads -> {"enabled", "disabled", "polluted", "gone"}]
    /\ deleting \in SUBSET Threads
    /\ updated \in [Threads -> 1 .. MaxVersion]
    /\ out \in [Threads -> Version]
    /\ job \in [Threads -> Job]
    /\ pc \in [Sessions -> {"idle", "phase1", "jobs"}]
    /\ list \in [Sessions -> [Threads -> Version]]
    /\ held \in [Sessions -> [Threads -> Version]]
    /\ faults \in 0 .. MaxFaults
    /\ acts \in 0 .. MaxActs
    /\ void \in SUBSET (Sessions \X Threads)
    /\ undead \in SUBSET Threads
    /\ peak \in [Threads -> Version]
    /\ fails \in [Threads -> Nat]
    /\ allowed \in [Threads -> Nat]

\* However many sessions start at once, no more than Cap extractions run
\* under a live lease: the count and the claim are one transaction.
LeasesBounded == Cardinality(running_jobs) <= Cap

\* The two tables agree: a stored memory is the one the job row's last
\* success produced, so a later extraction is never overwritten by an
\* earlier one and of two extractions of a version, after a takeover, one is
\* stored, whatever was pruned or reported late.
OutputIsLastSuccess == \A t \in Threads : out[t] > 0 => job[t].success = out[t]

\* An extraction under way when its thread was deleted, or the memories
\* were reset, never brings the forgotten memory back.
ForgottenStaysForgotten == undead = {}

\* A rollout whose extraction keeps failing is given up after Retries
\* failures, until the thread has changed and is claimed at its new version:
\* late reports of former owners and takeovers of expired leases give no
\* attempt back.  Only a claim from a list older than the last change lowers
\* the watermark, and each grants at most Retries attempts more.
FailuresBounded == \A t \in Threads : fails[t] <= allowed[t]

settled(t) == \/ row[t] # "enabled" \/ up_to_date(t, updated[t])
              \/ job[t].retries = 0 /\ job[t].input >= updated[t]

\* Every stale thread is extracted in the end, or given up after its last
\* retry: no crash, lost report or dropped claim leaves it running for ever,
\* and the threads that a full pass left out have their turn.
ExtractionSettles == \A t \in Threads : []<>settled(t)
=============================================================================
