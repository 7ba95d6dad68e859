--------------------- MODULE MemoryConsolidation_proofs ---------------------
(***************************************************************************)
(* Proofs for MemoryConsolidation, for every set of threads and sessions   *)
(* and every bound.  The inductive invariant says what the lock guarantees *)
(* as long as nobody lost it: whoever is at work holds a live lease, and   *)
(* the directory then is as the holder's last step left it.                *)
(***************************************************************************)
EXTENDS MemoryConsolidation, FiniteSetTheorems, TLAPS

USE DEF history

Git == [set : BOOLEAN, files : Content, digest : Content]

LEMMA TypeInit == Init => TypeOK
<1> SUFFICES ASSUME Init PROVE TypeOK
  OBVIOUS
<1> USE BoundAssumption DEF Init, Content, Version, Nothing
<1>1. job \in Job /\ git \in [set : BOOLEAN, files : Content, digest : Content]
  BY DEF Job, NoJob, NoGit
<1>2. snap \in [Sessions -> Content]
  OBVIOUS
<1>3. valid \in BOOLEAN /\ clearing \in BOOLEAN /\ lapse \in BOOLEAN
      /\ halved \in BOOLEAN
  OBVIOUS
<1>4. row \in [Threads -> {"enabled", "disabled", "polluted", "gone"}] /\ mem \in Content
  OBVIOUS
<1>5. files \in Content /\ digest \in Content /\ sel \in Content
  OBVIOUS
<1>6. faults \in 0 .. MaxFaults /\ acts \in 0 .. MaxActs
  OBVIOUS
<1> QED BY <1>1, <1>2, <1>3, <1>4, <1>5, <1>6 DEF TypeOK

\* Every way a step writes the job row writes a job row.
LEMMA JobRows ==
  ASSUME TypeOK
  PROVE /\ \A w \in Sessions : claimed_row(w) \in Job /\ failed_row(w) \in Job
        /\ done_row \in Job /\ enqueued(job) \in Job /\ NoJob \in Job
        /\ \A b \in BOOLEAN : /\ [job EXCEPT !.lease = b] \in Job
                             /\ [job EXCEPT !.backoff = b] \in Job
                             /\ [job EXCEPT !.cooldown = b] \in Job
<1> USE DEF Job
<1>1. job \in Job
  BY DEF TypeOK
<1>2. \A w \in Sessions : claimed_row(w) \in Job
  BY <1>1 DEF claimed_row
<1>3. \A w \in Sessions : failed_row(w) \in Job
  BY <1>1 DEF failed_row
<1>4. done_row \in Job
  BY <1>1 DEF done_row
<1>5. enqueued(job) \in Job
  BY <1>1 DEF enqueued
<1>6. NoJob \in Job
  BY DEF NoJob
<1> QED BY <1>1, <1>2, <1>3, <1>4, <1>5, <1>6

\* Every way a step writes the directory writes directory contents.
LEMMA Contents ==
  ASSUME TypeOK
  PROVE /\ Nothing \in Content /\ NoGit \in Git /\ here \in Git /\ ensured \in Git
        /\ \A w \in Sessions : selected_by(w) \in Content
        /\ \A c, d \in Content : torn(c, d) \subseteq Content
<1>1. Nothing \in Content
  BY BoundAssumption DEF Nothing, Content, Version
<1>2. NoGit \in Git /\ here \in Git /\ ensured \in Git
  BY <1>1 DEF NoGit, here, ensured, Git, TypeOK
<1>3. \A w \in Sessions : selected_by(w) \in Content
  BY BoundAssumption DEF selected_by, TypeOK, Content, Version
<1> QED BY <1>1, <1>2, <1>3 DEF torn

LEMMA TypeStep == TypeOK /\ [Next]_vars => TypeOK'
<1> SUFFICES ASSUME TypeOK, [Next]_vars PROVE TypeOK'
  OBVIOUS
<1> USE BoundAssumption DEF TypeOK, Git, Goto, GiveUp, store, dir
<1>1. ASSUME NEW w \in Sessions, Claim(w) PROVE TypeOK'
  BY <1>1, JobRows, Contents DEF Claim
<1>2. ASSUME NEW w \in Sessions, Prepare(w) PROVE TypeOK'
  BY <1>2, JobRows, Contents DEF Prepare
<1>3. ASSUME NEW w \in Sessions, Select(w) PROVE TypeOK'
  <2>1. PICK c \in Content : snap' = [snap EXCEPT ![w] = c]
    <3>1. PICK S \in SUBSET Threads :
            snap' = [snap EXCEPT ![w] =
                      [t \in Threads |-> IF t \in S THEN mem[t] ELSE 0]]
      BY <1>3 DEF Select
    <3>2. [t \in Threads |-> IF t \in S THEN mem[t] ELSE 0] \in Content
      BY DEF Content, Version
    <3> QED BY <3>1, <3>2
  <2> QED BY <1>3, <2>1 DEF Select
<1>4. ASSUME NEW w \in Sessions, Sync(w) PROVE TypeOK'
  BY <1>4, JobRows, Contents DEF Sync
<1>5. ASSUME NEW w \in Sessions, NoChanges(w) PROVE TypeOK'
  BY <1>5, JobRows, Contents DEF NoChanges
<1>6. ASSUME NEW w \in Sessions, Spawn(w) PROVE TypeOK'
  BY <1>6, JobRows, Contents DEF Spawn
<1>7. ASSUME NEW w \in Sessions, DiffFails(w) PROVE TypeOK'
  BY <1>7, JobRows, Contents DEF DiffFails, Failed
<1>8. ASSUME NEW w \in Sessions, AgentCompletes(w) PROVE TypeOK'
  <2>1. valid' \in BOOLEAN
    BY <1>8 DEF AgentCompletes
  <2>2. faults' \in 0 .. MaxFaults
    BY <1>8 DEF AgentCompletes, Fault
  <2> QED BY <1>8, <2>1, <2>2 DEF AgentCompletes
<1>9. ASSUME NEW w \in Sessions, Shutdown(w) PROVE TypeOK'
  BY <1>9, JobRows, Contents DEF Shutdown, Failed
<1>10. ASSUME NEW w \in Sessions, Confirm(w) PROVE TypeOK'
  <2>1. faults' \in 0 .. MaxFaults
    BY <1>10 DEF Confirm, Fault
  <2>2. job' \in Job
    <3>1. job' \in {job, [job EXCEPT !.lease = TRUE], failed_row(w)}
      BY <1>10 DEF Confirm, Failed
    <3>2. /\ job \in Job /\ [job EXCEPT !.lease = TRUE] \in Job
          /\ failed_row(w) \in Job
      BY JobRows
    <3> QED BY <3>1, <3>2
  <2> QED BY <1>10, <2>1, <2>2, Contents DEF Confirm, Failed
<1>11. ASSUME NEW w \in Sessions, Reset(w) PROVE TypeOK'
  BY <1>11, JobRows, Contents DEF Reset
<1>12. ASSUME NEW w \in Sessions, Succeed(w) PROVE TypeOK'
  BY <1>12, JobRows, Contents DEF Succeed, Fault
<1>13. ASSUME NEW w \in Sessions, StepFails(w) PROVE TypeOK'
  BY <1>13, JobRows, Contents DEF StepFails, Failed, Fault
<1>14. ASSUME NEW w \in Sessions, AgentErrs(w) PROVE TypeOK'
  <2>1. valid' \in BOOLEAN
    BY <1>14 DEF AgentErrs
  <2>2. faults' \in 0 .. MaxFaults
    BY <1>14 DEF AgentErrs, Fault
  <2>3. digest' \in Content
    BY <1>14, Contents DEF AgentErrs
  <2> QED BY <1>14, <2>1, <2>2, <2>3 DEF AgentErrs
<1>15. ASSUME NEW w \in Sessions, ShutdownTimesOut(w) PROVE TypeOK'
  BY <1>15, JobRows, Contents DEF ShutdownTimesOut, Fault, kept_row
<1>16. ASSUME NEW w \in Sessions, ResetFails(w) PROVE TypeOK'
  BY <1>16, JobRows, Contents DEF ResetFails, Fault, Failed
<1>17. ASSUME NEW w \in Sessions, Crash(w) PROVE TypeOK'
  <2>1. valid' \in BOOLEAN
    BY <1>17 DEF Crash
  <2>2. faults' \in 0 .. MaxFaults
    BY <1>17 DEF Crash, Fault
  <2>3. digest' \in Content /\ files' \in Content /\ git' \in Git
    BY <1>17, Contents DEF Crash
  <2> QED BY <1>17, <2>1, <2>2, <2>3, Contents DEF Crash
<1>18. ASSUME NEW w \in Sessions, Heartbeat(w) PROVE TypeOK'
  BY <1>18, JobRows, Contents DEF Heartbeat
<1>19. ASSUME NEW w \in Sessions, OrphanEnds(w) PROVE TypeOK'
  BY <1>19, JobRows, Contents DEF OrphanEnds
<1>20. ASSUME NEW t \in Threads, Extract(t) PROVE TypeOK'
  <2>1. mem' \in Content
    BY <1>20 DEF Extract, Content, Version
  <2>2. acts' \in 0 .. MaxActs
    BY <1>20 DEF Extract, Act
  <2>3. job' \in Job
    BY <1>20, JobRows DEF Extract
  <2> QED BY <1>20, <2>1, <2>2, <2>3 DEF Extract, others
<1>21. ASSUME NEW t \in Threads, Prune(t) PROVE TypeOK'
  <2>1. mem' \in Content
    BY <1>21 DEF Prune, Content, Version
  <2>2. acts' \in 0 .. MaxActs
    BY <1>21 DEF Prune, Act
  <2>3. job' \in Job
    BY <1>21, JobRows DEF Prune
  <2> QED BY <1>21, <2>1, <2>2, <2>3 DEF Prune, others
<1>22. ASSUME NEW t \in Threads, Pollute(t) PROVE TypeOK'
  BY <1>22, JobRows, Contents DEF Pollute, Act, others
<1>23. ASSUME NEW t \in Threads, DeleteMemory(t) PROVE TypeOK'
  <2>1. mem' \in Content /\ sel' \in Content
    BY <1>23 DEF DeleteMemory, Content, Version
  <2>2. acts' \in 0 .. MaxActs
    BY <1>23 DEF DeleteMemory, Act
  <2>3. job' \in Job
    BY <1>23, JobRows DEF DeleteMemory
  <2> QED BY <1>23, <2>1, <2>2, <2>3 DEF DeleteMemory, others
<1>24. ASSUME NEW t \in Threads, DeleteRow(t) PROVE TypeOK'
  BY <1>24, JobRows, Contents DEF DeleteRow, others
<1>25. CASE LeaseExpires
  <2>1. faults' \in 0 .. MaxFaults
    BY <1>25 DEF LeaseExpires, Fault
  <2>2. lapse' \in BOOLEAN
    BY <1>25 DEF LeaseExpires
  <2> QED BY <1>25, <2>1, <2>2, JobRows DEF LeaseExpires
<1>26. CASE BackoffElapses
  BY <1>26, JobRows, Contents DEF BackoffElapses
<1>27. CASE CooldownElapses
  BY <1>27, JobRows, Contents DEF CooldownElapses
<1>28. CASE ClearRows
  BY <1>28, JobRows, Contents DEF ClearRows, Act
<1>29. CASE ClearRoots
  BY <1>29, JobRows, Contents DEF ClearRoots
<1>30. CASE UNCHANGED vars
  BY <1>30 DEF vars
<1>31. ASSUME NEW t \in Threads, NoOutput(t) PROVE TypeOK'
  <2>1. mem' \in Content /\ sel' \in Content
    BY <1>31 DEF NoOutput, Content, Version
  <2>2. acts' \in 0 .. MaxActs
    BY <1>31 DEF NoOutput, Act
  <2>3. job' \in Job
    BY <1>31, JobRows DEF NoOutput
  <2> QED BY <1>31, <2>1, <2>2, <2>3 DEF NoOutput, others
<1>32. ASSUME NEW t \in Threads, NEW mode \in {"enabled", "disabled"}, SetMode(t, mode)
       PROVE TypeOK'
  BY <1>32 DEF SetMode, Act, others
<1>33. CASE RootsFail
  <2>1. faults' \in 0 .. MaxFaults
    BY <1>33 DEF RootsFail, Fault
  <2>2. files' \in Content /\ digest' \in Content /\ git' \in Git
    BY <1>33, Contents DEF RootsFail
  <2>3. valid' \in BOOLEAN
    BY <1>33 DEF RootsFail
  <2>4. lapse' \in BOOLEAN /\ halved' \in BOOLEAN
    BY <1>33 DEF RootsFail
  <2> QED BY <1>33, <2>1, <2>2, <2>3, <2>4 DEF RootsFail
<1> QED BY <1>1, <1>2, <1>3, <1>4, <1>5, <1>6, <1>7, <1>8, <1>9, <1>10, <1>11, <1>12,
           <1>13, <1>14, <1>15, <1>16, <1>17, <1>18, <1>19, <1>20,
           <1>21, <1>22, <1>23, <1>24, <1>25, <1>26, <1>27, <1>28, <1>29,
           <1>30, <1>31, <1>32, <1>33
       DEF Next, Session, Failure, User

\* Type correctness of the rows, the sessions and the directory.
THEOREM TypeCorrect == Spec => []TypeOK
  BY TypeInit, TypeStep, PTL DEF Spec

-----------------------------------------------------------------------------
(* The lock.                                                               *)

\* Whoever is in the directory holds the row under a live lease.
LockInv ==
  lapse = FALSE =>
    \A w \in Sessions :
      /\ pc[w] # "idle" \/ w \in orphans =>
           job.status = "running" /\ job.owner = w /\ job.lease = TRUE
      /\ pc[w] = "idle" \/ w \notin orphans

LEMMA LockInit == Init => LockInv
  BY DEF Init, LockInv

LEMMA LockStep == TypeOK /\ LockInv /\ [Next]_vars => LockInv'
<1> SUFFICES ASSUME TypeOK /\ LockInv, [Next]_vars PROVE LockInv'
  OBVIOUS
<1> USE DEF LockInv, TypeOK, Job, Goto, GiveUp, store, dir
<1>1. ASSUME NEW w \in Sessions, Claim(w) PROVE LockInv'
  BY <1>1 DEF Claim, claimed_row, claimable, live
<1>2. ASSUME NEW w \in Sessions, Prepare(w) PROVE LockInv'
  BY <1>2 DEF Prepare
<1>3. ASSUME NEW w \in Sessions, Select(w) PROVE LockInv'
  BY <1>3 DEF Select
<1>4. ASSUME NEW w \in Sessions, Sync(w) PROVE LockInv'
  BY <1>4 DEF Sync
<1>5. ASSUME NEW w \in Sessions, NoChanges(w) PROVE LockInv'
  BY <1>5 DEF NoChanges, done_row
<1>6. ASSUME NEW w \in Sessions, Spawn(w) PROVE LockInv'
  BY <1>6 DEF Spawn
<1>7. ASSUME NEW w \in Sessions, DiffFails(w) PROVE LockInv'
  BY <1>7 DEF DiffFails, Failed, failed_row, owns
<1>8. ASSUME NEW w \in Sessions, AgentCompletes(w) PROVE LockInv'
  BY <1>8 DEF AgentCompletes
<1>9. ASSUME NEW w \in Sessions, Shutdown(w) PROVE LockInv'
  BY <1>9 DEF Shutdown, Failed, failed_row, owns
<1>10. ASSUME NEW w \in Sessions, Confirm(w) PROVE LockInv'
  BY <1>10 DEF Confirm, Failed, failed_row, owns
<1>11. ASSUME NEW w \in Sessions, Reset(w) PROVE LockInv'
  BY <1>11 DEF Reset
<1>12. ASSUME NEW w \in Sessions, Succeed(w) PROVE LockInv'
  BY <1>12 DEF Succeed, done_row
<1>13. ASSUME NEW w \in Sessions, StepFails(w) PROVE LockInv'
  BY <1>13 DEF StepFails, Failed, failed_row, owns
<1>14. ASSUME NEW w \in Sessions, AgentErrs(w) PROVE LockInv'
  BY <1>14 DEF AgentErrs
<1>15. ASSUME NEW w \in Sessions, ShutdownTimesOut(w) PROVE LockInv'
  BY <1>15 DEF ShutdownTimesOut, kept_row
<1>16. ASSUME NEW w \in Sessions, ResetFails(w) PROVE LockInv'
  BY <1>16 DEF ResetFails, Failed, failed_row, owns
<1>17. ASSUME NEW w \in Sessions, Crash(w) PROVE LockInv'
  BY <1>17 DEF Crash
<1>18. ASSUME NEW w \in Sessions, Heartbeat(w) PROVE LockInv'
  BY <1>18 DEF Heartbeat, owns
<1>19. ASSUME NEW w \in Sessions, OrphanEnds(w) PROVE LockInv'
  BY <1>19 DEF OrphanEnds
<1>20. ASSUME NEW t \in Threads, Extract(t) PROVE LockInv'
  BY <1>20 DEF Extract, enqueued, others
<1>21. ASSUME NEW t \in Threads, Prune(t) PROVE LockInv'
  BY <1>21 DEF Prune, others
<1>22. ASSUME NEW t \in Threads, Pollute(t) PROVE LockInv'
  BY <1>22 DEF Pollute, enqueued, others
<1>23. ASSUME NEW t \in Threads, DeleteMemory(t) PROVE LockInv'
  BY <1>23 DEF DeleteMemory, enqueued, others
<1>24. ASSUME NEW t \in Threads, DeleteRow(t) PROVE LockInv'
  BY <1>24 DEF DeleteRow, others
<1>25. CASE LeaseExpires
  <2>1. CASE working
    BY <1>25, <2>1 DEF LeaseExpires
  <2>2. CASE ~working
    <3>1. \A w \in Sessions : lapse = FALSE => pc[w] = "idle" /\ w \notin orphans
      BY <2>2, SessionAssumption DEF working, at_work
    <3> QED BY <1>25, <2>2, <3>1 DEF LeaseExpires
  <2> QED BY <2>1, <2>2
<1>26. CASE BackoffElapses
  BY <1>26 DEF BackoffElapses
<1>27. CASE CooldownElapses
  BY <1>27 DEF CooldownElapses
<1>28. CASE ClearRows
  BY <1>28 DEF ClearRows, busy, at_work
<1>29. CASE ClearRoots
  BY <1>29 DEF ClearRoots, busy, at_work
<1>30. CASE UNCHANGED vars
  BY <1>30 DEF vars
<1>31. ASSUME NEW t \in Threads, NoOutput(t) PROVE LockInv'
  BY <1>31 DEF NoOutput, enqueued, others
<1>32. ASSUME NEW t \in Threads, NEW mode \in {"enabled", "disabled"}, SetMode(t, mode)
       PROVE LockInv'
  BY <1>32 DEF SetMode, others
<1>33. CASE RootsFail
  BY <1>33 DEF RootsFail, busy, at_work
<1> HIDE DEF LockInv, TypeOK
<1> QED BY <1>1, <1>2, <1>3, <1>4, <1>5, <1>6, <1>7, <1>8, <1>9, <1>10, <1>11, <1>12,
           <1>13, <1>14, <1>15, <1>16, <1>17, <1>18, <1>19, <1>20,
           <1>21, <1>22, <1>23, <1>24, <1>25, <1>26, <1>27, <1>28, <1>29,
           <1>30, <1>31, <1>32, <1>33
       DEF Next, Session, Failure, User

\* Nobody else is in the directory with a session at work or its agent.
LEMMA Alone ==
  ASSUME TypeOK, LockInv, lapse = FALSE, NEW w \in Sessions,
         pc[w] # "idle" \/ w \in orphans
  PROVE /\ \A v \in Sessions \ {w} : pc[v] = "idle" /\ v \notin orphans
        /\ job.status = "running" /\ job.owner = w
  BY DEF LockInv

-----------------------------------------------------------------------------
(* The directory, while nobody has lost the lock.                          *)

\* What the phases of a session have established.
PhaseInv ==
  lapse = FALSE =>
    \A w \in Sessions :
      /\ pc[w] \notin {"idle", "claimed"} \/ w \in orphans => git.set = TRUE
      /\ pc[w] \in {"completed", "closed", "confirmed", "reset"} => files = digest
      /\ pc[w] \in {"closed", "confirmed", "reset"} => valid = TRUE
      /\ pc[w] = "reset" => git = here

\* A baseline is consolidated; without one the directory itself is, unless a
\* reset stopped halfway.
GitInv ==
  lapse = FALSE /\ halved = FALSE =>
    /\ git.set = TRUE => git.files = git.digest
    /\ git.set = FALSE => files = digest

\* A finished job left the directory clean; none finishes inside a reset.
DoneInv ==
  lapse = FALSE =>
    /\ halved = FALSE /\ job.status = "done" =>
         git = here /\ valid = TRUE /\ files = digest
    /\ clearing = TRUE => job.status \notin {"running", "done"}

DirInv == PhaseInv /\ GitInv /\ DoneInv

LEMMA DirInit == Init => DirInv
  BY DEF Init, DirInv, PhaseInv, GitInv, DoneInv, NoJob, NoGit, Nothing

LEMMA DirStep == TypeOK /\ LockInv /\ DirInv /\ [Next]_vars => DirInv'
<1> SUFFICES ASSUME TypeOK /\ LockInv /\ DirInv, [Next]_vars PROVE DirInv'
  OBVIOUS
<1> USE DEF DirInv, PhaseInv, GitInv, DoneInv, LockInv, TypeOK, Job, Goto, GiveUp, store, dir
<1>1. ASSUME NEW w \in Sessions, Claim(w) PROVE DirInv'
  BY <1>1, Alone DEF Claim, claimed_row, here
<1>2. ASSUME NEW w \in Sessions, Prepare(w) PROVE DirInv'
  BY <1>2, Alone DEF Prepare, ensured, here
<1>3. ASSUME NEW w \in Sessions, Select(w) PROVE DirInv'
  BY <1>3, Alone DEF Select, here
<1>4. ASSUME NEW w \in Sessions, Sync(w) PROVE DirInv'
  BY <1>4, Alone DEF Sync, here
<1>5. ASSUME NEW w \in Sessions, NoChanges(w) PROVE DirInv'
  BY <1>5, Alone DEF NoChanges, done_row, has_changes, owns, here
<1>6. ASSUME NEW w \in Sessions, Spawn(w) PROVE DirInv'
  BY <1>6, Alone DEF Spawn, here
<1>7. ASSUME NEW w \in Sessions, DiffFails(w) PROVE DirInv'
  BY <1>7, Alone DEF DiffFails, Failed, failed_row, owns, here
<1>8. ASSUME NEW w \in Sessions, AgentCompletes(w) PROVE DirInv'
  BY <1>8, Alone DEF AgentCompletes, here
<1>9. ASSUME NEW w \in Sessions, Shutdown(w) PROVE DirInv'
  <2>1. CASE agent_completed(w)
    BY <1>9, <2>1, Alone DEF Shutdown, agent_completed, here
  <2>2. CASE ~agent_completed(w)
    <3>1. job'.status = "error" \/ job' = job
      BY <1>9, <2>2 DEF Shutdown, Failed, failed_row
    <3> QED BY <1>9, <2>2, <3>1, Alone DEF Shutdown, Failed, here
  <2> QED BY <2>1, <2>2
<1>10. ASSUME NEW w \in Sessions, Confirm(w) PROVE DirInv'
  <2>1. CASE pc' = [pc EXCEPT ![w] = "confirmed"] /\ job' = [job EXCEPT !.lease = TRUE]
    BY <1>10, <2>1, Alone DEF Confirm, here
  <2>2. CASE pc' = [pc EXCEPT ![w] = "idle"] /\ (job' = job \/ job' = failed_row(w))
    <3>1. job'.status = "error" \/ job' = job
      BY <2>2 DEF failed_row
    <3> QED BY <1>10, <2>2, <3>1, Alone DEF Confirm, here
  <2> QED BY <1>10, <2>1, <2>2 DEF Confirm, Failed
<1>11. ASSUME NEW w \in Sessions, Reset(w) PROVE DirInv'
  BY <1>11, Alone DEF Reset, here
<1>12. ASSUME NEW w \in Sessions, Succeed(w) PROVE DirInv'
  BY <1>12, Alone DEF Succeed, done_row, owns, here
<1>13. ASSUME NEW w \in Sessions, StepFails(w) PROVE DirInv'
  BY <1>13, Alone DEF StepFails, Failed, failed_row, owns, ensured, here
<1>14. ASSUME NEW w \in Sessions, AgentErrs(w) PROVE DirInv'
  BY <1>14, Alone DEF AgentErrs, here
<1>15. ASSUME NEW w \in Sessions, ShutdownTimesOut(w) PROVE DirInv'
  BY <1>15, Alone DEF ShutdownTimesOut, kept_row, here
<1>16. ASSUME NEW w \in Sessions, ResetFails(w) PROVE DirInv'
  BY <1>16, Alone DEF ResetFails, Failed, failed_row, owns, NoGit, here
<1>17. ASSUME NEW w \in Sessions, Crash(w) PROVE DirInv'
  BY <1>17, Alone DEF Crash, NoGit, at_work, ensured, here
<1>18. ASSUME NEW w \in Sessions, Heartbeat(w) PROVE DirInv'
  BY <1>18, Alone DEF Heartbeat, owns, here
<1>19. ASSUME NEW w \in Sessions, OrphanEnds(w) PROVE DirInv'
  BY <1>19, Alone DEF OrphanEnds, here
<1>20. ASSUME NEW t \in Threads, Extract(t) PROVE DirInv'
  BY <1>20 DEF Extract, enqueued, others, here
<1>21. ASSUME NEW t \in Threads, Prune(t) PROVE DirInv'
  BY <1>21 DEF Prune, others, here
<1>22. ASSUME NEW t \in Threads, Pollute(t) PROVE DirInv'
  <2>1. job'.status = job.status \/ job'.status = "pending"
    BY <1>22 DEF Pollute, enqueued
  <2> QED BY <1>22, <2>1 DEF Pollute, others, here
<1>23. ASSUME NEW t \in Threads, DeleteMemory(t) PROVE DirInv'
  BY <1>23 DEF DeleteMemory, enqueued, others, here
<1>24. ASSUME NEW t \in Threads, DeleteRow(t) PROVE DirInv'
  BY <1>24 DEF DeleteRow, others, here
<1>25. CASE LeaseExpires
  BY <1>25 DEF LeaseExpires, here
<1>26. CASE BackoffElapses
  BY <1>26 DEF BackoffElapses, here
<1>27. CASE CooldownElapses
  BY <1>27 DEF CooldownElapses, here
<1>28. CASE ClearRows
  BY <1>28 DEF ClearRows, busy, at_work, NoJob, here
<1>29. CASE ClearRoots
  BY <1>29 DEF ClearRoots, busy, at_work, NoGit, here
<1>30. CASE UNCHANGED vars
  BY <1>30 DEF vars, here
<1>31. ASSUME NEW t \in Threads, NoOutput(t) PROVE DirInv'
  BY <1>31 DEF NoOutput, enqueued, others, here
<1>32. ASSUME NEW t \in Threads, NEW mode \in {"enabled", "disabled"}, SetMode(t, mode)
       PROVE DirInv'
  BY <1>32 DEF SetMode, others, here
<1>33. CASE RootsFail
  <2> SUFFICES ASSUME lapse' = FALSE PROVE DirInv'
    OBVIOUS
  <2>1. lapse = FALSE /\ \A w \in Sessions : pc'[w] = "idle" /\ w \notin orphans'
    BY <1>33 DEF RootsFail, busy, at_work
  <2>2. PhaseInv'
    BY <2>1
  <2>3. DoneInv'
    BY <1>33, <2>1 DEF RootsFail
  <2>4. GitInv'
    <3> SUFFICES ASSUME halved' = FALSE PROVE GitInv'
      OBVIOUS
    <3>1. halved = FALSE /\ (git'.set \/ files' = digest')
      BY <1>33 DEF RootsFail
    <3>2. git' = git \/ git'.set = FALSE
      BY <1>33 DEF RootsFail, NoGit
    <3> QED BY <2>1, <3>1, <3>2
  <2> QED BY <2>2, <2>3, <2>4
<1> HIDE DEF DirInv, LockInv, TypeOK
<1> QED BY <1>1, <1>2, <1>3, <1>4, <1>5, <1>6, <1>7, <1>8, <1>9, <1>10, <1>11, <1>12,
           <1>13, <1>14, <1>15, <1>16, <1>17, <1>18, <1>19, <1>20,
           <1>21, <1>22, <1>23, <1>24, <1>25, <1>26, <1>27, <1>28, <1>29,
           <1>30, <1>31, <1>32, <1>33
       DEF Next, Session, Failure, User

IInv == TypeOK /\ LockInv /\ DirInv

LEMMA IInvHolds == Spec => []IInv
<1>1. Init => IInv
  BY TypeInit, LockInit, DirInit DEF IInv
<1>2. IInv /\ [Next]_vars => IInv'
  BY TypeStep, LockStep, DirStep DEF IInv
<1> QED BY <1>1, <1>2, PTL DEF Spec

-----------------------------------------------------------------------------
\* Mutual exclusion in the memories directory: as long as no lease ran out
\* and no reset came under somebody at work, there is one session, or one
\* agent left behind, and nobody else.
THEOREM OneWriterHolds == Spec => []OneWriter
<1>1. IInv => OneWriter
  <2> SUFFICES ASSUME IInv, lapse = FALSE
               PROVE Cardinality({w \in Sessions : at_work(w)}) + Cardinality(orphans) <= 1
    BY DEF OneWriter, IInv, TypeOK
  <2> DEFINE A == {w \in Sessions : at_work(w)}
  <2>1. A = {} \/ A = {job.owner}
    BY DEF IInv, LockInv, at_work
  <2>2. orphans = {} \/ orphans = {job.owner}
    BY DEF IInv, LockInv, TypeOK
  <2>3. A = {} \/ orphans = {}
    BY <2>1, <2>2 DEF IInv, LockInv, TypeOK, at_work
  <2>4. Cardinality({}) = 0 /\ Cardinality({job.owner}) = 1
    BY FS_EmptySet, FS_Singleton
  <2> HIDE DEF A
  <2>5. Cardinality(A) + Cardinality(orphans) <= 1
    BY <2>1, <2>2, <2>3, <2>4
  <2> QED BY <2>5 DEF A
<1> QED BY <1>1, IInvHolds, PTL

\* Nothing enters the baseline unconsolidated, wherever a session or a reset
\* fails, short of a reset that lost the baseline and left inputs and
\* artifacts apart; and then only until a consolidation or a reset completes.
THEOREM BaselineIsDigestedHolds == Spec => []BaselineIsDigested
<1>1. IInv => BaselineIsDigested
  BY DEF IInv, DirInv, GitInv, BaselineIsDigested, TypeOK
<1> QED BY <1>1, IInvHolds, PTL

\* A job marked done left baseline, inputs and artifacts in agreement, with
\* the same exception.
THEOREM DoneIsCleanHolds == Spec => []DoneIsClean
<1>1. IInv => DoneIsClean
  BY DEF IInv, DirInv, DoneInv, DoneIsClean, TypeOK
<1> QED BY <1>1, IInvHolds, PTL

LEMMA FinishStep ==
  TypeOK /\ [Next]_vars =>
    (job.status = "running" /\ job'.status \in {"done", "error"}
       => at_work(job.owner) /\ pc'[job.owner] = "idle")
<1> SUFFICES ASSUME TypeOK, [Next]_vars, job.status = "running", job'.status \in {"done", "error"}
             PROVE at_work(job.owner) /\ pc'[job.owner] = "idle"
  OBVIOUS
<1> DEFINE P == at_work(job.owner) /\ pc'[job.owner] = "idle"
<1> USE DEF TypeOK, Job, Goto, GiveUp, at_work
<1>1. ASSUME NEW w \in Sessions, Claim(w) PROVE P
  BY <1>1 DEF Claim, claimed_row
<1>2. ASSUME NEW w \in Sessions, Prepare(w) PROVE P
  BY <1>2 DEF Prepare
<1>3. ASSUME NEW w \in Sessions, Select(w) PROVE P
  BY <1>3 DEF Select
<1>4. ASSUME NEW w \in Sessions, Sync(w) PROVE P
  BY <1>4 DEF Sync
<1>5. ASSUME NEW w \in Sessions, NoChanges(w) PROVE P
  BY <1>5 DEF NoChanges, done_row, owns
<1>6. ASSUME NEW w \in Sessions, Spawn(w) PROVE P
  BY <1>6 DEF Spawn
<1>7. ASSUME NEW w \in Sessions, DiffFails(w) PROVE P
  BY <1>7 DEF DiffFails, Failed, failed_row, owns
<1>8. ASSUME NEW w \in Sessions, AgentCompletes(w) PROVE P
  BY <1>8 DEF AgentCompletes
<1>9. ASSUME NEW w \in Sessions, Shutdown(w) PROVE P
  BY <1>9 DEF Shutdown, Failed, failed_row, owns
<1>10. ASSUME NEW w \in Sessions, Confirm(w) PROVE P
  BY <1>10 DEF Confirm, Failed, failed_row, owns
<1>11. ASSUME NEW w \in Sessions, Reset(w) PROVE P
  BY <1>11 DEF Reset
<1>12. ASSUME NEW w \in Sessions, Succeed(w) PROVE P
  BY <1>12 DEF Succeed, done_row, owns
<1>13. ASSUME NEW w \in Sessions, StepFails(w) PROVE P
  BY <1>13 DEF StepFails, Failed, failed_row, owns
<1>14. ASSUME NEW w \in Sessions, AgentErrs(w) PROVE P
  BY <1>14 DEF AgentErrs
<1>15. ASSUME NEW w \in Sessions, ShutdownTimesOut(w) PROVE P
  BY <1>15 DEF ShutdownTimesOut, kept_row
<1>16. ASSUME NEW w \in Sessions, ResetFails(w) PROVE P
  BY <1>16 DEF ResetFails, Failed, failed_row, owns
<1>17. ASSUME NEW w \in Sessions, Crash(w) PROVE P
  BY <1>17 DEF Crash
<1>18. ASSUME NEW w \in Sessions, Heartbeat(w) PROVE P
  BY <1>18 DEF Heartbeat
<1>19. ASSUME NEW w \in Sessions, OrphanEnds(w) PROVE P
  BY <1>19 DEF OrphanEnds
<1>20. ASSUME NEW t \in Threads, Extract(t) PROVE P
  BY <1>20 DEF Extract, enqueued
<1>21. ASSUME NEW t \in Threads, Prune(t) PROVE P
  BY <1>21 DEF Prune
<1>22. ASSUME NEW t \in Threads, Pollute(t) PROVE P
  BY <1>22 DEF Pollute, enqueued
<1>23. ASSUME NEW t \in Threads, DeleteMemory(t) PROVE P
  BY <1>23 DEF DeleteMemory, enqueued
<1>24. ASSUME NEW t \in Threads, DeleteRow(t) PROVE P
  BY <1>24 DEF DeleteRow
<1>25. CASE LeaseExpires
  BY <1>25 DEF LeaseExpires
<1>26. CASE BackoffElapses
  BY <1>26 DEF BackoffElapses
<1>27. CASE CooldownElapses
  BY <1>27 DEF CooldownElapses
<1>28. CASE ClearRows
  BY <1>28 DEF ClearRows, NoJob
<1>29. CASE ClearRoots
  BY <1>29 DEF ClearRoots
<1>30. CASE UNCHANGED vars
  BY <1>30 DEF vars
<1>31. ASSUME NEW t \in Threads, NoOutput(t) PROVE P
  BY <1>31 DEF NoOutput, enqueued
<1>32. ASSUME NEW t \in Threads, NEW mode \in {"enabled", "disabled"}, SetMode(t, mode)
       PROVE P
  BY <1>32 DEF SetMode
<1>33. CASE RootsFail
  BY <1>33 DEF RootsFail
<1> QED BY <1>1, <1>2, <1>3, <1>4, <1>5, <1>6, <1>7, <1>8, <1>9, <1>10, <1>11, <1>12,
           <1>13, <1>14, <1>15, <1>16, <1>17, <1>18, <1>19, <1>20,
           <1>21, <1>22, <1>23, <1>24, <1>25, <1>26, <1>27, <1>28, <1>29,
           <1>30, <1>31, <1>32, <1>33
       DEF Next, Session, Failure, User

\* The token fences the row: whatever a former owner reports, a running
\* job is finished by the session that holds it.
THEOREM FinishedByOwnerHolds == Spec => FinishedByOwner
<1>1. TypeOK /\ [Next]_vars =>
        [job.status = "running" /\ job'.status \in {"done", "error"}
           => at_work(job.owner) /\ pc'[job.owner] = "idle"]_vars
  BY FinishStep
<1> QED BY <1>1, TypeCorrect, PTL DEF Spec, FinishedByOwner
=============================================================================
