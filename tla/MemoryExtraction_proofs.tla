----------------------- MODULE MemoryExtraction_proofs -----------------------
(***************************************************************************)
(* Proofs for MemoryExtraction, for every finite set of threads, every set *)
(* of sessions and every bound.  The inductive invariant ties a claim a    *)
(* session holds to the row that carries its token: same version, newer    *)
(* than the stored output, retries left, and not taken before the thread   *)
(* was last forgotten.                                                     *)
(***************************************************************************)
EXTENDS MemoryExtraction, FiniteSetTheorems, TLAPS

USE CapAssumption, RetriesAssumption, VersionAssumption, BoundAssumption
USE DEF counts

LEMMA TypeInit == Init => TypeOK
<1> SUFFICES ASSUME Init PROVE TypeOK
  OBVIOUS
<1> USE DEF Init, Nothing, Version
<1>1. job \in [Threads -> Job]
  BY DEF Job, NoJob
<1>2. list \in [Sessions -> [Threads -> Version]] /\ held \in [Sessions -> [Threads -> Version]]
  OBVIOUS
<1>3. row \in [Threads -> {"enabled", "disabled", "polluted", "gone"}] /\ out \in [Threads -> Version]
  OBVIOUS
<1>4. /\ fails \in [Threads -> Nat] /\ allowed \in [Threads -> Nat]
      /\ peak \in [Threads -> Version] /\ updated \in [Threads -> 1 .. MaxVersion]
  OBVIOUS
<1>5. pc \in [Sessions -> {"idle", "phase1", "jobs"}]
  OBVIOUS
<1> QED BY <1>1, <1>2, <1>3, <1>4, <1>5 DEF TypeOK

\* The rows the steps write; a failure needs a retry to take.
LEMMA JobRows ==
  ASSUME TypeOK, NEW t \in Threads
  PROVE /\ \A w \in Sessions, v \in Version : claimed_row(w, t, v) \in Job
        /\ done_row(t) \in Job /\ NoJob \in Job
        /\ job[t].retries > 0 => failed_row(t) \in Job
        /\ [job[t] EXCEPT !.lease = FALSE] \in Job
        /\ [job[t] EXCEPT !.backoff = FALSE] \in Job
<1> USE DEF Job, Version
<1>1. job[t] \in Job
  BY DEF TypeOK
<1>2. ASSUME NEW w \in Sessions, NEW v \in Version PROVE claimed_row(w, t, v) \in Job
  <2> DEFINE r == IF newer(t, v) THEN Retries ELSE job[t].retries
  <2>1. r \in 0 .. Retries
    BY <1>1
  <2> HIDE DEF r
  <2>2. [job[t] EXCEPT !.status = "running", !.owner = w, !.lease = TRUE,
           !.backoff = FALSE, !.input = v, !.retries = r] \in Job
    BY <1>1, <2>1
  <2> QED BY <2>2 DEF claimed_row, r
<1>3. done_row(t) \in Job
  BY <1>1 DEF done_row
<1>4. ASSUME job[t].retries > 0 PROVE failed_row(t) \in Job
  <2>1. job[t].retries - 1 \in 0 .. Retries
    BY <1>1, <1>4
  <2> DEFINE r == job[t].retries - 1
  <2> HIDE DEF r
  <2>2. [job[t] EXCEPT !.status = "error", !.lease = FALSE, !.backoff = TRUE,
           !.retries = r] \in Job
    BY <1>1, <2>1 DEF r
  <2> QED BY <2>2 DEF failed_row, r
<1>5. NoJob \in Job
  BY DEF NoJob
<1> QED BY <1>1, <1>2, <1>3, <1>4, <1>5

-----------------------------------------------------------------------------
(* Retries: what is left and the failures so far never exceed what was     *)
(* granted; a lowered watermark has its refill reserved.                   *)

RetryOf(t) ==
  /\ job[t].status = "none" =>
       fails[t] = 0 /\ job[t].input = 0 /\ peak[t] = 0 /\ job[t].retries = 0
  /\ job[t].input <= peak[t]
  /\ fails[t] + job[t].retries <= allowed[t]
  /\ job[t].input < peak[t] => fails[t] + job[t].retries + Retries <= allowed[t]
  /\ job[t].status = "running" => job[t].retries > 0

RetryInv == \A t \in Threads : RetryOf(t)

LEMMA RetryInit == Init => RetryInv
  BY DEF Init, RetryInv, RetryOf, NoJob, Nothing

CountTypes == /\ peak \in [Threads -> Version]
              /\ fails \in [Threads -> Nat] /\ allowed \in [Threads -> Nat]

LEMMA ForgetType ==
  ASSUME TypeOK, NEW S \in SUBSET Threads, Forget(S)
  PROVE /\ out' \in [Threads -> Version] /\ CountTypes'
        /\ job' \in [Threads -> Job] /\ undead' \in SUBSET Threads
        /\ void' \in SUBSET (Sessions \X Threads)
<1> USE DEF TypeOK, Forget
<1>1. NoJob \in Job
  BY DEF NoJob, Job, Version
<1>2. out' \in [Threads -> Version] /\ CountTypes'
  BY DEF Version, CountTypes
<1>3. job' \in [Threads -> Job]
  BY <1>1
<1>4. undead' \in SUBSET Threads /\ void' \in SUBSET (Sessions \X Threads)
  OBVIOUS
<1> QED BY <1>2, <1>3, <1>4

LEMMA TypeStep == TypeOK /\ RetryInv /\ [Next]_vars => TypeOK'
<1> SUFFICES ASSUME TypeOK /\ RetryInv, [Next]_vars PROVE TypeOK'
  OBVIOUS
<1> USE DEF TypeOK, RetryInv, RetryOf
<1>1. ASSUME NEW w \in Sessions, Startup(w) PROVE TypeOK'
  <2>1. out' \in [Threads -> Version]
    BY <1>1 DEF Startup, Version
  <2>2. faults' \in 0 .. MaxFaults
    BY <1>1 DEF Startup
  <2>3. pc' \in [Sessions -> {"idle", "phase1", "jobs"}]
    BY <1>1 DEF Startup
  <2> QED BY <1>1, <2>1, <2>2, <2>3 DEF Startup, history
<1>2. ASSUME NEW w \in Sessions, Scan(w) PROVE TypeOK'
  BY <1>2, JobRows DEF Scan, history, Version
<1>3. ASSUME NEW w \in Sessions, Claim(w) PROVE TypeOK'
  <2>1. PICK t \in Threads :
          /\ \/ list' = [list EXCEPT ![w] = [list[w] EXCEPT ![t] = 0]]
             \/ list' = [list EXCEPT ![w] = Nothing]
          /\ \/ UNCHANGED <<job, held, counts>>
             \/ /\ job' = [job EXCEPT ![t] = claimed_row(w, t, list[w][t])]
                /\ held' = [held EXCEPT ![w][t] = list[w][t]]
                /\ Account(t, list[w][t])
    BY <1>3 DEF Claim
  <2>2. list[w][t] \in Version /\ 0 \in Version /\ list[w] \in [Threads -> Version]
    BY DEF Version
  <2>3. list' \in [Sessions -> [Threads -> Version]]
    <3>1. [list[w] EXCEPT ![t] = 0] \in [Threads -> Version] /\ Nothing \in [Threads -> Version]
      BY <2>2 DEF Nothing
    <3> QED BY <2>1, <3>1
  <2>4. held' \in [Sessions -> [Threads -> Version]]
    <3>1. CASE held' = held
      BY <3>1
    <3>2. CASE held' = [held EXCEPT ![w][t] = list[w][t]]
      BY <3>2, <2>2
    <3> QED BY <2>1, <3>1, <3>2
  <2>5. claimed_row(w, t, list[w][t]) \in Job
    BY <2>2, JobRows
  <2>6. job' \in [Threads -> Job]
    BY <2>1, <2>5
  <2>7. CountTypes'
    <3>1. CASE UNCHANGED counts
      BY <3>1 DEF CountTypes
    <3>2. CASE Account(t, list[w][t])
      BY <3>2, <2>2 DEF Account, CountTypes, Version
    <3> QED BY <2>1, <3>1, <3>2
  <2> QED BY <1>3, <2>3, <2>4, <2>6, <2>7 DEF Claim, CountTypes
<1>4. ASSUME NEW w \in Sessions, PhaseOneEnds(w) PROVE TypeOK'
  BY <1>4, JobRows DEF PhaseOneEnds, Nothing, history, Version
<1>5. ASSUME NEW w \in Sessions, ClaimError(w) PROVE TypeOK'
  BY <1>5, JobRows DEF ClaimError, Nothing, Version
<1>6. ASSUME NEW w \in Sessions, Crash(w) PROVE TypeOK'
  BY <1>6, JobRows DEF Crash, Nothing, Version
<1>7. ASSUME NEW w \in Sessions, NEW t \in Threads, Succeed(w, t) PROVE TypeOK'
  <2>1. 0 \in Version /\ held[w][t] \in Version
    BY DEF Version
  <2>2. held' \in [Sessions -> [Threads -> Version]] /\ void' \in SUBSET (Sessions \X Threads)
    BY <1>7, <2>1 DEF Succeed, Drop
  <2>3. job' \in [Threads -> Job]
    BY <1>7, JobRows DEF Succeed, owns
  <2>4. out' \in [Threads -> Version] /\ undead' \in SUBSET Threads
    BY <1>7, <2>1 DEF Succeed
  <2> QED BY <1>7, <2>2, <2>3, <2>4 DEF Succeed
<1>8. ASSUME NEW w \in Sessions, NEW t \in Threads, NoOutput(w, t) PROVE TypeOK'
  <2>1. 0 \in Version /\ held[w][t] \in Version
    BY DEF Version
  <2>2. held' \in [Sessions -> [Threads -> Version]] /\ void' \in SUBSET (Sessions \X Threads)
    BY <1>8, <2>1 DEF NoOutput, Drop
  <2>3. job' \in [Threads -> Job]
    BY <1>8, JobRows DEF NoOutput, owns
  <2>4. out' \in [Threads -> Version]
    BY <1>8, <2>1 DEF NoOutput
  <2> QED BY <1>8, <2>2, <2>3, <2>4 DEF NoOutput
<1>9. ASSUME NEW w \in Sessions, NEW t \in Threads, Fail(w, t) PROVE TypeOK'
  <2>1. 0 \in Version /\ held[w][t] \in Version
    BY DEF Version
  <2>2. held' \in [Sessions -> [Threads -> Version]] /\ void' \in SUBSET (Sessions \X Threads)
    BY <1>9, <2>1 DEF Fail, Drop
  <2>3. job' \in [Threads -> Job]
    BY <1>9, JobRows DEF Fail, owns
  <2>4. fails' \in [Threads -> Nat]
    BY <1>9 DEF Fail
  <2> QED BY <1>9, <2>2, <2>3, <2>4 DEF Fail
<1>10. ASSUME NEW w \in Sessions, NEW t \in Threads, ReportLost(w, t) PROVE TypeOK'
  BY <1>10, JobRows DEF ReportLost, Drop, Version
<1>11. ASSUME NEW t \in Threads, LeaseExpires(t) PROVE TypeOK'
  <2>1. job' \in [Threads -> Job]
    BY <1>11, JobRows DEF LeaseExpires
  <2>2. faults' \in 0 .. MaxFaults
    BY <1>11 DEF LeaseExpires
  <2> QED BY <1>11, <2>1, <2>2 DEF LeaseExpires, history
<1>12. ASSUME NEW t \in Threads, BackoffElapses(t) PROVE TypeOK'
  BY <1>12, JobRows DEF BackoffElapses, history
<1>13. ASSUME NEW t \in Threads, Touch(t) PROVE TypeOK'
  BY <1>13, JobRows DEF Touch, Act, history
<1>14. ASSUME NEW t \in Threads, Pollute(t) PROVE TypeOK'
  BY <1>14, JobRows DEF Pollute, Act, history
<1>15. ASSUME NEW t \in Threads, DeleteMemory(t) PROVE TypeOK'
  <2>1. acts' \in 0 .. MaxActs
    BY <1>15 DEF DeleteMemory, Act
  <2>2. /\ out' \in [Threads -> Version] /\ CountTypes'
        /\ job' \in [Threads -> Job] /\ undead' \in SUBSET Threads
        /\ void' \in SUBSET (Sessions \X Threads)
    BY <1>15, ForgetType DEF DeleteMemory
  <2> QED BY <1>15, <2>1, <2>2 DEF DeleteMemory, CountTypes
<1>16. ASSUME NEW t \in Threads, DeleteRow(t) PROVE TypeOK'
  BY <1>16, JobRows DEF DeleteRow, history
<1>17. CASE ClearMemory
  <2>1. acts' \in 0 .. MaxActs
    BY <1>17 DEF ClearMemory, Act
  <2>2. /\ out' \in [Threads -> Version] /\ CountTypes'
        /\ job' \in [Threads -> Job] /\ undead' \in SUBSET Threads
        /\ void' \in SUBSET (Sessions \X Threads)
    BY <1>17, ForgetType DEF ClearMemory
  <2> QED BY <1>17, <2>1, <2>2 DEF ClearMemory, CountTypes
<1>18. CASE UNCHANGED vars
  BY <1>18 DEF vars, history
<1>19. ASSUME NEW t \in Threads, NEW mode \in {"enabled", "disabled"}, SetMode(t, mode)
       PROVE TypeOK'
  BY <1>19, JobRows DEF SetMode, Act, history
<1> QED BY <1>1, <1>2, <1>3, <1>4, <1>5, <1>6, <1>7, <1>8, <1>9, <1>10, <1>11,
           <1>12, <1>13, <1>14, <1>15, <1>16, <1>17, <1>18, <1>19
       DEF Next, Session, Fault, Report, Clock, User

\* What a claim does: the list shrinks, and a row is taken or nothing else.
LEMMA ClaimEffect ==
  ASSUME TypeOK, NEW w \in Sessions, Claim(w)
  PROVE /\ pc[w] = "jobs" /\ UNCHANGED <<pc, out, void, undead>>
        /\ \A x \in Sessions \ {w} : list'[x] = list[x]
        /\ \E t \in Threads :
             /\ list[w][t] > 0 /\ list'[w][t] = 0
             /\ \A u \in Threads : list'[w][u] > 0 => list[w][u] > 0
             /\ \/ UNCHANGED <<job, held, counts>>
                \/ /\ claimable(t, list[w][t])
                   /\ job' = [job EXCEPT ![t] = claimed_row(w, t, list[w][t])]
                   /\ held' = [held EXCEPT ![w][t] = list[w][t]]
                   /\ Account(t, list[w][t])
<1>1. PICK t \in Threads :
        /\ list[w][t] > 0
        /\ \/ list' = [list EXCEPT ![w] = [list[w] EXCEPT ![t] = 0]]
           \/ list' = [list EXCEPT ![w] = Nothing]
        /\ \/ UNCHANGED <<job, held, counts>>
           \/ /\ claimable(t, list[w][t])
              /\ job' = [job EXCEPT ![t] = claimed_row(w, t, list[w][t])]
              /\ held' = [held EXCEPT ![w][t] = list[w][t]]
              /\ Account(t, list[w][t])
  BY DEF Claim
<1>2. list \in [Sessions -> [Threads -> Version]]
  BY DEF TypeOK
<1>3. \A x \in Sessions \ {w} : list'[x] = list[x]
  BY <1>1, <1>2
<1>4. list'[w][t] = 0 /\ \A u \in Threads : list'[w][u] > 0 => list[w][u] > 0
  <2>1. CASE list' = [list EXCEPT ![w] = [list[w] EXCEPT ![t] = 0]]
    BY <1>2, <2>1
  <2>2. CASE list' = [list EXCEPT ![w] = Nothing]
    BY <1>2, <2>2 DEF Nothing
  <2> QED BY <1>1, <2>1, <2>2
<1>5. pc[w] = "jobs" /\ UNCHANGED <<pc, out, void, undead>>
  BY DEF Claim
<1> QED BY <1>1, <1>3, <1>4, <1>5

\* The fields of the rows the reports and the claims write.
LEMMA RowFields ==
  ASSUME TypeOK, NEW t \in Threads
  PROVE /\ done_row(t).status = "done" /\ done_row(t).retries = job[t].retries
        /\ done_row(t).success = job[t].input /\ done_row(t).input = job[t].input
        /\ failed_row(t).status = "error"
        /\ failed_row(t).retries = job[t].retries - 1
        /\ failed_row(t).success = job[t].success /\ failed_row(t).input = job[t].input
        /\ \A w, v : /\ claimed_row(w, t, v).status = "running"
                      /\ claimed_row(w, t, v).owner = w
                      /\ claimed_row(w, t, v).input = v
                      /\ claimed_row(w, t, v).success = job[t].success
<1>1. job[t] \in Job
  BY DEF TypeOK
<1> QED BY <1>1 DEF done_row, failed_row, claimed_row, Job

\* A step that leaves input, retries and status of a row alone, and the
\* history, keeps its account.
LEMMA SameRetry ==
  ASSUME RetryInv, UNCHANGED counts,
         \A t \in Threads : /\ job'[t].status = job[t].status /\ job'[t].input = job[t].input
                            /\ job'[t].retries = job[t].retries
  PROVE RetryInv'
BY DEF RetryInv, RetryOf

\* A step that changes the account of one thread.
LEMMA OneRetry ==
  ASSUME RetryInv, NEW t \in Threads, RetryOf(t)',
         \A u \in Threads \ {t} : /\ job'[u] = job[u] /\ peak'[u] = peak[u]
                                  /\ fails'[u] = fails[u] /\ allowed'[u] = allowed[u]
  PROVE RetryInv'
<1>1. ASSUME NEW u \in Threads PROVE RetryOf(u)'
  <2>1. CASE u = t
    BY <2>1
  <2>2. CASE u # t
    BY <2>2 DEF RetryInv, RetryOf
  <2> QED BY <2>1, <2>2
<1> QED BY <1>1 DEF RetryInv

LEMMA ClaimRetry ==
  ASSUME TypeOK, RetryInv, NEW w \in Sessions, NEW t \in Threads, list[w][t] > 0,
         claimable(t, list[w][t]),
         job' = [job EXCEPT ![t] = claimed_row(w, t, list[w][t])],
         Account(t, list[w][t])
  PROVE RetryInv'
<1> DEFINE v == list[w][t]
<1>1. /\ v \in Nat /\ v > 0 /\ peak[t] \in Nat /\ fails[t] \in Nat /\ allowed[t] \in Nat
      /\ job[t].input \in Nat /\ job[t].retries \in Nat /\ Retries \in Nat \ {0}
      /\ job[t].retries <= Retries
  BY DEF TypeOK, Version, Job
<1>2. /\ job'[t].status = "running" /\ job'[t].input = v
      /\ job'[t].retries = IF v > job[t].input THEN Retries ELSE job[t].retries
  BY DEF TypeOK, claimed_row, Job, newer
<1>3. /\ peak'[t] = IF v > peak[t] THEN v ELSE peak[t]
      /\ fails'[t] = IF v > peak[t] THEN 0 ELSE fails[t]
      /\ allowed'[t] = IF v > peak[t] THEN Retries
                      ELSE IF v < peak[t] THEN allowed[t] + Retries ELSE allowed[t]
  BY DEF TypeOK, Account
<1>4. RetryOf(t)
  BY DEF RetryInv
<1>5. v > job[t].input \/ (job[t].status # "none" /\ job[t].retries > 0)
  BY <1>1, <1>4 DEF claimable, may_retry, newer, RetryOf
<1> HIDE DEF v
<1>6. ASSUME v > peak[t] PROVE RetryOf(t)'
  BY <1>1, <1>2, <1>3, <1>4, <1>6 DEF RetryOf
<1>7. ASSUME v < peak[t] PROVE RetryOf(t)'
  BY <1>1, <1>2, <1>3, <1>4, <1>5, <1>7 DEF RetryOf
<1>8. ASSUME v = peak[t] PROVE RetryOf(t)'
  BY <1>1, <1>2, <1>3, <1>4, <1>5, <1>8 DEF RetryOf
<1>9. RetryOf(t)'
  BY <1>1, <1>6, <1>7, <1>8
<1>10. \A u \in Threads \ {t} : /\ job'[u] = job[u] /\ peak'[u] = peak[u]
                                /\ fails'[u] = fails[u] /\ allowed'[u] = allowed[u]
  BY DEF TypeOK, Account
<1> QED BY <1>9, <1>10, OneRetry

LEMMA ForgetRetry ==
  ASSUME TypeOK, RetryInv, NEW S \in SUBSET Threads, Forget(S)
  PROVE RetryInv'
<1>1. ASSUME NEW u \in Threads PROVE RetryOf(u)'
  <2>1. CASE u \in S
    <3>1. job'[u] = NoJob /\ peak'[u] = 0 /\ fails'[u] = 0 /\ allowed'[u] = Retries
      BY <2>1 DEF Forget
    <3> QED BY <3>1 DEF RetryOf, NoJob
  <2>2. CASE u \notin S
    <3>1. /\ job'[u] = job[u] /\ peak'[u] = peak[u] /\ fails'[u] = fails[u]
          /\ allowed'[u] = allowed[u]
      BY <2>2 DEF Forget
    <3> QED BY <3>1 DEF RetryOf, RetryInv
  <2> QED BY <2>1, <2>2
<1> QED BY <1>1 DEF RetryInv

LEMMA RetryStep == TypeOK /\ RetryInv /\ [Next]_vars => RetryInv'
<1> SUFFICES ASSUME TypeOK, RetryInv, [Next]_vars PROVE RetryInv'
  OBVIOUS
<1>1. ASSUME NEW w \in Sessions, Startup(w) PROVE RetryInv'
  BY <1>1, SameRetry DEF Startup, history
<1>2. ASSUME NEW w \in Sessions, Scan(w) PROVE RetryInv'
  BY <1>2, SameRetry DEF Scan, history
<1>3. ASSUME NEW w \in Sessions, Claim(w) PROVE RetryInv'
  <2>1. PICK t \in Threads :
          /\ list[w][t] > 0
          /\ \/ UNCHANGED <<job, held, counts>>
             \/ /\ claimable(t, list[w][t])
                /\ job' = [job EXCEPT ![t] = claimed_row(w, t, list[w][t])]
                /\ Account(t, list[w][t])
    BY <1>3, ClaimEffect
  <2>2. CASE UNCHANGED <<job, held, counts>>
    BY <2>2, SameRetry
  <2> QED BY <2>1, <2>2, ClaimRetry
<1>4. ASSUME NEW w \in Sessions, PhaseOneEnds(w) PROVE RetryInv'
  BY <1>4, SameRetry DEF PhaseOneEnds, history
<1>5. ASSUME NEW w \in Sessions, ClaimError(w) PROVE RetryInv'
  BY <1>5, SameRetry DEF ClaimError, history
<1>6. ASSUME NEW w \in Sessions, Crash(w) PROVE RetryInv'
  BY <1>6, SameRetry DEF Crash, history
<1>7. ASSUME NEW w \in Sessions, NEW t \in Threads, Succeed(w, t) PROVE RetryInv'
  <2>1. CASE ~owns(w, t)
    BY <1>7, <2>1, SameRetry DEF Succeed
  <2>2. CASE owns(w, t)
    <3>1. job'[t] = done_row(t) /\ (\A u \in Threads \ {t} : job'[u] = job[u]) /\ UNCHANGED counts
      BY <1>7, <2>2 DEF Succeed, TypeOK
    <3>2. RetryOf(t)'
      BY <2>2, <3>1, RowFields DEF RetryInv, RetryOf, owns
    <3> QED BY <3>1, <3>2, OneRetry
  <2> QED BY <2>1, <2>2
<1>8. ASSUME NEW w \in Sessions, NEW t \in Threads, NoOutput(w, t) PROVE RetryInv'
  <2>1. CASE ~owns(w, t)
    BY <1>8, <2>1, SameRetry DEF NoOutput
  <2>2. CASE owns(w, t)
    <3>1. job'[t] = done_row(t) /\ (\A u \in Threads \ {t} : job'[u] = job[u]) /\ UNCHANGED counts
      BY <1>8, <2>2 DEF NoOutput, TypeOK
    <3>2. RetryOf(t)'
      BY <2>2, <3>1, RowFields DEF RetryInv, RetryOf, owns
    <3> QED BY <3>1, <3>2, OneRetry
  <2> QED BY <2>1, <2>2
<1>9. ASSUME NEW w \in Sessions, NEW t \in Threads, Fail(w, t) PROVE RetryInv'
  <2>1. CASE ~owns(w, t)
    BY <1>9, <2>1, SameRetry DEF Fail
  <2>2. CASE owns(w, t)
    <3>1. /\ job'[t] = failed_row(t) /\ (\A u \in Threads \ {t} : job'[u] = job[u])
          /\ fails'[t] = fails[t] + 1 /\ (\A u \in Threads \ {t} : fails'[u] = fails[u])
          /\ UNCHANGED <<peak, allowed>>
      BY <1>9, <2>2 DEF Fail, TypeOK
    <3>2. /\ fails[t] \in Nat /\ allowed[t] \in Nat /\ job[t].retries \in Nat
          /\ job[t].input \in Nat /\ peak[t] \in Nat
      BY DEF TypeOK, Job, Version
    <3>3. RetryOf(t)
      BY DEF RetryInv
    <3>4. /\ job'[t].status = "error" /\ job'[t].retries = job[t].retries - 1
          /\ job'[t].input = job[t].input
      BY <3>1, RowFields
    <3>5. RetryOf(t)'
      BY <3>1, <3>2, <3>3, <3>4 DEF RetryOf
    <3> QED BY <3>1, <3>5, OneRetry
  <2> QED BY <2>1, <2>2
<1>10. ASSUME NEW w \in Sessions, NEW t \in Threads, ReportLost(w, t) PROVE RetryInv'
  BY <1>10, SameRetry DEF ReportLost, history
<1>11. ASSUME NEW t \in Threads, LeaseExpires(t) PROVE RetryInv'
  <2>1. \A u \in Threads : /\ job'[u].status = job[u].status /\ job'[u].input = job[u].input
                           /\ job'[u].retries = job[u].retries
    BY <1>11 DEF LeaseExpires, TypeOK, Job
  <2> QED BY <1>11, <2>1, SameRetry DEF LeaseExpires, history
<1>12. ASSUME NEW t \in Threads, BackoffElapses(t) PROVE RetryInv'
  <2>1. \A u \in Threads : /\ job'[u].status = job[u].status /\ job'[u].input = job[u].input
                           /\ job'[u].retries = job[u].retries
    BY <1>12 DEF BackoffElapses, TypeOK, Job
  <2> QED BY <1>12, <2>1, SameRetry DEF BackoffElapses, history
<1>13. ASSUME NEW t \in Threads, Touch(t) PROVE RetryInv'
  BY <1>13, SameRetry DEF Touch, history
<1>14. ASSUME NEW t \in Threads, Pollute(t) PROVE RetryInv'
  BY <1>14, SameRetry DEF Pollute, history
<1>15. ASSUME NEW t \in Threads, DeleteMemory(t) PROVE RetryInv'
  BY <1>15, ForgetRetry DEF DeleteMemory
<1>16. ASSUME NEW t \in Threads, DeleteRow(t) PROVE RetryInv'
  BY <1>16, SameRetry DEF DeleteRow, history
<1>17. CASE ClearMemory
  BY <1>17, ForgetRetry DEF ClearMemory
<1>18. CASE UNCHANGED vars
  BY <1>18, SameRetry DEF vars, history
<1>19. ASSUME NEW t \in Threads, NEW mode, SetMode(t, mode) PROVE RetryInv'
  BY <1>19, SameRetry DEF SetMode, history
<1> QED BY <1>1, <1>2, <1>3, <1>4, <1>5, <1>6, <1>7, <1>8, <1>9, <1>10, <1>11,
           <1>12, <1>13, <1>14, <1>15, <1>16, <1>17, <1>18, <1>19
       DEF Next, Session, Fault, Report, Clock, User

-----------------------------------------------------------------------------
(* Claims: what a session holds, against the row of the thread.            *)

ClaimInv ==
  \A w \in Sessions :
    /\ pc[w] # "jobs" => held[w] = Nothing /\ list[w] = Nothing
    /\ \A t \in Threads :
         /\ list[w][t] > 0 => held[w][t] = 0
         /\ owns(w, t) /\ held[w][t] > 0 =>
              job[t].input = held[w][t] /\ out[t] < held[w][t]
         /\ <<w, t>> \in void => held[w][t] > 0 /\ ~owns(w, t)

IInv == TypeOK /\ RetryInv /\ ClaimInv /\ OutputIsLastSuccess
             /\ ForgottenStaysForgotten

LEMMA ClaimInit == Init => ClaimInv /\ OutputIsLastSuccess /\ ForgottenStaysForgotten
  BY DEF Init, ClaimInv, owns, Nothing, NoJob, OutputIsLastSuccess,
         ForgottenStaysForgotten

LEMMA ForgetClaims ==
  ASSUME IInv, NEW S \in SUBSET Threads, Forget(S), UNCHANGED <<pc, list, held>>
  PROVE ClaimInv' /\ OutputIsLastSuccess' /\ ForgottenStaysForgotten'
<1> USE DEF IInv, TypeOK, ClaimInv, OutputIsLastSuccess, ForgottenStaysForgotten
<1>1. /\ \A u \in S : out'[u] = 0 /\ job'[u] = NoJob
      /\ \A u \in Threads \ S : out'[u] = out[u] /\ job'[u] = job[u]
      /\ undead' = {}
      /\ void' = void \cup {d \in Sessions \X S : held[d[1]][d[2]] > 0}
  BY DEF Forget
<1>2. ASSUME NEW x \in Sessions, NEW u \in Threads
      PROVE /\ owns(x, u)' /\ held'[x][u] > 0 =>
                 job'[u].input = held'[x][u] /\ out'[u] < held'[x][u]
            /\ <<x, u>> \in void' => held'[x][u] > 0 /\ ~owns(x, u)'
  <2>1. CASE u \in S
    BY <1>1, <2>1 DEF owns, NoJob
  <2>2. CASE u \notin S
    BY <1>1, <2>2 DEF owns
  <2> QED BY <2>1, <2>2
<1> QED BY <1>1, <1>2 DEF Nothing

LEMMA ClaimStep == IInv /\ [Next]_vars => ClaimInv' /\ OutputIsLastSuccess' /\ ForgottenStaysForgotten'
<1> SUFFICES ASSUME IInv, [Next]_vars PROVE ClaimInv' /\ OutputIsLastSuccess' /\ ForgottenStaysForgotten'
  OBVIOUS
<1> USE DEF IInv, TypeOK, ClaimInv, OutputIsLastSuccess, ForgottenStaysForgotten
<1>1. ASSUME NEW w \in Sessions, Startup(w) PROVE ClaimInv' /\ OutputIsLastSuccess' /\ ForgottenStaysForgotten'
  <2>1. /\ UNCHANGED <<list, held, job, void, undead>>
        /\ \A t \in Threads : out'[t] = 0 \/ out'[t] = out[t]
        /\ \A x \in Sessions : pc'[x] = "jobs" <=> pc[x] = "jobs"
    BY <1>1 DEF Startup, history
  <2>2. ASSUME NEW x \in Sessions, NEW u \in Threads
        PROVE owns(x, u)' /\ held'[x][u] > 0 =>
                job'[u].input = held'[x][u] /\ out'[u] < held'[x][u]
    <3>1. held'[x][u] = held[x][u] /\ job'[u] = job[u] /\ (owns(x, u)' <=> owns(x, u))
      BY <2>1 DEF owns
    <3>2. owns(x, u) /\ held[x][u] > 0 => job[u].input = held[x][u] /\ out[u] < held[x][u]
      BY <2>2
    <3>3. out'[u] = 0 \/ out'[u] = out[u]
      BY <2>1
    <3> HIDE DEF IInv, TypeOK, ClaimInv, OutputIsLastSuccess, ForgottenStaysForgotten, owns
    <3> QED BY <3>1, <3>2, <3>3
  <2>3. \A x \in Sessions : pc'[x] # "jobs" => held'[x] = Nothing' /\ list'[x] = Nothing'
    BY <2>1 DEF Nothing
  <2>4. \A x \in Sessions, u \in Threads :
          /\ list'[x][u] > 0 => held'[x][u] = 0
          /\ <<x, u>> \in void' => held'[x][u] > 0 /\ ~owns(x, u)'
    <3>1. \A x \in Sessions, u \in Threads :
            /\ list[x][u] > 0 => held[x][u] = 0
            /\ <<x, u>> \in void => held[x][u] > 0 /\ ~owns(x, u)
      OBVIOUS
    <3>2. list' = list /\ held' = held /\ job' = job /\ void' = void
      BY <2>1
    <3> HIDE DEF IInv, TypeOK, ClaimInv, OutputIsLastSuccess, ForgottenStaysForgotten
    <3> QED BY <3>1, <3>2 DEF owns
  <2>5. OutputIsLastSuccess' /\ ForgottenStaysForgotten'
    BY <2>1
  <2> QED BY <2>2, <2>3, <2>4, <2>5
<1>2. ASSUME NEW w \in Sessions, Scan(w) PROVE ClaimInv' /\ OutputIsLastSuccess' /\ ForgottenStaysForgotten'
  <2>1. /\ pc[w] = "phase1" /\ pc'[w] = "jobs" /\ UNCHANGED <<held, job, out, void, undead>>
        /\ \A x \in Sessions \ {w} : list'[x] = list[x] /\ pc'[x] = pc[x]
    BY <1>2 DEF Scan, history
  <2>2. held[w] = Nothing
    BY <2>1
  <2> QED BY <2>1, <2>2 DEF owns, Nothing
<1>3. ASSUME NEW w \in Sessions, Claim(w) PROVE ClaimInv' /\ OutputIsLastSuccess' /\ ForgottenStaysForgotten'
  <2>1. PICK t \in Threads :
          /\ list[w][t] > 0 /\ list'[w][t] = 0
          /\ \A u \in Threads : list'[w][u] > 0 => list[w][u] > 0
          /\ \/ UNCHANGED <<job, held, counts>>
             \/ /\ claimable(t, list[w][t])
                /\ job' = [job EXCEPT ![t] = claimed_row(w, t, list[w][t])]
                /\ held' = [held EXCEPT ![w][t] = list[w][t]]
    BY <1>3, ClaimEffect
  <2>2. /\ pc[w] = "jobs" /\ UNCHANGED <<pc, out, void, undead>>
        /\ \A x \in Sessions \ {w} : list'[x] = list[x]
    BY <1>3, ClaimEffect
  <2>3. CASE UNCHANGED <<job, held, counts>>
    <3>1. \A x \in Sessions, u \in Threads :
            list'[x][u] > 0 => list[x][u] > 0
      BY <2>1, <2>2
    <3> QED BY <2>2, <2>3, <3>1 DEF owns, Nothing
  <2>4. CASE /\ claimable(t, list[w][t])
             /\ job' = [job EXCEPT ![t] = claimed_row(w, t, list[w][t])]
             /\ held' = [held EXCEPT ![w][t] = list[w][t]]
    <3>1. /\ job'[t] = claimed_row(w, t, list[w][t])
          /\ \A u \in Threads \ {t} : job'[u] = job[u]
      BY <2>4
    <3>2. /\ held'[w][t] = list[w][t] /\ list'[w][t] = 0
          /\ \A x \in Sessions, u \in Threads :
               <<x, u>> # <<w, t>> => /\ held'[x][u] = held[x][u]
                                      /\ list'[x][u] > 0 => list[x][u] > 0
          /\ \A x \in Sessions \ {w} : held'[x] = held[x] /\ list'[x] = list[x]
      BY <2>1, <2>2, <2>4
    <3>3. /\ job'[t].status = "running" /\ job'[t].owner = w
          /\ job'[t].input = list[w][t] /\ job'[t].success = job[t].success
      BY <3>1, RowFields
    <3>4. out[t] < list[w][t]
      BY <2>4 DEF claimable, up_to_date, Version
    <3>5. <<w, t>> \notin void
      BY <2>1
    <3>6. ASSUME NEW x \in Sessions, NEW u \in Threads
          PROVE /\ list'[x][u] > 0 => held'[x][u] = 0
                /\ owns(x, u)' /\ held'[x][u] > 0 =>
                     job'[u].input = held'[x][u] /\ out'[u] < held'[x][u]
                /\ <<x, u>> \in void' => held'[x][u] > 0 /\ ~owns(x, u)'
      <4>1. CASE u # t
        BY <2>2, <3>1, <3>2, <4>1 DEF owns
      <4>2. CASE u = t /\ x # w
        BY <2>2, <3>2, <3>3, <4>2 DEF owns
      <4>3. CASE u = t /\ x = w
        BY <2>2, <3>2, <3>3, <3>4, <3>5, <4>3 DEF owns
      <4> QED BY <4>1, <4>2, <4>3
    <3>7. \A x \in Sessions : pc'[x] # "jobs" => held'[x] = Nothing' /\ list'[x] = Nothing'
      BY <2>2, <3>2 DEF Nothing
    <3>8. ClaimInv'
      BY <3>6, <3>7
    <3>9. OutputIsLastSuccess'
      BY <2>2, <3>1, <3>3
    <3> QED BY <2>2, <3>8, <3>9
  <2> QED BY <2>1, <2>3, <2>4
<1>4. ASSUME NEW w \in Sessions, PhaseOneEnds(w) PROVE ClaimInv' /\ OutputIsLastSuccess' /\ ForgottenStaysForgotten'
  <2>1. /\ list'[w] = Nothing /\ held[w] = Nothing /\ UNCHANGED <<held, job, out, void, undead>>
        /\ \A x \in Sessions \ {w} : list'[x] = list[x] /\ pc'[x] = pc[x]
    BY <1>4 DEF PhaseOneEnds, history
  <2> QED BY <2>1 DEF owns, Nothing
<1>5. ASSUME NEW w \in Sessions, ClaimError(w) PROVE ClaimInv' /\ OutputIsLastSuccess' /\ ForgottenStaysForgotten'
  <2>1. /\ held'[w] = Nothing /\ list'[w] = Nothing /\ void' = {d \in void : d[1] # w}
        /\ \A x \in Sessions \ {w} : held'[x] = held[x] /\ list'[x] = list[x] /\ pc'[x] = pc[x]
        /\ UNCHANGED <<job, out, undead>>
    BY <1>5 DEF ClaimError
  <2> QED BY <2>1 DEF owns, Nothing
<1>6. ASSUME NEW w \in Sessions, Crash(w) PROVE ClaimInv' /\ OutputIsLastSuccess' /\ ForgottenStaysForgotten'
  <2>1. /\ held'[w] = Nothing /\ list'[w] = Nothing /\ void' = {d \in void : d[1] # w}
        /\ \A x \in Sessions \ {w} : held'[x] = held[x] /\ list'[x] = list[x] /\ pc'[x] = pc[x]
        /\ UNCHANGED <<job, out, undead>>
    BY <1>6 DEF Crash
  <2> QED BY <2>1 DEF owns, Nothing
<1>7. ASSUME NEW w \in Sessions, NEW t \in Threads, Succeed(w, t) PROVE ClaimInv' /\ OutputIsLastSuccess' /\ ForgottenStaysForgotten'
  <2>1. /\ held'[w][t] = 0 /\ held[w][t] > 0 /\ UNCHANGED <<pc, list>>
        /\ \A x \in Sessions, u \in Threads :
             <<x, u>> # <<w, t>> => held'[x][u] = held[x][u]
        /\ \A x \in Sessions \ {w} : held'[x] = held[x]
        /\ void' = void \ {<<w, t>>} /\ pc[w] = "jobs"
    BY <1>7 DEF Succeed, Drop, Extracted
  <2>2. \A x \in Sessions : pc'[x] # "jobs" => held'[x] = Nothing' /\ list'[x] = Nothing'
    BY <2>1 DEF Nothing
  <2>3. \A x \in Sessions, u \in Threads : list'[x][u] > 0 => held'[x][u] = 0
    <3> SUFFICES ASSUME NEW x \in Sessions, NEW u \in Threads, list'[x][u] > 0
                 PROVE held'[x][u] = 0
      OBVIOUS
    <3>1. CASE <<x, u>> = <<w, t>>
      BY <2>1, <3>1
    <3>2. CASE <<x, u>> # <<w, t>>
      <4>1. list[x][u] > 0
        BY <2>1
      <4>2. held[x][u] = 0
        BY <4>1
      <4> QED BY <2>1, <3>2, <4>2
    <3> QED BY <3>1, <3>2
  <2>4. CASE ~owns(w, t)
    <3>1. UNCHANGED <<job, out, undead>>
      BY <1>7, <2>4 DEF Succeed
    <3>2. ASSUME NEW x \in Sessions, NEW u \in Threads
          PROVE /\ owns(x, u)' /\ held'[x][u] > 0 =>
                     job'[u].input = held'[x][u] /\ out'[u] < held'[x][u]
                /\ <<x, u>> \in void' => held'[x][u] > 0 /\ ~owns(x, u)'
      <4>1. CASE <<x, u>> = <<w, t>>
        BY <2>1, <4>1
      <4>2. CASE <<x, u>> # <<w, t>>
        BY <2>1, <3>1, <4>2 DEF owns
      <4> QED BY <4>1, <4>2
    <3> QED BY <2>2, <2>3, <3>1, <3>2
  <2>5. CASE owns(w, t)
    <3>1. /\ job'[t] = done_row(t) /\ \A u \in Threads \ {t} : job'[u] = job[u] /\ out'[u] = out[u]
      BY <1>7, <2>5 DEF Succeed
    <3>2. /\ out[t] < held[w][t] /\ job[t].input = held[w][t] /\ <<w, t>> \notin void
      BY <2>1, <2>5
    <3>3. out'[t] = held[w][t]
      BY <1>7, <2>5, <3>2 DEF Succeed, Version
    <3>4. undead' = {}
      BY <1>7, <2>5, <3>2 DEF Succeed
    <3>5. job'[t].status # "running" /\ \A x \in Sessions : ~owns(x, t)'
      BY <3>1, RowFields DEF owns
    <3>6. ASSUME NEW x \in Sessions, NEW u \in Threads
          PROVE /\ owns(x, u)' /\ held'[x][u] > 0 =>
                     job'[u].input = held'[x][u] /\ out'[u] < held'[x][u]
                /\ <<x, u>> \in void' => held'[x][u] > 0 /\ ~owns(x, u)'
      <4>1. CASE u = t
        BY <2>1, <3>5, <4>1
      <4>2. CASE u # t
        BY <2>1, <3>1, <4>2 DEF owns
      <4> QED BY <4>1, <4>2
    <3>7. OutputIsLastSuccess'
      <4>1. out'[t] > 0 => job'[t].success = out'[t]
        BY <3>1, <3>2, <3>3, RowFields
      <4> QED BY <3>1, <4>1
    <3> QED BY <2>2, <2>3, <3>4, <3>6, <3>7
  <2> QED BY <2>4, <2>5
<1>8. ASSUME NEW w \in Sessions, NEW t \in Threads, NoOutput(w, t) PROVE ClaimInv' /\ OutputIsLastSuccess' /\ ForgottenStaysForgotten'
  <2>1. /\ held'[w][t] = 0 /\ held[w][t] > 0 /\ UNCHANGED <<pc, list>>
        /\ \A x \in Sessions, u \in Threads :
             <<x, u>> # <<w, t>> => held'[x][u] = held[x][u]
        /\ \A x \in Sessions \ {w} : held'[x] = held[x]
        /\ void' = void \ {<<w, t>>} /\ pc[w] = "jobs"
    BY <1>8 DEF NoOutput, Drop, Extracted
  <2>2. \A x \in Sessions : pc'[x] # "jobs" => held'[x] = Nothing' /\ list'[x] = Nothing'
    BY <2>1 DEF Nothing
  <2>3. \A x \in Sessions, u \in Threads : list'[x][u] > 0 => held'[x][u] = 0
    <3> SUFFICES ASSUME NEW x \in Sessions, NEW u \in Threads, list'[x][u] > 0
                 PROVE held'[x][u] = 0
      OBVIOUS
    <3>1. CASE <<x, u>> = <<w, t>>
      BY <2>1, <3>1
    <3>2. CASE <<x, u>> # <<w, t>>
      <4>1. list[x][u] > 0
        BY <2>1
      <4>2. held[x][u] = 0
        BY <4>1
      <4> QED BY <2>1, <3>2, <4>2
    <3> QED BY <3>1, <3>2
  <2>4. CASE ~owns(w, t)
    <3>1. UNCHANGED <<job, out, undead>>
      BY <1>8, <2>4 DEF NoOutput
    <3>2. ASSUME NEW x \in Sessions, NEW u \in Threads
          PROVE /\ owns(x, u)' /\ held'[x][u] > 0 =>
                     job'[u].input = held'[x][u] /\ out'[u] < held'[x][u]
                /\ <<x, u>> \in void' => held'[x][u] > 0 /\ ~owns(x, u)'
      <4>1. CASE <<x, u>> = <<w, t>>
        BY <2>1, <4>1
      <4>2. CASE <<x, u>> # <<w, t>>
        BY <2>1, <3>1, <4>2 DEF owns
      <4> QED BY <4>1, <4>2
    <3> QED BY <2>2, <2>3, <3>1, <3>2
  <2>5. CASE owns(w, t)
    <3>1. /\ job'[t] = done_row(t) /\ \A u \in Threads \ {t} : job'[u] = job[u] /\ out'[u] = out[u]
      BY <1>8, <2>5 DEF NoOutput
    <3>2. /\ out[t] < held[w][t] /\ job[t].input = held[w][t] /\ <<w, t>> \notin void
      BY <2>1, <2>5
    <3>3. out'[t] = 0
      BY <1>8, <2>5, <3>2 DEF NoOutput, Version
    <3>4. undead' = {}
      BY <1>8, <2>5, <3>2 DEF NoOutput
    <3>5. job'[t].status # "running" /\ \A x \in Sessions : ~owns(x, t)'
      BY <3>1, RowFields DEF owns
    <3>6. ASSUME NEW x \in Sessions, NEW u \in Threads
          PROVE /\ owns(x, u)' /\ held'[x][u] > 0 =>
                     job'[u].input = held'[x][u] /\ out'[u] < held'[x][u]
                /\ <<x, u>> \in void' => held'[x][u] > 0 /\ ~owns(x, u)'
      <4>1. CASE u = t
        BY <2>1, <3>5, <4>1
      <4>2. CASE u # t
        BY <2>1, <3>1, <4>2 DEF owns
      <4> QED BY <4>1, <4>2
    <3>7. OutputIsLastSuccess'
      <4>1. out'[t] > 0 => job'[t].success = out'[t]
        BY <3>1, <3>2, <3>3, RowFields
      <4> QED BY <3>1, <4>1
    <3> QED BY <2>2, <2>3, <3>4, <3>6, <3>7
  <2> QED BY <2>4, <2>5
<1>9. ASSUME NEW w \in Sessions, NEW t \in Threads, Fail(w, t) PROVE ClaimInv' /\ OutputIsLastSuccess' /\ ForgottenStaysForgotten'
  <2>1. /\ held'[w][t] = 0 /\ held[w][t] > 0 /\ UNCHANGED <<pc, list>>
        /\ \A x \in Sessions, u \in Threads :
             <<x, u>> # <<w, t>> => held'[x][u] = held[x][u]
        /\ \A x \in Sessions \ {w} : held'[x] = held[x]
        /\ void' = void \ {<<w, t>>} /\ pc[w] = "jobs"
    BY <1>9 DEF Fail, Drop, Extracted
  <2>2. \A x \in Sessions : pc'[x] # "jobs" => held'[x] = Nothing' /\ list'[x] = Nothing'
    BY <2>1 DEF Nothing
  <2>3. \A x \in Sessions, u \in Threads : list'[x][u] > 0 => held'[x][u] = 0
    <3> SUFFICES ASSUME NEW x \in Sessions, NEW u \in Threads, list'[x][u] > 0
                 PROVE held'[x][u] = 0
      OBVIOUS
    <3>1. CASE <<x, u>> = <<w, t>>
      BY <2>1, <3>1
    <3>2. CASE <<x, u>> # <<w, t>>
      <4>1. list[x][u] > 0
        BY <2>1
      <4>2. held[x][u] = 0
        BY <4>1
      <4> QED BY <2>1, <3>2, <4>2
    <3> QED BY <3>1, <3>2
  <2>4. CASE ~owns(w, t)
    <3>1. UNCHANGED <<job, out, undead>>
      BY <1>9, <2>4 DEF Fail
    <3>2. ASSUME NEW x \in Sessions, NEW u \in Threads
          PROVE /\ owns(x, u)' /\ held'[x][u] > 0 =>
                     job'[u].input = held'[x][u] /\ out'[u] < held'[x][u]
                /\ <<x, u>> \in void' => held'[x][u] > 0 /\ ~owns(x, u)'
      <4>1. CASE <<x, u>> = <<w, t>>
        BY <2>1, <4>1
      <4>2. CASE <<x, u>> # <<w, t>>
        BY <2>1, <3>1, <4>2 DEF owns
      <4> QED BY <4>1, <4>2
    <3> QED BY <2>2, <2>3, <3>1, <3>2
  <2>5. CASE owns(w, t)
    <3>1. /\ job'[t] = failed_row(t) /\ \A u \in Threads \ {t} : job'[u] = job[u] /\ out'[u] = out[u]
      BY <1>9, <2>5 DEF Fail
    <3>2. /\ out[t] < held[w][t] /\ job[t].input = held[w][t] /\ <<w, t>> \notin void
      BY <2>1, <2>5
    <3>3. out'[t] = out[t]
      BY <1>9, <2>5, <3>2 DEF Fail, Version
    <3>4. undead' = {}
      BY <1>9, <2>5, <3>2 DEF Fail
    <3>5. job'[t].status # "running" /\ \A x \in Sessions : ~owns(x, t)'
      BY <3>1, RowFields DEF owns
    <3>6. ASSUME NEW x \in Sessions, NEW u \in Threads
          PROVE /\ owns(x, u)' /\ held'[x][u] > 0 =>
                     job'[u].input = held'[x][u] /\ out'[u] < held'[x][u]
                /\ <<x, u>> \in void' => held'[x][u] > 0 /\ ~owns(x, u)'
      <4>1. CASE u = t
        BY <2>1, <3>5, <4>1
      <4>2. CASE u # t
        BY <2>1, <3>1, <4>2 DEF owns
      <4> QED BY <4>1, <4>2
    <3>7. OutputIsLastSuccess'
      <4>1. job'[t].success = job[t].success
        BY <3>1, RowFields
      <4>2. out[t] > 0 => job[t].success = out[t]
        BY DEF OutputIsLastSuccess
      <4> QED BY <3>1, <3>3, <4>1, <4>2
    <3> QED BY <2>2, <2>3, <3>4, <3>6, <3>7
  <2> QED BY <2>4, <2>5
<1>10. ASSUME NEW w \in Sessions, NEW t \in Threads, ReportLost(w, t) PROVE ClaimInv' /\ OutputIsLastSuccess' /\ ForgottenStaysForgotten'
  <2>1. /\ held'[w][t] = 0 /\ UNCHANGED <<pc, list, job, out, undead>>
        /\ \A x \in Sessions, u \in Threads :
             <<x, u>> # <<w, t>> => held'[x][u] = held[x][u]
        /\ \A x \in Sessions \ {w} : held'[x] = held[x]
        /\ void' = void \ {<<w, t>>} /\ pc[w] = "jobs"
    BY <1>10 DEF ReportLost, Drop, Extracted
  <2>2. \A x \in Sessions : pc'[x] # "jobs" => held'[x] = Nothing' /\ list'[x] = Nothing'
    BY <2>1 DEF Nothing
  <2>3. ASSUME NEW x \in Sessions, NEW u \in Threads
        PROVE /\ list'[x][u] > 0 => held'[x][u] = 0
              /\ owns(x, u)' /\ held'[x][u] > 0 =>
                   job'[u].input = held'[x][u] /\ out'[u] < held'[x][u]
              /\ <<x, u>> \in void' => held'[x][u] > 0 /\ ~owns(x, u)'
    <3>1. CASE <<x, u>> = <<w, t>>
      BY <2>1, <3>1
    <3>2. CASE <<x, u>> # <<w, t>>
      BY <2>1, <3>2 DEF owns
    <3> QED BY <3>1, <3>2
  <2> QED BY <2>1, <2>2, <2>3
<1>11. ASSUME NEW t \in Threads, LeaseExpires(t) PROVE ClaimInv' /\ OutputIsLastSuccess' /\ ForgottenStaysForgotten'
  <2>1. /\ UNCHANGED <<pc, list, held, out, void, undead>>
        /\ \A u \in Threads : /\ job'[u].status = job[u].status /\ job'[u].owner = job[u].owner
                             /\ job'[u].input = job[u].input /\ job'[u].success = job[u].success
    BY <1>11 DEF LeaseExpires, history, Job
  <2>2. \A x \in Sessions, u \in Threads : owns(x, u)' <=> owns(x, u)
    BY <2>1 DEF owns
  <2>3. \A x \in Sessions : pc'[x] # "jobs" => held'[x] = Nothing' /\ list'[x] = Nothing'
    BY <2>1 DEF Nothing
  <2>4. ASSUME NEW x \in Sessions, NEW u \in Threads
        PROVE /\ list'[x][u] > 0 => held'[x][u] = 0
              /\ owns(x, u)' /\ held'[x][u] > 0 =>
                   job'[u].input = held'[x][u] /\ out'[u] < held'[x][u]
              /\ <<x, u>> \in void' => held'[x][u] > 0 /\ ~owns(x, u)'
    BY <2>1, <2>2
  <2>5. OutputIsLastSuccess' /\ ForgottenStaysForgotten'
    BY <2>1
  <2> QED BY <2>3, <2>4, <2>5
<1>12. ASSUME NEW t \in Threads, BackoffElapses(t) PROVE ClaimInv' /\ OutputIsLastSuccess' /\ ForgottenStaysForgotten'
  <2>1. /\ UNCHANGED <<pc, list, held, out, void, undead>>
        /\ \A u \in Threads : /\ job'[u].status = job[u].status /\ job'[u].owner = job[u].owner
                             /\ job'[u].input = job[u].input /\ job'[u].success = job[u].success
    BY <1>12 DEF BackoffElapses, history, Job
  <2>2. \A x \in Sessions, u \in Threads : owns(x, u)' <=> owns(x, u)
    BY <2>1 DEF owns
  <2>3. \A x \in Sessions : pc'[x] # "jobs" => held'[x] = Nothing' /\ list'[x] = Nothing'
    BY <2>1 DEF Nothing
  <2>4. ASSUME NEW x \in Sessions, NEW u \in Threads
        PROVE /\ list'[x][u] > 0 => held'[x][u] = 0
              /\ owns(x, u)' /\ held'[x][u] > 0 =>
                   job'[u].input = held'[x][u] /\ out'[u] < held'[x][u]
              /\ <<x, u>> \in void' => held'[x][u] > 0 /\ ~owns(x, u)'
    BY <2>1, <2>2
  <2>5. OutputIsLastSuccess' /\ ForgottenStaysForgotten'
    BY <2>1
  <2> QED BY <2>3, <2>4, <2>5
<1>13. ASSUME NEW t \in Threads, Touch(t) PROVE ClaimInv' /\ OutputIsLastSuccess' /\ ForgottenStaysForgotten'
  BY <1>13 DEF Touch, history, owns, Nothing
<1>14. ASSUME NEW t \in Threads, Pollute(t) PROVE ClaimInv' /\ OutputIsLastSuccess' /\ ForgottenStaysForgotten'
  BY <1>14 DEF Pollute, history, owns, Nothing
<1>15. ASSUME NEW t \in Threads, DeleteMemory(t) PROVE ClaimInv' /\ OutputIsLastSuccess' /\ ForgottenStaysForgotten'
  BY <1>15, ForgetClaims DEF DeleteMemory
<1>16. ASSUME NEW t \in Threads, DeleteRow(t) PROVE ClaimInv' /\ OutputIsLastSuccess' /\ ForgottenStaysForgotten'
  BY <1>16 DEF DeleteRow, history, owns, Nothing
<1>17. CASE ClearMemory
  BY <1>17, ForgetClaims DEF ClearMemory
<1>18. CASE UNCHANGED vars
  BY <1>18 DEF vars, history, owns, Nothing
<1>19. ASSUME NEW t \in Threads, NEW mode, SetMode(t, mode) PROVE ClaimInv' /\ OutputIsLastSuccess' /\ ForgottenStaysForgotten'
  BY <1>19 DEF SetMode, history, owns, Nothing
<1> QED BY <1>1, <1>2, <1>3, <1>4, <1>5, <1>6, <1>7, <1>8, <1>9, <1>10, <1>11,
           <1>12, <1>13, <1>14, <1>15, <1>16, <1>17, <1>18, <1>19
       DEF Next, Session, Fault, Report, Clock, User

-----------------------------------------------------------------------------
(* Leases: the claim counts the live ones in its own transaction.          *)

LEMMA FewerLeases ==
  ASSUME LeasesBounded, \A u \in Threads : live(u)' => live(u)
  PROVE LeasesBounded'
<1>1. running_jobs' \subseteq running_jobs
  BY DEF running_jobs
<1>2. IsFiniteSet(running_jobs)
  BY SessionAssumption, FS_Subset DEF running_jobs
<1>3. IsFiniteSet(running_jobs') /\ Cardinality(running_jobs') <= Cardinality(running_jobs)
  BY <1>1, <1>2, FS_Subset
<1>4. Cardinality(running_jobs') \in Nat /\ Cardinality(running_jobs) \in Nat
  BY <1>2, <1>3, FS_CardinalityType
<1> QED BY <1>3, <1>4 DEF LeasesBounded

LEMMA LeaseInit == Init => LeasesBounded
<1> SUFFICES ASSUME Init PROVE LeasesBounded
  OBVIOUS
<1>1. running_jobs = {}
  BY DEF Init, running_jobs, live, NoJob
<1> QED BY <1>1, FS_EmptySet DEF LeasesBounded

LEMMA LeaseStep == TypeOK /\ LeasesBounded /\ [Next]_vars => LeasesBounded'
<1> SUFFICES ASSUME TypeOK /\ LeasesBounded, [Next]_vars PROVE LeasesBounded'
  OBVIOUS
<1> USE DEF TypeOK
<1>1. ASSUME NEW w \in Sessions, Startup(w) PROVE LeasesBounded'
  BY <1>1, FewerLeases DEF Startup, live
<1>2. ASSUME NEW w \in Sessions, Scan(w) PROVE LeasesBounded'
  BY <1>2, FewerLeases DEF Scan, live
<1>3. ASSUME NEW w \in Sessions, Claim(w) PROVE LeasesBounded'
  <2>1. PICK t \in Threads :
          \/ UNCHANGED <<job, held, counts>>
          \/ /\ claimable(t, list[w][t])
             /\ job' = [job EXCEPT ![t] = claimed_row(w, t, list[w][t])]
    BY <1>3, ClaimEffect
  <2>2. CASE UNCHANGED <<job, held, counts>>
    BY <2>2, FewerLeases DEF live
  <2>3. CASE /\ claimable(t, list[w][t])
             /\ job' = [job EXCEPT ![t] = claimed_row(w, t, list[w][t])]
    <3>1. Cardinality(running_jobs \ {t}) < Cap
      BY <2>3 DEF claimable, below_cap
    <3>2. \A u \in Threads \ {t} : live(u)' <=> live(u)
      BY <2>3 DEF live
    <3>3. running_jobs' \subseteq (running_jobs \ {t}) \cup {t}
      BY <3>2 DEF running_jobs
    <3>4. IsFiniteSet(running_jobs \ {t})
      BY SessionAssumption, FS_Subset DEF running_jobs
    <3>5. /\ IsFiniteSet((running_jobs \ {t}) \cup {t})
          /\ Cardinality((running_jobs \ {t}) \cup {t}) = Cardinality(running_jobs \ {t}) + 1
      BY <3>4, FS_AddElement
    <3>6. Cardinality(running_jobs') <= Cardinality((running_jobs \ {t}) \cup {t})
      BY <3>3, <3>5, FS_Subset
    <3>7. IsFiniteSet(running_jobs')
      BY <3>3, <3>5, FS_Subset
    <3>8. Cardinality(running_jobs') \in Nat /\ Cardinality(running_jobs \ {t}) \in Nat
      BY <3>4, <3>7, FS_CardinalityType
    <3> QED BY <3>1, <3>5, <3>6, <3>8 DEF LeasesBounded
  <2> QED BY <2>1, <2>2, <2>3
<1>4. ASSUME NEW w \in Sessions, PhaseOneEnds(w) PROVE LeasesBounded'
  BY <1>4, FewerLeases DEF PhaseOneEnds, live
<1>5. ASSUME NEW w \in Sessions, ClaimError(w) PROVE LeasesBounded'
  BY <1>5, FewerLeases DEF ClaimError, live
<1>6. ASSUME NEW w \in Sessions, Crash(w) PROVE LeasesBounded'
  BY <1>6, FewerLeases DEF Crash, live
<1>7. ASSUME NEW w \in Sessions, NEW t \in Threads, Succeed(w, t) PROVE LeasesBounded'
  <2>1. \A u \in Threads : live(u)' => live(u)
    BY <1>7, RowFields DEF Succeed, live
  <2> QED BY <2>1, FewerLeases
<1>8. ASSUME NEW w \in Sessions, NEW t \in Threads, NoOutput(w, t) PROVE LeasesBounded'
  <2>1. \A u \in Threads : live(u)' => live(u)
    <3>1. job'[t] = job[t] \/ job'[t] = done_row(t)
      BY <1>8 DEF NoOutput
    <3>2. \A u \in Threads \ {t} : job'[u] = job[u]
      BY <1>8 DEF NoOutput
    <3>3. done_row(t).status = "done"
      BY RowFields
    <3> QED BY <3>1, <3>2, <3>3 DEF live
  <2> QED BY <2>1, FewerLeases
<1>9. ASSUME NEW w \in Sessions, NEW t \in Threads, Fail(w, t) PROVE LeasesBounded'
  <2>1. \A u \in Threads : live(u)' => live(u)
    BY <1>9, RowFields DEF Fail, live
  <2> QED BY <2>1, FewerLeases
<1>10. ASSUME NEW w \in Sessions, NEW t \in Threads, ReportLost(w, t) PROVE LeasesBounded'
  BY <1>10, FewerLeases DEF ReportLost, live
<1>11. ASSUME NEW t \in Threads, LeaseExpires(t) PROVE LeasesBounded'
  <2>1. \A u \in Threads : live(u)' => live(u)
    BY <1>11 DEF LeaseExpires, live, Job
  <2> QED BY <2>1, FewerLeases
<1>12. ASSUME NEW t \in Threads, BackoffElapses(t) PROVE LeasesBounded'
  <2>1. \A u \in Threads : live(u)' => live(u)
    BY <1>12 DEF BackoffElapses, live, Job
  <2> QED BY <2>1, FewerLeases
<1>13. ASSUME NEW t \in Threads, Touch(t) PROVE LeasesBounded'
  BY <1>13, FewerLeases DEF Touch, live
<1>14. ASSUME NEW t \in Threads, Pollute(t) PROVE LeasesBounded'
  BY <1>14, FewerLeases DEF Pollute, live
<1>15. ASSUME NEW t \in Threads, DeleteMemory(t) PROVE LeasesBounded'
  <2>1. \A u \in Threads : live(u)' => live(u)
    BY <1>15 DEF DeleteMemory, Forget, NoJob, live
  <2> QED BY <2>1, FewerLeases
<1>16. ASSUME NEW t \in Threads, DeleteRow(t) PROVE LeasesBounded'
  BY <1>16, FewerLeases DEF DeleteRow, live
<1>17. CASE ClearMemory
  <2>1. \A u \in Threads : live(u)' => live(u)
    BY <1>17 DEF ClearMemory, Forget, NoJob, live
  <2> QED BY <2>1, FewerLeases
<1>18. CASE UNCHANGED vars
  BY <1>18, FewerLeases DEF vars, live
<1>19. ASSUME NEW t \in Threads, NEW mode, SetMode(t, mode) PROVE LeasesBounded'
  BY <1>19, FewerLeases DEF SetMode, live
<1> QED BY <1>1, <1>2, <1>3, <1>4, <1>5, <1>6, <1>7, <1>8, <1>9, <1>10, <1>11,
           <1>12, <1>13, <1>14, <1>15, <1>16, <1>17, <1>18, <1>19
       DEF Next, Session, Fault, Report, Clock, User

-----------------------------------------------------------------------------
LEMMA Inductive == Spec => []IInv
<1>1. Init => IInv
  BY TypeInit, RetryInit, ClaimInit DEF IInv
<1>2. IInv /\ [Next]_vars => IInv'
  BY TypeStep, RetryStep, ClaimStep DEF IInv
<1> QED BY <1>1, <1>2, PTL DEF Spec

\* Every variable keeps its type in every reachable state: the retries of a
\* job row never go below zero, whoever reports.
THEOREM TypeCorrect == Spec => []TypeOK
<1>1. IInv => TypeOK
  BY DEF IInv
<1> QED BY <1>1, Inductive, PTL

\* However many sessions, a stored memory is the one the job row's last
\* success produced: mark_stage1_job_succeeded under the ownership token.
THEOREM OutputIsLastSuccessHolds == Spec => []OutputIsLastSuccess
<1>1. IInv => OutputIsLastSuccess
  BY DEF IInv
<1> QED BY <1>1, Inductive, PTL

\* A claim older than the deletion of its thread, or than a memory reset,
\* never writes an output: delete_thread_memory and clear_memory_data take
\* the job row, and its token, away.
THEOREM ForgottenStaysForgottenHolds == Spec => []ForgottenStaysForgotten
<1>1. IInv => ForgottenStaysForgotten
  BY DEF IInv
<1> QED BY <1>1, Inductive, PTL

\* No more than Retries failures are reported between two claims at a
\* version of the thread never claimed before, whatever was taken over,
\* retried or reported late, plus Retries for each claim from an older list.
THEOREM FailuresBoundedHolds == Spec => []FailuresBounded
<1>1. IInv => FailuresBounded
  <2> SUFFICES ASSUME IInv, NEW t \in Threads PROVE fails[t] <= allowed[t]
    BY DEF FailuresBounded
  <2>1. job[t].retries \in Nat /\ fails[t] \in Nat /\ allowed[t] \in Nat
    BY DEF IInv, TypeOK, Job
  <2>2. fails[t] + job[t].retries <= allowed[t]
    BY DEF IInv, RetryInv, RetryOf
  <2> QED BY <2>1, <2>2
<1> QED BY <1>1, Inductive, PTL

\* try_claim_stage1_job never lets more than Cap live leases stand, however
\* many sessions claim at once.
THEOREM LeasesBoundedHolds == Spec => []LeasesBounded
<1>1. TypeOK /\ LeasesBounded /\ [Next]_vars => LeasesBounded'
  BY LeaseStep
<1> QED BY <1>1, LeaseInit, TypeCorrect, PTL DEF Spec
=============================================================================
