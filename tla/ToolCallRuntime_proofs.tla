----------------------- MODULE ToolCallRuntime_proofs -----------------------
(***************************************************************************)
(* Proofs of the safety properties of ToolCallRuntime, for any calls of    *)
(* any kinds on either kind of runtime.                                    *)
(***************************************************************************)
EXTENDS ToolCallRuntime, TLAPS

USE DEF Ended, Holding, TaskPoints, WaiterPoints, Outcomes, Results, taskVars, waiterVars

LEMMA TypeInit == Init => TypeOK
<1> SUFFICES ASSUME Init PROVE TypeOK
  OBVIOUS
<1>1. /\ task \in [Calls -> TaskPoints] /\ aborting \subseteq Calls
      /\ result \in [Calls -> Results] /\ waiter \in [Calls -> WaiterPoints]
      /\ reply \in [Calls -> Results \cup {"aborted"}]
      /\ told \in [Calls -> SUBSET Outcomes]
      /\ turn \in {"running", "drained", "dropped"}
  BY DEF Init
<1>2. multi \in BOOLEAN /\ cancelled \in BOOLEAN /\ claimed \in [Calls -> BOOLEAN]
  BY Zenon DEF Init
<1> QED
  BY <1>1, <1>2 DEF TypeOK

LEMMA TypeStep == TypeOK /\ [Next]_vars => TypeOK'
<1> SUFFICES ASSUME TypeOK, [Next]_vars PROVE TypeOK'
  OBVIOUS
<1> USE DEF TypeOK, TaskAt, TaskTo, TaskEnds, WaiterAt, WaiterTo, Return, Joined
<1>1. CASE UNCHANGED vars
  BY <1>1 DEF vars
<1>2. CASE TurnStep
  BY <1>2 DEF TurnStep, drain_in_flight, interrupt, grace_period_ends, aborted_on_drop
<1>3. ASSUME NEW c \in Calls, TaskStep(c) PROVE TypeOK'
  <2>1. CASE wait_until_ready(c) \/ acquire_lock(c) \/ task_returns(c) \/ task_panics(c)
    BY <2>1 DEF wait_until_ready, acquire_lock, task_returns, task_panics
  <2>2. CASE dispatch_any(c)
    BY <2>2 DEF dispatch_any
  <2>3. CASE run_pre_tool_use_hooks(c) \/ handle_any_tool(c)
    BY <2>3 DEF run_pre_tool_use_hooks, handle_any_tool
  <2>4. CASE notify_blocked(c)
    BY <2>4 DEF notify_blocked, notify_tool_finish_if_unclaimed
  <2>5. CASE notify_handled(c)
    BY <2>5 DEF notify_handled, notify_tool_finish_if_unclaimed
  <2>6. CASE task_aborted(c)
    BY <2>6 DEF task_aborted
  <2> QED
    BY <1>3, <2>1, <2>2, <2>3, <2>4, <2>5, <2>6 DEF TaskStep
<1>4. ASSUME NEW c \in Calls, WaiterStep(c) PROVE TypeOK'
  <2>1. CASE select_result(c) \/ join_task(c)
    BY <2>1 DEF select_result, join_task
  <2>2. CASE select_cancelled(c) \/ abort_task(c)
    BY <2>2 DEF select_cancelled, abort_task
  <2>3. CASE swap_outcome(c)
    BY <2>3 DEF swap_outcome
  <2>4. CASE await_teardown(c) \/ settle_abort(c)
    BY <2>4 DEF await_teardown, settle_abort
  <2>5. CASE notify_tool_aborted(c)
    BY <2>5 DEF notify_tool_aborted
  <2> QED
    BY <1>4, <2>1, <2>2, <2>3, <2>4, <2>5 DEF WaiterStep
<1> QED
  BY <1>1, <1>2, <1>3, <1>4 DEF Next

\* Whatever happens, every variable stays in its range.
THEOREM TypeCorrect == Spec => []TypeOK
<1>1. Init => TypeOK
  BY TypeInit
<1>2. TypeOK /\ [Next]_vars => TypeOK'
  BY TypeStep
<1> QED
  BY <1>1, <1>2, PTL DEF Spec

-----------------------------------------------------------------------------
(* NoWorkAfterReply and WriterRunsAlone.                                   *)

\* A waiter about to tell of the abort has seen its task end.
StoppedInv == \A c \in Calls : waiter[c] \in {"notify", "returned"} => task[c] \in Ended

LEMMA StoppedStep == TypeOK /\ StoppedInv /\ [Next]_vars => StoppedInv'
<1> SUFFICES ASSUME TypeOK, StoppedInv, [Next]_vars PROVE StoppedInv'
  OBVIOUS
<1> USE DEF TypeOK, StoppedInv, TaskAt, TaskTo, TaskEnds, WaiterAt, WaiterTo, Return
<1>1. CASE UNCHANGED vars
  BY <1>1 DEF vars
<1>2. CASE TurnStep
  BY <1>2 DEF TurnStep, drain_in_flight, interrupt, grace_period_ends
<1>3. ASSUME NEW c \in Calls, TaskStep(c) PROVE StoppedInv'
  <2>1. waiter' = waiter
    BY <1>3 DEF TaskStep, wait_until_ready, acquire_lock, dispatch_any,
       run_pre_tool_use_hooks, handle_any_tool, task_panics, notify_blocked, notify_handled,
       task_returns, task_aborted
  <2>2. task[c] \notin Ended /\ \E l \in TaskPoints : task' = [task EXCEPT ![c] = l]
    BY <1>3 DEF TaskStep, wait_until_ready, acquire_lock, dispatch_any,
       run_pre_tool_use_hooks, handle_any_tool, task_panics, notify_blocked, notify_handled,
       task_returns, task_aborted
  <2> QED
    BY <2>1, <2>2
<1>4. ASSUME NEW c \in Calls, WaiterStep(c) PROVE StoppedInv'
  <2>1. task' = task
    BY <1>4 DEF WaiterStep, select_result, select_cancelled, join_task, swap_outcome,
       await_teardown, abort_task, settle_abort, notify_tool_aborted
  <2>2. \A d \in Calls : d # c => waiter'[d] = waiter[d]
    BY <1>4 DEF WaiterStep, select_result, select_cancelled, join_task, swap_outcome,
       await_teardown, abort_task, settle_abort, notify_tool_aborted
  <2>3. waiter'[c] \in {"notify", "returned"} => task[c] \in Ended
    BY <1>4 DEF WaiterStep, select_result, select_cancelled, join_task, swap_outcome,
       await_teardown, abort_task, settle_abort, notify_tool_aborted, torn_down
  <2> QED
    BY <2>1, <2>2, <2>3
<1> QED
  BY <1>1, <1>2, <1>3, <1>4 DEF Next

\* The call that was answered has no handler running.
THEOREM NoWorkAfterReplyHolds == Spec => []NoWorkAfterReply
<1>1. Init => TypeOK /\ StoppedInv
  BY TypeInit DEF Init, StoppedInv
<1>2. TypeOK /\ StoppedInv /\ [Next]_vars => (TypeOK /\ StoppedInv)'
  BY TypeStep, StoppedStep
<1>3. StoppedInv => NoWorkAfterReply
  BY DEF StoppedInv, NoWorkAfterReply
<1> QED
  BY <1>1, <1>2, <1>3, PTL DEF Spec

LEMMA LockStep == TypeOK /\ WriterRunsAlone /\ [Next]_vars => WriterRunsAlone'
<1> SUFFICES ASSUME TypeOK, WriterRunsAlone, [Next]_vars PROVE WriterRunsAlone'
  OBVIOUS
<1> USE DEF TypeOK, WriterRunsAlone, TaskAt, TaskTo, TaskEnds
<1>1. ASSUME NEW c \in Calls, acquire_lock(c) PROVE WriterRunsAlone'
  BY <1>1 DEF acquire_lock, lock_free, Holders
<1>2. ASSUME NEW c \in Calls, TaskStep(c), ~acquire_lock(c) PROVE WriterRunsAlone'
  <2>1. \A d \in Calls : task'[d] \in Holding => task[d] \in Holding
    BY <1>2 DEF TaskStep, wait_until_ready, dispatch_any,
       run_pre_tool_use_hooks, handle_any_tool, task_panics, notify_blocked, notify_handled,
       task_returns, task_aborted
  <2> QED
    BY <2>1
<1>3. CASE UNCHANGED task
  BY <1>3
<1>4. TurnStep \/ (\E c \in Calls : WaiterStep(c)) \/ UNCHANGED vars => UNCHANGED task
  BY DEF TurnStep, drain_in_flight, interrupt, grace_period_ends, WaiterStep, select_result,
     select_cancelled, join_task, swap_outcome, await_teardown, abort_task, settle_abort,
     notify_tool_aborted, vars
<1> QED
  BY <1>1, <1>2, <1>3, <1>4 DEF Next

\* The lock admits a serial tool only when nobody holds it, and everybody
\* else only when no serial tool does.
THEOREM WriterRunsAloneHolds == Spec => []WriterRunsAlone
<1>1. Init => TypeOK /\ WriterRunsAlone
  BY TypeInit DEF Init, WriterRunsAlone
<1>2. TypeOK /\ WriterRunsAlone /\ [Next]_vars => (TypeOK /\ WriterRunsAlone)'
  BY TypeStep, LockStep
<1> QED
  BY <1>1, <1>2, PTL DEF Spec
-----------------------------------------------------------------------------
(* OneOutcome.                                                             *)

\* Where a task has not decided its outcome yet, and where a waiter has not
\* decided against its task.
Undecided == {"ready", "lock", "dispatch", "hooks", "handler", "post", "blocked"}
Siding == {"select", "swap", "abort", "join"}

\* Which way a waiter goes, and who may have been aborted.
Route(c) ==
  /\ waiter[c] \in {"swap", "teardown"} => c \in Waits
  /\ waiter[c] \in {"abort", "settle"} => c \notin Waits
  /\ waiter[c] \in {"notify", "returned"} => task[c] \in Ended
  /\ waiter[c] # "returned" => reply[c] = "none"
  /\ task[c] = "cancelled" => c \in aborting
  /\ waiter[c] = "settle" => c \in aborting
  /\ c \in aborting => waiter[c] \in {"settle", "notify", "returned", "dropped"}

\* Who owns the outcome, as the waiter goes along.
Owned(c) ==
  /\ \A o, p \in told[c] : o = p
  /\ told[c] # {} => claimed[c] = TRUE \/ task[c] \in Ended
  /\ waiter[c] \in Siding =>
       /\ "aborted" \notin told[c]
       /\ told[c] # {} => claimed[c] = TRUE
       /\ claimed[c] = TRUE => task[c] \notin Undecided
       /\ task[c] = "finish" => claimed[c] = TRUE
       /\ task[c] \in {"finish", "done"} /\ result[c] = "ok" => told[c] = {"completed"}
  /\ waiter[c] = "abort" => claimed[c] # TRUE /\ task[c] \in Undecided
  /\ waiter[c] = "settle" => claimed[c] # TRUE /\ told[c] = {}
                             /\ task[c] \in Undecided \cup {"cancelled"}
  /\ waiter[c] = "teardown" => claimed[c] = TRUE /\ told[c] = {}
  /\ waiter[c] = "notify" => told[c] = {}
  /\ reply[c] = "aborted" => told[c] = {"aborted"}
  /\ reply[c] = "ok" => told[c] = {"completed"}
  /\ reply[c] = "err" => "aborted" \notin told[c]

OutcomeInv == \A c \in Calls : Route(c) /\ (Arbitrated(c) => Owned(c))

LEMMA OutcomeInit == Init => OutcomeInv
BY DEF Init, OutcomeInv, Route, Owned, Siding, Undecided

\* A step of one call leaves the others as they are.
LEMMA OtherCalls ==
  ASSUME TypeOK, OutcomeInv, NEW c \in Calls, TaskStep(c) \/ WaiterStep(c),
         NEW d \in Calls, d # c
  PROVE  Route(d)' /\ (Arbitrated(d)' => Owned(d)')
<1> USE DEF TypeOK, TaskTo, TaskEnds, WaiterTo, Return
<1>1. /\ task'[d] = task[d] /\ waiter'[d] = waiter[d] /\ (d \in aborting' <=> d \in aborting)
      /\ multi' = multi
  BY DEF TaskStep, wait_until_ready, acquire_lock, dispatch_any, run_pre_tool_use_hooks,
     handle_any_tool, task_panics, notify_blocked, notify_handled, task_returns, task_aborted,
     WaiterStep, select_result, select_cancelled, join_task, swap_outcome, await_teardown,
     abort_task, settle_abort, notify_tool_aborted
<1>2. /\ result'[d] = result[d] /\ claimed'[d] = claimed[d] /\ reply'[d] = reply[d]
      /\ told'[d] = told[d]
  BY DEF TaskStep, wait_until_ready, acquire_lock, dispatch_any, run_pre_tool_use_hooks,
     handle_any_tool, task_panics, notify_blocked, notify_handled, task_returns, task_aborted,
     WaiterStep, select_result, select_cancelled, join_task, swap_outcome, await_teardown,
     abort_task, settle_abort, notify_tool_aborted, notify_tool_finish_if_unclaimed
<1>3. Route(d) /\ (Arbitrated(d) => Owned(d))
  BY DEF OutcomeInv
<1>4. Route(d)'
  BY <1>1, <1>2, <1>3 DEF Route
<1>5. ASSUME Arbitrated(d)' PROVE Owned(d)'
  <2>1. Owned(d)
    BY <1>1, <1>3, <1>5 DEF Arbitrated
  <2> QED
    BY <1>1, <1>2, <2>1 DEF Owned
<1> QED
  BY <1>4, <1>5

LEMMA TaskKeepsOutcome ==
  ASSUME TypeOK, NEW c \in Calls, Route(c), Arbitrated(c) => Owned(c), TaskStep(c)
  PROVE  Route(c)' /\ (Arbitrated(c)' => Owned(c)')
<1>1. /\ waiter' = waiter /\ reply' = reply /\ aborting' = aborting /\ multi' = multi
  BY DEF TaskStep, wait_until_ready, acquire_lock, dispatch_any, run_pre_tool_use_hooks,
     handle_any_tool, task_panics, notify_blocked, notify_handled, task_returns, task_aborted
<1>2. /\ task[c] \in TaskPoints /\ result[c] \in Results /\ waiter[c] \in WaiterPoints
      /\ told[c] \in SUBSET Outcomes
  BY DEF TypeOK
<1>3. Scheduled(c) => multi \/ (c \notin aborting /\ waiter[c] \notin {"abort", "swap"})
  BY DEF Scheduled
<1> USE DEF TaskAt, TaskTo, TaskEnds
<1>4. CASE wait_until_ready(c) \/ acquire_lock(c) \/ run_pre_tool_use_hooks(c)
  <2>1. /\ task[c] \in Undecided /\ task'[c] \in Undecided /\ Scheduled(c)
        /\ told' = told /\ claimed' = claimed /\ result' = result
    BY <1>4 DEF TypeOK, wait_until_ready, acquire_lock, run_pre_tool_use_hooks, Undecided
  <2> QED
    BY <1>1, <1>2, <1>3, <2>1 DEF Route, Owned, Arbitrated, Siding, Undecided
<1>5. CASE dispatch_any(c)
  <2>1. /\ task[c] = "dispatch" /\ Scheduled(c) /\ told' = told /\ claimed' = claimed
        /\ task'[c] = "hooks" \/ (task'[c] = "done" /\ result'[c] \in {"err", "fatal"})
    BY <1>5 DEF TypeOK, dispatch_any
  <2> QED
    BY <1>1, <1>2, <1>3, <2>1 DEF Route, Owned, Arbitrated, Siding, Undecided
<1>6. CASE handle_any_tool(c)
  <2>1. /\ task[c] = "handler" /\ task'[c] = "post" /\ Scheduled(c)
        /\ told' = told /\ claimed' = claimed
    BY <1>6 DEF TypeOK, handle_any_tool
  <2> QED
    BY <1>1, <1>2, <1>3, <2>1 DEF Route, Owned, Arbitrated, Siding, Undecided
<1>7. CASE notify_blocked(c) \/ notify_handled(c)
  <2>1. PICK o \in {"blocked", "failed", "completed"} :
          /\ notify_tool_finish_if_unclaimed(c, o)
          /\ result'[c] = "ok" => o = "completed"
    <3>1. CASE notify_blocked(c)
      BY <3>1, <1>2 DEF notify_blocked, TypeOK
    <3>2. CASE notify_handled(c)
      BY <3>2, <1>2 DEF notify_handled, TypeOK
    <3> QED
      BY <1>7, <3>1, <3>2
  <2>2. task[c] \in {"blocked", "post"} /\ task'[c] = "finish" /\ Scheduled(c)
    BY <1>7 DEF TypeOK, notify_blocked, notify_handled
  <2>3. /\ claimed'[c] = TRUE
        /\ told'[c] = IF claimed[c] = TRUE THEN told[c] ELSE told[c] \cup {o}
    BY <2>1 DEF TypeOK, notify_tool_finish_if_unclaimed
  <2>4. ASSUME Arbitrated(c) PROVE Owned(c)'
    <3>1. Owned(c) /\ task[c] \in Undecided
      BY <2>2, <2>4 DEF Undecided
    <3>2. CASE claimed[c] = TRUE
      BY <1>1, <1>2, <2>1, <2>2, <2>3, <3>1, <3>2 DEF Owned, Siding, Undecided, Route
    <3>3. CASE claimed[c] # TRUE
      <4>1. told[c] = {} /\ told'[c] = {o}
        BY <2>2, <2>3, <3>1, <3>3 DEF Owned
      <4>2. waiter[c] \in {"select", "swap", "join", "dropped"}
        BY <1>2, <1>3, <2>2, <2>4, <3>1, <3>3 DEF Owned, Siding, Route, Arbitrated
      <4> QED
        BY <1>1, <1>2, <2>1, <2>2, <2>3, <4>1, <4>2 DEF Owned, Siding, Undecided, Route
    <3> QED
      BY <3>2, <3>3
  <2>5. Route(c)'
    BY <1>1, <1>2, <1>3, <2>2 DEF Route
  <2> QED
    BY <1>1, <2>4, <2>5 DEF Arbitrated
<1>8. CASE task_returns(c)
  <2>1. /\ task[c] = "finish" /\ task'[c] = "done" /\ Scheduled(c)
        /\ told' = told /\ claimed' = claimed /\ result' = result
    BY <1>8 DEF TypeOK, task_returns
  <2> QED
    BY <1>1, <1>2, <1>3, <2>1 DEF Route, Owned, Arbitrated, Siding, Undecided
<1>9. CASE task_panics(c)
  <2>1. /\ task[c] = "handler" /\ task'[c] = "panicked" /\ Scheduled(c)
        /\ told' = told /\ claimed' = claimed /\ result' = result
    BY <1>9 DEF TypeOK, task_panics
  <2> QED
    BY <1>1, <1>2, <1>3, <2>1 DEF Route, Owned, Arbitrated, Siding, Undecided
<1>10. CASE task_aborted(c)
  <2>1. /\ c \in aborting /\ task[c] \notin Ended /\ task'[c] = "cancelled"
        /\ told' = told /\ claimed' = claimed /\ result' = result
    BY <1>10 DEF TypeOK, task_aborted
  <2> QED
    BY <1>1, <1>2, <2>1 DEF Route, Owned, Arbitrated, Siding, Undecided
<1> QED
  BY <1>4, <1>5, <1>6, <1>7, <1>8, <1>9, <1>10 DEF TaskStep

LEMMA WaiterKeepsOutcome ==
  ASSUME TypeOK, NEW c \in Calls, Route(c), Arbitrated(c) => Owned(c), WaiterStep(c)
  PROVE  Route(c)' /\ (Arbitrated(c)' => Owned(c)')
<1>1. task' = task /\ result' = result /\ multi' = multi
  BY DEF WaiterStep, select_result, select_cancelled, join_task, swap_outcome, await_teardown,
     abort_task, settle_abort, notify_tool_aborted
<1>2. /\ task[c] \in TaskPoints /\ result[c] \in Results /\ waiter[c] \in WaiterPoints
      /\ told[c] \in SUBSET Outcomes
  BY DEF TypeOK
<1> USE DEF WaiterAt, WaiterTo, Return
<1>3. CASE select_result(c) \/ join_task(c)
  <2>1. /\ waiter[c] \in {"select", "join"} /\ waiter'[c] = "returned" /\ task[c] \in Ended
        /\ reply'[c] = Joined(c)
        /\ told' = told /\ claimed' = claimed /\ aborting' = aborting
    BY <1>3 DEF TypeOK, select_result, join_task
  <2> QED
    BY <1>1, <1>2, <2>1 DEF Route, Owned, Arbitrated, Siding, Undecided, Joined
<1>4. CASE select_cancelled(c)
  <2>1. /\ waiter[c] = "select"
        /\ \/ waiter'[c] = "join"
           \/ waiter'[c] = "swap" /\ c \in Waits
           \/ waiter'[c] = "abort" /\ c \notin Waits /\ claimed[c] # TRUE /\ task[c] \notin Ended
        /\ told' = told /\ claimed' = claimed /\ aborting' = aborting /\ reply' = reply
    BY <1>4 DEF TypeOK, select_cancelled, outcome_reached
  <2>2. Arbitrated(c) /\ waiter'[c] = "abort" => task[c] \in Undecided
    <3>1. Owned(c) /\ claimed[c] # TRUE /\ task[c] = "finish" => FALSE
      BY <2>1, <1>2 DEF Owned, Siding
    <3> QED
      BY <3>1, <2>1, <1>2 DEF Undecided
  <2> QED
    BY <1>1, <1>2, <2>1, <2>2 DEF Route, Owned, Arbitrated, Siding, Undecided
<1>5. CASE swap_outcome(c)
  <2>1. /\ waiter[c] = "swap" /\ claimed'[c] = TRUE
        /\ waiter'[c] = IF claimed[c] = TRUE THEN "join" ELSE "teardown"
        /\ told' = told /\ aborting' = aborting /\ reply' = reply
    BY <1>5 DEF TypeOK, swap_outcome
  <2> QED
    BY <1>1, <1>2, <2>1 DEF Route, Owned, Arbitrated, Siding, Undecided
<1>6. CASE await_teardown(c)
  <2>1. /\ waiter[c] = "teardown" /\ task[c] \in Ended
        /\ \/ waiter'[c] = "returned" /\ reply'[c] = "fatal"
           \/ waiter'[c] = "notify" /\ reply' = reply
        /\ told' = told /\ claimed' = claimed /\ aborting' = aborting
    BY <1>6 DEF TypeOK, await_teardown, torn_down
  <2> QED
    BY <1>1, <1>2, <2>1 DEF Route, Owned, Arbitrated, Siding, Undecided
<1>7. CASE abort_task(c)
  <2>1. /\ waiter[c] = "abort" /\ waiter'[c] = "settle" /\ aborting' = aborting \cup {c}
        /\ told' = told /\ claimed' = claimed /\ reply' = reply
    BY <1>7 DEF TypeOK, abort_task
  <2> QED
    BY <1>1, <1>2, <2>1 DEF Route, Owned, Arbitrated, Siding, Undecided
<1>8. CASE settle_abort(c)
  <2>1. /\ waiter[c] = "settle"
        /\ \/ waiter'[c] = "returned" /\ task[c] \in {"done", "panicked"} /\ reply'[c] = Joined(c)
           \/ waiter'[c] = "notify" /\ task[c] = "cancelled" /\ reply' = reply
        /\ told' = told /\ claimed' = claimed /\ aborting' = aborting
    BY <1>8 DEF TypeOK, settle_abort
  <2> QED
    BY <1>1, <1>2, <2>1 DEF Route, Owned, Arbitrated, Siding, Undecided, Joined
<1>9. CASE notify_tool_aborted(c)
  <2>1. /\ waiter[c] = "notify" /\ waiter'[c] = "returned" /\ reply'[c] = "aborted"
        /\ told'[c] = told[c] \cup {"aborted"} /\ claimed' = claimed /\ aborting' = aborting
    BY <1>9 DEF TypeOK, notify_tool_aborted
  <2> QED
    BY <1>1, <1>2, <2>1 DEF Route, Owned, Arbitrated, Siding, Undecided
<1> QED
  BY <1>3, <1>4, <1>5, <1>6, <1>7, <1>8, <1>9 DEF WaiterStep

LEMMA OutcomeStep == TypeOK /\ OutcomeInv /\ [Next]_vars => OutcomeInv'
<1> SUFFICES ASSUME TypeOK, OutcomeInv, [Next]_vars PROVE OutcomeInv'
  OBVIOUS
<1>1. ASSUME NEW c \in Calls, TaskStep(c) PROVE OutcomeInv'
  BY <1>1, OtherCalls, TaskKeepsOutcome DEF OutcomeInv
<1>2. ASSUME NEW c \in Calls, WaiterStep(c) PROVE OutcomeInv'
  BY <1>2, OtherCalls, WaiterKeepsOutcome DEF OutcomeInv
<1>3. CASE drain_in_flight \/ interrupt \/ UNCHANGED vars
  <2> SUFFICES ASSUME NEW c \in Calls PROVE Route(c)' /\ (Arbitrated(c)' => Owned(c)')
    BY DEF OutcomeInv
  <2>1. /\ Route(c) /\ (Arbitrated(c) => Owned(c))
        /\ UNCHANGED <<multi, task, aborting, result, waiter, reply, claimed, told>>
    BY <1>3 DEF drain_in_flight, interrupt, vars, OutcomeInv
  <2> QED
    BY <2>1 DEF Route, Owned, Arbitrated
<1>4. CASE grace_period_ends
  <2> SUFFICES ASSUME NEW c \in Calls PROVE Route(c)' /\ (Arbitrated(c)' => Owned(c)')
    BY DEF OutcomeInv
  <2>1. /\ Route(c) /\ (Arbitrated(c) => Owned(c))
        /\ waiter'[c] = IF waiter[c] = "returned" THEN "returned" ELSE "dropped"
        /\ c \in aborting' => c \in aborting \/ waiter[c] # "returned"
        /\ c \in aborting => c \in aborting'
        /\ UNCHANGED <<multi, task, result, reply, claimed, told>>
    BY <1>4 DEF grace_period_ends, aborted_on_drop, OutcomeInv
  <2> QED
    BY <2>1 DEF Route, Owned, Arbitrated, Siding, Undecided
<1> QED
  BY <1>1, <1>2, <1>3, <1>4 DEF Next, TurnStep

(***************************************************************************)
(* A call has one outcome, and contributors and model hear the same one,   *)
(* on a single-threaded runtime or for tools that wait for cancellation.   *)
(***************************************************************************)
THEOREM OneOutcomeHolds == Spec => []OneOutcome
<1>1. Init => TypeOK /\ OutcomeInv
  BY TypeInit, OutcomeInit
<1>2. TypeOK /\ OutcomeInv /\ [Next]_vars => (TypeOK /\ OutcomeInv)'
  BY TypeStep, OutcomeStep
<1>3. OutcomeInv => OneOutcome
  BY DEF OutcomeInv, Owned, OneOutcome
<1> QED
  BY <1>1, <1>2, <1>3, PTL DEF Spec
=============================================================================
