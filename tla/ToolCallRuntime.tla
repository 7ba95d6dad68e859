-------------------------- MODULE ToolCallRuntime --------------------------
(***************************************************************************)
(* The life of the tool calls of one model response: the task that runs a  *)
(* handler, the future that waits for it, and the interrupt that races     *)
(* both (core/src/tools/parallel.rs, registry.rs, tasks/mod.rs).           *)
(*                                                                         *)
(* A call is two actors.  Its dispatch task waits for readiness and for    *)
(* the parallel-execution lock, runs the hooks and the handler and tells   *)
(* the lifecycle contributors how it ended.  Its waiter selects between    *)
(* the task and the cancellation token; when the token wins it either      *)
(* aborts the task or, for a tool that tears processes down itself         *)
(* (Waits), takes the outcome away from the task and lets it finish.  Task *)
(* and waiter agree through one AtomicBool, `terminal_outcome_reached'.    *)
(*                                                                         *)
(* GloScope runs all of this on a current_thread runtime; the other front  *)
(* ends use worker threads.  `multi' says which: on one thread nothing     *)
(* runs between two awaits of the same task.                               *)
(***************************************************************************)
EXTENDS Integers, FiniteSets

CONSTANTS Calls,     \* tool calls of the response
          Parallel,  \* calls of tools that support parallel calls
          Waits,     \* calls of tools that wait for runtime cancellation
          Unknown    \* calls the registry cannot dispatch

ASSUME CallAssumption ==
  Parallel \subseteq Calls /\ Waits \subseteq Calls /\ Unknown \subseteq Calls

VARIABLES
  multi,     \* the runtime has worker threads
  cancelled, \* the turn's cancellation token
  turn,      \* the task that drains the waiters
  task,      \* where each dispatch task is
  aborting,  \* tasks whose handle was aborted
  result,    \* what a finished task returns
  claimed,   \* terminal_outcome_reached
  waiter,    \* where each waiter is
  reply,     \* what the waiter returned: the output the model will see
  told       \* outcomes the lifecycle contributors were told

taskVars == <<task, result>>
waiterVars == <<aborting, waiter, reply>>
vars == <<multi, cancelled, turn, taskVars, waiterVars, claimed, told>>

Ended == {"done", "cancelled", "panicked"}
Holding == {"dispatch", "hooks", "handler", "post", "blocked", "finish"}
TaskPoints == {"ready", "lock"} \cup Holding \cup Ended
WaiterPoints == {"select", "abort", "swap", "join", "settle", "teardown", "notify",
                 "returned", "dropped"}
Outcomes == {"completed", "failed", "blocked", "aborted"}

Init ==
  /\ multi \in BOOLEAN
  /\ cancelled = FALSE
  /\ turn = "running"
  /\ task = [c \in Calls |-> IF c \in Waits THEN "lock" ELSE "ready"]
  /\ aborting = {}
  /\ result = [c \in Calls |-> "none"]
  /\ claimed = [c \in Calls |-> FALSE]
  /\ waiter = [c \in Calls |-> "select"]
  /\ reply = [c \in Calls |-> "none"]
  /\ told = [c \in Calls |-> {}]
-----------------------------------------------------------------------------
(* The dispatch task.                                                      *)

\* On one thread a task does not run inside a waiter's step, and one that
\* was aborted never runs again.
Scheduled(c) ==
  multi \/ (c \notin aborting /\ \A d \in Calls : waiter[d] \notin {"abort", "swap"})

TaskAt(c, l) == task[c] = l /\ Scheduled(c)
TaskTo(c, l) == task' = [task EXCEPT ![c] = l]
TaskEnds(c, r) == TaskTo(c, "done") /\ result' = [result EXCEPT ![c] = r]

wait_until_ready(c) ==
  /\ TaskAt(c, "ready")
  /\ TaskTo(c, "lock")
  /\ UNCHANGED <<multi, cancelled, turn, result, waiterVars, claimed, told>>

Holders == {c \in Calls : task[c] \in Holding}

\* lock.read() or lock.write(); the guard lives as long as the task.
lock_free(c) == IF c \in Parallel THEN Holders \subseteq Parallel ELSE Holders = {}

acquire_lock(c) ==
  /\ TaskAt(c, "lock")
  /\ lock_free(c)
  /\ TaskTo(c, "dispatch")
  /\ UNCHANGED <<multi, cancelled, turn, result, waiterVars, claimed, told>>

\* dispatch_any_with_terminal_outcome: an unknown tool or a payload of the
\* wrong kind ends the call before anybody hears of it.
dispatch_any(c) ==
  /\ TaskAt(c, "dispatch")
  /\ \/ /\ c \in Unknown
        /\ \E r \in {"err", "fatal"} : TaskEnds(c, r)
     \/ /\ c \notin Unknown
        /\ TaskTo(c, "hooks")
        /\ UNCHANGED result
  /\ UNCHANGED <<multi, cancelled, turn, waiterVars, claimed, told>>

\* A PreToolUse hook blocks the call, rewrites its input (in vain: failed)
\* or lets it pass.
run_pre_tool_use_hooks(c) ==
  /\ TaskAt(c, "hooks")
  /\ TaskTo(c, "handler") \/ TaskTo(c, "blocked")
  /\ UNCHANGED <<multi, cancelled, turn, result, waiterVars, claimed, told>>

handle_any_tool(c) ==
  /\ TaskAt(c, "handler")
  /\ \E r \in {"ok", "err", "fatal"} : result' = [result EXCEPT ![c] = r]
  /\ TaskTo(c, "post")
  /\ UNCHANGED <<multi, cancelled, turn, waiterVars, claimed, told>>

\* Seeded fault: the task tells the outcome whoever owns it.
finish_anyway(c, o) ==
  /\ told' = [told EXCEPT ![c] = @ \cup {o}]
  /\ claimed' = [claimed EXCEPT ![c] = TRUE]

\* notify_tool_finish_if_unclaimed: swap, and tell only if it was unset.
\* There is no await between the swap and the first contributor.
notify_tool_finish_if_unclaimed(c, o) ==
  /\ claimed' = [claimed EXCEPT ![c] = TRUE]
  /\ told' = IF claimed[c] THEN told ELSE [told EXCEPT ![c] = @ \cup {o}]

notify_blocked(c) ==
  /\ TaskAt(c, "blocked")
  /\ \E o \in {"blocked", "failed"} : notify_tool_finish_if_unclaimed(c, o)
  /\ result' = [result EXCEPT ![c] = "err"]
  /\ TaskTo(c, "finish")
  /\ UNCHANGED <<multi, cancelled, turn, waiterVars>>

\* After the PostToolUse hooks.  A hook that blocks rejects the result the
\* model sees, not the completed execution.
notify_handled(c) ==
  /\ TaskAt(c, "post")
  /\ notify_tool_finish_if_unclaimed(c, IF result[c] = "ok" THEN "completed" ELSE "failed")
  /\ \/ UNCHANGED result
     \/ result[c] = "ok" /\ result' = [result EXCEPT ![c] = "err"]
  /\ TaskTo(c, "finish")
  /\ UNCHANGED <<multi, cancelled, turn, waiterVars>>

\* The contributors are served and the task returns.
task_returns(c) ==
  /\ TaskAt(c, "finish")
  /\ TaskTo(c, "done")
  /\ UNCHANGED <<multi, cancelled, turn, result, waiterVars, claimed, told>>

\* A handler may panic; the task is then lost with its lock and its result.
task_panics(c) ==
  /\ TaskAt(c, "handler")
  /\ TaskTo(c, "panicked")
  /\ UNCHANGED <<multi, cancelled, turn, result, waiterVars, claimed, told>>

\* An aborted task stops at its next await.
task_aborted(c) ==
  /\ c \in aborting
  /\ task[c] \notin Ended
  /\ TaskTo(c, "cancelled")
  /\ UNCHANGED <<multi, cancelled, turn, result, waiterVars, claimed, told>>
-----------------------------------------------------------------------------
(* The waiter: the future that handle_tool_call_with_source returns.       *)

WaiterAt(c, l) == waiter[c] = l
WaiterTo(c, l) == waiter' = [waiter EXCEPT ![c] = l]
Return(c, r) == WaiterTo(c, "returned") /\ reply' = [reply EXCEPT ![c] = r]

\* What the task's JoinHandle yields: its result, or a join error.
Joined(c) == IF task[c] = "done" THEN result[c] ELSE "fatal"

select_result(c) ==
  /\ WaiterAt(c, "select")
  /\ task[c] \in Ended
  /\ Return(c, Joined(c))
  /\ UNCHANGED <<multi, cancelled, turn, taskVars, aborting, claimed, told>>

\* Seeded fault: only the task's end is looked at.
outcome_ignored(c) == task[c] \in Ended

outcome_reached(c) == claimed[c] \/ task[c] \in Ended

\* The token fires: a call that has its outcome keeps it.
select_cancelled(c) ==
  /\ WaiterAt(c, "select")
  /\ cancelled
  /\ WaiterTo(c, IF outcome_reached(c) THEN "join" ELSE IF c \in Waits THEN "swap" ELSE "abort")
  /\ UNCHANGED <<multi, cancelled, turn, taskVars, aborting, reply, claimed, told>>

join_task(c) ==
  /\ WaiterAt(c, "join")
  /\ task[c] \in Ended
  /\ Return(c, Joined(c))
  /\ UNCHANGED <<multi, cancelled, turn, taskVars, aborting, claimed, told>>

\* The abort takes the outcome, unless the task took it first.
swap_outcome(c) ==
  /\ WaiterAt(c, "swap")
  /\ claimed' = [claimed EXCEPT ![c] = TRUE]
  /\ WaiterTo(c, IF claimed[c] THEN "join" ELSE "teardown")
  /\ UNCHANGED <<multi, cancelled, turn, taskVars, aborting, reply, told>>

\* Seeded fault: the waiter does not wait for the teardown.
torn_down_at_once(c) == TRUE

torn_down(c) == task[c] \in Ended

await_teardown(c) ==
  /\ WaiterAt(c, "teardown")
  /\ torn_down(c)
  /\ \/ /\ task[c] = "panicked"
        /\ Return(c, "fatal")
     \/ /\ task[c] # "panicked"
        /\ WaiterTo(c, "notify")
        /\ UNCHANGED reply
  /\ UNCHANGED <<multi, cancelled, turn, taskVars, aborting, claimed, told>>

abort_task(c) ==
  /\ WaiterAt(c, "abort")
  /\ aborting' = aborting \cup {c}
  /\ WaiterTo(c, "settle")
  /\ UNCHANGED <<multi, cancelled, turn, taskVars, reply, claimed, told>>

\* A task that ended before the abort reached it keeps its result.
settle_abort(c) ==
  /\ WaiterAt(c, "settle")
  /\ \/ /\ task[c] \in {"done", "panicked"}
        /\ Return(c, Joined(c))
     \/ /\ task[c] = "cancelled"
        /\ WaiterTo(c, "notify")
        /\ UNCHANGED reply
  /\ UNCHANGED <<multi, cancelled, turn, taskVars, aborting, claimed, told>>

notify_tool_aborted(c) ==
  /\ WaiterAt(c, "notify")
  /\ told' = [told EXCEPT ![c] = @ \cup {"aborted"}]
  /\ Return(c, "aborted")
  /\ UNCHANGED <<multi, cancelled, turn, taskVars, aborting, claimed>>
-----------------------------------------------------------------------------
(* The turn.                                                               *)

\* drain_in_flight has taken the last output.
drain_in_flight ==
  /\ turn = "running"
  /\ \A c \in Calls : waiter[c] = "returned"
  /\ turn' = "drained"
  /\ UNCHANGED <<multi, cancelled, taskVars, waiterVars, claimed, told>>

\* handle_task_abort cancels the token ...
interrupt ==
  /\ turn = "running" /\ ~cancelled
  /\ cancelled' = TRUE
  /\ UNCHANGED <<multi, turn, taskVars, waiterVars, claimed, told>>

\* Seeded fault: tasks outlive their dropped handles.
nothing_aborted == {}

\* AbortOnDropHandle.
aborted_on_drop == {c \in Calls : waiter[c] # "returned"}

\* ... and after GRACEFULL_INTERRUPTION_TIMEOUT_MS aborts the turn's task,
\* which drops the waiters it still has; each aborts its task as it goes.
grace_period_ends ==
  /\ turn = "running" /\ cancelled
  /\ turn' = "dropped"
  /\ aborting' = aborting \cup aborted_on_drop
  /\ waiter' = [c \in Calls |-> IF waiter[c] = "returned" THEN "returned" ELSE "dropped"]
  /\ UNCHANGED <<multi, cancelled, taskVars, reply, claimed, told>>

TaskStep(c) ==
  \/ wait_until_ready(c) \/ acquire_lock(c) \/ dispatch_any(c)
  \/ run_pre_tool_use_hooks(c) \/ handle_any_tool(c) \/ task_panics(c)
  \/ notify_blocked(c) \/ notify_handled(c) \/ task_returns(c)
  \/ task_aborted(c)

WaiterStep(c) ==
  \/ select_result(c) \/ select_cancelled(c) \/ join_task(c)
  \/ swap_outcome(c) \/ await_teardown(c)
  \/ abort_task(c) \/ settle_abort(c) \/ notify_tool_aborted(c)

TurnStep == drain_in_flight \/ interrupt \/ grace_period_ends

Next == TurnStep \/ \E c \in Calls : TaskStep(c) \/ WaiterStep(c)

Spec == Init /\ [][Next]_vars

(***************************************************************************)
(* Fairness: futures and tasks are polled, timers fire, hooks have         *)
(* timeouts.  A handler may run for ever, but one that is left to tear     *)
(* down does so once its token is cancelled.                               *)
(***************************************************************************)
Fairness ==
  /\ WF_vars(drain_in_flight) /\ WF_vars(grace_period_ends)
  /\ \A c \in Calls :
       /\ WF_vars(WaiterStep(c)) /\ WF_vars(task_aborted(c))
       /\ WF_vars(acquire_lock(c)) /\ WF_vars(dispatch_any(c))
       /\ WF_vars(run_pre_tool_use_hooks(c)) /\ WF_vars(notify_blocked(c))
       /\ WF_vars(notify_handled(c)) /\ WF_vars(task_returns(c))
       /\ WF_vars(c \in Waits /\ cancelled /\ handle_any_tool(c))
FairSpec == Spec /\ Fairness
-----------------------------------------------------------------------------
Results == {"none", "ok", "err", "fatal"}

\* The type invariant.
TypeOK ==
  /\ multi \in BOOLEAN /\ cancelled \in BOOLEAN
  /\ turn \in {"running", "drained", "dropped"}
  /\ task \in [Calls -> TaskPoints]
  /\ aborting \subseteq Calls
  /\ result \in [Calls -> Results]
  /\ claimed \in [Calls -> BOOLEAN]
  /\ waiter \in [Calls -> WaiterPoints]
  /\ reply \in [Calls -> Results \cup {"aborted"}]
  /\ told \in [Calls -> SUBSET Outcomes]

\* Calls whose task and waiter cannot both believe they own the outcome.
Arbitrated(c) == ~multi \/ c \in Waits

(***************************************************************************)
(* Exactly one of result and abort becomes the outcome of a call: the      *)
(* contributors never hear two, and what they heard is what the model is   *)
(* answered, except that a PostToolUse hook may turn a completed call into *)
(* an error.  With worker threads it holds only for the tools that wait    *)
(* for cancellation: for the others, load and abort are two steps.         *)
(***************************************************************************)
OneOutcome ==
  \A c \in Calls : Arbitrated(c) =>
    /\ \A o, p \in told[c] : o = p
    /\ reply[c] = "aborted" => told[c] = {"aborted"}
    /\ reply[c] = "ok" => told[c] = {"completed"}
    /\ reply[c] = "err" => "aborted" \notin told[c]

(***************************************************************************)
(* A call that was answered does nothing any more: its handler has ended,  *)
(* its processes are torn down and its lock is free, whatever the answer.  *)
(***************************************************************************)
NoWorkAfterReply == \A c \in Calls : waiter[c] = "returned" => task[c] \in Ended

\* The parallel-execution lock: a tool that does not support parallel calls
\* runs alone, from before its hooks until its contributors were served,
\* also while others are being aborted or torn down.
WriterRunsAlone ==
  \A c, d \in Calls :
    task[c] \in Holding /\ task[d] \in Holding /\ c # d => c \in Parallel /\ d \in Parallel

(***************************************************************************)
(* An interrupt stops every tool, the ones of a dropped turn included:     *)
(* nothing keeps running, or keeps the lock, behind the next turn.         *)
(***************************************************************************)
InterruptStopsTools == cancelled ~> \A c \in Calls : task[c] \in Ended
=============================================================================
