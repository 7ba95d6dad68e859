---------------------------- MODULE SessionTurns ----------------------------
(***************************************************************************)
(* The turns of one session (core/src/tasks/mod.rs, session/input_queue.rs,*)
(* session/inject.rs, session/handlers.rs): who owns the active turn, and  *)
(* where the input goes that arrives while one is running, ending, being   *)
(* interrupted or being started.                                           *)
(*                                                                         *)
(* Three kinds of process share Session::active_turn.  The submission loop *)
(* handles the client's operations one at a time; the task of every turn   *)
(* finishes it and may start the next one for waiting mail; an extension   *)
(* may start a turn when the session looks idle.  Every step is what a     *)
(* process does between two awaits, so a task that is aborted stops        *)
(* between two steps.                                                      *)
(***************************************************************************)
EXTENDS Integers, FiniteSets

CONSTANTS Users,         \* user messages
          Mails,         \* messages of other agents that trigger a turn
          Injects,       \* items injected into a running turn
          Idles,         \* items an extension wants to start a turn with
          MaxInputs,     \* bound: inputs that arrive
          MaxAborts,     \* bound: interrupts, and turns the guardian gives up on
          MaxTurns       \* bound: turns started

Inputs == Users \cup Mails \cup Injects \cup Idles
Turns == 1..MaxTurns

\* The processes: the submission loop, the turns' tasks, an extension, and
\* the guardian's abort task.  The loop and the guardian abort turns.
Loop == 0
Idler == MaxTurns + 1
Guardian == MaxTurns + 2
Procs == 0..(MaxTurns + 2)
Aborters == {Loop, Guardian}

\* Turn states are numbered as they are created: a turn needs at most a
\* reservation and one made in each half of start_task; a rejected item
\* needs its reservation only.
States == 1..(3 * MaxTurns + Cardinality(Idles))
None == [ts |-> 0, task |-> 0]

ASSUME BoundAssumption == {MaxTurns, MaxInputs, MaxAborts} \subseteq Nat
ASSUME InputAssumption ==
  /\ Users \cap (Mails \cup Injects \cup Idles) = {}
  /\ Mails \cap (Injects \cup Idles) = {}
  /\ Injects \cap Idles = {}
  /\ IsFiniteSet(Idles)

VARIABLES
  active,     \* Session::active_turn: its turn state and its task
  queue,      \* TurnState::pending_input, per turn state
  late,       \* turn states in MailboxDeliveryPhase::NextTurn
  mailbox     \* mailbox_pending_mails
VARIABLES
  pc,         \* where each process is
  slot,       \* the turn state a process works on
  new,        \* the turn a process is starting
  carry,      \* input a process has taken and not put down yet
  input,      \* what each turn was started with
  nextTurn,   \* next turn to be started
  offered,    \* items extensions have offered
  nextState   \* next turn state to be created
VARIABLES
  token,      \* turns whose cancellation token is cancelled
  victim,     \* the turn an aborter is aborting
  reason,     \* why the loop aborts
  aborts      \* aborts asked for so far
VARIABLES
  recorded,   \* input in the conversation history
  accepted,   \* input somebody was told is taken care of
  finished,   \* turns that emitted their end in on_task_finished
  aborted     \* turns for which an abort emitted TurnAborted

\* History: turns whose RunningTask was overwritten, <<t, u>> when the end
\* of t took the task of u, turn states given up without a task, those of
\* them that abort_all_tasks took from whoever held them, and
\* input thrown away with a turn that was aborted, overwritten or failed.
VARIABLES replaced, thefts, dropped, cut, discarded

session == <<active, queue, late, mailbox>>
starting == <<slot, new, carry, input, nextTurn, nextState, offered>>
aborting == <<token, victim, reason, aborts>>
outcome == <<recorded, accepted, finished, aborted>>
history == <<replaced, thefts, dropped, cut, discarded>>
vars == <<session, pc, starting, aborting, outcome, history>>

TypeOK ==
  /\ active \in [ts : {0} \cup States, task : {0} \cup Turns]
  /\ active.ts = 0 => active.task = 0
  /\ queue \in [States -> SUBSET Inputs] /\ late \subseteq States
  /\ mailbox \subseteq Mails
  /\ pc \in [Procs -> {"unborn", "idle", "take", "grace", "clear", "pending", "reserve",
                       "collect", "extend", "install", "check", "run", "sampled", "ending",
                       "flush", "release", "done", "killed"}]
  /\ slot \in [Procs -> {0} \cup States]
  /\ new \in [Procs -> {0} \cup Turns]
  /\ carry \in [Procs -> SUBSET Inputs] /\ input \in [Turns -> SUBSET Inputs]
  /\ nextTurn \in 1..(MaxTurns + 1) /\ nextState \in Nat \ {0}
  /\ offered \subseteq Idles
  /\ token \subseteq Turns /\ victim \in [Aborters -> {0} \cup Turns]
  /\ reason \in {"none", "replaced", "interrupted"}
  /\ recorded \subseteq Inputs /\ accepted \subseteq Inputs
  /\ finished \subseteq Turns /\ aborted \subseteq Turns

Init ==
  /\ active = None
  /\ queue = [s \in States |-> {}] /\ late = {}
  /\ mailbox = {}
  /\ pc = [x \in Procs |-> IF x \in Turns THEN "unborn" ELSE "idle"]
  /\ slot = [x \in Procs |-> 0] /\ new = [x \in Procs |-> 0]
  /\ carry = [x \in Procs |-> {}] /\ input = [t \in Turns |-> {}]
  /\ nextTurn = 1 /\ nextState = 1 /\ offered = {}
  /\ token = {} /\ victim = [x \in Aborters |-> 0] /\ reason = "none"
  /\ aborts = 0
  /\ recorded = {} /\ accepted = {} /\ finished = {} /\ aborted = {}
  /\ replaced = {} /\ thefts = {} /\ dropped = {} /\ cut = {}
  /\ discarded = {}

Room == Cardinality(accepted \cup offered) < MaxInputs

Goto(x, l) == pc' = [pc EXCEPT ![x] = l]

\* A process that has nothing left to do.
Rest(x) == IF x \in Turns THEN "done" ELSE "idle"

has_trigger_turn_mailbox_items == mailbox # {}

\* active.get_or_insert_with(ActiveTurn::default).
get_or_insert == IF active.ts = 0 THEN [ts |-> nextState, task |-> 0] ELSE active
StateMade == nextState' = IF active.ts = 0 THEN nextState + 1 ELSE nextState

\* *active = None, of a turn that has no task.
Drop ==
  /\ active' = None
  /\ dropped' = dropped \cup ({active.ts} \ {0})
-----------------------------------------------------------------------------
(* Input for the active turn.                                              *)

extend_pending_input(s, items) == queue' = [queue EXCEPT ![s] = @ \cup items]

\* extend_pending_input_and_accept_mailbox_delivery_for_turn_state.
Deliver(i) ==
  /\ extend_pending_input(active.ts, {i})
  /\ late' = late \ {active.ts}
  /\ accepted' = accepted \cup {i}

\* What get_pending_input would take from the active turn, whosever it is,
\* and from the mailbox.
accepts_mailbox_delivery == active.ts = 0 \/ active.ts \notin late
Pending ==
  IF ~accepts_mailbox_delivery THEN {}
  ELSE mailbox \cup (IF active.ts = 0 THEN {} ELSE queue[active.ts])

get_pending_input ==
  /\ mailbox' = IF accepts_mailbox_delivery THEN {} ELSE mailbox
  /\ queue' = IF accepts_mailbox_delivery /\ active.ts # 0
              THEN [queue EXCEPT ![active.ts] = {}] ELSE queue

\* inject_if_running, by a tool or a background cell of some turn.
inject_if_running(i) ==
  /\ i \in Injects \ accepted /\ Room
  /\ active.ts # 0
  /\ Deliver(i)
  /\ UNCHANGED <<active, mailbox, pc, starting, aborting, recorded, finished, aborted, history>>
-----------------------------------------------------------------------------
(* The submission loop.                                                    *)

\* user_input_or_turn: steer the turn that has a task ...
steer_input(i) ==
  /\ pc[Loop] = "idle"
  /\ i \in Users \ accepted /\ Room
  /\ active.task # 0
  /\ Deliver(i)
  /\ UNCHANGED <<active, mailbox, pc, starting, aborting, recorded, finished, aborted, history>>

\* ... else abort what there is and start a turn.
spawn_task(i) ==
  /\ pc[Loop] = "idle"
  /\ i \in Users \ accepted /\ Room
  /\ active.task = 0
  /\ nextTurn <= MaxTurns
  /\ accepted' = accepted \cup {i}
  /\ input' = [input EXCEPT ![nextTurn] = {i}]
  /\ new' = [new EXCEPT ![Loop] = nextTurn]
  /\ nextTurn' = nextTurn + 1
  /\ reason' = "replaced"
  /\ Goto(Loop, "take")
  /\ UNCHANGED <<session, slot, carry, nextState, offered, token, victim, aborts, recorded,
                 finished, aborted, history>>

interrupt_task ==
  /\ pc[Loop] = "idle"
  /\ aborts < MaxAborts
  /\ aborts' = aborts + 1
  /\ reason' = "interrupted"
  /\ Goto(Loop, "take")
  /\ UNCHANGED <<session, starting, token, victim, outcome, history>>

inter_agent_communication(i) ==
  /\ pc[Loop] = "idle"
  /\ i \in Mails \ accepted /\ Room
  /\ mailbox' = mailbox \cup {i}
  /\ accepted' = accepted \cup {i}
  /\ Goto(Loop, "pending")
  /\ UNCHANGED <<active, queue, late, starting, aborting, recorded, finished, aborted, history>>
-----------------------------------------------------------------------------
(* Aborting a turn: the loop aborts whatever is active, the guardian only  *)
(* the turn whose requests it rejected.                                    *)

\* Seeded fault: the active turn is read and not taken.
seize_a_copy(x) ==
  /\ token' = token \cup {active.task}
  /\ victim' = [victim EXCEPT ![x] = active.task]
  /\ slot' = [slot EXCEPT ![x] = active.ts]
  /\ Goto(x, "grace")
  /\ UNCHANGED <<active, dropped, cut>>

Seize(x) ==
  /\ active' = None
  /\ token' = token \cup {active.task}
  /\ victim' = [victim EXCEPT ![x] = active.task]
  /\ slot' = [slot EXCEPT ![x] = active.ts]
  /\ Goto(x, "grace")
  /\ UNCHANGED <<dropped, cut>>

\* abort_all_tasks: a turn without a task (reserved, or ending) is dropped.
abort_all_tasks ==
  /\ pc[Loop] = "take"
  /\ \/ active.task # 0 /\ Seize(Loop)
     \/ /\ active.task = 0
        /\ Drop
        /\ cut' = cut \cup ({active.ts} \ {0})
        /\ Goto(Loop, IF reason = "replaced" THEN "collect" ELSE "idle")
        /\ UNCHANGED <<token, victim, slot>>
  /\ UNCHANGED <<queue, late, mailbox, new, carry, input, nextTurn, nextState, offered, reason,
                 aborts, outcome, replaced, thefts, discarded>>

\* record_guardian_denial spawns abort_turn_if_active for its turn.
record_guardian_denial(t) ==
  /\ pc[Guardian] = "idle" /\ pc[t] = "sampled"
  /\ active.task = t
  /\ aborts < MaxAborts
  /\ aborts' = aborts + 1
  /\ victim' = [victim EXCEPT ![Guardian] = t]
  /\ Goto(Guardian, "take")
  /\ UNCHANGED <<session, starting, token, reason, outcome, history>>

abort_turn_if_active ==
  /\ pc[Guardian] = "take"
  /\ \/ active.task = victim[Guardian] /\ Seize(Guardian)
     \/ /\ active.task # victim[Guardian]
        /\ Goto(Guardian, "idle")
        /\ UNCHANGED <<active, token, victim, slot, dropped, cut>>
  /\ UNCHANGED <<queue, late, mailbox, new, carry, input, nextTurn, nextState, offered, reason,
                 aborts, outcome, replaced, thefts, discarded>>

\* What the task of a turn that is killed had in its hands: input it has
\* not recorded, or what it had collected for the next turn.
Held(t) == carry[t] \cup (IF pc[t] = "run" THEN input[t] ELSE {})

\* Seeded fault: TurnAborted is left to the task's own end.
abort_quietly(x) ==
  /\ pc[x] = "grace"
  /\ LET t == victim[x] IN
       /\ pc' = [pc EXCEPT ![x] = "clear", ![t] = IF @ = "done" THEN @ ELSE "killed"]
       /\ discarded' = discarded \cup Held(t)
  /\ UNCHANGED <<session, starting, aborting, outcome, replaced, thefts, dropped, cut>>

\* handle_task_abort: the task is done, or the grace period is over; either
\* way it is aborted, and the client is told ...
handle_task_abort(x) ==
  /\ pc[x] = "grace"
  /\ LET t == victim[x] IN
       /\ pc' = [pc EXCEPT ![x] = "clear", ![t] = IF @ = "done" THEN @ ELSE "killed"]
       /\ discarded' = discarded \cup Held(t)
       /\ aborted' = aborted \cup {t}
  /\ UNCHANGED <<session, starting, aborting, recorded, accepted, finished, replaced, thefts,
                 dropped, cut>>

AfterAbort(x) == IF x = Loop /\ reason = "replaced" THEN "collect" ELSE "pending"

\* ... before the input and the waiters of its turn state are dropped.
clear_pending(x) ==
  /\ pc[x] = "clear"
  /\ queue' = [queue EXCEPT ![slot[x]] = {}]
  /\ discarded' = discarded \cup queue[slot[x]]
  /\ slot' = [slot EXCEPT ![x] = 0]
  /\ victim' = [victim EXCEPT ![x] = 0]
  /\ Goto(x, AfterAbort(x))
  /\ UNCHANGED <<active, late, mailbox, new, carry, input, nextTurn, nextState, offered, token,
                 reason, aborts, outcome, replaced, thefts, dropped, cut>>
-----------------------------------------------------------------------------
(* Starting a turn, by whichever process.                                  *)

\* maybe_start_turn_for_pending_work: look at the mailbox, then reserve an
\* idle session.
maybe_start_turn_for_pending_work(x) ==
  /\ pc[x] = "pending"
  /\ Goto(x, IF has_trigger_turn_mailbox_items THEN "reserve" ELSE Rest(x))
  /\ UNCHANGED <<session, starting, aborting, outcome, history>>

reserve_turn(x) ==
  /\ pc[x] = "reserve"
  /\ \/ /\ active.ts # 0
        /\ Goto(x, Rest(x))
        /\ UNCHANGED <<active, nextState, new, nextTurn>>
     \/ /\ active.ts = 0 /\ nextTurn <= MaxTurns
        /\ active' = get_or_insert /\ StateMade
        /\ new' = [new EXCEPT ![x] = nextTurn]
        /\ nextTurn' = nextTurn + 1
        /\ Goto(x, "collect")
  /\ UNCHANGED <<queue, late, mailbox, slot, carry, input, offered, aborting, outcome, history>>

\* start_task: collect what is waiting ...
start_collect(x) ==
  /\ pc[x] = "collect"
  /\ carry' = [carry EXCEPT ![x] = Pending]
  /\ get_pending_input
  /\ Goto(x, "extend")
  /\ UNCHANGED <<active, late, slot, new, input, nextTurn, nextState, offered, aborting, outcome,
                 history>>

\* Seeded fault: what was collected is put back only into a turn state that
\* is still there.
extend_if_reserved(x) ==
  /\ pc[x] = "extend"
  /\ active' = get_or_insert /\ StateMade
  /\ IF active.ts = 0 THEN UNCHANGED queue ELSE extend_pending_input(active.ts, carry[x])
  /\ carry' = [carry EXCEPT ![x] = {}]
  /\ Goto(x, "install")
  /\ UNCHANGED <<late, mailbox, slot, new, input, nextTurn, offered, aborting, outcome, history>>

\* ... queue it with the turn state found or made ...
start_extend(x) ==
  /\ pc[x] = "extend"
  /\ active' = get_or_insert /\ StateMade
  /\ extend_pending_input(get_or_insert.ts, carry[x])
  /\ carry' = [carry EXCEPT ![x] = {}]
  /\ Goto(x, "install")
  /\ UNCHANGED <<late, mailbox, slot, new, input, nextTurn, offered, aborting, outcome, history>>

\* Seeded fault: the handle of an overwritten task does not abort it.
install_without_abort(x) ==
  /\ pc[x] = "install"
  /\ active' = [get_or_insert EXCEPT !.task = new[x]] /\ StateMade
  /\ pc' = [pc EXCEPT ![x] = Rest(x), ![new[x]] = "run"]
  /\ replaced' = replaced \cup ({active.task} \ {0})
  /\ new' = [new EXCEPT ![x] = 0]
  /\ UNCHANGED <<queue, late, mailbox, slot, carry, input, nextTurn, offered, aborting, outcome,
                 thefts, dropped, cut, discarded>>

\* Seeded fault: the reservation is taken to be still there.
install_in_reserved(x) ==
  /\ pc[x] = "install"
  /\ active' = [active EXCEPT !.task = new[x]]
  /\ pc' = [pc EXCEPT ![x] = Rest(x), ![new[x]] = "run"]
  /\ new' = [new EXCEPT ![x] = 0]
  /\ UNCHANGED <<queue, late, mailbox, slot, carry, input, nextTurn, nextState, offered, aborting,
                 outcome, history>>

\* ... and install the task.  A task that is there already is overwritten,
\* and its handle aborts it as it is dropped.
start_install(x) ==
  /\ pc[x] = "install"
  /\ active' = [get_or_insert EXCEPT !.task = new[x]] /\ StateMade
  /\ LET old == {active.task} \ {0} IN
       /\ pc' = [y \in Procs |-> IF y = x THEN Rest(x)
                                 ELSE IF y = new[x] THEN "run"
                                 ELSE IF y \in old /\ pc[y] # "done" THEN "killed"
                                 ELSE pc[y]]
       /\ replaced' = replaced \cup old
       /\ discarded' = discarded \cup UNION {Held(t) : t \in old}
  /\ new' = [new EXCEPT ![x] = 0]
  /\ UNCHANGED <<queue, late, mailbox, slot, carry, input, nextTurn, offered, aborting, outcome,
                 thefts, dropped, cut>>

\* try_start_turn_if_idle: reserve the session for an extension's item ...
try_start_turn_if_idle(i) ==
  /\ pc[Idler] = "idle"
  /\ i \in Idles \ offered /\ Room
  /\ ~has_trigger_turn_mailbox_items /\ active.ts = 0
  /\ offered' = offered \cup {i}
  /\ carry' = [carry EXCEPT ![Idler] = {i}]
  /\ active' = get_or_insert /\ StateMade
  /\ slot' = [slot EXCEPT ![Idler] = nextState]
  /\ Goto(Idler, "check")
  /\ UNCHANGED <<queue, late, mailbox, new, input, nextTurn, aborting, outcome, history>>

still_reserved == active = [ts |-> slot[Idler], task |-> 0]

\* ... hand the item back, for waiting mail or in Plan mode ...
clear_reserved_idle_turn ==
  /\ pc[Idler] = "check"
  /\ \/ still_reserved /\ Drop
     \/ ~still_reserved /\ UNCHANGED <<active, dropped>>
  /\ carry' = [carry EXCEPT ![Idler] = {}]
  /\ Goto(Idler, "pending")
  /\ UNCHANGED <<queue, late, mailbox, slot, new, input, nextTurn, nextState, offered, aborting,
                 outcome, replaced, thefts, cut, discarded>>

\* ... or because somebody else has taken over ...
reject_busy ==
  /\ pc[Idler] = "check"
  /\ ~has_trigger_turn_mailbox_items /\ ~still_reserved
  /\ carry' = [carry EXCEPT ![Idler] = {}]
  /\ Goto(Idler, "idle")
  /\ UNCHANGED <<session, slot, new, input, nextTurn, nextState, offered, aborting, outcome,
                 history>>

\* ... or use the reservation, with user input as the turn's own and
\* anything else queued.
use_reserved_idle_turn ==
  /\ pc[Idler] = "check"
  /\ ~has_trigger_turn_mailbox_items /\ still_reserved
  /\ nextTurn <= MaxTurns
  /\ \/ extend_pending_input(slot[Idler], carry[Idler]) /\ UNCHANGED input
     \/ input' = [input EXCEPT ![nextTurn] = carry[Idler]] /\ UNCHANGED queue
  /\ accepted' = accepted \cup carry[Idler]
  /\ carry' = [carry EXCEPT ![Idler] = {}]
  /\ new' = [new EXCEPT ![Idler] = nextTurn]
  /\ nextTurn' = nextTurn + 1
  /\ Goto(Idler, "collect")
  /\ UNCHANGED <<active, late, mailbox, slot, nextState, offered, aborting, recorded, finished,
                 aborted, history>>
-----------------------------------------------------------------------------
(* The task of a turn.                                                     *)

\* run_turn records the turn's own input; a turn without any starts with
\* what is queued.
run_turn(t) ==
  /\ pc[t] = "run"
  /\ recorded' = recorded \cup (IF input[t] = {} THEN Pending ELSE input[t])
  /\ IF input[t] = {} THEN get_pending_input ELSE UNCHANGED <<queue, mailbox>>
  /\ Goto(t, "sampled")
  /\ UNCHANGED <<active, late, starting, aborting, accepted, finished, aborted, history>>

\* An error before that (compaction, step context): the input is not
\* recorded.
run_turn_fails(t) ==
  /\ pc[t] = "run"
  /\ discarded' = discarded \cup input[t]
  /\ Goto(t, IF t \in token THEN "done" ELSE "ending")
  /\ UNCHANGED <<session, starting, aborting, outcome, replaced, thefts, dropped, cut>>

\* defer_mailbox_delivery_to_next_turn, once an answer was shown.
defer_mailbox_delivery(t) ==
  /\ pc[t] = "sampled"
  /\ active.task = t /\ queue[active.ts] = {} /\ active.ts \notin late
  /\ late' = late \cup {active.ts}
  /\ UNCHANGED <<active, queue, mailbox, pc, starting, aborting, outcome, history>>

\* accept_mailbox_delivery_for_current_turn, when the model calls a tool or
\* a stop hook keeps the turn going.
accept_mailbox_delivery(t) ==
  /\ pc[t] = "sampled"
  /\ active.task = t /\ active.ts \in late
  /\ late' = late \ {active.ts}
  /\ UNCHANGED <<active, queue, mailbox, pc, starting, aborting, outcome, history>>

\* After a model request the turn goes on while input is pending ...
follow_up(t) ==
  /\ pc[t] = "sampled" /\ t \notin token
  /\ Pending # {}
  /\ recorded' = recorded \cup Pending
  /\ get_pending_input
  /\ UNCHANGED <<active, late, pc, starting, aborting, accepted, finished, aborted, history>>

\* ... and ends when none is, when it is cancelled, or with an error.
\* on_task_finished is skipped if the token is cancelled by then; it does not
\* look again after reporting an error.
end_run(t) ==
  /\ pc[t] = "sampled"
  /\ Goto(t, IF t \in token THEN "done" ELSE "ending")
  /\ UNCHANGED <<session, starting, aborting, outcome, history>>

\* on_task_finished: whatever task the active turn has is taken out and
\* detached ...
take_task(t) ==
  /\ pc[t] = "ending"
  /\ \/ /\ active.task = 0
        /\ Goto(t, "done")
        /\ UNCHANGED <<active, slot, thefts>>
     \/ /\ active.task # 0
        /\ active' = [active EXCEPT !.task = 0]
        /\ slot' = [slot EXCEPT ![t] = active.ts]
        /\ thefts' = thefts \cup ({t} \X ({active.task} \ {t}))
        /\ Goto(t, "flush")
  /\ UNCHANGED <<queue, late, mailbox, new, carry, input, nextTurn, nextState, offered, aborting,
                 outcome, replaced, dropped, cut, discarded>>

\* ... input that came too late for the model still becomes history, and the
\* client is told ...
on_task_finished(t) ==
  /\ pc[t] = "flush"
  /\ recorded' = recorded \cup queue[slot[t]]
  /\ queue' = [queue EXCEPT ![slot[t]] = {}]
  /\ finished' = finished \cup {t}
  /\ Goto(t, "release")
  /\ UNCHANGED <<active, late, mailbox, starting, aborting, accepted, aborted, history>>

\* Seeded fault: the session is released without a look at the mailbox.
release_and_stop(t) ==
  /\ pc[t] = "release"
  /\ IF active = [ts |-> slot[t], task |-> 0] THEN Drop ELSE UNCHANGED <<active, dropped>>
  /\ Goto(t, "done")
  /\ slot' = [slot EXCEPT ![t] = 0]
  /\ UNCHANGED <<queue, late, mailbox, new, carry, input, nextTurn, nextState, offered, aborting,
                 outcome, replaced, thefts, cut, discarded>>

\* ... and the active turn is cleared if it is still this one, with no task.
clear_active_turn(t) ==
  /\ pc[t] = "release"
  /\ IF active = [ts |-> slot[t], task |-> 0]
     THEN Drop /\ Goto(t, "pending")
     ELSE Goto(t, "done") /\ UNCHANGED <<active, dropped>>
  /\ slot' = [slot EXCEPT ![t] = 0]
  /\ UNCHANGED <<queue, late, mailbox, new, carry, input, nextTurn, nextState, offered, aborting,
                 outcome, replaced, thefts, cut, discarded>>

AbortStep(x) == handle_task_abort(x) \/ clear_pending(x)

StartStep(x) ==
  \/ maybe_start_turn_for_pending_work(x) \/ reserve_turn(x)
  \/ start_collect(x) \/ start_extend(x) \/ start_install(x)

IdleStep == clear_reserved_idle_turn \/ reject_busy \/ use_reserved_idle_turn

EndStep(t) == take_task(t) \/ on_task_finished(t) \/ clear_active_turn(t)

Next ==
  \/ \E i \in Inputs : steer_input(i) \/ spawn_task(i) \/ inter_agent_communication(i)
                       \/ inject_if_running(i) \/ try_start_turn_if_idle(i)
  \/ interrupt_task \/ abort_all_tasks \/ abort_turn_if_active
  \/ \E x \in Aborters : AbortStep(x)
  \/ \E x \in Procs : StartStep(x)
  \/ IdleStep
  \/ \E t \in Turns : \/ run_turn(t) \/ run_turn_fails(t) \/ follow_up(t) \/ end_run(t)
                      \/ defer_mailbox_delivery(t) \/ accept_mailbox_delivery(t)
                      \/ record_guardian_denial(t) \/ EndStep(t)

Spec == Init /\ [][Next]_vars

\* Tasks are polled, timers fire and the model answers or fails; nothing
\* obliges client, agents, guardian and extensions to do anything.
Fairness ==
  /\ WF_vars(abort_all_tasks) /\ WF_vars(abort_turn_if_active)
  /\ \A x \in Aborters : WF_vars(AbortStep(x))
  /\ \A x \in Procs : WF_vars(StartStep(x))
  /\ WF_vars(IdleStep)
  /\ \A t \in Turns : /\ WF_vars(run_turn(t) \/ run_turn_fails(t))
                      /\ WF_vars(end_run(t)) /\ WF_vars(EndStep(t))
FairSpec == Spec /\ Fairness
-----------------------------------------------------------------------------
(* Properties.                                                             *)

stolen == {e[2] : e \in thefts}

\* What start_task asserts twice: no task is there when one is installed.
NotReplaced == replaced = {}

\* No turn is told to be complete and aborted too, unless its end, still
\* under way when it was cancelled, took the task of another turn.
OneEnd == \A t \in finished \cap aborted : \E e \in thefts : e[1] = t

\* Two turns run side by side only while one of them is being aborted, or
\* was detached by the end of another turn.
Running == {t \in Turns : pc[t] \in {"run", "sampled"}}
OneRuns ==
  \A t, u \in Running : t = u \/ {t, u} \cap (token \cup stolen) # {}

\* Input that was accepted is in the history, went down with an aborted,
\* overwritten or failed turn, or is on its way: in the mailbox, in the
\* queue of the active turn or of one being aborted, in the hands of a
\* process that lives, or with a turn that one of these is starting.  The
\* one other place it can be in is the queue of a turn state given up
\* without a task: input queued for a turn that was only reserved, or was
\* already ending.
Reachable == {active.ts} \cup {slot[x] : x \in {y \in Aborters : pc[y] \in {"grace", "clear"}}}
Living == {x \in Procs : pc[x] # "killed"}
Coming == {t \in Turns : pc[t] = "run" \/ \E x \in Living : new[x] = t}
InHands == UNION {carry[x] : x \in Living}
Queued == UNION {queue[s] : s \in (dropped \cup Reachable) \cap States}
ToStart == UNION {input[t] : t \in Coming}
InputKept ==
  accepted \subseteq recorded \cup discarded \cup mailbox \cup InHands \cup Queued \cup ToStart

\* A turn that runs is eventually reported complete or aborted, unless its
\* task was overwritten or taken by the end of another turn.
TurnEnds ==
  \A t \in Turns : t \in Running ~> t \in finished \cup aborted \cup replaced \cup stolen

\* Mail that triggers a turn does not stay in the mailbox.  The exceptions:
\* an interrupt took the active turn from the turn that was ending, and then
\* neither of them looks at the mailbox; or a turn that was being aborted
\* took the task of another, and was killed before it cleared the session.
MailDelivered ==
  \A m \in Mails :
    m \in mailbox ~> m \notin mailbox \/ nextTurn > MaxTurns \/ cut # {} \/ thefts # {}
=============================================================================
