------------------------- MODULE SessionTurns_proofs -------------------------
(***************************************************************************)
(* Proofs about SessionTurns for any inputs and any number of turns and    *)
(* aborts.                                                                 *)
(***************************************************************************)
EXTENDS SessionTurns, FiniteSetTheorems, TLAPS

-----------------------------------------------------------------------------
(* The processes and the turn states.                                      *)

LEMMA ProcFacts ==
  /\ Turns \subseteq Procs /\ {Loop, Idler, Guardian} \subseteq Procs
  /\ \A x \in Procs : x \in Turns \cup {Loop, Idler, Guardian}
  /\ {Loop, Idler, Guardian} \cap Turns = {}
  /\ Loop # Idler /\ Loop # Guardian /\ Idler # Guardian
  /\ Aborters = {Loop, Guardian}
BY BoundAssumption DEF Turns, Procs, Loop, Idler, Guardian, Aborters

LEMMA TurnFacts ==
  /\ Turns \subseteq Nat /\ 0 \notin Turns
  /\ MaxTurns \in Nat
  /\ \A n \in 1..(MaxTurns + 1) : n <= MaxTurns => n \in Turns /\ n + 1 \in 1..(MaxTurns + 1)
BY BoundAssumption DEF Turns

LEMMA StateFacts ==
  /\ Cardinality(Idles) \in Nat
  /\ 0 \notin States
  /\ \A n \in Nat \ {0} : n <= 3 * MaxTurns + Cardinality(Idles) => n \in States
<1>1. Cardinality(Idles) \in Nat
  BY InputAssumption, FS_CardinalityType
<1> QED
  BY <1>1, BoundAssumption DEF States

-----------------------------------------------------------------------------
(* Who is where.                                                           *)

Starting == {"collect", "extend", "install"}

Kinds ==
  /\ \A t \in Turns : pc[t] \in {"unborn", "run", "sampled", "ending", "flush", "release",
                                 "pending", "reserve", "done", "killed"} \cup Starting
  /\ pc[Loop] \in {"idle", "take", "grace", "clear", "pending", "reserve"} \cup Starting
  /\ pc[Idler] \in {"idle", "check", "pending", "reserve"} \cup Starting
  /\ pc[Guardian] \in {"idle", "take", "grace", "clear", "pending", "reserve"} \cup Starting

\* Process x has a turn to start: it is in start_task, or it is the loop,
\* which aborts what there is before it starts the turn of a user message.
Promises(x) ==
  \/ pc[x] \in Starting
  \/ x = Loop /\ reason = "replaced" /\ pc[x] \in {"take", "grace", "clear"}

\* A turn that is being started is not born, and one process starts it.
News ==
  /\ \A x \in Procs : new[x] # 0 => /\ new[x] < nextTurn /\ pc[new[x]] = "unborn"
                                    /\ Promises(x) \/ pc[x] = "killed"
  /\ \A x \in Procs : Promises(x) => new[x] # 0
  /\ \A x, y \in Procs : new[x] = new[y] /\ new[x] # 0 => x = y
  /\ \A t \in Turns : t >= nextTurn => pc[t] = "unborn"

\* What an aborter holds is a cancelled turn and its turn state; the end of
\* a turn holds the turn state it found.
Slots ==
  /\ \A x \in Aborters : pc[x] \in {"grace", "clear"} => victim[x] \in token /\ slot[x] # 0
  /\ pc[Guardian] = "take" => victim[Guardian] # 0
  /\ \A t \in Turns : pc[t] \in {"flush", "release"} => slot[t] # 0
  /\ \A t \in token : pc[t] # "unborn"

\* The task of the active turn is under way and nobody has cancelled it.
TaskLives ==
  active.task # 0 => /\ pc[active.task] \in {"run", "sampled", "ending"}
                     /\ active.task \notin token

\* A turn state is paid for by a turn that was numbered, one whose starter
\* is past its first look at the active turn, one that was installed, or by
\* an item an extension offered.
Extended ==
  {t \in Turns : t < nextTurn /\ \A x \in Procs : new[x] = t => pc[x] \in {"install", "killed"}}
Installed == {t \in Turns : pc[t] # "unborn"}
Paid ==
  nextState <= nextTurn + Cardinality(Extended) + Cardinality(Installed) + Cardinality(offered)

Control == TypeOK /\ Kinds /\ News /\ Slots /\ TaskLives /\ Paid

LEMMA ControlInit == Init => Control
<1> SUFFICES ASSUME Init PROVE Control
  OBVIOUS
<1> USE DEF Init, None
<1>1. TypeOK
  BY ProcFacts, TurnFacts, StateFacts DEF TypeOK
<1>2. Kinds /\ News /\ Slots /\ TaskLives
  BY ProcFacts, TurnFacts DEF Kinds, News, Slots, TaskLives, Promises, Starting
<1>3. Paid
  <2>1. IsFiniteSet(Turns)
    BY FS_Interval, BoundAssumption DEF Turns
  <2>2. IsFiniteSet(Extended) /\ IsFiniteSet(Installed)
    BY <2>1, FS_Subset DEF Extended, Installed
  <2>3. Cardinality(Extended) \in Nat /\ Cardinality(Installed) \in Nat /\ Cardinality(offered) = 0
    BY <2>2, FS_CardinalityType, FS_EmptySet
  <2> QED
    BY <2>3 DEF Paid
<1> QED
  BY <1>1, <1>2, <1>3 DEF Control

-----------------------------------------------------------------------------
(* There is a number for every turn state that is made.                    *)

LEMMA CountFacts ==
  ASSUME Control
  PROVE  /\ IsFiniteSet(Turns) /\ Cardinality(Turns) = MaxTurns
         /\ IsFiniteSet(Extended) /\ Cardinality(Extended) \in Nat
         /\ IsFiniteSet(Installed) /\ Cardinality(Installed) \in Nat
         /\ IsFiniteSet(offered) /\ Cardinality(offered) \in Nat
<1>1. IsFiniteSet(Turns) /\ Cardinality(Turns) = MaxTurns
  BY FS_Interval, BoundAssumption DEF Turns
<1>2. IsFiniteSet(Extended) /\ IsFiniteSet(Installed)
  BY <1>1, FS_Subset DEF Extended, Installed
<1>3. IsFiniteSet(offered)
  BY FS_Subset, InputAssumption DEF Control, TypeOK
<1> QED
  BY <1>1, <1>2, <1>3, FS_CardinalityType

\* A set of turns that misses one is smaller than their number, and at most
\* their number in any case.
LEMMA MissingTurn ==
  ASSUME NEW S \in SUBSET Turns, NEW t \in Turns \ S
  PROVE  Cardinality(S) + 1 <= MaxTurns
<1>1. IsFiniteSet(Turns) /\ Cardinality(Turns) = MaxTurns
  BY FS_Interval, BoundAssumption DEF Turns
<1>2. IsFiniteSet(S)
  BY <1>1, FS_Subset
<1>3. Cardinality(S \cup {t}) = Cardinality(S) + 1
  BY <1>2, FS_AddElement
<1>4. S \cup {t} \subseteq Turns
  OBVIOUS
<1> QED
  BY <1>1, <1>3, <1>4, FS_Subset

LEMMA AllTurns ==
  ASSUME NEW S \in SUBSET Turns
  PROVE  Cardinality(S) <= MaxTurns
<1>1. IsFiniteSet(Turns) /\ Cardinality(Turns) = MaxTurns
  BY FS_Interval, BoundAssumption DEF Turns
<1> QED
  BY <1>1, FS_Subset

LEMMA RoomForState ==
  ASSUME Control,
         \/ nextTurn <= MaxTurns
         \/ \E t \in Turns : t \notin Extended
         \/ \E t \in Turns : t \notin Installed
         \/ \E i \in Idles : i \notin offered
  PROVE  nextState \in States
<1> DEFINE e == Cardinality(Extended)
           n == Cardinality(Installed)
           o == Cardinality(offered)
           k == Cardinality(Idles)
<1>1. e \in Nat /\ n \in Nat /\ o \in Nat /\ k \in Nat /\ MaxTurns \in Nat
  BY CountFacts, StateFacts, TurnFacts
<1>2. nextState <= nextTurn + e + n + o /\ nextTurn \in 1..(MaxTurns + 1) /\ nextState \in Nat \ {0}
  BY DEF Control, Paid, TypeOK
<1>3. e <= MaxTurns /\ n <= MaxTurns
  BY AllTurns DEF Extended, Installed
<1>4. o <= k
  BY InputAssumption, FS_Subset DEF Control, TypeOK
<1>5. (\E t \in Turns : t \notin Extended) => e + 1 <= MaxTurns
  BY MissingTurn DEF Extended
<1>6. (\E t \in Turns : t \notin Installed) => n + 1 <= MaxTurns
  BY MissingTurn DEF Installed
<1>7. (\E i \in Idles : i \notin offered) => o + 1 <= k
  <2>1. SUFFICES ASSUME NEW i \in Idles, i \notin offered PROVE o + 1 <= k
    OBVIOUS
  <2>2. Cardinality(offered \cup {i}) = o + 1
    BY <2>1, CountFacts, FS_AddElement
  <2>3. offered \cup {i} \subseteq Idles
    BY DEF Control, TypeOK
  <2> QED
    BY <2>2, <2>3, InputAssumption, FS_Subset
<1> HIDE DEF e, n, o, k
<1>8. nextState <= 3 * MaxTurns + k
  BY <1>1, <1>2, <1>3, <1>4, <1>5, <1>6, <1>7
<1> QED
  BY <1>2, <1>8, StateFacts DEF k

\* Whoever is about to make a turn state in start_task has paid for it.
LEMMA RoomToStart ==
  ASSUME Control, NEW x \in Procs, pc[x] \in {"extend", "install"}
  PROVE  new[x] \in Turns /\ nextState \in States
<1>1. new[x] \in Turns
  BY DEF Control, News, Promises, Starting, TypeOK
<1>2. CASE pc[x] = "extend"
  <2>1. new[x] \notin Extended
    BY <1>2 DEF Extended
  <2> QED
    BY <1>1, <2>1, RoomForState
<1>3. CASE pc[x] = "install"
  <2>1. new[x] \notin Installed
    BY <1>1, TurnFacts DEF Installed, Control, News
  <2> QED
    BY <1>1, <2>1, RoomForState
<1> QED
  BY <1>1, <1>2, <1>3

\* The turn state found or made.
LEMMA InsertFacts ==
  ASSUME Control, nextState \in States
  PROVE  /\ get_or_insert \in [ts : {0} \cup States, task : {0} \cup Turns]
         /\ get_or_insert.ts \in States /\ get_or_insert.task = active.task
         /\ active.ts # 0 => get_or_insert.ts = active.ts
         /\ StateMade => nextState' \in Nat \ {0}
<1> USE DEF get_or_insert, Control, TypeOK
<1>1. get_or_insert \in [ts : {0} \cup States, task : {0} \cup Turns]
  OBVIOUS
<1>2. get_or_insert.ts \in States /\ get_or_insert.task = active.task
  OBVIOUS
<1>3. StateMade => nextState' \in Nat \ {0}
  BY DEF StateMade
<1> QED
  BY <1>1, <1>2, <1>3

LEMMA InputFacts ==
  /\ Users \subseteq Inputs /\ Mails \subseteq Inputs /\ Injects \subseteq Inputs
  /\ Idles \subseteq Inputs
  /\ Control => Pending \subseteq Inputs
<1>1. Control => Pending \subseteq Inputs
  BY DEF Pending, Control, TypeOK, Inputs
<1> QED
  BY <1>1 DEF Inputs
-----------------------------------------------------------------------------
(* Types.                                                                  *)

\* Input that arrives at the loop, from a tool or from an extension.
LEMMA ArrivalTypes ==
  ASSUME Control, NEW i \in Inputs,
         \/ steer_input(i) \/ spawn_task(i) \/ inter_agent_communication(i)
         \/ inject_if_running(i) \/ try_start_turn_if_idle(i)
  PROVE  TypeOK'
<1> USE ProcFacts DEF Control, TypeOK, Goto, session, starting, aborting, outcome, history
<1>1. CASE steer_input(i) \/ inject_if_running(i)
  BY <1>1 DEF steer_input, inject_if_running, Deliver, extend_pending_input
<1>2. CASE spawn_task(i)
  <2>1. nextTurn \in Turns /\ nextTurn + 1 \in 1..(MaxTurns + 1)
    BY <1>2, TurnFacts DEF spawn_task
  <2> QED
    BY <1>2, <2>1 DEF spawn_task
<1>3. CASE inter_agent_communication(i)
  BY <1>3 DEF inter_agent_communication
<1>4. CASE try_start_turn_if_idle(i)
  <2>1. nextState \in States
    BY <1>4, RoomForState DEF try_start_turn_if_idle
  <2>2. active' \in [ts : {0} \cup States, task : {0} \cup Turns] /\ active'.ts \in States
        /\ nextState' \in Nat \ {0}
    BY <1>4, <2>1, InsertFacts DEF try_start_turn_if_idle
  <2> QED
    BY <1>4, <2>1, <2>2, StateFacts DEF try_start_turn_if_idle
<1> QED
  BY <1>1, <1>2, <1>3, <1>4

LEMMA AbortTypes ==
  ASSUME Control,
         \/ interrupt_task \/ abort_all_tasks \/ abort_turn_if_active
         \/ \E t \in Turns : record_guardian_denial(t)
         \/ \E x \in Aborters : AbortStep(x)
  PROVE  TypeOK'
<1> USE ProcFacts DEF Control, TypeOK, Goto, session, starting, aborting, outcome, history
<1>1. CASE interrupt_task
  BY <1>1 DEF interrupt_task
<1>2. CASE abort_all_tasks
  BY <1>2 DEF abort_all_tasks, Seize, Drop, None
<1>3. CASE abort_turn_if_active
  <2>1. CASE active.task # victim[Guardian]
    BY <1>3, <2>1 DEF abort_turn_if_active, Seize
  <2>2. CASE active.task = victim[Guardian]
    <3>1. active.task \in Turns
      BY <1>3, <2>2 DEF abort_turn_if_active, Slots
    <3> QED
      BY <1>3, <2>2, <3>1 DEF abort_turn_if_active, Seize, None
  <2> QED
    BY <2>1, <2>2
<1>4. ASSUME NEW t \in Turns, record_guardian_denial(t) PROVE TypeOK'
  BY <1>4 DEF record_guardian_denial
<1>5. ASSUME NEW x \in Aborters, handle_task_abort(x) PROVE TypeOK'
  <2>1. victim[x] \in Turns
    BY <1>5 DEF handle_task_abort, Slots
  <2>2. pc' \in [Procs -> {"unborn", "idle", "take", "grace", "clear", "pending", "reserve",
                           "collect", "extend", "install", "check", "run", "sampled", "ending",
                           "flush", "release", "done", "killed"}]
    BY <1>5, <2>1 DEF handle_task_abort
  <2> QED
    BY <1>5, <2>1, <2>2 DEF handle_task_abort
<1>6. ASSUME NEW x \in Aborters, clear_pending(x) PROVE TypeOK'
  <2>1. AfterAbort(x) \in {"collect", "pending"}
    BY DEF AfterAbort
  <2> QED
    BY <1>6, <2>1 DEF clear_pending
<1> QED
  BY <1>1, <1>2, <1>3, <1>4, <1>5, <1>6 DEF AbortStep

LEMMA StartTypes ==
  ASSUME Control, NEW x \in Procs, StartStep(x)
  PROVE  TypeOK'
<1> USE DEF Control, TypeOK, Goto, session, starting, aborting, outcome, history
<1>0. Rest(x) \in {"done", "idle"}
  BY DEF Rest
<1>1. CASE maybe_start_turn_for_pending_work(x)
  BY <1>0, <1>1 DEF maybe_start_turn_for_pending_work
<1>2. CASE reserve_turn(x)
  <2>1. CASE active.ts # 0
    BY <1>0, <1>2, <2>1 DEF reserve_turn
  <2>2. CASE active.ts = 0
    <3>1. nextTurn \in Turns /\ nextTurn + 1 \in 1..(MaxTurns + 1) /\ nextState \in States
      BY <1>2, <2>2, TurnFacts, RoomForState DEF reserve_turn
    <3>2. active' \in [ts : {0} \cup States, task : {0} \cup Turns] /\ active'.ts \in States
          /\ nextState' \in Nat \ {0}
      BY <1>2, <2>2, <3>1, InsertFacts DEF reserve_turn
    <3> QED
      BY <1>2, <2>2, <3>1, <3>2, StateFacts DEF reserve_turn
  <2> QED
    BY <2>1, <2>2
<1>3. CASE start_collect(x)
  <2>1. mailbox' \subseteq Mails /\ queue' \in [States -> SUBSET Inputs]
    BY <1>3 DEF start_collect, get_pending_input
  <2>2. carry' \in [Procs -> SUBSET Inputs]
    BY <1>3, InputFacts DEF start_collect
  <2> QED
    BY <1>3, <2>1, <2>2 DEF start_collect
<1>4. CASE start_extend(x)
  <2>1. nextState \in States
    BY <1>4, RoomToStart DEF start_extend
  <2>2. active' \in [ts : {0} \cup States, task : {0} \cup Turns] /\ active'.ts \in States
        /\ nextState' \in Nat \ {0}
    BY <1>4, <2>1, InsertFacts DEF start_extend
  <2>3. queue' \in [States -> SUBSET Inputs]
    BY <1>4 DEF start_extend, extend_pending_input
  <2> QED
    BY <1>4, <2>2, <2>3, StateFacts DEF start_extend
<1>5. CASE start_install(x)
  <2>1. nextState \in States /\ new[x] \in Turns
    BY <1>5, RoomToStart DEF start_install
  <2>2. get_or_insert \in [ts : {0} \cup States, task : {0} \cup Turns]
        /\ get_or_insert.ts \in States /\ nextState' \in Nat \ {0}
    BY <1>5, <2>1, InsertFacts DEF start_install
  <2>3. active' = [get_or_insert EXCEPT !.task = new[x]]
    BY <1>5 DEF start_install
  <2>4. active' \in [ts : {0} \cup States, task : {0} \cup Turns] /\ active'.ts \in States
    BY <2>1, <2>2, <2>3
  <2>5. pc' \in [Procs -> {"unborn", "idle", "take", "grace", "clear", "pending", "reserve",
                           "collect", "extend", "install", "check", "run", "sampled", "ending",
                           "flush", "release", "done", "killed"}]
    BY <1>0, <1>5 DEF start_install
  <2> QED
    BY <1>5, <2>2, <2>4, <2>5, StateFacts DEF start_install
<1> QED
  BY <1>1, <1>2, <1>3, <1>4, <1>5 DEF StartStep

LEMMA IdleTypes ==
  ASSUME Control, IdleStep
  PROVE  TypeOK'
<1> USE ProcFacts DEF Control, TypeOK, Goto, session, starting, aborting, outcome, history
<1>1. CASE clear_reserved_idle_turn
  BY <1>1 DEF clear_reserved_idle_turn, Drop, None
<1>2. CASE reject_busy
  BY <1>2 DEF reject_busy
<1>3. CASE use_reserved_idle_turn
  <2>1. nextTurn \in Turns /\ nextTurn + 1 \in 1..(MaxTurns + 1)
    BY <1>3, TurnFacts DEF use_reserved_idle_turn
  <2>2. queue' \in [States -> SUBSET Inputs] /\ input' \in [Turns -> SUBSET Inputs]
    BY <1>3 DEF use_reserved_idle_turn, extend_pending_input
  <2> QED
    BY <1>3, <2>1, <2>2 DEF use_reserved_idle_turn
<1> QED
  BY <1>1, <1>2, <1>3 DEF IdleStep

LEMMA TaskTypes ==
  ASSUME Control, NEW t \in Turns,
         \/ run_turn(t) \/ run_turn_fails(t) \/ follow_up(t) \/ end_run(t)
         \/ defer_mailbox_delivery(t) \/ accept_mailbox_delivery(t) \/ EndStep(t)
  PROVE  TypeOK'
<1> USE ProcFacts DEF Control, TypeOK, Goto, session, starting, aborting, outcome, history
<1>1. CASE run_turn(t)
  <2>1. mailbox' \subseteq Mails /\ queue' \in [States -> SUBSET Inputs]
    BY <1>1 DEF run_turn, get_pending_input
  <2>2. recorded' \subseteq Inputs
    BY <1>1, InputFacts DEF run_turn
  <2> QED
    BY <1>1, <2>1, <2>2 DEF run_turn
<1>2. CASE run_turn_fails(t)
  BY <1>2 DEF run_turn_fails
<1>3. CASE follow_up(t)
  <2>1. mailbox' \subseteq Mails /\ queue' \in [States -> SUBSET Inputs]
    BY <1>3 DEF follow_up, get_pending_input
  <2>2. recorded' \subseteq Inputs
    BY <1>3, InputFacts DEF follow_up
  <2> QED
    BY <1>3, <2>1, <2>2 DEF follow_up
<1>4. CASE end_run(t)
  BY <1>4 DEF end_run
<1>5. CASE defer_mailbox_delivery(t)
  <2>1. active.ts \in States
    BY <1>5, TurnFacts DEF defer_mailbox_delivery
  <2> QED
    BY <1>5, <2>1 DEF defer_mailbox_delivery
<1>6. CASE accept_mailbox_delivery(t)
  BY <1>6 DEF accept_mailbox_delivery
<1>7. CASE take_task(t)
  BY <1>7 DEF take_task
<1>8. CASE on_task_finished(t)
  <2>1. slot[t] \in States
    BY <1>8 DEF on_task_finished, Slots
  <2> QED
    BY <1>8, <2>1 DEF on_task_finished
<1>9. CASE clear_active_turn(t)
  <2>1. active' = None \/ active' = active
    BY <1>9 DEF clear_active_turn, Drop
  <2>2. pc' \in [Procs -> {"unborn", "idle", "take", "grace", "clear", "pending", "reserve",
                           "collect", "extend", "install", "check", "run", "sampled", "ending",
                           "flush", "release", "done", "killed"}]
    BY <1>9 DEF clear_active_turn
  <2> QED
    BY <1>9, <2>1, <2>2 DEF clear_active_turn, None
<1> QED
  BY <1>1, <1>2, <1>3, <1>4, <1>5, <1>6, <1>7, <1>8, <1>9 DEF EndStep
-----------------------------------------------------------------------------
(* Control.                                                                *)

\* The steps of the processes that are not turns' tasks move one process;
\* an abort and an installation stop a task as well.
LEMMA KindsStep ==
  ASSUME Control, Next
  PROVE  Kinds'
<1> USE ProcFacts DEF Control, TypeOK, Kinds, Starting, Goto
<1>1. ASSUME NEW i \in Inputs,
             \/ steer_input(i) \/ spawn_task(i) \/ inter_agent_communication(i)
             \/ inject_if_running(i) \/ try_start_turn_if_idle(i)
      PROVE  Kinds'
  BY <1>1 DEF steer_input, spawn_task, inter_agent_communication, inject_if_running,
     try_start_turn_if_idle
<1>2. CASE interrupt_task \/ abort_all_tasks \/ abort_turn_if_active
  BY <1>2 DEF interrupt_task, abort_all_tasks, abort_turn_if_active, Seize
<1>3. ASSUME NEW x \in Aborters, handle_task_abort(x) PROVE Kinds'
  <2>1. victim[x] \in Turns /\ victim[x] # x
    BY <1>3 DEF handle_task_abort, Slots
  <2> QED
    BY <1>3, <2>1 DEF handle_task_abort
<1>4. ASSUME NEW x \in Aborters, clear_pending(x) PROVE Kinds'
  BY <1>4 DEF clear_pending, AfterAbort
<1>5. ASSUME NEW x \in Procs,
             \/ maybe_start_turn_for_pending_work(x) \/ reserve_turn(x)
             \/ start_collect(x) \/ start_extend(x)
      PROVE  Kinds'
  BY <1>5 DEF maybe_start_turn_for_pending_work, reserve_turn, start_collect, start_extend, Rest
<1>6. ASSUME NEW x \in Procs, start_install(x) PROVE Kinds'
  <2>1. new[x] \in Turns
    BY <1>6, RoomToStart DEF start_install
  <2>2. \A y \in Procs : \/ y = x /\ pc'[y] = Rest(x)
                         \/ y \in Turns /\ pc'[y] \in {"run", "killed"}
                         \/ pc'[y] = pc[y]
    BY <1>6, <2>1 DEF start_install
  <2> QED
    BY <2>2 DEF Rest
<1>7. CASE IdleStep
  BY <1>7 DEF IdleStep, clear_reserved_idle_turn, reject_busy, use_reserved_idle_turn
<1>8. ASSUME NEW t \in Turns,
             \/ run_turn(t) \/ run_turn_fails(t) \/ follow_up(t) \/ end_run(t)
             \/ defer_mailbox_delivery(t) \/ accept_mailbox_delivery(t)
             \/ record_guardian_denial(t) \/ EndStep(t)
      PROVE  Kinds'
  BY <1>8 DEF run_turn, run_turn_fails, follow_up, end_run, defer_mailbox_delivery,
     accept_mailbox_delivery, record_guardian_denial, EndStep, take_task, on_task_finished,
     clear_active_turn
<1> QED
  BY <1>1, <1>2, <1>3, <1>4, <1>5, <1>6, <1>7, <1>8 DEF Next, AbortStep, StartStep

\* No turn is started, born or killed twice: what News says is kept.
LEMMA NewsKept ==
  ASSUME Control, UNCHANGED <<new, nextTurn>>,
         \A y \in Procs : Promises(y)' => Promises(y),
         \A y \in Procs : Promises(y) \/ pc[y] = "killed" => Promises(y)' \/ pc'[y] = "killed",
         \A t \in Turns : pc'[t] = "unborn" <=> pc[t] = "unborn"
  PROVE  News'
<1>1. \A x \in Procs : new[x] # 0 => new[x] \in Turns
  BY DEF Control, TypeOK
<1> QED
  BY <1>1 DEF Control, News

\* The same for a step that moves one process to l.
LEMMA NewsMoved ==
  ASSUME Control, UNCHANGED <<new, nextTurn, reason>>,
         NEW p \in Procs, NEW l, pc' = [pc EXCEPT ![p] = l],
         pc[p] \notin {"killed", "unborn"}, l \notin {"killed", "unborn"},
         Promises(p) <=> \/ l \in Starting
                         \/ p = Loop /\ reason = "replaced" /\ l \in {"take", "grace", "clear"}
  PROVE  News'
<1>1. \A y \in Procs : y # p => pc'[y] = pc[y]
  BY DEF Control, TypeOK
<1>2. pc'[p] = l
  BY DEF Control, TypeOK
<1>3. \A y \in Procs : Promises(y)' <=> Promises(y)
  BY <1>1, <1>2 DEF Promises
<1>4. \A t \in Turns : pc'[t] = "unborn" <=> pc[t] = "unborn"
  BY <1>1, <1>2, ProcFacts
<1> QED
  BY <1>1, <1>2, <1>3, <1>4, NewsKept

\* Process p takes the next number for the turn it is to start.
LEMMA NewsTaken ==
  ASSUME Control, NEW p \in Procs, NEW l, nextTurn <= MaxTurns,
         new' = [new EXCEPT ![p] = nextTurn], nextTurn' = nextTurn + 1,
         pc' = [pc EXCEPT ![p] = l], pc[p] \notin {"killed", "unborn"} \cup Starting,
         l # "unborn", Promises(p)', new[p] = 0, p # Loop => reason' = reason
  PROVE  News'
<1>1. nextTurn \in Turns /\ nextTurn \in Nat /\ nextTurn # 0
  BY TurnFacts DEF Control, TypeOK
<1>2. \A y \in Procs : y # p => pc'[y] = pc[y] /\ new'[y] = new[y]
  BY DEF Control, TypeOK
<1>3. pc'[p] = l /\ new'[p] = nextTurn
  BY DEF Control, TypeOK
<1>4. \A y \in Procs : y # p => (Promises(y)' <=> Promises(y))
  BY <1>2 DEF Promises
<1>5. \A t \in Turns : pc'[t] = "unborn" <=> pc[t] = "unborn"
  BY <1>2, <1>3, ProcFacts
<1>6. \A y \in Procs : new[y] \in Nat /\ (new[y] # 0 => new[y] \in Turns /\ new[y] < nextTurn)
  <2>1. \A y \in Procs : new[y] \in {0} \cup Turns
    BY DEF Control, TypeOK
  <2>2. \A y \in Procs : new[y] # 0 => new[y] < nextTurn
    BY DEF Control, News
  <2>3. {0} \cup Turns \subseteq Nat
    BY TurnFacts
  <2> QED
    BY <2>1, <2>2, <2>3
<1>7. pc'[nextTurn] = "unborn"
  BY <1>1, <1>5 DEF Control, News
<1>8. \A y \in Procs : new'[y] # 0 => /\ new'[y] < nextTurn' /\ pc'[new'[y]] = "unborn"
                                      /\ Promises(y)' \/ pc'[y] = "killed"
  <2>1. SUFFICES ASSUME NEW y \in Procs, new'[y] # 0
                 PROVE  /\ new'[y] < nextTurn' /\ pc'[new'[y]] = "unborn"
                        /\ Promises(y)' \/ pc'[y] = "killed"
    OBVIOUS
  <2>2. CASE y = p
    BY <1>1, <1>3, <1>7, <2>2
  <2>3. CASE y # p
    BY <1>1, <1>2, <1>4, <1>5, <1>6, <2>1, <2>3 DEF Control, News
  <2> QED
    BY <2>2, <2>3
<1>9. \A y \in Procs : Promises(y)' => new'[y] # 0
  BY <1>1, <1>2, <1>3, <1>4 DEF Control, News
<1>10. \A y, z \in Procs : new'[y] = new'[z] /\ new'[y] # 0 => y = z
  BY <1>2, <1>3, <1>6 DEF Control, News
<1>11. \A t \in Turns : t >= nextTurn' => pc'[t] = "unborn"
  BY <1>1, <1>5, TurnFacts DEF Control, News
<1> QED
  BY <1>8, <1>9, <1>10, <1>11 DEF News

LEMMA NewsStep ==
  ASSUME Control, Next
  PROVE  News'
<1> USE ProcFacts DEF Goto
<1>0. /\ pc[Loop] \notin {"killed", "unborn"} /\ pc[Idler] \notin {"killed", "unborn"}
      /\ pc[Guardian] \notin {"killed", "unborn"}
      /\ \A x \in Procs : ~Promises(x) /\ pc[x] # "killed" => new[x] = 0
  BY DEF Control, Kinds, Starting, News
<1>1. ASSUME NEW i \in Inputs, spawn_task(i) PROVE News'
  <2>1. pc[Loop] = "idle" /\ pc' = [pc EXCEPT ![Loop] = "take"] /\ reason' = "replaced"
        /\ new' = [new EXCEPT ![Loop] = nextTurn] /\ nextTurn' = nextTurn + 1
        /\ nextTurn <= MaxTurns
    BY <1>1 DEF spawn_task
  <2>2. new[Loop] = 0
    BY <1>0, <2>1 DEF Promises, Starting
  <2>3. Promises(Loop)'
    BY <2>1 DEF Promises, Control, TypeOK
  <2> QED
    BY <2>1, <2>2, <2>3, NewsTaken DEF Starting
<1>2. ASSUME NEW i \in Inputs, steer_input(i) \/ inject_if_running(i) PROVE News'
  <2>1. UNCHANGED <<pc, new, nextTurn, reason>>
    BY <1>2 DEF steer_input, inject_if_running, starting, aborting
  <2> QED
    BY <2>1, NewsKept DEF Promises
<1>3. ASSUME NEW i \in Inputs, inter_agent_communication(i) PROVE News'
  <2>1. UNCHANGED <<new, nextTurn, reason>> /\ pc' = [pc EXCEPT ![Loop] = "pending"]
        /\ pc[Loop] = "idle"
    BY <1>3 DEF inter_agent_communication, starting, aborting
  <2> QED
    BY <2>1, NewsMoved DEF Promises, Starting
<1>4. ASSUME NEW i \in Inputs, try_start_turn_if_idle(i) PROVE News'
  <2>1. UNCHANGED <<new, nextTurn, reason>> /\ pc' = [pc EXCEPT ![Idler] = "check"]
        /\ pc[Idler] = "idle"
    BY <1>4 DEF try_start_turn_if_idle, aborting
  <2> QED
    BY <2>1, NewsMoved DEF Promises, Starting
<1>5. CASE interrupt_task
  <2>1. UNCHANGED <<new, nextTurn>> /\ pc' = [pc EXCEPT ![Loop] = "take"]
        /\ pc[Loop] = "idle" /\ reason' = "interrupted"
    BY <1>5 DEF interrupt_task, starting
  <2>2. \A y \in Procs : y # Loop => pc'[y] = pc[y]
    BY <2>1 DEF Control, TypeOK
  <2>3. pc'[Loop] = "take"
    BY <2>1 DEF Control, TypeOK
  <2>4. \A y \in Procs : Promises(y)' <=> Promises(y)
    BY <2>1, <2>2, <2>3 DEF Promises, Starting
  <2> QED
    BY <2>1, <2>2, <2>3, <2>4, NewsKept
<1>6. CASE abort_all_tasks
  <2>1. UNCHANGED <<new, nextTurn, reason>> /\ pc[Loop] = "take"
    BY <1>6 DEF abort_all_tasks
  <2>2. PICK l \in {"grace", IF reason = "replaced" THEN "collect" ELSE "idle"} :
               pc' = [pc EXCEPT ![Loop] = l]
    BY <1>6 DEF abort_all_tasks, Seize
  <2> QED
    BY <2>1, <2>2, NewsMoved DEF Promises, Starting
<1>7. CASE abort_turn_if_active
  <2>1. UNCHANGED <<new, nextTurn, reason>> /\ pc[Guardian] = "take"
    BY <1>7 DEF abort_turn_if_active
  <2>2. PICK l \in {"grace", "idle"} : pc' = [pc EXCEPT ![Guardian] = l]
    BY <1>7 DEF abort_turn_if_active, Seize
  <2> QED
    BY <2>1, <2>2, NewsMoved DEF Promises, Starting
<1>8. ASSUME NEW x \in Aborters, handle_task_abort(x) PROVE News'
  <2>1. victim[x] \in Turns /\ victim[x] # x /\ pc[victim[x]] # "unborn" /\ pc[x] = "grace"
    BY <1>8 DEF handle_task_abort, Control, TypeOK, Slots
  <2>2. \A y \in Procs : y # x /\ y # victim[x] => pc'[y] = pc[y]
    BY <1>8, <2>1 DEF handle_task_abort, Control, TypeOK
  <2>3. pc'[x] = "clear" /\ pc'[victim[x]] = IF pc[victim[x]] = "done" THEN "done" ELSE "killed"
    BY <1>8, <2>1 DEF handle_task_abort, Control, TypeOK
  <2>4. UNCHANGED <<new, nextTurn, reason>>
    BY <1>8 DEF handle_task_abort, starting, aborting
  <2>5. \A y \in Procs : Promises(y)' => Promises(y)
    BY <2>1, <2>2, <2>3, <2>4 DEF Promises, Starting
  <2>6. \A y \in Procs : Promises(y) \/ pc[y] = "killed" => Promises(y)' \/ pc'[y] = "killed"
    BY <2>1, <2>2, <2>3, <2>4 DEF Promises, Starting
  <2>7. \A t \in Turns : pc'[t] = "unborn" <=> pc[t] = "unborn"
    BY <2>1, <2>2, <2>3
  <2> QED
    BY <2>4, <2>5, <2>6, <2>7, NewsKept
<1>9. ASSUME NEW x \in Aborters, clear_pending(x) PROVE News'
  <2>1. UNCHANGED <<new, nextTurn, reason>> /\ pc[x] = "clear"
        /\ pc' = [pc EXCEPT ![x] = AfterAbort(x)]
    BY <1>9 DEF clear_pending
  <2>2. AfterAbort(x) \in {"collect", "pending"}
        /\ (AfterAbort(x) = "collect" <=> x = Loop /\ reason = "replaced")
    BY DEF AfterAbort
  <2>3. Promises(x) <=> AfterAbort(x) = "collect"
    BY <2>1, <2>2 DEF Promises, Starting
  <2> QED
    BY <1>0, <2>1, <2>2, <2>3, NewsMoved DEF Starting
<1>10. ASSUME NEW x \in Procs, maybe_start_turn_for_pending_work(x) PROVE News'
  <2>1. UNCHANGED <<new, nextTurn, reason>> /\ pc[x] = "pending"
    BY <1>10 DEF maybe_start_turn_for_pending_work, starting, aborting
  <2>2. PICK l \in {"reserve", "done", "idle"} : pc' = [pc EXCEPT ![x] = l]
    BY <1>10 DEF maybe_start_turn_for_pending_work, Rest
  <2> QED
    BY <2>1, <2>2, NewsMoved DEF Promises, Starting
<1>11. ASSUME NEW x \in Procs, reserve_turn(x) PROVE News'
  <2>1. pc[x] = "reserve" /\ reason' = reason
    BY <1>11 DEF reserve_turn, aborting
  <2>2. CASE active.ts # 0
    <3>1. PICK l \in {"done", "idle"} : pc' = [pc EXCEPT ![x] = l]
      BY <1>11, <2>2 DEF reserve_turn, Rest
    <3> QED
      BY <1>11, <2>1, <2>2, <3>1, NewsMoved DEF reserve_turn, Promises, Starting
  <2>3. CASE active.ts = 0
    <3>1. new' = [new EXCEPT ![x] = nextTurn] /\ nextTurn' = nextTurn + 1
          /\ nextTurn <= MaxTurns /\ pc' = [pc EXCEPT ![x] = "collect"]
      BY <1>11, <2>3 DEF reserve_turn
    <3>2. new[x] = 0 /\ Promises(x)'
      BY <1>0, <2>1, <3>1 DEF Promises, Starting, Control, TypeOK
    <3> QED
      BY <2>1, <3>1, <3>2, NewsTaken DEF Starting
  <2> QED
    BY <2>2, <2>3
<1>12. ASSUME NEW x \in Procs, start_collect(x) \/ start_extend(x) PROVE News'
  <2>1. UNCHANGED <<new, nextTurn, reason>> /\ pc[x] \in Starting
    BY <1>12 DEF start_collect, start_extend, aborting, Starting
  <2>2. PICK l \in Starting : pc' = [pc EXCEPT ![x] = l]
    BY <1>12 DEF start_collect, start_extend, Starting
  <2> QED
    BY <2>1, <2>2, NewsMoved DEF Promises, Starting
<1>13. ASSUME NEW x \in Procs, start_install(x) PROVE News'
  <2> USE TurnFacts
  <2>2. new[x] \in Turns /\ pc[new[x]] = "unborn" /\ new[x] < nextTurn /\ new[x] # x /\ pc[x] = "install"
    BY <1>13, RoomToStart DEF start_install, Control, News
  <2>3. active.task # 0 => pc[active.task] \notin {"unborn", "install"}
    BY DEF Control, TaskLives
  <2>4. \A y \in Procs : \/ y = x /\ pc'[y] \in {"done", "idle"}
                         \/ y = new[x] /\ y # x /\ pc'[y] = "run"
                         \/ y = active.task /\ y # 0 /\ y # new[x] /\ y # x /\ pc'[y] \in {"killed", pc[y]}
                         \/ y # new[x] /\ y # x /\ pc'[y] = pc[y]
    BY <1>13, <2>2 DEF start_install, Rest
  <2>5. UNCHANGED <<nextTurn, reason>> /\ new' = [new EXCEPT ![x] = 0]
    BY <1>13 DEF start_install, aborting
  <2>6. new'[x] = 0 /\ \A y \in Procs : y # x => new'[y] = new[y]
    BY <2>5 DEF Control, TypeOK
  <2>7. \A y \in Procs : y # x /\ new[y] # 0 => new[y] # new[x] /\ new[y] \in Turns
                                                /\ pc[new[y]] = "unborn"
    BY <2>2 DEF Control, News, TypeOK
  <2>8. \A y \in Procs : y # x /\ new[y] # 0 => pc'[new[y]] = "unborn"
    <3>1. SUFFICES ASSUME NEW u \in Turns, pc[u] = "unborn", u # new[x] PROVE pc'[u] = "unborn"
      BY <2>7
    <3>2. u # x /\ u # active.task
      BY <2>2, <2>3, <3>1
    <3> QED
      BY <2>4, <3>1, <3>2
  <2>9. \A y \in Procs : y # x => /\ Promises(y)' => Promises(y)
                                  /\ Promises(y) \/ pc[y] = "killed" =>
                                       Promises(y)' \/ pc'[y] = "killed" \/ y = new[x]
    BY <2>4, <2>5 DEF Promises, Starting
  <2>10. ~Promises(new[x]) /\ pc[new[x]] # "killed" /\ new[new[x]] = 0
    BY <1>0, <2>2 DEF Promises, Starting
  <2>11. ~Promises(x)'
    BY <2>4, <2>2 DEF Promises, Starting
  <2>12. \A y \in Procs : new'[y] # 0 => /\ new'[y] < nextTurn' /\ pc'[new'[y]] = "unborn"
                                         /\ Promises(y)' \/ pc'[y] = "killed"
    BY <2>5, <2>6, <2>8, <2>9, <2>10 DEF Control, News
  <2>13. \A y \in Procs : Promises(y)' => new'[y] # 0
    BY <2>6, <2>9, <2>11 DEF Control, News
  <2>14. \A t \in Turns : t >= nextTurn' => pc'[t] = "unborn"
    <3>1. SUFFICES ASSUME NEW t \in Turns, t >= nextTurn PROVE pc'[t] = "unborn"
      BY <2>5
    <3>2. pc[t] = "unborn" /\ t # new[x] /\ t # x
      BY <2>2, <3>1 DEF Control, News, TypeOK
    <3> QED
      BY <2>3, <2>4, <3>2
  <2>15. \A y, z \in Procs : new'[y] = new'[z] /\ new'[y] # 0 => y = z
    BY <2>6 DEF Control, News
  <2> QED
    BY <2>12, <2>13, <2>14, <2>15 DEF News
<1>14. CASE use_reserved_idle_turn
  <2>1. pc[Idler] = "check" /\ pc' = [pc EXCEPT ![Idler] = "collect"] /\ reason' = reason
        /\ new' = [new EXCEPT ![Idler] = nextTurn] /\ nextTurn' = nextTurn + 1
        /\ nextTurn <= MaxTurns
    BY <1>14 DEF use_reserved_idle_turn, aborting
  <2>2. new[Idler] = 0 /\ Promises(Idler)'
    BY <1>0, <2>1 DEF Promises, Starting, Control, TypeOK
  <2> QED
    BY <2>1, <2>2, NewsTaken DEF Starting
<1>15. CASE clear_reserved_idle_turn \/ reject_busy
  <2>1. UNCHANGED <<new, nextTurn, reason>> /\ pc[Idler] = "check"
    BY <1>15 DEF clear_reserved_idle_turn, reject_busy, aborting
  <2>2. PICK l \in {"pending", "idle"} : pc' = [pc EXCEPT ![Idler] = l]
    BY <1>15 DEF clear_reserved_idle_turn, reject_busy
  <2> QED
    BY <2>1, <2>2, NewsMoved DEF Promises, Starting
<1>16. ASSUME NEW t \in Turns,
              \/ follow_up(t) \/ defer_mailbox_delivery(t) \/ accept_mailbox_delivery(t)
       PROVE  News'
  <2>1. UNCHANGED <<pc, new, nextTurn, reason>>
    BY <1>16 DEF follow_up, defer_mailbox_delivery, accept_mailbox_delivery, starting, aborting
  <2> QED
    BY <2>1, NewsKept DEF Promises
<1>17. ASSUME NEW t \in Turns, record_guardian_denial(t) PROVE News'
  <2>1. UNCHANGED <<new, nextTurn, reason>> /\ pc' = [pc EXCEPT ![Guardian] = "take"]
        /\ pc[Guardian] = "idle"
    BY <1>17 DEF record_guardian_denial, starting
  <2>2. ~Promises(Guardian)
    BY <2>1 DEF Promises, Starting
  <2> QED
    BY <2>1, <2>2, NewsMoved DEF Starting
<1>18. ASSUME NEW t \in Turns,
              run_turn(t) \/ run_turn_fails(t) \/ end_run(t) \/ EndStep(t)
       PROVE  News'
  <2>1. UNCHANGED <<new, nextTurn, reason>>
        /\ pc[t] \in {"run", "sampled", "ending", "flush", "release"}
    BY <1>18 DEF run_turn, run_turn_fails, end_run, EndStep, take_task, on_task_finished,
       clear_active_turn, starting, aborting
  <2>2. PICK l \in {"sampled", "done", "ending", "flush", "release", "pending"} :
               pc' = [pc EXCEPT ![t] = l]
    BY <1>18 DEF run_turn, run_turn_fails, end_run, EndStep, take_task, on_task_finished,
       clear_active_turn
  <2> QED
    BY <2>1, <2>2, NewsMoved DEF Promises, Starting
<1> QED
  BY <1>1, <1>2, <1>3, <1>4, <1>5, <1>6, <1>7, <1>8, <1>9, <1>10, <1>11, <1>12, <1>13, <1>14,
     <1>15, <1>16, <1>17, <1>18
     DEF Next, AbortStep, StartStep, IdleStep

LEMMA SlotsStep ==
  ASSUME Control, Next
  PROVE  Slots'
<1> USE ProcFacts DEF Control, TypeOK, Kinds, Slots, Starting, Goto
<1>1. ASSUME NEW i \in Inputs,
             \/ steer_input(i) \/ spawn_task(i) \/ inter_agent_communication(i)
             \/ inject_if_running(i) \/ try_start_turn_if_idle(i)
      PROVE  Slots'
  BY <1>1 DEF steer_input, spawn_task, inter_agent_communication, inject_if_running,
     try_start_turn_if_idle, starting, aborting
<1>2. CASE interrupt_task
  BY <1>2 DEF interrupt_task, starting
<1>3. CASE abort_all_tasks
  <2>1. CASE active.task # 0
    BY <1>3, <2>1 DEF abort_all_tasks, Seize, TaskLives
  <2>2. CASE active.task = 0
    BY <1>3, <2>2 DEF abort_all_tasks
  <2> QED
    BY <2>1, <2>2
<1>4. CASE abort_turn_if_active
  <2>1. CASE active.task = victim[Guardian]
    BY <1>4, <2>1 DEF abort_turn_if_active, Seize, TaskLives
  <2>2. CASE active.task # victim[Guardian]
    BY <1>4, <2>2 DEF abort_turn_if_active
  <2> QED
    BY <2>1, <2>2
<1>5. ASSUME NEW x \in Aborters, handle_task_abort(x) PROVE Slots'
  <2>1. victim[x] \in Turns /\ victim[x] \in token
    BY <1>5 DEF handle_task_abort
  <2>2. \A y \in Procs : y # x /\ y # victim[x] => pc'[y] = pc[y]
    BY <1>5, <2>1 DEF handle_task_abort
  <2>3. pc'[x] = "clear" /\ pc'[victim[x]] \in {"done", "killed"} /\ pc[x] = "grace"
    BY <1>5, <2>1 DEF handle_task_abort
  <2>4. UNCHANGED <<victim, slot, token>>
    BY <1>5 DEF handle_task_abort, starting, aborting
  <2> QED
    BY <2>1, <2>2, <2>3, <2>4
<1>6. ASSUME NEW x \in Aborters, clear_pending(x) PROVE Slots'
  BY <1>6 DEF clear_pending, AfterAbort
<1>7. ASSUME NEW x \in Procs,
             \/ maybe_start_turn_for_pending_work(x) \/ reserve_turn(x)
             \/ start_collect(x) \/ start_extend(x)
      PROVE  Slots'
  BY <1>7 DEF maybe_start_turn_for_pending_work, reserve_turn, start_collect, start_extend,
     Rest, starting, aborting
<1>8. ASSUME NEW x \in Procs, start_install(x) PROVE Slots'
  <2>1. UNCHANGED <<victim, slot, token>>
    BY <1>8 DEF start_install, aborting
  <2>2. \A y \in Procs : pc'[y] \in {"done", "idle", "run", "killed", pc[y]}
    BY <1>8 DEF start_install, Rest
  <2> QED
    BY <2>1, <2>2
<1>9. CASE IdleStep
  BY <1>9 DEF IdleStep, clear_reserved_idle_turn, reject_busy, use_reserved_idle_turn, aborting
<1>10. ASSUME NEW t \in Turns,
             \/ run_turn(t) \/ run_turn_fails(t) \/ follow_up(t) \/ end_run(t)
             \/ defer_mailbox_delivery(t) \/ accept_mailbox_delivery(t)
       PROVE  Slots'
  BY <1>10 DEF run_turn, run_turn_fails, follow_up, end_run, defer_mailbox_delivery,
     accept_mailbox_delivery, starting, aborting
<1>11. ASSUME NEW t \in Turns, record_guardian_denial(t) PROVE Slots'
  BY <1>11, TurnFacts DEF record_guardian_denial, starting
<1>12. ASSUME NEW t \in Turns, EndStep(t) PROVE Slots'
  BY <1>12 DEF EndStep, take_task, on_task_finished, clear_active_turn, starting, aborting
<1> QED
  BY <1>1, <1>2, <1>3, <1>4, <1>5, <1>6, <1>7, <1>8, <1>9, <1>10, <1>11, <1>12
     DEF Next, AbortStep, StartStep

LEMMA TaskLivesStep ==
  ASSUME Control, Next
  PROVE  TaskLives'
<1> USE ProcFacts DEF Control, TypeOK, Kinds, TaskLives, Starting, Goto
<1>1. ASSUME NEW i \in Inputs,
             \/ steer_input(i) \/ spawn_task(i) \/ inter_agent_communication(i)
             \/ inject_if_running(i)
      PROVE  TaskLives'
  BY <1>1 DEF steer_input, spawn_task, inter_agent_communication, inject_if_running,
     session, aborting
<1>2. ASSUME NEW i \in Inputs, try_start_turn_if_idle(i) PROVE TaskLives'
  BY <1>2 DEF try_start_turn_if_idle, get_or_insert
<1>3. CASE interrupt_task
  BY <1>3 DEF interrupt_task, session
<1>4. CASE abort_all_tasks
  BY <1>4 DEF abort_all_tasks, Seize, Drop, None
<1>5. CASE abort_turn_if_active
  BY <1>5 DEF abort_turn_if_active, Seize, None
<1>6. ASSUME NEW x \in Aborters, handle_task_abort(x) PROVE TaskLives'
  <2>1. victim[x] \in Turns /\ victim[x] \in token
    BY <1>6 DEF handle_task_abort, Slots
  <2>2. \A y \in Procs : y # x /\ y # victim[x] => pc'[y] = pc[y]
    BY <1>6, <2>1 DEF handle_task_abort
  <2>3. UNCHANGED <<active, token>>
    BY <1>6 DEF handle_task_abort, session, aborting
  <2> QED
    BY <2>1, <2>2, <2>3
<1>7. ASSUME NEW x \in Aborters, clear_pending(x) PROVE TaskLives'
  BY <1>7 DEF clear_pending
<1>8. ASSUME NEW x \in Procs,
             maybe_start_turn_for_pending_work(x) \/ reserve_turn(x) \/ start_collect(x)
      PROVE  TaskLives'
  BY <1>8 DEF maybe_start_turn_for_pending_work, reserve_turn, start_collect, get_or_insert,
     session, aborting
<1>9. ASSUME NEW x \in Procs, start_extend(x) PROVE TaskLives'
  <2>1. active'.task = active.task
    BY <1>9, RoomToStart, InsertFacts DEF start_extend
  <2> QED
    BY <1>9, <2>1 DEF start_extend, aborting
<1>10. ASSUME NEW x \in Procs, start_install(x) PROVE TaskLives'
  <2>1. new[x] \in Turns /\ pc[new[x]] = "unborn" /\ new[x] \notin token /\ new[x] # x
    BY <1>10, RoomToStart, TurnFacts DEF start_install, News, Slots
  <2>2. active'.task = new[x]
    <3>1. get_or_insert \in [ts : {0} \cup States, task : {0} \cup Turns]
      BY <1>10, RoomToStart, InsertFacts DEF start_install
    <3> QED
      BY <1>10, <3>1 DEF start_install
  <2>3. pc'[new[x]] = "run" /\ token' = token
    BY <1>10, <2>1 DEF start_install, aborting
  <2> QED
    BY <2>1, <2>2, <2>3
<1>11. CASE IdleStep
  BY <1>11 DEF IdleStep, clear_reserved_idle_turn, reject_busy, use_reserved_idle_turn,
     Drop, None, session, aborting
<1>12. ASSUME NEW t \in Turns,
             \/ run_turn(t) \/ run_turn_fails(t) \/ follow_up(t) \/ end_run(t)
             \/ defer_mailbox_delivery(t) \/ accept_mailbox_delivery(t)
             \/ record_guardian_denial(t)
       PROVE  TaskLives'
  BY <1>12 DEF run_turn, run_turn_fails, follow_up, end_run, defer_mailbox_delivery,
     accept_mailbox_delivery, record_guardian_denial, session, aborting
<1>13. ASSUME NEW t \in Turns, EndStep(t) PROVE TaskLives'
  BY <1>13 DEF EndStep, take_task, on_task_finished, clear_active_turn, Drop, None, aborting
<1> QED
  BY <1>1, <1>2, <1>3, <1>4, <1>5, <1>6, <1>7, <1>8, <1>9, <1>10, <1>11, <1>12, <1>13
     DEF Next, AbortStep, StartStep

\* Numbers are handed out in order, and the turn a process starts changes
\* only when it takes a number or has installed the turn.
LEMMA NumbersMove ==
  ASSUME Control, Next
  PROVE  /\ nextTurn' \in {nextTurn, nextTurn + 1} /\ offered \subseteq offered'
         /\ \A x \in Procs : new'[x] \in {new[x], 0, nextTurn}
<1> USE ProcFacts DEF Control, TypeOK, starting
<1>1. ASSUME NEW i \in Inputs,
             \/ steer_input(i) \/ spawn_task(i) \/ inter_agent_communication(i)
             \/ inject_if_running(i) \/ try_start_turn_if_idle(i)
      PROVE  /\ nextTurn' \in {nextTurn, nextTurn + 1} /\ offered \subseteq offered'
             /\ \A x \in Procs : new'[x] \in {new[x], 0, nextTurn}
  BY <1>1 DEF steer_input, spawn_task, inter_agent_communication, inject_if_running,
     try_start_turn_if_idle
<1>2. CASE \/ interrupt_task \/ abort_all_tasks \/ abort_turn_if_active
           \/ \E x \in Aborters : AbortStep(x)
  BY <1>2 DEF interrupt_task, abort_all_tasks, abort_turn_if_active, AbortStep,
     handle_task_abort, clear_pending
<1>3. ASSUME NEW x \in Procs, StartStep(x)
      PROVE  /\ nextTurn' \in {nextTurn, nextTurn + 1} /\ offered \subseteq offered'
             /\ \A y \in Procs : new'[y] \in {new[y], 0, nextTurn}
  BY <1>3 DEF StartStep, maybe_start_turn_for_pending_work, reserve_turn, start_collect,
     start_extend, start_install
<1>4. CASE IdleStep
  BY <1>4 DEF IdleStep, clear_reserved_idle_turn, reject_busy, use_reserved_idle_turn
<1>5. ASSUME NEW t \in Turns,
             \/ run_turn(t) \/ run_turn_fails(t) \/ follow_up(t) \/ end_run(t)
             \/ defer_mailbox_delivery(t) \/ accept_mailbox_delivery(t)
             \/ record_guardian_denial(t) \/ EndStep(t)
      PROVE  UNCHANGED <<new, nextTurn, offered>>
  BY <1>5 DEF run_turn, run_turn_fails, follow_up, end_run, defer_mailbox_delivery,
     accept_mailbox_delivery, record_guardian_denial, EndStep, take_task, on_task_finished,
     clear_active_turn
<1> QED
  BY <1>1, <1>2, <1>3, <1>4, <1>5 DEF Next

\* A starter about to install stays there until it has, or is killed; what
\* was killed stays so, and what was born.
LEMMA LastStretch ==
  ASSUME Control, Next
  PROVE  /\ \A x \in Procs : pc[x] \in {"install", "killed"} /\ new'[x] # 0 =>
                               pc'[x] \in {"install", "killed"}
         /\ \A t \in Turns : pc[t] # "unborn" => pc'[t] # "unborn"
<1> DEFINE Q == /\ \A x \in Procs : pc[x] \in {"install", "killed"} /\ new'[x] # 0 =>
                                      pc'[x] \in {"install", "killed"}
                /\ \A t \in Turns : pc[t] # "unborn" => pc'[t] # "unborn"
<1> SUFFICES Q
  OBVIOUS
<1> USE ProcFacts DEF Control, TypeOK, Goto
<1>1. ASSUME NEW i \in Inputs,
             \/ steer_input(i) \/ spawn_task(i) \/ inter_agent_communication(i)
             \/ inject_if_running(i) \/ try_start_turn_if_idle(i)
      PROVE  Q
  BY <1>1 DEF steer_input, spawn_task, inter_agent_communication, inject_if_running,
     try_start_turn_if_idle
<1>2. CASE interrupt_task \/ abort_all_tasks \/ abort_turn_if_active
  BY <1>2 DEF interrupt_task, abort_all_tasks, abort_turn_if_active, Seize
<1>3. ASSUME NEW x \in Aborters, handle_task_abort(x) PROVE Q
  <2>1. victim[x] \in Turns
    BY <1>3 DEF handle_task_abort, Slots
  <2> QED
    BY <1>3, <2>1 DEF handle_task_abort
<1>4. ASSUME NEW x \in Aborters, clear_pending(x) PROVE Q
  BY <1>4 DEF clear_pending, AfterAbort
<1>5. ASSUME NEW x \in Procs,
             \/ maybe_start_turn_for_pending_work(x) \/ reserve_turn(x)
             \/ start_collect(x) \/ start_extend(x)
      PROVE  Q
  BY <1>5 DEF maybe_start_turn_for_pending_work, reserve_turn, start_collect, start_extend, Rest
<1>6. ASSUME NEW x \in Procs, start_install(x) PROVE Q
  <2>1. new[x] \in Turns /\ pc[new[x]] = "unborn" /\ new'[x] = 0
    BY <1>6, RoomToStart, TurnFacts DEF start_install, News
  <2>2. \A y \in Procs : y # x /\ y # new[x] => pc'[y] \in {"killed", pc[y]}
    BY <1>6 DEF start_install
  <2>3. pc'[x] # "unborn" /\ pc'[new[x]] # "unborn"
    BY <1>6, <2>1 DEF start_install, Rest
  <2> QED
    BY <2>1, <2>2, <2>3
<1>7. CASE IdleStep
  BY <1>7 DEF IdleStep, clear_reserved_idle_turn, reject_busy, use_reserved_idle_turn
<1>8. ASSUME NEW t \in Turns,
             \/ run_turn(t) \/ run_turn_fails(t) \/ follow_up(t) \/ end_run(t)
             \/ defer_mailbox_delivery(t) \/ accept_mailbox_delivery(t)
             \/ record_guardian_denial(t) \/ EndStep(t)
      PROVE  Q
  BY <1>8 DEF run_turn, run_turn_fails, follow_up, end_run, defer_mailbox_delivery,
     accept_mailbox_delivery, record_guardian_denial, EndStep, take_task, on_task_finished,
     clear_active_turn
<1> QED
  BY <1>1, <1>2, <1>3, <1>4, <1>5, <1>6, <1>7, <1>8 DEF Next, AbortStep, StartStep

LEMMA AccountsGrow ==
  ASSUME Control, Next
  PROVE  Extended \subseteq Extended' /\ Installed \subseteq Installed' /\ offered \subseteq offered'
<1>1. Installed \subseteq Installed' /\ offered \subseteq offered'
  BY LastStretch, NumbersMove DEF Installed
<1>2. ASSUME NEW t \in Turns, t < nextTurn,
             \A x \in Procs : new[x] = t => pc[x] \in {"install", "killed"}
      PROVE  t < nextTurn' /\ \A x \in Procs : new'[x] = t => pc'[x] \in {"install", "killed"}
  <2>1. t \in Nat /\ t # 0 /\ nextTurn \in Nat
    BY TurnFacts DEF Control, TypeOK
  <2>2. t < nextTurn'
    BY <1>2, <2>1, NumbersMove
  <2>3. \A x \in Procs : new'[x] = t => new[x] = t
    BY <1>2, <2>1, NumbersMove
  <2> QED
    BY <1>2, <2>1, <2>2, <2>3, LastStretch
<1> QED
  BY <1>1, <1>2 DEF Extended

\* More turns on an account, or at least one more.
LEMMA MoreTurns ==
  ASSUME NEW A, NEW B \in SUBSET Turns, A \subseteq B
  PROVE  /\ Cardinality(A) \in Nat /\ Cardinality(B) \in Nat /\ Cardinality(A) <= Cardinality(B)
         /\ A # B => Cardinality(A) + 1 <= Cardinality(B)
<1>1. IsFiniteSet(Turns)
  BY FS_Interval, BoundAssumption DEF Turns
<1>2. IsFiniteSet(B) /\ IsFiniteSet(A)
  BY <1>1, FS_Subset
<1>3. Cardinality(A) \in Nat /\ Cardinality(B) \in Nat /\ Cardinality(A) <= Cardinality(B)
  BY <1>2, FS_CardinalityType, FS_Subset
<1>4. ASSUME A # B PROVE Cardinality(A) + 1 <= Cardinality(B)
  <2>1. Cardinality(A) # Cardinality(B)
    BY <1>2, <1>4, FS_Subset
  <2> QED
    BY <1>3, <2>1
<1> QED
  BY <1>3, <1>4

LEMMA PaidStep ==
  ASSUME Control, Next
  PROVE  Paid'
<1> DEFINE e == Cardinality(Extended)
           n == Cardinality(Installed)
           o == Cardinality(offered)
           e1 == Cardinality(Extended')
           n1 == Cardinality(Installed')
           o1 == Cardinality(offered')
<1>1. e \in Nat /\ e1 \in Nat /\ e <= e1 /\ (Extended # Extended' => e + 1 <= e1)
  <2>1. Extended' \subseteq Turns
    BY DEF Extended
  <2> QED
    BY <2>1, MoreTurns, AccountsGrow
<1>2. n \in Nat /\ n1 \in Nat /\ n <= n1 /\ (Installed # Installed' => n + 1 <= n1)
  <2>1. Installed' \subseteq Turns
    BY DEF Installed
  <2> QED
    BY <2>1, MoreTurns, AccountsGrow
<1>3. TypeOK'
  BY ArrivalTypes, AbortTypes, StartTypes, IdleTypes, TaskTypes DEF Next
<1>4. o \in Nat /\ o1 \in Nat /\ o <= o1 /\ (offered # offered' => o + 1 <= o1)
  <2>1. offered' \subseteq Idles
    BY <1>3 DEF TypeOK
  <2>2. IsFiniteSet(offered')
    BY <2>1, InputAssumption, FS_Subset
  <2>3. IsFiniteSet(offered) /\ o <= o1
    BY <2>2, AccountsGrow, FS_Subset
  <2>4. o \in Nat /\ o1 \in Nat
    BY <2>2, <2>3, FS_CardinalityType
  <2>5. offered # offered' => o # o1
    BY <2>2, <2>3, AccountsGrow, FS_Subset
  <2> QED
    BY <2>3, <2>4, <2>5
<1>5. nextState <= nextTurn + e + n + o
  BY DEF Control, Paid
<1>6. nextTurn \in Nat /\ nextState \in Nat /\ nextTurn' \in {nextTurn, nextTurn + 1}
  BY NumbersMove DEF Control, TypeOK
<1>7. nextState' = nextState \/ (/\ nextState' = nextState + 1
                                 /\ \/ nextTurn' = nextTurn + 1 \/ Extended # Extended'
                                    \/ Installed # Installed' \/ offered # offered')
  <2>1. ASSUME NEW i \in Inputs, try_start_turn_if_idle(i)
        PROVE  nextState' = nextState + 1 /\ offered # offered'
    BY <2>1 DEF try_start_turn_if_idle, StateMade
  <2>2. ASSUME NEW x \in Procs, reserve_turn(x)
        PROVE  nextState' = nextState \/ (nextState' = nextState + 1 /\ nextTurn' = nextTurn + 1)
    BY <2>2 DEF reserve_turn, StateMade
  <2>3. ASSUME NEW x \in Procs, start_extend(x)
        PROVE  nextState' \in {nextState, nextState + 1} /\ Extended # Extended'
    <3>1. new[x] \in Turns /\ new[x] < nextTurn /\ new' = new /\ nextTurn' = nextTurn
          /\ pc[x] = "extend" /\ pc'[x] = "install"
      BY <2>3, RoomToStart, TurnFacts DEF start_extend, Control, News, Goto, TypeOK
    <3>2. new[x] \notin Extended
      BY <3>1 DEF Extended
    <3>3. \A y \in Procs : new[y] = new[x] => y = x
      BY <3>1, TurnFacts DEF Control, News
    <3>4. new[x] \in Extended'
      BY <3>1, <3>3 DEF Extended
    <3> QED
      BY <2>3, <3>2, <3>4 DEF start_extend, StateMade
  <2>4. ASSUME NEW x \in Procs, start_install(x)
        PROVE  nextState' \in {nextState, nextState + 1} /\ Installed # Installed'
    <3>1. new[x] \in Turns /\ pc[new[x]] = "unborn" /\ new[x] \in Procs
      BY <2>4, RoomToStart, TurnFacts, ProcFacts DEF start_install, Control, News
    <3>2. pc'[new[x]] # "unborn"
      BY <2>4, <3>1 DEF start_install, Rest
    <3> QED
      BY <2>4, <3>1, <3>2 DEF start_install, StateMade, Installed
  <2>5. ASSUME NEW i \in Inputs,
               \/ steer_input(i) \/ spawn_task(i) \/ inter_agent_communication(i)
               \/ inject_if_running(i)
        PROVE  nextState' = nextState
    BY <2>5 DEF steer_input, spawn_task, inter_agent_communication, inject_if_running, starting
  <2>6. CASE \/ interrupt_task \/ abort_all_tasks \/ abort_turn_if_active
             \/ \E x \in Aborters : AbortStep(x)
    BY <2>6 DEF interrupt_task, abort_all_tasks, abort_turn_if_active, AbortStep,
       handle_task_abort, clear_pending, starting
  <2>7. ASSUME NEW x \in Procs, maybe_start_turn_for_pending_work(x) \/ start_collect(x)
        PROVE  nextState' = nextState
    BY <2>7 DEF maybe_start_turn_for_pending_work, start_collect, starting
  <2>8. CASE IdleStep
    BY <2>8 DEF IdleStep, clear_reserved_idle_turn, reject_busy, use_reserved_idle_turn
  <2>9. ASSUME NEW t \in Turns,
               \/ run_turn(t) \/ run_turn_fails(t) \/ follow_up(t) \/ end_run(t)
               \/ defer_mailbox_delivery(t) \/ accept_mailbox_delivery(t)
               \/ record_guardian_denial(t) \/ EndStep(t)
        PROVE  nextState' = nextState
    BY <2>9 DEF run_turn, run_turn_fails, follow_up, end_run, defer_mailbox_delivery,
       accept_mailbox_delivery, record_guardian_denial, EndStep, take_task, on_task_finished,
       clear_active_turn, starting
  <2> QED
    BY <2>1, <2>2, <2>3, <2>4, <2>5, <2>6, <2>7, <2>8, <2>9 DEF Next, StartStep
<1> HIDE DEF e, n, o, e1, n1, o1
<1>8. nextState' <= nextTurn' + e1 + n1 + o1
  BY <1>1, <1>2, <1>4, <1>5, <1>6, <1>7
<1> QED
  BY <1>8 DEF Paid, e1, n1, o1

LEMMA ControlStep == Control /\ [Next]_vars => Control'
<1> SUFFICES ASSUME Control, [Next]_vars PROVE Control'
  OBVIOUS
<1>1. CASE Next
  <2>1. TypeOK'
    BY <1>1, ArrivalTypes, AbortTypes, StartTypes, IdleTypes, TaskTypes DEF Next
  <2> QED
    BY <1>1, <2>1, KindsStep, NewsStep, SlotsStep, TaskLivesStep, PaidStep DEF Control
<1>2. CASE UNCHANGED vars
  <2> USE <1>2 DEF vars, session, starting, aborting, outcome, history, Control
  <2>1. TypeOK' /\ Kinds'
    BY DEF TypeOK, Kinds
  <2>2. News' /\ Slots' /\ TaskLives'
    BY DEF News, Promises, Slots, TaskLives
  <2>3. Paid'
    BY DEF Paid, Extended, Installed
  <2> QED
    BY <2>1, <2>2, <2>3
<1> QED
  BY <1>1, <1>2

(***************************************************************************)
(* Type correctness, for any number of turns.  Its substance: the active   *)
(* turn never has a task without a turn state, whatever the aborts took    *)
(* away between the two halves of start_task; and three turn states per    *)
(* turn and one per offered item are enough, so no start runs out of them. *)
(***************************************************************************)
THEOREM TypeCorrect == Spec => []TypeOK
<1>1. Control => TypeOK
  BY DEF Control
<1> QED
  BY ControlInit, ControlStep, <1>1, PTL DEF Spec
-----------------------------------------------------------------------------
(* One end per turn.                                                       *)

AfterEnd == {"flush", "release", "pending", "reserve"} \cup Starting

\* The end of turn t took the task of another turn.
Thief(t) == \E e \in thefts : e[1] = t

\* A turn that is cancelled and gets as far as its end, or beyond it, took
\* a task that was not its own: had it found its own, nobody could have
\* cancelled it any more.
Ends ==
  /\ aborted \subseteq token
  /\ \A t \in finished : pc[t] \notin {"unborn", "run", "sampled", "ending"}
  /\ \A t \in token : pc[t] \in AfterEnd \/ t \in finished => Thief(t)

EndInv == Control /\ Ends

\* A step that cancels nobody and takes no turn past its end.
LEMMA EndsKept ==
  ASSUME EndInv, UNCHANGED <<token, finished, aborted, thefts>>,
         \A t \in Turns : pc'[t] \in {"unborn", "run", "sampled", "ending"} =>
                            pc[t] \in {"unborn", "run", "sampled", "ending"},
         \A t \in Turns : pc'[t] \in AfterEnd => pc[t] \in AfterEnd
  PROVE  Ends'
<1>1. finished \subseteq Turns /\ token \subseteq Turns
  BY DEF EndInv, Control, TypeOK
<1> QED
  BY <1>1 DEF EndInv, Ends, Thief

\* An abort cancels the active turn's task, which has not come to its end.
LEMMA EndsSeized ==
  ASSUME EndInv, NEW x \in Aborters, pc[x] = "take", active.task # 0, Seize(x),
         UNCHANGED <<finished, aborted, thefts>>
  PROVE  Ends'
<1> USE ProcFacts DEF EndInv, Control, TypeOK
<1>1. token' = token \cup {active.task} /\ pc' = [pc EXCEPT ![x] = "grace"]
  BY DEF Seize, Goto
<1>2. active.task \in Turns /\ pc[active.task] \in {"run", "sampled", "ending"}
  BY DEF TaskLives
<1>3. \A t \in Turns : pc'[t] = pc[t]
  BY <1>1
<1>4. active.task \notin finished
  BY <1>2 DEF Ends
<1> QED
  BY <1>1, <1>2, <1>3, <1>4 DEF Ends, Thief, AfterEnd, Starting

LEMMA EndsStep == EndInv /\ [Next]_vars => EndInv'
<1> SUFFICES ASSUME EndInv, [Next]_vars PROVE Ends'
  BY ControlStep DEF EndInv
<1> USE ProcFacts DEF EndInv, Control, TypeOK, Goto, aborting, outcome, history
<1>1. ASSUME NEW i \in Inputs,
             \/ steer_input(i) \/ spawn_task(i) \/ inter_agent_communication(i)
             \/ inject_if_running(i) \/ try_start_turn_if_idle(i)
      PROVE  Ends'
  <2>1. \A t \in Turns : pc'[t] = pc[t]
    BY <1>1 DEF steer_input, spawn_task, inter_agent_communication, inject_if_running,
       try_start_turn_if_idle
  <2>2. UNCHANGED <<token, finished, aborted, thefts>>
    BY <1>1 DEF steer_input, spawn_task, inter_agent_communication, inject_if_running,
       try_start_turn_if_idle
  <2> QED
    BY <2>1, <2>2, EndsKept
<1>2. CASE interrupt_task
  BY <1>2, EndsKept DEF interrupt_task
<1>3. CASE abort_all_tasks
  <2>1. UNCHANGED <<finished, aborted, thefts>> /\ pc[Loop] = "take"
    BY <1>3 DEF abort_all_tasks
  <2>2. CASE active.task # 0
    BY <1>3, <2>1, <2>2, EndsSeized DEF abort_all_tasks
  <2>3. CASE active.task = 0
    <3>1. token' = token /\ \A t \in Turns : pc'[t] = pc[t]
      BY <1>3, <2>3 DEF abort_all_tasks
    <3> QED
      BY <2>1, <3>1, EndsKept
  <2> QED
    BY <2>2, <2>3
<1>4. CASE abort_turn_if_active
  <2>1. UNCHANGED <<finished, aborted, thefts>> /\ pc[Guardian] = "take"
    BY <1>4 DEF abort_turn_if_active
  <2>2. CASE active.task = victim[Guardian]
    <3>1. active.task # 0
      BY <2>1, <2>2 DEF Slots
    <3> QED
      BY <1>4, <2>1, <2>2, <3>1, EndsSeized DEF abort_turn_if_active
  <2>3. CASE active.task # victim[Guardian]
    <3>1. token' = token /\ \A t \in Turns : pc'[t] = pc[t]
      BY <1>4, <2>3 DEF abort_turn_if_active
    <3> QED
      BY <2>1, <3>1, EndsKept
  <2> QED
    BY <2>2, <2>3
<1>5. ASSUME NEW x \in Aborters, handle_task_abort(x) PROVE Ends'
  <2>1. victim[x] \in Turns /\ victim[x] \in token
    BY <1>5 DEF handle_task_abort, Slots
  <2>2. \A t \in Turns : t # victim[x] => pc'[t] = pc[t]
    BY <1>5, <2>1 DEF handle_task_abort
  <2>3. pc'[victim[x]] \in {"done", "killed"}
    BY <1>5, <2>1 DEF handle_task_abort
  <2>4. UNCHANGED <<token, finished, thefts>> /\ aborted' = aborted \cup {victim[x]}
    BY <1>5 DEF handle_task_abort
  <2>5. \A t \in token : pc'[t] \in AfterEnd => pc[t] \in AfterEnd
    BY <2>1, <2>2, <2>3 DEF AfterEnd, Starting
  <2>6. \A t \in finished : pc'[t] \notin {"unborn", "run", "sampled", "ending"}
    BY <2>2, <2>3 DEF Ends
  <2> QED
    BY <2>1, <2>4, <2>5, <2>6 DEF Ends, Thief
<1>6. ASSUME NEW x \in Aborters, clear_pending(x) PROVE Ends'
  <2>1. UNCHANGED <<token, finished, aborted, thefts>> /\ \A t \in Turns : pc'[t] = pc[t]
    BY <1>6 DEF clear_pending
  <2> QED
    BY <2>1, EndsKept
<1>7. ASSUME NEW x \in Procs,
             \/ maybe_start_turn_for_pending_work(x) \/ reserve_turn(x)
             \/ start_collect(x) \/ start_extend(x)
      PROVE  Ends'
  <2>1. UNCHANGED <<token, finished, aborted, thefts>>
    BY <1>7 DEF maybe_start_turn_for_pending_work, reserve_turn, start_collect, start_extend
  <2>2. \A y \in Procs : y # x => pc'[y] = pc[y]
    BY <1>7 DEF maybe_start_turn_for_pending_work, reserve_turn, start_collect, start_extend
  <2>3. pc[x] \in AfterEnd /\ pc'[x] \in AfterEnd \cup {"done", "idle"}
    BY <1>7 DEF maybe_start_turn_for_pending_work, reserve_turn, start_collect, start_extend,
       Rest, AfterEnd, Starting
  <2> QED
    BY <2>1, <2>2, <2>3, EndsKept DEF AfterEnd, Starting
<1>8. ASSUME NEW x \in Procs, start_install(x) PROVE Ends'
  <2>1. UNCHANGED <<token, finished, aborted, thefts>>
    BY <1>8 DEF start_install
  <2>2. new[x] \in Turns /\ pc[new[x]] = "unborn"
    BY <1>8, RoomToStart, TurnFacts DEF start_install, News
  <2>3. \A y \in Procs : \/ pc'[y] \in {"done", "idle", "killed", pc[y]}
                         \/ y = new[x] /\ pc'[y] = "run"
    BY <1>8 DEF start_install, Rest
  <2>4. \A t \in Turns : pc'[t] \in AfterEnd => pc[t] \in AfterEnd
    BY <2>3 DEF AfterEnd, Starting
  <2>5. \A t \in Turns : pc'[t] \in {"unborn", "run", "sampled", "ending"} =>
                           pc[t] \in {"unborn", "run", "sampled", "ending"}
    BY <2>2, <2>3
  <2> QED
    BY <2>1, <2>4, <2>5, EndsKept
<1>9. CASE IdleStep
  <2>1. UNCHANGED <<token, finished, aborted, thefts>> /\ \A t \in Turns : pc'[t] = pc[t]
    BY <1>9 DEF IdleStep, clear_reserved_idle_turn, reject_busy, use_reserved_idle_turn
  <2> QED
    BY <2>1, EndsKept
<1>10. ASSUME NEW t \in Turns,
             \/ run_turn(t) \/ run_turn_fails(t) \/ follow_up(t) \/ end_run(t)
             \/ defer_mailbox_delivery(t) \/ accept_mailbox_delivery(t)
             \/ record_guardian_denial(t)
       PROVE  Ends'
  <2>1. UNCHANGED <<token, finished, aborted, thefts>>
    BY <1>10 DEF run_turn, run_turn_fails, follow_up, end_run, defer_mailbox_delivery,
       accept_mailbox_delivery, record_guardian_denial
  <2>2. \A u \in Turns : u # t => pc'[u] = pc[u]
    BY <1>10 DEF run_turn, run_turn_fails, follow_up, end_run, defer_mailbox_delivery,
       accept_mailbox_delivery, record_guardian_denial
  <2>3. pc[t] \in {"run", "sampled"} /\ pc'[t] \in {"run", "sampled", "ending", "done"}
    BY <1>10 DEF run_turn, run_turn_fails, follow_up, end_run, defer_mailbox_delivery,
       accept_mailbox_delivery, record_guardian_denial
  <2> QED
    BY <2>1, <2>2, <2>3, EndsKept DEF AfterEnd, Starting
<1>11. ASSUME NEW t \in Turns, take_task(t) PROVE Ends'
  <2>1. UNCHANGED <<token, finished, aborted>> /\ pc[t] = "ending"
    BY <1>11 DEF take_task
  <2>2. \A u \in Turns : u # t => pc'[u] = pc[u]
    BY <1>11 DEF take_task
  <2>3. CASE active.task = 0
    <3>1. thefts' = thefts /\ pc'[t] = "done"
      BY <1>11, <2>3 DEF take_task
    <3> QED
      BY <2>1, <2>2, <3>1, EndsKept DEF AfterEnd, Starting
  <2>4. CASE active.task # 0
    <3>1. thefts' = thefts \cup ({t} \X ({active.task} \ {t})) /\ pc'[t] = "flush"
      BY <1>11, <2>4 DEF take_task
    <3>2. t \in token => <<t, active.task>> \in thefts'
      BY <2>4, <3>1 DEF TaskLives
    <3>3. t \in token => Thief(t)'
      BY <3>2 DEF Thief
    <3>4. \A u \in Turns : Thief(u) => Thief(u)'
      BY <3>1 DEF Thief
    <3> QED
      BY <2>1, <2>2, <3>1, <3>3, <3>4 DEF Ends
  <2> QED
    BY <2>3, <2>4
<1>12. ASSUME NEW t \in Turns, on_task_finished(t) PROVE Ends'
  <2>1. UNCHANGED <<token, aborted, thefts>> /\ finished' = finished \cup {t}
        /\ pc[t] = "flush" /\ pc' = [pc EXCEPT ![t] = "release"]
    BY <1>12 DEF on_task_finished
  <2>2. t \in token => Thief(t)
    BY <2>1 DEF Ends, AfterEnd
  <2> QED
    BY <2>1, <2>2 DEF Ends, Thief
<1>13. ASSUME NEW t \in Turns, clear_active_turn(t) PROVE Ends'
  <2>1. UNCHANGED <<token, finished, aborted, thefts>> /\ pc[t] = "release"
        /\ \A u \in Turns : u # t => pc'[u] = pc[u]
    BY <1>13 DEF clear_active_turn
  <2>2. pc'[t] \in {"pending", "done"}
    BY <1>13 DEF clear_active_turn
  <2> QED
    BY <2>1, <2>2, EndsKept DEF AfterEnd, Starting
<1>14. CASE UNCHANGED vars
  BY <1>14, EndsKept DEF vars
<1> QED
  BY <1>1, <1>2, <1>3, <1>4, <1>5, <1>6, <1>7, <1>8, <1>9, <1>10, <1>11, <1>12, <1>13, <1>14
     DEF Next, AbortStep, StartStep, EndStep

(***************************************************************************)
(* No turn is reported complete and aborted too, whatever the order in     *)
(* which its end and the aborts of loop and guardian find the active turn; *)
(* the one exception needs the end of a cancelled turn to have taken the   *)
(* task of a turn that had replaced it.                                    *)
(***************************************************************************)
THEOREM OneEndHolds == Spec => []OneEnd
<1>1. Init => EndInv
  BY ControlInit DEF Init, EndInv, Ends
<1>2. EndInv => OneEnd
  BY DEF EndInv, Ends, OneEnd, Thief
<1> QED
  BY <1>1, <1>2, EndsStep, PTL DEF Spec
-----------------------------------------------------------------------------
(* One turn runs.                                                          *)

\* Whatever runs is the active turn's task, or somebody has cancelled or
\* detached it.
Runs == \A t \in Running : t \in token \cup stolen \/ active.task = t

RunInv == Control /\ Runs

\* No turn begins to run but as the active turn's task, and the task leaves
\* the active turn only stopped, cancelled or detached.
LEMMA RunsKept ==
  ASSUME RunInv, token \subseteq token', thefts \subseteq thefts',
         \A t \in Turns : pc'[t] \in {"run", "sampled"} =>
                            pc[t] \in {"run", "sampled"} \/ active'.task = t,
         \/ active'.task = active.task
         \/ active.task = 0
         \/ active.task \in token' \cup stolen'
         \/ pc'[active.task] \notin {"run", "sampled"}
  PROVE  Runs'
<1>1. stolen \subseteq stolen'
  BY DEF stolen
<1>2. \A t \in Turns : t # 0
  BY TurnFacts
<1> QED
  BY <1>1, <1>2 DEF RunInv, Runs, Running

LEMMA RunsStep == RunInv /\ [Next]_vars => RunInv'
<1> SUFFICES ASSUME RunInv, [Next]_vars PROVE Runs'
  BY ControlStep DEF RunInv
<1> USE ProcFacts DEF RunInv, Control, TypeOK, Goto, session, aborting, history
<1>1. ASSUME NEW i \in Inputs,
             \/ steer_input(i) \/ spawn_task(i) \/ inter_agent_communication(i)
             \/ inject_if_running(i)
      PROVE  Runs'
  <2>1. UNCHANGED <<active, token, thefts>> /\ \A t \in Turns : pc'[t] = pc[t]
    BY <1>1 DEF steer_input, spawn_task, inter_agent_communication, inject_if_running
  <2> QED
    BY <2>1, RunsKept
<1>2. ASSUME NEW i \in Inputs, try_start_turn_if_idle(i) PROVE Runs'
  <2>1. UNCHANGED <<token, thefts>> /\ \A t \in Turns : pc'[t] = pc[t]
    BY <1>2 DEF try_start_turn_if_idle
  <2>2. active'.task = active.task
    BY <1>2 DEF try_start_turn_if_idle, get_or_insert
  <2> QED
    BY <2>1, <2>2, RunsKept
<1>3. CASE interrupt_task
  BY <1>3, RunsKept DEF interrupt_task
<1>4. CASE abort_all_tasks \/ abort_turn_if_active
  <2>1. token \subseteq token' /\ thefts' = thefts /\ \A t \in Turns : pc'[t] = pc[t]
    BY <1>4 DEF abort_all_tasks, abort_turn_if_active, Seize
  <2>2. active'.task = active.task \/ active.task = 0 \/ active.task \in token'
    BY <1>4 DEF abort_all_tasks, abort_turn_if_active, Seize
  <2> QED
    BY <2>1, <2>2, RunsKept
<1>5. ASSUME NEW x \in Aborters, handle_task_abort(x) PROVE Runs'
  <2>1. victim[x] \in Turns
    BY <1>5 DEF handle_task_abort, Slots
  <2>2. UNCHANGED <<active, token, thefts>>
        /\ \A t \in Turns : pc'[t] \in {"done", "killed", pc[t]}
    BY <1>5, <2>1 DEF handle_task_abort
  <2> QED
    BY <2>2, RunsKept
<1>6. ASSUME NEW x \in Aborters, clear_pending(x) PROVE Runs'
  <2>1. UNCHANGED <<active, token, thefts>> /\ \A t \in Turns : pc'[t] = pc[t]
    BY <1>6 DEF clear_pending
  <2> QED
    BY <2>1, RunsKept
<1>7. ASSUME NEW x \in Procs,
             maybe_start_turn_for_pending_work(x) \/ reserve_turn(x) \/ start_collect(x)
      PROVE  Runs'
  <2>1. UNCHANGED <<token, thefts>>
        /\ \A t \in Turns : pc'[t] \in {"run", "sampled"} => pc'[t] = pc[t]
    BY <1>7 DEF maybe_start_turn_for_pending_work, reserve_turn, start_collect, Rest
  <2>2. active'.task = active.task
    BY <1>7 DEF maybe_start_turn_for_pending_work, reserve_turn, start_collect, get_or_insert
  <2> QED
    BY <2>1, <2>2, RunsKept
<1>8. ASSUME NEW x \in Procs, start_extend(x) PROVE Runs'
  <2>1. UNCHANGED <<token, thefts>>
        /\ \A t \in Turns : pc'[t] \in {"run", "sampled"} => pc'[t] = pc[t]
    BY <1>8 DEF start_extend
  <2>2. active'.task = active.task
    BY <1>8, RoomToStart, InsertFacts DEF start_extend
  <2> QED
    BY <2>1, <2>2, RunsKept
<1>9. ASSUME NEW x \in Procs, start_install(x) PROVE Runs'
  <2>1. UNCHANGED <<token, thefts>>
    BY <1>9 DEF start_install
  <2>2. new[x] \in Turns /\ pc[new[x]] = "unborn"
    BY <1>9, RoomToStart, TurnFacts DEF start_install, News
  <2>3. active'.task = new[x]
    <3>1. get_or_insert \in [ts : {0} \cup States, task : {0} \cup Turns]
      BY <1>9, RoomToStart, InsertFacts DEF start_install
    <3> QED
      BY <1>9, <3>1 DEF start_install
  <2>4. \A t \in Turns : pc'[t] \in {"run", "sampled"} => pc[t] = pc'[t] \/ t = new[x]
    BY <1>9 DEF start_install, Rest
  <2>5. active.task # 0 => pc'[active.task] \notin {"run", "sampled"}
    <3>1. ASSUME active.task # 0 PROVE pc'[active.task] \notin {"run", "sampled"}
      <4>1. active.task \in Turns /\ pc[active.task] \in {"run", "sampled", "ending"}
            /\ active.task # new[x]
        BY <2>2, <3>1 DEF TaskLives
      <4> QED
        BY <1>9, <3>1, <4>1 DEF start_install, Rest
    <3> QED
      BY <3>1
  <2> QED
    BY <2>1, <2>3, <2>4, <2>5, RunsKept
<1>10. CASE IdleStep
  <2>1. UNCHANGED <<token, thefts>> /\ \A t \in Turns : pc'[t] = pc[t]
    BY <1>10 DEF IdleStep, clear_reserved_idle_turn, reject_busy, use_reserved_idle_turn
  <2>2. active'.task = active.task \/ active.task = 0
    BY <1>10 DEF IdleStep, clear_reserved_idle_turn, reject_busy, use_reserved_idle_turn,
       still_reserved
  <2> QED
    BY <2>1, <2>2, RunsKept
<1>11. ASSUME NEW t \in Turns,
             \/ run_turn(t) \/ run_turn_fails(t) \/ follow_up(t) \/ end_run(t)
             \/ defer_mailbox_delivery(t) \/ accept_mailbox_delivery(t)
             \/ record_guardian_denial(t)
       PROVE  Runs'
  <2>1. UNCHANGED <<active, token, thefts>>
    BY <1>11 DEF run_turn, run_turn_fails, follow_up, end_run, defer_mailbox_delivery,
       accept_mailbox_delivery, record_guardian_denial
  <2>2. \A u \in Turns : pc'[u] \in {"run", "sampled"} => pc[u] \in {"run", "sampled"}
    BY <1>11 DEF run_turn, run_turn_fails, follow_up, end_run, defer_mailbox_delivery,
       accept_mailbox_delivery, record_guardian_denial
  <2> QED
    BY <2>1, <2>2, RunsKept
<1>12. ASSUME NEW t \in Turns, take_task(t) PROVE Runs'
  <2>1. token' = token /\ thefts \subseteq thefts'
        /\ \A u \in Turns : pc'[u] \in {"run", "sampled"} => pc'[u] = pc[u]
    BY <1>12 DEF take_task
  <2>2. CASE active.task = t
    <3>1. pc'[t] \notin {"run", "sampled"}
      BY <1>12 DEF take_task
    <3> QED
      BY <2>1, <2>2, <3>1, RunsKept
  <2>3. CASE active.task = 0
    BY <2>1, <2>3, RunsKept
  <2>4. CASE active.task \notin {0, t}
    <3>1. <<t, active.task>> \in thefts'
      BY <1>12, <2>4 DEF take_task
    <3>2. active.task \in stolen'
      BY <3>1 DEF stolen
    <3> QED
      BY <2>1, <3>2, RunsKept
  <2> QED
    BY <2>2, <2>3, <2>4
<1>13. ASSUME NEW t \in Turns, on_task_finished(t) \/ clear_active_turn(t) PROVE Runs'
  <2>1. UNCHANGED <<token, thefts>>
        /\ \A u \in Turns : pc'[u] \in {"run", "sampled"} => pc'[u] = pc[u]
    BY <1>13 DEF on_task_finished, clear_active_turn
  <2>2. active' = active \/ active.task = 0
    BY <1>13 DEF on_task_finished, clear_active_turn
  <2> QED
    BY <2>1, <2>2, RunsKept
<1>14. CASE UNCHANGED vars
  BY <1>14, RunsKept DEF vars
<1> QED
  BY <1>1, <1>2, <1>3, <1>4, <1>5, <1>6, <1>7, <1>8, <1>9, <1>10, <1>11, <1>12, <1>13, <1>14
     DEF Next, AbortStep, StartStep, EndStep

(***************************************************************************)
(* Turns do not run side by side, for any number of processes that race to *)
(* start them: of two that do, one is cancelled or was detached by the end *)
(* of a third.                                                             *)
(***************************************************************************)
THEOREM OneRunsHolds == Spec => []OneRuns
<1>1. Init => RunInv
  BY ControlInit, ProcFacts DEF Init, RunInv, Runs, Running
<1>2. RunInv => OneRuns
  BY DEF RunInv, Runs, OneRuns
<1> QED
  BY <1>1, <1>2, RunsStep, PTL DEF Spec
-----------------------------------------------------------------------------
(* No accepted input disappears.                                           *)

\* Input is in a process's hands only between collecting and queueing it,
\* while an extension's item waits for the second look, or when the process
\* was killed with it; an item waiting there was not accepted yet.
Carries ==
  /\ \A x \in Procs : carry[x] # {} => pc[x] \in {"extend", "check", "killed"}
  /\ pc[Idler] = "check" => /\ carry[Idler] \subseteq offered /\ slot[Idler] # 0
                            /\ carry[Idler] \cap accepted = {}
  /\ accepted \cap Idles \subseteq offered

\* Input is queued only with the active turn, one that is being aborted, or
\* a turn state that was given up without a task.
Aborting(s) == \E x \in Aborters : pc[x] \in {"grace", "clear"} /\ slot[x] = s
Queues ==
  \A s \in States : queue[s] # {} => s \in dropped \/ s = active.ts \/ Aborting(s)

\* The turn has not recorded its own input, or loop or extension, which
\* nobody kills, are starting it.
Expected(t) == pc[t] = "run" \/ new[Loop] = t \/ new[Idler] = t

Somewhere(i) ==
  \/ i \in recorded \cup discarded \cup mailbox
  \/ \E x \in Living : i \in carry[x]
  \/ \E t \in Turns : Expected(t) /\ i \in input[t]
  \/ \E s \in States : i \in queue[s]

Kept == \A i \in accepted : Somewhere(i)

KeepInv == Control /\ Carries /\ Queues /\ Kept

LEMMA KeepInit == Init => KeepInv
BY ControlInit, ProcFacts DEF Init, KeepInv, Carries, Queues, Kept

LEMMA InUnion ==
  ASSUME NEW f, NEW S, NEW s \in S, NEW i \in f[s]
  PROVE  i \in UNION {f[r] : r \in S}
OBVIOUS

LEMMA KeepGoal == KeepInv => InputKept
<1> SUFFICES ASSUME KeepInv, NEW i \in accepted,
                    i \notin recorded \cup discarded \cup mailbox
             PROVE  i \in InHands \cup Queued \cup ToStart
  BY DEF InputKept
<1>1. CASE \E x \in Living : i \in carry[x]
  BY <1>1, InUnion DEF InHands
<1>2. CASE \E t \in Turns : Expected(t) /\ i \in input[t]
  <2>1. Loop \in Living /\ Idler \in Living
    BY ProcFacts DEF KeepInv, Control, Kinds, Starting, Living
  <2>2. PICK t \in Coming : i \in input[t]
    BY <1>2, <2>1 DEF Expected, Coming
  <2> QED
    BY <2>2, InUnion DEF ToStart
<1>3. CASE \E s \in States : i \in queue[s]
  <2>1. PICK s \in States : i \in queue[s]
    BY <1>3
  <2>2. s \in (dropped \cup Reachable) \cap States
    BY <2>1 DEF KeepInv, Queues, Aborting, Reachable
  <2> QED
    BY <2>1, <2>2, InUnion DEF Queued
<1> QED
  BY <1>1, <1>2, <1>3 DEF KeepInv, Kept, Somewhere

LEMMA CarriesStep ==
  ASSUME KeepInv, Next
  PROVE  Carries'
<1> USE ProcFacts DEF KeepInv, Control, TypeOK, Carries, Goto, starting, outcome
<1>1. ASSUME NEW i \in Inputs,
             \/ steer_input(i) \/ spawn_task(i) \/ inter_agent_communication(i)
             \/ inject_if_running(i)
      PROVE  Carries'
  <2>1. UNCHANGED <<carry, offered, slot>> /\ accepted' = accepted \cup {i} /\ i \notin Idles
    BY <1>1, InputAssumption DEF steer_input, spawn_task, inter_agent_communication,
       inject_if_running, Deliver
  <2>2. \A x \in Procs : pc'[x] = pc[x] \/ (x = Loop /\ pc[x] = "idle")
    BY <1>1 DEF steer_input, spawn_task, inter_agent_communication, inject_if_running
  <2> QED
    BY <2>1, <2>2
<1>2. ASSUME NEW i \in Inputs, try_start_turn_if_idle(i) PROVE Carries'
  <2>1. nextState \in States
    BY <1>2, RoomForState DEF try_start_turn_if_idle
  <2> QED
    BY <1>2, <2>1, StateFacts DEF try_start_turn_if_idle
<1>3. CASE interrupt_task \/ abort_all_tasks \/ abort_turn_if_active
  <2>1. UNCHANGED <<carry, offered, accepted>> /\ slot'[Idler] = slot[Idler]
    BY <1>3 DEF interrupt_task, abort_all_tasks, abort_turn_if_active, Seize
  <2>2. \A x \in Procs : pc'[x] = pc[x] \/ (x \in {Loop, Guardian} /\ pc[x] \in {"idle", "take"})
    BY <1>3 DEF interrupt_task, abort_all_tasks, abort_turn_if_active, Seize
  <2> QED
    BY <2>1, <2>2
<1>4. ASSUME NEW x \in Aborters, handle_task_abort(x) PROVE Carries'
  <2>1. victim[x] \in Turns
    BY <1>4 DEF handle_task_abort, Slots
  <2>2. UNCHANGED <<carry, offered, accepted, slot>>
    BY <1>4 DEF handle_task_abort
  <2>3. \A y \in Procs : \/ pc'[y] = pc[y]
                         \/ y = x /\ pc[y] = "grace"
                         \/ y \in Turns /\ pc'[y] = "killed"
    BY <1>4, <2>1 DEF handle_task_abort
  <2> QED
    BY <2>2, <2>3
<1>5. ASSUME NEW x \in Aborters, clear_pending(x) PROVE Carries'
  <2>1. UNCHANGED <<carry, offered, accepted>> /\ slot'[Idler] = slot[Idler]
    BY <1>5 DEF clear_pending
  <2>2. \A y \in Procs : pc'[y] = pc[y] \/ (y = x /\ pc[y] = "clear")
    BY <1>5 DEF clear_pending
  <2> QED
    BY <2>1, <2>2
<1>6. ASSUME NEW x \in Procs, maybe_start_turn_for_pending_work(x) \/ reserve_turn(x)
      PROVE  Carries'
  <2>1. UNCHANGED <<carry, offered, accepted, slot>>
    BY <1>6 DEF maybe_start_turn_for_pending_work, reserve_turn
  <2>2. \A y \in Procs : pc'[y] = pc[y] \/ (y = x /\ pc[y] \in {"pending", "reserve"} /\ pc'[y] # "check")
    BY <1>6 DEF maybe_start_turn_for_pending_work, reserve_turn, Rest
  <2> QED
    BY <2>1, <2>2
<1>7. ASSUME NEW x \in Procs, start_collect(x) PROVE Carries'
  BY <1>7 DEF start_collect
<1>8. ASSUME NEW x \in Procs, start_extend(x) PROVE Carries'
  BY <1>8 DEF start_extend
<1>9. ASSUME NEW x \in Procs, start_install(x) PROVE Carries'
  <2>1. UNCHANGED <<carry, offered, accepted, slot>>
    BY <1>9 DEF start_install
  <2>2. new[x] \in Turns /\ pc[new[x]] = "unborn" /\ pc[x] = "install"
    BY <1>9, RoomToStart, TurnFacts DEF start_install, News
  <2>3. \A y \in Procs : \/ pc'[y] = pc[y]
                         \/ y \in Turns /\ pc'[y] = "killed"
                         \/ y = new[x] /\ pc'[y] = "run"
                         \/ y = x /\ pc'[y] # "check"
    BY <1>9 DEF start_install, Rest
  <2> QED
    BY <2>1, <2>2, <2>3
<1>10. CASE clear_reserved_idle_turn \/ reject_busy
  BY <1>10 DEF clear_reserved_idle_turn, reject_busy
<1>11. CASE use_reserved_idle_turn
  BY <1>11 DEF use_reserved_idle_turn
<1>12. ASSUME NEW t \in Turns,
             \/ run_turn(t) \/ run_turn_fails(t) \/ follow_up(t) \/ end_run(t)
             \/ defer_mailbox_delivery(t) \/ accept_mailbox_delivery(t)
             \/ record_guardian_denial(t) \/ EndStep(t)
       PROVE  Carries'
  <2>1. UNCHANGED <<carry, offered, accepted>> /\ slot'[Idler] = slot[Idler]
    BY <1>12 DEF run_turn, run_turn_fails, follow_up, end_run, defer_mailbox_delivery,
       accept_mailbox_delivery, record_guardian_denial, EndStep, take_task, on_task_finished,
       clear_active_turn
  <2>2. \A y \in Procs : \/ pc'[y] = pc[y]
                         \/ y = Guardian /\ pc[y] = "idle"
                         \/ y = t /\ pc[y] \in {"run", "sampled", "ending", "flush", "release"}
    BY <1>12 DEF run_turn, run_turn_fails, follow_up, end_run, defer_mailbox_delivery,
       accept_mailbox_delivery, record_guardian_denial, EndStep, take_task, on_task_finished,
       clear_active_turn
  <2> QED
    BY <2>1, <2>2
<1> QED
  BY <1>1, <1>2, <1>3, <1>4, <1>5, <1>6, <1>7, <1>8, <1>9, <1>10, <1>11, <1>12
     DEF Next, AbortStep, StartStep, IdleStep

\* Input is queued with the active turn only, and a turn state that stops
\* being the active one is given up or seized with its turn.
LEMMA QueuesKept ==
  ASSUME KeepInv, dropped \subseteq dropped',
         \A s \in States : queue'[s] # {} => queue[s] # {} \/ s = active'.ts,
         \/ active'.ts = active.ts \/ active.ts = 0 \/ active.ts \in dropped'
         \/ \E x \in Aborters : pc'[x] \in {"grace", "clear"} /\ slot'[x] = active.ts,
         \A x \in Aborters : pc[x] \in {"grace", "clear"} =>
           \/ pc'[x] \in {"grace", "clear"} /\ slot'[x] = slot[x]
           \/ queue'[slot[x]] = {}
  PROVE  Queues'
<1> SUFFICES ASSUME NEW s \in States, queue'[s] # {}, s # active'.ts
             PROVE  s \in dropped' \/ Aborting(s)'
  BY DEF Queues
<1>1. s \in dropped \/ s = active.ts \/ Aborting(s)
  BY DEF KeepInv, Queues
<1>2. CASE Aborting(s)
  BY <1>2 DEF Aborting
<1>3. CASE s = active.ts
  BY <1>3, StateFacts DEF Aborting
<1> QED
  BY <1>1, <1>2, <1>3

LEMMA QueuesStep ==
  ASSUME KeepInv, Next
  PROVE  Queues'
<1> USE ProcFacts, StateFacts DEF KeepInv, Control, TypeOK, Goto, session, starting, history
<1>1. ASSUME NEW i \in Inputs,
             \/ steer_input(i) \/ spawn_task(i) \/ inter_agent_communication(i)
             \/ inject_if_running(i)
      PROVE  Queues'
  <2>1. UNCHANGED <<active, dropped, slot>>
        /\ \A s \in States : queue'[s] # {} => queue[s] # {} \/ s = active'.ts
    BY <1>1 DEF steer_input, spawn_task, inter_agent_communication, inject_if_running, Deliver,
       extend_pending_input
  <2>2. \A x \in Aborters : pc[x] \in {"grace", "clear"} => pc'[x] = pc[x]
    BY <1>1 DEF steer_input, spawn_task, inter_agent_communication, inject_if_running
  <2> QED
    BY <2>1, <2>2, QueuesKept
<1>2. ASSUME NEW i \in Inputs, try_start_turn_if_idle(i) PROVE Queues'
  <2>1. UNCHANGED <<queue, dropped>> /\ active.ts = 0
        /\ \A x \in Aborters : slot'[x] = slot[x] /\ pc'[x] = pc[x]
    BY <1>2 DEF try_start_turn_if_idle
  <2> QED
    BY <2>1, QueuesKept
<1>3. CASE interrupt_task
  <2>1. UNCHANGED <<active, queue, dropped, slot>>
        /\ \A x \in Aborters : pc[x] \in {"grace", "clear"} => pc'[x] = pc[x]
    BY <1>3 DEF interrupt_task
  <2> QED
    BY <2>1, QueuesKept
<1>4. ASSUME NEW x \in Aborters, Seize(x), pc[x] = "take", UNCHANGED queue PROVE Queues'
  <2>1. dropped' = dropped /\ pc'[x] = "grace" /\ slot'[x] = active.ts
        /\ \A y \in Aborters : y # x => pc'[y] = pc[y] /\ slot'[y] = slot[y]
    BY <1>4 DEF Seize
  <2> QED
    BY <1>4, <2>1, QueuesKept
<1>5. CASE abort_all_tasks
  <2>1. queue' = queue /\ pc[Loop] = "take"
    BY <1>5 DEF abort_all_tasks
  <2>2. CASE active.task # 0
    BY <1>4, <1>5, <2>1, <2>2 DEF abort_all_tasks
  <2>3. CASE active.task = 0
    <3>1. dropped' = dropped \cup ({active.ts} \ {0}) /\ slot' = slot
          /\ \A x \in Aborters : pc[x] \in {"grace", "clear"} => pc'[x] = pc[x]
      BY <1>5, <2>3 DEF abort_all_tasks, Drop
    <3> QED
      BY <2>1, <3>1, QueuesKept
  <2> QED
    BY <2>2, <2>3
<1>6. CASE abort_turn_if_active
  <2>1. queue' = queue /\ pc[Guardian] = "take"
    BY <1>6 DEF abort_turn_if_active
  <2>2. CASE active.task = victim[Guardian]
    BY <1>4, <1>6, <2>1, <2>2 DEF abort_turn_if_active
  <2>3. CASE active.task # victim[Guardian]
    <3>1. UNCHANGED <<active, dropped, slot>>
          /\ \A x \in Aborters : pc[x] \in {"grace", "clear"} => pc'[x] = pc[x]
      BY <1>6, <2>3 DEF abort_turn_if_active
    <3> QED
      BY <2>1, <3>1, QueuesKept
  <2> QED
    BY <2>2, <2>3
<1>7. ASSUME NEW x \in Aborters, handle_task_abort(x) PROVE Queues'
  <2>1. victim[x] \in Turns
    BY <1>7 DEF handle_task_abort, Slots
  <2>2. UNCHANGED <<active, queue, dropped, slot>>
    BY <1>7 DEF handle_task_abort
  <2>3. \A y \in Aborters : pc'[y] = pc[y] \/ pc'[y] = "clear"
    BY <1>7, <2>1 DEF handle_task_abort
  <2> QED
    BY <2>2, <2>3, QueuesKept
<1>8. ASSUME NEW x \in Aborters, clear_pending(x) PROVE Queues'
  <2>1. slot[x] \in States
    BY <1>8 DEF clear_pending, Slots
  <2>2. UNCHANGED <<active, dropped>> /\ queue'[slot[x]] = {}
        /\ \A s \in States : queue'[s] # {} => queue[s] # {}
    BY <1>8, <2>1 DEF clear_pending
  <2>3. \A y \in Aborters : y # x => pc'[y] = pc[y] /\ slot'[y] = slot[y]
    BY <1>8 DEF clear_pending
  <2> QED
    BY <2>2, <2>3, QueuesKept
<1>9. ASSUME NEW x \in Procs, maybe_start_turn_for_pending_work(x) \/ reserve_turn(x)
      PROVE  Queues'
  <2>1. UNCHANGED <<queue, dropped, slot>> /\ (active' = active \/ active.ts = 0)
    BY <1>9 DEF maybe_start_turn_for_pending_work, reserve_turn
  <2>2. \A y \in Aborters : pc[y] \in {"grace", "clear"} => pc'[y] = pc[y]
    BY <1>9 DEF maybe_start_turn_for_pending_work, reserve_turn
  <2> QED
    BY <2>1, <2>2, QueuesKept
<1>10. ASSUME NEW x \in Procs, start_collect(x) PROVE Queues'
  <2>1. UNCHANGED <<active, dropped, slot>>
        /\ \A s \in States : queue'[s] # {} => queue[s] # {}
    BY <1>10 DEF start_collect, get_pending_input
  <2>2. \A y \in Aborters : pc[y] \in {"grace", "clear"} => pc'[y] = pc[y]
    BY <1>10 DEF start_collect
  <2> QED
    BY <2>1, <2>2, QueuesKept
<1>11. ASSUME NEW x \in Procs, start_extend(x) PROVE Queues'
  <2>1. active' = get_or_insert /\ UNCHANGED <<dropped, slot>>
    BY <1>11 DEF start_extend
  <2>2. active.ts # 0 => active'.ts = active.ts
    BY <1>11, <2>1, RoomToStart, InsertFacts DEF start_extend
  <2>3. \A s \in States : queue'[s] # {} => queue[s] # {} \/ s = active'.ts
    BY <1>11, <2>1 DEF start_extend, extend_pending_input
  <2>4. \A y \in Aborters : pc[y] \in {"grace", "clear"} => pc'[y] = pc[y]
    BY <1>11 DEF start_extend
  <2> QED
    BY <2>1, <2>2, <2>3, <2>4, QueuesKept
<1>12. ASSUME NEW x \in Procs, start_install(x) PROVE Queues'
  <2>1. new[x] \in Turns /\ active.task \notin Aborters \ {0}
    BY <1>12, RoomToStart DEF start_install
  <2>2. UNCHANGED <<queue, dropped, slot>>
    BY <1>12 DEF start_install
  <2>3. active.ts # 0 => active'.ts = active.ts
    <3>1. get_or_insert \in [ts : {0} \cup States, task : {0} \cup Turns]
          /\ (active.ts # 0 => get_or_insert.ts = active.ts)
      BY <1>12, RoomToStart, InsertFacts DEF start_install
    <3> QED
      BY <1>12, <3>1 DEF start_install
  <2>4. \A y \in Aborters : pc[y] \in {"grace", "clear"} => pc'[y] = pc[y]
    BY <1>12, <2>1 DEF start_install
  <2> QED
    BY <2>2, <2>3, <2>4, QueuesKept
<1>13. CASE IdleStep
  <2>1. \A x \in Aborters : pc'[x] = pc[x] /\ slot'[x] = slot[x]
    BY <1>13 DEF IdleStep, clear_reserved_idle_turn, reject_busy, use_reserved_idle_turn
  <2>2. CASE clear_reserved_idle_turn
    BY <2>1, <2>2, QueuesKept DEF clear_reserved_idle_turn, Drop
  <2>3. CASE reject_busy
    BY <2>1, <2>3, QueuesKept DEF reject_busy
  <2>4. CASE use_reserved_idle_turn
    <3>1. UNCHANGED <<active, dropped>> /\ slot[Idler] = active.ts
      BY <2>4 DEF use_reserved_idle_turn, still_reserved
    <3>2. \A s \in States : queue'[s] # {} => queue[s] # {} \/ s = active'.ts
      BY <2>4, <3>1 DEF use_reserved_idle_turn, extend_pending_input
    <3> QED
      BY <2>1, <3>1, <3>2, QueuesKept
  <2> QED
    BY <1>13, <2>2, <2>3, <2>4 DEF IdleStep
<1>14. ASSUME NEW t \in Turns,
             \/ run_turn(t) \/ run_turn_fails(t) \/ follow_up(t) \/ end_run(t)
             \/ defer_mailbox_delivery(t) \/ accept_mailbox_delivery(t)
             \/ record_guardian_denial(t)
       PROVE  Queues'
  <2>1. UNCHANGED <<active, dropped, slot>>
    BY <1>14 DEF run_turn, run_turn_fails, follow_up, end_run, defer_mailbox_delivery,
       accept_mailbox_delivery, record_guardian_denial
  <2>2. \A s \in States : queue'[s] # {} => queue[s] # {}
    BY <1>14 DEF run_turn, run_turn_fails, follow_up, end_run, defer_mailbox_delivery,
       accept_mailbox_delivery, record_guardian_denial, get_pending_input
  <2>3. \A y \in Aborters : pc[y] \in {"grace", "clear"} => pc'[y] = pc[y]
    BY <1>14 DEF run_turn, run_turn_fails, follow_up, end_run, defer_mailbox_delivery,
       accept_mailbox_delivery, record_guardian_denial
  <2> QED
    BY <2>1, <2>2, <2>3, QueuesKept
<1>15. ASSUME NEW t \in Turns, EndStep(t) PROVE Queues'
  <2>1. dropped \subseteq dropped' /\ (active'.ts = active.ts \/ active.ts = 0 \/ active.ts \in dropped')
    BY <1>15 DEF EndStep, take_task, on_task_finished, clear_active_turn, Drop
  <2>2. \A s \in States : queue'[s] # {} => queue[s] # {}
    BY <1>15 DEF EndStep, take_task, on_task_finished, clear_active_turn
  <2>3. \A y \in Aborters : pc'[y] = pc[y] /\ slot'[y] = slot[y]
    BY <1>15 DEF EndStep, take_task, on_task_finished, clear_active_turn
  <2> QED
    BY <2>1, <2>2, <2>3, QueuesKept
<1> QED
  BY <1>1, <1>2, <1>3, <1>5, <1>6, <1>7, <1>8, <1>9, <1>10, <1>11, <1>12, <1>13, <1>14, <1>15
     DEF Next, AbortStep, StartStep

\* Where nothing is taken away and nobody is killed, input stays where it is.
LEMMA StaysSomewhere ==
  ASSUME recorded \subseteq recorded', discarded \subseteq discarded', mailbox \subseteq mailbox',
         \A s \in States : queue[s] \subseteq queue'[s],
         \A x \in Living : x \in Living' /\ carry[x] \subseteq carry'[x],
         \A t \in Turns : Expected(t) => Expected(t)' /\ input[t] \subseteq input'[t],
         NEW i, Somewhere(i)
  PROVE  Somewhere(i)'
<1>1. CASE \E x \in Living : i \in carry[x]
  BY <1>1 DEF Somewhere
<1>2. CASE \E t \in Turns : Expected(t) /\ i \in input[t]
  BY <1>2 DEF Somewhere
<1>3. CASE \E s \in States : i \in queue[s]
  BY <1>3 DEF Somewhere
<1> QED
  BY <1>1, <1>2, <1>3 DEF Somewhere

\* Steps that only move processes about.
LEMMA MovesSomewhere ==
  ASSUME KeepInv, UNCHANGED <<recorded, accepted, discarded, mailbox, queue, carry, input>>,
         \A x \in Procs : pc'[x] = "killed" => pc[x] = "killed",
         \A t \in Turns : pc[t] = "run" => pc'[t] = "run",
         \A x \in {Loop, Idler} : new[x] # 0 => new'[x] = new[x]
  PROVE  Kept'
<1>1. \A t \in Turns : Expected(t) => Expected(t)'
  BY TurnFacts DEF Expected
<1>2. Living \subseteq Living'
  BY DEF Living
<1> QED
  BY <1>1, <1>2, StaysSomewhere DEF KeepInv, Kept

\* What get_pending_input takes is what Pending says, and goes to one place.
LEMMA PendingTaken ==
  ASSUME KeepInv, get_pending_input
  PROVE  /\ \A i \in mailbox : i \in Pending \/ i \in mailbox'
         /\ \A s \in States, i \in Inputs : i \in queue[s] => i \in Pending \/ i \in queue'[s]
<1> USE DEF KeepInv, Control, TypeOK
<1>1. CASE accepts_mailbox_delivery
  BY <1>1 DEF get_pending_input, Pending
<1>2. CASE ~accepts_mailbox_delivery
  BY <1>2 DEF get_pending_input, Pending
<1> QED
  BY <1>1, <1>2

\* Nothing is known of the turn that gets the next number.
LEMMA NextIsFree ==
  ASSUME KeepInv, nextTurn \in Turns
  PROVE  ~Expected(nextTurn)
<1> USE ProcFacts DEF KeepInv, Control
<1>1. nextTurn \in Nat /\ nextTurn # 0
  BY TurnFacts
<1>2. pc[nextTurn] = "unborn"
  BY <1>1 DEF News
<1>3. ASSUME NEW x \in Procs PROVE new[x] # nextTurn
  BY <1>1 DEF News
<1> QED
  BY <1>2, <1>3 DEF Expected

LEMMA KeptArrival ==
  ASSUME KeepInv, NEW j \in Inputs,
         \/ steer_input(j) \/ spawn_task(j) \/ inter_agent_communication(j)
         \/ inject_if_running(j) \/ try_start_turn_if_idle(j)
  PROVE  Kept'
<1> USE ProcFacts DEF KeepInv, Control, TypeOK, Goto, session, starting, outcome, history
<1>0. Loop \in Living /\ Idler \in Living
  BY DEF Kinds, Starting, Living
<1>1. CASE steer_input(j) \/ inject_if_running(j)
  <2>1. active.ts \in States
    BY <1>1 DEF steer_input, inject_if_running
  <2>2. UNCHANGED <<recorded, discarded, mailbox, carry, input, new, pc>>
        /\ accepted' = accepted \cup {j}
        /\ queue' = [queue EXCEPT ![active.ts] = @ \cup {j}]
    BY <1>1 DEF steer_input, inject_if_running, Deliver, extend_pending_input
  <2>3. \A s \in States : queue[s] \subseteq queue'[s]
    BY <2>2
  <2>4. \A i \in accepted : Somewhere(i)'
    BY <2>2, <2>3, StaysSomewhere DEF Kept, Living, Expected
  <2>5. Somewhere(j)'
    BY <2>1, <2>2 DEF Somewhere
  <2> QED
    BY <2>2, <2>4, <2>5 DEF Kept
<1>2. CASE spawn_task(j)
  <2>1. UNCHANGED <<recorded, discarded, mailbox, carry, queue>>
        /\ accepted' = accepted \cup {j} /\ input' = [input EXCEPT ![nextTurn] = {j}]
        /\ new' = [new EXCEPT ![Loop] = nextTurn] /\ pc[Loop] = "idle"
        /\ pc' = [pc EXCEPT ![Loop] = "take"]
    BY <1>2 DEF spawn_task
  <2>2. nextTurn \in Turns
    BY <1>2, TurnFacts DEF spawn_task
  <2>3. new[Loop] = 0
    BY <2>1 DEF News, Promises, Starting
  <2>4. ~Expected(nextTurn)
    BY <2>2, NextIsFree
  <2>5. \A t \in Turns : Expected(t) => Expected(t)' /\ input[t] \subseteq input'[t]
    <3>1. SUFFICES ASSUME NEW t \in Turns, Expected(t)
                   PROVE  Expected(t)' /\ input[t] \subseteq input'[t]
      OBVIOUS
    <3>2. t # nextTurn /\ t # 0
      BY <2>4, <3>1, TurnFacts
    <3> QED
      BY <2>1, <2>3, <3>1, <3>2 DEF Expected
  <2>6. Living \subseteq Living'
    BY <2>1 DEF Living
  <2>7. \A i \in accepted : Somewhere(i)'
    BY <2>1, <2>5, <2>6, StaysSomewhere DEF Kept
  <2>8. Somewhere(j)'
    BY <2>1, <2>2 DEF Somewhere, Expected
  <2> QED
    BY <2>1, <2>7, <2>8 DEF Kept
<1>3. CASE inter_agent_communication(j)
  <2>1. UNCHANGED <<recorded, discarded, carry, input, new, queue>>
        /\ accepted' = accepted \cup {j} /\ mailbox' = mailbox \cup {j}
        /\ pc' = [pc EXCEPT ![Loop] = "pending"]
    BY <1>3 DEF inter_agent_communication
  <2>2. Living \subseteq Living' /\ \A t \in Turns : Expected(t) => Expected(t)'
    BY <2>1 DEF Living, Expected
  <2>3. \A i \in accepted : Somewhere(i)'
    BY <2>1, <2>2, StaysSomewhere DEF Kept
  <2> QED
    BY <2>1, <2>3 DEF Kept, Somewhere
<1>4. CASE try_start_turn_if_idle(j)
  <2>1. UNCHANGED <<recorded, accepted, discarded, mailbox, input, new, queue>>
        /\ pc[Idler] = "idle" /\ carry' = [carry EXCEPT ![Idler] = {j}]
        /\ pc' = [pc EXCEPT ![Idler] = "check"]
    BY <1>4 DEF try_start_turn_if_idle
  <2>2. Living \subseteq Living' /\ \A t \in Turns : Expected(t) => Expected(t)'
    BY <2>1 DEF Living, Expected
  <2>3. \A x \in Living : carry[x] \subseteq carry'[x]
    BY <2>1 DEF Living, Carries
  <2> QED
    BY <2>1, <2>2, <2>3, StaysSomewhere DEF Kept
<1> QED
  BY <1>1, <1>2, <1>3, <1>4

\* The task of a turn is killed: what it held goes down with it, by name.
LEMMA KeptAbort ==
  ASSUME KeepInv, NEW x \in Aborters, AbortStep(x)
  PROVE  Kept'
<1> USE ProcFacts DEF KeepInv, Control, TypeOK, session, starting, outcome
<1>1. CASE handle_task_abort(x)
  <2> DEFINE v == victim[x]
  <2>1. v \in Turns
    BY <1>1 DEF handle_task_abort, Slots
  <2>2. UNCHANGED <<recorded, accepted, mailbox, queue, carry, input, new>>
        /\ discarded' = discarded \cup carry[v] \cup (IF pc[v] = "run" THEN input[v] ELSE {})
    BY <1>1 DEF handle_task_abort, Held
  <2>3. \A y \in Procs : y # x /\ y # v => pc'[y] = pc[y]
    BY <1>1, <2>1 DEF handle_task_abort
  <2>4. pc'[x] = "clear"
    BY <1>1, <2>1 DEF handle_task_abort
  <2>5. SUFFICES ASSUME NEW i \in accepted, Somewhere(i) PROVE Somewhere(i)'
    BY <2>2 DEF Kept
  <2> HIDE DEF v
  <2>6. CASE \E y \in Living : i \in carry[y]
    <3>1. PICK y \in Living : i \in carry[y]
      BY <2>6
    <3>2. CASE y = v
      BY <2>2, <3>1, <3>2 DEF Somewhere
    <3>3. CASE y # v
      <4>1. y \in Living'
        BY <2>3, <2>4, <3>3 DEF Living
      <4> QED
        BY <2>2, <3>1, <4>1 DEF Somewhere
    <3> QED
      BY <3>2, <3>3
  <2>7. CASE \E t \in Turns : Expected(t) /\ i \in input[t]
    <3>1. PICK t \in Turns : Expected(t) /\ i \in input[t]
      BY <2>7
    <3>2. CASE t = v /\ pc[t] = "run"
      BY <2>2, <3>1, <3>2 DEF Somewhere
    <3>3. CASE t # v \/ pc[t] # "run"
      <4>1. Expected(t)'
        BY <2>2, <2>3, <3>1, <3>3 DEF Expected
      <4> QED
        BY <2>2, <3>1, <4>1 DEF Somewhere
    <3> QED
      BY <3>2, <3>3
  <2> QED
    BY <2>2, <2>5, <2>6, <2>7 DEF Somewhere
<1>2. CASE clear_pending(x)
  <2>1. UNCHANGED <<recorded, accepted, mailbox, carry, input, new>>
        /\ discarded' = discarded \cup queue[slot[x]]
        /\ queue' = [queue EXCEPT ![slot[x]] = {}]
    BY <1>2 DEF clear_pending
  <2>2. \A y \in Procs : pc'[y] = pc[y] \/ (y = x /\ pc'[y] # "killed")
    BY <1>2 DEF clear_pending, Goto, AfterAbort
  <2>3. Living \subseteq Living' /\ \A t \in Turns : Expected(t) => Expected(t)'
    BY <2>1, <2>2 DEF Living, Expected
  <2>4. ASSUME NEW i, NEW s \in States, i \in queue[s] PROVE Somewhere(i)'
    <3>1. i \in queue'[s] \/ i \in discarded'
      BY <2>1, <2>4
    <3> QED
      BY <3>1 DEF Somewhere
  <2> QED
    BY <2>1, <2>3, <2>4 DEF Kept, Somewhere
<1> QED
  BY <1>1, <1>2 DEF AbortStep

LEMMA KeptStart ==
  ASSUME KeepInv, NEW x \in Procs, StartStep(x)
  PROVE  Kept'
<1> USE ProcFacts DEF KeepInv, Control, TypeOK, Goto, session, starting, outcome, history
<1>1. CASE maybe_start_turn_for_pending_work(x)
  <2>1. \A y \in Procs : pc'[y] = pc[y] \/ (pc[y] = "pending" /\ pc'[y] # "killed")
    BY <1>1 DEF maybe_start_turn_for_pending_work, Rest
  <2> QED
    BY <1>1, <2>1, MovesSomewhere DEF maybe_start_turn_for_pending_work
<1>2. CASE reserve_turn(x)
  <2>1. \A y \in Procs : pc'[y] = pc[y] \/ (pc[y] = "reserve" /\ pc'[y] # "killed")
    BY <1>2 DEF reserve_turn, Rest
  <2>2. new[x] = 0
    BY <1>2 DEF reserve_turn, News, Promises, Starting
  <2>3. \A y \in {Loop, Idler} : new[y] # 0 => new'[y] = new[y]
    BY <1>2, <2>2 DEF reserve_turn
  <2>4. UNCHANGED <<recorded, accepted, discarded, mailbox, queue, carry, input>>
    BY <1>2 DEF reserve_turn
  <2> QED
    BY <2>1, <2>3, <2>4, MovesSomewhere
<1>3. CASE start_collect(x)
  <2>1. UNCHANGED <<recorded, accepted, discarded, input, new>> /\ get_pending_input
        /\ carry' = [carry EXCEPT ![x] = Pending] /\ pc[x] = "collect"
        /\ pc' = [pc EXCEPT ![x] = "extend"]
    BY <1>3 DEF start_collect
  <2>2. Living \subseteq Living' /\ x \in Living' /\ \A t \in Turns : Expected(t) => Expected(t)'
    BY <2>1 DEF Living, Expected
  <2>3. \A y \in Living : carry[y] \subseteq carry'[y]
    BY <2>1 DEF Living, Carries
  <2>4. \A i \in Pending : Somewhere(i)'
    BY <2>1, <2>2 DEF Somewhere
  <2>5. SUFFICES ASSUME NEW i \in accepted, i \notin Pending, Somewhere(i) PROVE Somewhere(i)'
    BY <2>1, <2>4 DEF Kept
  <2>6. i \in mailbox => i \in mailbox'
    BY <2>1, <2>5, PendingTaken
  <2>7. \A s \in States : i \in queue[s] => i \in queue'[s]
    BY <2>1, <2>5, PendingTaken
  <2> QED
    BY <2>1, <2>2, <2>3, <2>5, <2>6, <2>7 DEF Somewhere
<1>4. CASE start_extend(x)
  <2> DEFINE n == get_or_insert.ts
  <2>1. n \in States
    BY <1>4, RoomToStart, InsertFacts DEF start_extend
  <2>2. UNCHANGED <<recorded, accepted, discarded, mailbox, input, new>>
        /\ carry' = [carry EXCEPT ![x] = {}] /\ queue' = [queue EXCEPT ![n] = @ \cup carry[x]]
        /\ pc[x] = "extend" /\ pc' = [pc EXCEPT ![x] = "install"]
    BY <1>4 DEF start_extend, extend_pending_input
  <2> HIDE DEF n
  <2>3. Living \subseteq Living' /\ \A t \in Turns : Expected(t) => Expected(t)'
    BY <2>2 DEF Living, Expected
  <2>4. \A s \in States : queue[s] \subseteq queue'[s]
    BY <2>2
  <2>5. carry[x] \subseteq queue'[n] /\ \A y \in Living : y # x => carry'[y] = carry[y]
    BY <2>1, <2>2 DEF Living
  <2>6. SUFFICES ASSUME NEW i \in accepted, Somewhere(i) PROVE Somewhere(i)'
    BY <2>2 DEF Kept
  <2>7. CASE i \in carry[x]
    BY <2>1, <2>5, <2>7 DEF Somewhere
  <2>8. CASE i \notin carry[x]
    BY <2>2, <2>3, <2>4, <2>5, <2>6, <2>8 DEF Somewhere
  <2> QED
    BY <2>7, <2>8
<1>5. CASE start_install(x)
  <2> DEFINE o == active.task
  <2>1. new[x] \in Turns /\ pc[new[x]] = "unborn" /\ pc[x] = "install" /\ new[x] # x
    BY <1>5, RoomToStart, TurnFacts DEF start_install, News
  <2>2. UNCHANGED <<recorded, accepted, mailbox, queue, carry, input>>
        /\ new' = [new EXCEPT ![x] = 0]
    BY <1>5 DEF start_install
  <2>3. o # 0 => /\ o \in Turns /\ pc[o] \in {"run", "sampled", "ending"} /\ o # x /\ o # new[x]
                 /\ carry[o] = {}
    BY <2>1 DEF TaskLives, Carries
  <2>4. discarded \subseteq discarded' /\ (o # 0 /\ pc[o] = "run" => input[o] \subseteq discarded')
    <3>1. discarded' = discarded \cup UNION {Held(t) : t \in {o} \ {0}}
      BY <1>5 DEF start_install
    <3>2. o # 0 => Held(o) \subseteq discarded'
      BY <3>1
    <3> QED
      BY <3>1, <3>2 DEF Held
  <2>5. pc'[x] \in {"done", "idle"} /\ pc'[new[x]] = "run"
        /\ \A y \in Procs : y \notin {x, new[x], o} => pc'[y] = pc[y]
    BY <1>5, <2>1 DEF start_install, Rest
  <2>6. o = 0 => \A y \in Procs : y \notin {x, new[x]} => pc'[y] = pc[y]
    BY <1>5 DEF start_install
  <2>7. SUFFICES ASSUME NEW i \in accepted, Somewhere(i) PROVE Somewhere(i)'
    BY <2>2 DEF Kept
  <2> HIDE DEF o
  <2>8. CASE \E y \in Living : i \in carry[y]
    <3>1. PICK y \in Living : i \in carry[y]
      BY <2>8
    <3>2. y \in Living'
      <4>1. pc[y] # "killed" /\ y \in Procs
        BY DEF Living
      <4>2. CASE y \in {x, new[x]}
        BY <2>5, <4>1, <4>2 DEF Living
      <4>3. CASE y \notin {x, new[x]}
        BY <2>3, <2>5, <2>6, <3>1, <4>1, <4>3 DEF Living
      <4> QED
        BY <4>2, <4>3
    <3> QED
      BY <2>2, <3>1, <3>2 DEF Somewhere
  <2>9. CASE \E t \in Turns : Expected(t) /\ i \in input[t]
    <3>1. PICK t \in Turns : Expected(t) /\ i \in input[t]
      BY <2>9
    <3>2. CASE t = o /\ pc[t] = "run"
      BY <2>4, <3>1, <3>2, TurnFacts DEF Somewhere
    <3>3. CASE t = new[x]
      <4>1. Expected(t)'
        BY <2>5, <3>3 DEF Expected
      <4> QED
        BY <2>2, <3>1, <4>1 DEF Somewhere
    <3>4. CASE t # new[x] /\ ~(t = o /\ pc[t] = "run")
      <4>1. pc[t] = "run" => pc'[t] = "run"
        BY <2>1, <2>5, <2>6, <3>4
      <4>2. Expected(t)'
        BY <2>2, <3>1, <3>4, <4>1 DEF Expected
      <4> QED
        BY <2>2, <3>1, <4>2 DEF Somewhere
    <3> QED
      BY <3>2, <3>3, <3>4
  <2> QED
    BY <2>2, <2>4, <2>7, <2>8, <2>9 DEF Somewhere
<1> QED
  BY <1>1, <1>2, <1>3, <1>4, <1>5 DEF StartStep

\* An extension's item that is handed back was never accepted.
LEMMA KeptIdle ==
  ASSUME KeepInv, IdleStep
  PROVE  Kept'
<1> USE ProcFacts DEF KeepInv, Control, TypeOK, Goto, session, starting, outcome, history
<1>0. pc[Idler] = "check" /\ carry' = [carry EXCEPT ![Idler] = {}]
      /\ pc'[Idler] \in {"pending", "idle", "collect"}
      /\ \A y \in Procs : y # Idler => pc'[y] = pc[y]
  BY DEF IdleStep, clear_reserved_idle_turn, reject_busy, use_reserved_idle_turn
<1>1. Living \subseteq Living' /\ \A y \in Living : y # Idler => carry'[y] = carry[y]
  BY <1>0 DEF Living
<1>2. CASE clear_reserved_idle_turn \/ reject_busy
  <2>1. UNCHANGED <<recorded, accepted, discarded, mailbox, queue, input, new>>
    BY <1>2 DEF clear_reserved_idle_turn, reject_busy
  <2>2. \A t \in Turns : Expected(t) => Expected(t)'
    BY <1>0, <2>1 DEF Expected
  <2>3. SUFFICES ASSUME NEW i \in accepted, Somewhere(i) PROVE Somewhere(i)'
    BY <2>1 DEF Kept
  <2>4. i \notin carry[Idler]
    BY <1>0 DEF Carries
  <2> QED
    BY <1>1, <2>1, <2>2, <2>3, <2>4 DEF Somewhere
<1>3. CASE use_reserved_idle_turn
  <2>1. UNCHANGED <<recorded, discarded, mailbox>> /\ accepted' = accepted \cup carry[Idler]
        /\ new' = [new EXCEPT ![Idler] = nextTurn]
    BY <1>3 DEF use_reserved_idle_turn
  <2>2. nextTurn \in Turns /\ new[Idler] = 0 /\ ~Expected(nextTurn)
    <3>1. nextTurn \in Turns
      BY <1>3, TurnFacts DEF use_reserved_idle_turn
    <3>2. new[Idler] = 0
      BY <1>0 DEF News, Promises, Starting
    <3> QED
      BY <3>1, <3>2, NextIsFree
  <2>3. slot[Idler] \in States
    BY <1>0 DEF Carries
  <2>4. \/ queue' = [queue EXCEPT ![slot[Idler]] = @ \cup carry[Idler]] /\ input' = input
        \/ queue' = queue /\ input' = [input EXCEPT ![nextTurn] = carry[Idler]]
    BY <1>3 DEF use_reserved_idle_turn, extend_pending_input
  <2>5. \A s \in States : queue[s] \subseteq queue'[s]
    BY <2>4
  <2>6. \A t \in Turns : Expected(t) => Expected(t)' /\ input[t] \subseteq input'[t]
    <3>1. SUFFICES ASSUME NEW t \in Turns, Expected(t)
                   PROVE  Expected(t)' /\ input[t] \subseteq input'[t]
      OBVIOUS
    <3>2. t # nextTurn /\ t # 0
      BY <2>2, <3>1, TurnFacts
    <3>3. Expected(t)'
      BY <1>0, <2>1, <2>2, <3>1, <3>2 DEF Expected
    <3> QED
      BY <2>4, <3>2, <3>3
  <2>7. \A i \in carry[Idler] : Somewhere(i)'
    <3>1. SUFFICES ASSUME NEW i \in carry[Idler] PROVE Somewhere(i)'
      OBVIOUS
    <3>2. CASE i \in queue'[slot[Idler]]
      BY <2>3, <3>2 DEF Somewhere
    <3>3. CASE i \in input'[nextTurn]
      <4>1. new'[Idler] = nextTurn
        BY <2>1
      <4> QED
        BY <2>2, <3>3, <4>1 DEF Somewhere, Expected
    <3> QED
      BY <2>2, <2>3, <2>4, <3>2, <3>3
  <2>8. SUFFICES ASSUME NEW i \in accepted, i \notin carry[Idler], Somewhere(i)
                 PROVE  Somewhere(i)'
    BY <2>1, <2>7 DEF Kept
  <2> QED
    BY <1>1, <2>1, <2>5, <2>6, <2>8 DEF Somewhere
<1> QED
  BY <1>2, <1>3 DEF IdleStep

LEMMA KeptTask ==
  ASSUME KeepInv, NEW t \in Turns,
         \/ run_turn(t) \/ run_turn_fails(t) \/ follow_up(t) \/ end_run(t)
         \/ defer_mailbox_delivery(t) \/ accept_mailbox_delivery(t)
         \/ record_guardian_denial(t) \/ EndStep(t)
  PROVE  Kept'
<1> USE ProcFacts DEF KeepInv, Control, TypeOK, Goto, session, starting, outcome, history
<1>1. CASE run_turn(t)
  <2> DEFINE r == IF input[t] = {} THEN Pending ELSE input[t]
  <2>1. UNCHANGED <<accepted, discarded, carry, input, new>> /\ recorded' = recorded \cup r
        /\ pc[t] = "run" /\ pc' = [pc EXCEPT ![t] = "sampled"]
    BY <1>1 DEF run_turn
  <2>2. Living \subseteq Living'
    BY <2>1 DEF Living
  <2>3. \A u \in Turns : Expected(u) => Expected(u)' \/ u = t
    BY <2>1 DEF Expected
  <2>4. input[t] \subseteq recorded'
    BY <2>1
  <2>5. \A i \in mailbox : i \in recorded' \/ i \in mailbox'
    BY <1>1, <2>1, PendingTaken DEF run_turn
  <2>6. \A s \in States, i \in Inputs : i \in queue[s] => i \in recorded' \/ i \in queue'[s]
    BY <1>1, <2>1, PendingTaken DEF run_turn
  <2> HIDE DEF r
  <2>7. SUFFICES ASSUME NEW i \in accepted, Somewhere(i) PROVE Somewhere(i)'
    BY <2>1 DEF Kept
  <2>8. i \in Inputs
    OBVIOUS
  <2> QED
    BY <2>1, <2>2, <2>3, <2>4, <2>5, <2>6, <2>7, <2>8 DEF Somewhere
<1>2. CASE run_turn_fails(t)
  <2>1. UNCHANGED <<recorded, accepted, mailbox, queue, carry, input, new>>
        /\ discarded' = discarded \cup input[t] /\ pc[t] = "run"
    BY <1>2 DEF run_turn_fails
  <2>2. \A y \in Procs : pc'[y] = pc[y] \/ (y = t /\ pc'[y] # "killed")
    BY <1>2 DEF run_turn_fails
  <2>3. Living \subseteq Living' /\ \A u \in Turns : Expected(u) => Expected(u)' \/ u = t
    BY <2>1, <2>2 DEF Living, Expected
  <2> QED
    BY <2>1, <2>3 DEF Kept, Somewhere
<1>3. CASE follow_up(t)
  <2>1. UNCHANGED <<accepted, discarded, carry, input, new, pc>>
        /\ recorded' = recorded \cup Pending /\ get_pending_input
    BY <1>3 DEF follow_up
  <2>2. \A i \in mailbox : i \in recorded' \/ i \in mailbox'
    BY <2>1, PendingTaken
  <2>3. \A s \in States, i \in Inputs : i \in queue[s] => i \in recorded' \/ i \in queue'[s]
    BY <2>1, PendingTaken
  <2>4. SUFFICES ASSUME NEW i \in accepted, Somewhere(i) PROVE Somewhere(i)'
    BY <2>1 DEF Kept
  <2>5. i \in Inputs
    OBVIOUS
  <2> QED
    BY <2>1, <2>2, <2>3, <2>4, <2>5 DEF Somewhere, Living, Expected
<1>4. CASE \/ end_run(t) \/ defer_mailbox_delivery(t) \/ accept_mailbox_delivery(t)
           \/ record_guardian_denial(t) \/ take_task(t) \/ clear_active_turn(t)
  <2>1. UNCHANGED <<recorded, accepted, discarded, mailbox, queue, carry, input, new>>
    BY <1>4 DEF end_run, defer_mailbox_delivery, accept_mailbox_delivery,
       record_guardian_denial, take_task, clear_active_turn
  <2>2. \A y \in Procs : pc'[y] = pc[y] \/ (pc[y] # "run" /\ pc'[y] # "killed")
    BY <1>4 DEF end_run, defer_mailbox_delivery, accept_mailbox_delivery,
       record_guardian_denial, take_task, clear_active_turn
  <2> QED
    BY <2>1, <2>2, MovesSomewhere
<1>5. CASE on_task_finished(t)
  <2>1. UNCHANGED <<accepted, discarded, mailbox, carry, input, new>>
        /\ recorded' = recorded \cup queue[slot[t]] /\ queue' = [queue EXCEPT ![slot[t]] = {}]
        /\ pc[t] = "flush" /\ pc' = [pc EXCEPT ![t] = "release"]
    BY <1>5 DEF on_task_finished
  <2>2. Living \subseteq Living' /\ \A u \in Turns : Expected(u) => Expected(u)'
    BY <2>1 DEF Living, Expected
  <2>3. \A s \in States : \A i \in queue[s] : i \in recorded' \/ i \in queue'[s]
    BY <2>1
  <2>4. SUFFICES ASSUME NEW i \in accepted, Somewhere(i) PROVE Somewhere(i)'
    BY <2>1 DEF Kept
  <2> QED
    BY <2>1, <2>2, <2>3, <2>4 DEF Somewhere
<1> QED
  BY <1>1, <1>2, <1>3, <1>4, <1>5 DEF EndStep

LEMMA KeepStep == KeepInv /\ [Next]_vars => KeepInv'
<1> SUFFICES ASSUME KeepInv, [Next]_vars PROVE KeepInv'
  OBVIOUS
<1>1. Control'
  BY ControlStep DEF KeepInv
<1>2. CASE Next
  <2>1. CASE interrupt_task \/ abort_all_tasks \/ abort_turn_if_active
    <3>1. UNCHANGED <<recorded, accepted, discarded, mailbox, queue, carry, input, new>>
      BY <2>1 DEF interrupt_task, abort_all_tasks, abort_turn_if_active, session, starting,
         outcome, history
    <3>2. \A y \in Procs : pc'[y] = pc[y] \/ (pc[y] # "run" /\ pc'[y] # "killed")
      BY <2>1, ProcFacts DEF interrupt_task, abort_all_tasks, abort_turn_if_active, Seize,
         Goto, KeepInv, Control, TypeOK
    <3>3. Kept'
      BY <3>1, <3>2, ProcFacts, MovesSomewhere
    <3> QED
      BY <1>1, <1>2, <3>3, CarriesStep, QueuesStep DEF KeepInv
  <2>2. Kept'
    BY <1>2, <2>1, KeptArrival, KeptAbort, KeptStart, KeptIdle, KeptTask DEF Next, KeepInv
  <2> QED
    BY <1>1, <1>2, <2>2, CarriesStep, QueuesStep DEF KeepInv
<1>3. CASE UNCHANGED vars
  <2> USE <1>3 DEF vars, session, starting, outcome, history, KeepInv
  <2>1. Carries' /\ Queues'
    BY DEF Carries, Queues, Aborting
  <2>2. Kept'
    BY MovesSomewhere
  <2> QED
    BY <1>1, <2>1, <2>2
<1> QED
  BY <1>2, <1>3

(***************************************************************************)
(* No accepted input disappears, whoever aborts, replaces, ends or starts  *)
(* turns meanwhile: it is recorded, went down with a turn by name, is on   *)
(* its way in live hands, or sits in the queue of a turn state that was    *)
(* given up without a task.  There is no other way to lose it.             *)
(***************************************************************************)
THEOREM InputKeptHolds == Spec => []InputKept
BY KeepInit, KeepStep, KeepGoal, PTL DEF Spec
=============================================================================
