------------------------ MODULE SubmitVerdict_proofs ------------------------
(***************************************************************************)
(* Proofs of the safety properties of SubmitVerdict, for any number of     *)
(* parallel calls, edits of the settings and tokens.                       *)
(***************************************************************************)
EXTENDS SubmitVerdict, TLAPS

\* Before its first child a call has its settings and has run nothing, and
\* it may spawn once more only while it has a run left.
Before == {"idle", "probing", "home", "persist"}

Loaded == \A c \in Calls : pc[c] \in {"probing", "home", "persist"} => cfg[c] # Unread

RunsLeft ==
  \A c \in Calls : /\ pc[c] \in Before => attempt[c] = 0
                   /\ pc[c] = "spawn" => attempt[c] <= MaxRetries

TypeInv == TypeOK /\ Loaded /\ RunsLeft

USE DEF MaxRetries

LEMMA TypeInit == Init => TypeInv
BY BoundAssumption DEF Init, TypeInv, TypeOK, Loaded, Before, RunsLeft, Contents, NoFile, Torn, Unread,
   Outputs, Results, Points

LEMMA TypeStep == TypeInv /\ [Next]_vars => TypeInv'
<1> SUFFICES ASSUME TypeInv, [Next]_vars PROVE TypeInv'
  OBVIOUS
<1> USE BoundAssumption, UsageAssumption
    DEF TypeInv, TypeOK, Loaded, Before, RunsLeft, Unread, shared, callVars, childVars, Goto, Return, Outputs, Results,
        Points
<1>1. CASE UNCHANGED vars
  BY <1>1 DEF vars
<1>2. ASSUME NEW c \in Calls, handle(c) PROVE TypeInv'
  BY <1>2 DEF handle
<1>3. ASSUME NEW c \in Calls, NEW ok \in BOOLEAN, probe_returns(c, ok) PROVE TypeInv'
  BY <1>3 DEF probe_returns
<1>4. ASSUME NEW c \in Calls, write_codex_home(c) PROVE TypeInv'
  BY <1>4 DEF write_codex_home, written_aside
<1>5. ASSUME NEW c \in Calls, persist(c) PROVE TypeInv'
  BY <1>5 DEF persist, Contents
<1>6. ASSUME NEW c \in Calls, spawn_child(c) PROVE TypeInv'
  BY <1>6, SMTT(30) DEF spawn_child
<1>7. ASSUME NEW c \in Calls, stdin_buffered(c) \/ stdin_drained(c) \/ stdin_broken(c) PROVE TypeInv'
  BY <1>7 DEF stdin_buffered, stdin_drained, stdin_broken
<1>8. ASSUME NEW c \in Calls, wait_returns(c) PROVE TypeInv'
  BY <1>8 DEF wait_returns, accumulated
<1>9. ASSUME NEW c \in Calls, exec_timeout(c) \/ cancel(c) PROVE TypeInv'
  BY <1>9 DEF exec_timeout, cancel, killed, timer_fires
<1>10. ASSUME NEW c \in Calls, read_output(c) PROVE TypeInv'
  BY <1>10 DEF read_output, retries_left
<1>11. ASSUME NEW c \in Calls, ChildNext(c) PROVE TypeInv'
  BY <1>11 DEF ChildNext, child_reads_config, child_writes, child_exits
<1>12. CASE save_settings
  BY <1>12 DEF save_settings
<1> QED
  BY <1>1, <1>2, <1>3, <1>4, <1>5, <1>6, <1>7, <1>8, <1>9, <1>10, <1>11, <1>12 DEF Next, CallStep

(***************************************************************************)
(* TypeOK holds: among other things no candidate costs more than two runs. *)
(***************************************************************************)
THEOREM TypeCorrect == Spec => []TypeOK
<1>1. TypeInv => TypeOK
  BY DEF TypeInv
<1> QED
  BY TypeInit, TypeStep, <1>1, PTL DEF Spec
-----------------------------------------------------------------------------
(* The child and its output.                                               *)

\* A call has a child exactly while it feeds and awaits it; the child a call
\* has finished with stays as it ended.
Custody ==
  \A c \in Calls :
    /\ child[c] = "running" => pc[c] \in {"stdin", "waiting"}
    /\ pc[c] \in {"stdin", "waiting"} => child[c] # "none"

\* The output file is what the current child wrote; before it writes, the
\* file is missing or the empty one that made the call try again.
OutputIsOurs ==
  \A c \in Calls :
    /\ pc[c] \in Before => out[c] = "missing"
    /\ pc[c] = "spawn" => out[c] \in {"missing", "empty"}
    /\ pc[c] \in {"stdin", "waiting", "read"} =>
         IF wrote[c] = "nothing" THEN out[c] \in {"missing", "empty"} ELSE out[c] = wrote[c]

\* Only the output of a child that ended well is read.
ReadIsEarned == \A c \in Calls : pc[c] = "read" => exitCode[c] = 0

\* Nothing has been returned by a call that is under way.
Unanswered == \A c \in Calls : pc[c] # "done" => result[c] = "none"

VerdictInv == /\ TypeInv /\ Custody /\ OutputIsOurs /\ ReadIsEarned /\ Unanswered
              /\ VerdictIsEarned

\* The verdict field never reads as one of the other file contents.
LEMMA VerdictsApart ==
  /\ "empty" \notin Verdicts /\ "garbled" \notin Verdicts /\ "missing" \notin Verdicts
  /\ "nothing" \notin Verdicts /\ "none" \notin Verdicts /\ "failed" \notin Verdicts
  /\ "tool_error" \notin Verdicts /\ "cancelled" \notin Verdicts
BY VerdictAssumption

LEMMA VerdictInit == Init => VerdictInv
BY TypeInit, VerdictsApart
   DEF Init, VerdictInv, Custody, OutputIsOurs, ReadIsEarned, Unanswered, VerdictIsEarned, Before

LEMMA VerdictStep == VerdictInv /\ [Next]_vars => VerdictInv'
<1> SUFFICES ASSUME VerdictInv, [Next]_vars
             PROVE  (Custody /\ OutputIsOurs /\ ReadIsEarned /\ Unanswered /\ VerdictIsEarned)'
  BY TypeStep DEF VerdictInv
<1> DEFINE Goal == Custody /\ OutputIsOurs /\ ReadIsEarned /\ Unanswered /\ VerdictIsEarned
<1> USE VerdictsApart
    DEF VerdictInv, TypeInv, TypeOK, Custody, OutputIsOurs, ReadIsEarned, Unanswered,
        VerdictIsEarned, Before, shared, callVars, childVars, Goto, Return, Outputs
<1>1. CASE UNCHANGED vars
  BY <1>1 DEF vars
<1>2. ASSUME NEW c \in Calls, handle(c) PROVE Goal'
  BY <1>2 DEF handle
<1>3. ASSUME NEW c \in Calls, \E ok \in BOOLEAN : probe_returns(c, ok) PROVE Goal'
  BY <1>3 DEF probe_returns
<1>4. ASSUME NEW c \in Calls, write_codex_home(c) PROVE Goal'
  BY <1>4 DEF write_codex_home, written_aside
<1>5. ASSUME NEW c \in Calls, persist(c) PROVE Goal'
  BY <1>5 DEF persist
<1>6. ASSUME NEW c \in Calls, spawn_child(c) PROVE Goal'
  BY <1>6 DEF spawn_child
<1>7. ASSUME NEW c \in Calls, stdin_buffered(c) \/ stdin_drained(c) \/ stdin_broken(c) PROVE Goal'
  BY <1>7 DEF stdin_buffered, stdin_drained, stdin_broken
<1>8. ASSUME NEW c \in Calls, wait_returns(c) PROVE Goal'
  BY <1>8 DEF wait_returns, exit_ok, accumulated
<1>9. ASSUME NEW c \in Calls, exec_timeout(c) \/ cancel(c) PROVE Goal'
  BY <1>9 DEF exec_timeout, cancel, killed, timer_fires
<1>10. ASSUME NEW c \in Calls, read_output(c) PROVE Goal'
  BY <1>10 DEF read_output, retries_left
<1>11. ASSUME NEW c \in Calls, ChildNext(c) PROVE Goal'
  BY <1>11 DEF ChildNext, child_reads_config, child_writes, child_exits
<1>12. CASE save_settings
  BY <1>12 DEF save_settings
<1> QED
  BY <1>1, <1>2, <1>3, <1>4, <1>5, <1>6, <1>7, <1>8, <1>9, <1>10, <1>11, <1>12 DEF Next, CallStep

(***************************************************************************)
(* A verdict was written by the last child of the call that returns it,    *)
(* and that child exited with status 0.                                    *)
(***************************************************************************)
THEOREM VerdictEarned == Spec => []VerdictIsEarned
<1>1. VerdictInv => VerdictIsEarned
  BY DEF VerdictInv
<1> QED
  BY VerdictInit, VerdictStep, <1>1, PTL DEF Spec

(***************************************************************************)
(* A child runs only while its call feeds or awaits it: every way out of   *)
(* the call, its cancellation included, ends the child.                    *)
(***************************************************************************)
THEOREM ChildrenEnd == Spec => []NoOrphans
<1>1. VerdictInv => NoOrphans
  BY DEF VerdictInv, Custody, NoOrphans
<1> QED
  BY VerdictInit, VerdictStep, <1>1, PTL DEF Spec
-----------------------------------------------------------------------------
(* The bill.                                                               *)

\* Until its child exits a call has counted all tokens spent on it; from
\* then until it looks, all but that child's.
Counted ==
  \A c \in Calls :
    /\ pc[c] \in Before \cup {"spawn", "read"} => tokens[c] = spent[c]
    /\ pc[c] \in {"stdin", "waiting"} =>
         spent[c] = IF child[c] = "running" THEN tokens[c] ELSE tokens[c] + usage[c]

BillInv == VerdictInv /\ Counted /\ TokensAddUp

LEMMA BillInit == Init => BillInv
BY VerdictInit, VerdictsApart DEF Init, BillInv, Counted, TokensAddUp, Before

LEMMA BillStep == BillInv /\ [Next]_vars => BillInv'
<1> SUFFICES ASSUME BillInv, [Next]_vars PROVE (Counted /\ TokensAddUp)'
  BY VerdictStep DEF BillInv
<1> DEFINE Goal == Counted /\ TokensAddUp
<1> USE VerdictsApart, UsageAssumption
    DEF BillInv, VerdictInv, TypeInv, TypeOK, Custody, Unanswered, Counted, TokensAddUp, Before,
        shared, callVars, childVars, Goto, Return
<1>1. CASE UNCHANGED vars
  BY <1>1 DEF vars
<1>2. ASSUME NEW c \in Calls, handle(c) PROVE Goal'
  BY <1>2 DEF handle
<1>3. ASSUME NEW c \in Calls, \E ok \in BOOLEAN : probe_returns(c, ok) PROVE Goal'
  BY <1>3 DEF probe_returns
<1>4. ASSUME NEW c \in Calls, write_codex_home(c) PROVE Goal'
  BY <1>4 DEF write_codex_home, written_aside
<1>5. ASSUME NEW c \in Calls, persist(c) PROVE Goal'
  BY <1>5 DEF persist
<1>6. ASSUME NEW c \in Calls, spawn_child(c) PROVE Goal'
  BY <1>6 DEF spawn_child
<1>7. ASSUME NEW c \in Calls, stdin_buffered(c) \/ stdin_drained(c) \/ stdin_broken(c) PROVE Goal'
  BY <1>7 DEF stdin_buffered, stdin_drained, stdin_broken
<1>8. ASSUME NEW c \in Calls, wait_returns(c) PROVE Goal'
  BY <1>8 DEF wait_returns, exit_ok, accumulated
<1>9. ASSUME NEW c \in Calls, exec_timeout(c) \/ cancel(c) PROVE Goal'
  BY <1>9 DEF exec_timeout, cancel, killed, timer_fires
<1>10. ASSUME NEW c \in Calls, read_output(c) PROVE Goal'
  BY <1>10 DEF read_output, retries_left
<1>11. ASSUME NEW c \in Calls, ChildNext(c) PROVE Goal'
  BY <1>11 DEF ChildNext, child_reads_config, child_writes, child_exits
<1>12. CASE save_settings
  BY <1>12 DEF save_settings
<1> QED
  BY <1>1, <1>2, <1>3, <1>4, <1>5, <1>6, <1>7, <1>8, <1>9, <1>10, <1>11, <1>12 DEF Next, CallStep

(***************************************************************************)
(* A returned verdict carries the tokens of all its runs.                  *)
(***************************************************************************)
THEOREM BillIsComplete == Spec => []TokensAddUp
<1>1. BillInv => TokensAddUp
  BY DEF BillInv
<1> QED
  BY BillInit, BillStep, <1>1, PTL DEF Spec
-----------------------------------------------------------------------------
(* The nested agent's configuration.                                       *)

\* config.toml is what some call loaded, and is there once a call has got
\* as far as its child.
WholeFile == configToml = NoFile \/ \E d \in Calls : configToml = cfg[d]
FileIsThere ==
  \A c \in Calls : pc[c] \in {"spawn", "stdin", "waiting", "read"} => configToml # NoFile

\* Settings are loaded once per call.
LoadedLater == \A c \in Calls : pc[c] = "idle" => cfg[c] = Unread
FileIsReal == configToml # Unread

ConfigInv == /\ VerdictInv /\ WholeFile /\ FileIsThere /\ LoadedLater /\ FileIsReal
             /\ ChildSeesWholeConfig

LEMMA ConfigInit == Init => ConfigInv
BY VerdictInit
   DEF Init, ConfigInv, WholeFile, FileIsThere, LoadedLater, FileIsReal, ChildSeesWholeConfig,
       NoFile, Unread

LEMMA ConfigStep == ConfigInv /\ [Next]_vars => ConfigInv'
<1> SUFFICES ASSUME ConfigInv, [Next]_vars
             PROVE  (WholeFile /\ FileIsThere /\ LoadedLater /\ FileIsReal /\ ChildSeesWholeConfig)'
  BY VerdictStep DEF ConfigInv
<1> DEFINE Goal == WholeFile /\ FileIsThere /\ LoadedLater /\ FileIsReal /\ ChildSeesWholeConfig
<1> USE BoundAssumption
    DEF ConfigInv, VerdictInv, TypeInv, TypeOK, Custody, Loaded, WholeFile, FileIsThere,
        LoadedLater, FileIsReal, ChildSeesWholeConfig, NoFile, Unread, Before, shared, callVars,
        childVars, Goto, Return
<1>1. CASE UNCHANGED vars
  BY <1>1 DEF vars
<1>2. ASSUME NEW c \in Calls, handle(c) PROVE Goal'
  BY <1>2 DEF handle
<1>3. ASSUME NEW c \in Calls, \E ok \in BOOLEAN : probe_returns(c, ok) PROVE Goal'
  BY <1>3 DEF probe_returns
<1>4. ASSUME NEW c \in Calls, write_codex_home(c) PROVE Goal'
  BY <1>4 DEF write_codex_home, written_aside
<1>5. ASSUME NEW c \in Calls, persist(c) PROVE Goal'
  BY <1>5 DEF persist
<1>6. ASSUME NEW c \in Calls, spawn_child(c) PROVE Goal'
  BY <1>6 DEF spawn_child
<1>7. ASSUME NEW c \in Calls, stdin_buffered(c) \/ stdin_drained(c) \/ stdin_broken(c) PROVE Goal'
  BY <1>7 DEF stdin_buffered, stdin_drained, stdin_broken
<1>8. ASSUME NEW c \in Calls, wait_returns(c) PROVE Goal'
  BY <1>8 DEF wait_returns, exit_ok, accumulated
<1>9. ASSUME NEW c \in Calls, exec_timeout(c) \/ cancel(c) PROVE Goal'
  BY <1>9 DEF exec_timeout, cancel, killed, timer_fires
<1>10. ASSUME NEW c \in Calls, read_output(c) PROVE Goal'
  BY <1>10 DEF read_output, retries_left
<1>11. ASSUME NEW c \in Calls, ChildNext(c) PROVE Goal'
  BY <1>11 DEF ChildNext, child_reads_config, child_writes, child_exits
<1>12. CASE save_settings
  BY <1>12 DEF save_settings
<1> QED
  BY <1>1, <1>2, <1>3, <1>4, <1>5, <1>6, <1>7, <1>8, <1>9, <1>10, <1>11, <1>12 DEF Next, CallStep

(***************************************************************************)
(* A child never finds config.toml missing or torn: it reads the settings  *)
(* some call loaded.                                                       *)
(***************************************************************************)
THEOREM ConfigIsWhole == Spec => []ChildSeesWholeConfig
<1>1. ConfigInv => ChildSeesWholeConfig
  BY DEF ConfigInv
<1> QED
  BY ConfigInit, ConfigStep, <1>1, PTL DEF Spec
=============================================================================
