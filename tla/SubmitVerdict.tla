---------------------------- MODULE SubmitVerdict ----------------------------
(***************************************************************************)
(* The submit_verdict tool (ext/gloscope-tools/src/submit_verdict): each   *)
(* call loads the settings, probes the codex binary, refreshes the home    *)
(* directory of the nested agent and runs `codex exec` on one candidate.   *)
(* Calls of a turn run in parallel; they share the version cache and the   *)
(* nested agent's config.toml, which their children read whenever they get *)
(* to it.                                                                  *)
(*                                                                         *)
(* A verdict is a model of the output file's content; the settings are     *)
(* reduced to the number of edits they have seen.                          *)
(***************************************************************************)
EXTENDS Integers

CONSTANTS Calls,    \* submit_verdict calls of the turn
          Large,    \* those whose prompt does not fit the pipe buffer
          Verdicts, \* what the verdict field may say
          Usages,   \* tokens a child may report
          MaxEdits  \* bound: edits of the settings by the user

ASSUME CallAssumption == Large \subseteq Calls
ASSUME UsageAssumption == Usages \subseteq Nat
ASSUME BoundAssumption == MaxEdits \in Nat
ASSUME VerdictAssumption == Verdicts \subseteq {"confirmed", "false_positive", "inconclusive"}

MaxRetries == 1

\* Content of config.toml other than the settings version it was written
\* from, and what a child has seen of it before it looks.
NoFile == -1
Torn == -2
Unread == -3
Contents == 0..MaxEdits \cup {NoFile, Torn}

Outputs == Verdicts \cup {"empty", "garbled"}

\* "failed" is the fail-open Verification (inconclusive with an error).
Results == Verdicts \cup {"none", "failed", "tool_error", "cancelled"}

Points == {"idle", "probing", "home", "persist", "spawn", "stdin", "waiting", "read", "done"}

VARIABLES
  edits,      \* the settings on disk
  version,    \* VersionCache: "none", "ok" or "bad"
  lockHolder, \* calls holding write_codex_home_lock
  configToml, \* config.toml of the nested agent
  pc,         \* where each call is
  cfg,        \* the settings each call loaded (Unread: none)
  attempt,    \* children the call has spawned for its candidate
  tokens,     \* tokens_in and tokens_out
  out,        \* content of the call's final.json ("missing": no file)
  result,     \* the Verification the call returned
  child,      \* the call's child: "none", "running" or "exited"
  exitCode,   \* of the last child that exited
  usage,      \* tokens on the last exited child's stdout
  saw         \* what the last child read from config.toml

\* History: what the last child wrote and the tokens of all children of a
\* call.
VARIABLES wrote, spent

shared == <<edits, version, lockHolder, configToml>>
callVars == <<pc, cfg, attempt, tokens, result>>
childVars == <<out, child, exitCode, usage, saw, wrote, spent>>
vars == <<shared, callVars, childVars>>

Init ==
  /\ edits = 0 /\ version = "none" /\ lockHolder = {} /\ configToml = NoFile
  /\ pc = [c \in Calls |-> "idle"]
  /\ cfg = [c \in Calls |-> Unread]
  /\ attempt = [c \in Calls |-> 0]
  /\ tokens = [c \in Calls |-> 0]
  /\ out = [c \in Calls |-> "missing"]
  /\ result = [c \in Calls |-> "none"]
  /\ child = [c \in Calls |-> "none"]
  /\ exitCode = [c \in Calls |-> 0]
  /\ usage = [c \in Calls |-> 0]
  /\ saw = [c \in Calls |-> Unread]
  /\ wrote = [c \in Calls |-> "nothing"]
  /\ spent = [c \in Calls |-> 0]

Goto(c, l) == pc' = [pc EXCEPT ![c] = l] /\ UNCHANGED result
Return(c, r) == pc' = [pc EXCEPT ![c] = "done"] /\ result' = [result EXCEPT ![c] = r]
-----------------------------------------------------------------------------
(* handle, verify and probe_version.                                       *)

\* One poll: load_config, canonicalize, the look into the version cache.
handle(c) ==
  /\ pc[c] = "idle"
  /\ \/ /\ Return(c, "tool_error")
        /\ UNCHANGED cfg
     \/ /\ cfg' = [cfg EXCEPT ![c] = edits]
        /\ \/ Return(c, "failed")
           \/ version = "none" /\ Goto(c, "probing")
           \/ version = "ok" /\ Goto(c, "home")
  /\ UNCHANGED <<shared, attempt, tokens, childVars>>

\* `codex --version` ends, in the worst case by its own timeout.
probe_returns(c, ok) ==
  /\ pc[c] = "probing"
  /\ version' = IF ok THEN "ok" ELSE "bad"
  /\ IF ok THEN Goto(c, "home") ELSE Return(c, "failed")
  /\ UNCHANGED <<edits, lockHolder, configToml, cfg, attempt, tokens, childVars>>
-----------------------------------------------------------------------------
(* exec: write_codex_home, then the child and its output.                  *)

\* Seeded fault: config.toml is truncated and written in place.
written_in_place == Torn

\* The new content goes to a sibling file first.
written_aside == configToml

write_codex_home(c) ==
  /\ pc[c] = "home"
  /\ \/ /\ lockHolder = {}
        /\ lockHolder' = {c}
        /\ configToml' = written_aside
        /\ Goto(c, "persist")
     \/ /\ Return(c, "failed")
        /\ UNCHANGED <<lockHolder, configToml>>
  /\ UNCHANGED <<edits, version, cfg, attempt, tokens, childVars>>

\* The rename, the release of the lock, then the call's own directory with
\* the schema: any of them may fail.
persist(c) ==
  /\ pc[c] = "persist"
  /\ lockHolder' = {}
  /\ \/ /\ configToml' = cfg[c]
        /\ Goto(c, "spawn") \/ Return(c, "failed")
     \/ /\ Return(c, "failed")
        /\ UNCHANGED configToml
  /\ UNCHANGED <<edits, version, cfg, attempt, tokens, childVars>>

\* command.spawn(), for the first run and for the retry.
spawn_child(c) ==
  /\ pc[c] = "spawn"
  /\ \/ /\ Goto(c, "stdin")
        /\ attempt' = [attempt EXCEPT ![c] = @ + 1]
        /\ child' = [child EXCEPT ![c] = "running"]
        /\ wrote' = [wrote EXCEPT ![c] = "nothing"]
        /\ saw' = [saw EXCEPT ![c] = Unread]
     \/ /\ Return(c, "failed")
        /\ UNCHANGED <<attempt, child, wrote, saw>>
  /\ UNCHANGED <<shared, cfg, tokens, out, exitCode, usage, spent>>

\* stdin.write_all: at once when the prompt fits the pipe, else as the
\* child reads it; a child that is gone breaks the pipe.
stdin_buffered(c) ==
  /\ pc[c] = "stdin" /\ c \notin Large
  /\ Goto(c, "waiting")
  /\ UNCHANGED <<shared, cfg, attempt, tokens, childVars>>

stdin_drained(c) ==
  /\ pc[c] = "stdin" /\ c \in Large /\ child[c] = "running"
  /\ Goto(c, "waiting")
  /\ UNCHANGED <<shared, cfg, attempt, tokens, childVars>>

stdin_broken(c) ==
  /\ pc[c] = "stdin" /\ child[c] = "exited"
  /\ Return(c, "failed")
  /\ UNCHANGED <<shared, cfg, attempt, tokens, childVars>>

\* Seeded fault: the exit status is not looked at.
any_exit(code) == TRUE

exit_ok(code) == code = 0

\* Seeded fault: the retry's usage replaces the first run's.
last_usage(c) == usage[c]

accumulated(c) == tokens[c] + usage[c]

wait_returns(c) ==
  /\ pc[c] = "waiting" /\ child[c] = "exited"
  /\ \/ /\ exit_ok(exitCode[c])
        /\ tokens' = [tokens EXCEPT ![c] = accumulated(c)]
        /\ Goto(c, "read")
     \/ /\ ~exit_ok(exitCode[c])
        /\ Return(c, "failed")
        /\ UNCHANGED tokens
  /\ UNCHANGED <<shared, cfg, attempt, childVars>>

\* Seeded fault: the child outlives its handle.
left_running(c) == child

\* kill_on_drop(true).
killed(c) == [child EXCEPT ![c] = IF @ = "running" THEN "none" ELSE @]

\* Seeded fault: no timeout around wait_with_output.
wait_without_timeout(c) == FALSE

\* The timer may fire although the child has exited: wait_with_output also
\* waits for whoever holds the child's pipes.
timer_fires(c) == pc[c] = "waiting"

exec_timeout(c) ==
  /\ timer_fires(c)
  /\ child' = killed(c)
  /\ Return(c, "failed")
  /\ UNCHANGED <<shared, cfg, attempt, tokens, out, exitCode, usage, saw, wrote, spent>>

retries_left(c) == attempt[c] <= MaxRetries

\* The output file: a verdict is returned, an empty file is worth one more
\* run, everything else fails open.
read_output(c) ==
  /\ pc[c] = "read"
  /\ \/ /\ out[c] \in Verdicts
        /\ Return(c, out[c])
     \/ /\ out[c] = "empty" /\ retries_left(c)
        /\ Goto(c, "spawn")
     \/ /\ out[c] \in {"missing", "garbled"} \/ (out[c] = "empty" /\ ~retries_left(c))
        /\ Return(c, "failed")
  /\ UNCHANGED <<shared, cfg, attempt, tokens, childVars>>

\* The turn is interrupted: the task is aborted at its await and its child
\* dropped with it.
cancel(c) ==
  /\ pc[c] \in {"probing", "stdin", "waiting"}
  /\ child' = killed(c)
  /\ Return(c, "cancelled")
  /\ UNCHANGED <<shared, cfg, attempt, tokens, out, exitCode, usage, saw, wrote, spent>>
-----------------------------------------------------------------------------
(* The environment: the nested agent and the user.                         *)

child_reads_config(c) ==
  /\ child[c] = "running" /\ saw[c] = Unread
  /\ saw' = [saw EXCEPT ![c] = configToml]
  /\ UNCHANGED <<shared, callVars, out, child, exitCode, usage, wrote, spent>>

child_writes(c, o) ==
  /\ child[c] = "running" /\ saw[c] # Unread /\ wrote[c] = "nothing"
  /\ wrote' = [wrote EXCEPT ![c] = o]
  /\ out' = [out EXCEPT ![c] = o]
  /\ UNCHANGED <<shared, callVars, child, exitCode, usage, saw, spent>>

child_exits(c, code, n) ==
  /\ child[c] = "running"
  /\ child' = [child EXCEPT ![c] = "exited"]
  /\ exitCode' = [exitCode EXCEPT ![c] = code]
  /\ usage' = [usage EXCEPT ![c] = n]
  /\ spent' = [spent EXCEPT ![c] = @ + n]
  /\ UNCHANGED <<shared, callVars, out, saw, wrote>>

save_settings ==
  /\ edits < MaxEdits
  /\ edits' = edits + 1
  /\ UNCHANGED <<version, lockHolder, configToml, callVars, childVars>>

\* What a call does by itself, with the time limits that wake it.
CallStep(c) ==
  \/ \E ok \in BOOLEAN : probe_returns(c, ok)
  \/ write_codex_home(c) \/ persist(c) \/ spawn_child(c)
  \/ stdin_buffered(c) \/ stdin_broken(c)
  \/ wait_returns(c) \/ exec_timeout(c)
  \/ read_output(c)

ChildNext(c) ==
  \/ child_reads_config(c)
  \/ \E o \in Outputs : child_writes(c, o)
  \/ \E code \in {0, 1}, n \in Usages : child_exits(c, code, n)

Next ==
  \/ \E c \in Calls : handle(c) \/ CallStep(c) \/ stdin_drained(c) \/ cancel(c) \/ ChildNext(c)
  \/ save_settings

Spec == Init /\ [][Next]_vars

\* Tasks are polled and timers fire; children owe nothing.
Fairness == \A c \in Calls : WF_vars(CallStep(c))
FairSpec == Spec /\ Fairness
-----------------------------------------------------------------------------
\* The type invariant; with it, the number of runs a candidate can cost.
TypeOK ==
  /\ edits \in 0..MaxEdits /\ version \in {"none", "ok", "bad"}
  /\ lockHolder \subseteq Calls /\ configToml \in Contents
  /\ pc \in [Calls -> Points]
  /\ cfg \in [Calls -> 0..MaxEdits \cup {Unread}]
  /\ attempt \in [Calls -> 0..MaxRetries + 1]
  /\ tokens \in [Calls -> Nat] /\ usage \in [Calls -> Nat] /\ spent \in [Calls -> Nat]
  /\ out \in [Calls -> Outputs \cup {"missing"}]
  /\ wrote \in [Calls -> Outputs \cup {"nothing"}]
  /\ result \in [Calls -> Results]
  /\ child \in [Calls -> {"none", "running", "exited"}]
  /\ exitCode \in [Calls -> {0, 1}]
  /\ saw \in [Calls -> Contents \cup {Unread}]

(***************************************************************************)
(* A verdict is earned: what a call returns as the agent's verdict was     *)
(* written by the last child of that very call, and that child ended well. *)
(* Neither the file of an earlier attempt nor a child that failed after    *)
(* writing it ever counts.                                                 *)
(***************************************************************************)
VerdictIsEarned ==
  \A c \in Calls : result[c] \in Verdicts => wrote[c] = result[c] /\ exitCode[c] = 0

(***************************************************************************)
(* With the verdict goes the bill for all its attempts, the one with the   *)
(* empty output included.                                                  *)
(***************************************************************************)
TokensAddUp == \A c \in Calls : result[c] \in Verdicts => tokens[c] = spent[c]

(***************************************************************************)
(* Doc of write_codex_home (287-290): a child never observes a torn write. *)
(* Nor does it find the file missing: it reads the settings some call of   *)
(* the tool has loaded, whatever the other calls are writing.              *)
(***************************************************************************)
ChildSeesWholeConfig ==
  \A c \in Calls : saw[c] # Unread => \E d \in Calls : saw[c] = cfg[d]

\* No child runs on behind a call that has returned, timed out, failed or
\* been cancelled.
NoOrphans == \A c \in Calls : child[c] = "running" => pc[c] \in {"stdin", "waiting"}

(***************************************************************************)
(* A call returns although its child may hang for ever, unless the child   *)
(* hangs before it has read a prompt larger than the pipe: that write is   *)
(* outside the timeout.                                                    *)
(***************************************************************************)
CallReturns ==
  \A c \in Calls :
    (pc[c] # "idle") ~> (pc[c] = "done" \/ [](c \in Large /\ pc[c] = "stdin"))
=============================================================================
