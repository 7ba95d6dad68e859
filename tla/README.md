# Verification of the GloScope core

GloScope is a desktop application that finds and fixes vulnerabilities in a
checked-out repository. Its window (Tauri and React) embeds an agent core, a
fork of codex, in the same process. The core talks to a model, runs tools and
asks the user before it changes files. This directory holds TLA+ modules that
model the parts of that program where order, concurrency and failure decide
whether it is correct, the TLC configurations that check them on small
instances, and TLAPS proofs of the main results for instances of any size.
Paths below are relative to the repository.

## 1. Inventory

| component | source | state | operations | what is hard |
|---|---|---|---|---|
| thread listener and outgoing messages | `codex-rs/app-server/src/bespoke_event_handling.rs`, `outgoing_message.rs`, `external_auth.rs` | next request id; map from request id to the callback that waits for its answer | send a request, send a notification, settle a callback, cancel a thread's callbacks, give up a token refresh | a turn ends, or a timeout fires, while the answer is on its way |
| in-process runtime | `codex-rs/app-server/src/in_process.rs`, `transport.rs` | writer, event, client and processor queues, all bounded; waiting client requests | forward a message to the client, take one from it, refuse on overload | some sends block and some drop; the choice depends on the notification |
| facade worker | `codex-rs/app-server-client/src/lib.rs` | command and consumer queues; number of skipped events | run a command, forward an event, announce a lag, reject what cannot be delivered | it may block on its own consumer; a rejection may itself be lost |
| desktop shell | `gloscope-app/src-tauri/src/lib.rs` | table of pending patch approvals, the handle to the core | event loop, `send_message`, `respond_to_patch_approval`, session start, settings | the event loop awaits the worker that waits for the event loop; two session starts |
| branch gate | `codex-rs/core/src/tools/git_safety.rs`, `codex-rs/git-utils/src/info.rs` | none of its own: the repository's HEAD and branches | query the branch and the default branch, create a branch | the answer is stale when the patch is written; git may time out; other calls move HEAD |
| patch approval, sandbox and retry | `codex-rs/core/src/tools/handlers/apply_patch.rs`, `apply_patch.rs`, `safety.rs`, `orchestrator.rs`, `runtimes/apply_patch.rs`, `approvals.rs`, `sandboxing.rs`, `codex-rs/sandboxing/src/manager.rs` | policy and permissions of the turn, the consent obtained | assess, ask, attempt, retry outside the sandbox | an attempt fails half-way; the retry needs a consent of its own |
| tool-call runtime | `codex-rs/core/src/tools/parallel.rs`, `registry.rs`, `tasks/mod.rs` | a read/write lock per turn, a cancellation token, one outcome flag per call | admit, run with hooks, notify contributors, abort, drain | cancellation races the end of the call; the user is awaited under the lock; the grace period ends in the middle of a teardown |
| session turns and input queue | `codex-rs/core/src/tasks/mod.rs`, `session/inject.rs`, `session/input_queue.rs`, `session/handlers.rs` | the active turn and its state, pending input, the mailbox | steer, start, finish and abort a turn, inject, take mail | several processes reserve, fill and clear the active turn and release its lock in between |
| session start and settings | `gloscope-app/src-tauri/src/lib.rs`, `codex-rs/gloscope-config/src/lib.rs`, `gloscope-app/src/SetupWizard.tsx`, `App.tsx` | settings file, key in the keyring, key in the environment, the managed session | setup, wizard, save, start a core | three parties read the configuration for themselves; a second core; a file written in place |
| memory extraction (phase 1) | `codex-rs/memories/write/src/start.rs`, `phase1.rs`, `codex-rs/state/src/runtime/memories.rs` | a job row per thread with owner, lease, back-off, retries and watermarks; the extracted memories | scan, claim, extract, report, prune, forget, reset | processes share a database; leases run out under a slow model; a thread is deleted while its rollout is with the model |
| memory consolidation (phase 2) | `codex-rs/memories/write/src/phase2.rs`, `workspace.rs`, `storage.rs`, `control.rs`, `codex-rs/git-utils/src/baseline.rs` | the global job row, the memories directory, its git baseline | claim, sync, compare, run the agent, validate, move the baseline, finish | database and directory change in separate steps; a reset may stop halfway; an agent may outlive its shutdown |
| `submit_verdict` | `codex-rs/ext/gloscope-tools/src/submit_verdict/mod.rs` | version cache, shared home of the nested agent | probe, write config, run, retry, time out | check-then-act on the cache; shared configuration; a write outside the timeout |
| `run_semgrep`, `triage` | `codex-rs/ext/gloscope-tools/src/run_semgrep/`, `triage/` | none | merge, deduplicate and filter findings | pure, with fail-open cases |
| front end, remote transport, terminal UI, platform sandboxes, legacy Python | see PROJECT.json | | | not modelled, reasons in section 13 |

How they interact. The listener sends requests (for instance "may this patch be
applied?") and notifications through the runtime and the worker to the shell.
The user's answer goes back through the worker's command queue and the
runtime's client queue to the callback that the listener's task awaits. An
`apply_patch` call holds the tool lock, passes the branch gate, and then uses
exactly that path to ask for approval; while it waits nothing else holds HEAD
still.

What makes each part correct:

* a request the server waits for is somewhere in the pipeline, is answered at
  most once, and is accepted only if the user accepted it;
* every `send_message` gets one reply; every skipped event is accounted for;
* nobody waits in a circle;
* a patch is not written to a protected branch, stays on the branch made for
  it, and leaves the sandbox only with consent;
* a queued call gets its turn; a tool call has one outcome, and does no more work
  once it is answered;
* one turn runs at a time, ends once, and no accepted input or mail is lost;
* a session runs with what the user saved, and a chat has a session;
* a memory in the database is that of the last successful extraction; a
  forgotten one stays forgotten; the memories directory has one writer, and its
  baseline records only what was really consolidated;
* a verdict is what the nested agent of that very call said, its bill is
  complete, its child ends with it, and it comes.

`PROJECT.json` lists, under "hazards", the lines where each of these could go
wrong and the properties that would show it.

## 2. Plan

| order | module | content | state |
|---|---|---|---|
| 1 | `RequestLedger` | abstract promise: what may happen to a server request | done |
| 1 | `EventPipeline` | the message path between core and window, implements `RequestLedger` | done, proofs in `EventPipeline_proofs` |
| 2 | `PatchGate` | lock, branch gate, approval, sandbox, writes | done, proofs in `PatchGate_proofs` |
| 3 | `SubmitVerdict` | version cache, shared home, timeout and retry of the nested run | done, proofs in `SubmitVerdict_proofs` |
| 4 | `SessionStartup` | start of the core, settings and key: independent reads of the configuration, a second start, quits and failures at any step | done, proofs in `SessionStartup_proofs` |
| 5 | `ToolCallRuntime` | cancellation against completion: one terminal outcome per call | done, proofs in `ToolCallRuntime_proofs` |
| 6 | `SessionTurns` | the active turn, pending input and mailbox of a session | done, proofs in `SessionTurns_proofs` |
| 7 | `MemoryExtraction` | claims under a lease, retries, late reports, forgetting | done, proofs in `MemoryExtraction_proofs` |
| 8 | `MemoryConsolidation` | the global lock, the directory, the agent and the baseline | done, proofs in `MemoryConsolidation_proofs` |
| 9 | `Candidates` | deduplication and triage as operators against a reference definition | planned |
| 10 | composition | `PatchGate`'s approvals answered through `RequestLedger`, the specification that `EventPipeline` implements | planned |

Every invariant that a run checks is proved. Proofs still worth having: the
refinement that the composition of item 10 will state, and more of the safety
facts behind the liveness properties (as `SentIsReachable` is behind
`TurnReplied`).

## 3. EventPipeline

`EventPipeline.tla` has one variable per queue and per piece of task state, and
one action for what a task does between two awaits.

| variables | code |
|---|---|
| `nextId`, `callback`, `kindOf`, `threadOf`, `outcome` | `OutgoingMessageSender`: next id, `request_id_to_callback` with its entries, the oneshots |
| `hand`, `runtimeHand`, `workerHand` | the message a task holds while it is blocked in `send(..).await` |
| `writer`, `event`, `consumer`, `command`, `client`, `processor` | the bounded channels, all of capacity `channel_capacity.max(1)` |
| `skipped` | `skipped_events` of the worker |
| `rejecting`, `awaiting`, `pendingApprovals` | the event loop of the shell: request it rejects, reply it awaits, `pending_patch_approvals` |
| `responding`, `turn`, `detached` | running Tauri commands and the request tasks the worker spawns |
| `accepted`, `leaked`, `owed` | history, used by the properties only |

Messages are a tag and a number. A notification is reduced to its delivery
class, because the code treats notifications differently only by class; there
are two classifications, the runtime's and the facade's, and the model keeps
both. The outgoing queue and the writer queue are joined by a task that only
copies, so they are one FIFO of capacity `2 * Cap + 1`. `try_send` on a full
queue is a disjunct of its own.

`RequestLedger.tla` is the abstract specification. A request is issued once, settled at
most once, never changes after that, and is settled with "accept" only if the
user accepted that very request. `EventPipeline` implements it under a
refinement mapping that forgets the queues.

Properties:

* `PendingIsReachable`: a request that the server waits for, or its answer, is
  in some queue, hand or table, unless a failed `try_send` lost the answer (and
  the model records where).
* `SingleCustody`: a request, or its answer, is in at most one place.
* `LedgerSpec`: the refinement of `RequestLedger`.
* `LagAccounting`: each event the worker took is delivered, announced in a
  Lagged marker, counted in `skipped`, or in its hand.
* `TurnReplied`: a `send_message` call is eventually answered.
* `UnsupportedAnswered`, `ApprovalSurfaces`, `ClickSettles`: requests the app
  does not support are answered; approvals reach the table or are settled; a
  click settles its request. The liveness properties name their two ways out:
  the answer met a full client queue (`leaked`), or the app and the worker wait
  for each other (`MutualWait`). Both really happen, and both are among the
  disagreements of section 12; the properties say that nothing else stops a
  request. In the bounds of `turns` the mutual wait cannot arise, in those of
  `live` it does.

Four invariants are proved and have no run: `RejectPairing` (a queued rejection
is the one the app waits for), part of the proof of `PendingIsReachable`;
`AcceptedByUser` (only what the user clicked Accept on is accepted), which is what
`LedgerSpec` says of settled requests; `AwaitedIsQueued` (while the app waits for
a reply, its rejection is queued) and `SentIsReachable` (a waiting `send_message`
call has its request or its response somewhere), the safety halves of
`UnsupportedAnswered` and `TurnReplied`.

`send_message` calls are not limited to one at a time. The window disables its
button while one is running, but the Tauri command itself has no such check, so
the model allows what the command allows.

## 4. PatchGate

`PatchGate.tla` follows each patch from the lock to the last file written.
`pc[c]` is the point a call has reached; `head` and `branches` are the
repository, shared by all calls and by outsiders. `Parallel` calls are patches
inside shell commands, which take the lock for reading
(`handlers/shell/shell_command.rs`); the others are `apply_patch` calls, which
take it for writing. A branch name is the sequence of its segments, because
the code cuts a ref at its last slash (`git-utils/src/info.rs`) and nothing else
depends on the characters. The timestamp in a fresh branch name is the clock in
seconds, as in `unix_timestamp`.

What git answers is a set: the true answer, and with `Timeouts` the answer of
the next fallback or none. `GitErrors` lets `git checkout -b` fail for reasons
outside the model (a locked index, a full disk). Files are written one by one
(`apply_hunk`), so that a cancellation, a denial or a branch switch can fall
between two. `outside_checkout` is a person or another program switching
branches.

`stale` and `blind` are history: the calls that an outside checkout overtook,
and the calls that git misinformed. They name the causes that
`ProtectedWriteHasCause` allows.

Properties:

* `ProtectedWriteHasCause`: a write to a protected branch needs one of those
  causes; sibling calls alone never lead to one.
* `OnePatchOneBranch`: the files of a serial call are on one branch, the one
  made for it if one was made, unless an outside checkout overtook it (`stale`).
* `WritesAreConsented`: where a patch may be written and on whose word, for
  every policy and every managed profile. Only a profile that confines the disk
  or the network asks for a sandbox (`should_sandbox`,
  `sandboxing/src/policy_transforms.rs:523-543`). A managed profile that opens
  both is approved automatically (`safety.rs:60-73`) and written outside any
  sandbox; there only the last part speaks: with approvals off, no patch that
  leaves the writable roots is written.
* `QueuedIsAdmitted`: a queued call is admitted unless the user leaves a call
  that holds the lock waiting.

`DeniedReadsKeepSandbox` (denied-read rules keep every attempt in the sandbox)
and `BranchPerCall` (no two calls make the same branch) are proved.

## 5. SubmitVerdict

`SubmitVerdict.tla` follows each `submit_verdict` call of a turn through
`handle`, `verify`, `exec` and `spawn_and_collect`. Calls run in parallel
(`supports_parallel_tool_calls`); an action is what a call does between two
awaits, except that the writing of `config.toml` is split at the rename, because
children are other processes and read the file when they like.

| variables | code |
|---|---|
| `edits`, `cfg` | the settings on disk, reduced to how often they were edited, and what a call loaded of them |
| `version` | `VersionCache` |
| `lockHolder`, `configToml` | `write_codex_home_lock`, the nested agent's `config.toml` |
| `pc`, `attempt`, `tokens`, `result` | where the call is, its children so far, `tokens_in`/`tokens_out`, what it returned |
| `out`, `child`, `exitCode`, `usage`, `saw` | the call's `final.json`, its child process and what that one left or read |
| `wrote`, `spent` | history, used by the properties only |

`failed` is the fail-open answer, `inconclusive` with an error; `tool_error` is
the error that `handle` itself returns. A child may read the configuration,
write an output (a verdict, an empty file, or something unparsable), exit with or
without success, or do nothing for ever, in which case only the timeout or a
cancellation ends the call. Prompts in `Large` do not fit the pipe, so that
`write_all` needs the child to read.

Properties:

* `VerdictIsEarned`: a returned verdict was written by the last child of that
  call, which succeeded. The retry uses the file of the first attempt, and a
  child may fail after it has written.
* `TokensAddUp`: its bill is that of all attempts.
* `ChildSeesWholeConfig`: a child never reads a torn or missing `config.toml`.
  It may read the settings of another call, loaded after an edit, beside the
  key of its own; the property allows that, since the code does.
* `NoOrphans`: no child outlives its call, however the call ended.
* `CallReturns`: a call that was started returns, whatever its child does. The
  exit it names is real: the prompt is written to stdin outside the timeout, so
  a child that stops reading a large one holds the call until the user cancels.

## 6. ToolCallRuntime

A call is two actors. Its dispatch task waits for readiness and for the lock,
runs the hooks and the handler and tells the lifecycle contributors how it
ended; its waiter selects between the task and the cancellation token. They
agree through one `AtomicBool` (`claimed`). `task` and `waiter` are where each
of them is, `told` what contributors heard, `reply` what the model will read,
and `turn` the drain of all waiters, which the grace period of an interrupt may
cut short at any point. `multi` distinguishes a runtime with worker threads from
GloScope's single thread, where nothing runs between two awaits of a task.

* `OneOutcome`: result and abort never both become the outcome, and contributors
  and model hear the same one. With worker threads, and for tools that do not
  wait for cancellation, the load of the flag and the abort of the task are two
  steps, so contributors may hear two outcomes; the property excludes that case
  by name (`Arbitrated`).
* `NoWorkAfterReply`: an answered call has no task, process or lock left.
* `InterruptStopsTools`: an interrupt ends every tool, those of a turn dropped at
  the end of the grace period included.

`WriterRunsAlone` (a serial tool has the lock to itself through hooks and
contributors) is proved.

## 7. SessionTurns

The submission loop, the task of each turn, an extension and the guardian share
`Session::active_turn`. `active` is that cell: a turn state, and the task
installed in it. `queue` is `TurnState::pending_input`; `mailbox` and `late` are
the mailbox and its delivery phase. Starting a turn is three steps, because
`start_task` collects input, extends a turn state and installs the task under
separate acquisitions of the lock; finishing and aborting are three steps each
for the same reason. A task whose handle is aborted still finishes the step it is
in, so its end can overlap with the start of the next turn.

* `OneEnd`: no turn is reported both complete and aborted.
* `OneRuns`: two turns run together only while one of them is being aborted.
* `InputKept`: accepted input is in the history, went down with its turn, or is
  on its way: in the mailbox, in the queue of the active turn or of one being
  aborted, in the hands of a process that lives, or with a turn that is being
  started. A queue nobody will read again counts only if its turn state was given
  up without a task (`dropped`); what a killed process held is `discarded`.
* `TurnEnds`: a turn that runs is reported to be over.
* `MailDelivered`: mail that should start a turn leaves the mailbox.

Each names the races that really break it, and says that nothing else does:

* `on_task_finished` takes whatever task is installed without comparing turn ids
  (`tasks/mod.rs:580`); the end of an aborted turn can take the next turn's task
  (`thefts`);
* a start can overwrite a task that was installed meanwhile (`replaced`, the
  subject of the run `turn_replaced`);
* an interrupt takes the active turn from one that is ending: the ending turn
  then does not look at the mailbox, and neither does the interrupt (`cut`);
* input is queued on a turn state that was only reserved, or is past its last
  look, and is given up with it (`dropped`).

## 8. SessionStartup

The module follows settings file, keyring, environment key, the window with its
wizard and each core thread over several launches. Keyring and disk fail, the app
quits at any step, and the file is written in place, so that it can be torn.

* `SessionIsWhatWasSaved`: after the wizard, the session runs with the settings
  and the key just saved, unless it is the core that setup had started before.
* `EnvKeyIsSessions`: the key in the environment is that of the session, unless a
  second core was on its way when the session was published.
* `WizardSettles`: every submission ends, in the chat or with an error.
* `ChatGetsSession`: a chat gets its session. The two exceptions are real: setup
  could not read what the window read a moment later, so nobody started a core;
  and the core setup starts fails without anybody being told
  (`gloscope-app/src-tauri/src/lib.rs:439`).

`SessionBehindWizard` (a wizard that closes leaves a session) is proved.

## 9. MemoryExtraction and MemoryConsolidation

Every root session starts the memory pipeline. Phase 1 claims threads in the
`jobs` table under a lease, has a model extract a memory from each rollout, and
reports. Phase 2 takes one global lock, writes the selected memories into a
directory, lets an agent fold the difference to the git baseline into the
consolidated files, validates them and moves the baseline.

A step is one transaction, or one pass over the directory. Clocks are flags: a
lease, a back-off or a cooldown holds until the step that lets it run out. A
memory is the version (`source_updated_at`) it was extracted from. An ownership
token is a fresh UUID, so "the row carries my token" is "the row's owner is this
session, which holds the claim". Both modules let a session die between any two
steps, let reports get lost, and let threads be polluted, disabled, enabled again
and deleted and the memory be reset. A thread is enabled again by
`thread/memoryMode/set`, or when `reconcile_rollout` rewrites a legacy thread's row
from its rollout (`rollout/src/state_db.rs:554-584`). Deletion clears the memory first and the thread's row later, in
another database; a reset clears the rows first and the directory later. These
are two steps each, and the second step of a reset may fail or die halfway.

A claiming pass walks down the list its scan made and stops for good at the
cap (`Claim`, `memories.rs:253-257`); what is left waits for a later start.

`MemoryExtraction`:

* `LeasesBounded`: live leases never exceed the cap, however many sessions start
  at once.
* `OutputIsLastSuccess`: the stored memory is that of the last successful report;
  a report that outlived its lease changes nothing. (After a takeover the rollout
  is extracted twice and stored once.)
* `ForgottenStaysForgotten`: a claim taken before a thread was forgotten does
  not bring its memory back.
* `FailuresBounded`: the failures since the thread was first claimed at its latest
  claimed version (`peak`) are at most what was granted since (`allowed`): the
  retries once, and once more for each claim from a list older than that.
* `ExtractionSettles`: every rollout is extracted, or has used up its retries, the
  ones a full pass left out included.

Three behaviours the model has and no property forbids. A claim made after the
memory of a thread is cleared and before its row goes leaves an output without a
thread, which phase 2 never selects. Taking over an expired lease costs no retry,
so a rollout that kills its process is tried again at every start. A claim of an
older version lowers the watermark, so the next newer one refills the retries
although the thread has not changed: "at most `Retries` failures until the thread
changes" is false of the code, and `FailuresBounded` counts these refills.

`MemoryConsolidation`:

* `OneWriter`: one session, or the agent it left behind, works in the directory.
* `BaselineIsDigested`: what the baseline records, the artifacts reflect; no
  memory is skipped by a later comparison.
* `DoneIsClean`: a finished job leaves baseline, files and valid artifacts in
  agreement.
* `FinishedByOwner`: a running job is finished by its owner alone.
* `ForgottenLeavesArtifacts`: a memory whose thread stays polluted, disabled or
  deleted leaves the artifacts, and stays out of them. (Of a thread that is enabled
  again it says nothing.)

Two history variables name what the directory's properties exempt; `FinishedByOwner`
exempts nothing. `halved` is set by a reset that stopped with `.git` gone and
inputs and artifacts in disagreement (`control.rs:31-41` deletes in directory order
and returns at the first error). The next `Prepare` then makes the leftovers its
baseline (`baseline.rs:83-89`), so a later comparison can find no change, and a job
can end "done" with the memory that was to be wiped still in `MEMORY.md`. It is
cleared by the next baseline a consolidation moves and by the next complete
reset, and from then on the properties must hold again. A reset that fails
before it has deleted anything, keeps `.git`, or leaves inputs and artifacts in
agreement sets nothing and is not exempt.

`lapse` is set when a lease runs out, or a reset comes, under somebody at work. What happens then is real: the lease is confirmed and the baseline moved in
two steps, so a former owner can commit the new owner's files and a forgotten
memory can stay; and a session that claims the job between the two steps of a
reset ends "done", with its cooldown, over a directory that was wiped.

## 10. Runs

| run | configuration | bounds | shows |
|---|---|---|---|
| `pipeline` | `EventPipeline.cfg` | one thread, capacity 1, two requests, three notifications | safety and refinement when every queue is full after one message |
| `turns` | `EventPipelineTurns.cfg` | capacity 1, two turns, one request, one notification | replies to `send_message` under overload, with fairness |
| `live` | `EventPipelineLive.cfg` | capacity 1, two requests, two notifications | liveness of requests at any load, with fairness |
| `gate` | `PatchGate.cfg` | two parallel calls, two seconds, one outside checkout, timeouts and errors | the gate under every disturbance |
| `gate_consent` | `PatchGateConsent.cfg` | a serial and a parallel call, all policies, profiles (disk and network, each confined or open) and grants, git errors | approval, sandbox and retry, the lock, with fairness |
| `verdict` | `SubmitVerdict.cfg` | two calls, one with a large prompt, two verdicts, one edit of the settings | the nested runs, with fairness |
| `tool_calls` | `ToolCallRuntime.cfg` | a shell call, a serial call, one the registry rejects; both runtimes | outcomes and interrupts, with fairness |
| `session` | `SessionTurns.cfg` | two user messages, a mail, an injected item, an extension's item, two of which arrive; three turns, one abort | turns and input, with fairness |
| `turn_replaced` | `SessionTurnsReplaced.cfg` | two user messages and a mail, three turns | disagreement, section 12 |
| `startup` | `SessionStartup.cfg` | three submissions, two launches | session start, with fairness |
| `mem_extract` | `MemoryExtraction.cfg` | two threads, two sessions, cap 1, two retries, two versions, one fault, one act | phase 1, with fairness |
| `mem_consolidate` | `MemoryConsolidation.cfg` | one thread, two sessions, two versions, one fault, two acts | phase 2, with fairness |

`MCPatchGate.tla` gives values to the constants that a configuration file cannot
write. In `gate` the default branch has a slash in its name, in `gate_consent`
it has none.

Type invariants are proved for every module; the run of `SessionTurns` also checks
its own, because the range of its turn states is not obvious.

Why the bounds are enough to see the interesting cases. Capacity 1 makes every
queue full as soon as it holds one message, so two requests and three
notifications reach every overload branch, every blocked send and every
combination of two of them. Two requests are needed for an answer to be
confused with another's. A single thread suffices because threads meet only in
the callback map, where `threadOf` separates them, and the token refresher is a
second sender with requests of its own. In the gate, two calls are needed for
one to move HEAD under the other, and a serial beside a parallel one makes
readers and writers of the lock queue behind each other; two clock values give
both equal and different timestamps. Verdict calls meet only in the version cache
and in `config.toml`, where one writer and one reader, or two of a kind, are all there is to meet; one
edit makes their settings differ, and two verdicts make one mistaken for the
other visible. All counters that the program does not bound (`MaxRequests`,
`MaxNotes`, `MaxTurns`, `MaxClock`, `MaxCheckouts`, `MaxEdits`, `MaxInputs`,
`MaxAborts`, `MaxSubmits`, `MaxLaunches`, `MaxVersion`, `MaxFaults`, `MaxActs`) are
bounded in the guards.
The theorems of section 11 hold for every value of these constants.

Three tool calls, one of each kind, give every pair that meets in the lock. The
races of `SessionTurns` need three turns (one ending, one starting, one that
waits) and two inputs beside the abort. Three submissions let a wizard fail, be
repeated and change what an earlier one saved; a second launch reads what the
first left. In the memory modules two sessions are enough for a claim to be
taken over, a cap of one makes the second claim wait and leaves a thread out of
every full pass, two versions make a claim stale, and each fault (a crash, an error, a slow model) is one of the `MaxFaults`.
The longest runs are `gate_consent` (1.3 million states), `mem_extract` (870,000) and
`mem_consolidate` (480,000). The larger instances (two faults, two acts, two
threads in phase 2, more inputs and aborts in `SessionTurns`, up to 11 million
states) show the same safety properties and are too long to repeat in every
check.

Deadlock checking is off except in the two memory runs: with the counters at
their bounds and the user silent the system rests, as the program does. The one
circular wait the code has is named `MutualWait`, and it is an exception of the
liveness properties of `EventPipeline`. The memory runs never rest, since a
session may always start again.

Fairness. The tasks run on a tokio runtime, which polls every task that is
ready; so each task's step is weakly fair. The select loops have two branches
each and tokio chooses among ready branches at random, so each branch has its
own fairness condition. The tool lock is tokio's `RwLock`, which is fair to
its waiters. In `SubmitVerdict` the two timers (`--version` and the run) fire,
as tokio's do, and calls are polled; nested agents owe nothing, not even their
exit. In `ToolCallRuntime` a handler that does not wait for cancellation owes no
end; the others tear down once they are cancelled, and the grace timer fires. In
`SessionTurns` the model answers or fails. In `SessionStartup` wizard and core
threads go on. In the memory modules a pipeline that was started goes on,
requests and agents end, time passes for leases nobody renews, back-offs and
cooldowns, and sessions go on being started; the last is an assumption on the
user, without which nothing can be promised about work that only a start resumes.
Otherwise nothing is assumed of the user, of outside checkouts, of git's timeouts
or of the clock.

## 11. Proofs

Each proof module extends the module it is about. Assumptions on constants are
the named `ASSUME`s there; none bounds the number of threads, calls, requests
or the size of queues. Where a proof counts, the sets it counts over are finite
(`Threads` in `EventPipeline`, `Idles` in `SessionTurns`), as they are in any run of
the program.

`EventPipeline_proofs`:

* `TypeCorrect`: `TypeOK`, including that no queue exceeds its capacity.
* `PendingReachable` and `RejectionsPaired`, from the inductive invariant
  `ReachInv == TypeOK /\ RejectPairing /\ PendingIsReachable`. The pairing is
  needed because a reply that ended the wrong wait would let the app forget a
  request it has taken out of its queue.
* `ConsentIsTheUsers` and `ImplementsLedger`, from `LedgerInv == TypeOK /\
  PendingEntries /\ FreshIds /\ PatchOnly /\ ConsentTrail`: map keys are
  exactly the pending requests, unused ids are untouched, only patch requests
  get an accept, and each accept in a queue or a hand was clicked. The step
  part maps each action to a step of `RequestLedger` or to a stutter.
* `LagIsAccounted`: `LagAccounting` is inductive over the types.
* `OneCustody` (`SingleCustody`), from `CustodyInv`: the sum of the nine counts is at
  most one, it is zero for an id not issued yet, and what the runtime and the
  worker block on is never a request (`HandsHoldNotes`). Lemmas say what appending
  to a queue, taking its head and changing one hand do to a count; the tail shifts
  every position, so that one rests on a bijection. With them each action is shown
  not to raise the sum, except the issue of a new id.
* `AwaitedQueued` and `SentReachable`: `AwaitedIsQueued` and `SentIsReachable` are
  inductive over the types. Each step that takes a waiting call's message out of
  its place puts it in the next one or answers the call.

`PatchGate_proofs`:

* `TypeCorrect`, from `TypeInv == TypeOK /\ Grounded`: a call that may write has
  a recorded consent.
* `GateHolds` (`ProtectedWriteHasCause`), from `GateInv`, which adds that
  nothing is written before the gate is passed (`NothingEarly`), that a call
  past the gate with neither cause has an unprotected HEAD (`PassedIsSafe`), and
  that what a call in the gate has read is HEAD, or that HEAD is
  unprotected by now (`SeenIsRight`). The last part carries the argument that
  sibling gates, which only ever move HEAD to fresh branches, do no harm.
* `Consented` and `DeniedReadsHold`, from `ConsentInv`, which ties each point
  of the approval sequence to the consent it implies: an automatic approval under
  a managed profile means a patch inside the writable roots and a host that can
  sandbox it, so that it is boxed wherever `should_sandbox`.
* `BranchesAreDistinct`, from `BranchInv`: every branch a call made still exists,
  so `git checkout -b` cannot make it again.
* `OneBranchPerPatch` (`OnePatchOneBranch`), from `PlaceInv`, which adds to `GateInv`
  that a serial call under way is the only one under way (`Alone`), that a branch is
  made for a call only in the gate (`CreatedLate`), and that what a serial call past
  the gate has written or had created is still checked out (`StaysPut`). The lock
  alone does not give the last part: it needs the exemption of `stale` calls.

`SubmitVerdict_proofs`:

* `TypeCorrect`, from `TypeInv == TypeOK /\ Loaded /\ RunsLeft`: the bound on
  `attempt` needs that a call about to spawn has a run left.
* `VerdictEarned` and `ChildrenEnd`, from `VerdictInv`, which adds who may have
  a child (`Custody`), that a non-empty output belongs to the last child
  (`OutputIsOurs`), that a call reads only after a success (`ReadIsEarned`), and
  that nothing is returned early (`Unanswered`).
* `BillIsComplete`, from `BillInv`: at every point of a call that can still
  succeed, `tokens` is what was spent, less the run not yet collected
  (`Counted`).
* `ConfigIsWhole`, from `ConfigInv`: the file is never torn, exists once a call
  is past its rename, and holds what some call loaded.

`ToolCallRuntime_proofs`:

* `TypeCorrect`, and `NoWorkAfterReplyHolds` from `StoppedInv`: a waiter about to
  tell of the abort has seen its task end.
* `WriterRunsAloneHolds`, inductive over the types.
* `OneOutcomeHolds`, from `OutcomeInv`: `Route` says which way a waiter goes and
  who may have been aborted, `Owned` who has the outcome flag and what was told
  at each pair of points of task and waiter. `Owned` is needed for the arbitrated
  calls only; for the others it is false.

`SessionTurns_proofs`:

* `TypeCorrect`, from `Control == TypeOK /\ Kinds /\ News /\ Slots /\ TaskLives /\
  Paid`: which process can be at which point (`Kinds`), which turns are being
  started and by whom (`News`), who holds which turn state (`Slots`), where the
  installed task can be (`TaskLives`). That turn states stay in their range needs a
  count: each one handed out is paid for by a turn numbered, extended or
  installed, or by an item offered (`Paid`).
* `OneEndHolds`, from `EndInv`, which adds `Ends`: a cancelled turn that gets as far as
  its end took a task that was not its own, since whoever finds its own task
  there can no longer be cancelled.
* `OneRunsHolds`, from `RunInv`, which adds `Runs`: whatever runs is the active turn's
  task, or is cancelled or detached. `OneRuns` follows because there is one active
  turn.
* `InputKeptHolds`, from `KeepInv`: input is in a process's hands only between
  collecting and queueing it (`Carries`), a queue that is not empty belongs to a
  turn state that is active, being aborted or given up (`Queues`), and every accepted
  input is in one of the places named (`Kept`).

`SessionStartup_proofs`:

* `TypeCorrect`, `SessionBehindWizardHolds`, `SessionIsWhatWasSavedHolds` and
  `EnvKeyIsSessionsHolds`, from `IInv`: the wizard runs in an open wizard and has
  a key stored when it asks for a session (`WizardInv`), a living core belongs to
  setup or to the submission under way and has loaded what is stored
  (`CoresInv`), the managed core runs (`ManagedInv`), and the environment holds
  the key of a core that got past `build_config` (`EnvInv`).

`MemoryExtraction_proofs`:

* `TypeCorrect` and `FailuresBoundedHolds` from `RetryInv`: failures and retries
  left never exceed what was granted (`allowed`), no watermark exceeds the latest
  version ever claimed (`peak`), and a row below it has a refill in hand.
* `OutputIsLastSuccessHolds` and `ForgottenStaysForgottenHolds`, from `IInv`, which
  adds `ClaimInv`: a claim that the row still carries has the row's version and
  is newer than the stored output, and a claim from before a forgetting is never
  carried by the row.
* `LeasesBoundedHolds`: the claim counts the other live leases in its own
  transaction; finite cardinality does the rest.

`MemoryConsolidation_proofs`:

* `TypeCorrect`, and `OneWriterHolds` from `LockInv`: without a lapse, whoever is in
  the directory holds the row under a live lease.
* `BaselineIsDigestedHolds` and `DoneIsCleanHolds`, from `DirInv`: what each phase of
  the holder has established (`PhaseInv`), that the baseline is consolidated or
  the directory is (`GitInv`), and that a finished job left a clean directory and
  none finishes inside a reset (`DoneInv`). `GitInv` and `DoneInv` except a halved
  reset; `PhaseInv` must not, since it is what lets the move of the baseline end
  the exception.
* `FinishedByOwnerHolds`, an action property over the types.

Only model-checked: the liveness properties (`TurnReplied`, `UnsupportedAnswered`,
`ApprovalSurfaces`, `ClickSettles`, `QueuedIsAdmitted`, `CallReturns`,
`InterruptStopsTools`, `TurnEnds`, `MailDelivered`, `WizardSettles`, `ChatGetsSession`,
`ExtractionSettles`, `ForgottenLeavesArtifacts`). Liveness under fairness and
`ENABLED` are outside what the prover supports, as is induction over recursive
definitions (the modules have none).

## 12. Where code and documentation disagree

One disagreement has a run of its own, and an entry under "findings":

* `turn_replaced`: `start_task` asserts twice that no task is there when it installs
  one (`tasks/mod.rs:327,339`). The end of a turn reserves the session for waiting
  mail; before it installs its task the submission loop drops the reservation and
  installs the user's. Debug builds stop at the assertion; others replace the
  user's task, whose end is never reported.

The others are cases that the models contain. Where a property would fail on
them, it names them as its exception:

* The event loop waits for the worker, to reply to a rejection or to make room
  for it in the command queue, while the worker is blocked sending a lossless
  event to the event loop (`app-server-client/src/lib.rs:715`; `MutualWait`).
* The facade promises a lossless tier (`app-server-client/src/lib.rs:133-140`); the
  runtime in front of it drops transcript notifications when its queue is full
  (`app-server/src/in_process.rs:717`).
* The rejection of a dropped request is a `try_send` whose failure is ignored
  (`app-server-client/src/lib.rs:551`), so the server may wait although the
  comment at 172-173 says it will not (`leaked`).
* `git_safety.rs:1-2` says the gate keeps fixes off protected branches. The branch
  is checked before the approval, not after it (`stale`); of a default branch
  `release/1.0` only `1.0` is compared, and a git query that exceeds its five
  seconds is read as a detached HEAD (both `blind`).
* Two patches within one second ask for the same branch name and the second is
  refused (`git_safety.rs:47`). A declined patch leaves the user on the branch the
  gate made for it.
* The version cache of `submit_verdict` is empty until the first probe has
  returned, so each call of a parallel batch probes (`submit_verdict/mod.rs:414`).
* A negative timeout is saved as it is and panics when it is loaded
  (`gloscope-config/src/lib.rs:212`): in a core thread, which the wizard hears of,
  and in setup at every later launch.
* The doc of the contributors' hook (`contributors.rs:306`) promises an outcome for
  every call; a dropped turn, an unknown tool and a panic tell none.
* `memories/README.md:85` says only one consolidation inspects or mutates the
  workspace at a time; not when a lease runs out under a session at work (`lapse`).
* The deletion of a thread's memory (`state/src/runtime/threads.rs:1059-1061`) can be
  followed by a late claim that leaves an output without a thread.

## 13. Not modelled

* Shutdown of the pipeline and the closed-channel paths: the app lives until
  the process ends.
* The content of notifications and the translation of core events into them.
* Approvals cached for the session (the app answers only accept or decline),
  permission hooks, guardian and strict automatic review, network approvals,
  and the empty patch.
* Streaming from the model and the turn loop: their effect on the pipeline is
  the nondeterminism of the server tasks.
* Platform sandboxes: only whether an attempt runs inside one.
* The front end's rendering, the remote transport, the terminal UI, `exec` and
  the MCP server (not on the app's path), the legacy Python pipeline.
* In `submit_verdict`: the wording of prompts and the text fields of a verdict;
  the configured `verify_timeout`, which the tool does not read (its limit is a
  constant).
* In `SessionTurns`: queue-only mail, durable sleep, and review, compact and shell
  turns. In the memory modules: prompts, redaction, the ranking of memories (a
  nondeterministic choice), a session's own thread, the scan limit, extension
  resources, and a deleted thread's row coming back (its rollouts are removed before
  the row).
* `run_semgrep` and `triage`: pure filters over findings, planned, section 2.
