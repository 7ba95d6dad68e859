---------------------------- MODULE EventPipeline ----------------------------
(***************************************************************************)
(* The path between the agent core and the GloScope window, inside one     *)
(* process.  Six actors share five bounded queues of the same capacity:    *)
(*                                                                         *)
(*   server tasks --writer--> runtime --event--> worker --consumer--> app  *)
(*        ^                    |   ^               ^                   |   *)
(*        +--- processor <-----+   +---- client ---+---- command ------+   *)
(*                                                      (and the user)     *)
(*                                                                         *)
(*   server tasks  one thread-listener task per conversation thread        *)
(*                 (bespoke_event_handling.rs), the token refresher        *)
(*                 (external_auth.rs) and the message processor, all       *)
(*                 sending through OutgoingMessageSender                   *)
(*   runtime       the select loop of app-server/src/in_process.rs         *)
(*   worker        the facade task of app-server-client/src/lib.rs         *)
(*   app           run_event_loop of gloscope-app                          *)
(*   user          the Tauri commands send_message and                     *)
(*                 respond_to_patch_approval                               *)
(*                                                                         *)
(* An action is what one task does between two awaits.  A task blocked in  *)
(* `send(..).await` keeps the message in its hand: hand[s], runtimeHand,   *)
(* workerHand.  `try_send` never blocks and may fail.                      *)
(***************************************************************************)
EXTENDS Integers, Sequences, FiniteSets

CONSTANTS Threads,      \* conversation threads, each with its listener task
          Cap,          \* channel_capacity.max(1), the same for every queue
          MaxRequests,  \* bound: server requests issued
          MaxNotes,     \* bound: notifications emitted
          MaxTurns      \* bound: send_message calls

ASSUME CapAssumption == Cap \in Nat \ {0}
ASSUME BoundAssumption == MaxRequests \in Nat /\ MaxNotes \in Nat /\ MaxTurns \in Nat
ASSUME ThreadAssumption == IsFiniteSet(Threads) /\ {"auth", "processor"} \cap Threads = {}

Senders == Threads \cup {"auth", "processor"}
RequestIds == 1..MaxRequests
Turns == 1..MaxTurns

\* FileChangeRequestApproval, ChatgptAuthTokensRefresh, every other variant.
Kinds == {"patch", "auth", "other"}

(***************************************************************************)
(* Notification classes.  "must": TurnCompleted, ThreadSettingsUpdated,    *)
(* ExternalAgentConfigImportCompleted.  "transcript": ItemCompleted and    *)
(* the text deltas.  "best": everything else.  The runtime and the facade  *)
(* each have their own server_notification_requires_delivery.              *)
(***************************************************************************)
NoteClasses == {"must", "transcript", "best"}
RuntimeRequiresDelivery(c) == c = "must"
ClientRequiresDelivery(c) == c \in {"must", "transcript"}

\* What the oneshot of a server request ends up holding.
Settlements == {"accept", "decline", "error", "cancelled"}

\* Every message is a tag and a number: a request id, a turn id, or the
\* number of skipped events of a Lagged marker.
Message(t, n) == [type |-> t, id |-> n]
EventTypes == {"req", "resp", "lagged"} \cup NoteClasses
Events == [type : EventTypes, id : Nat]
NoMsg == Message("none", 0)
ClientMessages == [type : {"turn", "accept", "decline", "error"}, id : Nat]

VARIABLES
  nextId,      \* next_server_request_id
  callback,    \* keys of request_id_to_callback
  kindOf,      \* the stored PendingCallbackEntry.request
  threadOf,    \* the stored PendingCallbackEntry.thread_id (or "auth")
  outcome,     \* what each request's oneshot received
  hand,        \* message each server task is sending (NoMsg: none)
  writer,      \* outgoing queue, router and writer queue
  runtimeHand, \* notification the runtime is blocked sending
  event,       \* runtime -> worker
  workerHand,  \* lossless event the worker is blocked sending
  skipped,     \* skipped_events of the worker
  consumer,    \* worker -> app
  rejecting,   \* request the app rejects (0: none)
  awaiting,    \* request whose rejection is queued, its reply awaited (0: none)
  pendingApprovals, \* AppState.pending_patch_approvals
  responding,  \* respond_to_patch_approval calls queueing their command
  command,     \* app and user -> worker
  client,      \* worker and detached request tasks -> runtime
  turn,        \* state of each send_message call
  detached,    \* request tasks spawned by the worker, before their try_send
  processor,   \* runtime -> message processor
  notes        \* notifications emitted so far

\* History: what the program knows at some point and then forgets.
VARIABLES
  accepted,    \* requests the user clicked Accept on
  leaked,      \* per request: where its only answer was lost to a failed try_send
  owed         \* events taken by the worker and neither delivered nor announced

serverVars == <<nextId, callback, kindOf, threadOf, outcome, hand, notes>>
runtimeVars == <<runtimeHand, event, processor>>
workerVars == <<workerHand, skipped, consumer, detached, owed>>
appVars == <<rejecting, awaiting, pendingApprovals>>
userVars == <<responding, accepted>>
vars == <<serverVars, writer, runtimeVars, workerVars, appVars, userVars,
          command, client, turn, leaked>>

Init ==
  /\ nextId = 1
  /\ callback = {}
  /\ kindOf = [r \in RequestIds |-> "none"]
  /\ threadOf = [r \in RequestIds |-> "none"]
  /\ outcome = [r \in RequestIds |-> "unsent"]
  /\ hand = [s \in Senders |-> NoMsg]
  /\ writer = <<>> /\ event = <<>> /\ consumer = <<>>
  /\ command = <<>> /\ client = <<>> /\ processor = <<>>
  /\ runtimeHand = NoMsg /\ workerHand = NoMsg
  /\ skipped = 0 /\ owed = 0 /\ notes = 0
  /\ rejecting = 0 /\ awaiting = 0
  /\ pendingApprovals = {} /\ accepted = {}
  /\ leaked = [r \in RequestIds |-> "no"]
  /\ responding = [r \in RequestIds |-> "none"]
  /\ turn = [t \in Turns |-> "idle"]
  /\ detached = {}
-----------------------------------------------------------------------------
(* OutgoingMessageSender.                                                  *)

\* The router only moves envelopes from the outgoing queue to the writer
\* queue, holding one in its hand: together a FIFO of this capacity.
OutboundCap == 2 * Cap + 1

\* Seeded fault: the entry is answered without looking it up.
answer_without_lookup(r, result) ==
  /\ callback' = callback \ {r}
  /\ outcome' = [outcome EXCEPT ![r] = result]

\* Seeded fault: the entry stays in the map after it is answered.
answer_without_removal(r, result) ==
  /\ callback' = callback
  /\ outcome' = [outcome EXCEPT ![r] = IF r \in callback THEN result ELSE @]

\* take_request_callback, then callback.send(result): an id whose entry is
\* gone is only logged.
take_request_callback(r, result) ==
  /\ callback' = callback \ {r}
  /\ outcome' = [outcome EXCEPT ![r] = IF r \in callback THEN result ELSE @]

\* The entry is in the map before the (possibly blocking) send.
send_request_to_connections(s, k) ==
  /\ s # "processor"
  /\ hand[s] = NoMsg
  /\ nextId <= MaxRequests
  /\ k \in (IF s = "auth" THEN {"auth"} ELSE {"patch", "other"})
  /\ nextId' = nextId + 1
  /\ callback' = callback \cup {nextId}
  /\ kindOf' = [kindOf EXCEPT ![nextId] = k]
  /\ threadOf' = [threadOf EXCEPT ![nextId] = s]
  /\ outcome' = [outcome EXCEPT ![nextId] = "pending"]
  /\ hand' = [hand EXCEPT ![s] = Message("req", nextId)]
  /\ UNCHANGED <<notes, writer, runtimeVars, workerVars, appVars, userVars,
                 command, client, turn, leaked>>

send_server_notification(s, c) ==
  /\ s \in Threads
  /\ hand[s] = NoMsg
  /\ notes < MaxNotes
  /\ notes' = notes + 1
  /\ hand' = [hand EXCEPT ![s] = Message(c, 0)]
  /\ UNCHANGED <<nextId, callback, kindOf, threadOf, outcome, writer, runtimeVars,
                 workerVars, appVars, userVars, command, client, turn, leaked>>

\* cancel_requests_for_thread: drain and fail the thread's own entries.
cancel_requests_for_thread(s) ==
  LET mine == {r \in callback : threadOf[r] = s}
  IN  /\ callback' = callback \ mine
      /\ outcome' = [r \in RequestIds |-> IF r \in mine THEN "cancelled" ELSE outcome[r]]

\* TurnStarted (c = "best") or TurnComplete / TurnAborted (c = "must"): abort
\* the thread's pending requests, then notify.
turn_transition(s, c) ==
  /\ s \in Threads
  /\ c \in {"must", "best"}
  /\ hand[s] = NoMsg
  /\ notes < MaxNotes
  /\ notes' = notes + 1
  /\ cancel_requests_for_thread(s)
  /\ hand' = [hand EXCEPT ![s] = Message(c, 0)]
  /\ UNCHANGED <<nextId, kindOf, threadOf, writer, runtimeVars, workerVars, appVars,
                 userVars, command, client, turn, leaked>>

\* The refresher gives up waiting: cancel_request drops the entry.
auth_refresh_timeout(r) ==
  /\ r \in callback /\ kindOf[r] = "auth" /\ hand["auth"] = NoMsg
  /\ take_request_callback(r, "cancelled")
  /\ UNCHANGED <<nextId, kindOf, threadOf, hand, notes, writer, runtimeVars, workerVars,
                 appVars, userVars, command, client, turn, leaked>>

\* The blocked `sender.send(envelope).await` of a server task completes.
outgoing_send(s) ==
  /\ hand[s] # NoMsg
  /\ Len(writer) < OutboundCap
  /\ writer' = Append(writer, hand[s])
  /\ hand' = [hand EXCEPT ![s] = NoMsg]
  /\ UNCHANGED <<nextId, callback, kindOf, threadOf, outcome, notes, runtimeVars,
                 workerVars, appVars, userVars, command, client, turn, leaked>>

\* The processor handles turn/start and answers it.
process_client_request ==
  /\ processor # <<>>
  /\ hand["processor"] = NoMsg
  /\ processor' = Tail(processor)
  /\ hand' = [hand EXCEPT !["processor"] = Message("resp", Head(processor))]
  /\ UNCHANGED <<nextId, callback, kindOf, threadOf, outcome, notes, writer, runtimeHand,
                 event, workerVars, appVars, userVars, command, client, turn, leaked>>
-----------------------------------------------------------------------------
(* The runtime's select loop: writer_rx and client_rx branches.            *)

RuntimeTakes(t) == runtimeHand = NoMsg /\ writer # <<>> /\ Head(writer).type \in t

\* OutgoingMessage::Response or Error: answer the waiting client request; a
\* response nobody waits for is dropped.
runtime_response ==
  /\ RuntimeTakes({"resp"})
  /\ writer' = Tail(writer)
  /\ turn' = [turn EXCEPT ![Head(writer).id] = IF @ = "sent" THEN "ok" ELSE @]
  /\ UNCHANGED <<serverVars, runtimeVars, workerVars, appVars, userVars, command,
                 client, leaked>>

\* OutgoingMessage::Request: try_send; when the queue is full the runtime
\* itself answers with an overload error.
runtime_request ==
  /\ RuntimeTakes({"req"})
  /\ writer' = Tail(writer)
  /\ \/ /\ Len(event) < Cap
        /\ event' = Append(event, Head(writer))
        /\ UNCHANGED <<callback, outcome>>
     \/ /\ Len(event) = Cap
        /\ take_request_callback(Head(writer).id, "error")
        /\ UNCHANGED event
  /\ UNCHANGED <<nextId, kindOf, threadOf, hand, notes, runtimeHand, processor, workerVars,
                 appVars, userVars, command, client, turn, leaked>>

\* OutgoingMessage::AppServerNotification: blocking send for the classes
\* that require delivery, try_send for the rest; a full queue drops those.
runtime_notification ==
  /\ RuntimeTakes(NoteClasses)
  /\ writer' = Tail(writer)
  /\ \/ /\ RuntimeRequiresDelivery(Head(writer).type)
        /\ runtimeHand' = Head(writer)
        /\ UNCHANGED event
     \/ /\ ~RuntimeRequiresDelivery(Head(writer).type)
        /\ Len(event) < Cap
        /\ event' = Append(event, Head(writer))
        /\ UNCHANGED runtimeHand
     \/ /\ ~RuntimeRequiresDelivery(Head(writer).type)
        /\ Len(event) = Cap
        /\ UNCHANGED <<runtimeHand, event>>
  /\ UNCHANGED <<serverVars, processor, workerVars, appVars, userVars, command, client,
                 turn, leaked>>

\* The runtime's blocked event_tx.send(..).await completes.
runtime_event_send ==
  /\ runtimeHand # NoMsg
  /\ Len(event) < Cap
  /\ event' = Append(event, runtimeHand)
  /\ runtimeHand' = NoMsg
  /\ UNCHANGED <<serverVars, writer, processor, workerVars, appVars, userVars, command,
                 client, turn, leaked>>

\* ServerRequestResponse / ServerRequestError from the client side.
runtime_server_request_answer ==
  /\ runtimeHand = NoMsg
  /\ client # <<>>
  /\ Head(client).type # "turn"
  /\ client' = Tail(client)
  /\ take_request_callback(Head(client).id, Head(client).type)
  /\ UNCHANGED <<nextId, kindOf, threadOf, hand, notes, writer, runtimeVars, workerVars,
                 appVars, userVars, command, turn, leaked>>

\* Seeded fault: the request is dropped as a notification would be.
overload_silently(t) == UNCHANGED turn

\* The caller's oneshot gets the overload error.
reply_overloaded(t) == turn' = [turn EXCEPT ![t] = "error"]

\* InProcessClientMessage::Request: hand it to the processor, or answer
\* with an overload error when the processor's queue is full.
runtime_client_request ==
  /\ runtimeHand = NoMsg
  /\ client # <<>>
  /\ Head(client).type = "turn"
  /\ client' = Tail(client)
  /\ \/ /\ Len(processor) < Cap
        /\ processor' = Append(processor, Head(client).id)
        /\ UNCHANGED turn
     \/ /\ Len(processor) = Cap
        /\ reply_overloaded(Head(client).id)
        /\ UNCHANGED processor
  /\ UNCHANGED <<serverVars, writer, runtimeHand, event, workerVars, appVars, userVars,
                 command, leaked>>
-----------------------------------------------------------------------------
(* The facade worker: its command branch and its event branch.  Neither    *)
(* branch is polled while the worker is blocked on a lossless event.       *)

\* Which of its callers lost the answer to a failed try_send.
LeakSites == {"resolve", "reject", "auth", "overflow"}

\* try_send_client_message for the answer a to request r: a full queue
\* returns WouldBlock, and no caller tries again.
try_send_answer(r, a, site) ==
  \/ /\ Len(client) < Cap
     /\ client' = Append(client, Message(a, r))
     /\ UNCHANGED leaked
  \/ /\ Len(client) = Cap
     /\ leaked' = [leaked EXCEPT ![r] = site]
     /\ UNCHANGED client

WorkerReady == workerHand = NoMsg

\* ClientCommand::Request: the wait happens on a detached task.
worker_request ==
  /\ WorkerReady
  /\ command # <<>>
  /\ Head(command).type = "turn"
  /\ command' = Tail(command)
  /\ detached' = detached \cup {Head(command).id}
  /\ UNCHANGED <<serverVars, writer, runtimeVars, workerHand, skipped, consumer, owed,
                 appVars, userVars, client, turn, leaked>>

\* InProcessClientSender::request on that task.
detached_request(t) ==
  /\ t \in detached
  /\ detached' = detached \ {t}
  /\ \/ /\ Len(client) < Cap
        /\ client' = Append(client, Message("turn", t))
        /\ UNCHANGED turn
     \/ /\ Len(client) = Cap
        /\ turn' = [turn EXCEPT ![t] = "error"]
        /\ UNCHANGED client
  /\ UNCHANGED <<serverVars, writer, runtimeVars, workerHand, skipped, consumer, owed,
                 appVars, userVars, command, leaked>>

\* ClientCommand::ResolveServerRequest, queued by respond_to_patch_approval.
worker_resolve ==
  /\ WorkerReady
  /\ command # <<>>
  /\ Head(command).type \in {"accept", "decline"}
  /\ command' = Tail(command)
  /\ try_send_answer(Head(command).id, Head(command).type, "resolve")
  /\ UNCHANGED <<serverVars, writer, runtimeVars, workerVars, appVars, userVars, turn>>

\* response_tx.send(send_result): whatever it says, the app's wait ends.
reply_to_app == rejecting' = 0 /\ awaiting' = 0

\* ClientCommand::RejectServerRequest, queued by the app.
worker_reject ==
  /\ WorkerReady
  /\ command # <<>>
  /\ Head(command).type = "error"
  /\ command' = Tail(command)
  /\ try_send_answer(Head(command).id, "error", "reject")
  /\ reply_to_app
  /\ UNCHANGED <<serverVars, writer, runtimeVars, workerVars, pendingApprovals, userVars,
                 turn>>

WorkerTakes == WorkerReady /\ event # <<>>

IsAuthRefresh(m) == m.type = "req" /\ kindOf[m.id] = "auth"

\* Token refreshes are rejected on the spot and never forwarded.
worker_reject_auth ==
  /\ WorkerTakes
  /\ IsAuthRefresh(Head(event))
  /\ event' = Tail(event)
  /\ try_send_answer(Head(event).id, "error", "auth")
  /\ UNCHANGED <<serverVars, writer, runtimeHand, processor, workerVars, appVars, userVars,
                 command, turn>>

\* forward_in_process_event, lossless tier: the event stays in the worker's
\* hand until forward_send has put it in the consumer queue.
forward_lossless ==
  /\ WorkerTakes
  /\ ClientRequiresDelivery(Head(event).type)
  /\ event' = Tail(event)
  /\ workerHand' = Head(event)
  /\ owed' = owed + 1
  /\ UNCHANGED <<serverVars, writer, runtimeHand, processor, skipped, consumer, detached,
                 appVars, userVars, command, client, turn, leaked>>

\* The blocking sends of the lossless tier: first the Lagged marker when
\* events were skipped, then the event itself.
forward_send ==
  /\ workerHand # NoMsg
  /\ Len(consumer) < Cap
  /\ \/ /\ skipped > 0
        /\ consumer' = Append(consumer, Message("lagged", skipped))
        /\ owed' = owed - skipped
        /\ skipped' = 0
        /\ UNCHANGED workerHand
     \/ /\ skipped = 0
        /\ consumer' = Append(consumer, workerHand)
        /\ owed' = owed - 1
        /\ workerHand' = NoMsg
        /\ UNCHANGED skipped
  /\ UNCHANGED <<serverVars, writer, runtimeVars, detached, appVars, userVars, command,
                 client, turn, leaked>>

\* Seeded fault: the dropped event is not looked at.
drop_without_reject(m) == UNCHANGED <<client, leaked>>

\* A dropped server request is rejected on the spot.
reject_dropped(m) ==
  IF m.type = "req" THEN try_send_answer(m.id, "error", "overflow")
                    ELSE UNCHANGED <<client, leaked>>

\* Seeded fault: the counter restarts although no marker was sent.
skipped_forgets(markerSent) == 1

\* skipped_events after one more drop, with or without a marker just sent.
skipped_after_drop(markerSent) == IF markerSent THEN 1 ELSE skipped + 1

\* forward_in_process_event, best-effort tier, all within one poll: flush
\* the marker if one is due and fits, then the event if it fits; otherwise
\* count the event, and reject it when it is a server request.
forward_best_effort ==
  /\ WorkerTakes
  /\ ~ClientRequiresDelivery(Head(event).type)
  /\ ~IsAuthRefresh(Head(event))
  /\ event' = Tail(event)
  /\ LET fits == Len(consumer) < Cap
         marked == fits /\ skipped > 0
         flushed == IF marked THEN Append(consumer, Message("lagged", skipped)) ELSE consumer
     IN  \/ /\ Len(flushed) < Cap
            /\ consumer' = Append(flushed, Head(event))
            /\ skipped' = 0
            /\ owed' = owed - skipped
            /\ UNCHANGED <<client, leaked>>
         \/ /\ Len(flushed) = Cap
            /\ consumer' = flushed
            /\ skipped' = skipped_after_drop(marked)
            /\ owed' = IF marked THEN owed + 1 - skipped ELSE owed + 1
            /\ reject_dropped(Head(event))
  /\ UNCHANGED <<serverVars, writer, runtimeHand, processor, workerHand, detached, appVars,
                 userVars, command, turn>>
-----------------------------------------------------------------------------
(* run_event_loop, and the Tauri commands.                                 *)

AppTakes == rejecting = 0 /\ consumer # <<>>

\* Notifications are emitted to the window, Lagged markers are printed.
app_notification ==
  /\ AppTakes
  /\ Head(consumer).type # "req"
  /\ consumer' = Tail(consumer)
  /\ UNCHANGED <<serverVars, writer, runtimeVars, workerHand, skipped, detached, owed,
                 appVars, userVars, command, client, turn, leaked>>

\* Seeded fault: the window is told, but nothing is kept for its answer.
show_only(r) == pendingApprovals

park(r) == pendingApprovals \cup {r}

\* A patch approval is parked for the user; anything else is to be rejected.
app_server_request ==
  /\ AppTakes
  /\ Head(consumer).type = "req"
  /\ consumer' = Tail(consumer)
  /\ \/ /\ kindOf[Head(consumer).id] = "patch"
        /\ pendingApprovals' = park(Head(consumer).id)
        /\ UNCHANGED rejecting
     \/ /\ kindOf[Head(consumer).id] # "patch"
        /\ rejecting' = Head(consumer).id
        /\ UNCHANGED pendingApprovals
  /\ UNCHANGED <<serverVars, writer, runtimeVars, workerHand, skipped, detached, owed,
                 awaiting, userVars, command, client, turn, leaked>>

\* client.reject_server_request(..).await queues its command; the app then
\* awaits the worker's reply before it takes the next event.
app_reject_send ==
  /\ rejecting # 0 /\ awaiting = 0
  /\ Len(command) < Cap
  /\ command' = Append(command, Message("error", rejecting))
  /\ awaiting' = rejecting
  /\ UNCHANGED <<serverVars, writer, runtimeVars, workerVars, rejecting, pendingApprovals,
                 userVars, client, turn, leaked>>

decision(accept) == IF accept THEN "accept" ELSE "decline"

\* Seeded fault: the entry is read but not removed.
approvals_kept(r) == pendingApprovals

approvals_without(r) == pendingApprovals \ {r}

\* The user's click: the entry leaves pending_patch_approvals first.
respond_to_patch_approval(r, accept) ==
  /\ r \in pendingApprovals
  /\ pendingApprovals' = approvals_without(r)
  /\ responding' = [responding EXCEPT ![r] = decision(accept)]
  /\ accepted' = IF accept THEN accepted \cup {r} ELSE accepted
  /\ UNCHANGED <<serverVars, writer, runtimeVars, workerVars, rejecting, awaiting, command,
                 client, turn, leaked>>

\* ... then its command is queued.
resolve_server_request(r) ==
  /\ responding[r] # "none"
  /\ Len(command) < Cap
  /\ command' = Append(command, Message(responding[r], r))
  /\ responding' = [responding EXCEPT ![r] = "none"]
  /\ UNCHANGED <<serverVars, writer, runtimeVars, workerVars, appVars, accepted, client,
                 turn, leaked>>

send_message(t) ==
  /\ turn[t] = "idle"
  /\ Len(command) < Cap
  /\ command' = Append(command, Message("turn", t))
  /\ turn' = [turn EXCEPT ![t] = "sent"]
  /\ UNCHANGED <<serverVars, writer, runtimeVars, workerVars, appVars, userVars, client,
                 leaked>>
-----------------------------------------------------------------------------
ServerNext ==
  \/ \E s \in Senders, k \in Kinds : send_request_to_connections(s, k)
  \/ \E s \in Threads, c \in NoteClasses : send_server_notification(s, c)
  \/ \E s \in Threads, c \in NoteClasses : turn_transition(s, c)
  \/ \E r \in RequestIds : auth_refresh_timeout(r)
  \/ \E s \in Senders : outgoing_send(s)
  \/ process_client_request

RuntimeNext ==
  \/ runtime_response
  \/ runtime_request
  \/ runtime_notification
  \/ runtime_event_send
  \/ runtime_server_request_answer
  \/ runtime_client_request

WorkerNext ==
  \/ worker_request
  \/ \E t \in Turns : detached_request(t)
  \/ worker_resolve
  \/ worker_reject
  \/ worker_reject_auth
  \/ forward_lossless
  \/ forward_send
  \/ forward_best_effort

AppNext ==
  \/ app_notification
  \/ app_server_request
  \/ app_reject_send

UserNext ==
  \/ \E r \in RequestIds, accept \in BOOLEAN : respond_to_patch_approval(r, accept)
  \/ \E r \in RequestIds : resolve_server_request(r)
  \/ \E t \in Turns : send_message(t)

Next == ServerNext \/ RuntimeNext \/ WorkerNext \/ AppNext \/ UserNext

Spec == Init /\ [][Next]_vars

(***************************************************************************)
(* Every task that can run is eventually polled: tokio wakes a task whose  *)
(* channel became ready, and select! picks among its ready branches at     *)
(* random.  Nothing obliges the server to issue requests, nor the user to  *)
(* click or type.                                                          *)
(***************************************************************************)
Fairness ==
  /\ \A s \in Senders : WF_vars(outgoing_send(s))
  /\ WF_vars(process_client_request)
  /\ WF_vars(runtime_response \/ runtime_request \/ runtime_notification)
  /\ WF_vars(runtime_event_send)
  /\ WF_vars(runtime_server_request_answer \/ runtime_client_request)
  /\ WF_vars(worker_request \/ worker_resolve \/ worker_reject)
  /\ \A t \in Turns : WF_vars(detached_request(t))
  /\ WF_vars(worker_reject_auth \/ forward_lossless \/ forward_best_effort)
  /\ WF_vars(forward_send)
  /\ WF_vars(AppNext)
  /\ \A r \in RequestIds : WF_vars(resolve_server_request(r))

FairSpec == Spec /\ Fairness
-----------------------------------------------------------------------------
\* Types of the server's and the user's state ...
ServerTypeOK ==
  /\ nextId \in Nat \ {0}
  /\ callback \subseteq RequestIds
  /\ kindOf \in [RequestIds -> Kinds \cup {"none"}]
  /\ threadOf \in [RequestIds -> Senders \cup {"none"}]
  /\ outcome \in [RequestIds -> Settlements \cup {"unsent", "pending"}]
  /\ hand \in [Senders -> Events \cup {NoMsg}]
  /\ notes \in Nat

UserTypeOK ==
  /\ pendingApprovals \subseteq Nat
  /\ responding \in [RequestIds -> {"none", "accept", "decline"}]
  /\ accepted \subseteq Nat
  /\ turn \in [Turns -> {"idle", "sent", "ok", "error"}]

\* ... of the queues, none of which exceeds its capacity ...
QueueTypeOK ==
  /\ writer \in Seq(Events) /\ Len(writer) <= OutboundCap
  /\ event \in Seq(Events) /\ Len(event) <= Cap
  /\ consumer \in Seq(Events) /\ Len(consumer) <= Cap
  /\ command \in Seq(ClientMessages) /\ Len(command) <= Cap
  /\ client \in Seq(ClientMessages) /\ Len(client) <= Cap
  /\ processor \in Seq(Nat) /\ Len(processor) <= Cap

\* ... and of what the runtime, the worker and the app hold.
TaskTypeOK ==
  /\ runtimeHand \in Events \cup {NoMsg}
  /\ workerHand \in Events \cup {NoMsg}
  /\ skipped \in Nat /\ owed \in Int
  /\ rejecting \in Nat
  /\ awaiting \in Nat
  /\ detached \subseteq Nat
  /\ leaked \in [RequestIds -> LeakSites \cup {"no"}]

(***************************************************************************)
(* The type invariant.  Its substance is the bounds: whatever the actors   *)
(* do, no queue ever holds more than its mpsc channel can.                 *)
(***************************************************************************)
TypeOK == ServerTypeOK /\ UserTypeOK /\ QueueTypeOK /\ TaskTypeOK

\* Message m is somewhere in queue q.
InQueue(m, q) == \E i \in 1..Len(q) : q[i] = m

\* Where a server request can be on its way to an answer: travelling as a
\* request, held by the app or the user, or travelling back as an answer.
AnswerTypes == {"accept", "decline", "error"}
Carried(r) ==
  \/ \E s \in Senders : hand[s] = Message("req", r)
  \/ InQueue(Message("req", r), writer)
  \/ InQueue(Message("req", r), event)
  \/ InQueue(Message("req", r), consumer)
  \/ rejecting = r /\ awaiting = 0
  \/ r \in pendingApprovals
  \/ responding[r] # "none"
  \/ \E a \in AnswerTypes : InQueue(Message(a, r), command) \/ InQueue(Message(a, r), client)

(***************************************************************************)
(* No server request is forgotten: as long as the server waits for an      *)
(* answer, the request or its answer is in some queue or hand, unless the  *)
(* answer was lost to a full client queue (leaked).   Drops on the way    *)
(* (runtime and worker queues full) therefore always come with an answer.  *)
(***************************************************************************)
PendingIsReachable == \A r \in callback : leaked[r] = "no" => Carried(r)

(***************************************************************************)
(* The reply the worker sends for a rejection reaches the wait it belongs  *)
(* to: a queued rejection is the one the app awaits, and there is at most  *)
(* one.  Without this, ending the app's wait could forget a request that   *)
(* the app has taken and not yet rejected.                                 *)
(***************************************************************************)
RejectPairing ==
  /\ awaiting # 0 => awaiting = rejecting
  /\ \A i \in 1..Len(command) :
       command[i].type = "error" => awaiting # 0 /\ command[i].id = awaiting
  /\ \A i, j \in 1..Len(command) :
       command[i].type = "error" /\ command[j].type = "error" => i = j

(***************************************************************************)
(* The other direction: the app never awaits a reply that cannot come.     *)
(* While it waits, its rejection is in the command queue, where only a     *)
(* blocked worker (MutualWait) leaves it.                                  *)
(***************************************************************************)
AwaitedIsQueued == awaiting # 0 => InQueue(Message("error", awaiting), command)

(***************************************************************************)
(* No send_message call is forgotten: while it waits for a reply, its      *)
(* request or the response to it is in some queue or hand.  Whoever drops  *)
(* one of them answers the call.                                           *)
(***************************************************************************)
TurnCarried(t) ==
  \/ InQueue(Message("turn", t), command)
  \/ t \in detached
  \/ InQueue(Message("turn", t), client)
  \/ InQueue(t, processor)
  \/ hand["processor"] = Message("resp", t)
  \/ InQueue(Message("resp", t), writer)
SentIsReachable == \A t \in Turns : turn[t] = "sent" => TurnCarried(t)

(***************************************************************************)
(* A request is never in two places: it cannot be rejected by the worker   *)
(* and still reach the user, nor be answered twice from the client side.   *)
(***************************************************************************)
Copies(m, q) == Cardinality({i \in 1..Len(q) : q[i] = m})
AnswerCopies(r, q) == Cardinality({i \in 1..Len(q) : q[i].id = r /\ q[i].type \in AnswerTypes})
SingleCustody ==
  \A r \in RequestIds :
    Cardinality({s \in Senders : hand[s] = Message("req", r)})
    + Copies(Message("req", r), writer) + Copies(Message("req", r), event)
    + Copies(Message("req", r), consumer)
    + Cardinality({r} \cap pendingApprovals)
    + (IF rejecting = r /\ awaiting = 0 THEN 1 ELSE 0)
    + (IF responding[r] # "none" THEN 1 ELSE 0)
    + AnswerCopies(r, command) + AnswerCopies(r, client) <= 1

(***************************************************************************)
(* A patch goes through only on the user's own click: a request settled    *)
(* with "accept" is a patch approval that the user accepted.  Overload     *)
(* rejections, turn transitions and late answers never turn into consent.  *)
(***************************************************************************)
AcceptedByUser ==
  \A r \in RequestIds : outcome[r] = "accept" => r \in accepted /\ kindOf[r] = "patch"

(***************************************************************************)
(* Lag accounting: every event the worker took from the runtime is in the  *)
(* consumer queue, announced by a Lagged marker, counted in skipped_events *)
(* or in the worker's hand.  The consumer can always tell how much it      *)
(* missed from the worker.                                                 *)
(***************************************************************************)
LagAccounting == owed = skipped + (IF workerHand = NoMsg THEN 0 ELSE 1)

(***************************************************************************)
(* The pipeline implements RequestLedger: settled at most once, with       *)
(* consent only from the user, across overloads, cancellations by a turn   *)
(* transition, timeouts and answers that arrive late.                      *)
(***************************************************************************)
Ledger == INSTANCE RequestLedger
            WITH outcome <- outcome, accepted <- accepted, MaxRequests <- MaxRequests
LedgerSpec == Ledger!Spec

\* The app waits for the worker, to reply to its rejection or to make room
\* for it, and the worker waits for the app to make room for an event.
MutualWait ==
  /\ rejecting # 0 /\ (awaiting # 0 \/ Len(command) = Cap)
  /\ workerHand # NoMsg /\ Len(consumer) = Cap
-----------------------------------------------------------------------------
(* Liveness, at any load: the only ways out are the mutual wait above and,  *)
(* for answers, a client queue that was full when the answer was sent.      *)

\* A request the app does not support is answered without the user.
UnsupportedAnswered ==
  \A r \in RequestIds :
    (r \in callback /\ kindOf[r] # "patch") ~> (r \notin callback \/ leaked[r] # "no" \/ MutualWait)

\* A patch approval reaches the user, or is settled because it was dropped
\* on the way or its turn ended.
ApprovalSurfaces ==
  \A r \in RequestIds :
    (r \in callback /\ kindOf[r] = "patch") ~>
      (r \notin callback \/ r \in pendingApprovals \/ leaked[r] # "no" \/ MutualWait)

\* A click settles its request.
ClickSettles ==
  \A r \in RequestIds :
    (responding[r] # "none") ~> (r \notin callback \/ leaked[r] # "no" \/ MutualWait)

\* Every send_message call gets a reply, if only an overload error.
TurnReplied ==
  \A t \in Turns : (turn[t] = "sent") ~> (turn[t] \in {"ok", "error"} \/ MutualWait)
=============================================================================
