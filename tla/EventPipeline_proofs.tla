------------------------ MODULE EventPipeline_proofs ------------------------
(***************************************************************************)
(* Machine-checked proofs about EventPipeline, for every set of threads,   *)
(* every queue capacity and every bound.                                   *)
(***************************************************************************)
EXTENDS EventPipeline, SequenceTheorems, FiniteSetTheorems, TLAPS

\* Taking the head of a queue, and adding to its end, keep it a queue.
LEMMA QueueTail ==
  ASSUME NEW S, NEW q \in Seq(S), q # <<>>
  PROVE  /\ Head(q) \in S
         /\ Tail(q) \in Seq(S)
         /\ Len(Tail(q)) = Len(q) - 1
         /\ Len(q) \in Nat \ {0}
  BY HeadTailProperties, EmptySeq, LenProperties

LEMMA QueueAppend ==
  ASSUME NEW S, NEW q \in Seq(S), NEW e \in S
  PROVE  /\ Append(q, e) \in Seq(S)
         /\ Len(Append(q, e)) = Len(q) + 1
         /\ Len(q) \in Nat
  BY AppendProperties, LenProperties

LEMMA BoundedAppend ==
  ASSUME NEW S, NEW q \in Seq(S), NEW e \in S, NEW n \in Nat, Len(q) < n
  PROVE  Append(q, e) \in Seq(S) /\ Len(Append(q, e)) <= n
  BY QueueAppend

\* Fields of a message, and membership in the message sets.
LEMMA MessageFields ==
  ASSUME NEW m \in Events
  PROVE  m.type \in EventTypes /\ m.id \in Nat /\ m # NoMsg
  BY DEF Events, EventTypes, NoMsg, Message, NoteClasses

LEMMA ClientMessageFields ==
  ASSUME NEW m \in ClientMessages
  PROVE  m.type \in {"turn", "accept", "decline", "error"} /\ m.id \in Nat
  BY DEF ClientMessages

LEMMA MessageInEvents ==
  ASSUME NEW t \in EventTypes, NEW n \in Nat
  PROVE  Message(t, n) \in Events
  BY DEF Events, Message

LEMMA MessageInClient ==
  ASSUME NEW t \in {"turn", "accept", "decline", "error"}, NEW n \in Nat
  PROVE  Message(t, n) \in ClientMessages
  BY DEF ClientMessages, Message

\* What the steps of each actor leave alone.
LEMMA Frames ==
  /\ ServerNext => UNCHANGED <<appVars, userVars, command, client, leaked>>
  /\ RuntimeNext => UNCHANGED <<nextId, kindOf, appVars, userVars, command, leaked>>
  /\ WorkerNext => UNCHANGED <<serverVars, pendingApprovals, userVars>>
  /\ AppNext => UNCHANGED <<serverVars, userVars, client, leaked>>
  /\ UserNext => UNCHANGED <<serverVars, rejecting, awaiting, client, leaked>>
  <1> USE DEF serverVars, runtimeVars, workerVars, appVars, userVars
  <1>1. ServerNext => UNCHANGED <<appVars, userVars, command, client, leaked>>
    BY DEF ServerNext, send_request_to_connections, send_server_notification,
           turn_transition, auth_refresh_timeout, outgoing_send, process_client_request
  <1>2. RuntimeNext => UNCHANGED <<nextId, kindOf, appVars, userVars, command, leaked>>
    BY DEF RuntimeNext, runtime_response, runtime_request, runtime_notification,
           runtime_event_send, runtime_server_request_answer, runtime_client_request
  <1>3. WorkerNext => UNCHANGED <<serverVars, pendingApprovals, userVars>>
    BY DEF WorkerNext, worker_request, detached_request, worker_resolve, worker_reject,
           worker_reject_auth, forward_lossless, forward_send, forward_best_effort
  <1>4. AppNext => UNCHANGED <<serverVars, userVars, client, leaked>>
    BY DEF AppNext, app_notification, app_server_request, app_reject_send
  <1>5. UserNext => UNCHANGED <<serverVars, rejecting, awaiting, client, leaked>>
    BY DEF UserNext, respond_to_patch_approval, resolve_server_request, send_message
  <1> QED
    BY <1>1, <1>2, <1>3, <1>4, <1>5

LEMMA InitTypeOK == Init => TypeOK
  <1> SUFFICES ASSUME Init PROVE TypeOK
    OBVIOUS
  <1> USE DEF Init
  <1>1. ServerTypeOK
    BY DEF ServerTypeOK
  <1>2. UserTypeOK
    BY DEF UserTypeOK
  <1>3. QueueTypeOK
    BY EmptySeq, CapAssumption DEF QueueTypeOK, OutboundCap
  <1>4. TaskTypeOK
    BY DEF TaskTypeOK
  <1> QED
    BY <1>1, <1>2, <1>3, <1>4 DEF TypeOK
\* Steps of the server tasks keep the types and the queue bounds.
LEMMA ServerTypes == TypeOK /\ ServerNext => TypeOK'
  <1> SUFFICES ASSUME TypeOK, ServerNext PROVE TypeOK'
    OBVIOUS
  <1> USE CapAssumption, BoundAssumption
      DEF TypeOK, ServerTypeOK, UserTypeOK, QueueTypeOK, TaskTypeOK,
          serverVars, runtimeVars, workerVars, appVars, userVars
  <1>1. ASSUME NEW s \in Senders, NEW k \in Kinds, send_request_to_connections(s, k)
        PROVE  TypeOK'
    <2>1. Message("req", nextId) \in Events
      BY MessageInEvents DEF EventTypes
    <2> QED
      BY <1>1, <2>1 DEF send_request_to_connections, RequestIds
  <1>2. ASSUME NEW s \in Threads, NEW c \in NoteClasses, send_server_notification(s, c)
        PROVE  TypeOK'
    <2>1. Message(c, 0) \in Events /\ s \in Senders
      BY MessageInEvents DEF EventTypes, Senders
    <2> QED
      BY <1>2, <2>1 DEF send_server_notification
  <1>3. ASSUME NEW s \in Threads, NEW c \in NoteClasses, turn_transition(s, c)
        PROVE  TypeOK'
    <2>1. Message(c, 0) \in Events /\ s \in Senders
      BY MessageInEvents DEF EventTypes, Senders
    <2> QED
      BY <1>3, <2>1 DEF turn_transition, cancel_requests_for_thread, Settlements
  <1>4. ASSUME NEW r \in RequestIds, auth_refresh_timeout(r)
        PROVE  TypeOK'
    BY <1>4 DEF auth_refresh_timeout, take_request_callback, Settlements
  <1>5. ASSUME NEW s \in Senders, outgoing_send(s)
        PROVE  TypeOK'
    <2>1. hand[s] \in Events
      BY <1>5 DEF outgoing_send
    <2>2. writer' \in Seq(Events) /\ Len(writer') <= OutboundCap
      BY <1>5, <2>1, QueueAppend DEF outgoing_send, OutboundCap
    <2> QED
      BY <1>5, <2>2 DEF outgoing_send
  <1>6. ASSUME process_client_request
        PROVE  TypeOK'
    <2>1. Head(processor) \in Nat /\ processor' \in Seq(Nat) /\ Len(processor') <= Cap
      BY <1>6, QueueTail DEF process_client_request
    <2>2. Message("resp", Head(processor)) \in Events
      BY <2>1, MessageInEvents DEF EventTypes
    <2> QED
      BY <1>6, <2>1, <2>2 DEF process_client_request
  <1> QED
    BY <1>1, <1>2, <1>3, <1>4, <1>5, <1>6 DEF ServerNext

\* Steps of the runtime's select loop keep the types and the queue bounds.
LEMMA RuntimeTypes == TypeOK /\ RuntimeNext => TypeOK'
  <1> SUFFICES ASSUME TypeOK, RuntimeNext PROVE TypeOK'
    OBVIOUS
  <1> USE CapAssumption
      DEF TypeOK, ServerTypeOK, UserTypeOK, QueueTypeOK, TaskTypeOK,
          serverVars, runtimeVars, workerVars, appVars, userVars
  <1>1. ASSUME writer # <<>>
        PROVE  /\ Head(writer) \in Events /\ Tail(writer) \in Seq(Events)
               /\ Len(Tail(writer)) <= OutboundCap
    BY <1>1, QueueTail DEF OutboundCap
  <1>2. ASSUME client # <<>>
        PROVE  /\ Head(client) \in ClientMessages /\ Tail(client) \in Seq(ClientMessages)
               /\ Len(Tail(client)) <= Cap
    BY <1>2, QueueTail
  <1>3. CASE runtime_response
    BY <1>1, <1>3 DEF runtime_response, RuntimeTakes
  <1>4. CASE runtime_request
    <2>1. writer # <<>>
      BY <1>4 DEF runtime_request, RuntimeTakes
    <2>2. event' \in Seq(Events) /\ Len(event') <= Cap
      <3>1. CASE Len(event) < Cap /\ event' = Append(event, Head(writer))
        BY <1>1, <2>1, <3>1, BoundedAppend
      <3>2. CASE UNCHANGED event
        BY <3>2
      <3> QED
        BY <1>4, <3>1, <3>2 DEF runtime_request
    <2>3. callback' \subseteq RequestIds
          /\ outcome' \in [RequestIds -> Settlements \cup {"unsent", "pending"}]
      <3>1. CASE take_request_callback(Head(writer).id, "error")
        BY <3>1 DEF take_request_callback, Settlements
      <3>2. CASE UNCHANGED <<callback, outcome>>
        BY <3>2
      <3> QED
        BY <1>4, <3>1, <3>2 DEF runtime_request
    <2> QED
      BY <1>1, <1>4, <2>1, <2>2, <2>3 DEF runtime_request
  <1>5. CASE runtime_notification
    <2>1. writer # <<>> /\ Head(writer).type \in NoteClasses
      BY <1>5 DEF runtime_notification, RuntimeTakes
    <2>2. event' \in Seq(Events) /\ Len(event') <= Cap
      <3>1. CASE Len(event) < Cap /\ event' = Append(event, Head(writer))
        BY <1>1, <2>1, <3>1, BoundedAppend
      <3>2. CASE UNCHANGED event
        BY <3>2
      <3> QED
        BY <1>5, <3>1, <3>2 DEF runtime_notification
    <2> QED
      BY <1>1, <1>5, <2>1, <2>2 DEF runtime_notification
  <1>6. CASE runtime_event_send
    <2>1. event' \in Seq(Events) /\ Len(event') <= Cap
      BY <1>6, QueueAppend DEF runtime_event_send
    <2> QED
      BY <1>6, <2>1 DEF runtime_event_send
  <1>7. CASE runtime_server_request_answer
    <2>1. client # <<>> /\ Head(client).type \in Settlements
      BY <1>2, <1>7, ClientMessageFields DEF runtime_server_request_answer, Settlements
    <2> QED
      BY <1>2, <1>7, <2>1 DEF runtime_server_request_answer, take_request_callback
  <1>8. CASE runtime_client_request
    <2>1. client # <<>> /\ Head(client).id \in Nat
      BY <1>2, <1>8, ClientMessageFields DEF runtime_client_request
    <2>2. processor' \in Seq(Nat) /\ Len(processor') <= Cap
      <3>1. CASE Len(processor) < Cap /\ processor' = Append(processor, Head(client).id)
        BY <2>1, <3>1, BoundedAppend
      <3>2. CASE UNCHANGED processor
        BY <3>2
      <3> QED
        BY <1>8, <3>1, <3>2 DEF runtime_client_request
    <2> QED
      BY <1>2, <1>8, <2>1, <2>2 DEF runtime_client_request, reply_overloaded
  <1> QED
    BY <1>3, <1>4, <1>5, <1>6, <1>7, <1>8 DEF RuntimeNext

\* An answer that is sent, or lost, keeps the client queue within bounds.
LEMMA AnswerSent ==
  ASSUME TypeOK, NEW r \in Nat, NEW a \in AnswerTypes, NEW site \in LeakSites,
         try_send_answer(r, a, site)
  PROVE  /\ client' \in Seq(ClientMessages) /\ Len(client') <= Cap
         /\ leaked' \in [RequestIds -> LeakSites \cup {"no"}]
  <1>1. Message(a, r) \in ClientMessages
    BY MessageInClient DEF AnswerTypes
  <1>2. CASE Len(client) < Cap /\ client' = Append(client, Message(a, r)) /\ UNCHANGED leaked
    BY <1>1, <1>2, BoundedAppend, CapAssumption DEF TypeOK, QueueTypeOK, TaskTypeOK
  <1>3. CASE leaked' = [leaked EXCEPT ![r] = site] /\ UNCHANGED client
    BY <1>3 DEF TypeOK, QueueTypeOK, TaskTypeOK
  <1> QED
    BY <1>2, <1>3 DEF try_send_answer

\* Steps of the facade worker keep the types and the queue bounds.
LEMMA WorkerTypes == TypeOK /\ WorkerNext => TypeOK'
  <1> SUFFICES ASSUME TypeOK, WorkerNext PROVE TypeOK'
    OBVIOUS
  <1> USE CapAssumption
      DEF TypeOK, ServerTypeOK, UserTypeOK, QueueTypeOK, TaskTypeOK,
          serverVars, runtimeVars, workerVars, appVars, userVars
  <1>1. ASSUME command # <<>>
        PROVE  /\ Head(command) \in ClientMessages /\ Tail(command) \in Seq(ClientMessages)
               /\ Len(Tail(command)) <= Cap /\ Head(command).id \in Nat
    BY <1>1, QueueTail, ClientMessageFields
  <1>2. ASSUME event # <<>>
        PROVE  /\ Head(event) \in Events /\ Tail(event) \in Seq(Events)
               /\ Len(Tail(event)) <= Cap /\ Head(event).id \in Nat
    BY <1>2, QueueTail, MessageFields
  <1>3. CASE worker_request
    BY <1>1, <1>3 DEF worker_request
  <1>4. ASSUME NEW t \in Turns, detached_request(t)
        PROVE  TypeOK'
    <2>1. Message("turn", t) \in ClientMessages
      BY BoundAssumption, MessageInClient DEF Turns
    <2>2. client' \in Seq(ClientMessages) /\ Len(client') <= Cap
      <3>1. CASE Len(client) < Cap /\ client' = Append(client, Message("turn", t))
        BY <2>1, <3>1, BoundedAppend
      <3>2. CASE UNCHANGED client
        BY <3>2
      <3> QED
        BY <1>4, <3>1, <3>2 DEF detached_request
    <2> QED
      BY <1>4, <2>2 DEF detached_request
  <1>5. CASE worker_resolve
    <2>1. command # <<>> /\ Head(command).type \in AnswerTypes
      BY <1>5 DEF worker_resolve, AnswerTypes
    <2>2. /\ client' \in Seq(ClientMessages) /\ Len(client') <= Cap
          /\ leaked' \in [RequestIds -> LeakSites \cup {"no"}]
      BY <1>1, <1>5, <2>1, AnswerSent DEF worker_resolve, LeakSites
    <2> QED
      BY <1>1, <1>5, <2>1, <2>2 DEF worker_resolve
  <1>6. CASE worker_reject
    <2>1. command # <<>> /\ "error" \in AnswerTypes
      BY <1>6 DEF worker_reject, AnswerTypes
    <2>2. /\ client' \in Seq(ClientMessages) /\ Len(client') <= Cap
          /\ leaked' \in [RequestIds -> LeakSites \cup {"no"}]
      BY <1>1, <1>6, <2>1, AnswerSent DEF worker_reject, LeakSites
    <2> QED
      BY <1>1, <1>6, <2>1, <2>2 DEF worker_reject, reply_to_app
  <1>7. CASE worker_reject_auth
    <2>1. event # <<>> /\ "error" \in AnswerTypes
      BY <1>7 DEF worker_reject_auth, WorkerTakes, AnswerTypes
    <2>2. /\ client' \in Seq(ClientMessages) /\ Len(client') <= Cap
          /\ leaked' \in [RequestIds -> LeakSites \cup {"no"}]
      BY <1>2, <1>7, <2>1, AnswerSent DEF worker_reject_auth, LeakSites
    <2> QED
      BY <1>2, <1>7, <2>1, <2>2 DEF worker_reject_auth
  <1>8. CASE forward_lossless
    BY <1>2, <1>8, SMTT(30) DEF forward_lossless, WorkerTakes
  <1>9. CASE forward_send
    <2>1. Message("lagged", skipped) \in Events
      BY MessageInEvents DEF EventTypes
    <2>2. consumer' \in Seq(Events) /\ Len(consumer') <= Cap
      <3>1. \/ consumer' = Append(consumer, Message("lagged", skipped))
            \/ consumer' = Append(consumer, workerHand)
        BY <1>9 DEF forward_send
      <3>2. Len(consumer) < Cap /\ workerHand \in Events
        BY <1>9 DEF forward_send
      <3>3. CASE consumer' = Append(consumer, Message("lagged", skipped))
        BY <2>1, <3>2, <3>3, BoundedAppend
      <3>4. CASE consumer' = Append(consumer, workerHand)
        BY <3>2, <3>4, BoundedAppend
      <3> QED
        BY <3>1, <3>3, <3>4
    <2>3. workerHand' \in Events \cup {NoMsg} /\ skipped' \in Nat /\ owed' \in Int
      BY <1>9 DEF forward_send
    <2> QED
      BY <1>9, <2>2, <2>3 DEF forward_send
  <1>10. CASE forward_best_effort
    <2> DEFINE marked == Len(consumer) < Cap /\ skipped > 0
               flushed == IF marked THEN Append(consumer, Message("lagged", skipped))
                                    ELSE consumer
    <2>1. event # <<>> /\ "error" \in AnswerTypes
      BY <1>10 DEF forward_best_effort, WorkerTakes, AnswerTypes
    <2>2. Message("lagged", skipped) \in Events
      BY MessageInEvents DEF EventTypes
    <2>3. flushed \in Seq(Events) /\ Len(flushed) <= Cap
      BY <2>2, QueueAppend
    <2>4. consumer' \in Seq(Events) /\ Len(consumer') <= Cap
      <3> HIDE DEF flushed
      <3>1. \/ consumer' = Append(flushed, Head(event)) /\ Len(flushed) < Cap
            \/ consumer' = flushed
        BY <1>10 DEF forward_best_effort, flushed
      <3>2. CASE consumer' = Append(flushed, Head(event)) /\ Len(flushed) < Cap
        BY <1>2, <2>1, <2>3, <3>2, BoundedAppend
      <3>3. CASE consumer' = flushed
        BY <2>3, <3>3
      <3> QED
        BY <3>1, <3>2, <3>3
    <2>5. /\ client' \in Seq(ClientMessages) /\ Len(client') <= Cap
          /\ leaked' \in [RequestIds -> LeakSites \cup {"no"}]
      <3>1. \/ UNCHANGED <<client, leaked>>
            \/ try_send_answer(Head(event).id, "error", "overflow")
        BY <1>10 DEF forward_best_effort, reject_dropped
      <3> QED
        BY <1>2, <2>1, <3>1, AnswerSent DEF LeakSites
    <2>6. skipped' \in Nat /\ owed' \in Int
      BY <1>10 DEF forward_best_effort, skipped_after_drop
    <2> QED
      BY <1>2, <1>10, <2>1, <2>4, <2>5, <2>6 DEF forward_best_effort
  <1> QED
    BY <1>3, <1>4, <1>5, <1>6, <1>7, <1>8, <1>9, <1>10 DEF WorkerNext

\* Steps of run_event_loop keep the types and the queue bounds.
LEMMA AppTypes == TypeOK /\ AppNext => TypeOK'
  <1> SUFFICES ASSUME TypeOK, AppNext PROVE TypeOK'
    OBVIOUS
  <1> USE CapAssumption
      DEF TypeOK, ServerTypeOK, UserTypeOK, QueueTypeOK, TaskTypeOK,
          serverVars, runtimeVars, workerVars, appVars, userVars
  <1>1. ASSUME consumer # <<>>
        PROVE  /\ Head(consumer).id \in Nat /\ Tail(consumer) \in Seq(Events)
               /\ Len(Tail(consumer)) <= Cap
    BY <1>1, QueueTail, MessageFields
  <1>2. CASE app_notification
    BY <1>1, <1>2 DEF app_notification, AppTakes
  <1>3. CASE app_server_request
    <2>1. /\ Head(consumer).id \in Nat /\ consumer' \in Seq(Events) /\ Len(consumer') <= Cap
      BY <1>1, <1>3 DEF app_server_request, AppTakes
    <2>2. pendingApprovals' \subseteq Nat /\ rejecting' \in Nat
      <3>1. \/ pendingApprovals' = park(Head(consumer).id) /\ UNCHANGED rejecting
            \/ rejecting' = Head(consumer).id /\ UNCHANGED pendingApprovals
        BY <1>3 DEF app_server_request
      <3> QED
        BY <2>1, <3>1 DEF park
    <2> QED
      BY <1>3, <2>1, <2>2 DEF app_server_request
  <1>4. CASE app_reject_send
    <2>1. Message("error", rejecting) \in ClientMessages
      BY MessageInClient
    <2>2. command' \in Seq(ClientMessages) /\ Len(command') <= Cap
      BY <1>4, <2>1, BoundedAppend DEF app_reject_send
    <2> QED
      BY <1>4, <2>2 DEF app_reject_send
  <1> QED
    BY <1>2, <1>3, <1>4 DEF AppNext

\* The Tauri commands keep the types and the queue bounds.
LEMMA UserTypes == TypeOK /\ UserNext => TypeOK'
  <1> SUFFICES ASSUME TypeOK, UserNext PROVE TypeOK'
    OBVIOUS
  <1> USE CapAssumption
      DEF TypeOK, ServerTypeOK, UserTypeOK, QueueTypeOK, TaskTypeOK,
          serverVars, runtimeVars, workerVars, appVars, userVars
  <1>1. ASSUME NEW r \in RequestIds, NEW accept \in BOOLEAN, respond_to_patch_approval(r, accept)
        PROVE  TypeOK'
    <2>1. r \in Nat /\ decision(accept) \in {"none", "accept", "decline"}
      BY BoundAssumption DEF RequestIds, decision
    <2>2. accepted' \subseteq Nat
      BY <1>1, <2>1 DEF respond_to_patch_approval
    <2> QED
      BY <1>1, <2>1, <2>2 DEF respond_to_patch_approval, approvals_without
  <1>2. ASSUME NEW r \in RequestIds, resolve_server_request(r)
        PROVE  TypeOK'
    <2>1. Message(responding[r], r) \in ClientMessages
      <3>1. responding[r] \in {"accept", "decline"} /\ r \in Nat
        BY <1>2, BoundAssumption DEF resolve_server_request, RequestIds
      <3> QED
        BY <3>1, MessageInClient
    <2>2. command' \in Seq(ClientMessages) /\ Len(command') <= Cap
      BY <1>2, <2>1, BoundedAppend DEF resolve_server_request
    <2> QED
      BY <1>2, <2>2 DEF resolve_server_request
  <1>3. ASSUME NEW t \in Turns, send_message(t)
        PROVE  TypeOK'
    <2>1. Message("turn", t) \in ClientMessages
      BY MessageInClient, BoundAssumption DEF Turns
    <2>2. command' \in Seq(ClientMessages) /\ Len(command') <= Cap
      BY <1>3, <2>1, BoundedAppend DEF send_message
    <2> QED
      BY <1>3, <2>2 DEF send_message
  <1> QED
    BY <1>1, <1>2, <1>3 DEF UserNext

\* The types are an inductive invariant of one step.
LEMMA TypeStep == TypeOK /\ [Next]_vars => TypeOK'
  <1>1. TypeOK /\ UNCHANGED vars => TypeOK'
    BY DEF TypeOK, ServerTypeOK, UserTypeOK, QueueTypeOK, TaskTypeOK, vars,
           serverVars, runtimeVars, workerVars, appVars, userVars
  <1> QED
    BY <1>1, ServerTypes, RuntimeTypes, WorkerTypes, AppTypes, UserTypes DEF Next

(***************************************************************************)
(* Type correctness: in every reachable state the five bounded channels of *)
(* the in-process transport are within their capacity and hold messages of *)
(* their own kind.                                                         *)
(***************************************************************************)
THEOREM TypeCorrect == Spec => []TypeOK
  <1>1. Init => TypeOK
    BY InitTypeOK
  <1>2. TypeOK /\ [Next]_vars => TypeOK'
    BY TypeStep
  <1> QED
    BY <1>1, <1>2, PTL DEF Spec
-----------------------------------------------------------------------------
(* No server request is forgotten.                                         *)

\* What a queue holds after a message is added at its end, ...
LEMMA InQueueAppend ==
  ASSUME NEW S, NEW q \in Seq(S), NEW e \in S, NEW m
  PROVE  InQueue(m, Append(q, e)) <=> InQueue(m, q) \/ m = e
  <1>1. /\ Len(Append(q, e)) = Len(q) + 1 /\ Len(q) \in Nat
        /\ Append(q, e)[Len(q) + 1] = e
        /\ \A i \in 1..Len(q) : Append(q, e)[i] = q[i]
    BY AppendProperties, LenProperties
  <1> QED
    BY <1>1 DEF InQueue

\* ... and after its head is taken.
LEMMA InQueueTail ==
  ASSUME NEW S, NEW q \in Seq(S), q # <<>>, NEW m, InQueue(m, q)
  PROVE  m = Head(q) \/ InQueue(m, Tail(q))
  <1>1. /\ Len(Tail(q)) = Len(q) - 1 /\ Len(q) \in Nat \ {0}
        /\ Head(q) = q[1]
        /\ \A i \in 1..(Len(q) - 1) : Tail(q)[i] = q[i + 1]
    BY HeadTailProperties, LenProperties, EmptySeq
  <1>2. PICK i \in 1..Len(q) : q[i] = m
    BY DEF InQueue
  <1>3. CASE i = 1
    BY <1>1, <1>2, <1>3
  <1>4. CASE i # 1
    <2>1. i - 1 \in 1..Len(Tail(q)) /\ Tail(q)[i - 1] = m
      BY <1>1, <1>2, <1>4
    <2> QED
      BY <2>1 DEF InQueue
  <1> QED
    BY <1>3, <1>4

LEMMA PairingInit == Init => RejectPairing
  BY DEF Init, RejectPairing

\* Only the app queues rejections and only the worker takes them.
LEMMA PairingStep == TypeOK /\ RejectPairing /\ [Next]_vars => RejectPairing'
  <1> SUFFICES ASSUME TypeOK, RejectPairing, [Next]_vars PROVE RejectPairing'
    OBVIOUS
  <1> USE DEF serverVars, runtimeVars, workerVars, appVars, userVars
  <1>a. command \in Seq(ClientMessages) /\ Len(command) \in Nat
    BY LenProperties DEF TypeOK, QueueTypeOK
  <1>b. ASSUME NEW m \in ClientMessages, command' = Append(command, m)
        PROVE  /\ Len(command') = Len(command) + 1 /\ command'[Len(command) + 1] = m
               /\ \A i \in 1..Len(command) : command'[i] = command[i]
    BY <1>a, <1>b, AppendProperties
  <1>c. ASSUME command # <<>>, command' = Tail(command)
        PROVE  /\ Len(command') = Len(command) - 1 /\ Len(command) \in Nat \ {0}
               /\ Head(command) = command[1]
               /\ \A i \in 1..(Len(command) - 1) : command'[i] = command[i + 1]
    BY <1>a, <1>c, HeadTailProperties, EmptySeq
  <1>1. CASE worker_request \/ worker_resolve
    <2>1. /\ command # <<>> /\ command' = Tail(command)
          /\ UNCHANGED <<rejecting, awaiting>>
      BY <1>1 DEF worker_request, worker_resolve
    <2> QED
      BY <1>a, <1>c, <2>1 DEF RejectPairing
  <1>2. CASE worker_reject
    <2>1. \A i \in 1..Len(command') : command'[i].type # "error"
      BY <1>2, <1>c DEF worker_reject, RejectPairing
    <2> QED
      BY <1>2, <2>1 DEF worker_reject, reply_to_app, RejectPairing
  <1>3. CASE app_reject_send
    <2>1. rejecting \in Nat /\ Message("error", rejecting) \in ClientMessages
      BY MessageInClient DEF TypeOK, TaskTypeOK
    <2>2. \A i \in 1..Len(command) : command[i].type # "error"
      BY <1>3 DEF app_reject_send, RejectPairing
    <2> QED
      BY <1>3, <1>a, <1>b, <2>1, <2>2 DEF app_reject_send, RejectPairing, Message
  <1>4. ASSUME NEW r \in RequestIds, resolve_server_request(r)
        PROVE  RejectPairing'
    <2>1. responding[r] \in {"accept", "decline"} /\ r \in Nat
      BY <1>4, BoundAssumption DEF resolve_server_request, RequestIds, TypeOK, UserTypeOK
    <2>2. Message(responding[r], r) \in ClientMessages
          /\ Message(responding[r], r).type # "error"
      BY <2>1, MessageInClient DEF Message
    <2> QED
      BY <1>4, <1>a, <1>b, <2>2 DEF resolve_server_request, RejectPairing
  <1>5. ASSUME NEW t \in Turns, send_message(t)
        PROVE  RejectPairing'
    <2>1. Message("turn", t) \in ClientMessages /\ Message("turn", t).type # "error"
      BY MessageInClient, BoundAssumption DEF Turns, Message
    <2> QED
      BY <1>5, <1>a, <1>b, <2>1 DEF send_message, RejectPairing
  <1>6. CASE app_server_request
    BY <1>6 DEF app_server_request, AppTakes, RejectPairing
  <1>7. CASE UNCHANGED <<command, rejecting, awaiting>>
    BY <1>7 DEF RejectPairing
  <1> QED
    BY <1>1, <1>2, <1>3, <1>4, <1>5, <1>6, <1>7
    DEF Next, vars, ServerNext, RuntimeNext, WorkerNext, AppNext, UserNext,
        send_request_to_connections, send_server_notification, turn_transition,
        auth_refresh_timeout, outgoing_send, process_client_request, runtime_response,
        runtime_request, runtime_notification, runtime_event_send,
        runtime_server_request_answer, runtime_client_request, detached_request,
        worker_reject_auth, forward_lossless, forward_send, forward_best_effort,
        app_notification, respond_to_patch_approval

\* A server task that puts a new message in its empty hand forgets nothing.
LEMMA HandKept ==
  ASSUME TypeOK, NEW s \in Senders, hand[s] = NoMsg, NEW m, hand' = [hand EXCEPT ![s] = m],
         NEW r \in Nat, \E s2 \in Senders : hand[s2] = Message("req", r)
  PROVE  \E s2 \in Senders : hand'[s2] = Message("req", r)
  <1>1. Message("req", r) # NoMsg
    BY DEF Message, NoMsg
  <1> QED
    BY <1>1 DEF TypeOK, ServerTypeOK

LEMMA ServerReach ==
  TypeOK /\ PendingIsReachable /\ ServerNext => PendingIsReachable'
  <1> SUFFICES ASSUME TypeOK, PendingIsReachable, ServerNext,
                      NEW r \in callback', leaked'[r] = "no"
               PROVE  Carried(r)'
    BY DEF PendingIsReachable
  <1> USE DEF serverVars, runtimeVars, workerVars, appVars, userVars
  <1>a. /\ hand \in [Senders -> Events \cup {NoMsg}] /\ writer \in Seq(Events)
        /\ callback \subseteq RequestIds /\ RequestIds \subseteq Nat /\ nextId \in Nat
    BY BoundAssumption DEF TypeOK, ServerTypeOK, QueueTypeOK, RequestIds
  <1>b. UNCHANGED <<leaked, event, consumer, rejecting, awaiting, pendingApprovals,
                    responding, command, client>>
    BY DEF ServerNext, send_request_to_connections, send_server_notification,
           turn_transition, auth_refresh_timeout, outgoing_send, process_client_request
  <1>c. ASSUME r \in callback PROVE Carried(r) /\ r \in Nat
    BY <1>a, <1>b, <1>c DEF PendingIsReachable
  <1>d. ASSUME r \in callback, UNCHANGED writer,
               NEW s \in Senders, hand[s] = NoMsg, NEW m, hand' = [hand EXCEPT ![s] = m]
        PROVE  Carried(r)'
    BY <1>b, <1>c, <1>d, HandKept DEF Carried
  <1>1. ASSUME NEW s \in Senders, NEW k \in Kinds, send_request_to_connections(s, k)
        PROVE  Carried(r)'
    <2>1. CASE r = nextId
      <3>1. hand'[s] = Message("req", r)
        BY <1>1, <1>a, <2>1 DEF send_request_to_connections
      <3> QED
        BY <3>1 DEF Carried
    <2>2. CASE r # nextId
      BY <1>1, <1>d, <2>2 DEF send_request_to_connections
    <2> QED
      BY <2>1, <2>2
  <1>2. ASSUME NEW s \in Threads, NEW c \in NoteClasses, send_server_notification(s, c)
        PROVE  Carried(r)'
    BY <1>2, <1>d DEF send_server_notification, Senders
  <1>3. ASSUME NEW s \in Threads, NEW c \in NoteClasses, turn_transition(s, c)
        PROVE  Carried(r)'
    BY <1>3, <1>d DEF turn_transition, cancel_requests_for_thread, Senders
  <1>4. ASSUME NEW q \in RequestIds, auth_refresh_timeout(q)
        PROVE  Carried(r)'
    BY <1>4, <1>b, <1>c DEF auth_refresh_timeout, take_request_callback, Carried
  <1>5. ASSUME NEW s \in Senders, outgoing_send(s)
        PROVE  Carried(r)'
    <2>1. hand[s] \in Events /\ r \in callback /\ UNCHANGED callback
      BY <1>5, <1>a DEF outgoing_send
    <2>2. \A m : InQueue(m, writer') <=> InQueue(m, writer) \/ m = hand[s]
      BY <1>5, <1>a, <2>1, InQueueAppend DEF outgoing_send
    <2>3. ASSUME NEW s2 \in Senders, hand[s2] = Message("req", r)
          PROVE  hand'[s2] = Message("req", r) \/ InQueue(Message("req", r), writer')
      BY <1>5, <1>a, <2>2, <2>3 DEF outgoing_send
    <2> QED
      BY <1>b, <1>c, <2>1, <2>2, <2>3 DEF Carried
  <1>6. CASE process_client_request
    BY <1>6, <1>d DEF process_client_request, Senders
  <1> QED
    BY <1>1, <1>2, <1>3, <1>4, <1>5, <1>6 DEF ServerNext

\* The runtime either passes a request on or settles it itself.
LEMMA RuntimeReach ==
  TypeOK /\ PendingIsReachable /\ RuntimeNext => PendingIsReachable'
  <1> SUFFICES ASSUME TypeOK, PendingIsReachable, RuntimeNext,
                      NEW r \in callback', leaked'[r] = "no"
               PROVE  Carried(r)'
    BY DEF PendingIsReachable
  <1> USE DEF serverVars, runtimeVars, workerVars, appVars, userVars
  <1>a. /\ writer \in Seq(Events) /\ event \in Seq(Events) /\ client \in Seq(ClientMessages)
        /\ runtimeHand \in Events \cup {NoMsg}
    BY DEF TypeOK, QueueTypeOK, TaskTypeOK
  <1>b. UNCHANGED <<hand, leaked, consumer, rejecting, awaiting, pendingApprovals,
                    responding, command>>
    BY DEF RuntimeNext, runtime_response, runtime_request, runtime_notification,
           runtime_event_send, runtime_server_request_answer, runtime_client_request
  <1>c. r \in callback
    BY DEF RuntimeNext, runtime_response, runtime_request, runtime_notification,
           runtime_event_send, runtime_server_request_answer, runtime_client_request,
           take_request_callback
  <1>d. Carried(r)
    BY <1>b, <1>c DEF PendingIsReachable
  <1>e. ASSUME writer # <<>>, writer' = Tail(writer), Head(writer) # Message("req", r),
               InQueue(Message("req", r), writer)
        PROVE  InQueue(Message("req", r), writer')
    BY <1>a, <1>e, InQueueTail
  <1>f. ASSUME NEW m \in Events, event' = Append(event, m)
        PROVE  \A x : InQueue(x, event) \/ x = m => InQueue(x, event')
    BY <1>a, <1>f, InQueueAppend
  <1>1. CASE runtime_response
    <2>1. Head(writer) # Message("req", r)
      BY <1>1 DEF runtime_response, RuntimeTakes, Message
    <2> QED
      BY <1>1, <1>b, <1>d, <1>e, <2>1 DEF runtime_response, RuntimeTakes, Carried
  <1>2. CASE runtime_request
    <2>1. writer # <<>> /\ writer' = Tail(writer) /\ Head(writer) \in Events
          /\ UNCHANGED client
      BY <1>2, <1>a, QueueTail DEF runtime_request, RuntimeTakes
    <2>2. CASE event' = Append(event, Head(writer))
      <3>1. InQueue(Message("req", r), writer)
              => InQueue(Message("req", r), writer') \/ InQueue(Message("req", r), event')
        BY <1>e, <1>f, <2>1, <2>2
      <3> QED
        BY <1>b, <1>d, <1>f, <2>1, <2>2, <3>1 DEF Carried
    <2>3. CASE take_request_callback(Head(writer).id, "error") /\ UNCHANGED event
      <3>1. Head(writer) # Message("req", r)
        BY <2>3 DEF take_request_callback, Message
      <3> QED
        BY <1>b, <1>d, <1>e, <2>1, <2>3, <3>1 DEF Carried
    <2> QED
      BY <1>2, <2>2, <2>3 DEF runtime_request
  <1>3. CASE runtime_notification
    <2>1. writer # <<>> /\ writer' = Tail(writer) /\ Head(writer) \in Events
          /\ UNCHANGED client
      BY <1>3, <1>a, QueueTail DEF runtime_notification, RuntimeTakes
    <2>2. Head(writer) # Message("req", r)
      BY <1>3 DEF runtime_notification, RuntimeTakes, Message, NoteClasses
    <2>3. UNCHANGED event \/ event' = Append(event, Head(writer))
      BY <1>3 DEF runtime_notification
    <2>4. InQueue(Message("req", r), event) => InQueue(Message("req", r), event')
      BY <1>f, <2>1, <2>3
    <2> QED
      BY <1>b, <1>d, <1>e, <2>1, <2>2, <2>4 DEF Carried
  <1>4. CASE runtime_event_send
    <2>1. event' = Append(event, runtimeHand) /\ runtimeHand \in Events
          /\ UNCHANGED <<writer, client>>
      BY <1>4, <1>a DEF runtime_event_send
    <2> QED
      BY <1>b, <1>d, <1>f, <2>1 DEF Carried
  <1>5. CASE runtime_server_request_answer
    <2>1. client # <<>> /\ client' = Tail(client) /\ UNCHANGED <<writer, event>>
      BY <1>5 DEF runtime_server_request_answer
    <2>2. ASSUME NEW a \in AnswerTypes, InQueue(Message(a, r), client)
          PROVE  InQueue(Message(a, r), client')
      <3>1. Head(client) # Message(a, r)
        BY <1>5 DEF runtime_server_request_answer, take_request_callback, Message
      <3> QED
        BY <1>a, <2>1, <2>2, <3>1, InQueueTail
    <2> QED
      BY <1>b, <1>d, <2>1, <2>2 DEF Carried
  <1>6. CASE runtime_client_request
    <2>1. client # <<>> /\ client' = Tail(client) /\ UNCHANGED <<writer, event>>
      BY <1>6 DEF runtime_client_request
    <2>2. ASSUME NEW a \in AnswerTypes, InQueue(Message(a, r), client)
          PROVE  InQueue(Message(a, r), client')
      <3>1. Head(client) # Message(a, r)
        BY <1>6 DEF runtime_client_request, Message, AnswerTypes
      <3> QED
        BY <1>a, <2>1, <2>2, <3>1, InQueueTail
    <2> QED
      BY <1>b, <1>d, <2>1, <2>2 DEF Carried
  <1> QED
    BY <1>1, <1>2, <1>3, <1>4, <1>5, <1>6 DEF RuntimeNext

\* An answer given to try_send is in the client queue unless it is recorded
\* as leaked.
LEMMA AnswerKept ==
  ASSUME TypeOK, NEW q \in Nat, NEW a \in AnswerTypes, NEW site \in LeakSites,
         try_send_answer(q, a, site), NEW r \in RequestIds, leaked'[r] = "no"
  PROVE  /\ leaked[r] = "no"
         /\ \A m : InQueue(m, client) => InQueue(m, client')
         /\ q = r => InQueue(Message(a, r), client')
  <1>1. Message(a, q) \in ClientMessages /\ client \in Seq(ClientMessages)
    BY MessageInClient DEF AnswerTypes, TypeOK, QueueTypeOK
  <1>2. CASE client' = Append(client, Message(a, q)) /\ UNCHANGED leaked
    BY <1>1, <1>2, InQueueAppend
  <1>3. CASE leaked' = [leaked EXCEPT ![q] = site] /\ UNCHANGED client
    BY <1>3 DEF LeakSites, TypeOK, TaskTypeOK
  <1> QED
    BY <1>2, <1>3 DEF try_send_answer

\* The worker either passes a request on, answers it, or loses the answer to
\* a full client queue.
LEMMA WorkerReach ==
  TypeOK /\ RejectPairing /\ PendingIsReachable /\ WorkerNext => PendingIsReachable'
  <1> SUFFICES ASSUME TypeOK, RejectPairing, PendingIsReachable, WorkerNext,
                      NEW r \in callback', leaked'[r] = "no"
               PROVE  Carried(r)'
    BY DEF PendingIsReachable
  <1> USE DEF serverVars, runtimeVars, workerVars, appVars, userVars
  <1>a. /\ event \in Seq(Events) /\ consumer \in Seq(Events)
        /\ command \in Seq(ClientMessages) /\ client \in Seq(ClientMessages)
        /\ workerHand \in Events \cup {NoMsg} /\ skipped \in Nat
        /\ callback \subseteq RequestIds /\ Turns \subseteq Nat
    BY BoundAssumption DEF TypeOK, ServerTypeOK, QueueTypeOK, TaskTypeOK, Turns
  <1>b. UNCHANGED <<hand, callback, writer, pendingApprovals, responding>>
    BY DEF WorkerNext, worker_request, detached_request, worker_resolve, worker_reject,
           worker_reject_auth, forward_lossless, forward_send, forward_best_effort
  <1>c. r \in callback /\ r \in RequestIds
    BY <1>a, <1>b
  <1>d. ASSUME leaked[r] = "no" PROVE Carried(r)
    BY <1>c, <1>d DEF PendingIsReachable
  <1>e. "error" \in AnswerTypes
    BY DEF AnswerTypes
  <1>f. ASSUME command # <<>>, NEW m, InQueue(m, command), m # Head(command),
               command' = Tail(command)
        PROVE  InQueue(m, command')
    BY <1>a, <1>f, InQueueTail
  <1>g. ASSUME event # <<>>, event' = Tail(event)
        PROVE  /\ Head(event) \in Events /\ Head(event).id \in Nat
               /\ \A m : InQueue(m, event) /\ m # Head(event) => InQueue(m, event')
    BY <1>a, <1>g, InQueueTail, QueueTail, MessageFields
  <1>1. CASE worker_request
    <2>1. \A a \in AnswerTypes : Message(a, r) # Head(command)
      BY <1>1 DEF worker_request, Message, AnswerTypes
    <2>2. /\ command # <<>> /\ command' = Tail(command)
          /\ UNCHANGED <<event, consumer, rejecting, awaiting, client, leaked>>
      BY <1>1 DEF worker_request
    <2> QED
      BY <1>b, <1>d, <1>f, <2>1, <2>2 DEF Carried
  <1>2. ASSUME NEW t \in Turns, detached_request(t)
        PROVE  Carried(r)'
    <2>1. Message("turn", t) \in ClientMessages
      BY <1>a, MessageInClient
    <2>2. UNCHANGED client \/ client' = Append(client, Message("turn", t))
      BY <1>2 DEF detached_request
    <2>3. \A m : InQueue(m, client) => InQueue(m, client')
      <3>1. CASE client' = Append(client, Message("turn", t))
        BY <1>a, <2>1, <3>1, InQueueAppend
      <3>2. CASE UNCHANGED client
        BY <3>2
      <3> QED
        BY <2>2, <3>1, <3>2
    <2>4. UNCHANGED <<event, consumer, rejecting, awaiting, command, leaked>>
      BY <1>2 DEF detached_request
    <2> QED
      BY <1>b, <1>d, <2>3, <2>4 DEF Carried
  <1>3. CASE worker_resolve
    <2>1. /\ command # <<>> /\ command' = Tail(command)
          /\ Head(command).type \in AnswerTypes
          /\ UNCHANGED <<event, consumer, rejecting, awaiting>>
      BY <1>3 DEF worker_resolve, AnswerTypes
    <2>2. Head(command).id \in Nat
      BY <1>a, <2>1, QueueTail, ClientMessageFields
    <2>3. /\ leaked[r] = "no" /\ \A m : InQueue(m, client) => InQueue(m, client')
          /\ Head(command).id = r => InQueue(Message(Head(command).type, r), client')
      BY <1>3, <1>c, <2>1, <2>2, AnswerKept DEF worker_resolve, LeakSites
    <2>4. ASSUME NEW a \in AnswerTypes, InQueue(Message(a, r), command)
          PROVE  InQueue(Message(a, r), command') \/ InQueue(Message(a, r), client')
      <3>1. CASE Message(a, r) = Head(command)
        BY <2>3, <3>1 DEF Message
      <3> QED
        BY <1>f, <2>1, <2>4, <3>1
    <2> QED
      BY <1>b, <1>d, <2>1, <2>3, <2>4 DEF Carried
  <1>4. CASE worker_reject
    <2>1. /\ command # <<>> /\ command' = Tail(command)
          /\ Head(command).type = "error"
          /\ UNCHANGED <<event, consumer>>
      BY <1>4 DEF worker_reject
    <2>2. Head(command).id \in Nat
      BY <1>a, <2>1, QueueTail, ClientMessageFields
    <2>3. /\ leaked[r] = "no" /\ \A m : InQueue(m, client) => InQueue(m, client')
          /\ Head(command).id = r => InQueue(Message("error", r), client')
      BY <1>4, <1>c, <1>e, <2>2, AnswerKept DEF worker_reject, LeakSites
    <2>4. ASSUME NEW a \in AnswerTypes, InQueue(Message(a, r), command)
          PROVE  InQueue(Message(a, r), command') \/ InQueue(Message(a, r), client')
      <3>1. CASE Message(a, r) = Head(command)
        BY <2>1, <2>3, <3>1 DEF Message
      <3> QED
        BY <1>f, <2>1, <2>4, <3>1
    <2>5. awaiting # 0
      <3>1. Head(command) = command[1] /\ 1 \in 1..Len(command)
        BY <1>a, <2>1, HeadTailProperties, EmptySeq, LenProperties
      <3> QED
        BY <2>1, <3>1 DEF RejectPairing
    <2> QED
      BY <1>b, <1>d, <2>1, <2>3, <2>4, <2>5 DEF Carried
  <1>5. CASE worker_reject_auth
    <2>1. /\ event # <<>> /\ event' = Tail(event)
          /\ UNCHANGED <<consumer, rejecting, awaiting, command>>
      BY <1>5 DEF worker_reject_auth, WorkerTakes
    <2>2. /\ leaked[r] = "no" /\ \A m : InQueue(m, client) => InQueue(m, client')
          /\ Head(event).id = r => InQueue(Message("error", r), client')
      BY <1>5, <1>c, <1>e, <1>g, <2>1, AnswerKept DEF worker_reject_auth, LeakSites
    <2>3. Head(event) = Message("req", r) => Head(event).id = r
      BY DEF Message
    <2> QED
      BY <1>b, <1>d, <1>e, <1>g, <2>1, <2>2, <2>3 DEF Carried
  <1>6. CASE forward_lossless
    <2>1. /\ event # <<>> /\ event' = Tail(event) /\ Head(event) # Message("req", r)
          /\ UNCHANGED <<consumer, rejecting, awaiting, command, client, leaked>>
      BY <1>6 DEF forward_lossless, WorkerTakes, ClientRequiresDelivery, Message
    <2> QED
      BY <1>b, <1>d, <1>g, <2>1 DEF Carried
  <1>7. CASE forward_send
    <2>1. /\ workerHand \in Events
          /\ UNCHANGED <<event, rejecting, awaiting, command, client, leaked>>
          /\ \/ consumer' = Append(consumer, Message("lagged", skipped))
             \/ consumer' = Append(consumer, workerHand)
      BY <1>7, <1>a DEF forward_send
    <2>2. Message("lagged", skipped) \in Events
      BY <1>a, MessageInEvents DEF EventTypes
    <2>3. \A m : InQueue(m, consumer) => InQueue(m, consumer')
      <3>1. CASE consumer' = Append(consumer, Message("lagged", skipped))
        BY <1>a, <2>2, <3>1, InQueueAppend
      <3>2. CASE consumer' = Append(consumer, workerHand)
        BY <1>a, <2>1, <3>2, InQueueAppend
      <3> QED
        BY <2>1, <3>1, <3>2
    <2> QED
      BY <1>b, <1>d, <2>1, <2>3 DEF Carried
  <1>8. CASE forward_best_effort
    <2> DEFINE marked == Len(consumer) < Cap /\ skipped > 0
               flushed == IF marked THEN Append(consumer, Message("lagged", skipped))
                                    ELSE consumer
    <2>1. /\ event # <<>> /\ event' = Tail(event)
          /\ UNCHANGED <<rejecting, awaiting, command>>
      BY <1>8 DEF forward_best_effort, WorkerTakes
    <2>2. Message("lagged", skipped) \in Events
      BY <1>a, MessageInEvents DEF EventTypes
    <2>3. flushed \in Seq(Events) /\ \A m : InQueue(m, consumer) => InQueue(m, flushed)
      <3>1. CASE marked
        BY <1>a, <2>2, <3>1, InQueueAppend, QueueAppend
      <3>2. CASE ~marked
        BY <1>a, <3>2
      <3> QED
        BY <3>1, <3>2
    <2>4. \/ consumer' = Append(flushed, Head(event)) /\ UNCHANGED <<client, leaked>>
          \/ consumer' = flushed /\ reject_dropped(Head(event))
      BY <1>8 DEF forward_best_effort
    <2> HIDE DEF flushed
    <2>5. CASE consumer' = Append(flushed, Head(event)) /\ UNCHANGED <<client, leaked>>
      <3>1. \A m : InQueue(m, consumer') <=> InQueue(m, flushed) \/ m = Head(event)
        BY <1>g, <2>1, <2>3, <2>5, InQueueAppend
      <3> QED
        BY <1>b, <1>d, <1>g, <2>1, <2>3, <2>5, <3>1 DEF Carried
    <2>6. CASE consumer' = flushed /\ reject_dropped(Head(event))
      <3>1. CASE Head(event).type = "req"
        <4>1. /\ leaked[r] = "no" /\ \A m : InQueue(m, client) => InQueue(m, client')
              /\ Head(event).id = r => InQueue(Message("error", r), client')
          BY <1>c, <1>e, <1>g, <2>1, <2>6, <3>1, AnswerKept DEF reject_dropped, LeakSites
        <4>2. Head(event) = Message("req", r) => Head(event).id = r
          BY DEF Message
        <4> QED
          BY <1>b, <1>d, <1>e, <1>g, <2>1, <2>3, <2>6, <4>1, <4>2 DEF Carried
      <3>2. CASE Head(event).type # "req"
        <4>1. Head(event) # Message("req", r) /\ UNCHANGED <<client, leaked>>
          BY <2>6, <3>2 DEF reject_dropped, Message
        <4> QED
          BY <1>b, <1>d, <1>g, <2>1, <2>3, <2>6, <4>1 DEF Carried
      <3> QED
        BY <3>1, <3>2
    <2> QED
      BY <2>4, <2>5, <2>6
  <1> QED
    BY <1>1, <1>2, <1>3, <1>4, <1>5, <1>6, <1>7, <1>8 DEF WorkerNext

\* The app parks or rejects what it takes, the user's answer is queued.
LEMMA AppReach ==
  TypeOK /\ RejectPairing /\ PendingIsReachable /\ (AppNext \/ UserNext)
    => PendingIsReachable'
  <1> SUFFICES ASSUME TypeOK, RejectPairing, PendingIsReachable, AppNext \/ UserNext,
                      NEW r \in callback', leaked'[r] = "no"
               PROVE  Carried(r)'
    BY DEF PendingIsReachable
  <1> USE DEF serverVars, runtimeVars, workerVars, appVars, userVars
  <1>a. /\ consumer \in Seq(Events) /\ command \in Seq(ClientMessages)
        /\ responding \in [RequestIds -> {"none", "accept", "decline"}]
        /\ rejecting \in Nat /\ RequestIds \subseteq Nat /\ Turns \subseteq Nat
    BY BoundAssumption DEF TypeOK, UserTypeOK, QueueTypeOK, TaskTypeOK, RequestIds, Turns
  <1>b. UNCHANGED <<hand, callback, writer, event, client, leaked>>
    BY DEF AppNext, UserNext, app_notification, app_server_request, app_reject_send,
           respond_to_patch_approval, resolve_server_request, send_message
  <1>c. Carried(r) /\ r \in RequestIds
    BY <1>b DEF PendingIsReachable, TypeOK, ServerTypeOK
  <1>d. ASSUME consumer # <<>>, consumer' = Tail(consumer)
        PROVE  \A m : InQueue(m, consumer) /\ m # Head(consumer) => InQueue(m, consumer')
    BY <1>a, <1>d, InQueueTail
  <1>e. ASSUME NEW x \in ClientMessages, command' = Append(command, x)
        PROVE  \A m : InQueue(m, command) \/ m = x => InQueue(m, command')
    BY <1>a, <1>e, InQueueAppend
  <1>1. CASE app_notification
    <2>1. /\ consumer # <<>> /\ consumer' = Tail(consumer)
          /\ Head(consumer) # Message("req", r)
          /\ UNCHANGED <<rejecting, awaiting, pendingApprovals, responding, command>>
      BY <1>1 DEF app_notification, AppTakes, Message
    <2> QED
      BY <1>b, <1>c, <1>d, <2>1 DEF Carried
  <1>2. CASE app_server_request
    <2>1. /\ consumer # <<>> /\ consumer' = Tail(consumer) /\ rejecting = 0
          /\ UNCHANGED <<awaiting, responding, command>>
      BY <1>2 DEF app_server_request, AppTakes
    <2>2. awaiting = 0 /\ rejecting # r
      BY <1>a, <1>c, <2>1 DEF RejectPairing, RequestIds
    <2>3. pendingApprovals \subseteq pendingApprovals'
      BY <1>2 DEF app_server_request, park
    <2>4. Head(consumer) = Message("req", r) => rejecting' = r \/ r \in pendingApprovals'
      BY <1>2 DEF app_server_request, park, Message
    <2> QED
      BY <1>b, <1>c, <1>d, <2>1, <2>2, <2>3, <2>4 DEF Carried
  <1>3. CASE app_reject_send
    <2>1. Message("error", rejecting) \in ClientMessages
      BY <1>a, MessageInClient
    <2>2. /\ command' = Append(command, Message("error", rejecting))
          /\ UNCHANGED <<consumer, rejecting, pendingApprovals, responding>>
      BY <1>3 DEF app_reject_send
    <2>3. rejecting = r => InQueue(Message("error", r), command') /\ "error" \in AnswerTypes
      BY <1>e, <2>1, <2>2 DEF AnswerTypes
    <2> QED
      BY <1>b, <1>c, <1>e, <2>1, <2>2, <2>3 DEF Carried
  <1>4. ASSUME NEW q \in RequestIds, NEW accept \in BOOLEAN,
               respond_to_patch_approval(q, accept)
        PROVE  Carried(r)'
    <2>1. /\ pendingApprovals' = pendingApprovals \ {q}
          /\ responding' = [responding EXCEPT ![q] = decision(accept)]
          /\ UNCHANGED <<consumer, rejecting, awaiting, command>>
      BY <1>4 DEF respond_to_patch_approval, approvals_without
    <2>2. decision(accept) # "none"
      BY DEF decision
    <2>3. r \in pendingApprovals \/ responding[r] # "none"
            => r \in pendingApprovals' \/ responding'[r] # "none"
      BY <1>a, <1>c, <2>1, <2>2
    <2> QED
      BY <1>b, <1>c, <2>1, <2>3 DEF Carried
  <1>5. ASSUME NEW q \in RequestIds, resolve_server_request(q)
        PROVE  Carried(r)'
    <2>1. /\ responding[q] \in {"accept", "decline"}
          /\ command' = Append(command, Message(responding[q], q))
          /\ responding' = [responding EXCEPT ![q] = "none"]
          /\ UNCHANGED <<consumer, rejecting, awaiting, pendingApprovals>>
      BY <1>5, <1>a DEF resolve_server_request
    <2>2. Message(responding[q], q) \in ClientMessages /\ responding[q] \in AnswerTypes
      BY <1>a, <2>1, MessageInClient DEF AnswerTypes
    <2>3. q = r => InQueue(Message(responding[q], r), command')
      BY <1>e, <2>1, <2>2
    <2>4. q # r => responding'[r] = responding[r]
      BY <1>a, <1>c, <2>1
    <2> QED
      BY <1>b, <1>c, <1>e, <2>1, <2>2, <2>3, <2>4 DEF Carried
  <1>6. ASSUME NEW t \in Turns, send_message(t)
        PROVE  Carried(r)'
    <2>1. Message("turn", t) \in ClientMessages
      BY <1>a, MessageInClient
    <2>2. /\ command' = Append(command, Message("turn", t))
          /\ UNCHANGED <<consumer, rejecting, awaiting, pendingApprovals, responding>>
      BY <1>6 DEF send_message
    <2> QED
      BY <1>b, <1>c, <1>e, <2>1, <2>2 DEF Carried
  <1> QED
    BY <1>1, <1>2, <1>3, <1>4, <1>5, <1>6 DEF AppNext, UserNext

\* PendingIsReachable is not inductive alone: it needs the queue types and
\* the pairing of rejections with the app's wait.
ReachInv == TypeOK /\ RejectPairing /\ PendingIsReachable

LEMMA ReachInit == Init => ReachInv
  BY InitTypeOK, PairingInit DEF Init, ReachInv, PendingIsReachable

LEMMA ReachStep == ReachInv /\ [Next]_vars => ReachInv'
  <1> SUFFICES ASSUME ReachInv, [Next]_vars PROVE PendingIsReachable'
    BY TypeStep, PairingStep DEF ReachInv
  <1>1. CASE UNCHANGED vars
    BY <1>1 DEF ReachInv, PendingIsReachable, Carried, InQueue, vars,
                serverVars, runtimeVars, workerVars, appVars, userVars
  <1>2. CASE Next
    BY <1>2, ServerReach, RuntimeReach, WorkerReach, AppReach DEF Next, ReachInv
  <1> QED
    BY <1>1, <1>2

(***************************************************************************)
(* No server request is forgotten: while the server waits for an answer,   *)
(* the request or its answer is in some queue or hand, unless the answer   *)
(* was lost to a full client queue.  For every capacity, every number of   *)
(* threads and requests, and every interleaving of the actors.             *)
(***************************************************************************)
THEOREM PendingReachable == Spec => []PendingIsReachable
  <1>1. ReachInv => PendingIsReachable
    BY DEF ReachInv
  <1> QED
    BY <1>1, ReachInit, ReachStep, PTL DEF Spec

(***************************************************************************)
(* The reply to a rejection always belongs to the wait it ends.            *)
(***************************************************************************)
THEOREM RejectionsPaired == Spec => []RejectPairing
  <1>1. ReachInv => RejectPairing
    BY DEF ReachInv
  <1> QED
    BY <1>1, ReachInit, ReachStep, PTL DEF Spec
-----------------------------------------------------------------------------
(* Settled once, and accepted only by the user: RequestLedger.             *)

\* The callback map holds exactly the requests without an outcome, ...
PendingEntries == \A r \in RequestIds : r \in callback <=> outcome[r] = "pending"

\* ... ids not yet drawn have no history, ...
FreshIds == \A r \in RequestIds : nextId <= r => outcome[r] = "unsent" /\ kindOf[r] = "none"

\* ... only patch approvals reach the user, ...
PatchOnly == \A r \in RequestIds : r \in pendingApprovals \cup accepted => kindOf[r] = "patch"

\* ... and an accept anywhere on its way back goes back to a click.
AcceptsIn(q, A) == \A i \in 1..Len(q) : q[i].type = "accept" => q[i].id \in A
ConsentTrail ==
  /\ AcceptsIn(command, accepted) /\ AcceptsIn(client, accepted)
  /\ \A r \in RequestIds : responding[r] = "accept" \/ outcome[r] = "accept" => r \in accepted

LedgerInv == TypeOK /\ PendingEntries /\ FreshIds /\ PatchOnly /\ ConsentTrail

LEMMA AcceptsAppend ==
  ASSUME NEW S, NEW q \in Seq(S), NEW e \in S, NEW A, AcceptsIn(q, A),
         e.type = "accept" => e.id \in A
  PROVE  AcceptsIn(Append(q, e), A)
  <1>1. /\ Len(Append(q, e)) = Len(q) + 1 /\ Len(q) \in Nat
        /\ Append(q, e)[Len(q) + 1] = e
        /\ \A i \in 1..Len(q) : Append(q, e)[i] = q[i]
    BY AppendProperties, LenProperties
  <1> QED
    BY <1>1 DEF AcceptsIn

LEMMA AcceptsTail ==
  ASSUME NEW S, NEW q \in Seq(S), q # <<>>, NEW A, AcceptsIn(q, A)
  PROVE  AcceptsIn(Tail(q), A) /\ (Head(q).type = "accept" => Head(q).id \in A)
  <1>1. /\ Len(Tail(q)) = Len(q) - 1 /\ Len(q) \in Nat \ {0}
        /\ Head(q) = q[1]
        /\ \A i \in 1..(Len(q) - 1) : Tail(q)[i] = q[i + 1]
    BY HeadTailProperties, LenProperties, EmptySeq
  <1> QED
    BY <1>1 DEF AcceptsIn

\* The four ways a step can touch the callback map.
LEMMA LedgerCases ==
  ASSUME LedgerInv, Next
  PROVE  \/ \E s \in Senders, k \in Kinds : send_request_to_connections(s, k)
         \/ \E s \in Threads, c \in NoteClasses : turn_transition(s, c)
         \/ \E r \in Nat, result \in Settlements :
              /\ take_request_callback(r, result)
              /\ result = "accept" => r \in accepted
              /\ UNCHANGED <<nextId, kindOf, accepted>>
         \/ UNCHANGED <<nextId, callback, kindOf, outcome>>
  <1> USE DEF serverVars, runtimeVars, workerVars, appVars, userVars
  <1>a. /\ writer \in Seq(Events) /\ client \in Seq(ClientMessages) /\ RequestIds \subseteq Nat
        /\ {"error", "cancelled"} \subseteq Settlements
    BY BoundAssumption DEF LedgerInv, TypeOK, QueueTypeOK, RequestIds, Settlements
  <1>1. ASSUME NEW r \in RequestIds, auth_refresh_timeout(r)
        PROVE  /\ take_request_callback(r, "cancelled") /\ r \in Nat
               /\ UNCHANGED <<nextId, kindOf, accepted>>
    BY <1>1, <1>a DEF auth_refresh_timeout
  <1>2. CASE runtime_request
    <2>1. Head(writer).id \in Nat
      BY <1>2, <1>a, QueueTail, MessageFields DEF runtime_request, RuntimeTakes
    <2> QED
      BY <1>2, <1>a, <2>1 DEF runtime_request
  <1>3. CASE runtime_server_request_answer
    <2>1. client # <<>> /\ AcceptsIn(client, accepted)
      BY <1>3 DEF runtime_server_request_answer, LedgerInv, ConsentTrail
    <2>2. Head(client).id \in Nat /\ Head(client).type \in Settlements
          /\ (Head(client).type = "accept" => Head(client).id \in accepted)
      BY <1>3, <1>a, <2>1, QueueTail, ClientMessageFields, AcceptsTail
         DEF runtime_server_request_answer, Settlements
    <2> QED
      BY <1>3, <2>2 DEF runtime_server_request_answer
  <1> QED
    BY <1>1, <1>2, <1>3, <1>a, Frames
    DEF Next, ServerNext, RuntimeNext, send_server_notification, outgoing_send,
        process_client_request, runtime_response, runtime_notification,
        runtime_event_send, runtime_client_request

LEMMA LedgerInit == Init => LedgerInv
  <1> SUFFICES ASSUME Init PROVE LedgerInv
    OBVIOUS
  <1>1. AcceptsIn(<<>>, accepted)
    BY DEF AcceptsIn
  <1>2. PendingEntries /\ FreshIds /\ PatchOnly
    BY DEF Init, PendingEntries, FreshIds, PatchOnly
  <1>3. ConsentTrail
    BY <1>1 DEF Init, ConsentTrail
  <1> QED
    BY <1>2, <1>3, InitTypeOK DEF LedgerInv

LEMMA EntriesStep == LedgerInv /\ Next => PendingEntries' /\ FreshIds'
  <1> SUFFICES ASSUME LedgerInv, Next PROVE PendingEntries' /\ FreshIds'
    OBVIOUS
  <1> USE DEF PendingEntries, FreshIds
  <1>a. /\ outcome \in [RequestIds -> Settlements \cup {"unsent", "pending"}]
        /\ kindOf \in [RequestIds -> Kinds \cup {"none"}]
        /\ callback \subseteq RequestIds /\ RequestIds \subseteq Nat /\ nextId \in Nat
        /\ "pending" \notin Settlements /\ PendingEntries /\ FreshIds
    BY BoundAssumption DEF LedgerInv, TypeOK, ServerTypeOK, RequestIds, Settlements
  <1>1. ASSUME NEW s \in Senders, NEW k \in Kinds, send_request_to_connections(s, k)
        PROVE  PendingEntries' /\ FreshIds'
    BY <1>1, <1>a DEF send_request_to_connections
  <1>2. ASSUME NEW s \in Threads, NEW c \in NoteClasses, turn_transition(s, c)
        PROVE  PendingEntries' /\ FreshIds'
    BY <1>2, <1>a DEF turn_transition, cancel_requests_for_thread
  <1>3. ASSUME NEW r \in Nat, NEW result \in Settlements, take_request_callback(r, result),
               UNCHANGED <<nextId, kindOf>>
        PROVE  PendingEntries' /\ FreshIds'
    BY <1>3, <1>a DEF take_request_callback
  <1>4. CASE UNCHANGED <<nextId, callback, kindOf, outcome>>
    BY <1>4, <1>a
  <1> QED
    BY <1>1, <1>2, <1>3, <1>4, LedgerCases

LEMMA PatchStep == LedgerInv /\ Next => PatchOnly'
  <1> SUFFICES ASSUME LedgerInv, Next PROVE PatchOnly'
    OBVIOUS
  <1> USE DEF serverVars, runtimeVars, workerVars, appVars, userVars
  <1>a. /\ kindOf \in [RequestIds -> Kinds \cup {"none"}] /\ PatchOnly
        /\ RequestIds \subseteq Nat /\ nextId \in Nat /\ FreshIds
    BY BoundAssumption DEF LedgerInv, TypeOK, ServerTypeOK, RequestIds
  <1>1. ASSUME NEW s \in Senders, NEW k \in Kinds, send_request_to_connections(s, k)
        PROVE  PatchOnly'
    <2>1. UNCHANGED <<pendingApprovals, accepted>>
      BY <1>1 DEF send_request_to_connections
    <2>2. \A r \in RequestIds : kindOf[r] = "patch" => kindOf'[r] = "patch"
      BY <1>1, <1>a DEF send_request_to_connections, FreshIds
    <2> QED
      BY <1>a, <2>1, <2>2 DEF PatchOnly
  <1>2. CASE app_server_request
    <2>1. /\ UNCHANGED <<kindOf, accepted>>
          /\ \A r \in pendingApprovals' : r \in pendingApprovals \/ kindOf[r] = "patch"
      BY <1>2 DEF app_server_request, park
    <2> QED
      BY <1>a, <2>1 DEF PatchOnly
  <1>3. ASSUME NEW r \in RequestIds, NEW accept \in BOOLEAN,
               respond_to_patch_approval(r, accept)
        PROVE  PatchOnly'
    <2>1. UNCHANGED kindOf
      BY <1>3 DEF respond_to_patch_approval
    <2>2. pendingApprovals' \cup accepted' \subseteq pendingApprovals \cup accepted
      <3>1. r \in pendingApprovals /\ pendingApprovals' = pendingApprovals \ {r}
        BY <1>3 DEF respond_to_patch_approval, approvals_without
      <3>2. accepted' = accepted \cup {r} \/ accepted' = accepted
        BY <1>3 DEF respond_to_patch_approval
      <3> QED
        BY <3>1, <3>2
    <2> QED
      BY <1>a, <2>1, <2>2 DEF PatchOnly
  <1>4. CASE UNCHANGED <<kindOf, pendingApprovals, accepted>>
    BY <1>4, <1>a DEF PatchOnly
  <1> QED
    BY <1>1, <1>2, <1>3, <1>4, Frames
    DEF Next, ServerNext, AppNext, UserNext, send_server_notification, turn_transition,
        auth_refresh_timeout, outgoing_send, process_client_request,
        app_notification, app_reject_send, resolve_server_request, send_message

\* An answer adds to the client queue, if at all, only itself.
LEMMA AnswerTrail ==
  ASSUME LedgerInv, NEW r \in Nat, NEW a \in AnswerTypes, NEW site \in LeakSites,
         try_send_answer(r, a, site), a = "accept" => r \in accepted
  PROVE  AcceptsIn(client', accepted)
  <1>1. /\ client \in Seq(ClientMessages) /\ Message(a, r) \in ClientMessages
        /\ AcceptsIn(client, accepted)
        /\ Message(a, r).type = a /\ Message(a, r).id = r
    BY MessageInClient DEF LedgerInv, TypeOK, QueueTypeOK, ConsentTrail, AnswerTypes, Message
  <1>2. CASE client' = Append(client, Message(a, r))
    BY <1>1, <1>2, AcceptsAppend
  <1>3. CASE UNCHANGED client
    BY <1>1, <1>3
  <1> QED
    BY <1>2, <1>3 DEF try_send_answer

LEMMA TrailStep == LedgerInv /\ Next => ConsentTrail'
  <1> SUFFICES ASSUME LedgerInv, Next PROVE ConsentTrail'
    OBVIOUS
  <1> USE DEF serverVars, runtimeVars, workerVars, appVars, userVars
  <1>a. /\ command \in Seq(ClientMessages) /\ client \in Seq(ClientMessages)
        /\ event \in Seq(Events) /\ RequestIds \subseteq Nat /\ Turns \subseteq Nat
        /\ rejecting \in Nat
        /\ responding \in [RequestIds -> {"none", "accept", "decline"}]
        /\ outcome \in [RequestIds -> Settlements \cup {"unsent", "pending"}]
        /\ "error" \in AnswerTypes
    BY BoundAssumption DEF LedgerInv, TypeOK, QueueTypeOK, UserTypeOK, ServerTypeOK, TaskTypeOK,
                           RequestIds, Turns, AnswerTypes
  <1>b. /\ AcceptsIn(command, accepted) /\ AcceptsIn(client, accepted)
        /\ \A r \in RequestIds :
             responding[r] = "accept" \/ outcome[r] = "accept" => r \in accepted
    BY DEF LedgerInv, ConsentTrail
  <1>c. accepted \subseteq accepted'
        /\ \A q : AcceptsIn(q, accepted) => AcceptsIn(q, accepted')
    <2>1. accepted \subseteq accepted'
      BY Frames DEF Next, UserNext, respond_to_patch_approval, resolve_server_request,
                    send_message
    <2> QED
      BY <2>1 DEF AcceptsIn
  <1>1. \A r \in RequestIds : outcome'[r] = "accept" => r \in accepted'
    <2> SUFFICES ASSUME NEW r \in RequestIds, outcome'[r] = "accept" PROVE r \in accepted
      BY <1>c
    <2>1. ASSUME NEW s \in Senders, NEW k \in Kinds, send_request_to_connections(s, k)
          PROVE  r \in accepted
      BY <1>a, <1>b, <2>1 DEF send_request_to_connections
    <2>2. ASSUME NEW s \in Threads, NEW c \in NoteClasses, turn_transition(s, c)
          PROVE  r \in accepted
      BY <1>a, <1>b, <2>2 DEF turn_transition, cancel_requests_for_thread
    <2>3. ASSUME NEW q \in Nat, NEW result \in Settlements, take_request_callback(q, result),
                 result = "accept" => q \in accepted
          PROVE  r \in accepted
      BY <1>a, <1>b, <2>3 DEF take_request_callback
    <2>4. CASE UNCHANGED outcome
      BY <1>b, <2>4
    <2> QED
      BY <2>1, <2>2, <2>3, <2>4, LedgerCases
  <1>2. \A r \in RequestIds : responding'[r] = "accept" => r \in accepted'
    <2>1. ASSUME NEW r \in RequestIds, NEW accept \in BOOLEAN,
                 respond_to_patch_approval(r, accept)
          PROVE  \A q \in RequestIds : responding'[q] = "accept" => q \in accepted'
      BY <1>a, <1>b, <1>c, <2>1 DEF respond_to_patch_approval, decision
    <2>2. ASSUME NEW r \in RequestIds, resolve_server_request(r)
          PROVE  \A q \in RequestIds : responding'[q] = "accept" => q \in accepted'
      BY <1>a, <1>b, <1>c, <2>2 DEF resolve_server_request
    <2>3. CASE UNCHANGED responding
      BY <1>b, <1>c, <2>3
    <2> QED
      BY <2>1, <2>2, <2>3, Frames DEF Next, UserNext, send_message
  <1>3. AcceptsIn(client', accepted)
    <2>1. CASE runtime_server_request_answer \/ runtime_client_request
      <3>1. client # <<>> /\ client' = Tail(client)
        BY <2>1 DEF runtime_server_request_answer, runtime_client_request
      <3> QED
        BY <1>a, <1>b, <3>1, AcceptsTail
    <2>2. ASSUME NEW t \in Turns, detached_request(t)
          PROVE  AcceptsIn(client', accepted)
      <3>1. Message("turn", t) \in ClientMessages /\ Message("turn", t).type # "accept"
        BY <1>a, MessageInClient DEF Message
      <3>2. CASE client' = Append(client, Message("turn", t))
        BY <1>a, <1>b, <3>1, <3>2, AcceptsAppend
      <3>3. CASE UNCHANGED client
        BY <1>b, <3>3
      <3> QED
        BY <2>2, <3>2, <3>3 DEF detached_request
    <2>3. CASE worker_resolve
      <3>1. command # <<>> /\ Head(command).type \in AnswerTypes
            /\ "resolve" \in LeakSites
        BY <2>3 DEF worker_resolve, AnswerTypes, LeakSites
      <3>2. Head(command).id \in Nat
            /\ (Head(command).type = "accept" => Head(command).id \in accepted)
        BY <1>a, <1>b, <3>1, QueueTail, ClientMessageFields, AcceptsTail
      <3> QED
        BY <2>3, <3>1, <3>2, AnswerTrail DEF worker_resolve
    <2>4. CASE worker_reject
      <3>1. Head(command).id \in Nat /\ "reject" \in LeakSites
        BY <1>a, <2>4, QueueTail, ClientMessageFields DEF worker_reject, LeakSites
      <3> QED
        BY <1>a, <2>4, <3>1, AnswerTrail DEF worker_reject
    <2>5. CASE worker_reject_auth
      <3>1. Head(event).id \in Nat /\ "auth" \in LeakSites
        BY <1>a, <2>5, QueueTail, MessageFields DEF worker_reject_auth, WorkerTakes, LeakSites
      <3> QED
        BY <1>a, <2>5, <3>1, AnswerTrail DEF worker_reject_auth
    <2>6. CASE forward_best_effort
      <3>1. Head(event).id \in Nat /\ "overflow" \in LeakSites
        BY <1>a, <2>6, QueueTail, MessageFields DEF forward_best_effort, WorkerTakes, LeakSites
      <3>2. UNCHANGED client \/ try_send_answer(Head(event).id, "error", "overflow")
        BY <2>6 DEF forward_best_effort, reject_dropped
      <3>3. CASE UNCHANGED client
        BY <1>b, <3>3
      <3>4. CASE try_send_answer(Head(event).id, "error", "overflow")
        BY <1>a, <3>1, <3>4, AnswerTrail
      <3> QED
        BY <3>2, <3>3, <3>4
    <2>7. CASE UNCHANGED client
      BY <1>b, <2>7
    <2> QED
      BY <2>1, <2>2, <2>3, <2>4, <2>5, <2>6, <2>7, Frames
      DEF Next, RuntimeNext, WorkerNext, runtime_response, runtime_request,
          runtime_notification, runtime_event_send, worker_request, forward_lossless,
          forward_send
  <1>4. AcceptsIn(command', accepted)
    <2>1. CASE worker_request \/ worker_resolve \/ worker_reject
      <3>1. command # <<>> /\ command' = Tail(command)
        BY <2>1 DEF worker_request, worker_resolve, worker_reject
      <3> QED
        BY <1>a, <1>b, <3>1, AcceptsTail
    <2>2. CASE app_reject_send
      <3>1. /\ Message("error", rejecting) \in ClientMessages
            /\ Message("error", rejecting).type # "accept"
        BY <1>a, MessageInClient DEF Message
      <3> QED
        BY <1>a, <1>b, <2>2, <3>1, AcceptsAppend DEF app_reject_send
    <2>3. ASSUME NEW r \in RequestIds, resolve_server_request(r)
          PROVE  AcceptsIn(command', accepted)
      <3>1. responding[r] \in {"accept", "decline"} /\ r \in Nat
        BY <1>a, <2>3 DEF resolve_server_request
      <3>2. /\ Message(responding[r], r) \in ClientMessages
            /\ Message(responding[r], r).type = responding[r]
            /\ Message(responding[r], r).id = r
        BY <3>1, MessageInClient DEF Message
      <3>3. Message(responding[r], r).type = "accept"
              => Message(responding[r], r).id \in accepted
        BY <1>b, <3>2
      <3> QED
        BY <1>a, <1>b, <2>3, <3>2, <3>3, AcceptsAppend DEF resolve_server_request
    <2>4. ASSUME NEW t \in Turns, send_message(t)
          PROVE  AcceptsIn(command', accepted)
      <3>1. Message("turn", t) \in ClientMessages /\ Message("turn", t).type # "accept"
        BY <1>a, MessageInClient DEF Message
      <3> QED
        BY <1>a, <1>b, <2>4, <3>1, AcceptsAppend DEF send_message
    <2>5. CASE UNCHANGED command
      BY <1>b, <2>5
    <2> QED
      BY <2>1, <2>2, <2>3, <2>4, <2>5, Frames
      DEF Next, WorkerNext, AppNext, UserNext, detached_request, worker_reject_auth,
          forward_lossless, forward_send, forward_best_effort, app_notification,
          app_server_request, respond_to_patch_approval
  <1> QED
    BY <1>1, <1>2, <1>3, <1>4, <1>c DEF ConsentTrail

LEMMA LedgerStep == LedgerInv /\ [Next]_vars => LedgerInv'
  <1>1. LedgerInv /\ UNCHANGED vars => LedgerInv'
    <2> SUFFICES ASSUME LedgerInv, UNCHANGED vars PROVE LedgerInv'
      OBVIOUS
    <2>1. TypeOK'
      BY TypeStep DEF LedgerInv
    <2> QED
      BY <2>1 DEF LedgerInv, PendingEntries, FreshIds, PatchOnly, ConsentTrail, AcceptsIn, vars,
                  serverVars, runtimeVars, workerVars, appVars, userVars
  <1>2. LedgerInv /\ Next => LedgerInv'
    BY TypeStep, EntriesStep, PatchStep, TrailStep DEF LedgerInv
  <1> QED
    BY <1>1, <1>2

(***************************************************************************)
(* A patch is settled with "accept" only when it is a patch approval the   *)
(* user accepted: no overload, cancellation, timeout or late answer ever   *)
(* turns into consent.                                                     *)
(***************************************************************************)
THEOREM ConsentIsTheUsers == Spec => []AcceptedByUser
  <1>1. LedgerInv => AcceptedByUser
    BY DEF LedgerInv, ConsentTrail, PatchOnly, AcceptedByUser
  <1> QED
    BY <1>1, LedgerInit, LedgerStep, PTL DEF Spec

\* Every step of the pipeline is a step of the ledger, or changes neither
\* the outcomes nor the consents.
LEMMA LedgerSim == LedgerInv /\ [Next]_vars => [Ledger!Next]_<<outcome, accepted>>
  <1> SUFFICES ASSUME LedgerInv, [Next]_vars PROVE [Ledger!Next]_<<outcome, accepted>>
    OBVIOUS
  <1> USE DEF Ledger!Requests, RequestIds
  <1>a. /\ outcome \in [RequestIds -> Settlements \cup {"unsent", "pending"}]
        /\ callback \subseteq RequestIds /\ RequestIds \subseteq Nat /\ nextId \in Nat \ {0}
        /\ PendingEntries /\ FreshIds
    BY BoundAssumption DEF LedgerInv, TypeOK, ServerTypeOK
  <1>1. ASSUME NEW s \in Senders, NEW k \in Kinds, send_request_to_connections(s, k)
        PROVE  Ledger!Next
    <2>1. nextId \in RequestIds /\ outcome[nextId] = "unsent"
      BY <1>1, <1>a, BoundAssumption DEF send_request_to_connections, FreshIds
    <2>2. Ledger!Issue(nextId)
      BY <1>1, <2>1 DEF send_request_to_connections, Ledger!Issue, userVars
    <2> QED
      BY <2>1, <2>2 DEF Ledger!Next
  <1>2. ASSUME NEW s \in Threads, NEW c \in NoteClasses, turn_transition(s, c)
        PROVE  Ledger!Next
    <2> DEFINE mine == {r \in callback : threadOf[r] = s}
    <2>1. mine \in SUBSET RequestIds /\ \A r \in mine : outcome[r] = "pending"
      BY <1>a DEF PendingEntries
    <2>2. outcome' = [r \in RequestIds |-> IF r \in mine THEN "cancelled" ELSE outcome[r]]
          /\ UNCHANGED accepted
      BY <1>2 DEF turn_transition, cancel_requests_for_thread, userVars
    <2>3. Ledger!Settle(mine, "cancelled")
      BY <2>1, <2>2 DEF Ledger!Settle
    <2> QED
      BY <2>1, <2>3 DEF Ledger!Next, Ledger!Final
  <1>3. ASSUME NEW r \in Nat, NEW result \in Settlements, take_request_callback(r, result),
               result = "accept" => r \in accepted, UNCHANGED accepted
        PROVE  Ledger!Next \/ UNCHANGED <<outcome, accepted>>
    <2>1. CASE r \in callback
      <3>1. {r} \in SUBSET RequestIds /\ outcome[r] = "pending"
        BY <1>a, <2>1 DEF PendingEntries
      <3>2. outcome' = [q \in RequestIds |-> IF q \in {r} THEN result ELSE outcome[q]]
        BY <1>3, <1>a, <2>1 DEF take_request_callback
      <3>3. Ledger!Settle({r}, result)
        BY <1>3, <3>1, <3>2 DEF Ledger!Settle
      <3> QED
        BY <3>1, <3>3 DEF Ledger!Next, Ledger!Final, Settlements
    <2>2. CASE r \notin callback
      BY <1>3, <1>a, <2>2 DEF take_request_callback
    <2> QED
      BY <2>1, <2>2
  <1>4. ASSUME NEW r \in RequestIds, NEW accept \in BOOLEAN,
               respond_to_patch_approval(r, accept)
        PROVE  Ledger!Next \/ UNCHANGED <<outcome, accepted>>
    <2>1. UNCHANGED outcome /\ (accepted' = accepted \cup {r} \/ accepted' = accepted)
      BY <1>4 DEF respond_to_patch_approval, serverVars
    <2> QED
      BY <2>1 DEF Ledger!Next, Ledger!UserAccepts
  <1>5. CASE UNCHANGED vars
    BY <1>5 DEF vars, serverVars, userVars
  <1>6. CASE Next
    <2>1. UNCHANGED accepted \/ UserNext
      BY <1>6, Frames DEF Next, userVars
    <2>2. CASE UserNext
      <3>1. UNCHANGED <<outcome, accepted>>
            \/ \E r \in RequestIds, accept \in BOOLEAN : respond_to_patch_approval(r, accept)
        BY <2>2, Frames DEF UserNext, resolve_server_request, send_message, serverVars, userVars
      <3> QED
        BY <1>4, <3>1
    <2>3. CASE UNCHANGED accepted
      BY <1>1, <1>2, <1>3, <1>6, <2>3, LedgerCases
    <2> QED
      BY <2>1, <2>2, <2>3
  <1> QED
    BY <1>5, <1>6

(***************************************************************************)
(* The pipeline implements RequestLedger: each server request is issued    *)
(* once, settled at most once, and its outcome never changes after that.   *)
(***************************************************************************)
THEOREM ImplementsLedger == Spec => LedgerSpec
  <1>1. Init => Ledger!Init
    BY DEF Init, Ledger!Init, Ledger!Requests, RequestIds
  <1> QED
    BY <1>1, LedgerInit, LedgerStep, LedgerSim, PTL DEF Spec, LedgerSpec, Ledger!Spec
-----------------------------------------------------------------------------
(* Lag accounting.                                                         *)

LEMMA LagStep == TypeOK /\ LagAccounting /\ [Next]_vars => LagAccounting'
  <1> SUFFICES ASSUME TypeOK, LagAccounting, [Next]_vars PROVE LagAccounting'
    OBVIOUS
  <1> USE DEF serverVars, runtimeVars, workerVars, appVars, userVars
  <1>a. skipped \in Nat /\ owed \in Int /\ event \in Seq(Events)
        /\ owed = skipped + (IF workerHand = NoMsg THEN 0 ELSE 1)
    BY DEF TypeOK, TaskTypeOK, QueueTypeOK, LagAccounting
  <1>1. CASE forward_lossless
    <2>1. Head(event) # NoMsg
      BY <1>1, <1>a, QueueTail, MessageFields DEF forward_lossless, WorkerTakes
    <2> QED
      BY <1>1, <1>a, <2>1 DEF forward_lossless, WorkerTakes, WorkerReady, LagAccounting
  <1>2. CASE forward_send
    BY <1>2, <1>a DEF forward_send, LagAccounting
  <1>3. CASE forward_best_effort
    <2>1. workerHand = NoMsg /\ UNCHANGED workerHand
      BY <1>3 DEF forward_best_effort, WorkerTakes, WorkerReady
    <2>2. CASE skipped' = 0 /\ owed' = owed - skipped
      BY <1>a, <2>1, <2>2 DEF LagAccounting
    <2>3. CASE \E marked \in BOOLEAN :
                 /\ skipped' = skipped_after_drop(marked)
                 /\ owed' = IF marked THEN owed + 1 - skipped ELSE owed + 1
      BY <1>a, <2>1, <2>3 DEF LagAccounting, skipped_after_drop
    <2> QED
      BY <1>3, <2>2, <2>3 DEF forward_best_effort
  <1>4. CASE UNCHANGED <<skipped, owed, workerHand>>
    BY <1>4 DEF LagAccounting
  <1> QED
    BY <1>1, <1>2, <1>3, <1>4
    DEF Next, ServerNext, RuntimeNext, WorkerNext, AppNext, UserNext, vars,
        send_request_to_connections, send_server_notification, turn_transition,
        auth_refresh_timeout, outgoing_send, process_client_request, runtime_response,
        runtime_request, runtime_notification, runtime_event_send,
        runtime_server_request_answer, runtime_client_request, worker_request,
        detached_request, worker_resolve, worker_reject, worker_reject_auth,
        app_notification, app_server_request, app_reject_send,
        respond_to_patch_approval, resolve_server_request, send_message

(***************************************************************************)
(* The worker's skipped_events counter accounts for every event it took    *)
(* and did not deliver, for every capacity and every interleaving.         *)
(***************************************************************************)
THEOREM LagIsAccounted == Spec => []LagAccounting
  <1>1. Init => LagAccounting
    BY DEF Init, LagAccounting
  <1> QED
    BY <1>1, InitTypeOK, TypeStep, LagStep, PTL DEF Spec
-----------------------------------------------------------------------------
(* A request is never in two places.                                       *)

\* The positions of a queue that hold a message of M, and their number.
Spots(q, M) == {i \in 1..Len(q) : q[i] \in M}
Count(q, M) == Cardinality(Spots(q, M))

LEMMA SpotsFinite ==
  ASSUME NEW S, NEW q \in Seq(S), NEW M
  PROVE  /\ IsFiniteSet(Spots(q, M)) /\ Count(q, M) \in Nat
         /\ Len(q) \in Nat
  <1>1. Len(q) \in Nat
    BY LenProperties
  <1>2. IsFiniteSet(1..Len(q)) /\ Spots(q, M) \in SUBSET (1..Len(q))
    BY <1>1, FS_Interval DEF Spots
  <1>3. IsFiniteSet(Spots(q, M))
    BY <1>2, FS_Subset
  <1> QED
    BY <1>1, <1>3, FS_CardinalityType DEF Count

\* Adding a message at the end adds one spot at most, ...
LEMMA CountAppend ==
  ASSUME NEW S, NEW q \in Seq(S), NEW e \in S, NEW M
  PROVE  Count(Append(q, e), M) = Count(q, M) + (IF e \in M THEN 1 ELSE 0)
  <1>1. /\ Len(Append(q, e)) = Len(q) + 1 /\ Len(q) \in Nat
        /\ Append(q, e)[Len(q) + 1] = e
        /\ \A i \in 1..Len(q) : Append(q, e)[i] = q[i]
    BY AppendProperties, LenProperties
  <1>2. IsFiniteSet(Spots(q, M)) /\ Count(q, M) \in Nat /\ Len(q) + 1 \notin Spots(q, M)
    <2>1. IsFiniteSet(Spots(q, M)) /\ Count(q, M) \in Nat
      BY SpotsFinite
    <2>2. Len(q) + 1 \notin Spots(q, M)
      BY <1>1 DEF Spots
    <2> QED
      BY <2>1, <2>2
  <1>3. CASE e \in M
    <2>1. Spots(Append(q, e), M) = Spots(q, M) \cup {Len(q) + 1}
      BY <1>1, <1>3 DEF Spots
    <2> QED
      BY <1>2, <1>3, <2>1, FS_AddElement DEF Count
  <1>4. CASE e \notin M
    <2>1. Spots(Append(q, e), M) = Spots(q, M)
      BY <1>1, <1>4 DEF Spots
    <2> QED
      BY <1>2, <1>4, <2>1 DEF Count
  <1> QED
    BY <1>3, <1>4

\* ... and taking the head removes one: the other spots shift by one.
LEMMA CountTail ==
  ASSUME NEW S, NEW q \in Seq(S), q # <<>>, NEW M
  PROVE  Count(Tail(q), M) = Count(q, M) - (IF Head(q) \in M THEN 1 ELSE 0)
  <1>1. /\ Len(Tail(q)) = Len(q) - 1 /\ Len(q) \in Nat \ {0}
        /\ Head(q) = q[1] /\ Tail(q) \in Seq(S)
        /\ \A i \in 1..(Len(q) - 1) : Tail(q)[i] = q[i + 1]
    BY HeadTailProperties, LenProperties, EmptySeq
  <1> DEFINE T == Spots(Tail(q), M)
             Q == Spots(q, M) \ {1}
             f == [i \in T |-> i + 1]
  <1>2. IsFiniteSet(T) /\ IsFiniteSet(Spots(q, M))
    BY <1>1, SpotsFinite
  <1>3. f \in Bijection(T, Q)
    <2>1. \A i \in T : i \in Nat /\ i + 1 \in Q
      BY <1>1 DEF Spots
    <2>2. f \in [T -> Q] /\ \A i, j \in T : f[i] = f[j] => i = j
      BY <2>1
    <2>3. \A j \in Q : \E i \in T : f[i] = j
      <3> SUFFICES ASSUME NEW j \in Q PROVE \E i \in T : f[i] = j
        OBVIOUS
      <3>1. j - 1 \in T /\ j \in Nat
        BY <1>1 DEF Spots
      <3>2. f[j - 1] = j
        BY <3>1
      <3> QED
        BY <3>1, <3>2
    <2> QED
      BY <2>2, <2>3 DEF Bijection, Injection, Surjection, IsInjective
  <1>4. Cardinality(Q) = Cardinality(T)
    BY <1>2, <1>3, FS_Bijection DEF ExistsBijection
  <1>5. Cardinality(Q) = IF 1 \in Spots(q, M) THEN Count(q, M) - 1 ELSE Count(q, M)
    BY <1>2, FS_RemoveElement DEF Count
  <1>6. 1 \in Spots(q, M) <=> Head(q) \in M
    BY <1>1 DEF Spots
  <1>7. Count(q, M) \in Nat /\ Count(Tail(q), M) = Cardinality(T)
    BY SpotsFinite DEF Count
  <1> QED
    BY <1>4, <1>5, <1>6, <1>7

\* The copies of a request, and of its answers, that a queue holds.
LEMMA CopiesCount ==
  ASSUME NEW q, NEW m
  PROVE  Copies(m, q) = Count(q, {m})
  BY DEF Copies, Count, Spots

AnswersTo(r) == {m \in ClientMessages : m.id = r /\ m.type \in AnswerTypes}

LEMMA AnswersCount ==
  ASSUME NEW q \in Seq(ClientMessages), NEW r
  PROVE  AnswerCopies(r, q) = Count(q, AnswersTo(r))
  <1>1. \A i \in 1..Len(q) : q[i] \in ClientMessages
    BY ElementOfSeq
  <1>2. {i \in 1..Len(q) : q[i].id = r /\ q[i].type \in AnswerTypes} = Spots(q, AnswersTo(r))
    BY <1>1 DEF Spots, AnswersTo
  <1> QED
    BY <1>2 DEF AnswerCopies, Count

LEMMA CopiesMove ==
  ASSUME NEW q \in Seq(Events), NEW m
  PROVE  /\ Copies(m, q) \in Nat
         /\ \A e \in Events : Copies(m, Append(q, e)) = Copies(m, q) + (IF e = m THEN 1 ELSE 0)
         /\ q # <<>> => Copies(m, Tail(q)) = Copies(m, q) - (IF Head(q) = m THEN 1 ELSE 0)
  <1>1. Copies(m, q) \in Nat
    BY CopiesCount, SpotsFinite
  <1>2. ASSUME NEW e \in Events
        PROVE  Copies(m, Append(q, e)) = Copies(m, q) + (IF e = m THEN 1 ELSE 0)
    <2>1. Count(Append(q, e), {m}) = Count(q, {m}) + (IF e \in {m} THEN 1 ELSE 0)
      BY CountAppend
    <2> QED
      BY <2>1, CopiesCount
  <1>3. ASSUME q # <<>>
        PROVE  Copies(m, Tail(q)) = Copies(m, q) - (IF Head(q) = m THEN 1 ELSE 0)
    <2>1. Count(Tail(q), {m}) = Count(q, {m}) - (IF Head(q) \in {m} THEN 1 ELSE 0)
      BY <1>3, CountTail
    <2> QED
      BY <2>1, CopiesCount
  <1> QED
    BY <1>1, <1>2, <1>3

LEMMA AnswersMove ==
  ASSUME NEW q \in Seq(ClientMessages), NEW r
  PROVE  /\ AnswerCopies(r, q) \in Nat
         /\ \A m \in ClientMessages :
              AnswerCopies(r, Append(q, m))
                = AnswerCopies(r, q) + (IF m.id = r /\ m.type \in AnswerTypes THEN 1 ELSE 0)
         /\ q # <<>> =>
              AnswerCopies(r, Tail(q))
                = AnswerCopies(r, q)
                  - (IF Head(q).id = r /\ Head(q).type \in AnswerTypes THEN 1 ELSE 0)
  <1>1. AnswerCopies(r, q) \in Nat
    BY AnswersCount, SpotsFinite
  <1>2. ASSUME NEW m \in ClientMessages
        PROVE  AnswerCopies(r, Append(q, m))
                 = AnswerCopies(r, q) + (IF m.id = r /\ m.type \in AnswerTypes THEN 1 ELSE 0)
    <2>1. Count(Append(q, m), AnswersTo(r))
            = Count(q, AnswersTo(r)) + (IF m \in AnswersTo(r) THEN 1 ELSE 0)
      BY CountAppend
    <2>2. m \in AnswersTo(r) <=> m.id = r /\ m.type \in AnswerTypes
      BY DEF AnswersTo
    <2>3. Append(q, m) \in Seq(ClientMessages)
      BY QueueAppend
    <2> QED
      BY <2>1, <2>2, <2>3, AnswersCount
  <1>3. ASSUME q # <<>>
        PROVE  AnswerCopies(r, Tail(q))
                 = AnswerCopies(r, q)
                   - (IF Head(q).id = r /\ Head(q).type \in AnswerTypes THEN 1 ELSE 0)
    <2>1. Count(Tail(q), AnswersTo(r))
            = Count(q, AnswersTo(r)) - (IF Head(q) \in AnswersTo(r) THEN 1 ELSE 0)
      BY <1>3, CountTail
    <2>2. Tail(q) \in Seq(ClientMessages) /\ Head(q) \in ClientMessages
      BY <1>3, QueueTail
    <2>3. Head(q) \in AnswersTo(r) <=> Head(q).id = r /\ Head(q).type \in AnswerTypes
      BY <2>2 DEF AnswersTo
    <2> QED
      BY <2>1, <2>2, <2>3, AnswersCount
  <1> QED
    BY <1>1, <1>2, <1>3

\* The server tasks whose hand h holds request r.
Hands(r, h) == Cardinality({s \in Senders : h[s] = Message("req", r)})

LEMMA HandsMove ==
  ASSUME NEW h \in [Senders -> Events \cup {NoMsg}], NEW r
  PROVE  /\ Hands(r, h) \in Nat
         /\ \A s \in Senders : \A m :
              Hands(r, [h EXCEPT ![s] = m])
                = Hands(r, h) - (IF h[s] = Message("req", r) THEN 1 ELSE 0)
                              + (IF m = Message("req", r) THEN 1 ELSE 0)
  <1> DEFINE Holders(g) == {s \in Senders : g[s] = Message("req", r)}
  <1>1. IsFiniteSet(Senders)
    <2>1. IsFiniteSet({"auth"} \cup {"processor"})
      BY FS_Singleton, FS_Union
    <2>2. IsFiniteSet({"auth", "processor"})
      <3>1. {"auth", "processor"} = {"auth"} \cup {"processor"}
        OBVIOUS
      <3> QED
        BY <2>1, <3>1
    <2> QED
      BY <2>2, ThreadAssumption, FS_Union DEF Senders
  <1>2. \A g : IsFiniteSet(Holders(g)) /\ Cardinality(Holders(g)) \in Nat
    BY <1>1, FS_Subset, FS_CardinalityType
  <1>3. ASSUME NEW s \in Senders, NEW m
        PROVE  Cardinality(Holders([h EXCEPT ![s] = m]))
                 = Cardinality(Holders(h)) - (IF h[s] = Message("req", r) THEN 1 ELSE 0)
                                           + (IF m = Message("req", r) THEN 1 ELSE 0)
    <2> DEFINE rest == Holders(h) \ {s}
    <2>1. IsFiniteSet(rest) /\ s \notin rest
          /\ Cardinality(rest) = Cardinality(Holders(h)) - (IF s \in Holders(h) THEN 1 ELSE 0)
      BY <1>2, FS_RemoveElement
    <2>2. Holders([h EXCEPT ![s] = m])
            = IF m = Message("req", r) THEN rest \cup {s} ELSE rest
      OBVIOUS
    <2>3. s \in Holders(h) <=> h[s] = Message("req", r)
      OBVIOUS
    <2>4. Cardinality(rest \cup {s}) = Cardinality(rest) + 1
      BY <2>1, FS_AddElement
    <2>5. Cardinality(rest) \in Nat
      BY <2>1, FS_CardinalityType
    <2> HIDE DEF rest, Holders
    <2> QED
      BY <1>2, <2>1, <2>2, <2>3, <2>4, <2>5
  <1> QED
    BY <1>2, <1>3 DEF Hands

\* Everything in the custody of which SingleCustody speaks.
Custody(r) ==
  Hands(r, hand)
  + Copies(Message("req", r), writer) + Copies(Message("req", r), event)
  + Copies(Message("req", r), consumer)
  + Cardinality({r} \cap pendingApprovals)
  + (IF rejecting = r /\ awaiting = 0 THEN 1 ELSE 0)
  + (IF responding[r] # "none" THEN 1 ELSE 0)
  + AnswerCopies(r, command) + AnswerCopies(r, client)

\* What the runtime and the worker block on is never a server request.
HandsHoldNotes == runtimeHand.type # "req" /\ workerHand.type # "req"

\* An id that is not issued yet is nowhere.
CustodyInv ==
  /\ TypeOK
  /\ HandsHoldNotes
  /\ \A r \in RequestIds : Custody(r) <= 1 /\ (nextId <= r => Custody(r) = 0)

LEMMA Parked ==
  ASSUME NEW r, NEW A
  PROVE  Cardinality({r} \cap A) = IF r \in A THEN 1 ELSE 0
  <1>1. CASE r \in A
    <2>1. {r} \cap A = {r}
      BY <1>1
    <2> QED
      BY <1>1, <2>1, FS_Singleton
  <1>2. CASE r \notin A
    <2>1. {r} \cap A = {}
      BY <1>2
    <2> QED
      BY <1>2, <2>1, FS_EmptySet
  <1> QED
    BY <1>1, <1>2

\* A request message is its tag and its id.
LEMMA IsRequest ==
  ASSUME NEW m \in Events, NEW r
  PROVE  m = Message("req", r) <=> m.type = "req" /\ m.id = r
  BY DEF Events, Message

LEMMA NotesStep == TypeOK /\ HandsHoldNotes /\ [Next]_vars => HandsHoldNotes'
  <1> SUFFICES ASSUME TypeOK, HandsHoldNotes, [Next]_vars PROVE HandsHoldNotes'
    OBVIOUS
  <1> USE DEF serverVars, runtimeVars, workerVars, appVars, userVars
  <1>a. NoMsg.type # "req"
    BY DEF NoMsg, Message
  <1>1. CASE runtime_notification
    BY <1>1 DEF runtime_notification, RuntimeTakes, RuntimeRequiresDelivery, HandsHoldNotes
  <1>2. CASE runtime_event_send
    BY <1>2, <1>a DEF runtime_event_send, HandsHoldNotes
  <1>3. CASE forward_lossless
    BY <1>3 DEF forward_lossless, ClientRequiresDelivery, HandsHoldNotes
  <1>4. CASE forward_send
    BY <1>4, <1>a DEF forward_send, HandsHoldNotes
  <1>5. CASE UNCHANGED <<runtimeHand, workerHand>>
    BY <1>5 DEF HandsHoldNotes
  <1> QED
    BY <1>1, <1>2, <1>3, <1>4, <1>5
    DEF Next, ServerNext, RuntimeNext, WorkerNext, AppNext, UserNext, vars,
        send_request_to_connections, send_server_notification, turn_transition,
        auth_refresh_timeout, outgoing_send, process_client_request, runtime_response,
        runtime_request, runtime_server_request_answer, runtime_client_request,
        worker_request, detached_request, worker_resolve, worker_reject,
        worker_reject_auth, forward_best_effort, app_notification, app_server_request,
        app_reject_send, respond_to_patch_approval, resolve_server_request, send_message

\* The nine terms of the custody of r are numbers.
LEMMA CustodyTerms ==
  ASSUME TypeOK, NEW r \in RequestIds
  PROVE  /\ Hands(r, hand) \in Nat
         /\ Copies(Message("req", r), writer) \in Nat
         /\ Copies(Message("req", r), event) \in Nat
         /\ Copies(Message("req", r), consumer) \in Nat
         /\ Cardinality({r} \cap pendingApprovals) \in Nat
         /\ AnswerCopies(r, command) \in Nat
         /\ AnswerCopies(r, client) \in Nat
         /\ Custody(r) \in Nat
  <1>1. Hands(r, hand) \in Nat
    BY HandsMove DEF TypeOK, ServerTypeOK
  <1>2. /\ Copies(Message("req", r), writer) \in Nat
        /\ Copies(Message("req", r), event) \in Nat
        /\ Copies(Message("req", r), consumer) \in Nat
    BY CopiesMove DEF TypeOK, QueueTypeOK
  <1>3. Cardinality({r} \cap pendingApprovals) \in Nat
    BY Parked
  <1>4. AnswerCopies(r, command) \in Nat /\ AnswerCopies(r, client) \in Nat
    BY AnswersMove DEF TypeOK, QueueTypeOK
  <1>5. Custody(r) \in Nat
    BY <1>1, <1>2, <1>3, <1>4 DEF Custody
  <1> QED
    BY <1>1, <1>2, <1>3, <1>4, <1>5

\* Only a new request adds to what is in custody: the server tasks issue it
\* and hand it over, ...
LEMMA ServerCustody ==
  ASSUME TypeOK, ServerNext, NEW r \in RequestIds
  PROVE  \/ Custody(r)' <= Custody(r) /\ nextId <= nextId'
         \/ Custody(r)' = Custody(r) + 1 /\ nextId = r /\ nextId' = r + 1
  <1> USE DEF serverVars, runtimeVars, workerVars, appVars, userVars
  <1> DEFINE req == Message("req", r)
  <1>a. /\ hand \in [Senders -> Events \cup {NoMsg}] /\ writer \in Seq(Events)
        /\ nextId \in Nat /\ r \in Nat
    BY BoundAssumption DEF TypeOK, ServerTypeOK, QueueTypeOK, RequestIds
  <1>b. ASSUME NEW s \in Senders, NEW m, hand' = [hand EXCEPT ![s] = m]
        PROVE  Hands(r, hand') = Hands(r, hand) - (IF hand[s] = req THEN 1 ELSE 0)
                                                + (IF m = req THEN 1 ELSE 0)
    <2>1. Hands(r, [hand EXCEPT ![s] = m])
            = Hands(r, hand) - (IF hand[s] = req THEN 1 ELSE 0) + (IF m = req THEN 1 ELSE 0)
      BY <1>a, HandsMove
    <2> QED
      BY <1>b, <2>1
  <1>c. NoMsg # req /\ (\A m \in Events : m.type # "req" => m # req)
    BY IsRequest DEF NoMsg, Message
  <1>f. Hands(r, hand) \in Nat /\ Copies(req, writer) \in Nat /\ Custody(r) \in Nat
    BY CustodyTerms
  <1>g. \A n : Message("req", n) = req <=> n = r
    BY DEF Message
  <1>d. UNCHANGED <<event, consumer, pendingApprovals, rejecting, awaiting, responding,
                    command, client>>
    BY DEF ServerNext, send_request_to_connections, send_server_notification,
           turn_transition, auth_refresh_timeout, outgoing_send, process_client_request
  <1>e. ASSUME NEW d \in Int,
               Hands(r, hand') + Copies(req, writer')
                 = Hands(r, hand) + Copies(req, writer) + d
        PROVE  Custody(r)' = Custody(r) + d
    <2>1. Hands(r, hand') \in Nat /\ Copies(req, writer') \in Nat
      BY TypeStep, ServerTypes, HandsMove, CopiesMove DEF TypeOK, ServerTypeOK, QueueTypeOK
    <2> QED
      BY <1>d, <1>e, <2>1, CustodyTerms DEF Custody, req
  <1> HIDE DEF req
  <1>1. ASSUME NEW s \in Senders, NEW k \in Kinds, send_request_to_connections(s, k)
        PROVE  \/ Custody(r)' <= Custody(r) /\ nextId <= nextId'
               \/ Custody(r)' = Custody(r) + 1 /\ nextId = r /\ nextId' = r + 1
    <2>1. /\ hand' = [hand EXCEPT ![s] = Message("req", nextId)] /\ hand[s] = NoMsg
          /\ nextId' = nextId + 1 /\ UNCHANGED writer
      BY <1>1 DEF send_request_to_connections
    <2>2. Message("req", nextId) = req <=> nextId = r
      BY <1>g
    <2>3. Hands(r, hand') = Hands(r, hand) - (IF hand[s] = req THEN 1 ELSE 0)
                              + (IF Message("req", nextId) = req THEN 1 ELSE 0)
      BY <1>b, <2>1
    <2>4. CASE nextId = r
      <3>1. Hands(r, hand') = Hands(r, hand) + 1
        BY <1>c, <2>1, <2>2, <2>3, <2>4, <1>f
      <3>2. Custody(r)' = Custody(r) + 1
        BY <1>e, <2>1, <3>1, <1>f
      <3> QED
        BY <2>1, <2>4, <3>2
    <2>5. CASE nextId # r
      <3>1. Hands(r, hand') = Hands(r, hand)
        BY <1>c, <2>1, <2>2, <2>3, <2>5, <1>f
      <3>2. Custody(r)' = Custody(r) + 0
        BY <1>e, <2>1, <3>1, <1>f
      <3> QED
        BY <1>a, <2>1, <3>2, <1>f
    <2> QED
      BY <2>4, <2>5
  <1>2. ASSUME NEW s \in Senders, NEW m \in Events, hand[s] = NoMsg, m.type # "req",
               hand' = [hand EXCEPT ![s] = m], UNCHANGED <<nextId, writer>>
        PROVE  Custody(r)' <= Custody(r) /\ nextId <= nextId'
    <2>1. m # req
      BY <1>2, <1>c
    <2>2. Hands(r, hand') = Hands(r, hand) - (IF hand[s] = req THEN 1 ELSE 0)
                              + (IF m = req THEN 1 ELSE 0)
      BY <1>b, <1>2
    <2>3. Hands(r, hand') = Hands(r, hand)
      BY <1>c, <1>2, <2>1, <2>2, <1>f
    <2>4. Custody(r)' = Custody(r) + 0
      BY <1>e, <1>2, <2>3, <1>f
    <2> QED
      BY <1>a, <1>2, <2>4, <1>f
  <1>3. ASSUME NEW s \in Threads, NEW c \in NoteClasses,
               send_server_notification(s, c) \/ turn_transition(s, c)
        PROVE  Custody(r)' <= Custody(r) /\ nextId <= nextId'
    <2>1. s \in Senders /\ Message(c, 0) \in Events /\ Message(c, 0).type # "req"
      BY MessageInEvents DEF Senders, EventTypes, NoteClasses, Message
    <2> QED
      BY <1>2, <1>3, <2>1 DEF send_server_notification, turn_transition
  <1>4. ASSUME NEW q \in RequestIds, auth_refresh_timeout(q)
        PROVE  Custody(r)' <= Custody(r) /\ nextId <= nextId'
    <2>1. UNCHANGED <<nextId, hand, writer>>
      BY <1>4 DEF auth_refresh_timeout
    <2>2. Custody(r)' = Custody(r) + 0
      BY <1>e, <2>1, <1>f
    <2> QED
      BY <1>a, <2>1, <2>2, <1>f
  <1>5. ASSUME NEW s \in Senders, outgoing_send(s)
        PROVE  Custody(r)' <= Custody(r) /\ nextId <= nextId'
    <2>1. /\ hand' = [hand EXCEPT ![s] = NoMsg] /\ hand[s] \in Events
          /\ writer' = Append(writer, hand[s]) /\ UNCHANGED nextId
      BY <1>5, <1>a DEF outgoing_send
    <2>2. Hands(r, hand') = Hands(r, hand) - (IF hand[s] = req THEN 1 ELSE 0)
                              + (IF NoMsg = req THEN 1 ELSE 0)
      BY <1>b, <2>1
    <2>3. Copies(req, writer') = Copies(req, writer) + (IF hand[s] = req THEN 1 ELSE 0)
      BY <1>a, <2>1, CopiesMove
    <2>4. Hands(r, hand') + Copies(req, writer') = Hands(r, hand) + Copies(req, writer)
      BY <1>c, <1>f, <2>2, <2>3
    <2>5. Custody(r)' = Custody(r) + 0
      BY <1>e, <2>4, <1>f
    <2> QED
      BY <1>a, <2>1, <2>5, <1>f
  <1>6. CASE process_client_request
    <2> DEFINE m == Message("resp", Head(processor))
    <2>1. m \in Events /\ m.type # "req" /\ "processor" \in Senders
      BY <1>6, QueueTail, MessageInEvents
      DEF process_client_request, TypeOK, QueueTypeOK, EventTypes, Message, Senders
    <2>2. /\ hand["processor"] = NoMsg /\ hand' = [hand EXCEPT !["processor"] = m]
          /\ UNCHANGED <<nextId, writer>>
      BY <1>6 DEF process_client_request
    <2> HIDE DEF m
    <2> QED
      BY <1>2, <2>1, <2>2
  <1> QED
    BY <1>1, <1>3, <1>4, <1>5, <1>6 DEF ServerNext

\* ... the runtime forwards it or answers it, ...
LEMMA RuntimeCustody ==
  ASSUME TypeOK, HandsHoldNotes, RuntimeNext, NEW r \in RequestIds
  PROVE  Custody(r)' <= Custody(r) /\ nextId' = nextId
  <1> USE DEF serverVars, runtimeVars, workerVars, appVars, userVars
  <1> DEFINE req == Message("req", r)
  <1>a. /\ writer \in Seq(Events) /\ event \in Seq(Events) /\ client \in Seq(ClientMessages)
        /\ runtimeHand \in Events \cup {NoMsg} /\ runtimeHand.type # "req"
    BY DEF TypeOK, QueueTypeOK, TaskTypeOK, HandsHoldNotes
  <1>b. UNCHANGED <<nextId, hand, consumer, pendingApprovals, rejecting, awaiting, responding,
                    command>>
    BY DEF RuntimeNext, runtime_response, runtime_request, runtime_notification,
           runtime_event_send, runtime_server_request_answer, runtime_client_request
  <1>c. TypeOK'
    BY RuntimeTypes
  <1>d. ASSUME Copies(req, writer') + Copies(req, event') + AnswerCopies(r, client')
                 <= Copies(req, writer) + Copies(req, event) + AnswerCopies(r, client)
        PROVE  Custody(r)' <= Custody(r)
    <2>1. /\ Copies(req, writer') \in Nat /\ Copies(req, event') \in Nat
          /\ AnswerCopies(r, client') \in Nat
      BY <1>c, CopiesMove, AnswersMove DEF TypeOK, QueueTypeOK
    <2> QED
      BY <1>b, <1>d, <2>1, CustodyTerms DEF Custody, req
  <1>e. /\ Copies(req, writer) \in Nat /\ Copies(req, event) \in Nat
        /\ AnswerCopies(r, client) \in Nat
    BY CustodyTerms
  <1>f. \A m \in Events : m.type # "req" => m # req
    BY IsRequest
  <1> HIDE DEF req
  <1>1. CASE /\ writer # <<>> /\ writer' = Tail(writer) /\ UNCHANGED client
             /\ event' = event \/ event' = Append(event, Head(writer))
    <2>1. Head(writer) \in Events
      BY <1>1, <1>a, QueueTail
    <2>2. Copies(req, writer') = Copies(req, writer) - (IF Head(writer) = req THEN 1 ELSE 0)
      BY <1>1, <1>a, CopiesMove
    <2>3. Copies(req, event') <= Copies(req, event) + (IF Head(writer) = req THEN 1 ELSE 0)
      <3>1. CASE event' = event
        BY <3>1, <1>e
      <3>2. CASE event' = Append(event, Head(writer))
        BY <3>2, <1>a, <1>e, <2>1, CopiesMove
      <3> QED
        BY <1>1, <3>1, <3>2
    <2>4. Copies(req, event') \in Nat
      BY <1>c, CopiesMove DEF TypeOK, QueueTypeOK
    <2>5. AnswerCopies(r, client') = AnswerCopies(r, client)
      BY <1>1
    <2>6. Copies(req, writer') + Copies(req, event') + AnswerCopies(r, client')
            <= Copies(req, writer) + Copies(req, event) + AnswerCopies(r, client)
      BY <1>e, <2>2, <2>3, <2>4, <2>5
    <2> QED
      BY <1>b, <1>d, <2>6
  <1>2. CASE runtime_event_send
    <2>1. /\ runtimeHand \in Events /\ event' = Append(event, runtimeHand)
          /\ UNCHANGED <<writer, client>>
      BY <1>2, <1>a DEF runtime_event_send
    <2>2. Copies(req, event') = Copies(req, event)
      BY <1>a, <1>e, <1>f, <2>1, CopiesMove
    <2>3. /\ Copies(req, writer') = Copies(req, writer)
          /\ AnswerCopies(r, client') = AnswerCopies(r, client)
      BY <2>1
    <2>4. Copies(req, writer') + Copies(req, event') + AnswerCopies(r, client')
            <= Copies(req, writer) + Copies(req, event) + AnswerCopies(r, client)
      BY <1>e, <2>2, <2>3
    <2> QED
      BY <1>b, <1>d, <2>4
  <1>3. CASE client # <<>> /\ client' = Tail(client) /\ UNCHANGED <<writer, event>>
    <2>1. AnswerCopies(r, client') <= AnswerCopies(r, client)
      BY <1>3, <1>a, <1>e, AnswersMove
    <2>2. AnswerCopies(r, client') \in Nat
      BY <1>c, AnswersMove DEF TypeOK, QueueTypeOK
    <2>3. Copies(req, writer') = Copies(req, writer) /\ Copies(req, event') = Copies(req, event)
      BY <1>3
    <2>4. Copies(req, writer') + Copies(req, event') + AnswerCopies(r, client')
            <= Copies(req, writer) + Copies(req, event) + AnswerCopies(r, client)
      BY <1>e, <2>1, <2>2, <2>3
    <2> QED
      BY <1>b, <1>d, <2>4
  <1>4. CASE runtime_response
    BY <1>1, <1>4, <1>b DEF runtime_response, RuntimeTakes
  <1>5. CASE runtime_request
    BY <1>1, <1>5, <1>b DEF runtime_request, RuntimeTakes
  <1>6. CASE runtime_notification
    BY <1>1, <1>6, <1>b DEF runtime_notification, RuntimeTakes
  <1>7. CASE runtime_server_request_answer \/ runtime_client_request
    BY <1>3, <1>7, <1>b DEF runtime_server_request_answer, runtime_client_request
  <1> QED
    BY <1>b, <1>2, <1>4, <1>5, <1>6, <1>7 DEF RuntimeNext

\* ... the app parks it or rejects it, ...
LEMMA AppCustody ==
  ASSUME TypeOK, AppNext, NEW r \in RequestIds
  PROVE  Custody(r)' <= Custody(r) /\ nextId' = nextId
  <1> USE DEF serverVars, runtimeVars, workerVars, appVars, userVars
  <1> DEFINE req == Message("req", r)
             rejects == IF rejecting = r /\ awaiting = 0 THEN 1 ELSE 0
             parks == IF r \in pendingApprovals THEN 1 ELSE 0
  <1>a. /\ consumer \in Seq(Events) /\ command \in Seq(ClientMessages)
        /\ rejecting \in Nat /\ awaiting \in Nat /\ r \in Nat \ {0}
    BY BoundAssumption DEF TypeOK, QueueTypeOK, TaskTypeOK, RequestIds
  <1>b. UNCHANGED <<nextId, hand, writer, event, responding, client>>
    BY DEF AppNext, app_notification, app_server_request, app_reject_send
  <1>c. TypeOK'
    BY AppTypes
  <1>d. ASSUME Copies(req, consumer') + parks' + rejects' + AnswerCopies(r, command')
                 <= Copies(req, consumer) + parks + rejects + AnswerCopies(r, command)
        PROVE  Custody(r)' <= Custody(r)
    <2>1. Copies(req, consumer') \in Nat /\ AnswerCopies(r, command') \in Nat
      BY <1>c, CopiesMove, AnswersMove DEF TypeOK, QueueTypeOK
    <2>2. /\ Cardinality({r} \cap pendingApprovals) = parks
          /\ Cardinality({r} \cap pendingApprovals') = parks'
      BY Parked
    <2> QED
      BY <1>b, <1>d, <2>1, <2>2, CustodyTerms DEF Custody, req
  <1>e. Copies(req, consumer) \in Nat /\ AnswerCopies(r, command) \in Nat
    BY CustodyTerms
  <1>f. \A m \in Events : m.type = "req" => (m = req <=> m.id = r)
    BY IsRequest
  <1> HIDE DEF req
  <1>1. CASE app_notification
    <2>1. Copies(req, consumer')
            = Copies(req, consumer) - (IF Head(consumer) = req THEN 1 ELSE 0)
      BY <1>1, <1>a, CopiesMove DEF app_notification, AppTakes
    <2>2. UNCHANGED <<pendingApprovals, rejecting, awaiting, command>>
      BY <1>1 DEF app_notification
    <2>3. Copies(req, consumer') <= Copies(req, consumer)
      BY <1>e, <2>1
    <2>4. Copies(req, consumer') \in Nat
      BY <1>c, CopiesMove DEF TypeOK, QueueTypeOK
    <2> QED
      BY <1>b, <1>d, <1>e, <2>2, <2>3, <2>4
  <1>2. CASE app_server_request
    <2>1. consumer # <<>> /\ consumer' = Tail(consumer) /\ rejecting = 0
          /\ Head(consumer).type = "req" /\ UNCHANGED <<awaiting, command>>
      BY <1>2 DEF app_server_request, AppTakes
    <2>2. Head(consumer) = req <=> Head(consumer).id = r
      BY <1>a, <1>f, <2>1, QueueTail
    <2>3. Copies(req, consumer')
            = Copies(req, consumer) - (IF Head(consumer).id = r THEN 1 ELSE 0)
      BY <1>a, <2>1, <2>2, CopiesMove
    <2>4. parks' + rejects' <= parks + rejects + (IF Head(consumer).id = r THEN 1 ELSE 0)
      <3>1. CASE pendingApprovals' = pendingApprovals \cup {Head(consumer).id}
                 /\ UNCHANGED rejecting
        BY <2>1, <3>1
      <3>2. CASE rejecting' = Head(consumer).id /\ UNCHANGED pendingApprovals
        BY <1>a, <2>1, <3>2
      <3> QED
        BY <1>2, <3>1, <3>2 DEF app_server_request, park
    <2>5. parks \in Nat /\ rejects \in Nat /\ parks' \in Nat /\ rejects' \in Nat
      OBVIOUS
    <2>6. AnswerCopies(r, command') = AnswerCopies(r, command)
      BY <2>1
    <2>7. Copies(req, consumer') + parks' + rejects' + AnswerCopies(r, command')
            <= Copies(req, consumer) + parks + rejects + AnswerCopies(r, command)
      BY <1>e, <2>3, <2>4, <2>5, <2>6
    <2> QED
      BY <1>b, <1>d, <2>7
  <1>3. CASE app_reject_send
    <2>1. /\ rejecting # 0 /\ awaiting = 0 /\ awaiting' = rejecting
          /\ command' = Append(command, Message("error", rejecting))
          /\ UNCHANGED <<consumer, rejecting, pendingApprovals>>
      BY <1>3 DEF app_reject_send
    <2>2. /\ Message("error", rejecting) \in ClientMessages
          /\ Message("error", rejecting).id = rejecting
          /\ Message("error", rejecting).type \in AnswerTypes
      BY <1>a, MessageInClient DEF Message, AnswerTypes
    <2>3. AnswerCopies(r, command') = AnswerCopies(r, command) + (IF rejecting = r THEN 1 ELSE 0)
      BY <1>a, <2>1, <2>2, AnswersMove
    <2>4. rejects' = 0 /\ rejects = (IF rejecting = r THEN 1 ELSE 0) /\ parks' = parks
      BY <2>1
    <2>5. parks \in Nat /\ Copies(req, consumer') = Copies(req, consumer)
      BY <2>1
    <2> HIDE DEF parks, rejects
    <2> QED
      BY <1>b, <1>d, <1>e, <2>3, <2>4, <2>5
  <1> QED
    BY <1>b, <1>1, <1>2, <1>3 DEF AppNext

\* ... and the user's click turns it into its answer.
LEMMA UserCustody ==
  ASSUME TypeOK, UserNext, NEW r \in RequestIds
  PROVE  Custody(r)' <= Custody(r) /\ nextId' = nextId
  <1> USE DEF serverVars, runtimeVars, workerVars, appVars, userVars
  <1> DEFINE clicked == IF responding[r] # "none" THEN 1 ELSE 0
             parks == IF r \in pendingApprovals THEN 1 ELSE 0
  <1>a. /\ command \in Seq(ClientMessages) /\ RequestIds \subseteq Nat /\ Turns \subseteq Nat
        /\ responding \in [RequestIds -> {"none", "accept", "decline"}]
    BY BoundAssumption DEF TypeOK, QueueTypeOK, UserTypeOK, RequestIds, Turns
  <1>b. UNCHANGED <<nextId, hand, writer, event, consumer, rejecting, awaiting, client>>
    BY DEF UserNext, respond_to_patch_approval, resolve_server_request, send_message
  <1>c. TypeOK'
    BY UserTypes
  <1>d. ASSUME parks' + clicked' + AnswerCopies(r, command')
                 <= parks + clicked + AnswerCopies(r, command)
        PROVE  Custody(r)' <= Custody(r)
    <2>1. AnswerCopies(r, command') \in Nat
      BY <1>c, AnswersMove DEF TypeOK, QueueTypeOK
    <2>2. /\ Cardinality({r} \cap pendingApprovals) = parks
          /\ Cardinality({r} \cap pendingApprovals') = parks'
      BY Parked
    <2> QED
      BY <1>b, <1>d, <2>1, <2>2, CustodyTerms DEF Custody
  <1>e. AnswerCopies(r, command) \in Nat
    BY CustodyTerms
  <1>1. ASSUME NEW q \in RequestIds, NEW accept \in BOOLEAN, respond_to_patch_approval(q, accept)
        PROVE  Custody(r)' <= Custody(r)
    <2>1. /\ q \in pendingApprovals /\ pendingApprovals' = pendingApprovals \ {q}
          /\ responding' = [responding EXCEPT ![q] = decision(accept)] /\ UNCHANGED command
      BY <1>1 DEF respond_to_patch_approval, approvals_without
    <2>2. parks' + clicked' <= parks + clicked
      <3>1. CASE q = r
        BY <1>a, <2>1, <3>1
      <3>2. CASE q # r
        BY <1>a, <2>1, <3>2
      <3> QED
        BY <3>1, <3>2
    <2>3. parks' \in Nat /\ clicked' \in Nat /\ parks \in Nat /\ clicked \in Nat
      OBVIOUS
    <2>4. AnswerCopies(r, command') = AnswerCopies(r, command)
      BY <2>1
    <2>5. parks' + clicked' + AnswerCopies(r, command')
            <= parks + clicked + AnswerCopies(r, command)
      BY <1>e, <2>2, <2>3, <2>4
    <2> QED
      BY <1>d, <2>5
  <1>2. ASSUME NEW q \in RequestIds, resolve_server_request(q)
        PROVE  Custody(r)' <= Custody(r)
    <2>1. /\ responding[q] \in {"accept", "decline"}
          /\ command' = Append(command, Message(responding[q], q))
          /\ responding' = [responding EXCEPT ![q] = "none"] /\ UNCHANGED pendingApprovals
      BY <1>2, <1>a DEF resolve_server_request
    <2>2. /\ Message(responding[q], q) \in ClientMessages
          /\ Message(responding[q], q).id = q /\ Message(responding[q], q).type \in AnswerTypes
      BY <1>a, <2>1, MessageInClient DEF Message, AnswerTypes
    <2>3. AnswerCopies(r, command') = AnswerCopies(r, command) + (IF q = r THEN 1 ELSE 0)
      BY <1>a, <2>1, <2>2, AnswersMove
    <2>4. clicked' = clicked - (IF q = r THEN 1 ELSE 0) /\ parks' = parks
      BY <1>a, <2>1
    <2>5. parks \in Nat /\ clicked \in Nat
      OBVIOUS
    <2> HIDE DEF parks, clicked
    <2> QED
      BY <1>d, <1>e, <2>3, <2>4, <2>5
  <1>3. ASSUME NEW t \in Turns, send_message(t)
        PROVE  Custody(r)' <= Custody(r)
    <2>1. /\ command' = Append(command, Message("turn", t))
          /\ UNCHANGED <<responding, pendingApprovals>>
      BY <1>3 DEF send_message
    <2>2. Message("turn", t) \in ClientMessages /\ Message("turn", t).type \notin AnswerTypes
      BY <1>a, MessageInClient DEF Message, AnswerTypes
    <2>3. AnswerCopies(r, command') = AnswerCopies(r, command)
      BY <1>a, <1>e, <2>1, <2>2, AnswersMove
    <2>4. parks' = parks /\ clicked' = clicked /\ parks \in Nat /\ clicked \in Nat
      BY <2>1
    <2> HIDE DEF parks, clicked
    <2> QED
      BY <1>d, <1>e, <2>3, <2>4
  <1> QED
    BY <1>b, <1>1, <1>2, <1>3 DEF UserNext

\* What a sent, or lost, answer adds to the client queue.
LEMMA AnswerAdds ==
  ASSUME TypeOK, NEW n \in Nat, NEW a \in AnswerTypes, NEW site, try_send_answer(n, a, site),
         NEW r \in RequestIds
  PROVE  AnswerCopies(r, client') <= AnswerCopies(r, client) + (IF n = r THEN 1 ELSE 0)
  <1>1. /\ Message(a, n) \in ClientMessages /\ Message(a, n).id = n
        /\ Message(a, n).type \in AnswerTypes
    BY MessageInClient DEF AnswerTypes, Message
  <1>2. client \in Seq(ClientMessages) /\ AnswerCopies(r, client) \in Nat
    BY CustodyTerms DEF TypeOK, QueueTypeOK
  <1>3. CASE client' = Append(client, Message(a, n))
    <2>1. AnswerCopies(r, client') = AnswerCopies(r, client) + (IF n = r THEN 1 ELSE 0)
      BY <1>1, <1>2, <1>3, AnswersMove
    <2> QED
      BY <1>2, <2>1
  <1>4. CASE UNCHANGED client
    BY <1>2, <1>4
  <1> QED
    BY <1>3, <1>4 DEF try_send_answer

\* The worker forwards a request, rejects it, or sends its answer on.
LEMMA WorkerCustody ==
  ASSUME TypeOK, HandsHoldNotes, WorkerNext, NEW r \in RequestIds
  PROVE  Custody(r)' <= Custody(r) /\ nextId' = nextId
  <1> USE DEF serverVars, runtimeVars, workerVars, appVars, userVars
  <1> DEFINE req == Message("req", r)
             rejects == IF rejecting = r /\ awaiting = 0 THEN 1 ELSE 0
  <1>a. /\ event \in Seq(Events) /\ consumer \in Seq(Events)
        /\ command \in Seq(ClientMessages) /\ client \in Seq(ClientMessages)
        /\ workerHand \in Events \cup {NoMsg} /\ workerHand.type # "req"
        /\ skipped \in Nat /\ r \in Nat \ {0} /\ Turns \subseteq Nat
    BY BoundAssumption
    DEF TypeOK, QueueTypeOK, TaskTypeOK, HandsHoldNotes, RequestIds, Turns
  <1>b. UNCHANGED <<nextId, hand, writer, pendingApprovals, responding>>
    BY Frames DEF WorkerNext, worker_request, detached_request, worker_resolve, worker_reject,
       worker_reject_auth, forward_lossless, forward_send, forward_best_effort
  <1>c. TypeOK'
    BY WorkerTypes
  <1>d. /\ Copies(req, event) \in Nat /\ Copies(req, consumer) \in Nat
        /\ AnswerCopies(r, command) \in Nat /\ AnswerCopies(r, client) \in Nat
        /\ Copies(req, event') \in Nat /\ Copies(req, consumer') \in Nat
        /\ AnswerCopies(r, command') \in Nat /\ AnswerCopies(r, client') \in Nat
    BY <1>a, <1>c, CopiesMove, AnswersMove DEF TypeOK, QueueTypeOK
  <1>e. ASSUME NEW d \in 0..1, rejects' <= rejects,
               Copies(req, event') + Copies(req, consumer') + d
                 <= Copies(req, event) + Copies(req, consumer),
               AnswerCopies(r, command') + AnswerCopies(r, client')
                 <= AnswerCopies(r, command) + AnswerCopies(r, client) + d
        PROVE  Custody(r)' <= Custody(r)
    BY <1>b, <1>d, <1>e, CustodyTerms DEF Custody, req
  <1>f. \A m \in Events : m = req <=> m.type = "req" /\ m.id = r
    BY IsRequest
  <1>g. Message("lagged", skipped) \in Events /\ Message("lagged", skipped) # req
    BY <1>a, MessageInEvents DEF EventTypes, Message
  <1> HIDE DEF req
  <1>h. ASSUME UNCHANGED <<rejecting, awaiting>> PROVE rejects' <= rejects
    BY <1>h
  <1>i. ASSUME event # <<>>, event' = Tail(event)
        PROVE  /\ Head(event) \in Events
               /\ Copies(req, event') = Copies(req, event) - (IF Head(event) = req THEN 1 ELSE 0)
    BY <1>i, <1>a, QueueTail, CopiesMove
  <1>j. ASSUME UNCHANGED <<command, client>>
        PROVE  AnswerCopies(r, command') + AnswerCopies(r, client')
                 <= AnswerCopies(r, command) + AnswerCopies(r, client) + 0
    BY <1>j, <1>d
  <1>1. CASE worker_request
    <2>1. /\ command # <<>> /\ command' = Tail(command)
          /\ UNCHANGED <<event, consumer, client, rejecting, awaiting>>
      BY <1>1 DEF worker_request
    <2>2. AnswerCopies(r, command') <= AnswerCopies(r, command)
      BY <1>a, <1>d, <2>1, AnswersMove
    <2>3. AnswerCopies(r, command') + AnswerCopies(r, client')
            <= AnswerCopies(r, command) + AnswerCopies(r, client) + 0
      BY <1>d, <2>1, <2>2
    <2>4. Copies(req, event') + Copies(req, consumer') + 0
            <= Copies(req, event) + Copies(req, consumer)
      BY <1>d, <2>1
    <2> QED
      BY <1>b, <1>e, <1>h, <2>1, <2>3, <2>4
  <1>2. ASSUME NEW t \in Turns, detached_request(t)
        PROVE  Custody(r)' <= Custody(r)
    <2>1. /\ client' = Append(client, Message("turn", t)) \/ client' = client
          /\ UNCHANGED <<event, consumer, command, rejecting, awaiting>>
      BY <1>2 DEF detached_request
    <2>2. Message("turn", t) \in ClientMessages /\ Message("turn", t).type \notin AnswerTypes
      BY <1>a, MessageInClient DEF Message, AnswerTypes
    <2>3. AnswerCopies(r, client') = AnswerCopies(r, client)
      <3>1. CASE client' = Append(client, Message("turn", t))
        <4>1. AnswerCopies(r, Append(client, Message("turn", t)))
                = AnswerCopies(r, client) + 0
          BY <1>a, <2>2, AnswersMove
        <4> QED
          BY <1>d, <3>1, <4>1
      <3>2. CASE client' = client
        BY <3>2
      <3> QED
        BY <2>1, <3>1, <3>2
    <2>4. AnswerCopies(r, command') + AnswerCopies(r, client')
            <= AnswerCopies(r, command) + AnswerCopies(r, client) + 0
      BY <1>d, <2>1, <2>3
    <2>5. Copies(req, event') + Copies(req, consumer') + 0
            <= Copies(req, event) + Copies(req, consumer)
      BY <1>d, <2>1
    <2> QED
      BY <1>b, <1>e, <1>h, <2>1, <2>4, <2>5
  <1>3. CASE worker_resolve \/ worker_reject
    <2> DEFINE h == Head(command)
    <2>1. /\ command # <<>> /\ command' = Tail(command) /\ h.type \in AnswerTypes
          /\ UNCHANGED <<event, consumer>>
          /\ \E site : try_send_answer(h.id, h.type, site)
      BY <1>3 DEF worker_resolve, worker_reject, AnswerTypes
    <2>2. h \in ClientMessages /\ h.id \in Nat
      BY <1>a, <2>1, QueueTail, ClientMessageFields
    <2>3. AnswerCopies(r, command') = AnswerCopies(r, command) - (IF h.id = r THEN 1 ELSE 0)
      BY <1>a, <2>1, AnswersMove
    <2>4. AnswerCopies(r, client') <= AnswerCopies(r, client) + (IF h.id = r THEN 1 ELSE 0)
      BY <2>1, <2>2, AnswerAdds
    <2>5. AnswerCopies(r, command') + AnswerCopies(r, client')
            <= AnswerCopies(r, command) + AnswerCopies(r, client) + 0
      <3> HIDE DEF h
      <3> QED
        BY <1>d, <2>3, <2>4
    <2>6. rejects' <= rejects
      BY <1>3, <1>a DEF worker_resolve, worker_reject, reply_to_app
    <2>7. Copies(req, event') + Copies(req, consumer') + 0
            <= Copies(req, event) + Copies(req, consumer)
      BY <1>d, <2>1
    <2> QED
      BY <1>b, <1>e, <2>5, <2>6, <2>7
  <1>4. ASSUME event # <<>>, event' = Tail(event), Head(event).type = "req",
               \E site : try_send_answer(Head(event).id, "error", site),
               Copies(req, consumer') = Copies(req, consumer),
               UNCHANGED <<command, rejecting, awaiting>>
        PROVE  Custody(r)' <= Custody(r)
    <2> DEFINE d == IF Head(event).id = r THEN 1 ELSE 0
    <2>1. Head(event) \in Events /\ Head(event).id \in Nat /\ "error" \in AnswerTypes
      BY <1>4, <1>i, MessageFields DEF AnswerTypes
    <2>2. Copies(req, event') = Copies(req, event) - d
      BY <1>4, <1>f, <1>i, <2>1
    <2>3. AnswerCopies(r, client') <= AnswerCopies(r, client) + d
      BY <1>4, <2>1, AnswerAdds
    <2>4. d \in 0..1
      OBVIOUS
    <2> HIDE DEF d
    <2>5. Copies(req, event') + Copies(req, consumer') + d
            <= Copies(req, event) + Copies(req, consumer)
      BY <1>4, <1>d, <2>2, <2>4
    <2>6. AnswerCopies(r, command') + AnswerCopies(r, client')
            <= AnswerCopies(r, command) + AnswerCopies(r, client) + d
      BY <1>4, <1>d, <2>3, <2>4
    <2> QED
      BY <1>4, <1>e, <1>h, <2>4, <2>5, <2>6
  <1>5. CASE worker_reject_auth
    BY <1>4, <1>5, <1>b DEF worker_reject_auth, WorkerTakes, IsAuthRefresh
  <1>6. CASE forward_lossless
    <2>1. event # <<>> /\ event' = Tail(event)
          /\ UNCHANGED <<consumer, command, client, rejecting, awaiting>>
      BY <1>6 DEF forward_lossless, WorkerTakes
    <2>2. Copies(req, event') + Copies(req, consumer') + 0
            <= Copies(req, event) + Copies(req, consumer)
      BY <1>d, <1>i, <2>1
    <2> QED
      BY <1>b, <1>e, <1>h, <1>j, <2>1, <2>2
  <1>7. CASE forward_send
    <2>1. /\ workerHand \in Events
          /\ \/ consumer' = Append(consumer, Message("lagged", skipped))
             \/ consumer' = Append(consumer, workerHand)
          /\ UNCHANGED <<event, command, client, rejecting, awaiting>>
      BY <1>7, <1>a DEF forward_send
    <2>2. Copies(req, consumer') = Copies(req, consumer)
      <3>1. CASE consumer' = Append(consumer, Message("lagged", skipped))
        BY <1>a, <1>d, <1>g, <3>1, CopiesMove
      <3>2. CASE consumer' = Append(consumer, workerHand)
        BY <1>a, <1>d, <1>f, <2>1, <3>2, CopiesMove
      <3> QED
        BY <2>1, <3>1, <3>2
    <2>3. Copies(req, event') + Copies(req, consumer') + 0
            <= Copies(req, event) + Copies(req, consumer)
      BY <1>d, <2>1, <2>2
    <2> QED
      BY <1>b, <1>e, <1>h, <1>j, <2>1, <2>3
  <1>8. CASE forward_best_effort
    <2> DEFINE marked == Len(consumer) < Cap /\ skipped > 0
               flushed == IF marked THEN Append(consumer, Message("lagged", skipped))
                                    ELSE consumer
    <2>1. event # <<>> /\ event' = Tail(event) /\ UNCHANGED <<command, rejecting, awaiting>>
      BY <1>8 DEF forward_best_effort, WorkerTakes
    <2>2. flushed \in Seq(Events) /\ Copies(req, flushed) = Copies(req, consumer)
      BY <1>a, <1>d, <1>g, CopiesMove, QueueAppend
    <2>3. \/ consumer' = Append(flushed, Head(event)) /\ UNCHANGED client
          \/ consumer' = flushed /\ reject_dropped(Head(event))
      BY <1>8 DEF forward_best_effort
    <2> HIDE DEF flushed
    <2>4. CASE consumer' = Append(flushed, Head(event)) /\ UNCHANGED client
      <3>1. Copies(req, consumer') = Copies(req, consumer) + (IF Head(event) = req THEN 1 ELSE 0)
        BY <1>i, <2>1, <2>2, <2>4, CopiesMove
      <3>2. Copies(req, event') + Copies(req, consumer') + 0
              <= Copies(req, event) + Copies(req, consumer)
        BY <1>d, <1>i, <2>1, <3>1
      <3> QED
        BY <1>b, <1>e, <1>h, <1>j, <2>1, <2>4, <3>2
    <2>5. CASE consumer' = flushed /\ reject_dropped(Head(event))
      <3>1. CASE Head(event).type = "req"
        BY <1>4, <1>b, <2>1, <2>2, <2>5, <3>1 DEF reject_dropped
      <3>2. CASE Head(event).type # "req"
        <4>1. UNCHANGED client /\ Copies(req, consumer') = Copies(req, consumer)
          BY <2>2, <2>5, <3>2 DEF reject_dropped
        <4>2. Copies(req, event') + Copies(req, consumer') + 0
                <= Copies(req, event) + Copies(req, consumer)
          BY <1>d, <1>i, <2>1, <4>1
        <4> QED
          BY <1>b, <1>e, <1>h, <1>j, <2>1, <4>1, <4>2
      <3> QED
        BY <3>1, <3>2
    <2> QED
      BY <2>3, <2>4, <2>5
  <1> QED
    BY <1>b, <1>1, <1>2, <1>3, <1>5, <1>6, <1>7, <1>8 DEF WorkerNext

LEMMA CustodyInit == Init => CustodyInv
  <1> SUFFICES ASSUME Init PROVE CustodyInv
    OBVIOUS
  <1>1. TypeOK /\ HandsHoldNotes
    BY InitTypeOK DEF Init, HandsHoldNotes, NoMsg, Message
  <1>2. ASSUME NEW r \in RequestIds PROVE Custody(r) = 0
    <2>1. {s \in Senders : hand[s] = Message("req", r)} = {}
      BY DEF Init, NoMsg, Message
    <2>2. \A m : Copies(m, <<>>) = 0
      <3>1. \A m : {i \in 1..Len(<<>>) : <<>>[i] = m} = {}
        OBVIOUS
      <3> QED
        BY <3>1, FS_EmptySet DEF Copies
    <2>3. AnswerCopies(r, <<>>) = 0
      <3>1. {i \in 1..Len(<<>>) : <<>>[i].id = r /\ <<>>[i].type \in AnswerTypes} = {}
        OBVIOUS
      <3> QED
        BY <3>1, FS_EmptySet DEF AnswerCopies
    <2>4. Hands(r, hand) = 0 /\ Cardinality({r} \cap {}) = 0
      BY <2>1, FS_EmptySet, Parked DEF Hands
    <2>5. r # 0
      BY DEF RequestIds
    <2> QED
      BY <2>2, <2>3, <2>4, <2>5 DEF Custody, Init
  <1> QED
    BY <1>1, <1>2 DEF CustodyInv

LEMMA CustodyStep == CustodyInv /\ [Next]_vars => CustodyInv'
  <1> SUFFICES ASSUME CustodyInv, [Next]_vars PROVE CustodyInv'
    OBVIOUS
  <1>1. TypeOK /\ HandsHoldNotes /\ TypeOK' /\ HandsHoldNotes'
    BY TypeStep, NotesStep DEF CustodyInv
  <1>2. ASSUME NEW r \in RequestIds
        PROVE  Custody(r)' <= 1 /\ (nextId' <= r => Custody(r)' = 0)
    <2>1. /\ Custody(r) \in Nat /\ Custody(r)' \in Nat /\ r \in Nat
          /\ nextId \in Nat /\ nextId' \in Nat
          /\ Custody(r) <= 1 /\ (nextId <= r => Custody(r) = 0)
      <3>1. Custody(r) \in Nat
        BY <1>1, CustodyTerms
      <3>2. Custody(r)' \in Nat
        <4>1. Hands(r, hand') \in Nat
          BY <1>1, HandsMove DEF TypeOK, ServerTypeOK
        <4>2. /\ Copies(Message("req", r), writer') \in Nat
              /\ Copies(Message("req", r), event') \in Nat
              /\ Copies(Message("req", r), consumer') \in Nat
              /\ AnswerCopies(r, command') \in Nat /\ AnswerCopies(r, client') \in Nat
          BY <1>1, CopiesMove, AnswersMove DEF TypeOK, QueueTypeOK
        <4>3. Cardinality({r} \cap pendingApprovals') \in Nat
          BY Parked
        <4> QED
          BY <4>1, <4>2, <4>3 DEF Custody
      <3> QED
        BY <1>1, <3>1, <3>2, BoundAssumption DEF CustodyInv, TypeOK, ServerTypeOK, RequestIds
    <2>2. \/ Custody(r)' <= Custody(r) /\ nextId <= nextId'
          \/ Custody(r)' = Custody(r) + 1 /\ nextId = r /\ nextId' = r + 1
      <3>1. CASE UNCHANGED vars
        <4>1. Custody(r)' = Custody(r) /\ nextId' = nextId
          BY <3>1 DEF vars, serverVars, runtimeVars, workerVars, appVars, userVars, Custody
        <4> QED
          BY <2>1, <4>1
      <3>2. CASE ServerNext
        BY <1>1, <3>2, ServerCustody
      <3>3. CASE RuntimeNext \/ WorkerNext \/ AppNext \/ UserNext
        <4>1. Custody(r)' <= Custody(r) /\ nextId' = nextId
          BY <1>1, <3>3, RuntimeCustody, WorkerCustody, AppCustody, UserCustody
        <4> QED
          BY <2>1, <4>1
      <3> QED
        BY <3>1, <3>2, <3>3 DEF Next
    <2> QED
      BY <2>1, <2>2
  <1> QED
    BY <1>1, <1>2 DEF CustodyInv

(***************************************************************************)
(* A server request is in one place at most, counted over every hand,      *)
(* queue, table and answer: it is never rejected and still shown to the    *)
(* user, nor answered twice from the client side.                          *)
(***************************************************************************)
THEOREM OneCustody == Spec => []SingleCustody
  <1>1. CustodyInv => SingleCustody
    BY DEF CustodyInv, Custody, Hands, SingleCustody
  <1> QED
    BY <1>1, CustodyInit, CustodyStep, PTL DEF Spec
-----------------------------------------------------------------------------
(* No wait is left without what ends it.                                   *)

\* Only the worker takes the awaited rejection out, and then the wait ends.
LEMMA AwaitStep == TypeOK /\ AwaitedIsQueued /\ [Next]_vars => AwaitedIsQueued'
  <1> SUFFICES ASSUME TypeOK, AwaitedIsQueued, [Next]_vars, awaiting' # 0
               PROVE  InQueue(Message("error", awaiting'), command')
    BY DEF AwaitedIsQueued
  <1> USE DEF serverVars, runtimeVars, workerVars, appVars, userVars
  <1>a. /\ command \in Seq(ClientMessages) /\ rejecting \in Nat /\ awaiting \in Nat
        /\ RequestIds \subseteq Nat /\ Turns \subseteq Nat
        /\ responding \in [RequestIds -> {"none", "accept", "decline"}]
    BY BoundAssumption DEF TypeOK, QueueTypeOK, TaskTypeOK, UserTypeOK, RequestIds, Turns
  <1>b. ASSUME UNCHANGED awaiting PROVE InQueue(Message("error", awaiting'), command)
    BY <1>b DEF AwaitedIsQueued
  <1>1. CASE worker_request \/ worker_resolve
    <2>1. /\ command # <<>> /\ command' = Tail(command) /\ Head(command).type # "error"
          /\ UNCHANGED awaiting
      BY <1>1 DEF worker_request, worker_resolve
    <2>2. Head(command) # Message("error", awaiting')
      BY <2>1 DEF Message
    <2> QED
      BY <1>a, <1>b, <2>1, <2>2, InQueueTail
  <1>2. CASE worker_reject
    BY <1>2 DEF worker_reject, reply_to_app
  <1>3. CASE app_reject_send
    <2>1. Message("error", rejecting) \in ClientMessages
      BY <1>a, MessageInClient
    <2> QED
      BY <1>3, <1>a, <2>1, InQueueAppend DEF app_reject_send
  <1>4. ASSUME NEW m \in ClientMessages, command' = Append(command, m), UNCHANGED awaiting
        PROVE  InQueue(Message("error", awaiting'), command')
    BY <1>4, <1>a, <1>b, InQueueAppend
  <1>5. ASSUME NEW r \in RequestIds, resolve_server_request(r)
        PROVE  InQueue(Message("error", awaiting'), command')
    <2>1. responding[r] \in {"accept", "decline"} /\ r \in Nat
      BY <1>a, <1>5 DEF resolve_server_request
    <2>2. Message(responding[r], r) \in ClientMessages
      BY <2>1, MessageInClient
    <2> QED
      BY <1>4, <1>5, <2>2 DEF resolve_server_request
  <1>6. ASSUME NEW t \in Turns, send_message(t)
        PROVE  InQueue(Message("error", awaiting'), command')
    <2>1. Message("turn", t) \in ClientMessages
      BY <1>a, MessageInClient
    <2> QED
      BY <1>4, <1>6, <2>1 DEF send_message
  <1>7. CASE UNCHANGED <<command, awaiting>>
    BY <1>7, <1>b
  <1> QED
    BY <1>1, <1>2, <1>3, <1>5, <1>6, <1>7, Frames
    DEF Next, RuntimeNext, WorkerNext, AppNext, UserNext, vars, detached_request,
        worker_reject_auth, forward_lossless, forward_send, forward_best_effort,
        app_notification, app_server_request, respond_to_patch_approval

(***************************************************************************)
(* The app's wait for the reply to a rejection can always end: until the   *)
(* worker replies, the rejection is in the command queue.                  *)
(***************************************************************************)
THEOREM AwaitedQueued == Spec => []AwaitedIsQueued
  <1>1. Init => AwaitedIsQueued
    BY DEF Init, AwaitedIsQueued
  <1> QED
    BY <1>1, InitTypeOK, TypeStep, AwaitStep, PTL DEF Spec

\* What holds a waiting call is handed on, or the call is answered: by the
\* server tasks, ...
LEMMA ServerSent ==
  ASSUME TypeOK, ServerNext, NEW t \in Turns, TurnCarried(t)
  PROVE  TurnCarried(t)'
  <1> USE DEF serverVars, runtimeVars, workerVars, appVars, userVars
  <1> DEFINE resp == Message("resp", t)
  <1>a. /\ hand \in [Senders -> Events \cup {NoMsg}] /\ writer \in Seq(Events)
        /\ processor \in Seq(Nat) /\ "processor" \in Senders /\ "processor" \notin Threads
    BY ThreadAssumption DEF TypeOK, ServerTypeOK, QueueTypeOK, Senders
  <1>b. resp # NoMsg
    BY DEF NoMsg, Message
  <1>c. UNCHANGED <<command, detached, client>>
    BY DEF ServerNext, send_request_to_connections, send_server_notification,
           turn_transition, auth_refresh_timeout, outgoing_send, process_client_request
  <1>1. ASSUME NEW s \in Senders, NEW k \in Kinds, send_request_to_connections(s, k)
        PROVE  TurnCarried(t)'
    <2>1. hand'["processor"] = hand["processor"] /\ UNCHANGED <<writer, processor>>
      BY <1>1, <1>a DEF send_request_to_connections
    <2> QED
      BY <1>c, <2>1 DEF TurnCarried
  <1>2. ASSUME NEW s \in Threads, NEW c \in NoteClasses,
               send_server_notification(s, c) \/ turn_transition(s, c)
        PROVE  TurnCarried(t)'
    <2>1. hand'["processor"] = hand["processor"] /\ UNCHANGED <<writer, processor>>
      BY <1>2, <1>a DEF send_server_notification, turn_transition
    <2> QED
      BY <1>c, <2>1 DEF TurnCarried
  <1>3. ASSUME NEW r \in RequestIds, auth_refresh_timeout(r)
        PROVE  TurnCarried(t)'
    BY <1>3, <1>c DEF TurnCarried, auth_refresh_timeout
  <1>4. ASSUME NEW s \in Senders, outgoing_send(s)
        PROVE  TurnCarried(t)'
    <2>1. hand[s] \in Events /\ writer' = Append(writer, hand[s]) /\ UNCHANGED processor
          /\ (s # "processor" => hand'["processor"] = hand["processor"])
      BY <1>4, <1>a DEF outgoing_send
    <2>2. InQueue(resp, writer) \/ hand[s] = resp => InQueue(resp, writer')
      BY <1>a, <2>1, InQueueAppend
    <2> QED
      BY <1>c, <2>1, <2>2 DEF TurnCarried
  <1>5. CASE process_client_request
    <2>1. /\ processor # <<>> /\ processor' = Tail(processor) /\ UNCHANGED writer
          /\ hand["processor"] = NoMsg /\ hand'["processor"] = Message("resp", Head(processor))
      BY <1>5, <1>a DEF process_client_request
    <2>2. InQueue(t, processor) => InQueue(t, processor') \/ hand'["processor"] = resp
      <3>1. InQueue(t, processor) => t = Head(processor) \/ InQueue(t, Tail(processor))
        BY <1>a, <2>1, InQueueTail
      <3> QED
        BY <2>1, <3>1
    <2> QED
      BY <1>b, <1>c, <2>1, <2>2 DEF TurnCarried
  <1> QED
    BY <1>1, <1>2, <1>3, <1>4, <1>5 DEF ServerNext

\* ... by the runtime, ...
LEMMA RuntimeSent ==
  ASSUME TypeOK, RuntimeNext, NEW t \in Turns, turn'[t] = "sent",
         turn[t] = "sent" => TurnCarried(t)
  PROVE  TurnCarried(t)'
  <1> USE DEF serverVars, runtimeVars, workerVars, appVars, userVars
  <1> DEFINE resp == Message("resp", t)
             ask == Message("turn", t)
  <1>a. /\ writer \in Seq(Events) /\ client \in Seq(ClientMessages) /\ processor \in Seq(Nat)
        /\ turn \in [Turns -> {"idle", "sent", "ok", "error"}]
    BY DEF TypeOK, QueueTypeOK, UserTypeOK
  <1>b. UNCHANGED <<command, detached, hand>>
    BY DEF RuntimeNext, runtime_response, runtime_request, runtime_notification,
           runtime_event_send, runtime_server_request_answer, runtime_client_request
  <1>c. ASSUME writer # <<>>, writer' = Tail(writer), Head(writer) # resp
        PROVE  InQueue(resp, writer) => InQueue(resp, writer')
    BY <1>a, <1>c, InQueueTail
  <1>d. ASSUME client # <<>>, client' = Tail(client), Head(client) # ask
        PROVE  InQueue(ask, client) => InQueue(ask, client')
    BY <1>a, <1>d, InQueueTail
  <1>1. CASE runtime_response
    <2>1. /\ writer # <<>> /\ writer' = Tail(writer) /\ UNCHANGED <<client, processor>>
          /\ turn' = [turn EXCEPT ![Head(writer).id] = IF @ = "sent" THEN "ok" ELSE @]
      BY <1>1 DEF runtime_response, RuntimeTakes
    <2>2. Head(writer).id # t /\ turn[t] = "sent"
      BY <1>a, <2>1
    <2>3. Head(writer) # resp
      BY <2>2 DEF Message
    <2> QED
      BY <1>b, <1>c, <2>1, <2>2, <2>3 DEF TurnCarried
  <1>2. CASE runtime_request \/ runtime_notification
    <2>1. /\ writer # <<>> /\ writer' = Tail(writer) /\ UNCHANGED <<client, processor, turn>>
          /\ Head(writer).type # "resp"
      BY <1>2 DEF runtime_request, runtime_notification, RuntimeTakes, NoteClasses
    <2>2. Head(writer) # resp
      BY <2>1 DEF Message
    <2> QED
      BY <1>b, <1>c, <2>1, <2>2 DEF TurnCarried
  <1>3. CASE runtime_event_send
    BY <1>3, <1>b DEF runtime_event_send, TurnCarried
  <1>4. CASE runtime_server_request_answer
    <2>1. /\ client # <<>> /\ client' = Tail(client) /\ UNCHANGED <<writer, processor, turn>>
          /\ Head(client).type # "turn"
      BY <1>4 DEF runtime_server_request_answer
    <2>2. Head(client) # ask
      BY <2>1 DEF Message
    <2> QED
      BY <1>b, <1>d, <2>1, <2>2 DEF TurnCarried
  <1>5. CASE runtime_client_request
    <2>1. /\ client # <<>> /\ client' = Tail(client) /\ UNCHANGED writer
          /\ Head(client).type = "turn"
      BY <1>5 DEF runtime_client_request
    <2>2. Head(client) \in ClientMessages /\ Head(client).id \in Nat
      BY <1>a, <2>1, QueueTail, ClientMessageFields
    <2>3. CASE processor' = Append(processor, Head(client).id) /\ UNCHANGED turn
      <3>1. InQueue(t, processor) \/ Head(client).id = t => InQueue(t, processor')
        BY <1>a, <2>2, <2>3, InQueueAppend
      <3>2. Head(client) # ask \/ Head(client).id = t
        BY DEF Message
      <3> QED
        BY <1>b, <1>d, <2>1, <2>3, <3>1, <3>2 DEF TurnCarried
    <2>4. CASE reply_overloaded(Head(client).id) /\ UNCHANGED processor
      <3>1. Head(client).id # t /\ turn[t] = "sent"
        BY <1>a, <2>4 DEF reply_overloaded
      <3>2. Head(client) # ask
        BY <3>1 DEF Message
      <3> QED
        BY <1>b, <1>d, <2>1, <2>4, <3>1, <3>2 DEF TurnCarried
    <2> QED
      BY <1>5, <2>3, <2>4 DEF runtime_client_request
  <1> QED
    BY <1>1, <1>2, <1>3, <1>4, <1>5 DEF RuntimeNext

\* ... by the worker and its detached tasks, ...
LEMMA WorkerSent ==
  ASSUME TypeOK, WorkerNext, NEW t \in Turns, turn'[t] = "sent",
         turn[t] = "sent" => TurnCarried(t)
  PROVE  TurnCarried(t)'
  <1> USE DEF serverVars, runtimeVars, workerVars, appVars, userVars
  <1> DEFINE ask == Message("turn", t)
  <1>a. /\ command \in Seq(ClientMessages) /\ client \in Seq(ClientMessages)
        /\ event \in Seq(Events) /\ Turns \subseteq Nat
        /\ turn \in [Turns -> {"idle", "sent", "ok", "error"}]
    BY BoundAssumption DEF TypeOK, QueueTypeOK, UserTypeOK, Turns
  <1>b. UNCHANGED <<hand, writer, processor>>
    BY DEF WorkerNext, worker_request, detached_request, worker_resolve, worker_reject,
           worker_reject_auth, forward_lossless, forward_send, forward_best_effort
  <1>c. ASSUME NEW n \in Nat, NEW a \in AnswerTypes, NEW site, try_send_answer(n, a, site)
        PROVE  InQueue(ask, client) => InQueue(ask, client')
    <2>1. Message(a, n) \in ClientMessages
      BY MessageInClient DEF AnswerTypes
    <2>2. CASE client' = Append(client, Message(a, n))
      BY <1>a, <2>1, <2>2, InQueueAppend
    <2>3. CASE UNCHANGED client
      BY <2>3
    <2> QED
      BY <1>c, <2>2, <2>3 DEF try_send_answer
  <1>1. CASE worker_request
    <2>1. /\ command # <<>> /\ command' = Tail(command)
          /\ detached' = detached \cup {Head(command).id} /\ UNCHANGED <<client, turn>>
      BY <1>1 DEF worker_request
    <2>2. InQueue(ask, command) => InQueue(ask, command') \/ Head(command) = ask
      BY <1>a, <2>1, InQueueTail
    <2>3. Head(command) = ask => Head(command).id = t
      BY DEF Message
    <2> QED
      BY <1>b, <2>1, <2>2, <2>3 DEF TurnCarried
  <1>2. ASSUME NEW q \in Turns, detached_request(q)
        PROVE  TurnCarried(t)'
    <2>1. detached' = detached \ {q} /\ UNCHANGED command
      BY <1>2 DEF detached_request
    <2>2. CASE client' = Append(client, Message("turn", q)) /\ UNCHANGED turn
      <3>1. Message("turn", q) \in ClientMessages
        BY <1>a, MessageInClient
      <3>2. InQueue(ask, client) \/ q = t => InQueue(ask, client')
        BY <1>a, <2>2, <3>1, InQueueAppend
      <3> QED
        BY <1>b, <2>1, <2>2, <3>2 DEF TurnCarried
    <2>3. CASE turn' = [turn EXCEPT ![q] = "error"] /\ UNCHANGED client
      <3>1. q # t /\ turn[t] = "sent"
        BY <1>a, <2>3
      <3> QED
        BY <1>b, <2>1, <2>3, <3>1 DEF TurnCarried
    <2> QED
      BY <1>2, <2>2, <2>3 DEF detached_request
  <1>3. CASE worker_resolve \/ worker_reject
    <2>1. /\ command # <<>> /\ command' = Tail(command) /\ Head(command).type \in AnswerTypes
          /\ UNCHANGED <<detached, turn>>
          /\ \E site : try_send_answer(Head(command).id, Head(command).type, site)
      BY <1>3 DEF worker_resolve, worker_reject, AnswerTypes
    <2>2. Head(command).id \in Nat /\ Head(command) # ask
      BY <1>a, <2>1, QueueTail, ClientMessageFields DEF Message, AnswerTypes
    <2>3. InQueue(ask, command) => InQueue(ask, command')
      BY <1>a, <2>1, <2>2, InQueueTail
    <2>4. InQueue(ask, client) => InQueue(ask, client')
      BY <1>c, <2>1, <2>2
    <2> QED
      BY <1>b, <2>1, <2>3, <2>4 DEF TurnCarried
  <1>4. CASE worker_reject_auth \/ forward_best_effort
    <2>1. Head(event).id \in Nat /\ "error" \in AnswerTypes
      BY <1>4, <1>a, QueueTail, MessageFields
      DEF worker_reject_auth, forward_best_effort, WorkerTakes, AnswerTypes
    <2>2. UNCHANGED client \/ \E site : try_send_answer(Head(event).id, "error", site)
      BY <1>4 DEF worker_reject_auth, forward_best_effort, reject_dropped
    <2>3. InQueue(ask, client) => InQueue(ask, client')
      BY <1>c, <2>1, <2>2
    <2>4. UNCHANGED <<command, detached, turn>>
      BY <1>4 DEF worker_reject_auth, forward_best_effort
    <2> QED
      BY <1>b, <2>3, <2>4 DEF TurnCarried
  <1>5. CASE forward_lossless \/ forward_send
    BY <1>5, <1>b DEF forward_lossless, forward_send, TurnCarried
  <1> QED
    BY <1>1, <1>2, <1>3, <1>4, <1>5 DEF WorkerNext

\* ... by the app, and by the calls themselves.
LEMMA WindowSent ==
  ASSUME TypeOK, AppNext \/ UserNext, NEW t \in Turns, turn'[t] = "sent",
         turn[t] = "sent" => TurnCarried(t)
  PROVE  TurnCarried(t)'
  <1> USE DEF serverVars, runtimeVars, workerVars, appVars, userVars
  <1> DEFINE ask == Message("turn", t)
  <1>a. /\ command \in Seq(ClientMessages) /\ rejecting \in Nat
        /\ RequestIds \subseteq Nat /\ Turns \subseteq Nat
        /\ responding \in [RequestIds -> {"none", "accept", "decline"}]
        /\ turn \in [Turns -> {"idle", "sent", "ok", "error"}]
    BY BoundAssumption DEF TypeOK, QueueTypeOK, TaskTypeOK, UserTypeOK, RequestIds, Turns
  <1>b. UNCHANGED <<hand, writer, processor, detached, client>>
    BY DEF AppNext, UserNext, app_notification, app_server_request, app_reject_send,
           respond_to_patch_approval, resolve_server_request, send_message
  <1>1. ASSUME NEW m \in ClientMessages, command' = Append(command, m),
               UNCHANGED turn \/ (m = ask /\ turn[t] # "sent")
        PROVE  TurnCarried(t)'
    <2>1. InQueue(ask, command) \/ m = ask => InQueue(ask, command')
      BY <1>1, <1>a, InQueueAppend
    <2> QED
      BY <1>1, <1>b, <2>1 DEF TurnCarried
  <1>2. CASE app_reject_send
    <2>1. Message("error", rejecting) \in ClientMessages
      BY <1>a, MessageInClient
    <2> QED
      BY <1>1, <1>2, <2>1 DEF app_reject_send
  <1>3. ASSUME NEW r \in RequestIds, resolve_server_request(r)
        PROVE  TurnCarried(t)'
    <2>1. responding[r] \in {"accept", "decline"} /\ r \in Nat
      BY <1>a, <1>3 DEF resolve_server_request
    <2>2. Message(responding[r], r) \in ClientMessages
      BY <2>1, MessageInClient
    <2> QED
      BY <1>1, <1>3, <2>2 DEF resolve_server_request
  <1>4. ASSUME NEW q \in Turns, send_message(q)
        PROVE  TurnCarried(t)'
    <2>1. Message("turn", q) \in ClientMessages
      BY <1>a, MessageInClient
    <2>2. /\ command' = Append(command, Message("turn", q))
          /\ turn' = [turn EXCEPT ![q] = "sent"]
      BY <1>4 DEF send_message
    <2>3. InQueue(ask, command) \/ q = t => InQueue(ask, command')
      BY <1>a, <2>1, <2>2, InQueueAppend
    <2>4. q # t => turn[t] = "sent"
      BY <1>a, <2>2
    <2> QED
      BY <1>b, <2>3, <2>4 DEF TurnCarried
  <1>5. CASE UNCHANGED <<command, turn>>
    BY <1>5, <1>b DEF TurnCarried
  <1> QED
    BY <1>2, <1>3, <1>4, <1>5
    DEF AppNext, UserNext, app_notification, app_server_request, respond_to_patch_approval

LEMMA SentStep == TypeOK /\ SentIsReachable /\ [Next]_vars => SentIsReachable'
  <1> SUFFICES ASSUME TypeOK, SentIsReachable, [Next]_vars, NEW t \in Turns, turn'[t] = "sent"
               PROVE  TurnCarried(t)'
    BY DEF SentIsReachable
  <1>1. turn[t] = "sent" => TurnCarried(t)
    BY DEF SentIsReachable
  <1>2. CASE ServerNext
    <2>1. UNCHANGED turn
      BY <1>2 DEF ServerNext, send_request_to_connections, send_server_notification,
                  turn_transition, auth_refresh_timeout, outgoing_send, process_client_request
    <2> QED
      BY <1>1, <1>2, <2>1, ServerSent
  <1>3. CASE UNCHANGED vars
    BY <1>1, <1>3
    DEF vars, serverVars, runtimeVars, workerVars, appVars, userVars, TurnCarried
  <1> QED
    BY <1>1, <1>2, <1>3, RuntimeSent, WorkerSent, WindowSent DEF Next

(***************************************************************************)
(* No send_message call is forgotten, at any load: while it waits, its     *)
(* request or the response to it is in some queue or hand.                 *)
(***************************************************************************)
THEOREM SentReachable == Spec => []SentIsReachable
  <1>1. Init => SentIsReachable
    BY DEF Init, SentIsReachable
  <1> QED
    BY <1>1, InitTypeOK, TypeStep, SentStep, PTL DEF Spec
=============================================================================
