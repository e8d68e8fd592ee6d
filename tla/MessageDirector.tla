-------------------------- MODULE MessageDirector --------------------------
(***************************************************************************)
(* The routing core of src/src/messagedirector/MessageDirector.cpp.        *)
(*                                                                         *)
(* Local participants (MDNetworkParticipant objects) are created when a    *)
(* connection is accepted, subscribe to channels, register post-remove     *)
(* datagrams and send datagrams; the upstream link (if configured) also    *)
(* injects datagrams with a null origin.  route_datagram pushes            *)
(* (origin, datagram) onto the lock-free queue m_messages; in threaded     *)
(* mode the routing threads pop and run process_datagram concurrently     *)
(* with the main thread, in single-threaded mode the main thread runs      *)
(* flush_queue inline.  process_datagram snapshots the receiving           *)
(* participants, skips the ones whose terminated flag is set and calls     *)
(* handle_datagram on the others.  remove_participant unsubscribes,        *)
(* routes the post-removes and parks the object in                         *)
(* m_terminated_participants; process_terminates deletes the parked        *)
(* objects, from the 50 ms cleanup timer (threaded) or at the tail of      *)
(* process_datagram (single-threaded).                                     *)
(*                                                                         *)
(* The subscription index (ChannelMap) and the participant base class are  *)
(* not part of the source tree; the actions that stand for them follow     *)
(* spec.md sections 3 and 4.3.                                             *)
(***************************************************************************)
EXTENDS Naturals, Sequences, FiniteSets, Bags
LOCAL INSTANCE BagsExt

CONSTANTS
  Participants,  \* MDNetworkParticipant objects (model values)
  BodyReaders,   \* participants whose handle_datagram parses the body
  Channels,      \* channel ids a datagram may be addressed to
  Workers,       \* routing threads; {} is threaded: false
  MainThread,    \* the event-loop thread (model value)
  NoP,           \* null participant pointer (model value)
  HasUpstream,   \* messagedirector.connect is configured
  Kinds,         \* datagram shapes: "ok", "short" body, "trunc" header
  MaxMsgs        \* bound on datagrams created in a behaviour

ASSUME BodyReaders \subseteq Participants
ASSUME Kinds \subseteq {"ok", "short", "trunc"}
ASSUME MaxMsgs \in Nat /\ HasUpstream \in BOOLEAN

Threaded == Workers # {}
Routers  == IF Threaded THEN Workers ELSE {MainThread}
Ids      == 1..MaxMsgs
Upstream == NoP   \* origin of datagrams received from the upstream link

VARIABLES
  participants,  \* m_participants
  terminated,    \* participants whose is_terminated() flag is set
  terminating,   \* m_terminated_participants
  deleted,       \* participant objects freed by process_terminates
  subs,          \* ChannelMap: channels each participant subscribes to
  postRemoves,   \* each participant's post-remove datagrams (ids)
  queue,         \* m_messages: ids of routed datagrams, FIFO
  msgs,          \* every datagram created: origin, receivers, shape
  router,        \* per routing thread: process_datagram's locals
  mainRouting,   \* m_main_is_routing
  removing,      \* participant whose remove_participant is in progress
  upSubs,        \* channels subscribed at the upstream MD
  upPR,          \* post-remove ids held at the upstream MD
  fwd,           \* ids of datagrams forwarded upstream
  delivered,     \* history: bag of <<q, id>>, one copy per handle_datagram call
  pushes,        \* history: how often each id was pushed onto m_messages
  snap,          \* history: participants_to_notify taken for each id
  processed,     \* history: ids whose process_datagram has returned
  uaf,           \* history: a freed participant object was dereferenced
  dtor,          \* ~MessageDirector: "no", "join" (in shutdown_threading), "done"
  exited         \* routing threads that have left routing_thread's loop

vars == <<participants, terminated, terminating, deleted, subs, postRemoves,
          queue, msgs, router, mainRouting, removing, upSubs, upPR, fwd,
          delivered, pushes, snap, processed, uaf, dtor, exited>>

Msg == [origin : Participants \cup {Upstream}, rcv : SUBSET Channels,
        kind : Kinds, pr : BOOLEAN]

Idle == [pc |-> "idle", id |-> 0, todo |-> {}, target |-> NoP]

----------------------------------------------------------------------------
(* Helpers *)

NewId == Len(msgs) + 1

\* Subscribers of any receiver channel: ChannelMap::lookup_channels.
LookupChannels(rcv) == {q \in Participants : subs[q] \cap rcv # {}}

\* Main-thread event handlers run only when the main thread is not inside
\* flush_queue or remove_participant, and not once it runs the destructor.
MainFree == ~mainRouting /\ removing = NoP /\ dtor = "no"

\* Mutant: the `if(!m_thread_pool.empty()) return;` test placed before
\* the push, so threaded mode never enqueues.
RouteDatagramEarlyReturn(ids) ==
  /\ queue' = IF Threaded THEN queue ELSE queue \o ids
  /\ pushes' = [i \in Ids |-> pushes[i] + Cardinality({k \in DOMAIN ids : ids[k] = i})]
  /\ mainRouting' = (~Threaded /\ ids # <<>>)

\* route_datagram: push, then in single-threaded mode flush on the main
\* thread (m_main_is_routing is set for the whole flush).
RouteDatagram(ids) ==
  /\ queue' = queue \o ids
  /\ pushes' = [i \in Ids |-> pushes[i] + Cardinality({k \in DOMAIN ids : ids[k] = i})]
  /\ mainRouting' = (~Threaded /\ ids # <<>>)

\* process_terminates: delete every parked participant.
ProcessTerminates ==
  /\ deleted' = deleted \cup terminating
  /\ terminating' = {}

----------------------------------------------------------------------------
(* Main thread: participant lifecycle and control messages *)

\* MessageDirector::handle_connection creates an MDNetworkParticipant,
\* whose constructor registers it with add_participant.
AddParticipant(p) ==
  /\ MainFree
  /\ p \notin participants \cup terminated
  /\ participants' = participants \cup {p}
  /\ UNCHANGED <<dtor, exited, terminated, terminating, deleted, subs, postRemoves, queue,
                 msgs, router, mainRouting, removing, upSubs, upPR, fwd,
                 delivered, pushes, snap, processed, uaf>>

\* CONTROL_ADD_CHANNEL: ChannelMap::subscribe_channel, on_add_channel when
\* p is the first subscriber.
SubscribeChannel(p, c) ==
  /\ MainFree
  /\ p \in participants /\ c \notin subs[p]
  /\ subs' = [subs EXCEPT ![p] = @ \cup {c}]
  /\ upSubs' = IF HasUpstream THEN upSubs \cup {c} ELSE upSubs
  /\ UNCHANGED <<dtor, exited, participants, terminated, terminating, deleted, postRemoves,
                 queue, msgs, router, mainRouting, removing, upPR, fwd,
                 delivered, pushes, snap, processed, uaf>>

\* Channels no participant other than p subscribes to.
LastSubscriber(p, cs) == {c \in cs : \A q \in Participants \ {p} : c \notin subs[q]}

\* CONTROL_REMOVE_CHANNEL: on_remove_channel when p was the last subscriber.
UnsubscribeChannel(p, c) ==
  /\ MainFree
  /\ p \in participants /\ c \in subs[p]
  /\ subs' = [subs EXCEPT ![p] = @ \ {c}]
  /\ upSubs' = IF HasUpstream THEN upSubs \ LastSubscriber(p, {c}) ELSE upSubs
  /\ UNCHANGED <<dtor, exited, participants, terminated, terminating, deleted, postRemoves,
                 queue, msgs, router, mainRouting, removing, upPR, fwd,
                 delivered, pushes, snap, processed, uaf>>

\* CONTROL_ADD_POST_REMOVE: append to p's buffer, preroute_post_remove.
AddPostRemove(p) ==
  /\ MainFree
  /\ p \in participants /\ NewId \in Ids
  /\ \E rcv \in SUBSET Channels \ {{}} :
       msgs' = Append(msgs, [origin |-> p, rcv |-> rcv, kind |-> "ok", pr |-> TRUE])
  /\ postRemoves' = [postRemoves EXCEPT ![p] = Append(@, NewId)]
  /\ upPR' = IF HasUpstream THEN upPR \cup {NewId} ELSE upPR
  /\ UNCHANGED <<dtor, exited, participants, terminated, terminating, deleted, subs, queue,
                 router, mainRouting, removing, upSubs, fwd, delivered,
                 pushes, snap, processed, uaf>>

PRIds(p) == {postRemoves[p][k] : k \in DOMAIN postRemoves[p]}

\* CONTROL_CLEAR_POST_REMOVES: empty p's buffer, recall_post_removes.
ClearPostRemoves(p) ==
  /\ MainFree
  /\ p \in participants /\ postRemoves[p] # <<>>
  /\ postRemoves' = [postRemoves EXCEPT ![p] = <<>>]
  /\ upPR' = IF HasUpstream THEN upPR \ PRIds(p) ELSE upPR
  /\ UNCHANGED <<dtor, exited, participants, terminated, terminating, deleted, subs, queue,
                 msgs, router, mainRouting, removing, upSubs, fwd, delivered,
                 pushes, snap, processed, uaf>>

\* A data datagram read from p's connection: route_datagram(p, dg).
SendDatagram(p) ==
  /\ MainFree
  /\ p \in participants /\ NewId \in Ids
  /\ \E rcv \in SUBSET Channels \ {{}}, k \in Kinds :
       msgs' = Append(msgs, [origin |-> p, rcv |-> rcv, kind |-> k, pr |-> FALSE])
  /\ RouteDatagram(<<NewId>>)
  /\ UNCHANGED <<dtor, exited, participants, terminated, terminating, deleted, subs,
                 postRemoves, router, removing, upSubs, upPR, fwd, delivered,
                 snap, processed, uaf>>

\* MessageDirector::receive_datagram: route_datagram(nullptr, dg).
ReceiveUpstream ==
  /\ MainFree
  /\ HasUpstream /\ NewId \in Ids
  /\ \E rcv \in SUBSET Channels \ {{}}, k \in Kinds :
       msgs' = Append(msgs, [origin |-> Upstream, rcv |-> rcv, kind |-> k, pr |-> FALSE])
  /\ RouteDatagram(<<NewId>>)
  /\ UNCHANGED <<dtor, exited, participants, terminated, terminating, deleted, subs,
                 postRemoves, router, removing, upSubs, upPR, fwd, delivered,
                 snap, processed, uaf>>

\* The connection is lost: the participant is marked terminated and
\* remove_participant runs up to and including post_remove's routing.
RemoveParticipant(p) ==
  /\ MainFree
  /\ p \in participants
  /\ terminated' = terminated \cup {p}
  /\ subs' = [subs EXCEPT ![p] = {}]
  /\ upSubs' = IF HasUpstream THEN upSubs \ LastSubscriber(p, subs[p]) ELSE upSubs
  /\ participants' = participants \ {p}
  /\ RouteDatagram(postRemoves[p])
  /\ postRemoves' = [postRemoves EXCEPT ![p] = <<>>]
  /\ removing' = p
  /\ UNCHANGED <<dtor, exited, terminating, deleted, msgs, router, upPR, fwd, delivered,
                 snap, processed, uaf>>

\* The rest of remove_participant, once post_remove's routing returned:
\* recall the upstream copies and park p in m_terminated_participants.
FinishRemove ==
  /\ removing # NoP /\ ~mainRouting
  /\ upPR' = upPR \ {i \in DOMAIN msgs : msgs[i].pr /\ msgs[i].origin = removing}
  /\ terminating' = terminating \cup {removing}
  /\ removing' = NoP
  /\ UNCHANGED <<dtor, exited, participants, terminated, deleted, subs, postRemoves, queue,
                 msgs, router, mainRouting, upSubs, fwd, delivered, pushes,
                 snap, processed, uaf>>

\* The cleanup timer (threaded mode only) runs process_terminates.
CleanupTimer ==
  /\ MainFree /\ Threaded
  /\ terminating # {}
  /\ ProcessTerminates
  /\ UNCHANGED <<dtor, exited, participants, terminated, subs, postRemoves, queue, msgs,
                 router, mainRouting, removing, upSubs, upPR, fwd, delivered,
                 pushes, snap, processed, uaf>>

----------------------------------------------------------------------------
(* Routing: process_datagram, run by a routing thread or by flush_queue *)

\* The receiving participants of datagram m: the subscribers of its
\* channels other than its origin.
Receivers(m) == LookupChannels(m.rcv) \ {m.origin}

\* A routing thread pops only after the loop test found m_shutdown clear.
CanRoute(r) == (r = MainThread => mainRouting) /\ dtor = "no"

\* Pop one datagram, decode its header and snapshot the receivers.  A
\* truncated header is logged with the origin's name (a dereference of
\* the origin pointer) and dropped.
PopDatagram(r) ==
  /\ CanRoute(r) /\ router[r].pc = "idle" /\ queue # <<>>
  /\ LET id == Head(queue)
         m  == msgs[id]
         to == Receivers(m)
     IN /\ queue' = Tail(queue)
        /\ IF m.kind = "trunc"
             THEN /\ processed' = processed \cup {id}
                  /\ uaf' = (uaf \/ m.origin \in deleted)
                  /\ UNCHANGED <<router, snap>>
             ELSE /\ router' = [router EXCEPT ![r] =
                                  [pc |-> "fanout", id |-> id, todo |-> to, target |-> NoP]]
                  /\ snap' = [snap EXCEPT ![id] = to]
                  /\ UNCHANGED <<processed, uaf>>
  /\ UNCHANGED <<dtor, exited, participants, terminated, terminating, deleted, subs,
                 postRemoves, msgs, mainRouting, removing, upSubs, upPR, fwd,
                 delivered, pushes>>

\* participant->is_terminated() on the next snapshot entry.  Reading the
\* flag of a freed object is undefined: either answer may come back.
CheckTerminated(r) ==
  /\ router[r].pc = "fanout"
  /\ \E q \in router[r].todo :
       /\ uaf' = (uaf \/ q \in deleted)
       /\ \E isTerm \in IF q \in deleted THEN BOOLEAN ELSE {q \in terminated} :
            router' = [router EXCEPT ![r] =
                         IF isTerm THEN [@ EXCEPT !.todo = @ \ {q}]
                                   ELSE [@ EXCEPT !.pc = "handle", !.target = q]]
  /\ UNCHANGED <<dtor, exited, participants, terminated, terminating, deleted, subs,
                 postRemoves, queue, msgs, mainRouting, removing, upSubs, upPR,
                 fwd, delivered, pushes, snap, processed>>

\* Mutant: handle_datagram called without the loop having picked a target.
HandleDatagramNoGuard(r) ==
  LET q  == router[r].target
      id == router[r].id
  IN /\ router[r].pc # "idle"
     /\ delivered' = BagAdd(delivered, <<q, id>>)
     /\ router' = [router EXCEPT ![r] =
                     [@ EXCEPT !.pc = "fanout", !.todo = @ \ {q}, !.target = NoP]]
     /\ UNCHANGED <<dtor, exited, participants, terminated, terminating, deleted, subs,
                    postRemoves, queue, msgs, mainRouting, removing, upSubs,
                    upPR, fwd, pushes, snap, uaf, processed>>

\* Mutant: the delivered participant is not dropped from the snapshot, so
\* the loop may come back to it.
HandleDatagramNoErase(r) ==
  LET q  == router[r].target
      id == router[r].id
  IN /\ router[r].pc = "handle"
     /\ delivered' = BagAdd(delivered, <<q, id>>)
     /\ IF msgs[id].kind = "short" /\ q \in BodyReaders
          THEN /\ router' = [router EXCEPT ![r] = Idle]
               /\ processed' = processed \cup {id}
          ELSE /\ router' = [router EXCEPT ![r] = [@ EXCEPT !.pc = "fanout", !.target = NoP]]
               /\ UNCHANGED processed
     /\ UNCHANGED <<dtor, exited, participants, terminated, terminating, deleted, subs,
                    postRemoves, queue, msgs, mainRouting, removing, upSubs,
                    upPR, fwd, pushes, snap, uaf>>

\* participant->handle_datagram(dg, msg_dgi).  A body reader given a short
\* body throws DatagramIteratorEOF and process_datagram returns.
HandleDatagram(r) ==
  LET q  == router[r].target
      id == router[r].id
  IN /\ router[r].pc = "handle"
     /\ delivered' = BagAdd(delivered, <<q, id>>)
     /\ IF msgs[id].kind = "short" /\ q \in BodyReaders
          THEN /\ router' = [router EXCEPT ![r] = Idle]
               /\ processed' = processed \cup {id}
          ELSE /\ router' = [router EXCEPT ![r] =
                               [@ EXCEPT !.pc = "fanout", !.todo = @ \ {q}, !.target = NoP]]
               /\ UNCHANGED processed
     /\ UNCHANGED <<dtor, exited, participants, terminated, terminating, deleted, subs,
                    postRemoves, queue, msgs, mainRouting, removing, upSubs,
                    upPR, fwd, pushes, snap, uaf>>

\* Fanout done: forward upstream if the origin is local, then, in
\* single-threaded mode, process_terminates.
FinishDatagram(r) ==
  LET id == router[r].id IN
  /\ router[r].pc = "fanout" /\ router[r].todo = {}
  /\ router' = [router EXCEPT ![r] = Idle]
  /\ processed' = processed \cup {id}
  /\ fwd' = IF HasUpstream /\ msgs[id].origin # Upstream THEN fwd \cup {id} ELSE fwd
  /\ IF Threaded THEN UNCHANGED <<deleted, terminating>> ELSE ProcessTerminates
  /\ UNCHANGED <<dtor, exited, participants, terminated, subs, postRemoves, queue, msgs,
                 mainRouting, removing, upSubs, upPR, delivered, pushes, snap, uaf>>

\* Mutant: flush_queue pops once (`if` for `while`).
FlushDoneEarly ==
  /\ mainRouting /\ router[MainThread].pc = "idle"
  /\ mainRouting' = FALSE
  /\ UNCHANGED <<dtor, exited, participants, terminated, terminating, deleted, subs,
                 postRemoves, queue, msgs, router, removing, upSubs, upPR, fwd,
                 delivered, pushes, snap, processed, uaf>>

\* flush_queue returns once the queue is empty.
FlushDone ==
  /\ mainRouting /\ queue = <<>> /\ router[MainThread].pc = "idle"
  /\ mainRouting' = FALSE
  /\ UNCHANGED <<dtor, exited, participants, terminated, terminating, deleted, subs,
                 postRemoves, queue, msgs, router, removing, upSubs, upPR, fwd,
                 delivered, pushes, snap, processed, uaf>>

\* routing_thread's loop test finds the stop request or m_shutdown set and
\* the thread returns, whatever is still in m_messages.
WorkerExit(r) ==
  /\ r \in Workers /\ dtor = "join" /\ router[r].pc = "idle" /\ r \notin exited
  /\ exited' = exited \cup {r}
  /\ UNCHANGED <<participants, terminated, terminating, deleted, subs,
                 postRemoves, queue, msgs, router, mainRouting, removing, upSubs,
                 upPR, fwd, delivered, pushes, snap, processed, uaf, dtor>>

RouterStep(r) ==
  \/ WorkerExit(r)
  \/ PopDatagram(r)
  \/ CheckTerminated(r)
  \/ HandleDatagram(r)
  \/ FinishDatagram(r)

----------------------------------------------------------------------------
(* ~MessageDirector *)

\* shutdown_threading with a thread pool: set m_shutdown, cancel and drop
\* the cleanup timer, request_stop every worker; the main thread then
\* blocks in m_thread_pool.clear() until each worker has returned.
ShutdownThreading ==
  /\ MainFree /\ Threaded
  /\ dtor' = "join"
  /\ UNCHANGED <<participants, terminated, terminating, deleted, subs,
                 postRemoves, queue, msgs, router, mainRouting, removing, upSubs,
                 upPR, fwd, delivered, pushes, snap, processed, uaf,
                 exited>>

\* The rest of the destructor, once the workers are joined (at once in
\* single-threaded mode, where shutdown_threading returns early): every
\* participant joins m_terminated_participants, process_terminates deletes
\* them, and the MessagePairs left in m_messages are deleted unrouted.
Destroy ==
  /\ \/ ~Threaded /\ MainFree
     \/ dtor = "join" /\ exited = Workers
  /\ dtor' = "done"
  /\ participants' = {}
  /\ deleted' = deleted \cup terminating \cup participants
  /\ terminating' = {}
  /\ queue' = <<>>
  /\ UNCHANGED <<terminated, subs, postRemoves, msgs, router, mainRouting,
                 removing, upSubs, upPR, fwd, delivered, pushes, snap,
                 processed, uaf, exited>>

----------------------------------------------------------------------------

Init ==
  /\ participants = {} /\ terminated = {} /\ terminating = {} /\ deleted = {}
  /\ subs = [p \in Participants |-> {}]
  /\ postRemoves = [p \in Participants |-> <<>>]
  /\ queue = <<>> /\ msgs = <<>>
  /\ router = [r \in Routers |-> Idle]
  /\ mainRouting = FALSE /\ removing = NoP
  /\ upSubs = {} /\ upPR = {} /\ fwd = {}
  /\ delivered = EmptyBag /\ pushes = [i \in Ids |-> 0]
  /\ snap = [i \in Ids |-> {}] /\ processed = {}
  /\ uaf = FALSE /\ dtor = "no" /\ exited = {}

Next ==
  \/ \E p \in Participants :
       \/ AddParticipant(p)
       \/ AddPostRemove(p)
       \/ ClearPostRemoves(p)
       \/ SendDatagram(p)
       \/ RemoveParticipant(p)
       \/ \E c \in Channels : SubscribeChannel(p, c) \/ UnsubscribeChannel(p, c)
  \/ ReceiveUpstream
  \/ FinishRemove
  \/ CleanupTimer
  \/ FlushDone
  \/ ShutdownThreading
  \/ Destroy
  \/ \E r \in Routers : RouterStep(r)

\* Routing threads loop forever; the event loop runs every ready handler
\* and the cleanup timer re-arms itself every 50 ms.  Nothing obliges the
\* process to exit, but once the destructor has joined the workers it
\* runs to the end.
Fairness ==
  /\ \A r \in Routers : WF_vars(RouterStep(r))
  /\ WF_vars(FlushDone)
  /\ WF_vars(FinishRemove)
  /\ WF_vars(CleanupTimer)
  /\ WF_vars(dtor = "join" /\ Destroy)

Spec == Init /\ [][Next]_vars /\ Fairness

----------------------------------------------------------------------------
(* Properties *)

TypeOK ==
  /\ participants \subseteq Participants /\ terminated \subseteq Participants
  /\ terminating \subseteq Participants /\ deleted \subseteq Participants
  /\ subs \in [Participants -> SUBSET Channels]
  /\ postRemoves \in [Participants -> Seq(Ids)]
  /\ queue \in Seq(Ids) /\ msgs \in Seq(Msg) /\ Len(msgs) <= MaxMsgs
  /\ router \in [Routers -> [pc : {"idle", "fanout", "handle"}, id : 0..MaxMsgs,
                             todo : SUBSET Participants, target : Participants \cup {NoP}]]
  /\ mainRouting \in BOOLEAN /\ removing \in Participants \cup {NoP}
  /\ upSubs \subseteq Channels /\ upPR \subseteq Ids /\ fwd \subseteq Ids
  /\ IsABag(delivered) /\ BagToSet(delivered) \subseteq Participants \X Ids
  /\ pushes \in [Ids -> Nat] /\ snap \in [Ids -> SUBSET Participants]
  /\ processed \subseteq Ids /\ uaf \in BOOLEAN
  /\ dtor \in {"no", "join", "done"} /\ exited \subseteq Workers

\* MessageDirector.cpp:302: terminates are deferred "to avoid deleting
\* participants while worker threads might be using them": no thread
\* dereferences a participant after process_terminates deleted it.
NoUseAfterFree == ~uaf

\* Every routed datagram is eventually taken off the queue and processed,
\* unless the MessageDirector is destroyed first.
RoutedEventuallyProcessed ==
  \A i \in Ids : (pushes[i] > 0) ~> (i \in processed \/ dtor = "done")

\* spec.md 5: on shutdown, workers exit only when the stop flag is set and
\* the queue is empty, and the remaining messages are drained: by the time
\* ~MessageDirector has finished, every routed datagram was processed.
\* routing_thread tests only the flag, and the destructor deletes what
\* is left in m_messages.
ShutdownDrains ==
  dtor = "done" => \A i \in Ids : pushes[i] > 0 => i \in processed

\* spec.md 4.4 step 5 and 4.7: a handler's truncation error ends only that
\* delivery; every participant of the snapshot that is still connected
\* gets handle_datagram called once process_datagram returns.
FanoutComplete ==
  \A i \in processed : \A q \in snap[i] : q \notin terminated => BagIn(<<q, i>>, delivered)

----------------------------------------------------------------------------
(* Refinement of Routing in single-threaded mode *)

\* The datagram the main thread is routing, then the ones still queued.
Pending ==
  IF \E r \in Routers : router[r].pc # "idle"
    THEN <<router[CHOOSE r \in Routers : router[r].pc # "idle"].id>> \o queue
    ELSE queue

Abs == INSTANCE Routing WITH conn <- participants, pending <- Pending,
                             routed <- {i \in Ids : pushes[i] > 0},
                             got <- delivered

\* flush_queue and process_datagram on the main thread implement Routing:
\* datagrams are handled one at a time in routing order, each goes only to
\* connected subscribers of its channels other than its origin, at most
\* once to each, and each is routed once.
RefinesRouting == Abs!Spec

=============================================================================
