---------------------------- MODULE NetworkClient ----------------------------
(***************************************************************************)
(* One connection of src/src/net/NetworkClient.cpp: its send queue, the    *)
(* write in flight and its timer, local and remote disconnects, and the    *)
(* read loop's re-arming.                                                  *)
(*                                                                         *)
(* The fields guarded by m_mutex, the socket, the timer and the entries    *)
(* the connection has on the event loop are one record, `client`.  Each   *)
(* method of the class is an operator from such a record to the record it *)
(* leaves behind, so a handler that calls disconnect, which calls          *)
(* shutdown, is the composition of the operators, in the code's order.    *)
(* Event-loop handlers run on the main thread one at a time; other threads *)
(* (MD routing threads) call send_datagram and disconnect concurrently,    *)
(* under m_mutex.  A datagram sent is its size; the bytes the peer sends   *)
(* are a stream of frames that each read takes a chunk of, and the read    *)
(* handler's process_datagram is module Framing's, instantiated here.      *)
(***************************************************************************)
EXTENDS Naturals, Sequences
LOCAL INSTANCE Functions

CONSTANTS
  Main,          \* g_main_thread_id (model value)
  Workers,       \* other threads that send on the connection
  Sizes,         \* datagram sizes (dg->size())
  MaxQueue,      \* m_max_queue_size; 0 is unlimited
  WriteTimeout,  \* m_write_timeout > 0
  BodyLens,      \* body lengths the peer's frames may declare (0 is a protocol error)
  MaxFrames,     \* bound on the frames the peer sends
  MaxChunk,      \* bound on the bytes one async_read_some returns
  PeerReads,     \* the peer keeps reading: a pending write completes
  MaxSends       \* bound on send_datagram calls

ASSUME Sizes \subseteq Nat \ {0} /\ MaxQueue \in Nat /\ MaxSends \in Nat
ASSUME WriteTimeout \in BOOLEAN /\ PeerReads \in BOOLEAN

Threads == {Main} \cup Workers
HeaderSize == 2   \* sizeof(dgsize_t)

\* Error codes handed to disconnect and handle_disconnect.
Errors == {"eof", "nobufs", "proto", "timedout", "user", "peer", "aborted"}

VARIABLES
  client,      \* the NetworkClient object, its socket, timer and loop entries
  pc,          \* per thread: "shut" while inside shutdown's unlocked window
  sends,       \* send_datagram calls so far
  peerClosed,  \* the peer has closed or reset the connection
  lens, pos, buf, delivered, protoErr  \* the read path (module Framing)

rx == <<lens, pos, buf, delivered, protoErr>>
vars == <<client, pc, sends, peerClosed, rx>>

Rx == INSTANCE Framing

Client == [
  sock     : BOOLEAN,           \* m_socket != nullptr
  open     : BOOLEAN,           \* m_socket->is_open()
  queue    : Seq(Sizes),        \* m_send_queue
  total    : Int,               \* m_total_queue_size
  sending  : BOOLEAN,           \* m_is_sending
  localDisc: BOOLEAN,           \* m_local_disconnect
  handled  : BOOLEAN,           \* m_disconnect_handled
  err      : Errors,            \* m_disconnect_error
  gen      : 0..MaxSends,       \* async_writes started so far
  write    : 0..MaxSends,       \* the async_write in flight (its number), or 0
  timer    : 0..MaxSends,       \* the write an armed async_wait is for, or 0
  fired    : Seq(1..MaxSends),  \* expired waits whose handler is queued
  read     : BOOLEAN,           \* an async_read_some is outstanding
  tasks    : Seq({"flush", "close"}),  \* TaskQueue::enqueue_task posts
  reports  : Seq(Errors)]       \* receive_disconnect calls, in order

----------------------------------------------------------------------------
(* The methods, as operators on the client record *)

\* is_connected: m_socket != nullptr && m_socket->is_open().
Connected(c) == c.sock /\ c.open

\* shutdown: post the cancel/shutdown/close of socket and timer to the event
\* loop, then drop m_socket and m_async_timer.
Shutdown(c) ==
  IF ~c.sock THEN c
  ELSE [c EXCEPT !.tasks = Append(@, "close"), !.sock = FALSE]

\* flush_send_queue: copy the whole queue into one buffer, arm the write
\* timer, start one async_write.
FlushSubtractFramed(c) ==
  IF ~Connected(c) \/ c.sending \/ c.queue = <<>> THEN c
  ELSE [c EXCEPT !.queue = <<>>,
                 !.total = @ - SumFunction(c.queue) - HeaderSize * Len(c.queue),
                 !.gen = @ + 1,
                 !.timer = IF WriteTimeout THEN c.gen + 1 ELSE @,
                 !.sending = TRUE,
                 !.write = c.gen + 1]

FlushSendQueue(c) ==
  IF ~Connected(c) \/ c.sending \/ c.queue = <<>> THEN c
  ELSE [c EXCEPT !.queue = <<>>,
                 !.total = @ - SumFunction(c.queue),
                 !.gen = @ + 1,
                 !.timer = IF WriteTimeout THEN c.gen + 1 ELSE @,
                 !.sending = TRUE,
                 !.write = c.gen + 1]

\* Off the main thread the flush is posted to the event loop.
FlushFromNoPost(t, c) == IF t = Main THEN FlushSendQueue(c) ELSE c

FlushFrom(t, c) ==
  IF t = Main THEN FlushSendQueue(c) ELSE [c EXCEPT !.tasks = Append(@, "flush")]

\* disconnect(ec): only the first call counts; shut down now if nothing is
\* queued or in flight, otherwise flush what is queued first.
Disconnect(t, c, e) ==
  IF c.localDisc \/ c.handled THEN c
  ELSE LET c1 == [c EXCEPT !.localDisc = TRUE, !.err = e]
       IN IF ~c1.sending /\ c1.total = 0 THEN Shutdown(c1) ELSE FlushFrom(t, c1)

\* handle_disconnect(ec): once only; shut down and tell the handler.
HandleDisconnect(c, ec) ==
  IF c.handled THEN c
  ELSE LET c1 == Shutdown([c EXCEPT !.handled = TRUE])
       IN [c1 EXCEPT !.reports = Append(@, IF c1.localDisc THEN c1.err ELSE ec)]

\* send_finished: the write completed; cancel its timer and either finish
\* a pending local disconnect or send what was queued meanwhile.
SendFinished(c) ==
  IF ~c.sending THEN c
  ELSE LET c1 == [c EXCEPT !.sending = FALSE]
       IN IF ~Connected(c1) THEN c1
          ELSE LET c2 == [c1 EXCEPT !.timer = 0]
               IN IF c2.localDisc /\ c2.total = 0 THEN Shutdown(c2)
                  ELSE FlushSendQueue(c2)

\* send_expired: the write timer fired while a write was in flight; drop
\* the queue and disconnect with timed_out.
SendExpiredNoReset(c) ==
  IF ~c.sending THEN c
  ELSE Disconnect(Main, [c EXCEPT !.sending = FALSE, !.queue = <<>>], "timedout")

SendExpired(c) ==
  IF ~c.sending THEN c
  ELSE Disconnect(Main, [c EXCEPT !.sending = FALSE, !.queue = <<>>, !.total = 0],
                  "timedout")

\* schedule_read: re-arm the read only while m_socket is set.
ScheduleRead(c) == [c EXCEPT !.read = c.sock]

----------------------------------------------------------------------------
(* Calls from any thread *)

\* send_datagram: append, account, disconnect with no_buffer_space past
\* the limit, else flush (posted when not on the main thread).
SendDatagram(t, n) ==
  /\ pc[t] = "idle" /\ sends < MaxSends
  /\ sends' = sends + 1
  /\ client' =
       IF ~Connected(client) THEN client
       ELSE LET c1 == [client EXCEPT !.queue = Append(@, n), !.total = @ + n]
            IN IF c1.total > MaxQueue /\ MaxQueue # 0 THEN Disconnect(t, c1, "nobufs")
               ELSE FlushFrom(t, c1)
  /\ UNCHANGED <<pc, peerClosed, rx>>

\* The handler calls disconnect().  Off the main thread, a shutdown leaves
\* the thread in the unlocked window of shutdown, with the close posted but
\* m_socket not yet cleared.
DisconnectCall(t) ==
  /\ pc[t] = "idle"
  /\ IF t # Main /\ ~(client.localDisc \/ client.handled)
        /\ ~client.sending /\ client.total = 0 /\ client.sock
     THEN /\ client' = [client EXCEPT !.localDisc = TRUE, !.err = "user",
                                      !.tasks = Append(@, "close")]
          /\ pc' = [pc EXCEPT ![t] = "shut"]
     ELSE /\ client' = Disconnect(t, client, "user")
          /\ UNCHANGED pc
  /\ UNCHANGED <<sends, peerClosed, rx>>

\* shutdown relocks and clears m_socket and m_async_timer.
ShutdownEnd(t) ==
  /\ pc[t] = "shut"
  /\ client' = [client EXCEPT !.sock = FALSE]
  /\ pc' = [pc EXCEPT ![t] = "idle"]
  /\ UNCHANGED <<sends, peerClosed, rx>>

----------------------------------------------------------------------------
(* Event-loop handlers, on the main thread *)

\* A posted task runs: a flush, or shutdown's cancel + shutdown + close.
RunTask ==
  /\ pc[Main] = "idle" /\ client.tasks # <<>>
  /\ LET c == [client EXCEPT !.tasks = Tail(@)]
     IN client' = IF Head(client.tasks) = "flush" THEN FlushSendQueue(c)
                  ELSE [c EXCEPT !.open = FALSE, !.timer = 0]
  /\ UNCHANGED <<pc, sends, peerClosed, rx>>

\* The read completes with an error: the socket was closed under it
\* (operation_aborted) or the peer went away.
ReadError ==
  /\ pc[Main] = "idle" /\ client.read /\ (~client.open \/ peerClosed)
  /\ client' = HandleDisconnect([client EXCEPT !.read = FALSE],
                                IF client.open THEN "peer" ELSE "aborted")
  /\ UNCHANGED <<pc, sends, peerClosed, rx>>

\* The read completes with the next bytes of the peer's stream:
\* process_datagram hands the whole frames to the handler, and
\* defragment_input disconnects with protocol_error on a zero length; then
\* schedule_read.
ReadData ==
  /\ pc[Main] = "idle" /\ client.read /\ client.open /\ ~peerClosed
  /\ \E k \in 1..MaxChunk :
       /\ Rx!Receive(k)
       /\ client' = ScheduleRead(IF Rx!ProcessDatagram(buf, Rx!Chunk(k)).err
                                 THEN Disconnect(Main, client, "proto") ELSE client)
  /\ UNCHANGED <<pc, sends, peerClosed>>

\* The async_write completes with an error (socket closed or peer gone).
WriteError ==
  /\ pc[Main] = "idle" /\ client.write # 0 /\ (~client.open \/ peerClosed)
  /\ client' = HandleDisconnect([client EXCEPT !.write = 0],
                                IF client.open THEN "peer" ELSE "aborted")
  /\ UNCHANGED <<pc, sends, peerClosed, rx>>

\* The async_write completes: the peer took the bytes.
WriteDone ==
  /\ pc[Main] = "idle" /\ client.write # 0 /\ client.open /\ ~peerClosed
  /\ client' = SendFinished([client EXCEPT !.write = 0])
  /\ UNCHANGED <<pc, sends, peerClosed, rx>>

\* The armed wait expires; its handler is queued and can no longer be
\* cancelled.
TimerExpire ==
  /\ client.timer # 0
  /\ client' = [client EXCEPT !.timer = 0, !.fired = Append(@, client.timer)]
  /\ UNCHANGED <<pc, sends, peerClosed, rx>>

\* A queued expiry handler runs send_expired.
TimerHandler ==
  /\ pc[Main] = "idle" /\ client.fired # <<>>
  /\ client' = SendExpired([client EXCEPT !.fired = Tail(@)])
  /\ UNCHANGED <<pc, sends, peerClosed, rx>>

\* The peer closes or resets the connection.
PeerClose ==
  /\ ~peerClosed
  /\ peerClosed' = TRUE
  /\ UNCHANGED <<client, pc, sends, rx>>

----------------------------------------------------------------------------

\* A connection just initialize()d: socket and timer set, read armed.
Init ==
  /\ client = [sock |-> TRUE, open |-> TRUE, queue |-> <<>>, total |-> 0,
               sending |-> FALSE, localDisc |-> FALSE, handled |-> FALSE,
               err |-> "eof", gen |-> 0, write |-> 0, timer |-> 0,
               fired |-> <<>>, read |-> TRUE, tasks |-> <<>>, reports |-> <<>>]
  /\ pc = [t \in Threads |-> "idle"]
  /\ sends = 0
  /\ peerClosed = FALSE
  /\ Rx!Init

Next ==
  \/ \E t \in Threads :
       \/ \E n \in Sizes : SendDatagram(t, n)
       \/ DisconnectCall(t)
       \/ ShutdownEnd(t)
  \/ RunTask \/ ReadError \/ ReadData \/ WriteError \/ WriteDone
  \/ TimerExpire \/ TimerHandler \/ PeerClose

\* The event loop runs every ready handler, the clock makes an armed wait
\* expire, an outstanding operation on a closed socket completes, and a
\* thread inside shutdown relocks.  A write completes only if the peer
\* reads (PeerReads); the peer and the handler's own calls are not forced.
Fairness ==
  /\ WF_vars(RunTask) /\ WF_vars(ReadError) /\ WF_vars(WriteError)
  /\ WF_vars(TimerExpire) /\ WF_vars(TimerHandler)
  /\ \A t \in Workers : WF_vars(ShutdownEnd(t))
  /\ PeerReads => WF_vars(WriteDone)

Spec == Init /\ [][Next]_vars /\ Fairness

----------------------------------------------------------------------------
(* Properties *)

TypeOK ==
  /\ client \in Client /\ client.total \in Nat
  /\ pc \in [Threads -> {"idle", "shut"}]
  /\ sends \in 0..MaxSends /\ peerClosed \in BOOLEAN
  /\ pos \in 0..Len(Rx!Stream) /\ protoErr \in BOOLEAN

\* m_total_queue_size is the byte count of m_send_queue (the asserts in
\* flush_send_queue), through sends from several threads, flushes, timeouts
\* and the no_buffer_space path.
QueueAccounting == client.total = SumFunction(client.queue)

\* Once disconnect() has been called, the handler is eventually told
\* through receive_disconnect (spec.md 7: transport errors notify the
\* handler), whether or not the peer ever closes its side.
DisconnectReported == client.localDisc ~> (client.reports # <<>>)

\* However TCP cuts the peer's stream into reads, and whatever the
\* connection does meanwhile (sends, write timeouts, disconnects from any
\* thread), receive_datagram gets the peer's frames in order, none lost,
\* merged or split; all of them once the stream is read without a
\* protocol error.
FramesInOrder == Rx!FramesInOrder

\* A datagram accepted into m_send_queue eventually leaves it: it is
\* written, or the connection is gone.
SendQueueDrains == (client.queue # <<>>) ~> (client.queue = <<>> \/ ~Connected(client))

=============================================================================
