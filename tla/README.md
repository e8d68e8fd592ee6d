# TLA+ models of the Astron Message Director and its collaborators

This directory holds TLA+ models of the C++ sources under `src/src/`, the TLC
configurations that check them, and `PROJECT.json`, which maps every model
definition to the source lines it translates and lists the runs, the mutants,
the findings and the hazards.

## 1. The system

Astron is a message-routing daemon. Its core, the Message Director (MD), is a
publish/subscribe router. Peers connect over TCP and send length-prefixed
datagrams. Each datagram names a list of channels. The MD delivers it to every
local participant subscribed to one of them, except the sender. If an upstream
MD is configured, the datagram is then forwarded to it.

| Part | Source | State | Operations | Interacts with |
|---|---|---|---|---|
| Routing engine | `messagedirector/MessageDirector.cpp` | lock-free queue `m_messages`, `m_main_is_routing`, worker threads, `m_shutdown` | `route_datagram`, `flush_queue`, `routing_thread`, `process_datagram`, `shutdown_threading` | registry, subscription index, upstream, participants' `handle_datagram` |
| Participant registry | same file (+ `MDParticipantInterface`, not in tree) | `m_participants`, `m_terminated_participants`, post-remove buffers, `terminated` flags | `add_participant`, `remove_participant`, `preroute_post_remove`, `recall_post_removes`, `process_terminates`, cleanup timer | routing engine (deferred delete), upstream |
| Subscription index | `ChannelMap` (not in tree) | channel → subscribers; range → subscribers | subscribe/unsubscribe channel/range, `lookup_channels`, `on_add_channel`... hooks | upstream (replication) |
| Upstream link | `MDNetworkUpstream` (not in tree), hooks in `MessageDirector.cpp` | parent connection | `receive_datagram`, `receive_disconnect` (fatal exit) | routing engine |
| Network connection | `net/NetworkClient.cpp` | socket, send queue and its byte total, `m_is_sending`, write timer, `m_local_disconnect`, `m_disconnect_handled`, read buffer | `send_datagram`, `flush_send_queue`, `send_finished`, `send_expired`, `disconnect`, `handle_disconnect`, `shutdown`, `schedule_read`, `process_datagram`, `defragment_input` | event loop (`TaskQueue`), participants |
| HAProxy preamble | `net/HAProxyHandler.h` (the .cpp is not in tree) | parse state | `consume` | network connection |
| Acceptors, connector | `net/NetworkAcceptor.cpp`, `net/TcpAcceptor.cpp`, `net/NetworkConnector.cpp` | listening socket, `m_started` | `bind`, `start`, `stop`, accept loop, `connect` | MD, Client Agent |
| Timeout | `util/Timeout.cpp` | timer, callback, `m_callback_disabled` | `reset`, `cancel`, `timer_callback`, `destroy_timer` | event loop |
| Event loop | `util/TaskQueue.cpp`, `util/NetContext.cpp` | io_context | `enqueue_task` (post), `start`, `stop`, `join` | everything on the main thread |
| Channel allocator | `clientagent/ClientAgent.cpp` (`ChannelTracker`) | `m_next`, `m_max`, free queue | `alloc_channel`, `free_channel` | Client Agent |
| Database backend | `database/MongoDatabase.cpp` | monotonic counter, free list, `m_monotonic_exhausted`, objects | create, delete, get, modify; `assign_doid`, `free_doid` | MongoDB |
| Config | `config/*.cpp` | schema tree, YAML tree | `validate_role`, `validate_node`, `validate_property` (recursive); `ConfigSection::child`, `get_or` | roles (Client Agent constructor) |
| Address parsing | `net/address_utils.cpp` | none | `split_port`, `validate_hostname`, `resolve_address` | acceptors, connector |
| Event sender/logger | `util/EventSender.cpp`, `eventlogger/EventLogger.cpp` | UDP socket, log file | `send`, `process_packet`, `cycle_log` | none in the core |

**How they interact.** A connection's read loop delivers datagrams to its
participant. The participant calls `route_datagram(origin, dg)`. In threaded
mode (`messagedirector.threaded`) a pool of worker threads pops the queue. In
single-threaded mode the main thread drains the queue inline in `flush_queue`.
`process_datagram` snapshots the receivers, skips participants whose
`terminated` flag is set, and calls `handle_datagram` on the rest. That call
sends on the receiver's connection, from a worker thread in threaded mode.
When a connection is lost, the participant is marked terminated. Then
`remove_participant` unsubscribes it, routes its post-removes, recalls their
upstream copies and parks the object. The object is deleted later: by the
50 ms cleanup timer in threaded mode, or at the tail of the next
`process_datagram` in single-threaded mode.
A role that listens (the MD, the Client Agent) hands its `bind` string to a
`TcpAcceptor`: `resolve_address` splits off the port and resolves the host,
`NetworkAcceptor::bind` tries each address, `start` listens, and every error
goes to the role's `handle_error`, which decides whether the process exits.

**The hard behaviours.**
- The main thread and the routing threads run concurrently and share the
  participant objects.
- Deletion is deferred by timing only.
- Several steps of one handler are not atomic: the `terminated` check and the
  delivery; `shutdown`'s unlock around the posted close.
- Write timeouts race the completion of the write.
- Post-removes must go out exactly once.
- A malformed datagram (truncated header or body) must not disturb the others.

## 2. Modules

### MessageDirector (`MessageDirector.tla`, `MCMessageDirector.tla`)

State (VARIABLES) and the code it stands for:
- `participants`: `m_participants`.
- `terminated`: the `is_terminated()` flags.
- `terminating`: `m_terminated_participants`.
- `deleted`: objects freed by `process_terminates`.
- `subs`: the ChannelMap's single-channel subscriptions.
- `postRemoves`: each participant's post-remove buffer.
- `queue`: `m_messages`.
- `router[r]`: the locals of `process_datagram` in routing thread `r`. These
  are its pc, the datagram, the receivers still to visit (`todo`, the
  snapshot) and the current target.
- `mainRouting`: `m_main_is_routing`.
- `removing`: `remove_participant` is in progress.
- `upSubs`, `upPR`, `fwd`: what the upstream MD has been told.

Datagrams are records `[origin, rcv, kind, pr]`. `kind` abstracts the bytes:
`"ok"`, `"short"` (the body is too short for a receiver that parses it) or
`"trunc"` (the header is too short). `pr` marks a post-remove. The history
variables (`delivered`, `pushes`, `snap`, `processed`, `uaf`) record
what happened, for the properties. `delivered` is a bag of
`<<participant, id>>` with one copy per `handle_datagram` call, so a repeated
delivery is visible.

Actions:
- `AddParticipant`, `SubscribeChannel`, `UnsubscribeChannel`, `AddPostRemove`,
  `ClearPostRemoves`, `SendDatagram`, `ReceiveUpstream`, `RemoveParticipant` +
  `FinishRemove`, and `CleanupTimer` are main-thread handlers.
- `PopDatagram` (pop, decode header, lookup, snapshot), `CheckTerminated`,
  `HandleDatagram` and `FinishDatagram` (upstream forward, single-threaded
  `process_terminates`) are the steps of `process_datagram`. Each routing
  thread takes them separately, so they interleave with the main thread.
  `FlushDone` ends `flush_queue`.
- `remove_participant` is split where `post_remove` routes: in single-threaded
  mode that routing flushes the queue inline before the participant is parked.
- Reading a freed participant (its flag, or its name in the header-truncation
  log) is undefined behaviour. The model sets `uaf` and then lets the flag read
  return either value.

Shutdown: `ShutdownThreading` is `shutdown_threading` (sets `m_shutdown`,
then joins: `dtor = "join"`); `WorkerExit(r)` is a routing thread leaving its
loop at the next test of the flag; `Destroy` is `~MessageDirector`, which in
threaded mode runs once every worker has exited and deletes the participants
and whatever is still in `m_messages`.

Fairness: weak fairness on each routing thread (they loop forever while
`m_shutdown` is false), on `FlushDone` (the loop ends when the queue is
empty), on `FinishRemove`, on the cleanup timer (it re-arms itself every
50 ms), and on `Destroy` only once the join has begun (nobody is obliged to
destroy the MD). Participants' own actions get no fairness. Because the
destructor may run, `RoutedEventuallyProcessed` is "processed or destroyed";
`ShutdownDrains` states what spec.md 5 adds for the destroyed case.

**Refinement.** `Routing.tla` is what the MD promises its participants, with
the queue, the threads and the snapshot taken away: routed datagrams
(`pending`, oldest first) are handled one at a time in routing order; the one
being handled goes only to connected participants subscribed to one of its
channels, never to its origin and at most once to each; a delivery may end the
handling. `MessageDirector.tla` maps onto it (`Abs == INSTANCE Routing WITH`):
`conn` is `participants`, `routed` the ids pushed so far, `got` the
deliveries (a bag on both sides: a second delivery of one datagram to one
participant is a step `Routing` does not allow, not a stutter), and `pending` the datagram a busy router holds followed by the
queue. `RefinesRouting == Abs!Spec` is checked as a temporal property.

The bounds and the runs of every module are in section 3.

### NetworkClient (`NetworkClient.tla`, `MCNetworkClient.tla`)

One connection of `net/NetworkClient.cpp`. The fields guarded by `m_mutex`,
the socket, the write timer and the connection's entries on the event loop
form one record, `client`:
- `sock`, `open`: `m_socket != nullptr`, `m_socket->is_open()`.
- `queue`, `total`: `m_send_queue` (datagram sizes) and `m_total_queue_size`.
- `sending`, `gen`, `write`: `m_is_sending`; the async_write in flight, numbered.
- `timer`, `fired`: the armed `async_wait` and the expiry handlers already queued.
- `localDisc`, `handled`, `err`: `m_local_disconnect`, `m_disconnect_handled`,
  `m_disconnect_error`.
- `read`: whether an `async_read_some` is outstanding.
- `tasks`: what `TaskQueue::enqueue_task` has posted (flushes, the close).
- `reports`: the calls of `receive_disconnect` (history).

Each method is an operator from one such record to the next (`Shutdown`,
`FlushSendQueue`, `Disconnect`, `HandleDisconnect`, `SendFinished`,
`SendExpired`, `ScheduleRead`), so a handler is the composition of the calls it
makes, in the code's order. The actions are the entry points:
`SendDatagram(t, n)` and `DisconnectCall(t)` from any thread; `ShutdownEnd(t)`,
the end of `shutdown` after its unlocked window on a non-main thread;
`RunTask` (a posted task); `ReadData`, `ReadError`; `WriteDone`, `WriteError`;
`TimerExpire` (the deadline passes, its handler is queued and can no longer be
cancelled) and `TimerHandler`; `PeerClose`. The peer's bytes are module
Framing's stream, instantiated as `Rx == INSTANCE Framing` over the variables
`lens`, `pos`, `buf`, `delivered`, `protoErr`: `ReadData` is the read
handler, one `Rx!Receive(k)` step followed by `disconnect(protocol_error)` when
`defragment_input` finds a zero length, then `schedule_read`. A datagram sent
is its size only.

Fairness: the event loop runs every posted task and handler (weak fairness on
`RunTask`, `ReadError`, `WriteError`, `TimerExpire`, `TimerHandler`); a thread
inside `shutdown`'s window finishes it; a write completes when the peer reads
(`PeerReads`). Sends and disconnects by the owner get none.

### Framing (`Framing.tla`, instantiated by `NetworkClient.tla`)

The read path of `NetworkClient`: `process_datagram` with its fast path, and
`defragment_input` as a RECURSIVE operator over `m_data_buf`. The peer's stream
is the concatenation of frames (16-bit little-endian length, `EncodeSize`, then
a body whose bytes name the frame); `Receive(k)` is one `async_read_some`
returning the next `k` bytes, for every `k` up to `MaxChunk`. `DecodeSize`
reads the header as the code's `reinterpret_cast` does on a little-endian host.
`ProcessDatagram(b, data)` is `process_datagram` as a function of `m_data_buf`
and one recv. The module has no runs of its own: NetworkClient's read handler
takes its `Receive` step, so framing is checked interleaved with the
connection's sends, timeouts and disconnects.

### ClientAgent (`ClientAgent.tla`, `MCClientAgent.tla`)

The Client Agent's start-up and its `ChannelTracker`. A YAML node is a record
(kind `map`, `scalar` with a class `int`/`bool`/`str`, `null` for the defined
`YAML::Node()`, `zombie` for the invalid node a `const operator[]` returns for a
missing key, `throw` for a lookup that throws). `CASchema` is what
`ClientAgent::schema()` builds through `SchemaBuilder` (`Prop`, `Enum`, `Obj`).
`ValidateNode`/`ValidateProperty` are the mutually RECURSIVE `validate_node`
and `validate_property`; `ParsesAs(t, v)` is whether `as<bool>`, `as<long
long>`, `as<unsigned long long>` or `as<double>` returns. `Resolve`, `As`,
`GetOr` and `Defined` are `ConfigSection`'s reads; `Ctor` is the constructor's
sequence of reads up to the acceptor, with `HashOk` (`parse_hash_node`) and
`TuningOk`. Channels are `W` bits wide: `ChannelMax` stands for `CHANNEL_MAX`
and `LongLongMax` for `LLONG_MAX`, so `m_next++` wraps at `2^W`.

State: `cfg` (the role's entry, chosen in `Init` from `Configs`: every key of
the schema absent, well formed or ill formed, plus an unknown key), `phase`,
`errors`, `next`/`max`/`unused` (`m_next`, `m_max`, `m_unused_channels`) and
each client's `chan`, and `acceptor` (`m_net_acceptor`). Actions: `Validate`
(the loader validates before constructing and stops on any error, spec.md 7),
`Construct` (the reads, `m_ct`, then the acceptor's `bind(bind_address, 7198)`
and `start()` with `HandleErrorExits`, `handle_error`, deciding whether an
error ends the process; the resolver's answer and each address's open/set_option/bind
result are chosen by `\E`), `Accept(c)` (TcpAcceptor's accept loop, while
`Accepting`, hands client `c`'s socket to `handle_tcp`),
`AllocChannel(c)` (by an accepted client), `FreeChannel(c)`. The clients that
call the allocator are not in the tree; the model's clients free what they hold, once. There is no
fairness: the properties are safety properties.

### AddressUtils and NetworkAcceptor (`AddressUtils.tla`, `NetworkAcceptor.tla`)

Operator modules with no state of their own, used by `ClientAgent`'s
`Construct`. A hostspec is a sequence of tokens: one character, or a run of
digits with its value (`Num(n)`; `BigNum` for a run beyond `INT_MAX`, where
TLC's integers end). `StoI` is `std::stoi` (sign, digits, trailing text
ignored, `invalid_argument`/`out_of_range`); `SplitPort` is `split_port`
(`rfind(':')`, the IPv6 rule, the narrowing into `uint16_t`, and the
`out_of_range` it does not catch); `ParseAddress` strips brackets and applies
`IsIPv4`/`IsIPv6`, a grammar for what boost's `make_address` accepts;
`ResolveAddress` returns every outcome `resolve_address` can have, the
resolver failing or answering with one or two of the `Endpoints`.
`NetworkAcceptor` gives `bind` (try each address with close/open/set_option/
bind until one binds; otherwise the socket is as the last attempt left it and
`last_error` is its error) and `start` (`m_started`; `listen` on a closed socket
fails with `bad_descriptor`, on an open unbound one the kernel picks an
ephemeral port). Open errors (`OpenErrors`) leave the socket closed, set_option
errors (`SetOptionErrors`) and bind errors (`BindErrors`) leave it open and
unbound.

### Timeout (`Timeout.tla`, `MCTimeout.tla`)

`util/Timeout.cpp`, a self-deleting one-shot timer. `s` holds the object
(`alive`, `timer` for `m_timer`, `waiting` for the pending `async_wait`,
`callback`, `disabled` for `m_callback_disabled`) and the io_context queue of
completions (timer handlers with success or `operation_aborted`, and the tasks
posted by `cancel()` off the main thread). Operators: `AbortWait`
(`steady_timer::cancel`), `Setup`, `DestroyTimer`, `TimerCallback`, `Reset`,
`CancelOnMain`, `CancelOffMain`. Actions: `OwnerReset`, `OwnerCancel(th)`,
`Expire`, `RunAborted`, `RunExpired`, `RunCancelTask`. A handler or task that
runs on the deleted object sets `uaf`. `Timeout.h` and any caller are not in
the tree; the owner calls `reset`/`cancel` only while it holds the object
(until it cancels or its callback runs). Fairness: deadlines pass and the event
loop runs its queue; the owner is never obliged to act.

### MongoDatabase (`MongoDatabase.tla`, `MCMongoDatabase.tla`)

`database/MongoDatabase.cpp`. MongoDB's state is `monotonic` and `free` (the
GLOBALS document) and `objs` (doid to dclass and one field value);
`exhausted` is `m_monotonic_exhausted`. `submit` runs each operation to the end
before the next, so handlers never interleave; each MongoDB call has an outcome
in `{"ok"} \cup Faults` (`"fail"`: `runCommand` false or a null value;
`"assert"`: a `bson::assertion`). Operators: `Monotonic`, `Reuse`, `PopFree`,
`AssignDoid`, `Matches` (the modify query), `Snapshot` (`format_snapshot` and
`verify_class`), `Verified`, `Revert`. Actions: `CreateAssign` + `CreateInsert`
and `DeleteRemove` + `DeleteFree` (split where the process may die between two
commands), `Get`, `Modify`, `Restart` (when `Crashes`: the constructor runs again; MongoDB
keeps its documents). The insert and the update of the legacy driver are
fire-and-forget: they only throw, and a duplicate `_id` is dropped silently.

## 3. Runs

| Run | Module | Checks | Result |
|---|---|---|---|
| `MD_single` | MessageDirector, single-threaded, upstream, one body-parsing receiver, all datagram shapes, two channels | `TypeOK`, `RoutedEventuallyProcessed`, `RefinesRouting` | pass |
| `MD_threaded` | MessageDirector, 2 routing threads, upstream, shutdown | `RoutedEventuallyProcessed` | pass |
| `MD_uaf` | MessageDirector, 2 routing threads | `NoUseAfterFree` | violated |
| `MD_shutdown` | MessageDirector, 2 routing threads, destructor with datagrams queued | `ShutdownDrains` | violated |
| `MD_fanout` | MessageDirector, single-threaded, a datagram to two receivers, one parses the body | `FanoutComplete` | violated |
| `NC_timer` | NetworkClient, main + 1 worker, write timeout, a peer stream of up to 3 frames of 1-2 bytes read in chunks of 1-5 bytes | `TypeOK`, `QueueAccounting`, `FramesInOrder`, `SendQueueDrains` | pass |
| `NC_lost` | NetworkClient, write timeout, up to 2 frames of 0-1 bytes (0 is a protocol error) | `DisconnectReported` | violated |
| `CA_start` | ClientAgent, all entries with a client block, well-formed binds, fatal bind errors only, 3-bit channels, 2 clients | `ValidatedConfigServes`, `ChannelsDistinct` | pass |
| `CA_startup` | ClientAgent, entries with and without the client block, every bind form, every open, set_option and bind error | `ValidatedConfigServes` | violated |
| `TO_cancel` | Timeout, up to 3 resets, cancel from either thread | `CancelPreventsCallback`, `ArmedEventuallyDeleted` | pass |
| `DB_doids` | MongoDatabase, doids 1-2, 2 classes, every call may fail or throw, restarts, 5 operations | `DoidsDistinct` | pass |
| `DB_doidloss` | MongoDatabase, the `DB_doids` bounds without restarts (`Crashes = FALSE`) | `DoidsConserved` | violated |

What the properties say:
- `NoUseAfterFree` (MD, violated): no freed participant object is ever read.
- `RoutedEventuallyProcessed`: every pushed datagram is eventually processed,
  or the MD is destroyed.
- `ShutdownDrains`: when the destructor has run, every pushed datagram was
  processed (spec.md 5: workers drain the queue before exiting).
- `RefinesRouting`: single-threaded routing implements `Routing`: one datagram
  at a time in routing order, never to its origin, at most once to each
  participant, only to connected subscribers.
- `FanoutComplete`: every non-terminated participant in a processed datagram's
  snapshot was handed it.
- `QueueAccounting`: `m_total_queue_size` equals the bytes in the queue.
- `DisconnectReported`: after `disconnect()`, `receive_disconnect` eventually runs.
- `SendQueueDrains`: queued data is eventually written, or the connection is gone.
- `FramesInOrder`: the delivered datagrams are always a prefix of the frames
  sent, and all of them once the stream has arrived without a protocol error.
- `ZeroLengthRejected` (stated, not run): a zero-length frame and everything
  after it are never delivered, and the connection ends with a protocol error
  (spec.md S5). With `BodyLens <- MCLensWithZero` TLC finds it violated: a recv
  of exactly `00 00` takes the fast path at `NetworkClient.cpp:196` and
  delivers an empty datagram. A one-recv unit test shows this too, so no run is
  spent on it.
- `ValidatedConfigServes`: a clientagent entry the validator accepts never
  makes the constructor throw or fail, and the agent it starts either listens
  on the port its `bind` names or has exited through `handle_error`.
  `ConfiguredPort` is the reference reading of `bind`: spec.md 6's host:port,
  with split_port's comment for IPv6 (only a bracketed address has a port).
  `CA_start` passes under the inputs the findings below exclude: binds whose
  port is absent, 7199 or empty, and open/bind failing only with
  `address_in_use` or `address_not_available`.
- `ChannelsDistinct`: no channel is held by two clients, and the free list
  holds no channel twice and none a client holds.
- `CancelPreventsCallback`: after a `cancel()` that returned true, the callback
  never runs.
- `ArmedEventuallyDeleted`: once `reset()` armed it, the Timeout is eventually
  deleted.
- `NoUseAfterFree` (Timeout, stated, not run): no handler or posted task runs
  on the deleted object. It fails: a completion already queued when `cancel()`
  deletes the object still calls `self->timer_callback()` (`Timeout.cpp:88`),
  and a task posted by a cross-thread `cancel()` runs after the expiry deleted
  the object (`:80`). No caller in the tree uses `Timeout`, so no run is spent
  on it; the schedules are listed as hazards.
- `DoidsDistinct`: no doid is both free and stored, or free twice; the doid
  a create is about to insert is neither.
- `DoidsConserved` (violated): every doid the counter has issued is stored,
  free, or held by the handler in progress.

Every property of a passing run has a mutant in `PROJECT.json`: a plausible
slip in one mapped definition under which TLC finds the property violated
(a dropped guard in `HandleDatagram`, a `$pop` from the wrong end, a delivered
participant left in the snapshot, a `reset()` that re-arms only the first time,
etc.).

Why the bounds are enough:
- MessageDirector: two participants give a sender and a receiver. Two
  channels in `MD_single` let a datagram reach a participant through both, so
  the at-most-once part of the refinement is exercised (the `HandleDatagramNoErase`
  mutant, which keeps the delivered participant in the snapshot, delivers twice
  and breaks `RefinesRouting`); the threaded runs use
  one, since lookup only asks whether two sets meet. Two datagrams allow
  a post-remove plus a normal datagram. Every counterexample is 8-10 steps; 3
  datagrams take more than 10 minutes threaded.
- NetworkClient: one worker thread next to the main thread is the cross-thread
  case; a queue limit of 2 with size-1 datagrams reaches `no_buffer_space`; 3
  sends reach a second write while the first expiry is queued.
- Framing (in `NC_timer`): frames of 1 and 2 bytes with chunks up to 5 bytes
  cut a stream at every offset of every frame, split headers included, and
  merge up to two frames per recv; three frames give a frame that is neither
  first nor last. Four frames, with the connection's own interleavings, take
  over 3 minutes (2.3 million states); three take under a minute.
- Timeout: three resets give a stale completion behind a re-arm; both threads
  cancel.
- ClientAgent: with `W = 3`, `LLONG_MAX` is 3 and `CHANNEL_MAX` 7; channel
  bounds 1, 3, 4 and 7 sit below, at and above the signed limit and at the
  unsigned one, so both the validator's rejection and the wrap are reachable.
  Two clients taking and freeing channels exhaust a range and reuse the free
  list. Binds: the hosts `1.1.1.1`, `h`, `[::1]` and bare `::1`, with no port,
  7199, 70000, -1, one beyond `INT_MAX`, an empty port and a non-numeric one;
  the resolver answers with none, one or two endpoints, so the bind loop's
  "last error" and "first success" cases both occur.
- MongoDatabase: with two doids and five operations the counter is exhausted
  and two doids sit in the free list, so the order of `$pop` matters.

## 4. Findings

1. **Use after free in threaded routing (`MD_uaf`, `MessageDirector.cpp:266`).**
   A routing thread snapshots a receiver; the main thread removes it and the
   50 ms cleanup timer deletes it; the routing thread then calls
   `is_terminated()` on freed memory. The comment at lines 302-306 says the
   deferral prevents this; nothing synchronises the timer with the threads.
2. **Fanout abort (`MD_fanout`, line 283).** A receiver that finds the body
   short throws; the `return` drops delivery to the receivers after it, the
   upstream forward and the single-threaded cleanup. spec.md 4.4/4.7 say only
   that receiver loses the datagram.
3. **Disconnects never reported (`NC_lost`, `NetworkClient.cpp:222`).**
   `schedule_read` does not re-arm once `m_socket` is null. A read that
   completes after a local disconnect (or a protocol error raised inside the
   read handler) leaves nothing for the posted close to abort, so
   `handle_disconnect` and `receive_disconnect` never run. The same property
   also fails through `send_expired` (line 424): its `disconnect` returns early
   when a local disconnect is pending, and nothing shuts the socket down.
   `NetworkClient.h:79` says `disconnect` "closes the TCP connection without
   informing the NetworkHandler", i.e. not from within the call; the report
   is still owed: `.h:22-23` says "You must not destruct your NetworkHandler
   implementor until receive_disconnect is called!", and `handle_disconnect`
   reports the saved `m_disconnect_error` when the disconnect was local.
4. **Shutdown drops queued datagrams (`MD_shutdown`, line 186).**
   `routing_thread` tests only the stop flag, so each worker returns as soon as
   `shutdown_threading` sets it and the destructor deletes what is still in
   `m_messages`. spec.md 5 says workers exit when the flag is set and the queue
   is empty.
5. **An accepted config without a client block does not start
   (`CA_startup`, `ClientAgent.cpp:85`).** The schema makes `client` an
   optional object. Without it, `config.child("client")` wraps yaml-cpp's
   invalid node, and `client_block.yaml()["manual_dc_hash"]` throws
   `InvalidNode`. If a top-level `manual_dc_hash` skips that read,
   `get_or("type")` resolves to the defined null `YAML::Node()` and yields
   `"null"`, and the unknown client type exits. `ConfigSection::resolve`
   returns `YAML::Node()` for an absent section, so `get_or` never falls back
   there.
6. **Ports wrap (`CA_startup`, `address_utils.cpp:32`).** `split_port` stores
   `std::stoi` in a `uint16_t`: `bind: "h:70000"` listens on 4464 and
   `"1.1.1.1:-1"` on 65535, with no error. (Reproduce with `CA_startup`'s
   constants, `ClientOpts = {"visible"}` and that one bind.)
7. **A port beyond `INT_MAX` throws (`CA_startup`, line 34).** Only
   `invalid_argument` is caught, so `out_of_range` leaves `resolve_address`,
   `NetworkAcceptor::bind` and the constructor, while a junk port ends in
   `address_not_available` and a fatal exit.
8. **Bind errors that are not fatal (`CA_startup`, `ClientAgent.cpp:162`).**
   `handle_error` exits on `address_in_use` and `address_not_available` only.
   After `permission_denied` the socket is open and unbound and `listen`
   binds it to an ephemeral port; after `address_family_not_supported` it is
   closed and `listen` fails with `bad_descriptor`, also ignored. The agent
   runs without listening where `bind` says; spec.md 7 calls bind failure
   fatal. (`AcceptorFaults = {"permission_denied"}` or
   `{"address_family_not_supported"}` shows each.)
9. **Doids lost on a failed MongoDB call (`DB_doidloss`,
   `MongoDatabase.cpp:191` and `:628`).** With no crash at all, an insert that
   throws after `assign_doid` fails the create without returning the doid,
   although the comment at lines 144-145 orders the conversion first so as not
   to waste one; and `free_doid` only logs a failed `$push` after the object
   was removed. Either way the doid is neither stored nor free, for good.

Schedules the models reach that no run checks (see the hazards in
`PROJECT.json`): in threaded mode a participant terminated between the
`is_terminated()` check and `handle_datagram` still receives the datagram
(`MessageDirector.cpp:273`); an expiry handler queued just as a write completes
times out the next write (`NetworkClient.cpp:400`); `Timeout::reset` after the
deadline, before its handler runs, does not stop the old handler (`Timeout.cpp:65`);
the Timeout use after free; a zero-length frame, which the fast path
delivers as an empty datagram and which, split over two one-byte reads and
followed by nothing, is neither delivered nor rejected (`NetworkClient.cpp:196`,
stated as `ZeroLengthRejected`); one failed monotonic `findandmodify` retiring
the counter until restart (`MongoDatabase.cpp:514`).

## 5. Plan

Done: MessageDirector (with shutdown and the `Routing` refinement),
NetworkClient, Framing, ClientAgent with the config validator and its
acceptor start-up (AddressUtils, NetworkAcceptor), Timeout and MongoDatabase. Next:
1. `MessageDirector`: range subscriptions; the single-threaded
   `route_datagram` called off the main thread.
2. A two-MD tree through the upstream link, for post-remove exactly-once
   across a crash (`MessageDirector.cpp:427`).
3. The MessageDirector's own `bind`, whose `handle_error` is the same as the
   Client Agent's.
4. Properties for the reached but unchecked schedules: the stale write-timer
   expiry in NetworkClient, the retired monotonic counter in MongoDatabase.

## 6. Not modelled

These are left out, and why:
- Logging and formatting.
- The HAProxy byte parser: its .cpp is not in the tree.
- The connector's synchronous connect.
- The event sender/logger's UDP and file I/O.
- The filesystem helpers.
- Process exit on upstream loss (`receive_disconnect` calls `exit(1)`).
- BSON conversion in the database backend (`unpack_bson`, `pack_bson`): an
  object is its dclass and one field value.
- `validate_hostname` and `is_valid_address`: nothing in the tree calls
  them (`ValidAddressConstraint`, which would, is not defined in the tree).
- `NetworkAcceptor::stop`: nothing in the tree calls it. A failed accept, or
  one whose endpoints cannot be read, closes the socket and re-arms without
  changing any state the model keeps; the event loop it could starve
  (`TcpAcceptor.cpp:28`) is not represented.
- The Client Agent's `handle_tcp` and the Client classes
  (not in the tree); the config validator's `validate_path` and the schemas
  of other roles.
- Negative channel bounds: `required_int` accepts them, but what
  `as<channel_t>` makes of them depends on the yaml-cpp build.
- The event loop itself (`TaskQueue`, `NetContext`): its FIFO hand-off is part
  of the NetworkClient and Timeout models; start/stop/join is thread plumbing.
