# TLA+ models of the imchat chat server

This directory holds TLA+ models of the concurrent core of `src/cmd/chatserver`.
That core covers the connection lifecycle, the client registry, the presence directory,
the retry scheduler, the router, the dispatch chain with its typed-handler
replies, the connection writer, and the node identity with the relay queues
across crashes and restarts. The
models are checked with TLC. Each module is translated from the Go source. The
map in `PROJECT.json` gives the lines each definition models.

## 1. Inventory

### Components, their state and operations

| Component | Source | State | Operations |
|---|---|---|---|
| Connection (`Client`) | `chatserver/client.go`, `server.go` | authed flag, kv map (`id`, `username`), outbound channel `ch` (cap 1024), websocket | `Write`/`WriteData`/`WriteProtoMessage` (enqueue, block when full), `WriteControl` (direct), `Close` |
| Reader loop and writer | `server.go` `websocketHandler`, `startClientWriter` | per-connection goroutines, read deadline, derived context | handshake and `Auth`, read a frame, drop frames shorter than 4 bytes, `handleRequest`, exit on any error and run the deferred close handler and `cancelFunc`; the writer drains `ch` until cancelled |
| Client registry (`clientManager`) | `clientmanager.go` | `map[int64]*Client` under an RWMutex, one per process | `Get`, `Add` (overwrites), `Del` (by user id), `Clear` (close all, new map) |
| Auth and presence | `handlers/authhandler.go` | Redis `token:id:<id>`, `chat:client:<id>` → node id (no TTL) | `Auth` (token check, `GetSet` presence, `SetAuthed`, `Add`), `CheckAuthMiddleware`, `handleDuplicateLogin` (empty TODO), `ClientCloseHandler` (`Del` key, `Del` registry) |
| Frame codec and dispatch | `handler.go`, `context.go`, `handlergroup.go` | `handlers map[uint32]HandlerChain`, group chain, pooled `Context` (cursor `uint8`, `respId`) | `Use`, `HandlerFunc`, `HandlerAnyFunc` (reflective binding), `Group`, `handle` (run the chain), `Abort`, `Next` |
| Retry scheduler | `handlers/retryhandler.go`, `pkg/common/commutil/set.go` | membership `ConcurrentSet`, `MinHeap` under `hlock` with `cond`, `nextItem`, channel `ch` (cap 1M), 8 workers, `maxRetry` 5 | `Add`, `Remove`, `handleRetry` (scheduler goroutine), `retry`, `retryWorker` |
| Router | `handlers/userchathandler.go`, `mq/rabbitmq.go`, `mongodb/dao/messagedao.go` | MongoDB `singleChat` records (unread/read), RabbitMQ queue `chatserver:<node>` per node | `ForwardMessage` (validate, persist, local write and `Add`, or publish to the owner's queue, or offline), `forwardMessage`/`sendMessage` (8 consumers: local write and `Add`, MQ ack), `ConfirmMessage` (mark read, `Remove`) |
| Node identity and relay queue | `server.go` `generateServerId`, `main.go`, `mq/rabbitmq.go` | file `chatserver<N>.id`, durable queue `chatserver:<id>` (manual acks), producer channel | read or create a UUID at start, `InitMQ` (declare, consume), `Publish`; a process may crash at any step and be restarted |
| Client and message server (the router's environment) | `cmd/simpleclient/client`, `cmd/messageserver/internal/service` | the client's session, unread records | `Login` (dial, then pull), `pullOfflineMessage` (GET unread, then PUT their ids), `HandleSingleChatMessage` (ack every frame), `HandleNewMessage` (pull) |
| Out of the core | `cmd/authserver`, `pkg/*`, the rest of `cmd/messageserver` | MySQL, MongoDB, Redis | HTTP register/login/friends, history |

### How the components interact

- A connection's reader goroutine calls `Auth` once. It then calls
  `messageHandler.Handle` for each frame. The handler chain (the `CheckAuthMiddleware`,
  then the typed handler) runs on that goroutine.
- `ForwardMessage` runs on the sender's reader goroutine. It reads the
  registry (`Get`), writes to the recipient's `Client` (a channel send), and calls
  `RetryHandler.Add`. Otherwise it reads the presence key and publishes to the
  owning node's queue.
- On the owning node, 8 MQ consumer goroutines do the same local write and `Add`.
- `ConfirmMessage` runs on the recipient's reader goroutine. It marks the record read and calls `Remove`.
- The retry scheduler goroutine and its 8 workers share the membership set and
  the heap with all of those goroutines. The workers read the registry and write
  to `Client`s.
- `ClientCloseHandler` runs on the closing connection's goroutine and races
  with all readers of the registry and the presence key, on this node and others.
- Shutdown cancels the server context and runs `Clear`. The reader goroutines
  then fail and run their close handlers.

### What is hard

- Every shared structure is used by many goroutines. `Add`'s membership test and set
  are separate steps. The heap is locked, but `nextItem` is held outside it while
  the scheduler sleeps.
- Membership is tested by user id. Heap entries are removed lazily. So the
  pattern Remove then Add resurrects old items.
- The presence key and registry entry are keyed by user id, and there is no
  duplicate-login resolution. Closing a stale session deletes the live one's
  entries.
- Blocking channel sends show up in three places: `Client.ch`, `RetryHandler.ch`, and the
  MQ delivery channel. A goroutine that exits (a worker, a connection's writer) leaves
  its producers blocked.
- Time: retries are scheduled by trigger time, `time.Sleep` cannot be woken,
  and a read deadline is reset per frame.
- Partial failure: the record is persisted before routing, so an error after
  that loses the ack but keeps the record.
- The client's login pull and the server's registration race: the websocket
  dial returns at the upgrade, before `Auth` runs.
- Handler chains accumulate: `HandlerAnyFunc` appends to the shared group chain,
  so the SingleChat chain also runs the Hello binding (which is what sets the
  `respId` its ack goes out with), and the SingleChatAck chain also runs
  `ForwardMessage` on the ack bytes.

### Properties that make each component correct

- Retry scheduler:
  - Arming is idempotent.
  - An armed user always has an item that will fire.
  - An `Add` is never lost.
  - An armed item fires no later than its trigger.
  - Queued notifications are eventually taken.
  - A user is notified at most `maxRetry` times per arming.
- Registry and sessions:
  - (Not checked: that a registry entry names a running connection. The
    close handler deletes by user id, so it holds by construction, and from
    `cancelFunc` to `Del` the entry names a connection whose writer has
    already stopped.)
  - A live user is routable through the presence key.
  - Nothing is left behind once all connections have closed.
- Router:
  - A frame forwarded locally is written to the recipient's connection before the ack.
  - Every persisted message is either delivered, relayed, or left unread for the offline pull.
  - An ack disarms only the acking user.
- Dispatch:
  - A registered id runs exactly its chain, in order.
  - An aborted chain runs nothing more.
  - An unknown id leaves the connection open.
  - A typed handler's response carries its response id.

## 2. Plan

Modules in order of importance. Router, Session, RetryHandler, Dispatch, Connection (with its abstract Outbox), Account and Node exist now.

1. **RetryHandler** (done). It models the scheduler, the workers and `Add`/`Remove`
   against a registry abstracted to a set of online users, plus a relative clock.
2. **Session** (done). It models handshake and `Auth`, the reader loop's exit, the close
   handler, and `Clear` over several nodes, with the presence keys and per-node
   registries.
3. **Router** (done, safety). It models `ForwardMessage`, the queue consumers and
   `ConfirmMessage` over the presence keys, the per-node registries and queues and
   the record store, with persistence, lookup, publish and pull failures. It
   composes Session (by `INSTANCE`) with the simple client as environment and
   the retry handler abstracted to its membership set. Still to do: an abstract
   at-least-once delivery spec (every acked message reaches its recipient's
   session or its next pull) with Router shown to implement it by
   `INSTANCE ... WITH`; the liveness form under fairness of the consumers and
   the client; node crash and restart with the persisted node id and the
   durable queue.
4. **Connection** (done). The outbound channel, the writer goroutine, the reader
   loop's deferred calls and server shutdown, shown to implement the abstract
   **Outbox** (an ordered queue that loses frames only to a closed socket).
5. **Dispatch** (done). Chain building (`Use`, `HandlerFunc`, `HandlerAnyFunc`,
   `Group`) is checked against the chain as the calls register it, accumulation included
   (the accumulation's effect is shown by `dispatch_reply_tag`).
   `handle`'s loop with `Abort`/`Next` on the `uint8` cursor (`% 256`) is
   recursive operators, checked against a reference run. The typed-handler
   wrapper of `HandlerAnyFunc` (decode panic, `SetRespId`, the reply write and
   its `respId` 0 panic) is part of each call.
6. An abstract **RetryPromise** spec of the retry handler: armed users are notified until
   acked, at most `maxRetry` times. A fixed variant of RetryHandler would be shown to refine it.
   The code as written does not, as the violation runs show.
7. **Account** (done, one question). The token and friends-cache keys the auth
   server writes and the chat server reads, with the simple client's login
   path, and their TTLs.
8. **Node** (done). The node id file, `InitMQ` and the durable relay queue
   with manual acks, over crashes and restarts of any node at any step.

## 3. Modules and how they correspond to the code

### RetryHandler.tla (`handlers/retryhandler.go`)

Variables:
- `items` is the `ConcurrentSet`.
- `pool` holds every `*RetryItem` ever allocated, so pointer identity is kept.
- `heap` is the set of pointers in the `MinHeap`.
- `spc`/`cur`/`nextItem`/`wake` are where `handleRetry` is, what it holds, and its sleep.
- `ch` is the channel.
- `caller` is the progress of each in-flight `Add`.
- `alive` is the set of worker goroutines still running.
- `online` is the registry as `Get` sees it.
- `nudged` is the set of users that got a `NewMessage` frame.
- `arms` bounds the number of `Add` calls.
- `awaiting` is a history variable for `ArmNotLost`.

`ArmIdempotent` (spec §8: arming twice before disarm yields one heap entry)
says an armed user never has two items. It fails two ways: two `Add` callers
both pass `AddIsSet` before either `AddSet`, and, with one caller, `Remove`
then `Add` leaves the old item in the heap beside the new one.

Time is relative. An item's `due` is the number of ticks until its trigger, clamped at 0, and `Tick` decrements
every pending trigger and the sleep. One tick is `MinRetryDuration` (1 s).
Re-pushed items are due in `retried` ticks, as `time.Second * retried` is.

Actions:
- `Add` is split where the code has separate synchronised operations:
  `AddIsSet` (returns if armed), `AddSet`, and `AddPush` (lock, push, unlock, signal).
- `Remove`.
- `handleRetry`/`retry` are split at the points where other goroutines can interleave:
  - `SchedPop`: lock, wait while empty, pop, unlock.
  - `SchedCheck`: discard, sleep, or go on to retry.
  - `SchedWake`: the end of `time.Sleep`, then the `nextItem` check.
  - `SchedSend`: `r.ch <- id`, which blocks when full.
  - `SchedTail`: give up or re-push.
- `WorkerTake`: the worker returns if the recipient is not on this node.
- `Connect`/`Disconnect` are the registry.
- `Tick`.

### Session.tla (`authhandler.go`, `clientmanager.go`, `server.go`)

Variables:
- `presence` is the Redis `chat:client:<id>` keys.
- `registry` is one `ClientManager` per node.
- `conn` holds each connection's progress, user and node.
- `up` is the set of nodes still listening.

Actions:
- `AuthReject`: the token is missing, invalid or superseded, or Redis fails. No cleanup is deferred.
- `AuthGetSet`: the presence key is set to this node.
- `AuthRegister`: `SetAuthed` and `Add`.
- `ReadFail`: every exit of the reader loop, including a close forced by middleware.
- `CloseDelPresence`, then `CloseDelRegistry`: `ClientCloseHandler`.
- `Shutdown`: the listener stops and `Clear` runs.

### Router.tla (`userchathandler.go`, composed with Session and the simple client)

Variables: the four of Session, shared through `S == INSTANCE Session`, plus
- `dial`: the user and node each client dialled (`loginWebSocket`);
- `cpc`: where the client process is: dialled, marking a pull, or reading frames;
- `store`: the MongoDB records, `none`/`unread`/`read`;
- `fwd`: the progress of each `ForwardMessage` and the connection it runs on;
- `queue`: each node's RabbitMQ queue, a sequence;
- `inbox`: frames written to a connection and not yet handled by its client;
  a frame for a connection that is no longer open is dropped, because its
  writer goroutine was cancelled when the reader loop exited;
- `know`, `fetched`, `acks`: what each client has seen, the ids its pull is
  about to mark, and the ChatAck frames it has written;
- `armed`: each node's retry membership set;
- `lateLogin`: a history variable, set when the login pull answered after
  `Auth`'s `Add`.

Actions:
- Client: `Dial`; `ClientFetch`, `ClientFetchFail` and `ClientMark` (the two
  requests of `pullOfflineMessage`, at login and for a NewMessage frame);
  `ClientRecv` (show and ack a chat frame). `ClientMark`'s request is served by
  `UpdateStatus` and `MarkRead` (the message server's `UpdateStatus`,
  `UpdateOne`/`UpdateMany`, filtered on the caller as receiver).
- `ForwardStart`: validation passes, then `PersistUnreadMessage`. On an insert
  error the nil result is dereferenced; the panic ends the sender's connection,
  or, for an error that comes with a result, the forward returns no ack.
- `ForwardLocal` (`sendIfOnSameServer`), then `ForwardRemote`
  (`sendIfOnAnotherServer`: offline ack, publish, or an error and no ack).
- `ConsumerDeliver(n, i)`: one of the 8 consumers takes any queued frame (they
  race), writes it if the recipient is registered here and arms, and acks the
  delivery either way.
- `Confirm`: `UpdateMessageRead` (or an error), then `Remove` of the acking user.
- `Nudge`/`GiveUp`: the retry handler as seen from outside.
- Session's actions on dialled connections; a reader loop exits, and its close
  handler runs, only between frames (`ReaderIdle`).

Abstracted: the chain runs the Hello binding and `CheckAuthMiddleware` before
`ForwardMessage`, and `ForwardMessage` before `ConfirmMessage`; with valid
tokens and well-formed frames they change nothing the properties read.

### Dispatch.tla (`handler.go`, `handlergroup.go`, `context.go`, `server.go`)

State:
- `prog` and `pc`: a registration program (a sequence of `Use`, `HandlerFunc`
  and `Group` calls, as in `route/register.go`) and the next call of it.
- `chain`: each `ProtoHandlerGroup.chain`, indexed by the program step that
  created the group (0 is the root).
- `table`: `messageHandler.handlers`.
- `crashed`: a start-up panic.
- `last`: the last frame handled.

The reference a run is compared with is `RefRun(table[i], b)`: the chain as
registered, cut after its first `Abort`.

Actions:
- `RegUse` is `Use` with its limit check.
- `RegFunc` is `HandlerFunc`/`HandlerAnyFunc`: append to the group's chain, then
  `addHandlers` with its duplicate panic. A `HandlerAnyFunc` call (`AnyOp`)
  carries an abstract signature (is it a func, the kinds of its inputs and
  results); `SignatureOk` is the reflective check, and a signature it
  rejects is a start-up panic. The programs include two malformed ones (a
  non-message result, a non-pointer input). Two results are not checked by
  the code, and so not by `SignatureOk` (see the hazard at `handlergroup.go:62`).
- `RegGroup` is `Group`: `combineRootGroup` and `Use`, with both limit checks.
- `Handle(i, b)` is one frame through the reader loop and `handle`. Handlers
  are abstract: the frame's behaviour `b` says whether each handler returns,
  calls `Abort` or calls `Next`. The run itself is computed by the mutually
  recursive `HandleLoop` (the `for` loop of `handle`), `NextLoop` (`Next`) and
  `Call`, on a cursor reduced `% 256` as Go's `uint8` is. A run that invokes
  more handlers than the chain has can only come from a wrapped cursor; it is
  cut there (`Runaway`) and differs from the reference.
- The frame's flag `bad` says whether its payload decodes. A run starts from
  `NewRun` (a pooled `Context` with cursor and `respId` cleared). Each call of
  a typed handler goes through the `HandlerAnyFunc` wrapper: `Decode` panics
  on a bad payload; a handler in `RespSet` calls `SetRespId` (only the Hello
  handler does); `Respond` writes a returned message under the current
  `respId`, or panics when it is 0. A panic closes the connection
  (`closed`), and the frames written before it stay in `out`.

Go slices could alias: `append` may share a backing array. Here that cannot
change a stored chain, because each group's chain only grows and `Group`
allocates a fresh slice. So chains are modelled as values.

### Node.tla (`server.go` `generateServerId`, `main.go`, `mq/rabbitmq.go`, `userchathandler.go`, `authhandler.go`)

Chat server processes over crashes and restarts, with the RabbitMQ relay
between them.

State:
- `file`: each node's id file (absent, or its content; `""` after a create
  whose write never happened).
- `proc`, `nid`, `pubOk`: where the process is in start-up (`down`,
  `creating`, `booting`, `up`), its `nodeId`, and whether `InitMQ` left a
  usable producer channel (its error is ignored).
- `declared`, `queue`, `unacked`: the durable queues on the broker, their
  ready frames, and the frames pushed to each node's consumer and not yet
  acked (`Consume` with `autoAck` false).
- `conn`, `presence`: the registry entry and the `chat:client:<uid>` key of
  each user.
- `status`: each frame's fate; `crashes` bounds crashes.

Actions:
- Start-up: `Create` (`OpenFile` fails, `os.Create`), `WriteId` (a fresh
  uuid is written), `ReadId` (`ReadAll` of the existing file, which may be
  empty), `InitMQ` (declare and consume the queue) or `InitFail` (main panics,
  or the nil consumer is dereferenced by the `forwardMessage` goroutines).
- `Login`/`Logout`: `Auth`'s `GetSet` and `Add`; the close handler's `Del`s.
- `Forward(m, s)`: `ForwardMessage` after the record is persisted: local
  write, offline, `Publish` to the owner's queue (dropped by the broker when
  that queue is not declared), or a panic on the nil producer channel,
  recovered by net/http, which closes the sender's connection.
- `Deliver`/`Handle`: the broker pushes a frame to the node's consumer; a
  `forwardMessage` worker writes it or drops it, then acks.
- `Crash(n)`: at any step, the process ends. Its connections go, its
  presence keys and files stay, and the broker requeues its unacked frames
  (`Down`). A restart is `ReadId` from `down`. Crashes and failed starts
  (`InitFail`) share the failure budget `MaxCrashes`.

`FairSpec` adds weak fairness to each node's start-up steps, `InitMQ` or
`InitFail`, `Deliver` and `Handle`, and `RelayHandled` says every relayed
frame is eventually written or dropped, and acked.

### Connection.tla and Outbox.tla (`chatserver/client.go`, `server.go`, `clientmanager.go`, `main.go`)

One accepted connection from the end of `Auth` to the end of the process.

State:
- `ch`, `waiting`, `called`: `Client.ch` (capacity `Cap`), the frames whose
  `Write` is blocked on it, and the frames whose `Write` was called.
- `inflight`, `wire`, `sockOpen`: the frame `startClientWriter` took, what the
  peer received, and whether the websocket is open.
- `ctxDone`, `writer`: the writer's context and goroutine.
- `reader`: the reader loop, then its deferred calls in Go's last-in
  first-out order (`cancelFunc`, the close handler, `conn.Close`).
- `registered`, `presence`: the `ClientManager` entry and `chat:client:<id>`.
- `shut`, `clearing`: `ChatServer.Shutdown` and the `OnShutdown` goroutine.

Actions: `WriteCall`/`Enqueue` are `Write` and its variants (a frame of the
connection's own handler is written from the reader loop, which is then
blocked); `Take`, `Send`, `WriterExit` are the writer's `select`, whose two
cases Go picks at random when both are ready; `PeerClose`, `ReadFail`,
`DeferCancel`, `DeferCloseHandler`, `DeferClose` are the reader's end;
`ServerCancel`, `HttpShutdown`, `Clear`, `Exit` are `Shutdown` with the
`OnShutdown` hook and the return of `main`.

`Outbox` is what the write path promises: a queue of accepted frames,
delivered in order while open and dropped once closed, with weak fairness
until halted. `Connection` implements it through `OB == INSTANCE Outbox WITH`
`queue <- <<inflight>> \o ch` (or `ch`), `open <- sockOpen` and
`halted <- ctxDone \/ ~Alive`; the run checks `OB!Spec` as a property.

### Account.tla (`authserver` `userservice.go`, `friendservice.go`; `authhandler.go`; `userchathandler.go`; `simpleclient/client/client.go`)

The keys the auth server writes and the chat server reads, driven by the
simple client's `Login`.

State: `token`/`tokenTTL` (`token:id:<u>`, the client whose token it holds),
`fcache`/`fcacheTTL` (`friends:id:<u>`), and per client process its place
`pc` in `Login`, its `c.friends` (`cfriends`), the chat server's side of its
websocket (`conn`) and `kick`, the receiver of the frame that made
`checkUserParam` close it.

Actions: `LoginHttp` (`CheckUserLogin` sets the token with its TTL, or the
login fails and `Login` panics), `Dial` (`loginWebSocket`; `Auth` accepts only
the stored token, but the dial returns at the upgrade either way),
`GetFriends` (`GetAllFriends` caches the contact ids, nothing for a user
without friends, or the request fails and the list is empty), `Send` (a frame
to an entry of the list that `checkUserParam` rejects: `invalidOperation`
closes the connection; an accepted frame goes on to the Router module),
`SendNoFriends` (indexing an empty list panics), `ConnLost` (the ping or
reader goroutine panics on the closed socket) and `Tick` (Redis TTLs).

## 4. Runs

| Run | Config | Expect | What it shows |
|---|---|---|---|
| retry_safety | `MCRetryHandler.cfg` | pass | `TypeOK`, `MembershipBacked`: every armed user keeps an item that will fire, under all interleavings of two `Add` callers, acks, (dis)connects, the scheduler, a worker and the clock. |
| retry_lost_arm | `MCRetryHandler_ArmNotLost.cfg` | violation | An `Add` racing the last attempt's give-up returns without arming. |
| retry_idempotent_arm | `MCRetryHandler_Idempotent.cfg` | violation | `ArmIdempotent`: two forwarders arming one recipient both push an item, so the user is nudged twice per round (spec §8 says one heap entry). |
| retry_worker_exhaustion | `MCRetryHandler_Workers.cfg` | violation | Workers exit when the recipient is not local. Queued notifications are then never taken (liveness, under `FairSpec`). |
| session_stale_close | `MCSession_Routable.cfg` | violation | After a duplicate login, the old connection's close handler deletes the live session's presence key and registry entry. |
| router_safety | `MCRouter.cfg` | pass | `TypeOK`, `NoStrandedAfterLateLogin`: an unread message for a session whose login pull answered after its registration is always seen by that client or still on its way (in its channel, in its node's queue, or in a running forward), whichever node the sender is on. `ReadImpliesSeen`: a record is marked read only after a client of its recipient saw it. |
| router_login_race | `MCRouter_EarlyPull.cfg` | violation | `NoStrandedMessage`: the login pull answers before `Auth` registers the session, a message forwarded in between is acked as offline, and the live session never learns of it. |
| dispatch_safety | `MCDispatch.cfg` | pass | `RunIsReference`: for the `register.go` programs (with and without the test-mode middleware), a grouped program, the three start-up panics and two malformed `HandlerAnyFunc` signatures, and every return/Abort/Next behaviour of 5 handlers, `handle` runs each registered chain once, in order, up to the first `Abort`. |
| dispatch_reply_tag | `MCDispatch_Reply.cfg` | violation | `ReplyTagged`: `HandlerAnyFunc` appends to the group's own chain, so `SingleChatMessage` runs the Hello binding first; `ForwardMessage` never sets `respId`, and its ChatAck goes out tagged `HelloReply` (2), not `SingleChatAck` (10003). |
| connection_refinement | `MCConnection.cfg` | pass | `WritePathRefinesOutbox`: under `FairSpec`, the write path implements `Outbox`: frames reach the peer once each, in the order they entered `ch`, none after the socket closed, and until the writer is cancelled every queued frame is written or lost to a closed socket. |
| node_restart | `MCNode.cfg` | pass | `RelayNotLost`: a frame acked as relayed survives any crash of the consuming node (requeued, since acks are manual). `OrphanFree`: every presence key, also one left by a crashed node, and every non-empty queue names a declared queue whose id a node's file still holds, so a restarted node consumes it. `RelayHandled` (under `FairSpec`): every relayed frame is eventually written or dropped, and acked. |
| account_contact_expiry | `MCAccount_Contacts.cfg` | violation | `KickOnlyNonContacts`: 30 minutes after the client fetched its friends the cached contact set expires, nothing refills it, and the next frame to a real friend closes the connection (and the client then panics). |

Each property of a passing run has a mutant in `PROJECT.json`: a bug variant of
one action, defined just before it, that TLC shows breaks the property.

### Bounds

- RetryHandler:
  - 2 users and 2 `Add` callers: enough for a concurrent double arm and for a
    Remove-then-Add on one user while another is armed.
  - `MaxArms = 2`: both races need only two `Add`s.
  - `MaxRetry = 3`: a re-pushed item (due in 2 ticks) can wait while a fresh one is due in 1, so the sleep paths of `handleRetry` are all taken.
  - `ChanCap = 1`: a full channel blocks the scheduler.
  - 1 worker: one departed worker empties the pool.
  - Going from 3 to 2 `Add`s cut the state space from 14.6M to 355k states. No behaviour that the properties tell apart needs a third.
- Session: 2 nodes, 2 users and 3 connections. That is enough for a same-node and a cross-node
  duplicate login while another user is connected, plus a shutdown of either node.
  Connections are a symmetry set. That is sound because these runs check only invariants.
- Router: 2 nodes, 2 users, one message from `u1` to `u2`, one connection of
  `u1` and two of `u2` (`Owner`). Two connections of the recipient give a
  reconnect, to the same or the other node, with the message relayed to the
  old node's queue; the sender's node is free, so both local and relayed
  delivery happen. `SingleSession = TRUE`: a user dials again only after
  the previous connection has closed, which keeps the duplicate-login bug of
  `session_stale_close` out of these runs. A second message multiplies the
  state space (more than 10 minutes); per-recipient ordering, the one thing
  it would add, is not a spec promise. 4.2M states in under 2 minutes; the
  two connections of `u2` are a symmetry set.

- Dispatch: 5 handlers, 3 bound ids and one unknown id; all 3^5 = 243
  behaviours of the handlers on a frame, each with a good and a bad payload.
  Three handlers are typed, two return a message, one sets `respId`, as in
  `route/register.go`. Chains have up to 4 handlers, so `Next` inside
  `Next`, an `Abort` under a `Next`, and an `Abort` by the middleware all
  occur. The 127-handler limit of `Use`/`Group` is reached with a 128-handler
  argument. (A chain long enough to run past `Abort` needs 130 bindings after
  one middleware, far beyond any registration in the repository; it is listed
  as a hazard.)
- Connection: 3 frames (`ack` written by the connection's own handler, `fwd1`
  and `fwd2` by other goroutines) and `Cap = 2`, so the channel fills and a
  third `Write` blocks, also the handler's own, which stops the reader loop.
  10k states.
- Account: 2 users who are each other's friend, two client processes of `u1`
  (a second login overwrites the token) and one of `u2`; `TokenTTL = 1` and
  `CacheTTL = 2` ticks, which keeps the only order that matters (the token
  expires before the friends cache).
- Node: 2 nodes, 3 uuids, 2 users, 2 frames (one each way), `MaxCrashes = 2`.
  Two crashes are what the empty-id case needs (a crash between `Create`
  and `WriteId`, then a crash after the restart on `""`); a third uuid leaves
  a spare for a node that recreates its id. No symmetry: the run checks a
  liveness property, for which symmetry reduction is unsound. 305k states in
  about 25 seconds.

### Fairness

`FairSpec` (used only by the liveness run) gives weak fairness to the
scheduler goroutine, each worker, each `Add` in progress and the clock. These are
goroutines that Go schedules and a clock that advances. Client actions get no fairness:
new messages, acks, connects and disconnects may never happen.

Connection's `FairSpec` gives weak fairness to the goroutines that have
started and must run on: the writer (`Take`, `Send`, `WriterExit`), a `Write`
blocked on a full channel (`Enqueue`), the reader's deferred calls, the
`OnShutdown` goroutine (`Clear`), and `Shutdown` itself (`HttpShutdown`,
`Exit`). A read failing, the peer closing, a `Write` being called and a
shutdown starting get none. The abstract `Outbox` asks the same of its
delivery: weak fairness of `Deliver` and `Drop` while not halted.

Node's `FairSpec` gives weak fairness to each node's start-up steps
(`Create`, `ReadId`, `WriteId`, and `InitMQ` or `InitFail`), to `Deliver`
(the broker pushes to a live consumer) and to `Handle` (the `forwardMessage`
goroutines). A restart from `down` is `ReadId`, so this assumes that a
crashed node is restarted, which the code does not do itself: it is an
assumption about whoever runs the process. Crashes, logins and forwards get
none; crashes are bounded by `MaxCrashes`.

### Deadlock

RetryHandler never deadlocks, because connecting and disconnecting are always possible.
Node is checked for deadlock: a node that is down can always restart.
Router (and the Session violation run) run with `CHECK_DEADLOCK FALSE`, because each connection is accepted once and the
system really does stop when every connection has closed. Dispatch does too,
because a start-up panic ends the process. Connection runs with it too,
because the process ends once `Shutdown` returns; Account, because each
client process ends (a panic, or the menu waiting on input).

## 5. Not modelled (yet) and why

- **The Router's refinement and liveness**: planned (§2).
- **A `Write` blocked for ever**: Connection lets a `Write` wait on a full
  channel after the writer has exited; no property says that every `Write`
  returns, because that fails as soon as a cancelled connection has a full
  channel, which is the hazard itself.
- **Unknown type ids**: `Handle` closes the connection on an unknown id,
  as `server.go` does. Spec §4.2 and §8 say the connection stays open, §7 says
  it closes, so no property states an intended outcome.
- **Frame codec and typed binding**: the 4-byte type prefix and the proto
  decode/encode are data conversions; Dispatch keeps their control effects
  (a panic on a bad payload, a reply written under `respId` or a panic on 0).
  The reflective signature checks of `HandlerAnyFunc` are modelled by
  `SignatureOk` over abstract signatures, not by Go's reflection.
- **Retry handler shutdown**: `ctx.Done` is not modelled. The scheduler blocked in
  `cond.Wait` never sees it, but nothing waits for the retry goroutines
  (the wait group holds only the writers) and the process ends when `main`
  returns, so this has no effect.
- **Broker restart**: messages are published transient and the consumer
  never reconnects; a broker restart loses queued frames and stops the
  node's consumer. It is a hazard without a property: nothing in the code
  handles it. Node's liveness property assumes crashed nodes are restarted,
  an operator action the code does not schedule (see Fairness).
- **History paging ties and registration races**: `GetUserHistory` pages
  with a strict `$lt` on `createTime`, so records with the same time as the
  page's last one are skipped; `CreateUser` checks then inserts, and
  `generateUserId` reads then sets the counter. These are listed as hazards
  but have no run: they are outside the chat core of spec §1, and the
  project keeps to twelve runs, one per question.
- **Auth server registration, user info, online friends, message history,
  utilities**: plain HTTP, SQL and configuration over external stores,
  outside the core (spec §1). The keys the chat server reads (the token, the
  friends set) are modelled in Account; the parts of the simple client and
  the message server the router relies on (login, pull, ack) in Router. The
  auth middleware of `/api/auth` is not in the repository, so `GetFriends`
  may fail or succeed.
- **Token verification and the contact check**: these are opaque collaborators. `Auth`'s token
  outcome is a nondeterministic choice (`AuthReject` or `AuthGetSet`).
