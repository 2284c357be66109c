# TLA+ verification of skymesh

skymesh is a service mesh library in Go. Every process embeds an *agent*
(`src/agent`) that hosts services; a *name server* (`src/nameserver`) keeps the
registry, runs leader elections and expires silent services. Agents and name
server talk over TCP connections (`src/common/network`). On top of the mesh there
are an RPC layer (`src/extension/inner_service`) and virtual gRPC connections
(`src/extension/grpc`, with the buffer of `src/common/io`).

This directory holds models of these parts, their model-checking runs and the
proofs. `PROJECT.json` maps every definition to source lines.

## Inventory

### Name server core: `nameserver/server.go`, `app.go`, `router.go`

*State.* Sessions by agent address; registered services in three indexes
(`Server.handleServices`, `AppInfo.services`, the LRU list) with the time of the
last heartbeat; candidates and leader per service name; per name a `NameRouter`
with a state per agent, the service that waits for its two-stage confirmation and
its deadline.

*Operations.* One goroutine (`Serve`) takes messages from `msg_queue`: register an
app, register and unregister a service, heartbeat, sync of attributes, run for
and give up an election, register a router; and a tick once a second that kicks off
silent services, at most `CheckAliveMaxNumPerTickPerApp` of them, and aborts
confirmations that are due.

*Interactions.* The goroutines of each connection (`receiver.go`) work beside `Serve`: the
reader adds sessions and queues requests, which it drops when the queue is full; reader or
writer, whichever fails first, closes the connection and removes its session. All notices
go to the sessions of that moment.

*Hard.* Long sequences that must keep the indexes in step; a scan that stops early;
elections with expiry; sessions that change during a handler; deadlines.

*Correct if* the indexes agree; a name has a live leader exactly when it has
candidates; leaders are stable; every silent service goes and no other; an
agent that is connected has a session; confirmations end.

### Agent: `agent/server.go`, `service.go`, `election.go`, `sidecar.go`, `receiver.go`, `router.go`

*State.* Services by url, handle and name; the agent's view of leaders and its own
candidates; remote services with ping statistics; name routers with instances,
watchers and hash rings; dialers.

*Operations.* `Register` (sends the request, enters the maps, waits 3 seconds for
the reply), `UnRegister` (sends, stops the service, deletes), elections, messages
by url, handle or router, keepalive, pings; one event loop for what the name server
sends, one goroutine per service.

*Hard.* API calls, the event loop and service goroutines interleave; replies are
late or lost; events cross requests; queues are bounded.

*Correct if*, once messages have settled, both sides agree on services, leader and
candidates; a router has the live instances; nothing waits for ever.

*Stop.* `GracefulStop` ends the event loop, whose `Release` empties `recvQueue`, stops
every service and the listener, and waits for all their goroutines.

### Transport: `common/network`

*State.* Per connection a write buffer, the flag `consumerWaiting`, a wakeup channel and
a read buffer; per dialer its state, its connection and the senders that wait for it; per
listener its socket and its connections. *Operations.* `Send` from any goroutine, the
writer and the reader loop with the framing of `proto/pack.go`, `Close`; dialing,
reconnection, `Shutdown`; accepting and `GracefulStop`. *Hard.* Goroutines that come and
go with each connection; a wakeup that races the check it is for; reads that end anywhere
in a message; states that are tested and set in two steps. *Correct if* messages arrive
whole, once and in order; a lost connection is replaced, with one reader and one writer; no
`Send` waits for ever; a dialer or a listener that is stopped stays so.

### RPC: `extension/inner_service`

*State.* A session counter, pending sessions with a channel each, one packing
buffer per service. *Operations.* `CallService`, `NotifyService`, `OnMessage`.
*Hard.* Replies race timeouts, and calls race each other in the packing buffer.
*Correct if* a call gets the reply to its own request or an error, and sessions do not
pile up.

### Virtual gRPC connections: `extension/grpc`, `common/io/buffer.go`

*State.* At each end a table of connections in the order of last use, with sequence
numbers and the time of the last message; the listener's channel for `Accept`; per
connection a read buffer with wakeup, deadline and close. *Operations.* Dial, `Accept`,
`Read`, `Write`, `Close`, the messages Connect, Data and Close, and a checker for silent
connections. *Hard.* The mesh loses messages without telling anybody; `Close`, the peer's
Close and the checker race. *Correct if* a read gets every byte once and in order, then the
end; a reader is woken; nothing is closed twice; both ends forget a connection that one of
them closed.

### Not to be modelled

Logging (output only), generated protobuf code, the glue to the gRPC library (resolver,
adaptor), configuration and address helpers
(no state of their own), bootstrap and example programs.

## Modules

| Module | Models | Uses |
|---|---|---|
| `NameServer` | the name server core and its sessions | |
| `Election` | what the name server promises about elections (abstract) | |
| `ControlPlane` | name server + agents: registration and elections over FIFO connections | `NameServer` |
| `ControlPlaneProofs` | theorems about the name server, alone and composed with the agents | `ControlPlane`, `Election` |
| `AgentRouter`, `AgentRouterProofs` | an agent's name router: instances, hash ring, watchers | |
| `AgentServer`, `AgentServerProofs` | messages through an agent, and how it stops, with the listener | |
| `Channel` | what a connection promises (abstract) | |
| `ConnWriter` | write side of a connection | `Channel` |
| `Link`, `LinkProofs` | a connection from `Send` to `OnMessage`; theorems about it and the write side | `ConnWriter`, `Channel` |
| `NetDialer`, `NetDialerProofs` | the dialer: reconnection, `Send`, `Shutdown` | |
| `VirtualConn`, `VirtualConnProofs` | virtual connections between two services | |
| `IoBuffer`, `IoBufferProofs` | read buffer of a virtual connection | |
| `RpcCall`, `RpcCallProofs` | calls of one inner service | |
| `MC*` | instances for TLC | |

Definitions named `X_Something`, with a comment that begins with "Mutant", are broken
variants of `X`. No specification uses them: each shows that a property notices
that bug.

### NameServer

A handler is one action, because `Serve` runs it to the end and only this goroutine
touches the registry. The tick is a loop that sends on every round: `OnTick` does the
scan, `KickExpired` unregisters one collected service, `CheckExpired(n)` visits one
router; `Idle` keeps other handlers out meanwhile. `OnNotifiedAgentInfo` (`AddSession`),
`OnClosed` (`RemoveSession`) and `ReaderEnds` are steps of the connections' goroutines and
interleave with all of it. The writer may close a connection whose reader goes on with what
it has buffered, so that `OnNotifiedAgentInfo` is possible after `OnClosed` and until
`ReaderEnds`; only a connection that is no longer read and has no session is used again for
a new one. `overlapped` records connections announced while another one of the same agent
was still being read.
`out` holds what the last step handed to sessions, per agent and in order; `SendTo` looks the
session up as `GetSession` does, so a message without session is lost. With a session the
message is handed to `Send`, which only buffers it: whether the connection is still open is
not its matter, and `ControlPlane`, where `out` is delivered, has connections that stay up.
There is one app;
a handle determines name and agent, since it is their hash (collisions are left
out). Handlers get any handle and agent, because what they look at may be gone when a
queued message is handled. `CheckConfirm` (router.go:88) has no caller, since
`OnMessage` has no case for the reply (receiver.go:28), so confirmations end by timeout or
because the service goes.

### ControlPlane

`up[s]` is the connection from agent `s` and the `msg_queue` behind it, `down[s]` the
connection back and the agent's `eventQueue`. `Register` is `RegisterSend`,
`RegisterInsert` and either the reply or `RegisterFail`; `UnRegister` is a first part up
to `svc.Stop` and the deletes, which remove whatever the maps hold under that handle
by then. The event loop waits while it runs `UnRegister` itself (kick-off). Name server
steps are the actions of `NameServer`. `RunForElection` and `GiveUpElection` are possible
also while the service is not registered yet or any more, as in the code. Connections stay up, services are stateless and
agents lose no event. Four constants switch behaviours
on and off so that a run has only what its question needs: `QueueFills` (requests are
dropped), `RepliesLate` (a reply takes more than 3 seconds), `EarlyUnRegister`
(`UnRegister` by another goroutine while `Register` waits), `Tickers` (heartbeats and
ticks).

### ConnWriter

A step is a critical section of `mu`, a channel operation or a socket write. Data is
numbered in the order in which `Send` got the lock. A socket write takes the whole batch or
fails, and returns: `net.Conn` reports a partial write as an error, and a peer that stops
reading without closing is left out.

### Link and Channel

`Channel` is the abstract specification: a sequence goes in, and a growing prefix of it
comes out. `ConnWriter` implements it with what was sent and what was written
(`WriterIsChannel`). `Link` adds the TCP stream, of which a read returns any part, and
`loopRead` with `Unpack`; it implements `Channel` with the frames that were sent and those
`OnMessage` was given (`LinkIsChannel`). A frame is a sequence of numbered cells with a
head that holds the length, so that a wrong cut shows. When the connection ends, what is on
the stream is lost.

### NetDialer

A step is a critical section of `rwMu`, a wait, a network operation or an access to the
field `conn`. Three things the code does not keep apart: two callers inside `dial`, a
`Shutdown` that misses the connection `dial` is about to make, and the use of a `Conn`
before its `Init`. The model takes these steps, records them (`overlapped`, `crashed`) and
stops there, as `Apart` says; the properties cover everything up to them. A
connection is lost or a dial fails at most `MaxFaults` times. `Init` does not fail: its
error is that of `OnConnected`, which fails only if a message of its own cannot be encoded.

### AgentRouter

One name. The event loop changes the sidecar's table and then, in another critical section,
the router; `GetNameRouter` adds instances one by one in four steps each; `Watch` registers
and then reads without the lock. `crossed` records that an event was applied between two
such steps of a call that works on what it read before, or that an instance was added behind
a watcher's back. Events come in any order and any number, as after drops and repetitions.
The choice by quality is any service of this process, or else of another: queue lengths and
round trip times are left out. `UnRegister` does not tell the router, so that a local instance
stays in it; `RouterAgrees` speaks of the instances of other processes.

### AgentServer

Services are registered from the start. Readers push into `recvQueue` and wait when it is
full; the server's loop moves messages on into the services' queues, which drop when full.
`GracefulStop`, `Release`, the listener's `GracefulStop` inside it, `UnRegister` by the
application and by a kick-off, and an acceptor that may fail or be late all interleave.
`Stuck` names the two situations in which a stop does not end, `LateServe` and `AcceptFailed`
two in which something stays behind; nothing else does.

### VirtualConn

Two services with a FIFO each way, from which any message may be lost; `budget` bounds
what applications and faults do together, and `Limits` gives pairs of a number of dials and
a budget. The table and the LRU list of `ConnMgr` change together and are one sequence.
`age` is the time since the last message, up to the value that counts as expired. What is
read from a connection, once it is put into `cbuf`, is `IoBuffer`'s part. An application may
write after it has closed the connection, as the code lets it. Both services stay registered,
so that `ConnMgr.Close`, which `OnUnRegister` calls, has no action; connection ids are
distinct, as they are within 65536 dials, so that `AddConn` finds none in use.

### RpcCall

A step of a call writes or reads a part of `packBuffer`, or is a critical section or a
channel operation of `RpcFramework`. The buffer has no lock in the code;
`OverlapPacking` says whether two calls may be in it together. Go's `uint64` session
counter does not wrap in a run. The target is in another process: there the buffer is
copied before `SendBySvcUrl` returns. A service that also answers requests packs its
replies into the same buffer; here it only calls. After `Panic` the other calls go on, as
they do if the caller recovers; otherwise the process ends there.

### IoBuffer

A step is a critical section of `mu` or a channel operation. Bytes are numbered;
packets may be empty and reads end anywhere. The timer's channel keeps a value that
`Stop` and `Reset` do not drain. The timer `NewIoBuffer` makes is set to a limit out of
reach and counts as stopped. One goroutine puts (the service's) and one reads (the
gRPC transport).

## Runs

| Run | Question | Result |
|---|---|---|
| `NS_registry` | do indexes, elections, confirmations and the scan stay right, does an agent that is connected have the session that leads to its connection, are silent services removed with a limit of one per tick, do confirmations end | holds |
| `CP_election` | do two agents and the name server agree on leader and candidates, with dropped requests | holds |
| `CP_register` | is what `Register` returned registered, with late replies, kick-offs, early `UnRegister` | holds |
| `LK_link` | is a connection with three senders a channel, are wakeups not lost, is what was written delivered | holds |
| `ND_dialer` | does the connection come back, with one pair of loops; do `Send` and `Shutdown` do their part | holds |
| `AR_router` | does a router have all instances and none of another process that is gone, do watchers agree, does the ring give the owner of each key | holds |
| `AS_stop` | are callbacks over at `OnUnRegister`, is a stop final, does it end | holds |
| `VC_conn` | is a stream a prefix in spite of losses, is nothing closed twice, do half-open connections go | holds |
| `RPC_calls` | replies and sessions of three calls, two with a timeout; does a reply end the call it finds waiting | holds |
| `IO_buffer` | bytes in order, end after data, no lost wakeup; is the close reported, through timeouts | holds |
| `NS_online` | is nobody told of a stateful service before its confirmation | **violated** |
| `RPC_crossed` | the replies, when two calls pack at the same time | **violated** |

### Bounds

* `NS_registry`: two services of one name on two agents: a leader and a successor, here and
  there, and more expired services than a tick may handle (one). Three connections let
  one agent have an open connection, an old one whose reader is late and a dead one its session
  still leads to. `FewConns` allows them while nothing is registered; afterwards agents come
  and go over one connection, since handlers only look sessions up.
  `MaxTime` 2 with limits of 1 lets a service register, be heard of, expire and be
  kicked off. Larger numbers are the proofs' part.
* `CP_*`: `MaxQueue` stops API calls while that many messages are under way; 2 lets
  requests of two agents cross and 3 lets a retry overtake a late reply. `out` is left out of
  the state (VIEW): it is set by each step and read by the same step only.
* `LK_link`: five sends by three senders go through several rounds of the wakeup protocol;
  bodies of 0, 1 and 2 cells behind a head of 2 let reads end in a head, in a body, at a
  message's end and after several messages.
* `ND_dialer`: one sender beside `reConnect` and `Shutdown`, and two faults: a lost connection
  whose replacement fails or is lost as well.
* `AR_router`: two remote instances and a local one with three hash keys, one caller of
  `GetNameRouter`, one watcher, four changes: an instance can come, change, go and
  come back under a call.
* `AS_stop`: one service, two connections, queues of one and two messages fill every queue
  and leave a reader and a service waiting.
* `VC_conn`: one connection with four actions or losses (two writes of which the first is
  lost; a write, a close and its loss), or two connections in one table with three.
* `RPC_calls`: three calls let one time out, one wait and one start. `IO_buffer`: three
  packets of up to two bytes, with reads of one to three, cover reads that end inside, at and
  across packets; two deadlines leave a stale timer behind.

### Fairness

* `NameServer`: the clock advances, the ticker's blocking send (server.go:125) gets
  every tick into the queue in the end, and `Serve` finishes a handler it began. No
  fairness for clients: services may be silent for ever.
* `Link`: `loopWrite`, `loopRead` and a `Send` past its unlock go on as runnable goroutines.
* `NetDialer`: goroutines go on, a dial ends one way or the other (it has a timeout), timers
  fire. Nobody has to call `Send` or `Shutdown`.
* `AgentServer`: goroutines that can run go on, and the application's `OnMessage` returns.
  Peers, the network and the callers promise nothing.
* `VirtualConn`: time passes, services handle what arrives, checkers run, a dial or `Close`
  goes on. Messages may be lost, within the budget.
* `RpcCall`: the goroutine of each call and the service's own go on; the target need
  never answer.
* `IoBuffer`: the reader reads again after each read, as the gRPC transport does, and a
  `Put` past its unlock goes on; deadlines are bounded in number.

`CHECK_DEADLOCK FALSE` is set where the system may stop: all data is sent, all
calls have ended, the server has stopped, or the model has met a step after which it claims
nothing (`Apart`).

## Findings

* `NS_online`: `NotifyOthersOnlineToSelf` (app.go:177) announces services whose
  two-stage confirmation is still under way, against the comment at server.go:69.
* `RPC_crossed`: `packBuffer` is shared without a lock (service.go:138).

The models have more behaviours a reader of the code should know, without a run of their
own. In the transport and the agent:

* A `Send` between the writer's check of its buffer and its announcement that it waits
  (network/conn.go:108) wakes nobody; its data waits for the next `Send`. `SendFlushes` is
  stated for a `Send` that finds the writer waiting.
* An error of `OnMessage` is logged and the connection stays (network/conn.go:62), although
  the comment at network/defines.go:22 says that it is closed.
* `dial` leaks the TCP connection when it finds the dialer shut down (dialer.go:87), lets two
  callers in (dialer.go:73) and shows a `Conn` before its `Init` (dialer.go:93).
* A listener that is stopped between the two steps of `Serve` opens its port after the stop
  (listener.go:92), and one whose `Accept` failed leaves its connections open
  (listener.go:154). A reader that waits for room in `recvQueue` (receiver.go:41) and a
  service that waits for room in `regNotify` (service.go:203) keep a stop from ending.
* A router keeps an instance whose offline event crossed `GetNameRouter` (server.go:446), and
  local instances that unregister (server.go:195), for good.
* `ConnMgr.DelConns` and `Close` forget connections without closing `done`
  (conn_mngr.go:112, 146): their readers wait for ever.

In the control plane and the RPC layer:

* The writer of a connection closes it while the reader still handles `AGENT_INFO` or
  `REQ_REGISTER_APP` from its buffer (listener.go:49, conn.go:60): `AddSession` then comes
  after `RemoveSession`, and the session leads to a dead connection until the agent is back.
  The close of an old connection that comes after the agent's return takes the session of the
  new one (nameserver/receiver.go:74), and nothing brings it back.
* An agent that registers its app before an election and its first service after it is in
  no broadcast and gets no leaders, although app.go:298 says that all nodes are notified.
* A reply is matched by handle only (agent/server.go:240). The late reply to a `Register`
  that timed out completes the next `Register` of that url, whose own request may have
  been dropped by a full queue: `UpIsRegistered` does not hold in `CP_register` with
  `QueueFills = TRUE`.
* `RunForElection` while `UnRegister` is under way leaves a candidate at the agent for
  good (election.go:135): the name server rejects the request, and its notice never
  comes. `CandidatesKnown` is therefore stated in one direction only.
* `rsp.([]byte)` panics on every error of a call (service.go:175, `Panic`).

## Proofs

Proved for all values of the constants that satisfy the `ASSUME`s, bounds included:
any number of agents, services, connections, senders, calls, any limits.

* **`ControlPlaneProofs`, name server.** The inductive invariant is `IInv` = `TypeOK`,
  `RegistryConsistent`, `HbNotAhead` (no heartbeat is ahead of the clock),
  `LruOrdered`, `ElectionConsistent`, `SessionInv`, `KickTargetsExpired`,
  `ConfirmConsistent`. The parts need each other: the list stays ordered when a
  service moves to the back because no heartbeat is ahead of the clock; the handles to
  kick off stay registered because the list has each of them once, and silent because
  the clock does not go back; elections refer to registered services only. `SessionInv` is
  `SessionHeld` with `SessionAlone`: a connection that has not overlapped is the only one of
  its agent, so that no close but its own takes its session. There is a
  lemma per part, with a step per action, and lemmas on removing an element from the
  list and on the scan. `ScanIsComplete` follows from the order of the list, and
  `LeadersAreStable` from the definition of the successor under `IInv`.
  `NameServerImplementsElection` shows that registry and elections implement `Election`,
  in which services come and go, run and give up one at a time: the name server tests for
  a leader where `Election` tests for candidates, which `ElectionConsistent` makes the same.
* **`ControlPlaneProofs`, refinement.** `ControlPlaneImplementsNameServer` shows
  `CPSpec => Spec`: every step of the composition is a step of the name server or
  leaves it alone. All theorems about the name server carry over;
  `ControlPlaneKeepsRegistry` and `ControlPlaneImplementsElection` state three of them. `ControlPlaneTypes` types the
  channels and the agents.
* **`ControlPlaneProofs`, elections.** What an agent believes now says little, as events
  are under way to it; the invariant speaks of what it will believe. `Fresh(q, l, h)` says
  that an agent which holds `l` for the leader and handles the events `q` ends up with `h`,
  `Stale` that every event that makes `h` the leader is followed by one that ends it.
  `BeliefInv`: the agent of the name server's leader is `Fresh`, all others are `Stale`.
  It is kept because `Tells` holds of what a name server step sends, which is proved per
  handler: the leader's agent gets a notice that sets it and none that unsets it, and a
  leader that was replaced gets one that ends it. `CandidateInv` adds the requests: a
  candidate of the name server has neither a `RUN_FOR_LEADER` nor an event that removes it
  under way, and there is at most one of each. `LeadersAreCurrent`, `LeadersLearn` and
  `CandidatesStayKnown` follow, with dropped requests and kick-offs. The proof
  shows more than `CandidatesKnown` says: a candidate is known at its agent at any time.
* **`ControlPlaneProofs`, registration.** `RegisteredInv`: for a service that `Register`
  works on or has returned, every `UNREGISTER_SERVICE` under way has a `REGISTER_SERVICE`
  behind it, and the service is registered, or a request to register it is under way, or
  every OK on its way to the agent has a kick-off behind it. It takes the order in which
  `Register` sends before it enters the maps, and the FIFO connections.
  `ReturnedServicesAreRegistered` assumes `~QueueFills`; with drops it does not hold (see
  Findings).
* **`LinkProofs`, writer.** `WriterImplementsChannel` shows `Spec => WriterIsChannel`, for any
  number of senders and sends: initial states map to initial states, and every step puts one
  item in, takes a longer prefix out, or leaves both alone. It rests on `InOrder`,
  which is proved with the facts about `Take` and `Write` (the batch is non-empty only
  between them). `OneWakeup` is proved together with `WakeupComes`: the flag, the senders
  about to post and the token exclude each other.
* **`LinkProofs`, link.** `LinkImplementsChannel` shows `LinkSpec => LinkIsChannel`, for any
  number and length of messages and any cut of the stream. `LinkInv`: `OnMessage` was given
  the first frames, and `rbuff` is the part of the stream read behind them, so that it begins
  where a frame begins. `UnpackFindsFrame` then says that the head in `rbuff` is the length
  of the next frame, and that with so many cells in `rbuff` these cells are that frame. The
  stream is a recursive function; that its frames lie where the lengths say is proved by
  induction (`StreamNext`, `StreamGrows`).
* **`AgentServerProofs`.** `UnRegisterRunsLast`: whoever fired `quit` first waits for the
  loop, and nobody else does (`OneStopper`), so that the callback is run once and after the
  loop. `StopLeavesNothing`: `StopPhases` says, for each phase of the listener's stop, which
  connections are still there; it needs that a reader has a connection and that the port
  is opened at most once.
* **`AgentRouterProofs`.** `HashOwnerIsFound`: the lists hold what the maps hold
  (`ListsAgree`), and in a sorted ring the least index past a key is its owner.
  `NothingIsMissing`: a service is in the router, or the event about it is between its two
  critical sections, or a getter is going to add it (`MissingInv`). `RouterIsUpToDate` and
  `WatchersAreUpToDate` are about runs that have not `crossed`; there, also the attributes a
  getter has read are right or about to be replaced (`AgreeInv`), and a watcher's view
  differs from the router by the one call that is still to be made (`ViewInv`).
* **`VirtualConnProofs`.** `DoneIsClosedOnce`: a connection is in a table at most once in its
  life, since there is one Connect for it and `done` is not closed before it arrives
  (`TableInv`). `RemovedConnIsClosed`: a connection in the backlog, or held by the
  application, is or was in the table (`KeptInv`). `StreamsArePrefixes`: `StreamInv` ties both
  counters to the lengths of the streams and every Data message, under way or being
  handled, to the element of the stream that its number names; a receiver that takes only
  the next number then gets a prefix.
* **`RpcCallProofs`.** `SInv`: sessions are unique, a pending one belongs to a waiting
  call, and a session that is woken is not pending and has an empty channel. It gives
  `SessionsAreFreed` and `ChannelsHaveRoom` for any interleaving. `MInv` adds that every
  packet, wherever it is, carries the session of the call in its body; it is
  inductive only if one call packs at a time (`~OverlapPacking`), the assumption of
  `RepliesAreMatched`. `RPC_crossed` shows that it is needed.
* **`IoBufferProofs`.** `ReaderIsWoken`: `NoLostWakeup` is inductive with the types of
  the flags. `BytesStayInOrder` rests on `CopyCuts`: for every list and every length of the
  slice, what the copy loop returns and what it leaves are together the list.
  It is proved by induction over the number of packets, with lemmas on the flattening of a
  list (`FlatAppend`, `FlatCons`). `EndComesLast` needs besides that, once the end was
  returned, `err` is set and the list is empty (`OrderInv`), which `Put` respects.
* **`NetDialerProofs`.** `DialerInv` holds of every state, and says of the states up to the
  first step that is not `Apart`: one goroutine is inside `dial`, and from its wait on there
  are no loops (`LoopsInv`); from the moment `Shutdown` sets the state no dial gets past
  its second look at it, and at the end of `Shutdown` none is left that was past it before
  (`StopInv`). The Conn in the field is initialised except for one label of `dial`, where
  there are no loops. `LoopsStayCurrent`, `LoopsFindTheirConn` and `ShutdownLeavesClosed`
  follow. The invariant gives more than `ShutdownCloses`: the closed Conn stays in the field
  also while a dial is still under way.

Where a proof needs the least or the last element of a set of indexes, it uses that `<` is
well founded on the naturals (`WFMin`), which needs no induction scheme. The same fact gives
induction for a set of naturals instead of a predicate (`Induction` in `LinkProofs` and
`IoBufferProofs`), and with it what recursive functions compute: first that functions which
satisfy the equation up to `k` exist and agree with each other, then that the definition,
a `CHOOSE`, has a solution (`StreamDef`, `CopyDef`; `FlatLast` for the library's
`FlattenSeq`). `copyLoop` takes its two arguments one after the other, and only lists that
are not empty, so that its equation has a solution.

Model-checked only: liveness (`WF_` and `SF_` are out of the prover's reach). Every
invariant, action property and refinement that a run checks is also proved, under the
assumptions named above, except those that the runs with an expected violation refute.

## Not modelled

* The ping window and round trip times of remote services: they only decide which remote
  service the choice by quality prefers.
* Election watchers, and the application's callbacks beyond where they are called.
* A restart of the name server and events lost by an agent: nothing in the code recovers
  from them, so that no agreement is left to state.
* `GracefulStop` of the name server, which has the listener's part in common with the agent.
* The gRPC resolver with its name watcher, and the adaptor: glue to an external library.
* Configuration, addresses, logging, generated code, examples: no state of their own.

## Plan

1. *Done:* `NameServer`, `ControlPlane`, `ConnWriter`, `RpcCall`, `IoBuffer` with
   their theorems.
2. *Done:* name routers, the agent's stop with the listener, the reader and the refinement
   of `Channel`, the dialer, virtual connections.
3. *Done:* theorems on the agent's stop, name routers, virtual connections, and on what
   agents know of elections and registrations.
4. *Done:* theorems on the dialer, on what the read buffer and a whole connection deliver,
   and `Election`, implemented by `NameServer` and through it by `ControlPlane`.
5. Election watchers and the ping window.

Not planned: handle collisions, several apps (they share only the sessions), message
contents and encodings, wall-clock jumps.
