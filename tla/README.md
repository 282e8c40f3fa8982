# A TLA+ development for unbounded-rs

This directory holds TLA+ models of the `lantern_unbounded` crate, the TLC
configurations that check them on small instances, and proofs that TLAPS checks
for all instances. Line numbers refer to the sources in `src/`.

## The system

A **consumer** (a censored user) runs one QUIC server over a *virtual* UDP
socket. Volunteers run **peer proxies**. Consumer and peer find each other
through **Freddie**, an HTTP rendezvous; they connect by WebRTC; the peer relays
packets between its DataChannel and a WebSocket to the **egress**. When a peer
goes away the consumer pairs with another one under a new synthetic address, and
QUIC migrates to it.

| Part | State | Operations | Interacts with |
|---|---|---|---|
| Virtual UDP socket (`virtual_udp.rs`) | route table, incoming queue, one outgoing queue per path | `add_path`, `try_receive`, `next_outgoing`, drop of a path, `try_send`, `poll_recv` | Quinn's threads, path tasks |
| DataChannel adapter (`rtc.rs`) | bounded event queue | `on_message`, `on_close`, `send_packet`, `recv_packet` | WebRTC callbacks, relay, path |
| Consumer path (`consumer_path.rs`) | pinned source, address counter | `allocate`, `run_consumer_path` | adapter, socket |
| Consumer (`consumer.rs`) | summary, connection, oneshot for the channel | `run_consumer_session`, `maintain_consumer`, callbacks | Freddie, WebRTC, path |
| Peer session (`peer_proxy.rs`) | connection, oneshot, session id, two event flags | `run_peer_proxy_until_cancelled`, callbacks | Freddie, WebRTC, egress, relay |
| Supervisor and pool (`supervisor.rs`) | summary, backoff, event queues | `supervise_with`, `supervise_peer_proxy_pool` | peer session, callbacks |
| Relay, egress tunnel (`relay.rs`, `egress.rs`) | WebSocket | `relay`, `connect`, `send`, `recv` | adapter |
| QUIC broker (`consumer_quic.rs`) | watch channel with the connection | `run`, `accept`, `open_bi` | Quinn, embedder's calls |
| SOCKS5 client (`consumer_socks5.rs`) | none between calls | `connect_socks5` | broker, QUIC stream |
| Freddie client (`signaling.rs`, `protocol.rs`) | line buffer | `exchange`, `advertisements`, `next` | HTTP |

What is hard about it: Quinn's threads, the path tasks and the drop of a path
race on the route table; WebRTC callbacks run on tasks of their own, concurrently
with the session and even after it; every wait can be cut off by cancellation, a
timeout or the end of the connection; bounded queues lose packets and must not
lose a close; shutdown has to terminate although callbacks hold event senders.
`PROJECT.json` lists these hazards at their lines.

## The modules

| Module | Models |
|---|---|
| `VirtualUdp` | the virtual UDP socket |
| `DatagramService` | what the socket promises: an unreliable datagram service |
| `WebRtcDatagrams` | the DataChannel adapter, as operators on a record |
| `Consumer` | consumer supervisor, session, path and allocator, composed with the socket and the adapter |
| `Advertisements` | the consumer's choice of a peer: `select_genesis` over the incremental parser of the advertisement stream |
| `QuicBroker` | the broker of the QUIC connection and the calls of `open_bi`, over a watch channel |
| `Socks5` | `connect_socks5`: the handshake on a stream, composed with `QuicBroker` |
| `Rendezvous` | the signalling of several consumers and peers through Freddie, composed with each other |
| `PeerSession` | one session of the peer proxy with its callbacks |
| `EgressSubprotocol` | the header that carries the session id to the egress, as operators |
| `SessionContract` | what a supervisor relies on when it runs a session |
| `Relay` | the packet loop between DataChannel and WebSocket, with the adapter and the egress tunnel |
| `Supervisor` | the peer proxy's supervisor and pool |
| `VirtualUdpProofs`, `ConsumerProofs`, `AdvertisementsProofs`, `Socks5Proofs`, `RendezvousProofs`, `PeerSessionProofs`, `RelayProofs`, `SupervisorProofs` | theorems about the modules they are named after; `Socks5Proofs` also about `QuicBroker`, and `ConsumerProofs` uses the theorems about the socket |
| `MC...` | instances for TLC |

Definitions called "Mutant of X" just before a definition X are wrong versions of
it, each with the bug its comment names. They are used by no specification; putting
one in the place of X must make TLC find a violation, which shows that the property
it is paired with in `PROJECT.json` depends on X.

### VirtualUdp

`try_send` clones the sender under the read lock and pushes after releasing it
(lines 182-196), so it is two actions, `TrySend` and `Push`, with the cloned route
kept in `call[s]`. Dropping a `VirtualPath` runs `Drop::drop` (lines 141-154) and
then drops the fields, so it is `DropPath` and `DropFields`. A channel is named by
the number of the `add_path` call that made it, which turns `same_channel` into
equality. A payload is its length. `polled.sent` and `dest` in the outgoing queues
are history variables. Assumed: Quinn's receive buffer is at least the MTU (its
default is 1472 bytes and the path MTU 1452).

### Consumer

`pc[w]` follows `maintain_consumer`, then `run_consumer_session`, then
`run_consumer_path`. The callbacks of WebRTC follow the connection and not
`pc`: they may happen at any time from the moment both descriptions are set until
`close()` (line 318), also while a session that has timed out or was cancelled is on its
way there. So a channel can open late; its oneshot then has no receiver, and
`RoutesMatchTasks` says that it starts no path and is closed with the connection. When
the channel closes while the queue is full, the detached task of `on_close` sends the
event in a step of its own, `LateClose`, some time after a slot is free; until then the
path may find the queue empty. Assumed of the library: no message follows the close of
its channel. A text message and bytes that are no packet both end the path with an error
and are one event. The actions of `VirtualUdp` are conjoined with the
worker's own, so the composition is with the real socket and not with an abstraction
of it. Signalling is two steps that succeed or fail: up to the descriptions, and the
ICE message; `Advertisements` and `Rendezvous` look into them. Assumed of Quinn: it
sends only to addresses it has heard from, as a QUIC server does.

### Advertisements

`at` follows `select_genesis`: the request, the loop up to the first Genesis, the loop
under the patience timer. `AdvertisementStream::next` is `TakeLine`, `ReadChunk`,
`ReadEnd` and `ReadFails` on `buffered`. The body of a response is a sequence of
symbols (line break, blank, the two halves of an envelope), so that a chunk can end
inside an envelope. `Ends`, `LineTo` and `Messages` define, without chunks, what a body
says; `ChunkingInvisible` compares.

### QuicBroker and Socks5

A watch channel is its value and, per receiver, whether there is an update it has not
seen: `borrow()` leaves that mark, `changed()` clears it. `StopServer`,
`ClearPublished` and `ReturnFromRun` are separate because dials run on other tasks and
see the endpoint closed, the value cleared and the sender dropped one after another.
A connection that is lost while it waits for `accept` is still accepted, and its
handshake fails.
`open_bi` is `Look`, `OpenBi`, `Changed` and `CancelOpen`; `copy` is the connection it
has cloned. `Socks5` continues a dial whose stream has opened. The egress's answer is
a sequence of bytes that arrives in pieces; `read` and `need` are the position and the
size of the `read_exact` in progress. The port and the bytes of an address are zeros,
only their number matters. A poll that has looked at its token is one step.

### Rendezvous

Every attempt of a consumer and every session of a peer is a party with two exchanges.
`request` is Freddie's table: an exchange is posted, received, and then open until it is
replied to, its time is over, or it is refused because the request it answers is not
open. `PostOffer` may choose any Genesis that Freddie has ever received, as a stream
read late allows. `Open` is the network: it may connect two parties that hold each
other's descriptions. An ICE message carries candidates, each of them the
attempt for which it was gathered and the number of its protocol, converted as in `ConsumerIceCandidate::from` and `to_rust_candidate`. `faulty` holds the
parties excused from completing: one that failed, whose timer fired, or whose request ended too early. An answer
that expires after its consumer has failed is no such excuse, so `PairCompletes` notices a
consumer that fails without a fault. Freddie is
external and modelled from the client's use of it and `docs/wire-protocol.md`.

### Relay

`select`, and the two awaited sends, in which the loop looks at nothing else. A `recv`
that the select drops may or may not have been polled, and if so has skipped the control
messages at the head of the WebSocket. `LateClose` is the adapter's detached task, as in
`Consumer`. The first packets of each side are numbered, so
that they can be followed; behind them come packets without end. `accepted` and `arrived`
count the numbered packets that the adapter and the WebSocket have taken in, and
`InTransit` says which of them are in hand or queued.

### PeerSession

`pc` follows the `session` future; any of its waits can end in an error, and
`CancelSession` ends all of them, as the biased select does. Changes of the
connection's state are queued, and the state-change callback handles them one at a
time in three steps: the closure (`fail_data_channel_wait`), the body up to the
await of the selected candidate pair, and the event after it. Assumed of the
library: callbacks are serialised; the callback for `Closed` may run after `close()`
has returned; the consumer can connect once the answer has been posted. The last
follows from `consumer.rs:274-294`, where the consumer sets the remote description
before it sends its own candidates. `EgressSubprotocol` gives the check of the session
id, the header that is built from it and the values that come out of the header.

`SessionContract` states the session as the supervisor sees it: it returns once, with
Cancelled only if it was cancelled and in any case if it was; its consumer is reported
connected and, once, gone, perhaps after the return. `ImplementsContract` shows that
`PeerSession` implements it, fairness included, which is what entitles `Supervisor` to
take a session for one step with any result and callbacks that go on beside it. Its safety
part, `ContractSafety`, is also proved.

### Supervisor

`EndSession` is everything from the return of `run_session` to the select with the
delay (lines 198-241); the jitter's percentage is any of a set of numbers from 80 to
120. `PeerConnects` and `PeerDisconnects` are the callbacks' own events. `Forward`
and `FinishSlot` are the two branches of the pool's select. Durations are small
numbers, the arithmetic is the code's.

## What is checked

All runs use TLC's breadth-first search to the end of the state space.
`CHECK_DEADLOCK FALSE` is set everywhere: sessions end, pools return, and paths and
attempts are bounded.

| Run | Configuration | Question |
|---|---|---|
| `virtual_udp` | 2 addresses, 3 paths, 2 threads, queues of 1 | Do races on the table unroute the newest path, break the socket or truncate? Does the socket implement `DatagramService`? |
| `consumer` | 1 worker, 3 attempts, 2 allocatable addresses, 2 sources, fair | Do routes follow tasks, do replies and sources stay with their peer, are attempts accounted for? Does cancellation stop the worker, a hangup end a path? |
| `consumer_pair` | 2 workers, 2 attempts each, no packets | Is an address given out twice, or outside the range, by workers that share the allocator? |
| `advertisements` | 258 bodies of up to 3 lines, every way to cut them | Are the messages found those of the body, is the choice one of them, does it end? |
| `socks5` | 2 connections, 1 call, 6 targets, 9 answers | Is a connection missed, a dead one tried for ever, one on offer that is not served? Does the end of the broker and cancellation release a call, and is the stream handed over at the right byte? |
| `rendezvous` | 2 consumers, one with 2 attempts, 2 peers, 1 fault | Do the two ends of a pair agree, does the session id survive a change of peer, do undisturbed pairs complete, does nobody wait for ever? |
| `peer_session` | 5 changes of state, 2 channels, 5 session ids, fair | Is a disconnect reported exactly once? Relay only with a consumer that the egress can tell, the supervisor's contract, cancellation and timeouts |
| `relay` | queues of 2, 3 numbered packets per side | Is a packet lost, doubled or reordered, or a close, when branches are dropped and sends block? |
| `supervisor` | 1 slot, 3 attempts, backoff 10 to 35, fair | Backoff bounds and resets, accounting, order of the reports, shutdown with callbacks pending |

Why the bounds are enough to be interesting. Three paths over two addresses give a
replaced path, its successor and a bystander; two threads give two pushes in flight
for one slot of a queue. Three attempts over two addresses give a replacement and
an exhausted range. Three attempts of the supervisor reach the maximum (10, 20, 35)
and a reset after any of them. Five changes of state let a connection come up, drop,
come back and fail. Queues of one are full as often as not; that longer queues
still implement the service is left to the theorem, which holds for every capacity.
The settings of the supervisor are ordinary ones; a zero initial delay and a maximum
below the initial delay are left to `RetryCorrect`, which holds for all settings.
`Consumer` has packets of one length: the lengths that matter are told apart in
`virtual_udp`. In `rendezvous` three attempts compete for two peers, so an offer can meet
a request that is taken or over, and a consumer can pair again while its first peer still
relays; one fault, besides any number of expired requests and timeouts, is enough to
leave a counterpart alone in each of its waits, and the invariants are proved without
the bound. The calls of `socks5` write nothing that another call reads, so one stands
for all; its host names are 0, 1, 255 and 256 bytes long. The bodies of `advertisements`
have lines of every kind in every order; a fourth line meets a buffer in a state that
the third has met. Three numbered packets in queues of two include one that is in hand
and two that wait. The properties do
not depend on larger values except through these cases; for every safety property that a
run checks, the theorems below remove the bounds.

Fairness. Weak fairness is put on the steps a task takes by itself: Tokio polls a
task that can proceed and timers fire. It includes the return of `close()` and
`send()` of the WebRTC library in `Consumer` and `PeerSession`; in `Relay` a send may
take for ever, and `HangupEndsRelay` says so. The relay's select is not biased and starts
at a random branch, so a branch that is ready again and again is taken: strong fairness.
The detached send of a close is a task like others (`LateClose` in `Consumer` and `Relay`);
weak fairness suffices, since after the close nothing competes with it for the slot.
There is none on the consumer or on ICE, none on callbacks in `Supervisor`, none on the
egress's answers in `Socks5`; a QUIC handshake and `connection.open_bi()` are assumed to
end. The HTTP client has no request timeout (`signaling.rs:76`), so nothing makes Freddie
answer in `Consumer`, `PeerSession` and `Advertisements`. `Rendezvous` is about a Freddie
that works: it receives what is posted and ends a request that nobody answers, as
`docs/wire-protocol.md` has it; without this no exchange need ever end.

### Where the code and its documents disagree

Three runs check a sentence of the documents or comments and find it violated:

* `consumer_failure`: `docs/wire-protocol.md:120` has the route removed on peer
  failure. The callback at `consumer.rs:239` ignores a failure once the channel is
  open; the path ends only if the library closes the channel or a send fails. The
  model assumes that a failed connection need not close its DataChannel.
* `supervisor_late_event`: the comment at `supervisor.rs:113-117` claims that the
  drain loses no event; a callback that outlives its session, as the same comment
  says it can, sends its event to a dropped receiver.
* `peer_session_early`: the comment at `peer_proxy.rs:180-182` says that the session id is
  known before the connection can be Connected. The consumer can connect with the
  answer alone, and then neither of its two events is emitted.

One more was met and is modelled as the code has it: `README.md:58` calls a setting the
maximum retry delay, and an initial delay above it wins (`supervisor.rs:177`, `Ceiling`).

## What is proved

The theorems hold for every value of the constants that satisfies the named assumptions
`ConstantsAssumption` (socket), `ConsumerAssumption`, `AdvertisementsAssumption`,
`QuicBrokerAssumption`, `Socks5Assumption`, `RendezvousAssumption`,
`PeerSessionAssumption`, `RelayAssumption` and `SupervisorAssumption`. Most say that a
number is a number or that a name is not taken twice. Two matter. `Mtu <= BufLen`:
`virtual_udp.rs` does not enforce it; with Quinn's default buffer of 1472 bytes and the
crate's path MTU of 1452 it holds. `CgnatHosts <= MaxPaths + FirstPathHost`: the model's
bound on the calls of `add_path` lies beyond the range of addresses, so it is the range
that stops the allocator, as in the code.

Each invariant is proved from an inductive one, by one step per action.

| Theorem | States | Inductive invariant, and what it adds |
|---|---|---|
| `TypeCorrect` | `TypeOK` | itself; the bounds of the queues are part of it |
| `RoutesCorrect`, `NewestPathCorrect` | `RoutesAreLive`, `NewestPathRouted` | `RouteInv`: neither is inductive alone, since that a late drop spares the successor's route needs that the table holds the newest path |
| `DeliveryCorrect` | `NoMisdelivery` | `DeliveryInv`: a route that a thread holds between lookup and push belongs to a path at the packet's destination |
| `ReceptionCorrect`, `TruncationCorrect` | `SocketNeverBreaks`, `NothingTruncated` | `ReceptionInv`: everything in the incoming queue is within the MTU |
| `SocketImplementsService` | `ImplementsService` | step simulation under `TypeOK` and `DeliveryInv` |
| `ConsumerRunsSocket`, `ConsumerImplementsService` | `Spec` of the socket, `ImplementsService` | the consumer's steps are socket steps or none, so the theorems about the socket hold in the composition |
| `AddressesFresh`, `RoutesMatch` | `FreshAddresses`, `RoutesMatchTasks` | `ConsumerInv`: a worker has a path exactly while it is on it, at the address of its attempt; no two share a path or an address that waits for one; `ConnectionInv`, for the last clause of `RoutesMatchTasks`: a worker between sessions has no connection left open |
| `SourcesPinned`, `RepliesCorrect` | `SourcePinned`, `RepliesOnly` | `ConsumerInv`, which also says that Quinn knows only addresses of paths that have carried a packet, and that a packet between lookup and push goes to such a path |
| `SummaryCorrect` | `AttemptsAccounted` | `SummaryInv`: a session returns a cancellation only after the token was cancelled; the action part of the property, from it, by a step per action that counts |
| `HangupSeen` | `HangupStaysAhead` | `HangupInv`: until the session is over, the close is the last event of the adapter's queue or held by the detached task, which can send it as soon as the path has drained a slot |
| `MessagesCorrect`, `ChoiceCorrect` | `ChunkingInvisible`, `ChoiceIsAdvertised` | `SelectionInv`: the stream stands at the end of some line of the body, has returned the messages up to it and buffers what follows it |
| `RelayConserves`, `RelayEndsOrderly` | `PacketsConserved`, `OrderlyEnd` | `RelayInv`: queued packets are consecutive numbers, and what ends a side is the last that it hands over |
| `RelaySeesClose` | `CloseStaysAhead` | `CloseInv`: while the relay runs, the close of a side is still in front of it, last in its queue or held by the detached task |
| `RetryCorrect` | `RetryBounded` | `BackoffInv`, with lemmas on doubling, jitter and integer division |
| `ResetCorrect` | `OnlyStableSessionsReset` | an action property, from `BackoffInv` |
| `AccountingCorrect` | `AttemptsAccounted` | `AccountInv`: no result of a cancelled session is carried into the delay or the next attempt; the action part, from the guards of the step that counts |
| `ReportsCorrect` | `ReportsMatchSummary` | `StoryInv`: the events already forwarded, then those in the queue, tell the summary so far |
| `CountCorrect` | `CountNeverNegative` | `GaugeInv`: disconnects told, plus consumers present, never exceed connects told |
| `PairsMatch`, `SessionIdSurvives` | `MatchedPair`, `SessionSurvivesPeers` | `RendezvousInv`: the chain of messages, each the answer to the one before, by the party that read it |
| `ConnectionsClosed` | `NoConnectionLeftOpen` | `CloseInv` |
| `RelayCorrect` | `RelayHasPeer` | `PeerInv`: the oneshot is resolved at most once, and by whom |
| `EventsOrdered` | `DisconnectFollowsConnect` | `EventInv`: what was sent is what the two flags say, but for the PeerConnected sent after the await |
| `DisconnectOnce` | `DisconnectReportedOnce` | `LastInv`: until the callback for Closed has run there is one more chance to report |
| `SessionKeepsContract` | `ContractSafety` | step simulation under `EventInv` and `CancelInv`: a session returns Cancelled only if it was |
| `EgressCorrect` | `EgressKnowsConsumer` | `TokenInv` and `PeerInv`: only a token is published, and lemmas on splitting the header that is built from it |
| `OfferCorrect` | `OnlyServedIsPublished` | `OfferInv` |
| `SpinFree` | `NoSpin` | `SpinInv`: a connection is published once, and a dial that tries its connection again has seen every update |
| `CancelCorrect` | `CancelSurfaces` | `HandshakeInv`: a handshake starts with the stream, and a cancelled dial has not ended otherwise |
| `FramingCorrect` | `RequestFramed` | `HandshakeInv`, which also says that a target being requested was not refused, and a lemma on the layout of a request |
| `StreamCorrect` | `StreamReady` | `ReadInv`: where each `read_exact` starts and ends, by the phase of the handshake |
| `WakeCorrect` | `NoLostWakeup` | `WakeInv`: a call that has looked has the published connection or an unseen update, and waits behind a connection only when that is closed |

Every safety property that a run checks is proved. Only model-checked is what needs
fairness and ENABLED, which the proof system does not handle: the liveness properties
`CancelStops`, `HangupEndsPath`, `SelectionEnds`, `NoMissedConnection`, `CancelEndsDial`,
`StopReleasesDials`, `PairCompletes`, `SignallingEnds`, `TraversalEnds`, `HangupEndsRelay`
and `ShutdownCompletes`, and the fairness that `ImplementsContract` includes. What could
silently defeat three of them is a lost signal, and that none is lost is a safety property
that is proved: `HangupStaysAhead` for `HangupEndsPath`, `NoLostWakeup` for
`NoMissedConnection`, `CloseStaysAhead` for `HangupEndsRelay`.

Some theorems state facts that no run checks by name. `NoMisdelivery`,
`DisconnectFollowsConnect`, `NoConnectionLeftOpen` and `ContractSafety` follow on an
instance from what a run does check (`ImplementsService`, `ImplementsContract`), and
`ConsumerRunsSocket` is what carries the socket's theorems over. `HangupStaysAhead`,
`NoLostWakeup`, `CloseStaysAhead` and `CountNeverNegative` are defined in the proof
modules.

Where an invariant is about a sequence that a filter or a cut computes, the models define
it by positions (`Ends`, `LineTo`, the numbers of packets) and not by recursion, since
induction over data is beyond the proof system's backends. Only the socket has a type
invariant, for the bounds of its queues; elsewhere the proofs carry the types they need in
their own invariants.

## What is not modelled

* Data formats: the JSON and base64 of the signalling messages, the contents of SDP and
  of candidates beyond the protocol's number, addresses beyond their kind and length.
* Settings of the libraries: `build_api` and the DTLS parameters in `rtc.rs`, Quinn's
  transport and TLS settings in `consumer_quic.rs`, the HTTP client's construction. They
  hold no state; the two that matter to a model, the missing request timeout and the path
  MTU, are assumptions above.
* The consumer's stream of `ConsumerEvent`s. It is write-only for the code that is
  modelled, and the peer proxy's, whose order something depends on, is modelled.
* `EgressTunnel::close`, which nothing in the crate calls; the wire-vector generator,
  which prints constants; the parsing of arguments and the printing in the binary; logs.
* Time. A timeout may fire whenever it is armed; how long a relay lasted is a choice.
* Poisoned locks, which need a panic under a lock, and Tokio's cooperative budget. The
  path's select is biased towards the peer (`consumer_path.rs:86`), so whether a peer
  that never pauses starves the outgoing queue depends on that budget and is left open.
