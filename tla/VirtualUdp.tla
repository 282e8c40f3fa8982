----------------------------- MODULE VirtualUdp -----------------------------
(***************************************************************************)
(* The consumer's virtual UDP socket (virtual_udp.rs): one socket that     *)
(* outlives many replaceable paths.  Quinn sees an AsyncUdpSocket; each    *)
(* WebRTC peer is a VirtualPath with a route in the socket's table.        *)
(*                                                                         *)
(* Several threads are at work on one socket: Quinn's drivers call         *)
(* try_send and poll_recv, the path tasks call try_receive and             *)
(* next_outgoing, and a path is dropped whenever its task ends.  try_send  *)
(* clones the route under the read lock and pushes after the lock is       *)
(* released, so it is two steps here; dropping a VirtualPath first runs    *)
(* Drop::drop and then drops the fields, so it is two steps as well.       *)
(*                                                                         *)
(* A payload is abstracted to its length.  A path is named by the number   *)
(* of the add_path call that made it, which stands for its channel: two    *)
(* senders are the same_channel exactly when they name the same path.      *)
(***************************************************************************)
EXTENDS Naturals, Sequences

CONSTANTS Addrs,          \* synthetic remote addresses, by host number
          MaxPaths,       \* bound on the calls of add_path
          Senders,        \* threads that may be inside try_send
          Lengths,        \* payload lengths offered to the socket
          Mtu,            \* VirtualUdpSocket::mtu
          BufLen,         \* length of the buffer Quinn passes to poll_recv
          IncomingCap,    \* capacity of the incoming channel
          OutgoingCap     \* capacity of each path's outgoing channel

Paths == 1..MaxPaths
NoPath == 0
NoAddr == 0
Idle == [busy |-> FALSE]

ASSUME ConstantsAssumption ==
  /\ Addrs \subseteq Nat \ {NoAddr}
  /\ MaxPaths \in Nat
  /\ Lengths \subseteq Nat
  /\ Mtu \in Nat \ {0}
  /\ IncomingCap \in Nat \ {0}
  /\ OutgoingCap \in Nat \ {0}
  /\ BufLen \in Nat
  /\ Mtu <= BufLen      \* Quinn's default receive buffer is 1472 bytes

VARIABLES
  socket,     \* "open" while a strong Arc exists, then "dropped"
  routes,     \* routes[a]: the path whose sender is stored for a, or NoPath
  incoming,   \* the incoming channel: [remote, len] records
  count,      \* how many paths have been added
  phase,      \* phase[p]: "unused", "live", "unrouted" (Drop::drop has run), "dropped"
  remote,     \* remote[p]: the address p was added for
  outgoing,   \* outgoing[p]: the outgoing channel; dest is history
  call,       \* call[s]: what a thread between try_send's two halves holds
  polled,     \* what poll_recv last handed to Quinn; sent is history
  errors      \* kinds of the errors the socket has returned to Quinn

udpVars == <<socket, routes, incoming, count, phase, remote, outgoing, call,
             polled, errors>>

Datagram == [dest : Addrs, len : Lengths]
Received == [remote : Addrs, len : Lengths]
Call == [busy : {TRUE}, dest : Addrs, len : Lengths, route : Paths \cup {NoPath}]
NoDatagram == [remote |-> NoAddr, len |-> 0, sent |-> 0]

\* VirtualUdpSocket::with_options
Init ==
  /\ socket = "open"
  /\ routes = [a \in Addrs |-> NoPath]
  /\ incoming = <<>>
  /\ count = 0
  /\ phase = [p \in Paths |-> "unused"]
  /\ remote = [p \in Paths |-> NoAddr]
  /\ outgoing = [p \in Paths |-> <<>>]
  /\ call = [s \in Senders |-> Idle]
  /\ polled = NoDatagram
  /\ errors = {}

\* The path's own handles exist until its fields are dropped.
Held(p) == phase[p] \in {"live", "unrouted"}

\* Mutant of IncomingSenders: only the paths hold a sender.
SendersOfPathsOnly == {p \in Paths : Held(p)}

\* The handles that keep the incoming channel open: the socket holds one
\* sender and so does every path.
IncomingSenders ==
  {p \in Paths : Held(p)} \cup (IF socket = "open" THEN {NoPath} ELSE {})

\* Mutant of HasRoom: one datagram too many.
HasRoomOffByOne(queue, cap) == Len(queue) <= cap

\* try_send of a bounded channel fails with Full at the capacity.
HasRoom(queue, cap) == Len(queue) < cap

\* Mutant of Oversize: the length is not looked at.
NeverOversize(n) == FALSE

\* The length test of try_receive and of try_send.
Oversize(n) == n > Mtu

-----------------------------------------------------------------------------
(* The path's side.                                                        *)

\* add_path: a route already stored for the address is overwritten.
AddPath(a) ==
  /\ socket = "open"
  /\ count < MaxPaths
  /\ count' = count + 1
  /\ phase' = [phase EXCEPT ![count + 1] = "live"]
  /\ remote' = [remote EXCEPT ![count + 1] = a]
  /\ routes' = [routes EXCEPT ![a] = count + 1]
  /\ UNCHANGED <<socket, incoming, outgoing, call, polled, errors>>

\* What VirtualPath::try_receive returns for a payload of length n.
TryReceiveResult(n) ==
  IF Oversize(n) THEN "Oversize"
  ELSE IF socket = "dropped" THEN "Closed"
  ELSE IF HasRoom(incoming, IncomingCap) THEN "Ok"
  ELSE "QueueFull"

\* try_receive: tags the payload with the path's own address.
TryReceive(p, n) ==
  /\ phase[p] = "live"
  /\ incoming' = IF TryReceiveResult(n) = "Ok"
                   THEN Append(incoming, [remote |-> remote[p], len |-> n])
                   ELSE incoming
  /\ UNCHANGED <<socket, routes, count, phase, remote, outgoing, call, polled, errors>>

\* next_outgoing: the path's own outgoing_tx keeps the channel open, so an
\* empty queue is a wait and never a None.
NextOutgoing(p) ==
  /\ phase[p] = "live"
  /\ outgoing[p] # <<>>
  /\ outgoing' = [outgoing EXCEPT ![p] = Tail(@)]
  /\ UNCHANGED <<socket, routes, incoming, count, phase, remote, call, polled, errors>>

\* Mutants of OwnsRoute: no same_channel test; the route is left behind.
OwnsAnyRoute(p) == TRUE
OwnsNoRoute(p) == FALSE

\* The same_channel test of Drop::drop.
OwnsRoute(p) == routes[remote[p]] = p

\* Drop::drop: the route goes only if it is this path's own channel, and
\* nothing is done when the socket cannot be upgraded any more.
DropPath(p) ==
  /\ phase[p] = "live"
  /\ phase' = [phase EXCEPT ![p] = "unrouted"]
  /\ routes' = IF socket = "open" /\ OwnsRoute(p)
                 THEN [routes EXCEPT ![remote[p]] = NoPath]
                 ELSE routes
  /\ UNCHANGED <<socket, incoming, count, remote, outgoing, call, polled, errors>>

\* After Drop::drop the fields go: the receiver closes the outgoing channel
\* and what was queued in it is lost.
DropFields(p) ==
  /\ phase[p] = "unrouted"
  /\ phase' = [phase EXCEPT ![p] = "dropped"]
  /\ outgoing' = [outgoing EXCEPT ![p] = <<>>]
  /\ UNCHANGED <<socket, routes, incoming, count, remote, call, polled, errors>>

-----------------------------------------------------------------------------
(* Quinn's side.                                                           *)

\* try_send, first half: the length check and the lookup under the read lock.
TrySend(s, a, n) ==
  /\ socket = "open"
  /\ ~call[s].busy
  /\ IF Oversize(n)
       THEN /\ errors' = errors \cup {"InvalidInput"}
            /\ UNCHANGED call
       ELSE /\ call' = [call EXCEPT ![s] = [busy |-> TRUE, dest |-> a, len |-> n,
                                            route |-> routes[a]]]
            /\ UNCHANGED errors
  /\ UNCHANGED <<socket, routes, incoming, count, phase, remote, outgoing, polled>>

\* Mutant of RouteOf: without a route, fall back on the newest path.
RouteOrNewest(s) == IF call[s].route = NoPath THEN count ELSE call[s].route

\* The sender cloned from the table, if there was one.
RouteOf(s) == call[s].route

\* try_send, second half: the push through the cloned sender.  A missing
\* route, a full channel and a closed channel are all silent loss.
Push(s) ==
  LET p == RouteOf(s) IN
  /\ call[s].busy
  /\ call' = [call EXCEPT ![s] = Idle]
  /\ outgoing' = IF p # NoPath /\ Held(p) /\ HasRoom(outgoing[p], OutgoingCap)
                   THEN [outgoing EXCEPT ![p] =
                           Append(@, [dest |-> call[s].dest, len |-> call[s].len])]
                   ELSE outgoing
  /\ UNCHANGED <<socket, routes, incoming, count, phase, remote, polled, errors>>

\* poll_recv when it is ready: a datagram, cut to Quinn's buffer, or
\* BrokenPipe once the channel is drained and no sender is left.
PollRecv ==
  /\ socket = "open"
  /\ incoming # <<>> \/ IncomingSenders = {}
  /\ IF incoming # <<>>
       THEN LET d == Head(incoming) IN
            /\ polled' = [remote |-> d.remote, sent |-> d.len,
                          len |-> IF d.len < BufLen THEN d.len ELSE BufLen]
            /\ incoming' = Tail(incoming)
            /\ UNCHANGED errors
       ELSE /\ errors' = errors \cup {"BrokenPipe"}
            /\ UNCHANGED <<polled, incoming>>
  /\ UNCHANGED <<socket, routes, count, phase, remote, outgoing, call>>

\* The last strong Arc goes.  A thread inside try_send holds one.
DropSocket ==
  /\ socket = "open"
  /\ \A s \in Senders : ~call[s].busy
  /\ socket' = "dropped"
  /\ routes' = [a \in Addrs |-> NoPath]
  /\ incoming' = <<>>
  /\ UNCHANGED <<count, phase, remote, outgoing, call, polled, errors>>

-----------------------------------------------------------------------------
PathStep(p) ==
  \/ \E n \in Lengths : TryReceive(p, n)
  \/ NextOutgoing(p)
  \/ DropPath(p)
  \/ DropFields(p)

Next ==
  \/ \E a \in Addrs : AddPath(a)
  \/ \E p \in Paths : PathStep(p)
  \/ \E s \in Senders, a \in Addrs, n \in Lengths : TrySend(s, a, n)
  \/ \E s \in Senders : Push(s)
  \/ PollRecv
  \/ DropSocket

Spec == Init /\ [][Next]_udpVars

-----------------------------------------------------------------------------
(* Properties.                                                             *)

\* The state is well formed: the channels stay within their capacities, paths
\* are numbered in the order of their add_path calls, and every queue, route
\* and call names existing addresses and paths.
TypeOK ==
  /\ socket \in {"open", "dropped"}
  /\ routes \in [Addrs -> Paths \cup {NoPath}]
  /\ incoming \in Seq(Received) /\ Len(incoming) <= IncomingCap
  /\ count \in 0..MaxPaths
  /\ phase \in [Paths -> {"unused", "live", "unrouted", "dropped"}]
  /\ remote \in [Paths -> Addrs \cup {NoAddr}]
  /\ \A p \in Paths : phase[p] = "unused" <=> p > count
  /\ \A p \in Paths : p <= count => remote[p] \in Addrs
  /\ outgoing \in [Paths -> Seq(Datagram)]
  /\ \A p \in Paths : Len(outgoing[p]) <= OutgoingCap
  /\ call \in [Senders -> Call \cup {Idle}]
  /\ polled \in [remote : Addrs \cup {NoAddr}, len : Nat, sent : Nat]
  /\ errors \subseteq {"InvalidInput", "BrokenPipe"}

\* p is the last path that was added for its address.
Newest(p) == \A q \in Paths : p < q /\ q <= count => remote[q] # remote[p]

\* The route table serves the newest path of an address for as long as that
\* path lives, whatever happens to the older paths of the same address: the
\* late drop of a replaced path must not take its successor's route
\* (the same_channel test of VirtualPath's Drop).
NewestPathRouted ==
  socket = "open" =>
    \A p \in Paths : phase[p] = "live" /\ Newest(p) => routes[remote[p]] = p

\* A route in the table always leads to a live path at that very address, so
\* a lookup of try_send never starts from a dead or foreign channel.
RoutesAreLive ==
  \A a \in Addrs : routes[a] # NoPath =>
    phase[routes[a]] = "live" /\ remote[routes[a]] = a

\* No datagram is queued to a peer it was not addressed to, although the
\* route may be replaced between the lookup and the push of try_send.
NoMisdelivery ==
  \A p \in Paths : \A i \in 1..Len(outgoing[p]) : outgoing[p][i].dest = remote[p]

\* Quinn never gets a fatal receive error from its socket: losing every path
\* does not close the incoming channel, because the socket keeps a sender.
SocketNeverBreaks == "BrokenPipe" \notin errors

\* Every datagram that reaches Quinn is whole: the MTU test of try_receive
\* keeps out whatever poll_recv would have to cut to the buffer.
NothingTruncated == polled.len = polled.sent

-----------------------------------------------------------------------------
(* The socket implements the unreliable datagram service.  A path serves    *)
(* its address until its fields are dropped; a thread between the halves of *)
(* try_send has a datagram pending.                                         *)

ServedAddr == [p \in Paths |-> IF Held(p) THEN remote[p] ELSE NoAddr]
InFlight == [s \in Senders |->
               IF call[s].busy THEN {[dest |-> call[s].dest, len |-> call[s].len]} ELSE {}]

Service == INSTANCE DatagramService
             WITH at <- ServedAddr, inbox <- incoming, outbox <- outgoing,
                  pending <- InFlight

\* Races between try_send, add_path, try_receive and Drop only ever lose
\* datagrams: the socket implements DatagramService, so nothing is
\* duplicated, reordered on its path, made up, or carried by a path that
\* does not serve its address.
ImplementsService == Service!ServiceSpec
=============================================================================
