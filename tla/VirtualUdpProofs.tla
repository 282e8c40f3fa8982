-------------------------- MODULE VirtualUdpProofs --------------------------
(***************************************************************************)
(* Proofs about VirtualUdp for every set of addresses and threads, every   *)
(* number of paths and every MTU and capacity.                             *)
(***************************************************************************)
EXTENDS VirtualUdp, TLAPS

(***************************************************************************)
(* Facts about the queues.                                                 *)
(***************************************************************************)

\* Appending to a channel that has room keeps its type and its capacity.
LEMMA AppendWithinCap ==
  ASSUME NEW S, NEW q \in Seq(S), NEW e \in S, NEW cap \in Nat, HasRoom(q, cap)
  PROVE  /\ Append(q, e) \in Seq(S)
         /\ Len(Append(q, e)) <= cap
         /\ Len(Append(q, e)) = Len(q) + 1
         /\ \A i \in 1..Len(q) : Append(q, e)[i] = q[i]
         /\ Append(q, e)[Len(q) + 1] = e
BY DEF HasRoom

\* Popping a channel keeps its type and its capacity, and what is left is
\* what was behind the head.
LEMMA TailWithinCap ==
  ASSUME NEW S, NEW q \in Seq(S), q # <<>>, NEW cap \in Nat, Len(q) <= cap
  PROVE  /\ Head(q) \in S
         /\ Head(q) = q[1]
         /\ Len(q) >= 1
         /\ Tail(q) \in Seq(S)
         /\ Len(Tail(q)) = Len(q) - 1
         /\ Len(Tail(q)) <= cap
         /\ \A i \in 1..Len(Tail(q)) : Tail(q)[i] = q[i + 1]
OBVIOUS

\* The empty channel.
LEMMA EmptyWithinCap ==
  ASSUME NEW S, NEW cap \in Nat
  PROVE  <<>> \in Seq(S) /\ Len(<<>>) = 0 /\ Len(<<>>) <= cap
OBVIOUS

(***************************************************************************)
(* Type correctness.                                                       *)
(***************************************************************************)

\* with_options makes a well-formed socket.
LEMMA InitTypeOK == Init => TypeOK
BY ConstantsAssumption, EmptyWithinCap DEF Init, TypeOK, Paths, NoPath, NoAddr, NoDatagram, Call

\* Every operation of the socket and of its paths keeps the state well
\* formed and the channels within their capacities.
LEMMA NextTypeOK == TypeOK /\ [Next]_udpVars => TypeOK'
<1> SUFFICES ASSUME TypeOK, [Next]_udpVars PROVE TypeOK'
  OBVIOUS
<1> USE ConstantsAssumption DEF Paths, NoPath, NoAddr
<1>1. ASSUME NEW a \in Addrs, AddPath(a) PROVE TypeOK'
  <2>1. count + 1 \in Paths /\ phase[count + 1] = "unused"
    BY <1>1 DEF AddPath, TypeOK
  <2>2. count' \in 0..MaxPaths /\ routes' \in [Addrs -> Paths \cup {NoPath}]
    BY <1>1, <2>1 DEF AddPath, TypeOK
  <2>3. /\ phase' \in [Paths -> {"unused", "live", "unrouted", "dropped"}]
        /\ remote' \in [Paths -> Addrs \cup {NoAddr}]
    BY <1>1, <2>1 DEF AddPath, TypeOK
  <2>4. \A p \in Paths : phase'[p] = "unused" <=> p > count'
    BY <1>1, <2>1 DEF AddPath, TypeOK
  <2>5. \A p \in Paths : p <= count' => remote'[p] \in Addrs
    BY <1>1, <2>1 DEF AddPath, TypeOK
  <2> QED BY <1>1, <2>2, <2>3, <2>4, <2>5 DEF AddPath, TypeOK
<1>2. ASSUME NEW p \in Paths, NEW n \in Lengths, TryReceive(p, n) PROVE TypeOK'
  <2>1. incoming' \in Seq(Received) /\ Len(incoming') <= IncomingCap
    <3>1. CASE TryReceiveResult(n) = "Ok"
      <4>1. HasRoom(incoming, IncomingCap)
        BY <3>1 DEF TryReceiveResult
      <4>2. [remote |-> remote[p], len |-> n] \in Received
        BY <1>2 DEF TryReceive, TypeOK, Received
      <4> QED BY <1>2, <3>1, <4>1, <4>2, AppendWithinCap DEF TryReceive, TypeOK
    <3>2. CASE TryReceiveResult(n) # "Ok"
      BY <1>2, <3>2 DEF TryReceive, TypeOK
    <3> QED BY <3>1, <3>2
  <2> QED BY <1>2, <2>1 DEF TryReceive, TypeOK
<1>3. ASSUME NEW p \in Paths, NextOutgoing(p) PROVE TypeOK'
  <2>1. Tail(outgoing[p]) \in Seq(Datagram) /\ Len(Tail(outgoing[p])) <= OutgoingCap
    BY <1>3, TailWithinCap DEF NextOutgoing, TypeOK
  <2>2. /\ outgoing' \in [Paths -> Seq(Datagram)]
        /\ \A q \in Paths : Len(outgoing'[q]) <= OutgoingCap
    BY <1>3, <2>1 DEF NextOutgoing, TypeOK
  <2> QED BY <1>3, <2>2 DEF NextOutgoing, TypeOK
<1>4. ASSUME NEW p \in Paths, DropPath(p) PROVE TypeOK'
  <2>1. routes' \in [Addrs -> Paths \cup {NoPath}]
    BY <1>4 DEF DropPath, TypeOK
  <2> QED BY <1>4, <2>1 DEF DropPath, TypeOK
<1>5. ASSUME NEW p \in Paths, DropFields(p) PROVE TypeOK'
  <2>1. /\ outgoing' \in [Paths -> Seq(Datagram)]
        /\ \A q \in Paths : Len(outgoing'[q]) <= OutgoingCap
    BY <1>5, EmptyWithinCap DEF DropFields, TypeOK
  <2> QED BY <1>5, <2>1 DEF DropFields, TypeOK
<1>6. ASSUME NEW s \in Senders, NEW a \in Addrs, NEW n \in Lengths, TrySend(s, a, n)
      PROVE TypeOK'
  <2>1. call' \in [Senders -> Call \cup {Idle}]
    <3> DEFINE c == [busy |-> TRUE, dest |-> a, len |-> n, route |-> routes[a]]
    <3>1. c \in Call
      BY DEF TypeOK, Call
    <3>2. call' = call \/ call' = [call EXCEPT ![s] = c]
      BY <1>6 DEF TrySend
    <3> HIDE DEF c
    <3> QED BY <3>1, <3>2, Zenon DEF TypeOK
  <2>2. errors' \subseteq {"InvalidInput", "BrokenPipe"}
    BY <1>6, Zenon DEF TrySend, TypeOK
  <2> QED BY <1>6, <2>1, <2>2 DEF TrySend, TypeOK
<1>7. ASSUME NEW s \in Senders, Push(s) PROVE TypeOK'
  <2>1. call' \in [Senders -> Call \cup {Idle}]
    BY <1>7 DEF Push, TypeOK
  <2>2. call[s] \in Call
    BY <1>7 DEF Push, TypeOK, Idle
  <2>3. /\ outgoing' \in [Paths -> Seq(Datagram)]
        /\ \A q \in Paths : Len(outgoing'[q]) <= OutgoingCap
    <3> DEFINE p == RouteOf(s)
               d == [dest |-> call[s].dest, len |-> call[s].len]
    <3>1. p \in Paths \cup {NoPath} /\ d \in Datagram
      BY <2>2, Zenon DEF Call, Datagram, RouteOf
    <3>2. CASE p # NoPath /\ Held(p) /\ HasRoom(outgoing[p], OutgoingCap)
      <4>1. p \in Paths /\ outgoing' = [outgoing EXCEPT ![p] = Append(@, d)]
        BY <1>7, <3>1, <3>2 DEF Push
      <4>2. Append(outgoing[p], d) \in Seq(Datagram)
            /\ Len(Append(outgoing[p], d)) <= OutgoingCap
        BY <3>1, <3>2, <4>1, AppendWithinCap DEF TypeOK
      <4> HIDE DEF p, d
      <4> QED BY <4>1, <4>2 DEF TypeOK
    <3>3. CASE ~(p # NoPath /\ Held(p) /\ HasRoom(outgoing[p], OutgoingCap))
      BY <1>7, <3>3 DEF Push, TypeOK
    <3> QED BY <3>2, <3>3
  <2> QED BY <1>7, <2>1, <2>3 DEF Push, TypeOK
<1>8. ASSUME PollRecv PROVE TypeOK'
  <2>1. CASE incoming # <<>>
    <3>1. /\ Head(incoming) \in Received
          /\ Tail(incoming) \in Seq(Received)
          /\ Len(Tail(incoming)) <= IncomingCap
      BY <2>1, TailWithinCap DEF TypeOK
    <3>2. polled' \in [remote : Addrs \cup {NoAddr}, len : Nat, sent : Nat]
      <4>1. /\ Head(incoming).remote \in Addrs
            /\ Head(incoming).len \in Nat
        BY <3>1, Zenon DEF Received
      <4>2. polled' = [remote |-> Head(incoming).remote, sent |-> Head(incoming).len,
                       len |-> IF Head(incoming).len < BufLen THEN Head(incoming).len
                                                              ELSE BufLen]
        BY <1>8, <2>1 DEF PollRecv
      <4> QED BY <4>1, <4>2
    <3> QED BY <1>8, <2>1, <3>1, <3>2, Zenon DEF PollRecv, TypeOK
  <2>2. CASE incoming = <<>>
    BY <1>8, <2>2, Zenon DEF PollRecv, TypeOK
  <2> QED BY <2>1, <2>2
<1>9. ASSUME DropSocket PROVE TypeOK'
  <2>1. incoming' \in Seq(Received) /\ Len(incoming') <= IncomingCap
    BY <1>9, EmptyWithinCap DEF DropSocket
  <2> QED BY <1>9, <2>1 DEF DropSocket, TypeOK
<1>10. CASE UNCHANGED udpVars
  BY <1>10 DEF udpVars, TypeOK
<1> QED BY <1>1, <1>2, <1>3, <1>4, <1>5, <1>6, <1>7, <1>8, <1>9, <1>10 DEF Next, PathStep

\* The socket's state is always well formed: the channels never exceed their
\* capacities and routes, queues and calls only name what exists.
THEOREM TypeCorrect == Spec => []TypeOK
BY InitTypeOK, NextTypeOK, PTL DEF Spec

(***************************************************************************)
(* The route table.  RoutesAreLive and NewestPathRouted are inductive      *)
(* together with one more fact: a dropped socket has no routes left.       *)
(***************************************************************************)
RouteInv ==
  /\ RoutesAreLive
  /\ NewestPathRouted
  /\ socket = "dropped" => \A a \in Addrs : routes[a] = NoPath

\* Every step keeps the route table serving the newest live path of every
\* address; add_path and the two-step drop are the steps that could break it.
LEMMA NextRouteInv == TypeOK /\ RouteInv /\ [Next]_udpVars => RouteInv'
<1> SUFFICES ASSUME TypeOK, RouteInv, [Next]_udpVars PROVE RouteInv'
  OBVIOUS
<1> USE ConstantsAssumption DEF Paths, NoPath, NoAddr
<1>1. ASSUME NEW a \in Addrs, AddPath(a) PROVE RouteInv'
  <2>1. count + 1 \in Paths /\ phase[count + 1] = "unused" /\ count \in Nat
    BY <1>1 DEF AddPath, TypeOK
  <2>2. RoutesAreLive'
    <3> SUFFICES ASSUME NEW b \in Addrs, routes'[b] # NoPath
                 PROVE  phase'[routes'[b]] = "live" /\ remote'[routes'[b]] = b
      BY DEF RoutesAreLive
    <3>1. CASE b = a
      BY <1>1, <2>1, <3>1 DEF AddPath, TypeOK
    <3>2. CASE b # a
      <4>1. routes'[b] = routes[b] /\ routes[b] \in Paths
        BY <1>1, <3>2 DEF AddPath, TypeOK
      <4>2. phase[routes[b]] = "live" /\ remote[routes[b]] = b
        BY <4>1 DEF RouteInv, RoutesAreLive
      <4>3. routes[b] # count + 1
        BY <2>1, <4>2
      <4> QED BY <1>1, <2>1, <4>1, <4>2, <4>3 DEF AddPath, TypeOK
    <3> QED BY <3>1, <3>2
  <2>3. NewestPathRouted'
    <3> SUFFICES ASSUME NEW p \in Paths, phase'[p] = "live", Newest(p)'
                 PROVE  routes'[remote'[p]] = p
      BY DEF NewestPathRouted
    <3>1. CASE p = count + 1
      BY <1>1, <2>1, <3>1 DEF AddPath, TypeOK
    <3>2. CASE p # count + 1
      <4>1. phase[p] = "live" /\ remote'[p] = remote[p] /\ p <= count
        BY <1>1, <2>1, <3>2 DEF AddPath, TypeOK
      <4>2. remote'[count + 1] = a /\ remote'[count + 1] # remote'[p]
        BY <1>1, <2>1, <4>1 DEF Newest, AddPath, TypeOK
      <4>3. Newest(p)
        BY <1>1, <2>1, <4>1 DEF Newest, AddPath, TypeOK
      <4>4. routes[remote[p]] = p
        BY <1>1, <4>1, <4>3 DEF RouteInv, NewestPathRouted, AddPath
      <4> QED BY <1>1, <4>1, <4>2, <4>4 DEF AddPath, TypeOK
    <3> QED BY <3>1, <3>2
  <2> QED BY <1>1, <2>2, <2>3 DEF RouteInv, AddPath
<1>2. ASSUME NEW p \in Paths, DropPath(p) PROVE RouteInv'
  <2>1. remote[p] \in Addrs
    BY <1>2 DEF DropPath, TypeOK
  <2>2. \A b \in Addrs : routes'[b] # NoPath => routes'[b] = routes[b] /\ routes[b] # p
    <3> SUFFICES ASSUME NEW b \in Addrs, routes'[b] # NoPath
                 PROVE  routes'[b] = routes[b] /\ routes[b] # p
      OBVIOUS
    <3>1. routes'[b] = routes[b]
      BY <1>2, <2>1 DEF DropPath, TypeOK
    <3>2. socket = "open"
      BY <3>1 DEF RouteInv, TypeOK
    <3>3. ASSUME routes[b] = p PROVE FALSE
      <4>1. remote[p] = b
        BY <3>1, <3>3 DEF RouteInv, RoutesAreLive
      <4> QED BY <1>2, <2>1, <3>2, <3>3, <4>1 DEF DropPath, OwnsRoute, TypeOK
    <3> QED BY <3>1, <3>3
  <2>3. RoutesAreLive'
    BY <1>2, <2>2 DEF RouteInv, RoutesAreLive, DropPath, TypeOK
  <2>4. NewestPathRouted'
    <3> SUFFICES ASSUME socket = "open", NEW q \in Paths, phase'[q] = "live", Newest(q)'
                 PROVE  routes'[remote'[q]] = q
      BY <1>2 DEF NewestPathRouted, DropPath
    <3>1. q # p /\ phase[q] = "live" /\ Newest(q)
      BY <1>2 DEF DropPath, TypeOK, Newest
    <3>2. routes[remote[q]] = q /\ remote[q] \in Addrs
      BY <3>1 DEF RouteInv, NewestPathRouted, TypeOK
    <3> QED BY <1>2, <2>1, <3>1, <3>2 DEF DropPath, OwnsRoute, TypeOK
  <2> QED BY <1>2, <2>1, <2>3, <2>4 DEF RouteInv, DropPath, TypeOK
<1>3. ASSUME NEW p \in Paths, DropFields(p) PROVE RouteInv'
  <2>1. RoutesAreLive'
    BY <1>3 DEF RouteInv, RoutesAreLive, DropFields, TypeOK
  <2>2. NewestPathRouted'
    BY <1>3 DEF RouteInv, NewestPathRouted, Newest, DropFields, TypeOK
  <2> QED BY <1>3, <2>1, <2>2 DEF RouteInv, DropFields
<1>4. ASSUME DropSocket PROVE RouteInv'
  BY <1>4 DEF RouteInv, RoutesAreLive, NewestPathRouted, DropSocket, TypeOK
<1>5. ASSUME UNCHANGED <<socket, routes, count, phase, remote>> PROVE RouteInv'
  BY <1>5 DEF RouteInv, RoutesAreLive, NewestPathRouted, Newest
<1> QED
  BY <1>1, <1>2, <1>3, <1>4, <1>5, Zenon
     DEF Next, PathStep, udpVars, TryReceive, NextOutgoing, TrySend, Push, PollRecv

\* try_send always looks up a live path at the right address, and the newest
\* path of an address keeps its route until it is dropped itself.
THEOREM RoutesCorrect == Spec => [](RoutesAreLive /\ NewestPathRouted)
<1>1. Init => RouteInv
  BY DEF Init, RouteInv, RoutesAreLive, NewestPathRouted
<1>2. RouteInv => RoutesAreLive /\ NewestPathRouted
  BY DEF RouteInv
<1> QED BY <1>1, <1>2, TypeCorrect, NextRouteInv, PTL DEF Spec

\* A path dropped late spares its successor's route, for any number of paths.
THEOREM NewestPathCorrect == Spec => []NewestPathRouted
BY RoutesCorrect, PTL

(***************************************************************************)
(* Delivery.  NoMisdelivery needs two more facts: a thread between the     *)
(* halves of try_send holds the channel of a path at the datagram's        *)
(* destination, and a path that was never added has an empty queue.        *)
(***************************************************************************)
CallsMatch ==
  \A s \in Senders : call[s].busy /\ call[s].route # NoPath =>
    call[s].route <= count /\ remote[call[s].route] = call[s].dest

DeliveryInv ==
  /\ NoMisdelivery
  /\ CallsMatch
  /\ \A p \in Paths : phase[p] = "unused" => outgoing[p] = <<>>

\* No step queues a datagram on a path at another address, whatever was
\* added, dropped or replaced between the lookup and the push.
LEMMA NextDeliveryInv ==
  TypeOK /\ RouteInv /\ DeliveryInv /\ [Next]_udpVars => DeliveryInv'
<1> SUFFICES ASSUME TypeOK, RouteInv, DeliveryInv, [Next]_udpVars PROVE DeliveryInv'
  OBVIOUS
<1> USE ConstantsAssumption DEF Paths, NoPath, NoAddr
<1>1. ASSUME NEW a \in Addrs, AddPath(a) PROVE DeliveryInv'
  <2>1. count + 1 \in Paths /\ outgoing[count + 1] = <<>> /\ count \in Nat
    BY <1>1 DEF AddPath, TypeOK, DeliveryInv
  <2>2. NoMisdelivery'
    <3> SUFFICES ASSUME NEW p \in Paths, NEW i \in 1..Len(outgoing[p])
                 PROVE  outgoing[p][i].dest = remote'[p]
      BY <1>1 DEF NoMisdelivery, AddPath
    <3>1. p # count + 1
      <4> SUFFICES ASSUME p = count + 1 PROVE FALSE
        OBVIOUS
      <4>1. i \in 1..Len(<<>>)
        BY <2>1
      <4> QED BY <4>1, SMT
    <3>2. remote'[p] = remote[p]
      BY <1>1, <3>1 DEF AddPath, TypeOK
    <3> QED BY <3>2 DEF DeliveryInv, NoMisdelivery
  <2>3. CallsMatch'
    <3> SUFFICES ASSUME NEW s \in Senders, call[s].busy, call[s].route # NoPath
                 PROVE  call[s].route <= count' /\ remote'[call[s].route] = call[s].dest
      BY <1>1 DEF CallsMatch, AddPath
    <3>1. call[s] \in Call
      BY DEF TypeOK, Idle
    <3>2. call[s].route \in Paths
      BY <3>1, Zenon DEF Call
    <3>3. call[s].route <= count /\ remote[call[s].route] = call[s].dest
      BY DEF DeliveryInv, CallsMatch
    <3>4. call[s].route # count + 1 /\ call[s].route <= count + 1
      BY <2>1, <3>2, <3>3
    <3>5. remote'[call[s].route] = remote[call[s].route]
      BY <1>1, <3>2, <3>4 DEF AddPath, TypeOK
    <3> QED BY <1>1, <3>3, <3>4, <3>5 DEF AddPath
  <2>4. \A p \in Paths : phase'[p] = "unused" => outgoing'[p] = <<>>
    BY <1>1, <2>1 DEF AddPath, TypeOK, DeliveryInv
  <2> QED BY <2>2, <2>3, <2>4 DEF DeliveryInv
<1>2. ASSUME NEW p \in Paths, NextOutgoing(p) PROVE DeliveryInv'
  <2>1. /\ Len(Tail(outgoing[p])) = Len(outgoing[p]) - 1
        /\ Len(outgoing[p]) \in Nat
        /\ \A i \in 1..Len(Tail(outgoing[p])) : Tail(outgoing[p])[i] = outgoing[p][i + 1]
    BY <1>2, TailWithinCap DEF NextOutgoing, TypeOK
  <2>2. ASSUME NEW q \in Paths, NEW i \in 1..Len(outgoing'[q])
        PROVE  outgoing'[q][i].dest = remote'[q]
    <3>1. CASE q = p
      <4>1. outgoing'[q] = Tail(outgoing[p])
        BY <1>2, <3>1 DEF NextOutgoing, TypeOK
      <4>2. i + 1 \in 1..Len(outgoing[p]) /\ outgoing'[q][i] = outgoing[p][i + 1]
        BY <2>1, <2>2, <4>1
      <4>3. outgoing[p][i + 1].dest = remote[p]
        BY <4>2 DEF DeliveryInv, NoMisdelivery
      <4> QED BY <1>2, <3>1, <4>2, <4>3 DEF NextOutgoing
    <3>2. CASE q # p
      BY <1>2, <2>2, <3>2 DEF NextOutgoing, TypeOK, DeliveryInv, NoMisdelivery
    <3> QED BY <3>1, <3>2
  <2>3. NoMisdelivery'
    BY <2>2 DEF NoMisdelivery
  <2>4. CallsMatch'
    BY <1>2 DEF DeliveryInv, CallsMatch, NextOutgoing
  <2>5. \A q \in Paths : phase'[q] = "unused" => outgoing'[q] = <<>>
    BY <1>2 DEF NextOutgoing, TypeOK, DeliveryInv
  <2> QED BY <2>3, <2>4, <2>5 DEF DeliveryInv
<1>3. ASSUME NEW p \in Paths, DropPath(p) PROVE DeliveryInv'
  <2>1. NoMisdelivery' /\ CallsMatch'
    BY <1>3 DEF DeliveryInv, NoMisdelivery, CallsMatch, DropPath
  <2>2. \A q \in Paths : phase'[q] = "unused" => outgoing'[q] = <<>>
    BY <1>3 DEF DropPath, TypeOK, DeliveryInv
  <2> QED BY <2>1, <2>2 DEF DeliveryInv
<1>4. ASSUME NEW p \in Paths, DropFields(p) PROVE DeliveryInv'
  <2>1. NoMisdelivery'
    BY <1>4, EmptyWithinCap DEF DeliveryInv, NoMisdelivery, DropFields, TypeOK
  <2>2. CallsMatch'
    BY <1>4 DEF DeliveryInv, CallsMatch, DropFields
  <2>3. \A q \in Paths : phase'[q] = "unused" => outgoing'[q] = <<>>
    BY <1>4 DEF DropFields, TypeOK, DeliveryInv
  <2> QED BY <2>1, <2>2, <2>3 DEF DeliveryInv
<1>5. ASSUME NEW s \in Senders, NEW a \in Addrs, NEW n \in Lengths, TrySend(s, a, n)
      PROVE DeliveryInv'
  <2> DEFINE c == [busy |-> TRUE, dest |-> a, len |-> n, route |-> routes[a]]
  <2>1. call' = call \/ call' = [call EXCEPT ![s] = c]
    BY <1>5 DEF TrySend
  <2>2. routes[a] # NoPath => routes[a] <= count /\ remote[routes[a]] = a
    BY DEF RouteInv, RoutesAreLive, TypeOK
  <2>3. CallsMatch'
    <3> SUFFICES ASSUME NEW t \in Senders, call'[t].busy, call'[t].route # NoPath
                 PROVE  call'[t].route <= count /\ remote[call'[t].route] = call'[t].dest
      BY <1>5 DEF CallsMatch, TrySend
    <3>1. CASE call'[t] = call[t]
      BY <3>1 DEF DeliveryInv, CallsMatch
    <3>2. CASE call'[t] = c
      BY <2>2, <3>2
    <3> HIDE DEF c
    <3> QED BY <2>1, <3>1, <3>2 DEF TypeOK
  <2>4. NoMisdelivery' /\ \A q \in Paths : phase'[q] = "unused" => outgoing'[q] = <<>>
    BY <1>5 DEF DeliveryInv, NoMisdelivery, TrySend
  <2> QED BY <2>3, <2>4 DEF DeliveryInv
<1>6. ASSUME NEW s \in Senders, Push(s) PROVE DeliveryInv'
  <2> DEFINE p == RouteOf(s)
             d == [dest |-> call[s].dest, len |-> call[s].len]
  <2>1. CallsMatch'
    BY <1>6 DEF DeliveryInv, CallsMatch, Push, TypeOK, Idle
  <2>2. call[s] \in Call
    BY <1>6 DEF Push, TypeOK, Idle
  <2>3. CASE p # NoPath /\ Held(p) /\ HasRoom(outgoing[p], OutgoingCap)
    <3>1. p \in Paths /\ outgoing' = [outgoing EXCEPT ![p] = Append(@, d)] /\ d \in Datagram
      BY <1>6, <2>2, <2>3, Zenon DEF Push, Call, RouteOf, Datagram
    <3>2. d.dest = remote[p]
      BY <1>6, <2>3 DEF Push, RouteOf, DeliveryInv, CallsMatch
    <3>3. /\ Len(outgoing[p]) \in Nat
          /\ Len(Append(outgoing[p], d)) = Len(outgoing[p]) + 1
          /\ \A i \in 1..Len(outgoing[p]) : Append(outgoing[p], d)[i] = outgoing[p][i]
          /\ Append(outgoing[p], d)[Len(outgoing[p]) + 1] = d
      BY <2>3, <3>1, AppendWithinCap DEF TypeOK
    <3>4. remote' = remote /\ phase' = phase /\ phase[p] # "unused"
      BY <1>6, <2>3 DEF Push, Held
    <3> HIDE DEF p, d
    <3>5. ASSUME NEW q \in Paths, NEW i \in 1..Len(outgoing'[q])
          PROVE  outgoing'[q][i].dest = remote[q]
      <4>1. CASE q = p
        <5>1. outgoing'[q] = Append(outgoing[p], d)
          BY <3>1, <4>1 DEF TypeOK
        <5>2. CASE i = Len(outgoing[p]) + 1
          BY <3>2, <3>3, <4>1, <5>1, <5>2
        <5>3. CASE i # Len(outgoing[p]) + 1
          <6>1. i \in 1..Len(outgoing[p])
            BY <3>3, <3>5, <5>1, <5>3
          <6> QED BY <3>3, <4>1, <5>1, <6>1 DEF DeliveryInv, NoMisdelivery
        <5> QED BY <5>2, <5>3
      <4>2. CASE q # p
        BY <3>1, <3>5, <4>2 DEF TypeOK, DeliveryInv, NoMisdelivery
      <4> QED BY <4>1, <4>2
    <3>6. NoMisdelivery'
      BY <3>4, <3>5 DEF NoMisdelivery
    <3>7. \A q \in Paths : phase'[q] = "unused" => outgoing'[q] = <<>>
      BY <3>1, <3>4 DEF DeliveryInv, TypeOK
    <3> QED BY <2>1, <3>6, <3>7 DEF DeliveryInv
  <2>4. CASE ~(p # NoPath /\ Held(p) /\ HasRoom(outgoing[p], OutgoingCap))
    BY <1>6, <2>1, <2>4 DEF Push, DeliveryInv, NoMisdelivery
  <2> QED BY <2>3, <2>4
<1>7. ASSUME UNCHANGED <<count, phase, remote, outgoing, call>> PROVE DeliveryInv'
  BY <1>7 DEF DeliveryInv, NoMisdelivery, CallsMatch
<1> QED
  BY <1>1, <1>2, <1>3, <1>4, <1>5, <1>6, <1>7, Zenon
     DEF Next, PathStep, udpVars, TryReceive, PollRecv, DropSocket

\* A datagram is only ever queued on a path that serves its destination,
\* although try_send pushes after it has released the route table.
THEOREM DeliveryCorrect == Spec => []NoMisdelivery
<1>1. Init => RouteInv
  BY DEF Init, RouteInv, RoutesAreLive, NewestPathRouted
<1>2. Init => DeliveryInv
  BY EmptyWithinCap DEF Init, DeliveryInv, NoMisdelivery, CallsMatch, Idle
<1>3. DeliveryInv => NoMisdelivery
  BY DEF DeliveryInv
<1> QED BY <1>1, <1>2, <1>3, TypeCorrect, NextRouteInv, NextDeliveryInv, PTL DEF Spec

(***************************************************************************)
(* Reception.                                                              *)
(***************************************************************************)
ReceptionInv ==
  /\ SocketNeverBreaks
  /\ NothingTruncated
  /\ \A i \in 1..Len(incoming) : incoming[i].len <= Mtu

\* Only datagrams within the MTU are queued, and poll_recv finds either a
\* datagram or an open channel.
LEMMA NextReceptionInv == TypeOK /\ ReceptionInv /\ [Next]_udpVars => ReceptionInv'
<1> SUFFICES ASSUME TypeOK, ReceptionInv, [Next]_udpVars PROVE ReceptionInv'
  OBVIOUS
<1> USE ConstantsAssumption DEF Paths
<1>1. ASSUME NEW p \in Paths, NEW n \in Lengths, TryReceive(p, n) PROVE ReceptionInv'
  <2> DEFINE d == [remote |-> remote[p], len |-> n]
  <2>1. CASE TryReceiveResult(n) = "Ok"
    <3>1. HasRoom(incoming, IncomingCap) /\ d.len <= Mtu
      BY <2>1 DEF TryReceiveResult, Oversize
    <3>2. d \in Received
      <4>1. remote[p] \in Addrs
        BY <1>1 DEF TryReceive, TypeOK
      <4> QED BY <4>1 DEF Received
    <3>3. incoming' = Append(incoming, d)
      BY <1>1, <2>1 DEF TryReceive
    <3> HIDE DEF d
    <3>4. \A i \in 1..Len(incoming') : incoming'[i].len <= Mtu
      <4>1. /\ Len(incoming) \in Nat
            /\ Len(incoming') = Len(incoming) + 1
            /\ \A i \in 1..Len(incoming) : incoming'[i] = incoming[i]
            /\ incoming'[Len(incoming) + 1] = d
        BY <3>1, <3>2, <3>3, AppendWithinCap DEF TypeOK
      <4> QED BY <3>1, <4>1 DEF ReceptionInv
    <3> QED BY <1>1, <3>4, Zenon DEF ReceptionInv, SocketNeverBreaks, NothingTruncated, TryReceive
  <2>2. CASE TryReceiveResult(n) # "Ok"
    BY <1>1, <2>2 DEF ReceptionInv, SocketNeverBreaks, NothingTruncated, TryReceive
  <2> QED BY <2>1, <2>2
<1>2. ASSUME PollRecv PROVE ReceptionInv'
  <2>1. NoPath \in IncomingSenders
    BY <1>2 DEF PollRecv, IncomingSenders
  <2>2. incoming # <<>>
    BY <1>2, <2>1 DEF PollRecv
  <2>3. /\ Head(incoming) = incoming[1]
        /\ Len(incoming) \in Nat /\ Len(incoming) >= 1
        /\ Len(Tail(incoming)) = Len(incoming) - 1
        /\ \A i \in 1..Len(Tail(incoming)) : Tail(incoming)[i] = incoming[i + 1]
        /\ Head(incoming) \in Received
    BY <2>2, TailWithinCap DEF TypeOK
  <2>4. Head(incoming).len \in Nat /\ Head(incoming).len <= Mtu
    <3>1. Head(incoming).len \in Lengths
      BY <2>3 DEF Received
    <3>2. 1 \in 1..Len(incoming)
      BY <2>3
    <3> QED BY <2>3, <3>1, <3>2, Zenon DEF ReceptionInv
  <2>5. NothingTruncated'
    BY <1>2, <2>2, <2>4 DEF PollRecv, NothingTruncated
  <2>6. \A i \in 1..Len(incoming') : incoming'[i].len <= Mtu
    BY <1>2, <2>2, <2>3 DEF PollRecv, ReceptionInv
  <2> QED BY <1>2, <2>2, <2>5, <2>6 DEF PollRecv, ReceptionInv, SocketNeverBreaks
<1>3. ASSUME NEW s \in Senders, NEW a \in Addrs, NEW n \in Lengths, TrySend(s, a, n)
      PROVE ReceptionInv'
  BY <1>3 DEF TrySend, ReceptionInv, SocketNeverBreaks, NothingTruncated
<1>4. ASSUME DropSocket PROVE ReceptionInv'
  BY <1>4, EmptyWithinCap DEF DropSocket, ReceptionInv, SocketNeverBreaks, NothingTruncated
<1>5. ASSUME UNCHANGED <<incoming, polled, errors>> PROVE ReceptionInv'
  BY <1>5 DEF ReceptionInv, SocketNeverBreaks, NothingTruncated
<1> QED
  BY <1>1, <1>2, <1>3, <1>4, <1>5, Zenon
     DEF Next, PathStep, udpVars, AddPath, NextOutgoing, DropPath, DropFields, Push

\* Quinn never sees its socket fail and never receives part of a datagram,
\* however many paths come and go.
THEOREM ReceptionCorrect == Spec => [](SocketNeverBreaks /\ NothingTruncated)
<1>1. Init => ReceptionInv
  BY EmptyWithinCap DEF Init, ReceptionInv, SocketNeverBreaks, NothingTruncated, NoDatagram
<1>2. ReceptionInv => SocketNeverBreaks /\ NothingTruncated
  BY DEF ReceptionInv
<1> QED BY <1>1, <1>2, TypeCorrect, NextReceptionInv, PTL DEF Spec

\* The MTU test of try_receive is enough to keep poll_recv from cutting a
\* datagram, for any MTU within Quinn's buffer.
THEOREM TruncationCorrect == Spec => []NothingTruncated
BY ReceptionCorrect, PTL

(***************************************************************************)
(* Refinement.  Every step of the socket is a step of the unreliable       *)
(* datagram service under the mapping of VirtualUdp, or changes nothing    *)
(* the service can see.                                                    *)
(***************************************************************************)

\* Every step of add_path, try_receive, try_send, poll_recv and the drops is
\* a step of the datagram service or invisible to it.
LEMMA ServiceSimulation ==
  TypeOK /\ DeliveryInv /\ [Next]_udpVars
    => [Service!ServiceNext]_(Service!serviceVars)
<1> SUFFICES ASSUME TypeOK, DeliveryInv, [Next]_udpVars
             PROVE  Service!ServiceNext \/ UNCHANGED Service!serviceVars
  OBVIOUS
<1> USE ConstantsAssumption DEF Paths, NoPath, NoAddr
<1>0. ASSUME UNCHANGED <<phase, remote>> PROVE UNCHANGED ServedAddr
  BY <1>0 DEF ServedAddr, Held
<1>1. ASSUME NEW a \in Addrs, AddPath(a) PROVE Service!ServiceNext
  <2>1. count + 1 \in Paths /\ phase[count + 1] = "unused"
    BY <1>1 DEF AddPath, TypeOK
  <2>2. Service!Open(count + 1, a)
    BY <1>1, <2>1, Zenon DEF Service!Open, AddPath, TypeOK, ServedAddr, Held, InFlight
  <2> QED BY <2>1, <2>2 DEF Service!ServiceNext
<1>2. ASSUME NEW p \in Paths, NEW n \in Lengths, TryReceive(p, n)
      PROVE  Service!ServiceNext \/ UNCHANGED Service!serviceVars
  <2>0. UNCHANGED ServedAddr /\ UNCHANGED InFlight
    BY <1>0, <1>2 DEF TryReceive, InFlight
  <2>1. CASE TryReceiveResult(n) = "Ok"
    <3>1. ServedAddr[p] = remote[p] /\ remote[p] \in Addrs
      BY <1>2 DEF TryReceive, TypeOK, ServedAddr, Held
    <3>2. Service!Arrive(p, n)
      BY <1>2, <2>0, <2>1, <3>1 DEF Service!Arrive, TryReceive
    <3> QED BY <3>2 DEF Service!ServiceNext
  <2>2. CASE TryReceiveResult(n) # "Ok"
    BY <1>2, <2>0, <2>2 DEF TryReceive, Service!serviceVars
  <2> QED BY <2>1, <2>2
<1>3. ASSUME NEW p \in Paths, NextOutgoing(p) PROVE Service!ServiceNext
  <2>1. Service!Deliver(p)
    BY <1>0, <1>3 DEF NextOutgoing, Service!Deliver, InFlight
  <2> QED BY <2>1 DEF Service!ServiceNext
<1>4. ASSUME NEW p \in Paths, DropPath(p) PROVE UNCHANGED Service!serviceVars
  BY <1>4 DEF DropPath, Service!serviceVars, ServedAddr, InFlight, Held, TypeOK
<1>5. ASSUME NEW p \in Paths, DropFields(p) PROVE Service!ServiceNext
  <2>1. Service!Close(p)
    BY <1>5, Zenon DEF DropFields, Service!Close, ServedAddr, InFlight, Held, TypeOK
  <2> QED BY <2>1 DEF Service!ServiceNext
<1>6. ASSUME NEW s \in Senders, NEW a \in Addrs, NEW n \in Lengths, TrySend(s, a, n)
      PROVE  Service!ServiceNext \/ UNCHANGED Service!serviceVars
  <2>0. UNCHANGED ServedAddr
    BY <1>0, <1>6 DEF TrySend
  <2>1. CASE Oversize(n)
    BY <1>6, <2>0, <2>1 DEF TrySend, Service!serviceVars, InFlight
  <2>2. CASE ~Oversize(n)
    <3>1. InFlight[s] = {}
      BY <1>6 DEF TrySend, InFlight
    <3>2. InFlight' = [InFlight EXCEPT ![s] = {[dest |-> a, len |-> n]}]
      <4>1. call' = [call EXCEPT ![s] = [busy |-> TRUE, dest |-> a, len |-> n,
                                         route |-> routes[a]]]
        BY <1>6, <2>2 DEF TrySend
      <4>2. /\ call'[s].busy /\ call'[s].dest = a /\ call'[s].len = n
            /\ \A t \in Senders : t # s => call'[t] = call[t]
        BY <4>1 DEF TypeOK
      <4> QED BY <4>2, Zenon DEF InFlight
    <3>3. Service!Submit(s, a, n)
      BY <1>6, <2>0, <3>1, <3>2 DEF TrySend, Service!Submit
    <3> QED BY <3>3 DEF Service!ServiceNext
  <2> QED BY <2>1, <2>2
<1>7. ASSUME NEW s \in Senders, Push(s) PROVE Service!ServiceNext
  <2> DEFINE p == RouteOf(s)
             d == [dest |-> call[s].dest, len |-> call[s].len]
  <2>0. UNCHANGED ServedAddr
    BY <1>0, <1>7 DEF Push
  <2>1. InFlight[s] = {d}
    BY <1>7 DEF Push, InFlight
  <2>2. InFlight' = [InFlight EXCEPT ![s] = {}]
    BY <1>7, Zenon DEF Push, InFlight, TypeOK, Idle
  <2>3. call[s] \in Call
    BY <1>7 DEF Push, TypeOK, Idle
  <2>4. UNCHANGED outgoing \/ \E q \in Paths : /\ ServedAddr[q] = d.dest
                                               /\ outgoing' = [outgoing EXCEPT ![q] = Append(@, d)]
    <3>1. CASE p # NoPath /\ Held(p) /\ HasRoom(outgoing[p], OutgoingCap)
      <4>1. p \in Paths /\ outgoing' = [outgoing EXCEPT ![p] = Append(@, d)]
        BY <1>7, <2>3, <3>1, Zenon DEF Push, Call, RouteOf
      <4>2. ServedAddr[p] = d.dest
        BY <1>7, <3>1, <4>1 DEF Push, RouteOf, DeliveryInv, CallsMatch, ServedAddr
      <4> QED BY <4>1, <4>2, Zenon
    <3>2. CASE ~(p # NoPath /\ Held(p) /\ HasRoom(outgoing[p], OutgoingCap))
      BY <1>7, <3>2, Zenon DEF Push
    <3> QED BY <3>1, <3>2
  <2>5. Service!Settle(s)
    <3> HIDE DEF d
    <3> QED BY <1>7, <2>0, <2>1, <2>2, <2>4, Zenon DEF Push, Service!Settle
  <2> QED BY <2>5 DEF Service!ServiceNext
<1>8. ASSUME PollRecv PROVE Service!ServiceNext \/ UNCHANGED Service!serviceVars
  <2>0. UNCHANGED ServedAddr /\ UNCHANGED InFlight
    BY <1>0, <1>8 DEF PollRecv, InFlight
  <2>1. CASE incoming # <<>>
    BY <1>8, <2>0, <2>1 DEF PollRecv, Service!Take, Service!ServiceNext
  <2>2. CASE incoming = <<>>
    BY <1>8, <2>0, <2>2 DEF PollRecv, Service!serviceVars
  <2> QED BY <2>1, <2>2
<1>9. ASSUME DropSocket PROVE Service!ServiceNext
  <2>1. Service!Shutdown
    BY <1>0, <1>9 DEF DropSocket, Service!Shutdown, InFlight
  <2> QED BY <2>1 DEF Service!ServiceNext
<1>10. CASE UNCHANGED udpVars
  BY <1>0, <1>10 DEF udpVars, Service!serviceVars, InFlight
<1> QED
  BY <1>1, <1>2, <1>3, <1>4, <1>5, <1>6, <1>7, <1>8, <1>9, <1>10 DEF Next, PathStep

\* The virtual UDP socket implements the unreliable datagram service: races
\* between its threads lose datagrams, and do nothing else to them.
THEOREM SocketImplementsService == Spec => ImplementsService
<1>1. Init => RouteInv
  BY DEF Init, RouteInv, RoutesAreLive, NewestPathRouted
<1>2. Init => DeliveryInv
  BY EmptyWithinCap DEF Init, DeliveryInv, NoMisdelivery, CallsMatch, Idle
<1>3. Init => Service!ServiceInit
  BY DEF Init, Service!ServiceInit, ServedAddr, InFlight, Held, Idle
<1> QED
  BY <1>1, <1>2, <1>3, TypeCorrect, NextRouteInv, NextDeliveryInv, ServiceSimulation, PTL
     DEF Spec, ImplementsService, Service!ServiceSpec
=============================================================================
