--------------------------- MODULE ConsumerProofs ---------------------------
(***************************************************************************)
(* Proofs about the consumer.  Every step of the consumer is a step of the  *)
(* virtual UDP socket, so that what VirtualUdpProofs shows of the socket    *)
(* holds in the consumer as well; the sessions of any number of workers,    *)
(* their addresses, routes and sources, the summary they keep and the       *)
(* hang-ups of their peers are followed on top of that.                     *)
(***************************************************************************)
EXTENDS Consumer, VirtualUdpProofs

(***************************************************************************)
(* The inductive invariant.                                                *)
(***************************************************************************)
\* The places of a worker that has a path, and of one that serves it.
Serving == {"path", "sending"}
OnPath == {"path", "sending", "unwind"}
Places == {"loop", "setup", "signal", "ice", "nat", "add", "path", "sending", "unwind", "closing",
           "returned", "sleep", "stopped"}

Events == PeerEvents \cup {DC!ClosedEvent}
Adapters == [queue : Seq(Events), late : BOOLEAN]

\* What the workers hold is well formed.
WorkersOK ==
  /\ pc \in [Workers -> Places]
  /\ addr \in [Workers -> Addrs \cup {NoAddr}]
  /\ path \in [Workers -> Paths \cup {NoPath}]
  /\ source \in [Workers -> SUBSET Sources]
  /\ peer \in [Workers -> Adapters]
  /\ nextHost \in FirstPathHost..CgnatHosts
  /\ fed \in [Paths -> SUBSET Sources]

\* The address at which path p was added has been allocated before, once.
AddressesOK ==
  /\ \A p \in 1..count : remote[p] >= FirstPathHost /\ remote[p] < nextHost
  /\ \A p, q \in 1..count : p # q => remote[p] # remote[q]

\* A worker has a path exactly while it is on it; the path is there, at the
\* address of the attempt, and routed until it is unwound.  An address that
\* waits for its path has not been used.
SessionOK(w) ==
  /\ path[w] # NoPath <=> pc[w] \in OnPath
  /\ pc[w] \in OnPath => path[w] <= count /\ remote[path[w]] = addr[w] /\ Held(path[w])
  /\ pc[w] \in Serving => phase[path[w]] = "live" /\ fed[path[w]] \subseteq source[w]
  /\ pc[w] = "add" => /\ addr[w] >= FirstPathHost /\ addr[w] < nextHost
                      /\ \A p \in 1..count : remote[p] # addr[w]

\* Two workers share neither a path nor an address that waits for one.
Apart(v, w) ==
  /\ path[v] # NoPath => path[v] # path[w]
  /\ pc[v] = "add" /\ pc[w] = "add" => addr[v] # addr[w]

SessionsOK ==
  /\ \A w \in Workers : SessionOK(w)
  /\ \A v, w \in Workers : v # w => Apart(v, w)
  /\ \A p \in Paths : Held(p) => \E w \in Workers : path[w] = p
  /\ socket = "dropped" => MayDropSocket

\* A path that was not added has carried nothing.
SourcesOK ==
  /\ SourcePinned
  /\ \A p \in Paths : p > count => fed[p] = {}

\* An address is only known to Quinn if its path has carried a packet of the
\* egress.
Known == {remote[p] : p \in {q \in 1..count : fed[q] # {}}}

RepliesOK ==
  /\ RepliesOnly
  /\ \A i \in 1..Len(incoming) : incoming[i].remote \in Known
  /\ heard \subseteq Addrs \cap Known
  /\ \A s \in Senders : call[s].busy /\ call[s].route # NoPath => fed[call[s].route] # {}

\* What the socket is known to keep.
SocketOK == TypeOK /\ RouteInv /\ ReceptionInv

ConsumerInv ==
  SocketOK /\ WorkersOK /\ AddressesOK /\ SessionsOK /\ SourcesOK /\ RepliesOK

(***************************************************************************)
(* The pieces.  Zenon proves the leaves that do not name another prover.   *)
(***************************************************************************)
USE Zenon

\* The adapter of a DataChannel keeps its shape through its callbacks and
\* recv_packet.
LEMMA AdapterShape ==
  ASSUME NEW d \in Adapters
  PROVE  /\ DC!NewDatagrams \in Adapters
         /\ \A e \in Events : DC!OnMessage(d, e) \in Adapters
         /\ DC!OnClose(d) \in Adapters
         /\ DC!AfterLateSend(d) \in Adapters
         /\ DC!Ready(d) => DC!RecvPacket(d) \in Events /\ DC!AfterRecv(d) \in Adapters
<1>1. d.queue \in Seq(Events) /\ d.late \in BOOLEAN /\ DC!ClosedEvent \in Events
  BY DEF Adapters, Events
<1>2. DC!NewDatagrams \in Adapters
  BY EmptyWithinCap DEF DC!NewDatagrams, Adapters
<1>3. ASSUME NEW e \in Events
      PROVE  Append(d.queue, e) \in Seq(Events) /\ [d EXCEPT !.queue = Append(@, e)] \in Adapters
  BY <1>1, SMT DEF Adapters
<1>4. [d EXCEPT !.late = TRUE] \in Adapters
  BY DEF Adapters
<1>5. ASSUME DC!Ready(d) PROVE DC!RecvPacket(d) \in Events /\ DC!AfterRecv(d) \in Adapters
  <2>1. Head(d.queue) \in Events /\ Tail(d.queue) \in Seq(Events)
    BY <1>1, <1>5, SMT DEF DC!Ready
  <2>2. [d EXCEPT !.queue = Tail(@)] \in Adapters
    BY <2>1 DEF Adapters
  <2> QED BY <2>1, <2>2 DEF DC!RecvPacket, DC!AfterRecv
<1>6. [queue |-> Append(d.queue, DC!ClosedEvent), late |-> FALSE] \in Adapters
  BY <1>1, <1>3 DEF Adapters
<1> QED BY <1>1, <1>2, <1>3, <1>4, <1>5, <1>6 DEF DC!OnMessage, DC!OnClose, DC!AfterLateSend

\* An event that is a packet has a source and a length.
LEMMA PacketShape ==
  ASSUME NEW e \in Events, e.kind = "packet"
  PROVE  e.src \in Sources /\ e.len \in Lengths
BY SMT DEF Events, PeerEvents, DC!ClosedEvent

\* The addresses of the allocator are addresses of the socket.
LEMMA HostIsAddress ==
  ASSUME NEW host \in Nat, host >= FirstPathHost, host <= CgnatHosts
  PROVE  host \in Addrs
BY ConsumerAssumption, SMT DEF FirstPathHost

-----------------------------------------------------------------------------
\* The paths that were added are paths.
LEMMA CountInRange ==
  ASSUME ConsumerInv
  PROVE  count \in Nat /\ \A p \in 1..count : p \in Paths /\ p <= count /\ remote[p] \in Addrs
<1>1. count \in 0..MaxPaths /\ \A p \in Paths : p <= count => remote[p] \in Addrs
  BY DEF ConsumerInv, SocketOK, TypeOK
<1>2. count \in Nat /\ \A p \in 1..count : p \in Paths /\ p <= count
  BY <1>1, ConstantsAssumption, SMT DEF Paths
<1> QED BY <1>1, <1>2

\* A thread inside try_send holds a path or nothing.
LEMMA RouteShape ==
  ASSUME ConsumerInv, NEW s \in Senders, call[s].busy, call[s].route # NoPath
  PROVE  call[s].route \in Paths
<1>1. call[s] \in Call \/ call[s] = Idle
  BY DEF ConsumerInv, SocketOK, TypeOK
<1>2. call[s] # Idle
  BY SMT DEF Idle
<1>3. call[s].route \in Paths \cup {NoPath}
  BY <1>1, <1>2 DEF Call
<1> QED BY <1>3

\* What a worker that is on a path, and one that is about to be, hands to the
\* socket.
LEMMA TaskArguments ==
  ASSUME ConsumerInv, NEW w \in Workers
  PROVE  /\ pc[w] \in OnPath => path[w] \in Paths /\ path[w] <= count
         /\ pc[w] = "add" => addr[w] \in Addrs
<1>1. SessionOK(w)
  BY DEF ConsumerInv, SessionsOK
<1>2. pc[w] \in OnPath => path[w] \in Paths /\ path[w] <= count
  BY <1>1 DEF ConsumerInv, WorkersOK, SessionOK
<1>3. ASSUME pc[w] = "add" PROVE addr[w] \in Addrs
  <2>1. nextHost \in Nat /\ nextHost <= CgnatHosts
    BY ConsumerAssumption, SMT DEF ConsumerInv, WorkersOK, FirstPathHost
  <2>2. addr[w] \in Nat
    <3>1. addr[w] \in Addrs \cup {NoAddr}
      BY DEF ConsumerInv, WorkersOK
    <3>2. \A a \in Addrs \cup {NoAddr} : a \in Nat
      BY ConstantsAssumption, SMT DEF NoAddr
    <3> QED BY <3>1, <3>2
  <2>3. addr[w] >= FirstPathHost /\ addr[w] < nextHost
    BY <1>1, <1>3 DEF SessionOK
  <2> QED BY <2>1, <2>2, <2>3, HostIsAddress, ConsumerAssumption, SMT
<1> QED BY <1>2, <1>3

\* What a worker takes from its adapter.
LEMMA TaskEvent ==
  ASSUME ConsumerInv, NEW w \in Workers, DC!Ready(peer[w])
  PROVE  /\ DC!RecvPacket(peer[w]) \in Events
         /\ DC!AfterRecv(peer[w]) \in Adapters
<1>1. peer[w] \in Adapters
  BY DEF ConsumerInv, WorkersOK
<1> QED BY <1>1, AdapterShape

\* Every step of the consumer is a step of the socket or leaves it alone:
\* run_consumer_path calls the socket with paths it owns, with addresses the
\* allocator gave out and with the lengths of the packets it received, and
\* Quinn sends to addresses of the socket only.
LEMMA SocketStep == ConsumerInv /\ [ConsumerNext]_vars => [Next]_udpVars
<1> SUFFICES ASSUME ConsumerInv, [ConsumerNext]_vars PROVE Next \/ UNCHANGED udpVars
  OBVIOUS
<1>1. ASSUME NEW w \in Workers, WorkerStep(w) PROVE Next \/ UNCHANGED udpVars
  <2>1. CASE BeginAttempt(w) \/ EndAttempt(w) \/ EndSleep(w) \/ Setup(w)
    BY <2>1 DEF BeginAttempt, EndAttempt, EndSleep, Setup
  <2>2. CASE AwaitChannel(w) \/ CancelSession(w) \/ CloseConnection(w) \/ SendDone(w)
    BY <2>2 DEF AwaitChannel, CancelSession, CloseConnection, SendDone
  <2>3. CASE StartPath(w)
    BY <2>3, TaskArguments DEF StartPath, Next
  <2>4. CASE Unwind(w)
    <3>1. path[w] \in Paths
      BY <2>4, TaskArguments DEF Unwind, OnPath
    <3>2. DropPath(path[w]) \/ DropFields(path[w])
      BY <2>4 DEF Unwind
    <3> QED BY <3>1, <3>2 DEF Next, PathStep
  <2>5. CASE PathRecv(w)
    <3> DEFINE e == DC!RecvPacket(peer[w])
    <3>1. path[w] \in Paths
      BY <2>5, TaskArguments DEF PathRecv, OnPath
    <3>2. e \in Events
      BY <2>5, TaskEvent DEF PathRecv
    <3>3. UNCHANGED udpVars \/ (e.kind = "packet" /\ TryReceive(path[w], e.len))
      BY <2>5 DEF PathRecv
    <3> HIDE DEF e
    <3> QED BY <3>1, <3>2, <3>3, PacketShape DEF Next, PathStep
  <2>6. CASE PathSend(w)
    <3>1. path[w] \in Paths /\ NextOutgoing(path[w])
      BY <2>6, TaskArguments DEF PathSend, OnPath
    <3> QED BY <3>1 DEF Next, PathStep
  <2> QED BY <1>1, <2>1, <2>2, <2>3, <2>4, <2>5, <2>6 DEF WorkerStep
<1>2. ASSUME NEW w \in Workers, Signal(w) \/ Environment(w) PROVE UNCHANGED udpVars
  BY <1>2 DEF Signal, Environment, OnStateChange, OnOpen, OnMessage, OnClose, LateClose, Cancel
<1>3. CASE QuinnRecv
  BY <1>3 DEF QuinnRecv, Next
<1>4. ASSUME NEW s \in Senders, QuinnSend(s) PROVE Next
  <2>1. CASE \E a \in heard, n \in QuinnLengths : TrySend(s, a, n)
    <3>1. PICK a \in heard, n \in QuinnLengths : TrySend(s, a, n)
      BY <2>1
    <3>2. a \in Addrs /\ n \in Lengths
      BY <3>1, ConsumerAssumption DEF ConsumerInv, RepliesOK
    <3> QED BY <3>1, <3>2 DEF Next
  <2>2. CASE Push(s)
    BY <2>2 DEF Next
  <2> QED BY <1>4, <2>1, <2>2 DEF QuinnSend
<1>5. CASE ReleaseSocket
  BY <1>5 DEF ReleaseSocket, Next
<1>6. CASE UNCHANGED vars
  BY <1>6 DEF vars
<1> QED BY <1>1, <1>2, <1>3, <1>4, <1>5, <1>6 DEF ConsumerNext

\* What the socket keeps, it keeps in the consumer.
LEMMA NextSocketOK == ConsumerInv /\ [ConsumerNext]_vars => SocketOK'
BY SocketStep, NextTypeOK, NextRouteInv, NextReceptionInv DEF ConsumerInv, SocketOK

\* The steps that leave the paths, the addresses and the socket alone: they
\* move one worker between places that make no difference to its path.
Moves(w) ==
  \/ pc'[w] = pc[w]
  \/ pc[w] \in Serving /\ pc'[w] \in OnPath
  \/ /\ pc[w] \notin OnPath \cup {"stopped"}
     /\ pc'[w] \notin OnPath \cup {"add"}

Keeps(w) ==
  /\ pc' \in [Workers -> Places] /\ peer' \in [Workers -> Adapters]
  /\ \A v \in Workers : v # w => pc'[v] = pc[v]
  /\ Moves(w)
  /\ UNCHANGED <<udpVars, addr, path, source, nextHost, heard, fed>>

\* The steps around a session and the callbacks of its connection are of that
\* kind.
LEMMA SessionKeeps ==
  ASSUME ConsumerInv, NEW w \in Workers,
         \/ BeginAttempt(w) \/ EndAttempt(w) \/ EndSleep(w) \/ Setup(w) \/ Signal(w)
         \/ CancelSession(w) \/ CloseConnection(w) \/ SendDone(w) \/ Environment(w)
         \/ AwaitChannel(w) /\ UNCHANGED <<addr, nextHost>>
  PROVE  Keeps(w)
<1>0. /\ pc \in [Workers -> Places] /\ peer \in [Workers -> Adapters]
      /\ peer[w] \in Adapters /\ DC!NewDatagrams \in Adapters
  BY AdapterShape DEF ConsumerInv, WorkersOK
<1>1. CASE BeginAttempt(w)
  BY <1>0, <1>1 DEF BeginAttempt, Keeps, Moves, Places, Serving, OnPath
<1>2. CASE EndAttempt(w)
  BY <1>0, <1>2 DEF EndAttempt, Keeps, Moves, Places, Serving, OnPath
<1>3. CASE EndSleep(w)
  BY <1>0, <1>3 DEF EndSleep, Keeps, Moves, Places, Serving, OnPath
<1>4. CASE Setup(w)
  BY <1>0, <1>4, SMT DEF Setup, Keeps, Moves, Places, Serving, OnPath
<1>5. CASE Signal(w)
  BY <1>0, <1>5 DEF Signal, GiveUp, Keeps, Moves, Places, Serving, OnPath
<1>6. CASE CancelSession(w)
  <2>1. path[w] = NoPath => pc[w] \notin OnPath
    BY DEF ConsumerInv, SessionsOK, SessionOK
  <2>2. path[w] # NoPath => pc[w] \in OnPath
    BY DEF ConsumerInv, SessionsOK, SessionOK
  <2> QED BY <1>0, <1>6, <2>1, <2>2
          DEF CancelSession, Cancellable, Keeps, Moves, Places, Serving, OnPath
<1>7. CASE CloseConnection(w)
  BY <1>0, <1>7 DEF CloseConnection, Keeps, Moves, Places, Serving, OnPath
<1>8. CASE SendDone(w)
  BY <1>0, <1>8 DEF SendDone, Keeps, Moves, Places, Serving, OnPath
<1>9. CASE Environment(w)
  <2>1. \A e \in PeerEvents : DC!OnMessage(peer[w], e) \in Adapters
    BY <1>0, AdapterShape DEF Events
  <2>2. DC!OnClose(peer[w]) \in Adapters /\ DC!AfterLateSend(peer[w]) \in Adapters
    BY <1>0, AdapterShape
  <2>3. ASSUME NEW e \in PeerEvents, OnMessage(w, e) PROVE peer' \in [Workers -> Adapters]
    BY <1>0, <2>1, <2>3 DEF OnMessage
  <2>4. ASSUME OnClose(w) \/ LateClose(w) PROVE peer' \in [Workers -> Adapters]
    BY <1>0, <2>2, <2>4 DEF OnClose, LateClose
  <2>5. peer' \in [Workers -> Adapters]
    BY <1>0, <1>9, <2>3, <2>4 DEF Environment, OnStateChange, OnOpen, Cancel, sessionVars
  <2>6. UNCHANGED <<udpVars, pc, addr, path, source, nextHost, heard, fed>>
    BY <1>9 DEF Environment, OnStateChange, OnOpen, OnMessage, OnClose, LateClose, Cancel, sessionVars
  <2> QED BY <1>0, <2>5, <2>6 DEF Keeps, Moves
<1>10. CASE AwaitChannel(w) /\ UNCHANGED <<addr, nextHost>>
  <2>1. pc' = [pc EXCEPT ![w] = "closing"] \/ pc' = [pc EXCEPT ![w] = "add"]
    BY <1>10 DEF AwaitChannel, GiveUp
  <2>2. pc' # [pc EXCEPT ![w] = "add"]
    <3>1. nextHost + 1 # nextHost
      BY ConsumerAssumption, SMT DEF ConsumerInv, WorkersOK, FirstPathHost
    <3>2. pc' = [pc EXCEPT ![w] = "closing"]
      BY <1>10, <3>1 DEF AwaitChannel, GiveUp, NextAfter
    <3> QED BY <1>0, <3>2
  <2> QED BY <1>0, <1>10, <2>1, <2>2 DEF AwaitChannel, Keeps, Moves, Places, Serving, OnPath
<1> QED BY <1>1, <1>2, <1>3, <1>4, <1>5, <1>6, <1>7, <1>8, <1>9, <1>10

\* They keep the invariant, apart from what the socket keeps by itself.
OwnInv == WorkersOK /\ AddressesOK /\ SessionsOK /\ SourcesOK /\ RepliesOK

LEMMA KeepsInv ==
  ASSUME ConsumerInv, NEW w \in Workers, Keeps(w)
  PROVE  OwnInv'
<1>1. UNCHANGED <<socket, routes, incoming, count, phase, remote, outgoing, call, addr, path,
                  source, nextHost, heard, fed>>
  BY DEF Keeps, udpVars
<1>2. WorkersOK' /\ AddressesOK' /\ SourcesOK'
  BY <1>1, SMT DEF ConsumerInv, Keeps, WorkersOK, AddressesOK, SourcesOK, SourcePinned
<1>3. RepliesOK'
  BY <1>1 DEF ConsumerInv, RepliesOK, RepliesOnly, Known
<1>4. ASSUME NEW v \in Workers PROVE SessionOK(v)'
  <2>1. SessionOK(v)
    BY DEF ConsumerInv, SessionsOK
  <2>2. CASE pc'[v] = pc[v]
    BY <1>1, <2>1, <2>2 DEF SessionOK, Held
  <2>3. CASE pc'[v] # pc[v]
    <3>1. \/ pc[v] \in Serving /\ pc'[v] \in OnPath
          \/ pc[v] \notin OnPath /\ pc'[v] \notin OnPath \cup {"add"}
      BY <2>3 DEF Keeps, Moves
    <3>2. CASE pc[v] \in Serving /\ pc'[v] \in OnPath
      BY <1>1, <2>1, <3>2 DEF SessionOK, Held, Serving, OnPath
    <3>3. CASE pc[v] \notin OnPath /\ pc'[v] \notin OnPath \cup {"add"}
      BY <1>1, <2>1, <3>3 DEF SessionOK, Held, Serving, OnPath
    <3> QED BY <3>1, <3>2, <3>3
  <2> QED BY <2>2, <2>3
<1>5. ASSUME NEW u \in Workers, NEW v \in Workers, u # v PROVE Apart(u, v)'
  <2>1. Apart(u, v)
    BY <1>5 DEF ConsumerInv, SessionsOK
  <2>2. (pc'[u] = "add" => pc[u] = "add") /\ (pc'[v] = "add" => pc[v] = "add")
    BY DEF Keeps, Moves, OnPath
  <2> QED BY <1>1, <2>1, <2>2 DEF Apart
<1>6. \A p \in Paths : Held(p)' => \E v \in Workers : path'[v] = p
  BY <1>1 DEF ConsumerInv, SessionsOK, Held
<1>7. socket' = "dropped" => MayDropSocket'
  <2> SUFFICES ASSUME socket = "dropped", NEW v \in Workers PROVE pc'[v] = "stopped"
    BY <1>1 DEF MayDropSocket
  <2>1. pc[v] = "stopped"
    BY DEF ConsumerInv, SessionsOK, MayDropSocket
  <2> QED BY <2>1 DEF Keeps, Moves, Serving
<1> QED BY <1>2, <1>3, <1>4, <1>5, <1>6, <1>7 DEF OwnInv, SessionsOK

-----------------------------------------------------------------------------
\* The steps that change a path, an address or the socket.

\* allocate gives the worker an address nobody has had before.
LEMMA AllocateStep ==
  ASSUME ConsumerInv, NEW w \in Workers, AwaitChannel(w), ~UNCHANGED <<addr, nextHost>>
  PROVE  OwnInv'
<1>0. /\ pc[w] = "nat" /\ HostLeft(nextHost)
      /\ addr' = [addr EXCEPT ![w] = nextHost]
      /\ nextHost' = nextHost + 1
      /\ pc' = [pc EXCEPT ![w] = "add"]
      /\ UNCHANGED <<udpVars, peer, path, source, heard, fed>>
  BY DEF AwaitChannel, NextAfter
<1>1. UNCHANGED <<socket, routes, incoming, count, phase, remote, outgoing, call>>
  BY <1>0 DEF udpVars
<1>2. nextHost \in Nat /\ nextHost >= FirstPathHost /\ nextHost < CgnatHosts
  BY <1>0, ConsumerAssumption, SMT DEF ConsumerInv, WorkersOK, HostLeft, FirstPathHost
<1>3. nextHost \in Addrs /\ nextHost' \in FirstPathHost..CgnatHosts
  BY <1>0, <1>2, HostIsAddress, ConsumerAssumption, SMT DEF FirstPathHost
<1>4. WorkersOK'
  BY <1>0, <1>3 DEF ConsumerInv, WorkersOK, Places
<1>5. \A p \in 1..count : remote[p] \in Nat
  <2>1. \A p \in 1..count : p \in Paths /\ p <= count
    BY ConstantsAssumption, SMT DEF ConsumerInv, SocketOK, TypeOK, Paths
  <2>2. \A p \in 1..count : remote[p] \in Addrs
    BY <2>1 DEF ConsumerInv, SocketOK, TypeOK
  <2> QED BY <2>2, ConstantsAssumption
<1>6. AddressesOK'
  BY <1>0, <1>1, <1>2, <1>5, SMT DEF ConsumerInv, AddressesOK, FirstPathHost
<1>7. SourcesOK' /\ RepliesOK'
  <2>1. SourcesOK'
    BY <1>0, <1>1 DEF ConsumerInv, SourcesOK, SourcePinned
  <2>2. Known' = Known
    BY <1>0, <1>1 DEF Known
  <2>3. RepliesOK'
    BY <1>0, <1>1, <2>2 DEF ConsumerInv, RepliesOK, RepliesOnly
  <2> QED BY <2>1, <2>3
<1>8. \A v \in Workers : v # w => pc'[v] = pc[v] /\ addr'[v] = addr[v]
  BY <1>0 DEF ConsumerInv, WorkersOK
<1>9. pc'[w] = "add" /\ addr'[w] = nextHost /\ path[w] = NoPath
  <2>1. SessionOK(w)
    BY DEF ConsumerInv, SessionsOK
  <2> QED BY <1>0, <2>1 DEF ConsumerInv, WorkersOK, SessionOK, OnPath
<1>10. ASSUME NEW v \in Workers PROVE SessionOK(v)'
  <2>1. SessionOK(v)
    BY DEF ConsumerInv, SessionsOK
  <2>2. CASE v = w
    <3>1. \A p \in 1..count : remote[p] # nextHost
      BY <1>2, <1>5, SMT DEF ConsumerInv, AddressesOK
    <3> QED BY <1>0, <1>1, <1>2, <1>9, <2>2, <3>1, SMT DEF SessionOK, Serving, OnPath
  <2>3. CASE v # w
    <3>1. /\ path[v] # NoPath <=> pc[v] \in OnPath
          /\ pc[v] \in OnPath => path[v] <= count /\ remote[path[v]] = addr[v] /\ Held(path[v])
          /\ pc[v] \in Serving => phase[path[v]] = "live" /\ fed[path[v]] \subseteq source[v]
      BY <2>1 DEF SessionOK
    <3>2. ASSUME pc[v] = "add" PROVE /\ addr[v] >= FirstPathHost /\ addr[v] < nextHost + 1
                                     /\ \A p \in 1..count : remote[p] # addr[v]
      <4>1. addr[v] \in Nat
        BY <3>2, TaskArguments, ConstantsAssumption
      <4> QED BY <1>2, <2>1, <3>2, <4>1, SMT DEF SessionOK, FirstPathHost
    <3> QED BY <1>0, <1>1, <1>8, <2>3, <3>1, <3>2 DEF SessionOK, Held
  <2> QED BY <2>2, <2>3
<1>11. ASSUME NEW v \in Workers, v # w, pc[v] = "add" PROVE addr[v] # nextHost
  <2>1. addr[v] \in Nat /\ addr[v] < nextHost
    BY <1>11, TaskArguments, ConstantsAssumption DEF ConsumerInv, SessionsOK, SessionOK
  <2> QED BY <1>2, <2>1, SMT
<1>12. ASSUME NEW u \in Workers, NEW v \in Workers, u # v PROVE Apart(u, v)'
  <2>1. Apart(u, v)
    BY <1>12 DEF ConsumerInv, SessionsOK
  <2> QED BY <1>0, <1>8, <1>9, <1>11, <1>12, <2>1, SMT DEF Apart
<1>13. \A p \in Paths : Held(p)' => \E v \in Workers : path'[v] = p
  BY <1>0, <1>1 DEF ConsumerInv, SessionsOK, Held
<1>14. socket' # "dropped"
  BY <1>0, <1>1 DEF ConsumerInv, SessionsOK, MayDropSocket
<1> QED BY <1>4, <1>6, <1>7, <1>10, <1>12, <1>13, <1>14 DEF OwnInv, SessionsOK

\* add_path gives the worker a path of its own at that address.
LEMMA StartPathStep ==
  ASSUME ConsumerInv, NEW w \in Workers, StartPath(w)
  PROVE  OwnInv'
<1>0. /\ pc[w] = "add" /\ AddPath(addr[w])
      /\ path' = [path EXCEPT ![w] = count + 1]
      /\ source' = [source EXCEPT ![w] = {}]
      /\ pc' = [pc EXCEPT ![w] = "path"]
      /\ UNCHANGED <<peer, addr, nextHost, heard, fed>>
  BY DEF StartPath
<1>1. /\ socket = "open" /\ count' = count + 1
      /\ UNCHANGED <<socket, incoming, outgoing, call>>
  BY <1>0 DEF AddPath
<1>2. /\ count \in Nat /\ count + 1 \in Paths /\ phase[count + 1] = "unused"
      /\ \A p \in 1..count : p \in Paths /\ p # count + 1
  BY <1>0, ConstantsAssumption, SMT DEF ConsumerInv, SocketOK, TypeOK, Paths, AddPath
<1>3. /\ remote'[count + 1] = addr[w] /\ phase'[count + 1] = "live"
      /\ \A p \in Paths : p # count + 1 => remote'[p] = remote[p] /\ phase'[p] = phase[p]
  BY <1>0, <1>2 DEF ConsumerInv, SocketOK, TypeOK, AddPath
<1>4. /\ pc'[w] = "path" /\ path'[w] = count + 1 /\ source'[w] = {}
      /\ \A v \in Workers : v # w => pc'[v] = pc[v] /\ path'[v] = path[v] /\ source'[v] = source[v]
  BY <1>0 DEF ConsumerInv, WorkersOK
<1>5. /\ SessionOK(w) /\ addr[w] \in Addrs /\ fed[count + 1] = {}
      /\ \A p \in 1..count : remote[p] # addr[w]
  BY <1>0, <1>2, TaskArguments, SMTT(20) DEF ConsumerInv, SessionsOK, SessionOK, SourcesOK
<1>6. WorkersOK'
  BY <1>0, <1>2 DEF ConsumerInv, WorkersOK, Places
<1>7. \A p \in 1..count' : p = count + 1 \/ (p \in 1..count /\ remote'[p] = remote[p])
  BY <1>1, <1>2, <1>3, SMT
<1>8. AddressesOK'
  <2>1. remote'[count + 1] >= FirstPathHost /\ remote'[count + 1] < nextHost'
    BY <1>0, <1>3, <1>5 DEF SessionOK
  <2>2. \A p \in 1..count' : remote'[p] >= FirstPathHost /\ remote'[p] < nextHost'
    BY <1>0, <1>7, <2>1 DEF ConsumerInv, AddressesOK
  <2>3. \A p, q \in 1..count' : p # q => remote'[p] # remote'[q]
    BY <1>3, <1>5, <1>7, SMT DEF ConsumerInv, AddressesOK
  <2> QED BY <2>2, <2>3 DEF AddressesOK
<1>9. SourcesOK'
  BY <1>0, <1>1, <1>2, SMT DEF ConsumerInv, SourcesOK, SourcePinned, Paths
<1>10. Known \subseteq Known'
  <2> SUFFICES ASSUME NEW p \in 1..count, fed[p] # {} PROVE remote[p] \in Known'
    BY DEF Known
  <2>1. p \in 1..count' /\ remote'[p] = remote[p] /\ fed'[p] # {}
    BY <1>0, <1>1, <1>2, <1>3, SMT
  <2> QED BY <2>1 DEF Known
<1>11. RepliesOK'
  BY <1>0, <1>1, <1>10 DEF ConsumerInv, RepliesOK, RepliesOnly
<1>12. ASSUME NEW v \in Workers PROVE SessionOK(v)'
  <2>1. CASE v = w
    <3>1. path'[v] # NoPath /\ path'[v] <= count'
      BY <1>1, <1>2, <1>4, <2>1, SMT DEF NoPath
    <3>2. remote'[path'[v]] = addr'[v] /\ Held(path[v])'
      BY <1>0, <1>3, <1>4, <2>1 DEF Held
    <3>3. phase'[path'[v]] = "live" /\ fed'[path'[v]] \subseteq source'[v]
      BY <1>0, <1>3, <1>4, <1>5, <2>1, ZenonT(40)
    <3> QED BY <1>4, <2>1, <3>1, <3>2, <3>3 DEF SessionOK, Serving, OnPath
  <2>2. CASE v # w
    <3>1. SessionOK(v) /\ Apart(v, w)
      BY <2>2 DEF ConsumerInv, SessionsOK
    <3>2. pc[v] \in OnPath => path[v] \in Paths /\ path[v] # count + 1 /\ path[v] <= count'
      BY <1>1, <1>2, TaskArguments, SMT DEF Paths
    <3>3. ASSUME pc[v] = "add" PROVE \A p \in 1..count' : remote'[p] # addr[v]
      BY <1>0, <1>3, <1>7, <3>1, <3>3 DEF SessionOK, Apart
    <3> QED BY <1>0, <1>3, <1>4, <2>2, <3>1, <3>2, <3>3, SMT DEF SessionOK, Held, Serving, OnPath
  <2> QED BY <2>1, <2>2
<1>13. ASSUME NEW u \in Workers, NEW v \in Workers, u # v PROVE Apart(u, v)'
  <2>1. Apart(u, v)
    BY <1>13 DEF ConsumerInv, SessionsOK
  <2>2. \A x \in Workers : path[x] # count + 1
    <3> SUFFICES ASSUME NEW x \in Workers PROVE path[x] # count + 1
      OBVIOUS
    <3>1. path[x] = NoPath \/ path[x] <= count
      BY DEF ConsumerInv, SessionsOK, SessionOK
    <3> QED BY <1>2, <3>1, SMT DEF NoPath
  <2> QED BY <1>0, <1>4, <1>13, <2>1, <2>2, SMT DEF Apart
<1>14. ASSUME NEW p \in Paths, Held(p)' PROVE \E v \in Workers : path'[v] = p
  <2>1. CASE p = count + 1
    BY <1>4, <2>1
  <2>2. CASE p # count + 1
    <3>1. PICK v \in Workers : path[v] = p
      BY <1>3, <1>14, <2>2 DEF ConsumerInv, SessionsOK, Held
    <3>2. v # w
      BY <1>0, <1>5, <3>1, SMT DEF SessionOK, OnPath, Paths, NoPath
    <3> QED BY <1>4, <3>1, <3>2
  <2> QED BY <2>1, <2>2
<1> QED BY <1>1, <1>6, <1>8, <1>9, <1>11, <1>12, <1>13, <1>14 DEF OwnInv, SessionsOK

\* Drop::drop and the drop of the fields: nobody else is on the path that goes.
LEMMA UnwindStep ==
  ASSUME ConsumerInv, NEW w \in Workers, Unwind(w)
  PROVE  OwnInv'
<1> DEFINE p == path[w]
<1>0. /\ pc[w] = "unwind" /\ p \in Paths
      /\ UNCHANGED <<socket, incoming, count, remote, call>>
      /\ UNCHANGED <<peer, addr, source, nextHost, heard, fed>>
  BY TaskArguments DEF Unwind, OnPath, DropPath, DropFields
<1>1. socket # "dropped"
  BY <1>0 DEF ConsumerInv, SessionsOK, MayDropSocket
<1>2. \A v \in Workers : v # w => path[v] # p
  BY <1>0, SMT DEF ConsumerInv, SessionsOK, Apart, Paths, NoPath
<1>3. AddressesOK' /\ SourcesOK'
  BY <1>0 DEF ConsumerInv, AddressesOK, SourcesOK, SourcePinned
<1>4. CASE DropPath(p) /\ UNCHANGED <<pc, path>>
  <2>1. /\ phase'[p] = "unrouted" /\ UNCHANGED <<outgoing, pc, path>>
        /\ \A q \in Paths : q # p => phase'[q] = phase[q]
    BY <1>0, <1>4 DEF ConsumerInv, SocketOK, TypeOK, DropPath
  <2>2. WorkersOK' /\ RepliesOK'
    <3>1. WorkersOK'
      BY <1>0, <2>1 DEF ConsumerInv, WorkersOK
    <3>2. Known' = Known
      BY <1>0 DEF Known
    <3>3. RepliesOK'
      BY <1>0, <2>1, <3>2 DEF ConsumerInv, RepliesOK, RepliesOnly
    <3> QED BY <3>1, <3>3
  <2>3. ASSUME NEW v \in Workers PROVE SessionOK(v)'
    <3>1. SessionOK(v) /\ (pc[v] \in OnPath => path[v] \in Paths)
      BY TaskArguments DEF ConsumerInv, SessionsOK
    <3> HIDE DEF p
    <3>2. CASE v = w
      BY <1>0, <2>1, <3>1, <3>2 DEF p, SessionOK, Held, Serving, OnPath
    <3>3. CASE v # w
      BY <1>0, <1>2, <2>1, <3>1, <3>3 DEF SessionOK, Held, Serving, OnPath
    <3> QED BY <3>2, <3>3
  <2>4. \A u, v \in Workers : u # v => Apart(u, v)'
    BY <1>0, <2>1 DEF ConsumerInv, SessionsOK, Apart
  <2>5. \A q \in Paths : Held(q)' => \E v \in Workers : path'[v] = q
    BY <2>1 DEF ConsumerInv, SessionsOK, Held
  <2> QED BY <1>0, <1>1, <1>3, <2>2, <2>3, <2>4, <2>5 DEF OwnInv, SessionsOK
<1>5. CASE /\ DropFields(p)
           /\ path' = [path EXCEPT ![w] = NoPath]
           /\ pc' = [pc EXCEPT ![w] = "closing"]
  <2>1. /\ phase'[p] = "dropped" /\ outgoing'[p] = <<>>
        /\ \A q \in Paths : q # p => phase'[q] = phase[q] /\ outgoing'[q] = outgoing[q]
    BY <1>0, <1>5 DEF ConsumerInv, SocketOK, TypeOK, DropFields
  <2>2. /\ pc'[w] = "closing" /\ path'[w] = NoPath
        /\ \A v \in Workers : v # w => pc'[v] = pc[v] /\ path'[v] = path[v]
    BY <1>5 DEF ConsumerInv, WorkersOK
  <2>3. WorkersOK'
    BY <1>0, <1>5 DEF ConsumerInv, WorkersOK, Places
  <2>4. RepliesOK'
    <3>1. Known' = Known
      BY <1>0 DEF Known
    <3>2. RepliesOnly'
      BY <1>0, <2>1 DEF ConsumerInv, RepliesOK, RepliesOnly
    <3> QED BY <1>0, <3>1, <3>2 DEF ConsumerInv, RepliesOK
  <2>5. ASSUME NEW v \in Workers PROVE SessionOK(v)'
    <3>1. SessionOK(v) /\ (pc[v] \in OnPath => path[v] \in Paths)
      BY TaskArguments DEF ConsumerInv, SessionsOK
    <3> HIDE DEF p
    <3>2. CASE v = w
      BY <2>2, <3>2 DEF SessionOK, Serving, OnPath
    <3>3. CASE v # w
      BY <1>0, <1>2, <2>1, <2>2, <3>1, <3>3 DEF SessionOK, Held, Serving, OnPath
    <3> QED BY <3>2, <3>3
  <2>6. ASSUME NEW u \in Workers, NEW v \in Workers, u # v PROVE Apart(u, v)'
    <3>1. Apart(u, v)
      BY <2>6 DEF ConsumerInv, SessionsOK
    <3> QED BY <1>0, <2>2, <2>6, <3>1 DEF Apart
  <2>7. ASSUME NEW q \in Paths, Held(q)' PROVE \E v \in Workers : path'[v] = q
    <3>1. q # p /\ Held(q)
      BY <2>1, <2>7 DEF Held
    <3>2. PICK v \in Workers : path[v] = q
      BY <3>1 DEF ConsumerInv, SessionsOK
    <3> QED BY <2>2, <3>1, <3>2
  <2> QED BY <1>0, <1>1, <1>3, <2>3, <2>4, <2>5, <2>6, <2>7 DEF OwnInv, SessionsOK
<1> QED BY <1>4, <1>5 DEF Unwind

\* A packet that is accepted has the source the path is pinned to, if there is
\* one, and pins it otherwise; it makes the path's address known.
LEMMA AcceptStep ==
  ASSUME ConsumerInv, NEW w \in Workers, PathRecv(w),
         DC!RecvPacket(peer[w]).kind = "packet",
         AcceptsSource(w, DC!RecvPacket(peer[w]).src)
  PROVE  OwnInv'
<1> DEFINE e == DC!RecvPacket(peer[w])
           p == path[w]
<1>0. /\ pc[w] = "path" /\ TryReceive(p, e.len)
      /\ source' = [source EXCEPT ![w] = {e.src}]
      /\ fed' = [fed EXCEPT ![p] = IF TryReceiveResult(e.len) = "Ok" THEN @ \cup {e.src} ELSE @]
      /\ peer' = [peer EXCEPT ![w] = DC!AfterRecv(@)]
      /\ pc' = [pc EXCEPT ![w] = "path"] \/ pc' = [pc EXCEPT ![w] = "unwind"]
      /\ UNCHANGED <<addr, path, nextHost, heard>>
  BY DEF PathRecv
<1>1. /\ e.src \in Sources /\ e.len \in Lengths /\ e.src # EmptySource /\ source[w] \subseteq {e.src}
      /\ DC!AfterRecv(peer[w]) \in Adapters
  BY TaskEvent, PacketShape DEF PathRecv, AcceptsSource
<1>2. p \in Paths /\ p <= count /\ SessionOK(w)
  BY <1>0, TaskArguments DEF OnPath, ConsumerInv, SessionsOK
<1> HIDE DEF e, p
<1>3. /\ phase[p] = "live" /\ UNCHANGED <<socket, routes, count, phase, remote, outgoing, call>>
      /\ \/ incoming' = incoming
         \/ /\ TryReceiveResult(e.len) = "Ok"
            /\ incoming' = Append(incoming, [remote |-> remote[p], len |-> e.len])
  BY <1>0 DEF TryReceive
<1>4. /\ fed[p] \subseteq fed'[p] /\ fed'[p] \subseteq {e.src}
      /\ TryReceiveResult(e.len) = "Ok" => fed'[p] # {}
      /\ \A q \in Paths : q # p => fed'[q] = fed[q]
  <2>1. fed[p] \subseteq {e.src}
    BY <1>0, <1>1, <1>2 DEF SessionOK, Serving, p
  <2>2. /\ fed'[p] = (IF TryReceiveResult(e.len) = "Ok" THEN fed[p] \cup {e.src} ELSE fed[p])
        /\ \A q \in Paths : q # p => fed'[q] = fed[q]
    BY <1>0, <1>2 DEF ConsumerInv, WorkersOK
  <2> QED BY <2>1, <2>2
<1>5. WorkersOK'
  BY <1>0, <1>1, <1>2, SMT DEF ConsumerInv, WorkersOK, Places
<1>6. AddressesOK'
  BY <1>0, <1>3 DEF ConsumerInv, AddressesOK
<1>7. SourcesOK'
  <2>1. SourcePinned'
    BY <1>1, <1>4, SMTT(20) DEF ConsumerInv, SourcesOK, SourcePinned
  <2>2. ASSUME NEW q \in Paths, q > count PROVE q # p
    BY <1>2, <2>2, CountInRange, SMT DEF Paths
  <2> QED BY <1>3, <1>4, <2>1, <2>2 DEF ConsumerInv, SourcesOK
<1>8. /\ pc'[w] \in {"path", "unwind"} /\ source'[w] = {e.src}
      /\ \A v \in Workers : v # w => pc'[v] = pc[v] /\ source'[v] = source[v] /\ path[v] # p
  <2>1. \A v \in Workers : v # w => path[v] # p
    BY <1>2, SMT DEF p, ConsumerInv, SessionsOK, Apart, Paths, NoPath
  <2> QED BY <1>0, <2>1 DEF ConsumerInv, WorkersOK
<1>9. ASSUME NEW v \in Workers PROVE SessionOK(v)'
  <2>1. SessionOK(v) /\ (pc[v] \in OnPath => path[v] \in Paths)
    BY TaskArguments DEF ConsumerInv, SessionsOK
  <2>2. CASE v = w
    BY <1>0, <1>3, <1>4, <1>8, <2>1, <2>2 DEF p, SessionOK, Held, Serving, OnPath
  <2>3. CASE v # w
    BY <1>0, <1>3, <1>4, <1>8, <2>1, <2>3, ZenonT(30) DEF SessionOK, Held, Serving, OnPath
  <2> QED BY <2>2, <2>3
<1>10. ASSUME NEW u \in Workers, NEW v \in Workers, u # v PROVE Apart(u, v)'
  <2>1. Apart(u, v)
    BY <1>10 DEF ConsumerInv, SessionsOK
  <2> QED BY <1>0, <1>8, <2>1 DEF Apart
<1>11. \A q \in Paths : Held(q)' => \E v \in Workers : path'[v] = q
  BY <1>0, <1>3 DEF ConsumerInv, SessionsOK, Held
<1>12. socket' # "dropped"
  BY <1>0, <1>3 DEF ConsumerInv, SessionsOK, MayDropSocket
<1>13. SessionsOK'
  BY <1>9, <1>10, <1>11, <1>12 DEF SessionsOK

<1>14. count \in Nat /\ p \in 1..count /\ remote[p] \in Addrs
  BY <1>2, SMT DEF ConsumerInv, SocketOK, TypeOK, Paths
<1>15. ASSUME TryReceiveResult(e.len) = "Ok" PROVE remote[p] \in Known'
  <2>1. p \in 1..count' /\ remote'[p] = remote[p] /\ fed'[p] # {}
    BY <1>3, <1>4, <1>14, <1>15
  <2> QED BY <2>1 DEF Known
<1>16. Known \subseteq Known'
  <2> SUFFICES ASSUME NEW q \in 1..count, fed[q] # {} PROVE remote[q] \in Known'
    BY DEF Known
  <2>1. q \in Paths
    BY CountInRange
  <2>2. q \in 1..count' /\ remote'[q] = remote[q] /\ fed'[q] # {}
    BY <1>3, <1>4, <2>1
  <2> QED BY <2>2 DEF Known
<1>17. \A i \in 1..Len(incoming') : incoming'[i].remote \in Known'
  <2>1. incoming \in Seq(Received) /\ \A i \in 1..Len(incoming) : incoming[i].remote \in Known
    BY DEF ConsumerInv, SocketOK, TypeOK, RepliesOK
  <2>2. CASE incoming' = incoming
    BY <1>16, <2>1, <2>2
  <2>3. CASE /\ TryReceiveResult(e.len) = "Ok"
             /\ incoming' = Append(incoming, [remote |-> remote[p], len |-> e.len])
    <3>1. [remote |-> remote[p], len |-> e.len] \in Received
      BY <1>1, <1>14 DEF Received
    <3>2. \A i \in 1..Len(incoming') :
            \/ i \in 1..Len(incoming) /\ incoming'[i] = incoming[i]
            \/ incoming'[i] = [remote |-> remote[p], len |-> e.len]
      BY <2>1, <2>3, <3>1, SMTT(20)
    <3> QED BY <1>15, <1>16, <2>1, <2>3, <3>2, SMT
  <2> QED BY <1>3, <2>2, <2>3
<1>18. \A q \in Paths : fed[q] # {} => fed'[q] # {}
  BY <1>4
<1>19. RepliesOK'
  <2>1. RepliesOnly'
    BY <1>3, <1>18 DEF ConsumerInv, RepliesOK, RepliesOnly
  <2>2. heard' \subseteq Addrs \cap Known'
    BY <1>0, <1>16 DEF ConsumerInv, RepliesOK
  <2>3. \A s \in Senders : call[s].busy /\ call[s].route # NoPath => call[s].route \in Paths
    BY RouteShape
  <2>4. \A s \in Senders : call'[s].busy /\ call'[s].route # NoPath => fed'[call'[s].route] # {}
    BY <1>3, <1>18, <2>3 DEF ConsumerInv, RepliesOK
  <2> QED BY <1>17, <2>1, <2>2, <2>4 DEF RepliesOK
<1> QED BY <1>5, <1>6, <1>7, <1>13, <1>19 DEF OwnInv

\* A packet that is refused ends the path and leaves everything else alone.
LEMMA RefuseKeeps ==
  ASSUME ConsumerInv, NEW w \in Workers, PathRecv(w),
         ~(/\ DC!RecvPacket(peer[w]).kind = "packet"
           /\ AcceptsSource(w, DC!RecvPacket(peer[w]).src))
  PROVE  Keeps(w)
<1>1. /\ pc[w] = "path"
      /\ peer' = [peer EXCEPT ![w] = DC!AfterRecv(@)]
      /\ pc' = [pc EXCEPT ![w] = "path"] \/ pc' = [pc EXCEPT ![w] = "unwind"]
      /\ UNCHANGED <<udpVars, source, fed, addr, path, nextHost, heard>>
  BY DEF PathRecv
<1>2. DC!AfterRecv(peer[w]) \in Adapters
  BY TaskEvent DEF PathRecv
<1> QED BY <1>1, <1>2 DEF ConsumerInv, WorkersOK, Keeps, Moves, Places, Serving, OnPath

\* The steps of the consumer that leave the workers alone, but for one that
\* begins to send: only the queues and the calls of the socket change.
Carries ==
  /\ UNCHANGED <<addr, path, source, nextHost, fed, peer>>
  /\ UNCHANGED <<socket, count, phase, remote>>
  /\ \/ UNCHANGED pc
     \/ \E w \in Workers : pc[w] = "path" /\ pc' = [pc EXCEPT ![w] = "sending"]

LEMMA CarriesInv ==
  ASSUME ConsumerInv, Carries
  PROVE  WorkersOK' /\ AddressesOK' /\ SessionsOK' /\ SourcesOK' /\ Known' = Known
<1>1. \A v \in Workers : pc'[v] = pc[v] \/ (pc[v] = "path" /\ pc'[v] = "sending")
  BY DEF ConsumerInv, WorkersOK, Carries
<1>2. WorkersOK'
  BY DEF ConsumerInv, WorkersOK, Carries, Places
<1>3. AddressesOK' /\ SourcesOK' /\ Known' = Known
  <2>1. AddressesOK'
    BY <1>1 DEF ConsumerInv, Carries, AddressesOK
  <2>2. SourcesOK'
    BY DEF ConsumerInv, Carries, SourcesOK, SourcePinned
  <2>3. Known' = Known
    BY DEF Carries, Known
  <2> QED BY <2>1, <2>2, <2>3
<1>4. ASSUME NEW v \in Workers PROVE SessionOK(v)'
  <2>1. SessionOK(v)
    BY DEF ConsumerInv, SessionsOK
  <2> QED BY <1>1, <2>1 DEF SessionOK, Carries, Held, Serving, OnPath
<1>5. ASSUME NEW u \in Workers, NEW v \in Workers, u # v PROVE Apart(u, v)'
  <2>1. Apart(u, v)
    BY <1>5 DEF ConsumerInv, SessionsOK
  <2> QED BY <1>1, <2>1 DEF Apart, Carries
<1>6. \A q \in Paths : Held(q)' => \E v \in Workers : path'[v] = q
  BY DEF ConsumerInv, SessionsOK, Held, Carries
<1>7. socket' = "dropped" => MayDropSocket'
  BY <1>1 DEF ConsumerInv, SessionsOK, MayDropSocket, Carries
<1> QED BY <1>2, <1>3, <1>4, <1>5, <1>6, <1>7 DEF SessionsOK

\* next_outgoing takes a datagram away.
LEMMA SendStep ==
  ASSUME ConsumerInv, NEW w \in Workers, PathSend(w)
  PROVE  OwnInv'
<1>1. Carries
  BY DEF PathSend, NextOutgoing, Carries
<1>2. UNCHANGED <<incoming, call, heard, fed>>
  BY DEF PathSend, NextOutgoing
<1>3. path[w] \in Paths /\ outgoing[path[w]] # <<>>
  BY TaskArguments DEF PathSend, NextOutgoing, OnPath
<1>4. \A q \in Paths : q # path[w] => outgoing'[q] = outgoing[q]
  BY <1>3 DEF PathSend, NextOutgoing, ConsumerInv, SocketOK, TypeOK
<1>5. RepliesOnly'
  BY <1>2, <1>3, <1>4 DEF ConsumerInv, RepliesOK, RepliesOnly
<1> QED BY <1>1, <1>2, <1>5, CarriesInv DEF ConsumerInv, RepliesOK, OwnInv

\* The RecvMeta that poll_recv fills in names the sender of the datagram.
LEMMA PolledRemote ==
  ASSUME NEW r, NEW k, NEW l
  PROVE  [remote |-> r, sent |-> k, len |-> l].remote = r
BY SMT

\* poll_recv tells Quinn of an address that is known by then.
LEMMA QuinnRecvStep ==
  ASSUME ConsumerInv, QuinnRecv
  PROVE  OwnInv'
<1>1. Carries
  BY DEF QuinnRecv, PollRecv, Carries, sessionVars
<1>2. UNCHANGED <<outgoing, call, fed>>
  BY DEF QuinnRecv, PollRecv
<1>3. socket = "open" /\ incoming # <<>>
  BY DEF QuinnRecv, PollRecv, IncomingSenders
<1>4. /\ incoming \in Seq(Received) /\ incoming' = Tail(incoming)
      /\ heard' = heard \cup {Head(incoming).remote}
  <2>1. incoming \in Seq(Received)
    BY DEF ConsumerInv, SocketOK, TypeOK
  <2>2. /\ incoming' = Tail(incoming) /\ heard' = heard \cup {polled'.remote}
        /\ \E k, l : polled' = [remote |-> Head(incoming).remote, sent |-> k, len |-> l]
    BY <1>3 DEF QuinnRecv, PollRecv
  <2>3. polled'.remote = Head(incoming).remote
    BY <2>2, PolledRemote
  <2> QED BY <2>1, <2>2, <2>3
<1>5. /\ Head(incoming) = incoming[1] /\ Len(incoming) >= 1 /\ Head(incoming) \in Received
      /\ \A i \in 1..Len(incoming') : i + 1 \in 1..Len(incoming) /\ incoming'[i] = incoming[i + 1]
  BY <1>3, <1>4, SMT
<1>6. \A i \in 1..Len(incoming) : incoming[i].remote \in Known
  BY DEF ConsumerInv, RepliesOK
<1>7. heard' \subseteq Addrs \cap Known
  <2>1. Head(incoming).remote \in Known
    BY <1>5, <1>6, SMT
  <2>2. Head(incoming).remote \in Addrs
    BY <1>5 DEF Received
  <2> QED BY <1>4, <2>1, <2>2 DEF ConsumerInv, RepliesOK
<1>8. \A i \in 1..Len(incoming') : incoming'[i].remote \in Known
  BY <1>5, <1>6
<1>9. RepliesOK'
  BY <1>1, <1>2, <1>7, <1>8, CarriesInv DEF ConsumerInv, RepliesOK, RepliesOnly
<1> QED BY <1>1, <1>9, CarriesInv DEF OwnInv

\* try_send looks up a known address, so the route it finds belongs to a path
\* that has carried a packet: no other path ever had that address.
LEMMA QuinnSendStep ==
  ASSUME ConsumerInv, NEW s \in Senders, QuinnSend(s)
  PROVE  OwnInv'
<1>1. Carries
  BY DEF QuinnSend, TrySend, Push, Carries, ownVars, sessionVars
<1>2. UNCHANGED <<incoming, heard, fed>>
  BY DEF QuinnSend, TrySend, Push, ownVars
<1>3. ASSUME NEW a \in heard, NEW n \in QuinnLengths, TrySend(s, a, n) PROVE RepliesOK'
  <2>1. a \in Addrs /\ a \in Known
    BY <1>3 DEF ConsumerInv, RepliesOK
  <2>2. PICK p \in 1..count : a = remote[p] /\ fed[p] # {}
    BY <2>1 DEF Known
  <2>3. routes[a] # NoPath => routes[a] = p
    <3> SUFFICES ASSUME routes[a] # NoPath PROVE routes[a] = p
      OBVIOUS
    <3>1. phase[routes[a]] = "live" /\ remote[routes[a]] = a /\ routes[a] \in Paths
      BY <2>1, SMT DEF ConsumerInv, SocketOK, RouteInv, RoutesAreLive, TypeOK
    <3>2. routes[a] <= count
      BY <3>1, CountInRange, SMTT(20) DEF ConsumerInv, SocketOK, TypeOK, Paths
    <3>3. routes[a] \in 1..count
      BY <3>1, <3>2, CountInRange, SMT DEF Paths
    <3> QED BY <2>2, <3>1, <3>3 DEF ConsumerInv, AddressesOK
  <2>4. UNCHANGED outgoing
    BY <1>3 DEF TrySend
  <2>5. \/ UNCHANGED call
        \/ call' = [call EXCEPT ![s] = [busy |-> TRUE, dest |-> a, len |-> n, route |-> routes[a]]]
    BY <1>3 DEF TrySend
  <2>6. ASSUME NEW t \in Senders, call'[t].busy, call'[t].route # NoPath
        PROVE  fed[call'[t].route] # {}
    <3>1. CASE call'[t] = call[t]
      BY <2>6, <3>1 DEF ConsumerInv, RepliesOK
    <3>2. CASE call'[t] # call[t]
      <4>1. call'[t] = [busy |-> TRUE, dest |-> a, len |-> n, route |-> routes[a]]
        BY <2>5, <3>2 DEF ConsumerInv, SocketOK, TypeOK
      <4> QED BY <2>2, <2>3, <2>6, <4>1, SMTT(20)
    <3> QED BY <3>1, <3>2
  <2> QED BY <1>1, <1>2, <2>4, <2>6, CarriesInv DEF ConsumerInv, RepliesOK, RepliesOnly
<1>4. ASSUME Push(s) PROVE RepliesOK'
  <2>1. /\ call[s].busy
        /\ \A t \in Senders : t # s => call'[t] = call[t]
        /\ call'[s] = Idle
    BY <1>4 DEF Push, ConsumerInv, SocketOK, TypeOK
  <2>2. ASSUME NEW t \in Senders, call'[t].busy, call'[t].route # NoPath
        PROVE  fed[call'[t].route] # {}
    <3>1. \A u \in Senders : call[u].busy /\ call[u].route # NoPath => fed[call[u].route] # {}
      BY DEF ConsumerInv, RepliesOK
    <3> QED BY <2>1, <2>2, <3>1, SMT DEF Idle
  <2>3. ASSUME NEW q \in Paths, outgoing'[q] # <<>> PROVE fed[q] # {}
    <3>1. CASE outgoing'[q] = outgoing[q]
      BY <2>3, <3>1 DEF ConsumerInv, RepliesOK, RepliesOnly
    <3>2. CASE outgoing'[q] # outgoing[q]
      <4>1. call[s].route # NoPath /\ call[s].route = q
        BY <1>4, <3>2 DEF Push, RouteOf, ConsumerInv, SocketOK, TypeOK
      <4> QED BY <2>1, <4>1 DEF ConsumerInv, RepliesOK
    <3> QED BY <3>1, <3>2
  <2> QED BY <1>1, <1>2, <2>2, <2>3, CarriesInv DEF ConsumerInv, RepliesOK, RepliesOnly
<1> QED BY <1>1, <1>3, <1>4, CarriesInv DEF QuinnSend, OwnInv

\* The socket goes when every worker has stopped.
LEMMA ReleaseStep ==
  ASSUME ConsumerInv, ReleaseSocket
  PROVE  OwnInv'
<1>1. /\ MayDropSocket /\ UNCHANGED <<pc, addr, path, source, peer, nextHost, heard, fed>>
      /\ UNCHANGED <<count, phase, remote, outgoing, call>> /\ incoming' = <<>>
  BY DEF ReleaseSocket, DropSocket, ownVars, sessionVars
<1>2. WorkersOK' /\ AddressesOK' /\ SourcesOK' /\ Known' = Known
  <2>1. WorkersOK' /\ AddressesOK'
    BY <1>1 DEF ConsumerInv, WorkersOK, AddressesOK
  <2>2. SourcesOK' /\ Known' = Known
    BY <1>1 DEF ConsumerInv, SourcesOK, SourcePinned, Known
  <2> QED BY <2>1, <2>2
<1>3. SessionsOK'
  BY <1>1 DEF ConsumerInv, SessionsOK, SessionOK, Apart, Held, MayDropSocket
<1>4. RepliesOK'
  BY <1>1, <1>2, EmptyWithinCap, SMT DEF ConsumerInv, RepliesOK, RepliesOnly
<1> QED BY <1>2, <1>3, <1>4 DEF OwnInv

-----------------------------------------------------------------------------
\* The invariant is inductive, and what it implies is true of the consumer.
LEMMA InitConsumerInv == ConsumerInit => ConsumerInv
<1> SUFFICES ASSUME ConsumerInit PROVE ConsumerInv
  OBVIOUS
<1>1. SocketOK
  <2>1. RouteInv
    BY DEF ConsumerInit, Init, RouteInv, RoutesAreLive, NewestPathRouted
  <2>2. ReceptionInv
    BY EmptyWithinCap, SMT DEF ConsumerInit, Init, ReceptionInv, SocketNeverBreaks, NothingTruncated,
                          NoDatagram
  <2> QED BY <2>1, <2>2, InitTypeOK DEF ConsumerInit, SocketOK
<1>2. DC!NewDatagrams \in Adapters
  BY EmptyWithinCap DEF DC!NewDatagrams, Adapters
<1>3. WorkersOK
  BY <1>2, ConsumerAssumption, SMT DEF ConsumerInit, WorkersOK, Places, FirstPathHost
<1>4. count = 0 /\ 1..count = {} /\ \A p \in Paths : phase[p] = "unused" /\ outgoing[p] = <<>>
  BY SMT DEF ConsumerInit, Init
<1>5. AddressesOK
  BY <1>4 DEF AddressesOK
<1>6. SessionsOK
  BY <1>4 DEF ConsumerInit, Init, SessionsOK, SessionOK, Apart, Held, OnPath, Serving
<1>7. SourcesOK
  BY DEF ConsumerInit, SourcesOK, SourcePinned
<1>8. RepliesOK
  BY <1>4, EmptyWithinCap DEF ConsumerInit, Init, RepliesOK, RepliesOnly, Idle
<1> QED BY <1>1, <1>3, <1>5, <1>6, <1>7, <1>8 DEF ConsumerInv

LEMMA NextConsumerInv == ConsumerInv /\ [ConsumerNext]_vars => ConsumerInv'
<1> SUFFICES ASSUME ConsumerInv, [ConsumerNext]_vars PROVE OwnInv'
  BY NextSocketOK DEF ConsumerInv, OwnInv
<1>1. ASSUME NEW w \in Workers, WorkerStep(w) PROVE OwnInv'
  <2>1. CASE \/ BeginAttempt(w) \/ EndAttempt(w) \/ EndSleep(w) \/ Setup(w)
             \/ CancelSession(w) \/ CloseConnection(w) \/ SendDone(w)
    BY <2>1, SessionKeeps, KeepsInv
  <2>2. CASE AwaitChannel(w)
    BY <2>2, SessionKeeps, KeepsInv, AllocateStep
  <2>3. CASE StartPath(w)
    BY <2>3, StartPathStep
  <2>4. CASE Unwind(w)
    BY <2>4, UnwindStep
  <2>5. CASE PathRecv(w)
    BY <2>5, AcceptStep, RefuseKeeps, KeepsInv
  <2>6. CASE PathSend(w)
    BY <2>6, SendStep
  <2> QED BY <1>1, <2>1, <2>2, <2>3, <2>4, <2>5, <2>6 DEF WorkerStep
<1>2. ASSUME NEW w \in Workers, Signal(w) \/ Environment(w) PROVE OwnInv'
  BY <1>2, SessionKeeps, KeepsInv
<1>3. CASE QuinnRecv
  BY <1>3, QuinnRecvStep
<1>4. ASSUME NEW s \in Senders, QuinnSend(s) PROVE OwnInv'
  BY <1>4, QuinnSendStep
<1>5. CASE ReleaseSocket
  BY <1>5, ReleaseStep
<1>6. CASE UNCHANGED vars
  <2>1. UNCHANGED <<pc, addr, path, source, peer, nextHost, heard, fed>>
    BY <1>6 DEF vars, ownVars, sessionVars
  <2>2. UNCHANGED <<socket, count, phase, remote, outgoing, call, incoming>>
    BY <1>6 DEF vars, udpVars
  <2>3. Carries
    BY <2>1, <2>2 DEF Carries
  <2> QED BY <2>1, <2>2, <2>3, CarriesInv DEF ConsumerInv, RepliesOK, RepliesOnly, OwnInv
<1> QED BY <1>1, <1>2, <1>3, <1>4, <1>5, <1>6 DEF ConsumerNext

\* The invariant of the consumer always holds.
THEOREM ConsumerInvariant == ConsumerSpec => []ConsumerInv
BY InitConsumerInv, NextConsumerInv, PTL DEF ConsumerSpec

\* The consumer uses the socket as the socket's specification allows, however
\* many workers share it: whatever is proved of the socket (its routes, its
\* deliveries, the datagram service it implements) is true in the consumer.
THEOREM ConsumerRunsSocket == ConsumerSpec => Spec
<1>1. ConsumerInit => Init
  BY DEF ConsumerInit
<1> QED BY <1>1, SocketStep, ConsumerInvariant, PTL DEF ConsumerSpec, Spec

\* In particular the consumer's datagrams are carried by the unreliable
\* datagram service that Quinn expects.
THEOREM ConsumerImplementsService == ConsumerSpec => ImplementsService
BY ConsumerRunsSocket, SocketImplementsService, PTL

\* allocate never gives out an address twice, whichever workers race for it:
\* the paths of all sessions have different addresses in the CGNAT range.
THEOREM AddressesFresh == ConsumerSpec => []FreshAddresses
<1>1. ConsumerInv => FreshAddresses
  <2> SUFFICES ASSUME ConsumerInv PROVE FreshAddresses
    OBVIOUS
  <2>1. nextHost \in Nat /\ nextHost <= CgnatHosts
    BY ConsumerAssumption, SMT DEF ConsumerInv, WorkersOK, FirstPathHost
  <2>2. \A p \in 1..count : remote[p] \in Nat
    BY CountInRange, ConstantsAssumption
  <2>3. ASSUME NEW p \in 1..count PROVE remote[p] > LocalHost /\ remote[p] < CgnatHosts
    <3>1. remote[p] >= FirstPathHost /\ remote[p] < nextHost
      BY DEF ConsumerInv, AddressesOK
    <3> QED BY <2>1, <2>2, <3>1, ConsumerAssumption, SMT DEF FirstPathHost, LocalHost
  <2> QED BY <2>3 DEF ConsumerInv, AddressesOK, FreshAddresses
<1> QED BY <1>1, ConsumerInvariant, PTL

\* A path is pinned to the first source it accepts (the source check of
\* run_consumer_path).
THEOREM SourcesPinned == ConsumerSpec => []SourcePinned
<1>1. ConsumerInv => SourcePinned
  BY DEF ConsumerInv, SourcesOK
<1> QED BY <1>1, ConsumerInvariant, PTL

\* A peer is handed datagrams only after it has brought in traffic of the
\* egress, in spite of the gap between the lookup and the push of try_send.
THEOREM RepliesCorrect == ConsumerSpec => []RepliesOnly
<1>1. ConsumerInv => RepliesOnly
  BY DEF ConsumerInv, RepliesOK
<1> QED BY <1>1, ConsumerInvariant, PTL

-----------------------------------------------------------------------------
\* The places of a worker that is in no session, or whose session has returned.
Between == {"loop", "setup", "returned", "sleep", "stopped"}
Conns == {"none", "new", "described", "up", "disconnected", "failed", "closed"}

ConnectionInv ==
  /\ conn \in [Workers -> Conns]
  /\ \A w \in Workers : pc[w] \in Between => conn[w] \in {"none", "closed"}
  /\ \A w \in Workers : pc[w] = "signal" => conn[w] = "new"

\* The part of the invariant about the worker that takes the step is enough.
LEMMA ConnectionOfWorker ==
  ASSUME ConsumerInv, ConnectionInv, NEW w \in Workers, NEW place, NEW c \in Conns,
         pc' = [pc EXCEPT ![w] = place], conn' = [conn EXCEPT ![w] = c],
         place \in Between => c \in {"none", "closed"}, place = "signal" => c = "new"
  PROVE  ConnectionInv'
<1>1. pc \in [Workers -> Places]
  BY DEF ConsumerInv, WorkersOK
<1>2. ASSUME NEW v \in Workers
      PROVE  /\ pc'[v] \in Between => conn'[v] \in {"none", "closed"}
             /\ pc'[v] = "signal" => conn'[v] = "new"
  <2>1. CASE v = w
    BY <1>1, <1>2, <2>1 DEF ConnectionInv
  <2>2. CASE v # w
    BY <1>1, <1>2, <2>2 DEF ConnectionInv
  <2> QED BY <2>1, <2>2
<1> QED BY <1>2 DEF ConnectionInv

\* A session returns after close(), and no callback follows it.
LEMMA NextConnectionInv == ConsumerInv /\ ConnectionInv /\ [ConsumerNext]_vars => ConnectionInv'
<1> SUFFICES ASSUME ConsumerInv, ConnectionInv, [ConsumerNext]_vars PROVE ConnectionInv'
  OBVIOUS
<1>0. pc \in [Workers -> Places] /\ conn \in [Workers -> Conns]
  BY DEF ConsumerInv, WorkersOK, ConnectionInv
<1>1. ASSUME NEW w \in Workers, NEW place, pc' = [pc EXCEPT ![w] = place], UNCHANGED conn,
             place \in Between => pc[w] \in Between, place = "signal" => pc[w] = "signal"
      PROVE  ConnectionInv'
  <2>1. conn' = [conn EXCEPT ![w] = conn[w]] /\ conn[w] \in Conns
    BY <1>0, <1>1
  <2> QED BY <1>1, <2>1, ConnectionOfWorker DEF ConnectionInv
<1>2. ASSUME NEW w \in Workers, WorkerStep(w) PROVE ConnectionInv'
  <2>1. CASE BeginAttempt(w) \/ EndAttempt(w) \/ EndSleep(w)
    <3>1. PICK place \in {"setup", "stopped", "sleep", "loop"} : pc' = [pc EXCEPT ![w] = place]
      BY <2>1 DEF BeginAttempt, EndAttempt, EndSleep
    <3>2. pc[w] \in Between /\ UNCHANGED conn
      BY <2>1 DEF BeginAttempt, EndAttempt, EndSleep, Between
    <3> QED BY <1>1, <3>1, <3>2
  <2>2. CASE Setup(w)
    <3>1. CASE pc' = [pc EXCEPT ![w] = "returned"] /\ UNCHANGED conn
      BY <1>1, <2>2, <3>1 DEF Setup, Between
    <3>2. CASE pc' = [pc EXCEPT ![w] = "signal"] /\ conn' = [conn EXCEPT ![w] = "new"]
      BY <3>2, ConnectionOfWorker DEF Between, Conns
    <3> QED BY <2>2, <3>1, <3>2 DEF Setup
  <2>3. CASE CloseConnection(w)
    BY <2>3, ConnectionOfWorker DEF CloseConnection, Conns
  <2>4. CASE AwaitChannel(w) \/ StartPath(w) \/ CancelSession(w)
    <3>1. PICK place \in {"add", "path", "closing", "unwind"} : pc' = [pc EXCEPT ![w] = place]
      BY <2>4 DEF AwaitChannel, GiveUp, StartPath, CancelSession
    <3> QED BY <1>1, <2>4, <3>1 DEF AwaitChannel, StartPath, CancelSession, Between
  <2>5. CASE Unwind(w)
    <3>1. PICK place \in {"closing", "unwind"} : pc' = [pc EXCEPT ![w] = place]
      BY <1>0, <2>5 DEF Unwind
    <3> QED BY <1>1, <2>5, <3>1 DEF Unwind, Between
  <2>6. CASE PathRecv(w) \/ PathSend(w) \/ SendDone(w)
    <3>1. PICK place \in {"path", "sending", "unwind"} : pc' = [pc EXCEPT ![w] = place]
      BY <2>6 DEF PathRecv, PathSend, SendDone
    <3> QED BY <1>1, <2>6, <3>1 DEF PathRecv, PathSend, SendDone, Between
  <2> QED BY <1>2, <2>1, <2>2, <2>3, <2>4, <2>5, <2>6 DEF WorkerStep
<1>3. ASSUME NEW w \in Workers, Signal(w) PROVE ConnectionInv'
  <2>1. PICK place \in {"ice", "nat", "closing"} : pc' = [pc EXCEPT ![w] = place]
    BY <1>3 DEF Signal, GiveUp
  <2>2. PICK c \in Conns : conn' = [conn EXCEPT ![w] = c]
    BY <1>0, <1>3 DEF Signal, Conns
  <2> QED BY <2>1, <2>2, ConnectionOfWorker DEF Between
<1>4. ASSUME NEW w \in Workers, Environment(w) PROVE ConnectionInv'
  <2>1. pc' = [pc EXCEPT ![w] = pc[w]]
    BY <1>0, <1>4 DEF Environment, OnStateChange, OnOpen, OnMessage, OnClose, LateClose, Cancel, sessionVars
  <2>2. ASSUME NEW state \in {"up", "disconnected", "failed"}, OnStateChange(w, state)
        PROVE  ConnectionInv'
    <3>1. conn[w] \notin {"none", "new", "closed"}
      BY <2>2 DEF OnStateChange, ConnSteps
    <3>2. pc[w] \notin Between \cup {"signal"}
      BY <3>1 DEF ConnectionInv
    <3> QED BY <2>1, <2>2, <3>2, ConnectionOfWorker DEF OnStateChange, Conns
  <2>3. CASE (\E e \in PeerEvents : OnMessage(w, e)) \/ OnOpen(w) \/ OnClose(w) \/ LateClose(w) \/ Cancel(w)
    <3>1. UNCHANGED conn
      BY <2>3 DEF OnMessage, OnOpen, OnClose, LateClose, Cancel, sessionVars
    <3> QED BY <1>1, <2>1, <3>1
  <2> QED BY <1>4, <2>2, <2>3 DEF Environment
<1>5. CASE QuinnRecv \/ (\E s \in Senders : QuinnSend(s)) \/ ReleaseSocket \/ UNCHANGED vars
  <2>1. UNCHANGED <<pc, conn>>
    BY <1>5 DEF QuinnRecv, QuinnSend, ReleaseSocket, vars, ownVars, sessionVars
  <2> QED BY <2>1 DEF ConnectionInv
<1> QED BY <1>2, <1>3, <1>4, <1>5 DEF ConsumerNext

\* The route table is the set of running path tasks: every serving task finds
\* its own route, and every route belongs to a task that has not finished.  No
\* connection outlives its session, whenever its channel opens.
THEOREM RoutesMatch == ConsumerSpec => []RoutesMatchTasks
<1>1. ConsumerInv /\ ConnectionInv => RoutesMatchTasks
  <2> SUFFICES ASSUME ConsumerInv, ConnectionInv PROVE RoutesMatchTasks
    OBVIOUS
  <2>1. ASSUME NEW w \in Workers, pc[w] \in Serving
        PROVE  path[w] # NoPath /\ routes[addr[w]] = path[w]
    <3>1. SessionOK(w) /\ path[w] \in Paths /\ path[w] <= count
      BY <2>1, TaskArguments DEF Serving, OnPath, ConsumerInv, SessionsOK
    <3>2. /\ path[w] # NoPath /\ remote[path[w]] = addr[w] /\ phase[path[w]] = "live"
      BY <2>1, <3>1 DEF SessionOK, Serving, OnPath
    <3>3. socket = "open"
      BY <2>1 DEF ConsumerInv, SessionsOK, MayDropSocket, Serving, SocketOK, TypeOK
    <3>4. Newest(path[w])
      <4> SUFFICES ASSUME NEW q \in Paths, path[w] < q, q <= count
                   PROVE  remote[q] # remote[path[w]]
        BY DEF Newest
      <4>1. q \in 1..count /\ path[w] \in 1..count /\ q # path[w]
        BY <3>1, CountInRange, SMT DEF Paths
      <4> QED BY <4>1 DEF ConsumerInv, AddressesOK
    <3>5. routes[remote[path[w]]] = path[w]
      BY <3>1, <3>2, <3>3, <3>4 DEF ConsumerInv, SocketOK, RouteInv, NewestPathRouted
    <3> QED BY <3>2, <3>5
  <2>2. ASSUME NEW a \in Addrs, routes[a] # NoPath
        PROVE  \E w \in Workers : path[w] = routes[a] /\ pc[w] \in OnPath
    <3>1. routes[a] \in Paths /\ Held(routes[a])
      BY <2>2, SMT DEF ConsumerInv, SocketOK, TypeOK, RouteInv, RoutesAreLive, Held
    <3>2. PICK w \in Workers : path[w] = routes[a]
      BY <3>1 DEF ConsumerInv, SessionsOK
    <3>3. SessionOK(w)
      BY DEF ConsumerInv, SessionsOK
    <3> QED BY <2>2, <3>2, <3>3 DEF SessionOK
  <2>3. \A w \in Workers : pc[w] \in {"loop", "sleep", "stopped"} => conn[w] \in {"none", "closed"}
    BY DEF ConnectionInv, Between
  <2> QED BY <2>1, <2>2, <2>3 DEF RoutesMatchTasks, Serving, OnPath
<1>2. ConsumerInit => ConnectionInv
  BY DEF ConsumerInit, ConnectionInv, Conns
<1> QED BY <1>1, <1>2, NextConnectionInv, ConsumerInvariant, PTL DEF ConsumerSpec

(***************************************************************************)
(* The summary.  SummaryBalanced is inductive once it is known that a       *)
(* session only returns a cancellation after the token was cancelled, and   *)
(* that it always returns something.                                        *)
(***************************************************************************)
Results == {"none", "Err", "ErrCancelled", "Cancelled", "PeerClosed", "SocketClosed"}
Leaving == {"unwind", "closing", "returned"}
Ending == Leaving \cup {"stopped"}

CountersOK ==
  /\ pc \in [Workers -> Places]
  /\ result \in [Workers -> Results]
  /\ cancelled \in [Workers -> BOOLEAN]
  /\ attempts \in [Workers -> Nat]
  /\ completed \in [Workers -> Nat]
  /\ failed \in [Workers -> Nat]

\* The counters of worker w, by its place.
Counted(w) ==
  /\ pc[w] \in {"loop", "sleep"} => attempts[w] = completed[w] + failed[w]
  /\ pc[w] \notin {"loop", "sleep", "stopped"} => attempts[w] = completed[w] + failed[w] + 1
  /\ pc[w] = "stopped" =>
       /\ \/ attempts[w] = completed[w] + failed[w]
          \/ attempts[w] = completed[w] + failed[w] + 1
       /\ cancelled[w]
  /\ result[w] \in {"Cancelled", "ErrCancelled"} => cancelled[w] /\ pc[w] \in Ending
  /\ pc[w] \in Leaving => result[w] # "none"

SummaryInv == CountersOK /\ \A w \in Workers : Counted(w)

\* A step inside a session of worker w counts nothing.
LEMMA InSession ==
  ASSUME SummaryInv, NEW w \in Workers, NEW to \in Places, NEW r \in Results,
         pc[w] \notin {"loop", "sleep", "stopped"}, to \notin {"loop", "sleep", "stopped"},
         pc' = [pc EXCEPT ![w] = to], result' = [result EXCEPT ![w] = r],
         UNCHANGED <<countVars, cancelled>>,
         r \in {"Cancelled", "ErrCancelled"} => cancelled[w] /\ to \in Ending,
         to \in Leaving => r # "none"
  PROVE  SummaryInv'
<1>1. UNCHANGED <<attempts, completed, failed, cancelled>>
  BY DEF countVars
<1>2. CountersOK'
  BY <1>1 DEF SummaryInv, CountersOK
<1>3. ASSUME NEW v \in Workers PROVE Counted(v)'
  <2>1. Counted(v)
    BY DEF SummaryInv
  <2>2. CASE v # w
    BY <1>1, <2>1, <2>2 DEF SummaryInv, CountersOK, Counted
  <2>3. CASE v = w
    <3>1. pc'[v] = to /\ result'[v] = r
      BY <2>3 DEF SummaryInv, CountersOK
    <3> QED BY <1>1, <2>1, <2>3, <3>1 DEF Counted
  <2> QED BY <2>2, <2>3
<1> QED BY <1>2, <1>3 DEF SummaryInv

\* A step that touches neither the places nor the results counts nothing.
LEMMA OutsideSession ==
  ASSUME SummaryInv, UNCHANGED <<pc, result, countVars>>,
         cancelled' \in [Workers -> BOOLEAN], \A v \in Workers : cancelled[v] => cancelled'[v]
  PROVE  SummaryInv'
<1>1. UNCHANGED <<pc, result, attempts, completed, failed>>
  BY DEF countVars
<1>2. CountersOK'
  BY <1>1 DEF SummaryInv, CountersOK
<1>3. ASSUME NEW v \in Workers PROVE Counted(v)'
  <2>1. Counted(v)
    BY DEF SummaryInv
  <2> QED BY <1>1, <2>1 DEF Counted
<1> QED BY <1>2, <1>3 DEF SummaryInv

\* The loop of maintain_consumer counts each attempt when it starts and when
\* its session has returned.
LEMMA LoopCounts ==
  ASSUME SummaryInv, NEW w \in Workers, BeginAttempt(w) \/ EndAttempt(w) \/ EndSleep(w)
  PROVE  SummaryInv'
<1>0. /\ UNCHANGED <<result, cancelled>> /\ CountersOK /\ Counted(w)
      /\ attempts[w] \in Nat /\ completed[w] \in Nat /\ failed[w] \in Nat
  BY DEF BeginAttempt, EndAttempt, EndSleep, SummaryInv, CountersOK
<1>n. attempts[w] \in Nat /\ completed[w] \in Nat /\ failed[w] \in Nat
  BY <1>0
<1>1. ASSUME NEW v \in Workers, v # w
      PROVE  /\ pc'[v] = pc[v] /\ attempts'[v] = attempts[v]
             /\ completed'[v] = completed[v] /\ failed'[v] = failed[v]
  BY <1>0, <1>1 DEF BeginAttempt, EndAttempt, EndSleep, CountersOK, countVars
<1>2. ASSUME NEW v \in Workers, v # w PROVE Counted(v)'
  <2>1. Counted(v)
    BY DEF SummaryInv
  <2> QED BY <1>0, <1>1, <1>2, <2>1 DEF Counted
<1>3. CASE BeginAttempt(w)
  <2>1. CountersOK'
    BY <1>0, <1>3, SMT DEF BeginAttempt, CountersOK, Places
  <2>2. CASE cancelled[w]
    <3>1. pc[w] = "loop" /\ pc'[w] = "stopped" /\ UNCHANGED <<attempts, completed, failed>>
      BY <1>0, <1>3, <2>2 DEF BeginAttempt, CountersOK
    <3> QED BY <1>0, <1>2, <2>1, <2>2, <3>1 DEF SummaryInv, Counted, Ending, Leaving
  <2>3. CASE ~cancelled[w]
    <3>1. /\ pc[w] = "loop" /\ pc'[w] = "setup" /\ UNCHANGED <<completed, failed>>
          /\ attempts'[w] = attempts[w] + 1
      BY <1>0, <1>3, <2>3 DEF BeginAttempt, CountersOK
    <3>2. Counted(w)'
      BY <1>0, <2>3, <3>1 DEF Counted, Ending, Leaving
    <3> QED BY <1>2, <2>1, <3>2 DEF SummaryInv
  <2> QED BY <2>2, <2>3
<1>4. CASE EndAttempt(w)
  <2>1. CountersOK'
    BY <1>0, <1>4, SMTT(20) DEF EndAttempt, CountersOK, Places
  <2>2. CASE CountsAsFailure(w)
    <3>1. /\ pc[w] = "returned" /\ pc'[w] = "sleep" /\ UNCHANGED <<attempts, completed>>
          /\ failed'[w] = failed[w] + 1
      BY <1>0, <1>4, <2>2 DEF EndAttempt, CountersOK
    <3>2. /\ result'[w] \notin {"Cancelled", "ErrCancelled"}
          /\ attempts[w] = completed[w] + failed[w] + 1
      BY <1>0, <2>2, <3>1 DEF Counted, CountsAsFailure
    <3>3. attempts'[w] = completed'[w] + failed'[w]
      BY <1>n, <3>1, <3>2, SMTT(20)
    <3>4. Counted(w)'
      BY <3>1, <3>2, <3>3 DEF Counted, Leaving
    <3> QED BY <1>2, <2>1, <3>4 DEF SummaryInv
  <2>3. CASE ~CountsAsFailure(w) /\ result[w] \in {"Err", "ErrCancelled", "Cancelled"}
    <3>1. pc[w] = "returned" /\ pc'[w] = "stopped" /\ UNCHANGED <<attempts, completed, failed>>
      BY <1>0, <1>4, <2>3 DEF EndAttempt, CountersOK
    <3>2. cancelled[w]
      BY <1>0, <2>3 DEF Counted, CountsAsFailure, CountersOK
    <3>3. Counted(w)'
      BY <1>0, <3>1, <3>2 DEF Counted, Ending, Leaving
    <3> QED BY <1>2, <2>1, <3>3 DEF SummaryInv
  <2>4. CASE ~CountsAsFailure(w) /\ result[w] \notin {"Err", "ErrCancelled", "Cancelled"}
    <3>1. /\ pc[w] = "returned" /\ pc'[w] = "loop" /\ UNCHANGED <<attempts, failed>>
          /\ completed'[w] = completed[w] + 1
      BY <1>0, <1>4, <2>4 DEF EndAttempt, CountersOK
    <3>2. attempts[w] = completed[w] + failed[w] + 1
      BY <1>0, <3>1 DEF Counted
    <3>3. attempts'[w] = completed'[w] + failed'[w]
      BY <1>n, <3>1, <3>2, SMT
    <3>4. Counted(w)'
      BY <1>0, <2>4, <3>1, <3>3 DEF Counted, Leaving
    <3> QED BY <1>2, <2>1, <3>4 DEF SummaryInv
  <2> QED BY <2>2, <2>3, <2>4
<1>5. CASE EndSleep(w)
  <2>1. CountersOK' /\ UNCHANGED <<attempts, completed, failed>>
    BY <1>0, <1>5 DEF EndSleep, CountersOK, Places, countVars
  <2>2. pc[w] = "sleep" /\ pc'[w] = (IF cancelled[w] THEN "stopped" ELSE "loop")
    BY <1>0, <1>5 DEF EndSleep, CountersOK
  <2>3. Counted(w)'
    BY <1>0, <2>1, <2>2 DEF Counted, Ending, Leaving
  <2> QED BY <1>2, <2>1, <2>3 DEF SummaryInv
<1> QED BY <1>3, <1>4, <1>5

\* Every step keeps the summary.
LEMMA NextSummaryInv == SummaryInv /\ [ConsumerNext]_vars => SummaryInv'
<1> SUFFICES ASSUME SummaryInv, [ConsumerNext]_vars PROVE SummaryInv'
  OBVIOUS
<1>0. /\ pc \in [Workers -> Places] /\ result \in [Workers -> Results]
      /\ cancelled \in [Workers -> BOOLEAN]
  BY DEF SummaryInv, CountersOK
<1>1. ASSUME NEW w \in Workers, WorkerStep(w) PROVE SummaryInv'
  <2>0. /\ result[w] \in Results
        /\ pc[w] \notin Ending => result[w] \notin {"Cancelled", "ErrCancelled"}
        /\ result[w] \in {"Cancelled", "ErrCancelled"} => cancelled[w]
        /\ pc[w] \in Leaving => result[w] # "none"
    BY <1>0 DEF SummaryInv, Counted
  <2>1. CASE BeginAttempt(w) \/ EndAttempt(w) \/ EndSleep(w)
    BY <2>1, LoopCounts
  <2>2. CASE Setup(w)
    <3>1. \/ pc' = [pc EXCEPT ![w] = "signal"] /\ result' = [result EXCEPT ![w] = "none"]
          \/ pc' = [pc EXCEPT ![w] = "returned"] /\ result' = [result EXCEPT ![w] = "Err"]
      BY <2>2 DEF Setup
    <3>2. pc[w] = "setup" /\ UNCHANGED <<countVars, cancelled>>
      BY <2>2 DEF Setup
    <3> QED BY <3>1, <3>2, InSession DEF Places, Results, Leaving
  <2>3. CASE AwaitChannel(w)
    <3>1. \/ pc' = [pc EXCEPT ![w] = "add"] /\ result' = [result EXCEPT ![w] = result[w]]
          \/ pc' = [pc EXCEPT ![w] = "closing"] /\ result' = [result EXCEPT ![w] = "Err"]
      BY <1>0, <2>3 DEF AwaitChannel, GiveUp
    <3>2. pc[w] = "nat" /\ UNCHANGED <<countVars, cancelled>>
      BY <2>3 DEF AwaitChannel
    <3> QED BY <2>0, <3>1, <3>2, InSession DEF Places, Results, Ending, Leaving
  <2>4. CASE StartPath(w)
    <3>1. /\ pc' = [pc EXCEPT ![w] = "path"] /\ result' = [result EXCEPT ![w] = result[w]]
          /\ pc[w] = "add" /\ UNCHANGED <<countVars, cancelled>>
      BY <1>0, <2>4 DEF StartPath
    <3> QED BY <2>0, <3>1, InSession DEF Places, Ending, Leaving
  <2>5. CASE CancelSession(w)
    <3>1. PICK r \in {"Cancelled", "ErrCancelled"} : result' = [result EXCEPT ![w] = r]
      BY <2>5 DEF CancelSession
    <3>2. pc' = [pc EXCEPT ![w] = "closing"] \/ pc' = [pc EXCEPT ![w] = "unwind"]
      BY <2>5 DEF CancelSession
    <3>3. cancelled[w] /\ pc[w] \notin {"loop", "sleep", "stopped"} /\ UNCHANGED <<countVars, cancelled>>
      BY <2>5 DEF CancelSession, Cancellable
    <3> QED BY <3>1, <3>2, <3>3, InSession DEF Places, Results, Ending, Leaving
  <2>6. CASE Unwind(w)
    <3>1. /\ pc' = [pc EXCEPT ![w] = "unwind"] \/ pc' = [pc EXCEPT ![w] = "closing"]
          /\ result' = [result EXCEPT ![w] = result[w]]
          /\ pc[w] = "unwind" /\ UNCHANGED <<countVars, cancelled>>
      BY <1>0, <2>6 DEF Unwind
    <3> QED BY <2>0, <3>1, InSession DEF Places, Ending, Leaving
  <2>7. CASE CloseConnection(w)
    <3>1. /\ pc' = [pc EXCEPT ![w] = "returned"] /\ result' = [result EXCEPT ![w] = result[w]]
          /\ pc[w] = "closing" /\ UNCHANGED <<countVars, cancelled>>
      BY <1>0, <2>7 DEF CloseConnection
    <3> QED BY <2>0, <3>1, InSession DEF Places, Ending, Leaving
  <2>8. CASE PathRecv(w)
    <3> DEFINE r == PathResult(w, DC!RecvPacket(peer[w]))
    <3>1. /\ \/ pc' = [pc EXCEPT ![w] = "path"]
             \/ pc' = [pc EXCEPT ![w] = "unwind"] /\ r # "none"
          /\ result' = [result EXCEPT ![w] = r]
          /\ pc[w] = "path" /\ UNCHANGED <<countVars, cancelled>>
      BY <2>8 DEF PathRecv
    <3>2. r \in {"none", "Err", "PeerClosed", "SocketClosed"}
      BY DEF PathResult
    <3> HIDE DEF r
    <3> QED BY <3>1, <3>2, InSession DEF Places, Results, Leaving
  <2>9. CASE PathSend(w)
    <3>1. /\ pc' = [pc EXCEPT ![w] = "sending"] /\ result' = [result EXCEPT ![w] = result[w]]
          /\ pc[w] = "path" /\ UNCHANGED <<countVars, cancelled>>
      BY <1>0, <2>9 DEF PathSend
    <3> QED BY <2>0, <3>1, InSession DEF Places, Ending, Leaving
  <2>10. CASE SendDone(w)
    <3>1. \/ pc' = [pc EXCEPT ![w] = "path"] /\ result' = [result EXCEPT ![w] = result[w]]
          \/ pc' = [pc EXCEPT ![w] = "unwind"] /\ result' = [result EXCEPT ![w] = "Err"]
      BY <1>0, <2>10 DEF SendDone
    <3>2. pc[w] = "sending" /\ UNCHANGED <<countVars, cancelled>>
      BY <2>10 DEF SendDone
    <3> QED BY <2>0, <3>1, <3>2, InSession DEF Places, Results, Ending, Leaving
  <2> QED BY <1>1, <2>1, <2>2, <2>3, <2>4, <2>5, <2>6, <2>7, <2>8, <2>9, <2>10 DEF WorkerStep
<1>2. ASSUME NEW w \in Workers, Signal(w) PROVE SummaryInv'
  <2>1. \/ pc' = [pc EXCEPT ![w] = "ice"] /\ result' = [result EXCEPT ![w] = result[w]]
        \/ pc' = [pc EXCEPT ![w] = "nat"] /\ result' = [result EXCEPT ![w] = result[w]]
        \/ pc' = [pc EXCEPT ![w] = "closing"] /\ result' = [result EXCEPT ![w] = "Err"]
    BY <1>0, <1>2 DEF Signal, GiveUp
  <2>2. /\ pc[w] \in {"signal", "ice"} /\ UNCHANGED <<countVars, cancelled>>
        /\ result[w] \in Results
    BY <1>0, <1>2 DEF Signal
  <2>3. result[w] \notin {"Cancelled", "ErrCancelled"}
    BY <2>2 DEF SummaryInv, Counted, Ending, Leaving
  <2> QED BY <2>1, <2>2, <2>3, InSession DEF Places, Results, Leaving
<1>3. ASSUME NEW w \in Workers, Environment(w) PROVE SummaryInv'
  <2>1. UNCHANGED <<pc, result, countVars>>
    BY <1>3 DEF Environment, OnStateChange, OnOpen, OnMessage, OnClose, LateClose, Cancel, sessionVars
  <2>2. cancelled' = cancelled \/ cancelled' = [cancelled EXCEPT ![w] = TRUE]
    BY <1>3 DEF Environment, OnStateChange, OnOpen, OnMessage, OnClose, LateClose, Cancel
  <2>3. cancelled' \in [Workers -> BOOLEAN] /\ \A v \in Workers : cancelled[v] => cancelled'[v]
    BY <1>0, <2>2
  <2> QED BY <2>1, <2>3, OutsideSession
<1>4. CASE QuinnRecv \/ (\E s \in Senders : QuinnSend(s)) \/ ReleaseSocket \/ UNCHANGED vars
  <2>1. UNCHANGED <<pc, result, countVars, cancelled>>
    BY <1>4 DEF QuinnRecv, QuinnSend, ReleaseSocket, vars, ownVars, sessionVars
  <2> QED BY <1>0, <2>1, OutsideSession
<1> QED BY <1>1, <1>2, <1>3, <1>4 DEF ConsumerNext

\* What a step may count: an error of a worker that is not cancelled, and the
\* end of a path.
LEMMA CountStep ==
  ASSUME SummaryInv, [ConsumerNext]_vars, NEW w \in Workers
  PROVE  /\ failed'[w] # failed[w] => ~cancelled[w] /\ result[w] = "Err"
         /\ completed'[w] # completed[w] => result[w] \in {"PeerClosed", "SocketClosed"}
<1>1. CASE \E v \in Workers : EndAttempt(v)
  <2>1. PICK v \in Workers : EndAttempt(v)
    BY <1>1
  <2>2. /\ failed \in [Workers -> Nat] /\ completed \in [Workers -> Nat]
        /\ result[v] \in Results /\ Counted(v) /\ pc[v] = "returned"
    BY <2>1 DEF SummaryInv, CountersOK, EndAttempt
  <2>3. CASE v # w
    BY <2>1, <2>2, <2>3 DEF EndAttempt
  <2>4. CASE v = w
    <3>1. result[w] # "none" /\ (result[w] = "ErrCancelled" => cancelled[w]) /\ result[w] \in Results
      BY <2>2, <2>4 DEF Counted, Leaving
    <3>2. failed' # failed => CountsAsFailure(w)
      BY <2>1, <2>4 DEF EndAttempt
    <3>3. completed' # completed => result[w] \notin {"Err", "ErrCancelled", "Cancelled"}
      BY <2>1, <2>4 DEF EndAttempt
    <3> QED BY <3>1, <3>2, <3>3 DEF CountsAsFailure, Results
  <2> QED BY <2>3, <2>4
<1>2. CASE ~\E v \in Workers : EndAttempt(v)
  <2>1. ASSUME NEW v \in Workers, WorkerStep(v) PROVE UNCHANGED <<completed, failed>>
    BY <1>2, <2>1 DEF WorkerStep, BeginAttempt, EndSleep, Setup, AwaitChannel, StartPath,
                      CancelSession, Unwind, CloseConnection, PathRecv, PathSend, SendDone, countVars
  <2>2. ASSUME NEW v \in Workers, Signal(v) \/ Environment(v) PROVE UNCHANGED <<completed, failed>>
    BY <2>2 DEF Signal, Environment, OnStateChange, OnOpen, OnMessage, OnClose, LateClose, Cancel,
                countVars
  <2>3. CASE QuinnRecv \/ (\E s \in Senders : QuinnSend(s)) \/ ReleaseSocket \/ UNCHANGED vars
    BY <2>3 DEF QuinnRecv, QuinnSend, ReleaseSocket, vars, ownVars, countVars
  <2> QED BY <2>1, <2>2, <2>3 DEF ConsumerNext
<1> QED BY <1>1, <1>2

\* Whatever ways the sessions of a worker end, its ConsumerSummary adds up, and
\* a session that returns after the cancellation is not counted as a failure.
THEOREM SummaryCorrect == ConsumerSpec => AttemptsAccounted
<1>1. ConsumerInit => SummaryInv
  BY SMT DEF ConsumerInit, SummaryInv, CountersOK, Counted, Places, Results, Leaving
<1>2. SummaryInv => SummaryBalanced
  <2> SUFFICES ASSUME SummaryInv, NEW w \in Workers
               PROVE  LET open == attempts[w] - (completed[w] + failed[w]) IN
                      /\ pc[w] \in {"loop", "sleep"} => open = 0 /\ result[w] # "ErrCancelled"
                      /\ pc[w] \notin {"loop", "sleep", "stopped"} => open = 1
                      /\ pc[w] = "stopped" => open \in {0, 1} /\ cancelled[w]
    BY DEF SummaryBalanced
  <2>1. attempts[w] \in Nat /\ completed[w] \in Nat /\ failed[w] \in Nat /\ Counted(w)
    BY DEF SummaryInv, CountersOK
  <2> QED BY <2>1, SMTT(20) DEF Counted, Ending, Leaving
<1>3. SummaryInv /\ [ConsumerNext]_vars =>
        [\A w \in Workers :
           /\ failed'[w] # failed[w] => ~cancelled[w] /\ result[w] = "Err"
           /\ completed'[w] # completed[w] => result[w] \in {"PeerClosed", "SocketClosed"}]_vars
  BY CountStep
<1> QED BY <1>1, <1>2, <1>3, NextSummaryInv, PTL DEF ConsumerSpec, AttemptsAccounted

(***************************************************************************)
(* The hang-up.  The close of a DataChannel that opened stays in sight from *)
(* its callback, which may fire long before run_consumer_path starts, until *)
(* the path takes it or the session is over.                               *)
(***************************************************************************)
Live == {"signal", "ice", "nat", "add", "path", "sending"}
Channels == {"waiting", "open", "ended", "hungup"}

\* A detached task has the Closed event, or it is the last in the queue.
Announced(d) == d.late \/ (DC!Ready(d) /\ d.queue[Len(d.queue)].kind = "closed")

\* Before the session is over, a worker whose peer has hung up finds the close
\* in its adapter, behind events it can take or with room for the detached send:
\* neither an event queue that was full, nor a hang-up before the path has
\* started, nor one in the middle of a send hides it (on_close).
HangupStaysAhead ==
  \A w \in Workers : Listening(w) /\ chan[w] = "hungup" =>
    Announced(peer[w]) /\ (DC!Ready(peer[w]) \/ DC!LateSend(peer[w]))

\* A channel in state c and its adapter d, of a worker at place.
InSight(place, c, d) ==
  place \in Live =>
    /\ place = "signal" => c = "waiting"
    /\ c = "hungup" => Announced(d)

HangupInv ==
  /\ ConsumerInv
  /\ ConnectionInv
  /\ chan \in [Workers -> Channels]
  /\ \A w \in Workers : InSight(pc[w], chan[w], peer[w])

\* What the adapter's operations do to the close.
LEMMA AdapterHangs ==
  ASSUME NEW d \in Adapters
  PROVE  /\ Announced(DC!OnClose(d))
         /\ Announced(DC!AfterLateSend(d))
         /\ DC!Ready(d) /\ Announced(d) /\ DC!RecvPacket(d).kind # "closed" => Announced(DC!AfterRecv(d))
         /\ Announced(d) => DC!Ready(d) \/ DC!LateSend(d)
<1>1. d.queue \in Seq(Events) /\ d.late \in BOOLEAN /\ DC!ClosedEvent \in Events
  BY DEF Adapters, Events
<1>2. ASSUME NEW x \in Adapters, x.queue = Append(d.queue, DC!ClosedEvent) PROVE Announced(x)
  <2> DEFINE q == Append(d.queue, DC!ClosedEvent)
  <2>1. q # <<>> /\ q[Len(q)] = DC!ClosedEvent
    BY <1>1, SMT
  <2>2. DC!ClosedEvent.kind = "closed"
    BY DEF DC!ClosedEvent
  <2> HIDE DEF q
  <2>3. x.queue = q
    BY <1>2 DEF q
  <2> QED BY <2>1, <2>2, <2>3 DEF Announced, DC!Ready
<1>3. Announced(DC!OnClose(d))
  <2>1. DC!OnClose(d) \in Adapters
    BY AdapterShape
  <2>2. CASE DC!HasSlot(d)
    <3>1. DC!OnClose(d).queue = Append(d.queue, DC!ClosedEvent)
      BY <2>2 DEF DC!OnClose, Adapters
    <3> QED BY <1>2, <2>1, <3>1
  <2>3. CASE ~DC!HasSlot(d)
    <3>1. DC!OnClose(d).late
      BY <2>3 DEF DC!OnClose, Adapters
    <3> QED BY <3>1 DEF Announced
  <2> QED BY <2>2, <2>3
<1>4. Announced(DC!AfterLateSend(d))
  <2>1. DC!AfterLateSend(d) \in Adapters
    BY AdapterShape
  <2>2. DC!AfterLateSend(d).queue = Append(d.queue, DC!ClosedEvent)
    BY SMT DEF DC!AfterLateSend
  <2> QED BY <1>2, <2>1, <2>2
<1>5. ASSUME DC!Ready(d), Announced(d), DC!RecvPacket(d).kind # "closed"
      PROVE  Announced(DC!AfterRecv(d))
  <2>1. DC!AfterRecv(d).queue = Tail(d.queue) /\ DC!AfterRecv(d).late = d.late
    BY DEF DC!AfterRecv, Adapters
  <2>2. CASE d.late
    BY <2>1, <2>2 DEF Announced
  <2>3. CASE ~d.late
    <3> DEFINE q == d.queue
    <3>1. q \in Seq(Events) /\ q[Len(q)].kind = "closed" /\ Head(q).kind # "closed" /\ q # <<>>
      BY <1>1, <1>5, <2>3 DEF Announced, DC!Ready, DC!RecvPacket
    <3> HIDE DEF q
    <3>2. Len(q) \in Nat \ {0} /\ Head(q) = q[1]
      BY <3>1, SMT
    <3>3. Len(q) # 1
      BY <3>1, <3>2
    <3>4. Len(Tail(q)) = Len(q) - 1 /\ \A i \in 1 .. Len(q) - 1 : Tail(q)[i] = q[i + 1]
      BY <3>1, <3>2, SMT
    <3>5. \A n \in Nat \ {0} : n # 1 => n - 1 \in 1 .. n - 1 /\ (n - 1) + 1 = n /\ n - 1 # 0
      BY SMT
    <3>6. Len(<<>>) = 0
      BY SMT
    <3>7. Tail(q) # <<>> /\ Tail(q)[Len(Tail(q))] = q[Len(q)]
      BY <3>2, <3>3, <3>4, <3>5, <3>6
    <3> QED BY <2>1, <3>1, <3>7 DEF Announced, DC!Ready, q
  <2> QED BY <2>2, <2>3
<1>6. ASSUME Announced(d) PROVE DC!Ready(d) \/ DC!LateSend(d)
  <2>1. Len(<<>>) < DcCap
    BY ConsumerAssumption, SMT
  <2> QED BY <1>6, <2>1 DEF Announced, DC!Ready, DC!LateSend, DC!HasSlot
<1> QED BY <1>3, <1>4, <1>5, <1>6

\* The part of the invariant about the worker that takes the step is enough.
LEMMA HangupOfWorker ==
  ASSUME HangupInv, ConsumerInv', ConnectionInv',
         NEW w \in Workers, NEW place, NEW c \in Channels, NEW d,
         pc' = [pc EXCEPT ![w] = place], chan' = [chan EXCEPT ![w] = c],
         peer' = [peer EXCEPT ![w] = d], InSight(place, c, d)
  PROVE  HangupInv'
<1>1. pc \in [Workers -> Places] /\ chan \in [Workers -> Channels] /\ peer \in [Workers -> Adapters]
  BY DEF HangupInv, ConsumerInv, WorkersOK
<1>2. ASSUME NEW v \in Workers PROVE InSight(pc'[v], chan'[v], peer'[v])
  <2>1. CASE v = w
    BY <1>1, <2>1
  <2>2. CASE v # w
    BY <1>1, <2>2 DEF HangupInv
  <2> QED BY <2>1, <2>2
<1> QED BY <1>1, <1>2 DEF HangupInv

\* The worker's own steps: a session starts with a channel that waits, and only
\* recv_packet takes a close out of the adapter, which ends the path.
LEMMA WorkerKeepsHangup ==
  ASSUME HangupInv, ConsumerInv', ConnectionInv', NEW w \in Workers, WorkerStep(w) \/ Signal(w)
  PROVE  HangupInv'
<1>0. /\ pc \in [Workers -> Places] /\ chan \in [Workers -> Channels] /\ peer \in [Workers -> Adapters]
      /\ chan[w] \in Channels /\ peer[w] \in Adapters /\ InSight(pc[w], chan[w], peer[w])
  BY DEF HangupInv, ConsumerInv, WorkersOK
<1>1. ASSUME NEW place, pc' = [pc EXCEPT ![w] = place], UNCHANGED <<chan, peer>>,
             place \in Live => pc[w] \in Live, place # "signal"
      PROVE  HangupInv'
  <2>1. InSight(place, chan[w], peer[w])
    BY <1>0, <1>1 DEF InSight
  <2>2. chan' = [chan EXCEPT ![w] = chan[w]] /\ peer' = [peer EXCEPT ![w] = peer[w]]
    BY <1>0, <1>1
  <2> QED BY <1>0, <1>1, <2>1, <2>2, HangupOfWorker
<1>2. CASE BeginAttempt(w) \/ EndAttempt(w) \/ EndSleep(w)
  <2>1. PICK place \in {"setup", "stopped", "sleep", "loop"} : pc' = [pc EXCEPT ![w] = place]
    BY <1>2 DEF BeginAttempt, EndAttempt, EndSleep
  <2> QED BY <1>1, <1>2, <2>1 DEF BeginAttempt, EndAttempt, EndSleep, Live
<1>3. CASE Setup(w)
  <2>1. CASE pc' = [pc EXCEPT ![w] = "returned"] /\ UNCHANGED <<chan, peer>>
    BY <1>1, <2>1 DEF Live
  <2>2. CASE /\ pc' = [pc EXCEPT ![w] = "signal"] /\ chan' = [chan EXCEPT ![w] = "waiting"]
             /\ peer' = [peer EXCEPT ![w] = DC!NewDatagrams]
    <3>1. InSight("signal", "waiting", DC!NewDatagrams)
      BY DEF InSight
    <3> QED BY <2>2, <3>1, HangupOfWorker DEF Channels
  <2> QED BY <1>3, <2>1, <2>2 DEF Setup
<1>4. CASE Signal(w) \/ AwaitChannel(w) \/ StartPath(w)
  <2>1. PICK place \in {"ice", "nat", "closing", "add", "path"} : pc' = [pc EXCEPT ![w] = place]
    BY <1>4 DEF Signal, AwaitChannel, StartPath, GiveUp
  <2>2. pc[w] \in Live /\ UNCHANGED <<chan, peer>>
    BY <1>4 DEF Signal, AwaitChannel, StartPath, Live
  <2> QED BY <1>1, <2>1, <2>2
<1>5. CASE CancelSession(w) \/ Unwind(w)
  <2>1. PICK place \in {"closing", "unwind"} : pc' = [pc EXCEPT ![w] = place]
    BY <1>0, <1>5 DEF CancelSession, Unwind
  <2> QED BY <1>1, <1>5, <2>1 DEF CancelSession, Unwind, Live
<1>6. CASE CloseConnection(w)
  BY <1>6, HangupOfWorker DEF CloseConnection, InSight, Live, Channels
<1>7. CASE PathRecv(w)
  <2> DEFINE e == DC!RecvPacket(peer[w])
             place == IF PathResult(w, e) = "none" THEN "path" ELSE "unwind"
             d == DC!AfterRecv(peer[w])
  <2>1. /\ pc[w] = "path" /\ DC!Ready(peer[w]) /\ chan' = [chan EXCEPT ![w] = chan[w]]
        /\ pc' = [pc EXCEPT ![w] = place] /\ peer' = [peer EXCEPT ![w] = d]
    BY <1>0, <1>7 DEF PathRecv
  <2>2. e.kind = "closed" => place = "unwind"
    BY DEF PathResult
  <2>3. Announced(peer[w]) /\ e.kind # "closed" => Announced(d)
    BY <1>0, <2>1, AdapterHangs
  <2>4. place \in {"path", "unwind"}
    OBVIOUS
  <2> HIDE DEF e, place, d
  <2>5. InSight(place, chan[w], d)
    BY <1>0, <2>1, <2>2, <2>3, <2>4 DEF InSight, Live
  <2> QED BY <1>0, <2>1, <2>5, HangupOfWorker
<1>8. CASE PathSend(w) \/ SendDone(w)
  <2>1. PICK place \in {"path", "sending", "unwind"} : pc' = [pc EXCEPT ![w] = place]
    BY <1>8 DEF PathSend, SendDone
  <2>2. pc[w] \in Live /\ UNCHANGED <<chan, peer>>
    BY <1>8 DEF PathSend, SendDone, Live
  <2> QED BY <1>1, <2>1, <2>2
<1> QED BY <1>2, <1>3, <1>4, <1>5, <1>6, <1>7, <1>8 DEF WorkerStep

\* The callbacks: nothing follows a close, and a connection that ends does not
\* touch a channel that has opened.
LEMMA CallbacksKeepHangup ==
  ASSUME HangupInv, ConsumerInv', ConnectionInv', NEW w \in Workers, Environment(w)
  PROVE  HangupInv'
<1>0. /\ pc \in [Workers -> Places] /\ chan \in [Workers -> Channels] /\ peer \in [Workers -> Adapters]
      /\ chan[w] \in Channels /\ peer[w] \in Adapters /\ InSight(pc[w], chan[w], peer[w])
  BY DEF HangupInv, ConsumerInv, WorkersOK
<1>1. pc' = [pc EXCEPT ![w] = pc[w]]
  BY <1>0 DEF Environment, OnStateChange, OnOpen, OnMessage, OnClose, LateClose, Cancel, sessionVars
<1>2. ASSUME NEW c \in Channels, chan' = [chan EXCEPT ![w] = c], UNCHANGED peer,
             c = chan[w] \/ (chan[w] = "waiting" /\ c # "hungup" /\ pc[w] # "signal")
      PROVE  HangupInv'
  <2>1. InSight(pc[w], c, peer[w])
    BY <1>0, <1>2 DEF InSight
  <2>2. peer' = [peer EXCEPT ![w] = peer[w]]
    BY <1>0, <1>2
  <2> QED BY <1>1, <1>2, <2>1, <2>2, HangupOfWorker
<1>3. CASE (\E state \in {"up", "disconnected", "failed"} : OnStateChange(w, state)) \/ OnOpen(w)
  <2>1. PICK c \in Channels :
          /\ chan' = [chan EXCEPT ![w] = c]
          /\ c = chan[w] \/ (chan[w] = "waiting" /\ c \in {"ended", "open"})
    BY <1>0, <1>3 DEF OnStateChange, OnOpen, Channels
  <2>2. conn[w] # "new" /\ UNCHANGED peer
    BY <1>3 DEF OnStateChange, OnOpen, ConnSteps
  <2>3. pc[w] # "signal"
    BY <2>2 DEF HangupInv, ConnectionInv
  <2> QED BY <1>2, <2>1, <2>2, <2>3
<1>4. ASSUME NEW e \in PeerEvents, OnMessage(w, e) PROVE HangupInv'
  <2>1. /\ chan[w] = "open" /\ pc[w] # "signal" /\ chan' = [chan EXCEPT ![w] = chan[w]]
        /\ peer' = [peer EXCEPT ![w] = DC!OnMessage(peer[w], e)]
    BY <1>0, <1>4 DEF OnMessage, Listening
  <2>2. InSight(pc[w], chan[w], DC!OnMessage(peer[w], e))
    BY <2>1 DEF InSight
  <2> QED BY <1>0, <1>1, <2>1, <2>2, HangupOfWorker
<1>5. CASE OnClose(w)
  <2>1. chan[w] = "open" /\ chan' = [chan EXCEPT ![w] = "hungup"]
    BY <1>5 DEF OnClose
  <2>2. CASE Listening(w)
    <3>1. peer' = [peer EXCEPT ![w] = DC!OnClose(peer[w])] /\ pc[w] # "signal"
      BY <1>5, <2>2 DEF OnClose, Listening
    <3>2. InSight(pc[w], "hungup", DC!OnClose(peer[w]))
      BY <1>0, <3>1, AdapterHangs DEF InSight
    <3> QED BY <1>1, <2>1, <3>1, <3>2, HangupOfWorker DEF Channels
  <2>3. CASE ~Listening(w)
    <3>1. peer' = [peer EXCEPT ![w] = peer[w]]
      BY <1>5, <2>3 DEF OnClose
    <3>2. pc[w] \notin Live
      BY <1>0, <2>1, <2>3 DEF InSight, Listening, Live
    <3>3. InSight(pc[w], "hungup", peer[w])
      BY <3>2 DEF InSight
    <3> QED BY <1>1, <2>1, <3>1, <3>3, HangupOfWorker DEF Channels
  <2> QED BY <2>2, <2>3
<1>6. CASE LateClose(w)
  <2>1. /\ pc[w] # "signal" /\ chan' = [chan EXCEPT ![w] = chan[w]]
        /\ peer' = [peer EXCEPT ![w] = DC!AfterLateSend(peer[w])]
    BY <1>0, <1>6 DEF LateClose, Listening
  <2>2. InSight(pc[w], chan[w], DC!AfterLateSend(peer[w]))
    BY <1>0, <2>1, AdapterHangs DEF InSight
  <2> QED BY <1>0, <1>1, <2>1, <2>2, HangupOfWorker
<1>7. CASE Cancel(w)
  <2>1. UNCHANGED peer /\ chan' = [chan EXCEPT ![w] = chan[w]]
    BY <1>0, <1>7 DEF Cancel, sessionVars
  <2> QED BY <1>0, <1>2, <2>1
<1> QED BY <1>3, <1>4, <1>5, <1>6, <1>7 DEF Environment

\* For any number of workers and event queues of any size, the hang-up of a peer
\* is never lost on the session it belongs to.
THEOREM HangupSeen == ConsumerSpec => []HangupStaysAhead
<1>1. ConsumerInit => HangupInv
  <2> SUFFICES ASSUME ConsumerInit PROVE HangupInv
    OBVIOUS
  <2>1. chan \in [Workers -> Channels] /\ \A w \in Workers : pc[w] = "loop"
    BY DEF ConsumerInit, Channels
  <2>2. ConnectionInv
    BY DEF ConsumerInit, ConnectionInv, Conns
  <2> QED BY <2>1, <2>2, InitConsumerInv DEF HangupInv, InSight, Live
<1>2. HangupInv /\ [ConsumerNext]_vars => HangupInv'
  <2> SUFFICES ASSUME HangupInv, [ConsumerNext]_vars PROVE HangupInv'
    OBVIOUS
  <2>1. ConsumerInv' /\ ConnectionInv'
    BY NextConsumerInv, NextConnectionInv DEF HangupInv
  <2>2. CASE \E w \in Workers : WorkerStep(w) \/ Signal(w) \/ Environment(w)
    BY <2>1, <2>2, WorkerKeepsHangup, CallbacksKeepHangup
  <2>3. CASE QuinnRecv \/ (\E s \in Senders : QuinnSend(s)) \/ ReleaseSocket \/ UNCHANGED vars
    <3>1. UNCHANGED <<pc, chan, peer>>
      BY <2>3 DEF QuinnRecv, QuinnSend, ReleaseSocket, vars, ownVars, sessionVars
    <3> QED BY <2>1, <3>1 DEF HangupInv
  <2> QED BY <2>2, <2>3 DEF ConsumerNext
<1>3. HangupInv => HangupStaysAhead
  <2> SUFFICES ASSUME HangupInv, NEW w \in Workers, Listening(w), chan[w] = "hungup"
               PROVE  Announced(peer[w]) /\ (DC!Ready(peer[w]) \/ DC!LateSend(peer[w]))
    BY DEF HangupStaysAhead
  <2>1. peer[w] \in Adapters
    BY DEF HangupInv, ConsumerInv, WorkersOK
  <2>2. Announced(peer[w])
    BY DEF HangupInv, InSight, Listening, Live
  <2> QED BY <2>1, <2>2, AdapterHangs
<1> QED BY <1>1, <1>2, <1>3, PTL DEF ConsumerSpec
=============================================================================
