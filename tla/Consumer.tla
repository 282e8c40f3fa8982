------------------------------ MODULE Consumer ------------------------------
(***************************************************************************)
(* The consumer: maintain_consumer repeats run_consumer_session, which     *)
(* finds a peer through Freddie, waits for its DataChannel, takes a fresh  *)
(* synthetic address and runs run_consumer_path over the virtual UDP       *)
(* socket (consumer.rs, consumer_path.rs).  Several consumers (workers)    *)
(* may share one socket and one allocator.                                 *)
(*                                                                         *)
(* External parts, modelled from how the code uses them: the WebRTC        *)
(* connection of each attempt, and Quinn, which only sends to addresses it *)
(* has received a datagram from.  Signalling up to the remote description  *)
(* is one step that succeeds or fails; its messages carry no state of this *)
(* module.                                                                 *)
(*                                                                         *)
(* The selects are biased towards cancellation, so a step of the session   *)
(* is only taken while its token is not cancelled.                         *)
(***************************************************************************)
EXTENDS VirtualUdp

CONSTANTS Workers,        \* concurrent calls of maintain_consumer
          MaxAttempts,    \* bound on the attempts of each worker
          CgnatHosts,     \* CGNAT_HOSTS: size of the synthetic address space
          Sources,        \* source identities of the egress; the empty one is ""
          DcCap,          \* capacity of a DataChannel's event queue
          QuinnLengths    \* lengths of the datagrams Quinn sends

FirstPathHost == 2
LocalHost == 1
EmptySource == ""

ASSUME ConsumerAssumption ==
  /\ MaxAttempts \in Nat
  /\ CgnatHosts \in Nat /\ CgnatHosts >= FirstPathHost
  /\ FirstPathHost..CgnatHosts \subseteq Addrs
  /\ CgnatHosts <= MaxPaths + FirstPathHost   \* the path bound never binds
  /\ DcCap \in Nat \ {0}
  /\ EmptySource \in Sources
  /\ QuinnLengths \subseteq Lengths

VARIABLES
  pc,         \* pc[w]: where worker w is
  result,     \* result[w]: what the session in progress will return
  attempts, completed, failed,    \* ConsumerSummary
  cancelled,  \* cancelled[w]: the worker's CancellationToken
  conn,       \* conn[w]: state of the attempt's peer connection
  chan,       \* chan[w]: its DataChannel: "waiting" while the oneshot is unused, "open",
              \* "ended" if the connection ended first, "hungup" after on_close
  peer,       \* peer[w]: the attempt's WebRtcDatagrams
  addr,       \* addr[w]: the address allocated to the attempt
  path,       \* path[w]: the attempt's VirtualPath, or NoPath
  source,     \* source[w]: the pinned source, as a set of at most one
  nextHost,   \* SyntheticPathAllocator::next_host
  heard,      \* addresses Quinn has received from
  fed         \* fed[p]: sources whose datagrams path p put into the socket (history)

sessionVars == <<pc, result, conn, chan, peer, addr, path, source>>
countVars == <<attempts, completed, failed>>
ownVars == <<sessionVars, countVars, cancelled, nextHost, heard, fed>>
vars == <<udpVars, ownVars>>

DC == INSTANCE WebRtcDatagrams WITH Capacity <- DcCap

\* A packet, or what ends the path with an error: a text message, or bytes that
\* are no packet.
PeerEvents == [kind : {"packet"}, src : Sources, len : Lengths] \cup {[kind |-> "garbage"]}

ConsumerInit ==
  /\ Init
  /\ pc = [w \in Workers |-> "loop"]
  /\ result = [w \in Workers |-> "none"]
  /\ attempts = [w \in Workers |-> 0]
  /\ completed = [w \in Workers |-> 0]
  /\ failed = [w \in Workers |-> 0]
  /\ cancelled = [w \in Workers |-> FALSE]
  /\ conn = [w \in Workers |-> "none"]
  /\ chan = [w \in Workers |-> "waiting"]
  /\ peer = [w \in Workers |-> DC!NewDatagrams]
  /\ addr = [w \in Workers |-> NoAddr]
  /\ path = [w \in Workers |-> NoPath]
  /\ source = [w \in Workers |-> {}]
  /\ nextHost = FirstPathHost
  /\ heard = {}
  /\ fed = [p \in Paths |-> {}]

-----------------------------------------------------------------------------
(* maintain_consumer.                                                      *)

\* The top of the loop: stop, or count an attempt and start its session.
BeginAttempt(w) ==
  /\ pc[w] = "loop"
  /\ IF cancelled[w]
       THEN /\ pc' = [pc EXCEPT ![w] = "stopped"]
            /\ UNCHANGED attempts
       ELSE /\ attempts[w] < MaxAttempts
            /\ attempts' = [attempts EXCEPT ![w] = @ + 1]
            /\ pc' = [pc EXCEPT ![w] = "setup"]
  /\ UNCHANGED <<udpVars, result, completed, failed, cancelled, conn, chan, peer, addr, path,
                 source, nextHost, heard, fed>>

\* Mutant of CountsAsFailure: the error is looked at, and not the token.
CountsOwnErrors(w) == result[w] = "Err"

\* An error is a failed attempt unless the worker is being cancelled.
CountsAsFailure(w) == result[w] \in {"Err", "ErrCancelled"} /\ ~cancelled[w]

\* After run_consumer_session: count the attempt, and wait or stop.
EndAttempt(w) ==
  /\ pc[w] = "returned"
  /\ IF CountsAsFailure(w)
       THEN /\ failed' = [failed EXCEPT ![w] = @ + 1]
            /\ pc' = [pc EXCEPT ![w] = "sleep"]
            /\ UNCHANGED completed
       ELSE IF result[w] \in {"Err", "ErrCancelled", "Cancelled"}
       THEN /\ pc' = [pc EXCEPT ![w] = "stopped"]
            /\ UNCHANGED <<completed, failed>>
       ELSE /\ completed' = [completed EXCEPT ![w] = @ + 1]
            /\ pc' = [pc EXCEPT ![w] = "loop"]
            /\ UNCHANGED failed
  /\ UNCHANGED <<udpVars, result, attempts, cancelled, conn, chan, peer, addr, path,
                 source, nextHost, heard, fed>>

\* The retry delay, cut short by cancellation.
EndSleep(w) ==
  /\ pc[w] = "sleep"
  /\ pc' = [pc EXCEPT ![w] = IF cancelled[w] THEN "stopped" ELSE "loop"]
  /\ UNCHANGED <<udpVars, result, countVars, cancelled, conn, chan, peer, addr, path,
                 source, nextHost, heard, fed>>

-----------------------------------------------------------------------------
(* run_consumer_session.                                                   *)

\* The session is over before it had a path: close the connection.
GiveUp(w) ==
  /\ result' = [result EXCEPT ![w] = "Err"]
  /\ pc' = [pc EXCEPT ![w] = "closing"]

\* The connection, the channel and their callbacks.  A failure here returns
\* without close(): no callback is registered yet, and a connection whose
\* channel could not be created is only dropped.
Setup(w) ==
  /\ pc[w] = "setup"
  /\ \/ /\ pc' = [pc EXCEPT ![w] = "signal"]
        /\ conn' = [conn EXCEPT ![w] = "new"]
        /\ chan' = [chan EXCEPT ![w] = "waiting"]
        /\ peer' = [peer EXCEPT ![w] = DC!NewDatagrams]
        /\ result' = [result EXCEPT ![w] = "none"]
     \/ /\ pc' = [pc EXCEPT ![w] = "returned"]
        /\ result' = [result EXCEPT ![w] = "Err"]
        /\ UNCHANGED <<conn, chan, peer>>
  /\ UNCHANGED <<udpVars, countVars, cancelled, addr, path, source, nextHost, heard, fed>>

\* select_genesis, the offer and the answer, both descriptions ("signal"), then
\* gathering and the ICE message ("ice").  Each may fail.  The ICE agent works
\* from the moment both descriptions are set.
Signal(w) ==
  /\ pc[w] \in {"signal", "ice"}
  /\ ~cancelled[w]
  /\ \/ /\ pc' = [pc EXCEPT ![w] = IF @ = "signal" THEN "ice" ELSE "nat"]
        /\ conn' = [conn EXCEPT ![w] = IF @ = "new" THEN "described" ELSE @]
        /\ UNCHANGED result
     \/ GiveUp(w) /\ UNCHANGED conn
  /\ UNCHANGED <<udpVars, countVars, cancelled, chan, peer, addr, path, source,
                 nextHost, heard, fed>>

\* SyntheticPathAllocator::allocate gives out the hosts below the bound,
HostLeft(host) == host < CgnatHosts

\* Mutants of NextAfter: start over at the end of the range; lose the update.
NextAfterWrapped(host) == IF host + 1 < CgnatHosts THEN host + 1 ELSE FirstPathHost
NextAfterLost(host) == host

\* and never the same one again.
NextAfter(host) == host + 1

\* The wait for the DataChannel, at most nat_timeout long, and the allocation
\* of an address.
AwaitChannel(w) ==
  /\ pc[w] = "nat"
  /\ ~cancelled[w]
  /\ IF chan[w] \in {"open", "hungup"} /\ HostLeft(nextHost)
       THEN /\ addr' = [addr EXCEPT ![w] = nextHost]
            /\ nextHost' = NextAfter(nextHost)
            /\ pc' = [pc EXCEPT ![w] = "add"]
            /\ UNCHANGED result
       ELSE /\ GiveUp(w)
            /\ UNCHANGED <<addr, nextHost>>
  /\ UNCHANGED <<udpVars, countVars, cancelled, conn, chan, peer, path, source, heard, fed>>

\* run_consumer_path starts: no await separates it from the allocation, but
\* other workers run in between.
StartPath(w) ==
  /\ pc[w] = "add"
  /\ AddPath(addr[w])
  /\ path' = [path EXCEPT ![w] = count + 1]
  /\ source' = [source EXCEPT ![w] = {}]
  /\ pc' = [pc EXCEPT ![w] = "path"]
  /\ UNCHANGED <<result, countVars, cancelled, conn, chan, peer, addr, nextHost, heard, fed>>

\* Mutant of Cancellable: only the loop of run_consumer_path listens.
CancellableOnPath(w) == pc[w] \in {"path", "sending"}

\* The phases in which the outer select polls the token.
Cancellable(w) == pc[w] \in {"signal", "ice", "nat", "path", "sending"}

\* The session future is dropped by the outer select, wherever it is, or
\* run_consumer_path itself returns Cancelled.
CancelSession(w) ==
  /\ Cancellable(w)
  /\ cancelled[w]
  /\ \E r \in {"ErrCancelled"} \cup (IF pc[w] = "path" THEN {"Cancelled"} ELSE {}) :
       result' = [result EXCEPT ![w] = r]
  /\ pc' = [pc EXCEPT ![w] = IF path[w] = NoPath THEN "closing" ELSE "unwind"]
  /\ UNCHANGED <<udpVars, countVars, cancelled, conn, chan, peer, addr, path, source,
                 nextHost, heard, fed>>

\* The path is dropped with the frame of run_consumer_path: first its Drop,
\* then its fields.
Unwind(w) ==
  /\ pc[w] = "unwind"
  /\ \/ /\ DropPath(path[w])
        /\ UNCHANGED <<pc, path>>
     \/ /\ DropFields(path[w])
        /\ path' = [path EXCEPT ![w] = NoPath]
        /\ pc' = [pc EXCEPT ![w] = "closing"]
  /\ UNCHANGED <<result, countVars, cancelled, conn, chan, peer, addr, source, nextHost,
                 heard, fed>>

\* connection.close(), on every way out of the session: the channel ends with
\* it, and the adapter has gone with the session.
CloseConnection(w) ==
  /\ pc[w] = "closing"
  /\ pc' = [pc EXCEPT ![w] = "returned"]
  /\ conn' = [conn EXCEPT ![w] = "closed"]
  /\ chan' = [chan EXCEPT ![w] = "ended"]
  /\ peer' = [peer EXCEPT ![w] = DC!NewDatagrams]
  /\ UNCHANGED <<udpVars, result, countVars, cancelled, addr, path, source, nextHost, heard, fed>>

-----------------------------------------------------------------------------
(* The loop of run_consumer_path.                                          *)

\* Mutant of AcceptsSource: the source is not compared with the pinned one.
AcceptsAnySource(w, s) == s # EmptySource

\* A packet is accepted if it names a source, and the pinned one if there is.
AcceptsSource(w, s) == s # EmptySource /\ source[w] \subseteq {s}

\* What a received event makes run_consumer_path return; "none" goes on.
PathResult(w, e) ==
  IF e.kind = "closed" THEN "PeerClosed"
  ELSE IF e.kind # "packet" \/ ~AcceptsSource(w, e.src) THEN "Err"
  ELSE CASE TryReceiveResult(e.len) = "Oversize" -> "Err"
         [] TryReceiveResult(e.len) = "Closed" -> "SocketClosed"
         [] OTHER -> "none"

\* The peer's branch of the select.
PathRecv(w) ==
  LET e == DC!RecvPacket(peer[w])
      p == path[w]
  IN
  /\ pc[w] = "path"
  /\ ~cancelled[w]
  /\ DC!Ready(peer[w])
  /\ peer' = [peer EXCEPT ![w] = DC!AfterRecv(@)]
  /\ result' = [result EXCEPT ![w] = PathResult(w, e)]
  /\ pc' = [pc EXCEPT ![w] = IF PathResult(w, e) = "none" THEN "path" ELSE "unwind"]
  /\ IF e.kind = "packet" /\ AcceptsSource(w, e.src)
       THEN /\ TryReceive(p, e.len)
            /\ source' = [source EXCEPT ![w] = {e.src}]
            /\ fed' = [fed EXCEPT ![p] = IF TryReceiveResult(e.len) = "Ok" THEN @ \cup {e.src} ELSE @]
       ELSE UNCHANGED <<udpVars, source, fed>>
  /\ UNCHANGED <<countVars, cancelled, conn, chan, addr, path, nextHost, heard>>

\* The path's branch, which the biased select reaches only when the peer has
\* nothing: a datagram is taken and its send awaited.
PathSend(w) ==
  /\ pc[w] = "path"
  /\ ~cancelled[w]
  /\ ~DC!Ready(peer[w])
  /\ NextOutgoing(path[w])
  /\ pc' = [pc EXCEPT ![w] = "sending"]
  /\ UNCHANGED <<result, countVars, cancelled, conn, chan, peer, addr, path, source,
                 nextHost, heard, fed>>

\* The send completes or fails; until then the loop looks at nothing else.
SendDone(w) ==
  /\ pc[w] = "sending"
  /\ ~cancelled[w]
  /\ \/ /\ pc' = [pc EXCEPT ![w] = "path"]
        /\ UNCHANGED result
     \/ /\ result' = [result EXCEPT ![w] = "Err"]
        /\ pc' = [pc EXCEPT ![w] = "unwind"]
  /\ UNCHANGED <<udpVars, countVars, cancelled, conn, chan, peer, addr, path, source,
                 nextHost, heard, fed>>

-----------------------------------------------------------------------------
(* The attempt's WebRTC connection, as its callbacks show it.  They follow   *)
(* the connection, whatever the session is doing, until close() has returned. *)

ConnSteps == {<<"described", "up">>, <<"described", "failed">>, <<"up", "disconnected">>,
              <<"disconnected", "up">>, <<"disconnected", "failed">>}

\* The session still holds the adapter, or the oneshot that will bring it.
Listening(w) == pc[w] \in {"ice", "nat", "add", "path", "sending"}

\* on_peer_connection_state_change: a terminal state takes the oneshot if the
\* channel has not opened yet, and is otherwise ignored.
OnStateChange(w, state) ==
  /\ <<conn[w], state>> \in ConnSteps
  /\ conn' = [conn EXCEPT ![w] = state]
  /\ chan' = [chan EXCEPT ![w] = IF state # "up" /\ @ = "waiting" THEN "ended" ELSE @]
  /\ UNCHANGED <<udpVars, pc, result, countVars, cancelled, peer, addr, path, source,
                 nextHost, heard, fed>>

\* on_open: takes the oneshot and registers the message callbacks.  The channel
\* may open when the session no longer waits for it.
OnOpen(w) ==
  /\ conn[w] = "up"
  /\ chan[w] = "waiting"
  /\ chan' = [chan EXCEPT ![w] = "open"]
  /\ UNCHANGED <<udpVars, pc, result, countVars, cancelled, conn, peer, addr, path, source,
                 nextHost, heard, fed>>

\* The peer relays a packet of the egress, or something that is not one.
OnMessage(w, e) ==
  /\ Listening(w)
  /\ conn[w] = "up"
  /\ chan[w] = "open"
  /\ peer' = [peer EXCEPT ![w] = DC!OnMessage(@, e)]
  /\ UNCHANGED <<udpVars, pc, result, countVars, cancelled, conn, chan, addr, path, source,
                 nextHost, heard, fed>>

\* The peer closes the channel.
OnClose(w) ==
  /\ conn[w] # "closed"
  /\ chan[w] = "open"
  /\ chan' = [chan EXCEPT ![w] = "hungup"]
  /\ peer' = [peer EXCEPT ![w] = IF Listening(w) THEN DC!OnClose(@) ELSE @]
  /\ UNCHANGED <<udpVars, pc, result, countVars, cancelled, conn, addr, path, source,
                 nextHost, heard, fed>>

\* The detached task of on_close.
LateClose(w) ==
  /\ Listening(w)
  /\ DC!LateSend(peer[w])
  /\ peer' = [peer EXCEPT ![w] = DC!AfterLateSend(@)]
  /\ UNCHANGED <<udpVars, pc, result, countVars, cancelled, conn, chan, addr, path, source,
                 nextHost, heard, fed>>

-----------------------------------------------------------------------------
(* Quinn and the embedder.                                                 *)

QuinnRecv ==
  /\ PollRecv
  /\ heard' = heard \cup {polled'.remote}
  /\ UNCHANGED <<sessionVars, countVars, cancelled, nextHost, fed>>

QuinnSend(s) ==
  /\ \/ \E a \in heard, n \in QuinnLengths : TrySend(s, a, n)
     \/ Push(s)
  /\ UNCHANGED ownVars

Cancel(w) ==
  /\ ~cancelled[w]
  /\ cancelled' = [cancelled EXCEPT ![w] = TRUE]
  /\ UNCHANGED <<udpVars, sessionVars, countVars, nextHost, heard, fed>>

\* Every worker's configuration holds the socket until the worker returns.
MayDropSocket == \A w \in Workers : pc[w] = "stopped"

ReleaseSocket ==
  /\ MayDropSocket
  /\ DropSocket
  /\ UNCHANGED ownVars

-----------------------------------------------------------------------------
\* The steps a worker takes by itself; Signal waits for Freddie, which the
\* code puts no limit on.
WorkerStep(w) ==
  \/ BeginAttempt(w) \/ EndAttempt(w) \/ EndSleep(w)
  \/ Setup(w) \/ AwaitChannel(w) \/ StartPath(w)
  \/ CancelSession(w) \/ Unwind(w) \/ CloseConnection(w)
  \/ PathRecv(w) \/ PathSend(w) \/ SendDone(w)

Environment(w) ==
  \/ \E state \in {"up", "disconnected", "failed"} : OnStateChange(w, state)
  \/ OnOpen(w)
  \/ \E e \in PeerEvents : OnMessage(w, e)
  \/ OnClose(w)
  \/ LateClose(w)
  \/ Cancel(w)

ConsumerNext ==
  \/ \E w \in Workers : WorkerStep(w) \/ Signal(w) \/ Environment(w)
  \/ QuinnRecv
  \/ \E s \in Senders : QuinnSend(s)
  \/ ReleaseSocket

ConsumerSpec == ConsumerInit /\ [][ConsumerNext]_vars

\* Tokio runs a task that can make progress, the worker's and the detached one;
\* timers fire; close() and send() of the WebRTC library return.
FairConsumerSpec ==
  ConsumerSpec /\ \A w \in Workers : WF_vars(WorkerStep(w)) /\ WF_vars(LateClose(w))

-----------------------------------------------------------------------------
(* Properties.                                                             *)

\* The route table is exactly the set of running path tasks: a task finds its
\* own route in place for as long as it runs, and no way out of the session
\* (peer gone, bad packet, failed send, cancellation in the middle of a send)
\* leaves a route behind.  Nor does it leave a connection behind: a channel that
\* opens after the session has stopped waiting for it is closed before the next
\* attempt, and starts no path.
RoutesMatchTasks ==
  /\ \A w \in Workers : pc[w] \in {"path", "sending"} =>
       path[w] # NoPath /\ routes[addr[w]] = path[w]
  /\ \A a \in Addrs : routes[a] # NoPath =>
       \E w \in Workers : path[w] = routes[a] /\ pc[w] \in {"path", "sending", "unwind"}
  /\ \A w \in Workers : pc[w] \in {"loop", "sleep", "stopped"} => conn[w] \in {"none", "closed"}

\* Every path ever opened has an address of its own, inside the CGNAT range
\* and different from the socket's: a replacement never reuses the address of
\* the peer it replaces, whichever worker allocated it.
FreshAddresses ==
  /\ \A p, q \in 1..count : p # q => remote[p] # remote[q]
  /\ \A p \in 1..count : remote[p] > LocalHost /\ remote[p] < CgnatHosts

\* All datagrams one path puts into the socket come from a single source of
\* the egress, for the whole life of the path.
SourcePinned == \A p \in Paths : \A s, t \in fed[p] : s = t /\ s # EmptySource

\* A peer is only handed datagrams after traffic of the egress has come in
\* through that very peer: nothing Quinn sends towards a lost peer, even if it
\* is already inside try_send, ends up with the peer that replaces it.
RepliesOnly == \A p \in Paths : outgoing[p] # <<>> => fed[p] # {}

SummaryBalanced ==
  \A w \in Workers :
    LET open == attempts[w] - (completed[w] + failed[w]) IN
    /\ pc[w] \in {"loop", "sleep"} => open = 0 /\ result[w] # "ErrCancelled"
    /\ pc[w] \notin {"loop", "sleep", "stopped"} => open = 1
    /\ pc[w] = "stopped" => open \in {0, 1} /\ cancelled[w]

\* Whatever way sessions end, every attempt is accounted for once: as
\* completed, as failed, or as the one attempt that is still running or was
\* abandoned by cancellation.  A session that returns after its worker was
\* cancelled is never a failure, whatever error it returns, and only the end of
\* a path completes an attempt.
AttemptsAccounted ==
  /\ []SummaryBalanced
  /\ [][\A w \in Workers :
         /\ failed'[w] # failed[w] => ~cancelled[w] /\ result[w] = "Err"
         /\ completed'[w] # completed[w] => result[w] \in {"PeerClosed", "SocketClosed"}]_vars

\* A cancelled worker stops, wherever it is: in signalling that never gets an
\* answer, waiting for a channel, in the middle of a send, or sleeping.
CancelStops == \A w \in Workers : cancelled[w] ~> pc[w] = "stopped"

\* When the peer closes the DataChannel the path ends and the worker is ready
\* for another attempt, even if the event queue was full at that moment.
HangupEndsPath ==
  \A w \in Workers :
    pc[w] = "path" /\ chan[w] = "hungup" ~> pc[w] \in {"loop", "stopped"}

\* The documents say that on peer failure the route is removed and the worker
\* returns to Freddie.  The state-change callback ignores a connection that
\* fails after the channel has opened.
PeerFailureEndsPath ==
  \A w \in Workers :
    pc[w] = "path" /\ conn[w] = "failed" ~> pc[w] \notin {"path", "sending"}
=============================================================================
