------------------------------- MODULE Relay -------------------------------
(***************************************************************************)
(* The peer proxy's packet loop (relay) between the consumer's DataChannel  *)
(* (WebRtcDatagrams) and the egress WebSocket (EgressTunnel::recv, send).   *)
(*                                                                         *)
(* External: the consumer and the egress.  The first Tracked packets of     *)
(* each have a number, so that what becomes of them can be followed; there  *)
(* is no bound on the packets behind them, which are all numbered 0.        *)
(***************************************************************************)
EXTENDS Naturals, Sequences, FiniteSetsExt

CONSTANTS Capacity,   \* of the adapter's event queue
          InboxSize,  \* bound on the messages that wait in the WebSocket
          Tracked     \* numbered packets from each side

ASSUME RelayAssumption == Capacity \in Nat \ {0} /\ InboxSize \in Nat \ {0} /\ Tracked \in Nat

DC == INSTANCE WebRtcDatagrams

VARIABLES
  at,        \* "select", "toEgress" or "toPeer" (a send is awaited), "ended"
  hand,      \* the packet being sent; 0 when there is none
  result,    \* what relay() returns
  peer,      \* the adapter
  inbox,     \* messages that have arrived on the WebSocket
  peerEnd,   \* the DataChannel has closed
  egressEnd, \* the WebSocket has ended
  accepted,  \* how many numbered packets the adapter has queued
  arrived,   \* how many numbered packets have come in on the WebSocket
  toEgress, toPeer  \* numbered packets that were sent on

relayVars == <<at, hand, result>>
peerVars == <<peer, peerEnd, accepted>>
egressVars == <<inbox, egressEnd, arrived>>
sentVars == <<toEgress, toPeer>>
vars == <<relayVars, peerVars, egressVars, sentVars>>

Message(kind, n) == [kind |-> kind, id |-> n]
Note(log, n) == IF n = 0 THEN log ELSE Append(log, n)
Count(total, n) == IF n = 0 THEN total ELSE total + 1

Init ==
  /\ at = "select" /\ hand = 0 /\ result = "none"
  /\ peer = DC!NewDatagrams /\ peerEnd = FALSE /\ accepted = 0
  /\ inbox = <<>> /\ egressEnd = FALSE /\ arrived = 0
  /\ toEgress = <<>> /\ toPeer = <<>>

-----------------------------------------------------------------------------
(* The loop.                                                               *)

End(r) == at' = "ended" /\ result' = r /\ hand' = 0
Send(where, n) == at' = where /\ hand' = n /\ UNCHANGED result

\* Ping, Pong and Frame messages, which recv skips.
IsControl(m) == m.kind = "control"

\* recv skips the control messages at the head.
Skipped(q) ==
  LET data == {i \in DOMAIN q : ~IsControl(q[i])} IN
  IF data = {} THEN <<>> ELSE SubSeq(q, Min(data), Len(q))

\* Mutant of AfterDrop: a recv that is dropped has taken its packet.
AfterDropTaken(q) == IF Skipped(q) = <<>> THEN <<>> ELSE Tail(Skipped(q))

\* What a recv that was polled, and dropped, leaves in the socket.
AfterDrop(q) == Skipped(q)

\* recv returns once there is something that is not skipped.
EgressReady == Skipped(inbox) # <<>>

\* Mutant of PeerPolled: a biased select that prefers the egress.
PeerPolledSecond == ~EgressReady

\* The select has no bias: it starts with either branch.
PeerPolled == TRUE

\* peer.recv_packet() is ready.  The other branch is dropped, polled or not.
PeerBranch ==
  /\ at = "select"
  /\ DC!Ready(peer)
  /\ PeerPolled
  /\ peer' = DC!AfterRecv(peer)
  /\ inbox' \in {inbox, AfterDrop(inbox)}
  /\ LET event == DC!RecvPacket(peer) IN
     \/ event.kind = "packet" /\ Send("toEgress", event.id)
     \/ event.kind = "text" /\ End("Peer")
     \/ event.kind = "closed" /\ End("PeerClosed")
  /\ UNCHANGED <<peerEnd, accepted, egressEnd, arrived, sentVars>>

\* egress.recv_packet() is ready.
EgressBranch ==
  /\ at = "select"
  /\ EgressReady
  /\ inbox' = Tail(Skipped(inbox))
  /\ LET message == Head(Skipped(inbox)) IN
     \/ message.kind = "binary" /\ Send("toPeer", message.id)
     \/ message.kind = "close" /\ End("EgressClosed")
     \/ message.kind \in {"text", "error"} /\ End("Egress")
  /\ UNCHANGED <<peerVars, egressEnd, arrived, sentVars>>

\* egress.send_packet(packet).await
SendToEgress ==
  /\ at = "toEgress"
  /\ \/ toEgress' = Note(toEgress, hand) /\ Send("select", 0)
     \/ End("Egress") /\ UNCHANGED toEgress
  /\ UNCHANGED <<peerVars, egressVars, toPeer>>

\* peer.send_packet(packet).await
SendToPeer ==
  /\ at = "toPeer"
  /\ \/ toPeer' = Note(toPeer, hand) /\ Send("select", 0)
     \/ End("Peer") /\ UNCHANGED toPeer
  /\ UNCHANGED <<peerVars, egressVars, toEgress>>

-----------------------------------------------------------------------------
(* The two sides.                                                          *)

NextId(total) == IF total < Tracked THEN total + 1 ELSE 0

\* External: a message on the DataChannel; on_message may have no room for it.
PeerSends ==
  /\ at # "ended" /\ ~peerEnd
  /\ \E event \in {Message("packet", NextId(accepted)), Message("text", 0)} :
       /\ peer' = DC!OnMessage(peer, event)
       /\ accepted' = IF DC!HasSlot(peer) THEN Count(accepted, event.id) ELSE accepted
  /\ UNCHANGED <<relayVars, peerEnd, egressVars, sentVars>>

\* External: the DataChannel closes.
PeerCloses ==
  /\ at # "ended" /\ ~peerEnd
  /\ peerEnd' = TRUE
  /\ peer' = DC!OnClose(peer)
  /\ UNCHANGED <<relayVars, accepted, egressVars, sentVars>>

\* The detached task of on_close.
LateClose ==
  /\ at # "ended"
  /\ DC!LateSend(peer)
  /\ peer' = DC!AfterLateSend(peer)
  /\ UNCHANGED <<relayVars, peerEnd, accepted, egressVars, sentVars>>

\* External: a message on the WebSocket; a close or an error is its last.  An
\* end of the stream without a close frame reads like one.
EgressSends ==
  /\ at # "ended" /\ ~egressEnd
  /\ Len(inbox) < InboxSize
  /\ \E message \in {Message("binary", NextId(arrived)), Message("control", 0),
                     Message("text", 0), Message("close", 0), Message("error", 0)} :
       /\ inbox' = Append(inbox, message)
       /\ arrived' = Count(arrived, message.id)
       /\ egressEnd' = (message.kind \in {"close", "error"})
  /\ UNCHANGED <<relayVars, peerVars, sentVars>>

Next ==
  \/ PeerBranch \/ EgressBranch \/ SendToEgress \/ SendToPeer
  \/ PeerSends \/ PeerCloses \/ LateClose \/ EgressSends

\* The loop and the detached task are polled, and the select's random start gives
\* a branch that is ready again and again its turn.  A send may take for ever.
Spec ==
  /\ Init
  /\ [][Next]_vars
  /\ SF_vars(PeerBranch) /\ SF_vars(EgressBranch) /\ WF_vars(LateClose)

-----------------------------------------------------------------------------
IsNumbered(m) == m.kind \in {"packet", "binary"} /\ m.id # 0
Numbered(q) == {i \in DOMAIN q : IsNumbered(q[i])}

\* The numbered packets that wait in q are those from first to last, in order.
Waiting(q, first, last) ==
  /\ {q[i].id : i \in Numbered(q)} = first .. last
  /\ \A i, j \in Numbered(q) : i < j => q[i].id < q[j].id

\* Packets 1 to n, in order.
Packets(n) == [i \in 1..n |-> i]

\* Of the packets taken in, the first ones were sent, the next one may be in
\* hand, and the rest waits.
InTransit(taken, sent, held, q) ==
  /\ sent = Packets(Len(sent))
  /\ Len(sent) + held <= taken
  /\ Waiting(q, Len(sent) + held + 1, taken)

Held(where) == IF at = where /\ hand # 0 THEN 1 ELSE 0

\* Each packet that has been taken in on one side is sent on the other once,
\* in order, or is still on its way: dropping the branch that was not ready
\* loses nothing, and neither does a close that finds the event queue full.
PacketsConserved ==
  at # "ended" =>
    /\ InTransit(accepted, toEgress, Held("toEgress"), peer.queue)
    /\ Held("toEgress") = 1 => hand = Len(toEgress) + 1
    /\ InTransit(arrived, toPeer, Held("toPeer"), inbox)
    /\ Held("toPeer") = 1 => hand = Len(toPeer) + 1

\* An orderly end is reported for the side that ended, and only after all that
\* this side had handed over was forwarded.
OrderlyEnd ==
  /\ result = "PeerClosed" => peerEnd /\ toEgress = Packets(accepted)
  /\ result = "EgressClosed" => egressEnd /\ toPeer = Packets(arrived)

\* A side that has ended ends the relay, however fast the other side keeps
\* sending and however full the event queue was, unless a send never returns.
HangupEndsRelay ==
  <>[](at \in {"toEgress", "toPeer"}) \/ (peerEnd \/ egressEnd ~> at = "ended")
=============================================================================
