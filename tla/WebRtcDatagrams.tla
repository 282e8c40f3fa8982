--------------------------- MODULE WebRtcDatagrams ---------------------------
(***************************************************************************)
(* The adapter between a WebRTC DataChannel and the packet loops (rtc.rs): *)
(* the channel's callbacks put events into a bounded queue, recv_packet    *)
(* takes them out.  An adapter is a record: its queue, and whether a       *)
(* detached task still has the Closed event to put in.                     *)
(* An event is a record with a kind; the users name the kinds of messages, *)
(* and "closed" is the end of the channel.                                 *)
(***************************************************************************)
EXTENDS Naturals, Sequences

CONSTANT Capacity       \* capacity of the event queue

ClosedEvent == [kind |-> "closed"]

\* WebRtcDatagrams::with_capacity
NewDatagrams == [queue |-> <<>>, late |-> FALSE]

HasSlot(d) == Len(d.queue) < Capacity

\* on_message: a full queue loses the message.
OnMessage(d, event) ==
  IF HasSlot(d) THEN [d EXCEPT !.queue = Append(@, event)] ELSE d

\* Mutant of OnClose: the close signal is dropped like any other message.
OnCloseDropped(d) == OnMessage(d, ClosedEvent)

\* Mutant of OnClose: the oldest event makes room for the close signal.
OnCloseMakingRoom(d) ==
  [d EXCEPT !.queue = Append(IF HasSlot(d) THEN @ ELSE Tail(@), ClosedEvent)]

\* on_close: a full queue leaves the Closed event to a detached task.
OnClose(d) ==
  IF HasSlot(d) THEN [d EXCEPT !.queue = Append(@, ClosedEvent)]
                ELSE [d EXCEPT !.late = TRUE]

\* The detached task is polled when there is room for its event.
LateSend(d) == d.late /\ HasSlot(d)
AfterLateSend(d) == [queue |-> Append(d.queue, ClosedEvent), late |-> FALSE]

\* recv_packet takes the oldest event.
Ready(d) == d.queue # <<>>
RecvPacket(d) == Head(d.queue)
AfterRecv(d) == [d EXCEPT !.queue = Tail(@)]
=============================================================================
