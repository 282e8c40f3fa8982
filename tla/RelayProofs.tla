---------------------------- MODULE RelayProofs ----------------------------
(***************************************************************************)
(* Proofs about the relay: no packet is lost, repeated or reordered, for    *)
(* any number of packets and queues of any size, an orderly end comes after *)
(* the packets of the side that ended, and no close is lost.                *)
(***************************************************************************)
EXTENDS Relay, WellFoundedInduction, TLAPS

(***************************************************************************)
(* The inductive invariant.                                                *)
(***************************************************************************)
Kinds == {"packet", "text", "binary", "control", "close", "error"}
Messages == [kind : Kinds, id : Nat] \cup {DC!ClosedEvent}
Adapters == [queue : Seq(Messages), late : BOOLEAN]

RelayTypeOK ==
  /\ at \in {"select", "toEgress", "toPeer", "ended"}
  /\ hand \in Nat
  /\ peer \in Adapters
  /\ inbox \in Seq(Messages)
  /\ accepted \in Nat /\ arrived \in Nat
  /\ toEgress \in Seq(Nat) /\ toPeer \in Seq(Nat)

\* What ends a side is the last thing it hands over.
LastOfPeer ==
  /\ \A i \in DOMAIN peer.queue :
       peer.queue[i].kind = "closed" => i = Len(peer.queue) /\ ~peer.late /\ peerEnd
  /\ peer.late => peerEnd

LastOfEgress ==
  \A i \in DOMAIN inbox : inbox[i].kind = "close" => i = Len(inbox) /\ egressEnd

RelayInv ==
  /\ RelayTypeOK
  /\ at = "select" => hand = 0
  /\ result # "none" => at = "ended"
  /\ PacketsConserved
  /\ LastOfPeer
  /\ LastOfEgress
  /\ OrderlyEnd

(***************************************************************************)
(* What waits in a queue.  Zenon proves the leaves that do not name another *)
(* prover.                                                                 *)
(***************************************************************************)
USE Zenon

\* A set of numbers that is not empty has a minimum.
LEMMA MinIsLeast ==
  ASSUME NEW S, S \subseteq Nat, S # {}
  PROVE  Min(S) \in S /\ \A n \in S : Min(S) <= n
<1> DEFINE less == {pair \in Nat \X Nat : pair[1] < pair[2]}
<1>1. IsWellFoundedOn(less, Nat)
  BY NatLessThanWellFounded DEF OpToRel
<1>2. \A m, n \in S : m < n => <<m, n>> \in less
  OBVIOUS
<1> HIDE DEF less
<1>3. PICK m \in S : \A n \in S : <<n, m>> \notin less
  BY <1>1, WFMin
<1>4. ASSUME NEW n \in S PROVE m <= n
  <2>1. ~(n < m)
    BY <1>2, <1>3
  <2> QED BY <2>1, SMT
<1> QED BY <1>4 DEF Min

\* What is left when the first k messages are gone, none of them a numbered
\* packet, waits as before.
LEMMA WaitingSuffix ==
  ASSUME NEW q \in Seq(Messages), NEW s \in Seq(Messages), NEW k \in 0..Len(q),
         Len(s) = Len(q) - k, \A i \in 1..Len(s) : s[i] = q[i + k],
         \A i \in 1..k : ~IsNumbered(q[i]),
         NEW first \in Nat, NEW last \in Nat, Waiting(q, first, last)
  PROVE  Waiting(s, first, last)
<1>1. /\ \A i \in Numbered(q) : q[i].id \in first..last
      /\ \A n \in first..last : \E i \in Numbered(q) : q[i].id = n
      /\ \A i, j \in Numbered(q) : i < j => q[i].id < q[j].id
  BY DEF Waiting
<1>2. DOMAIN q = 1..Len(q) /\ DOMAIN s = 1..Len(s) /\ Len(q) \in Nat
  BY SMT
<1>3. /\ \A i \in Numbered(q) : i \in 1..Len(q) /\ IsNumbered(q[i])
      /\ \A i \in 1..Len(q) : IsNumbered(q[i]) => i \in Numbered(q)
      /\ \A i \in Numbered(s) : i \in 1..Len(s) /\ IsNumbered(s[i])
      /\ \A i \in 1..Len(s) : IsNumbered(s[i]) => i \in Numbered(s)
  BY <1>2 DEF Numbered
<1>4. ASSUME NEW i \in Numbered(s) PROVE i \in 1..Len(s) /\ i + k \in Numbered(q) /\ s[i] = q[i + k]
  <2>1. i \in 1..Len(s) /\ i + k \in 1..Len(q)
    BY <1>2, <1>3, SMT
  <2> QED BY <1>3, <2>1
<1>5. ASSUME NEW i \in Numbered(s), NEW j \in Numbered(s), i < j PROVE s[i].id < s[j].id
  <2>1. i + k < j + k
    BY <1>4, <1>5, SMT
  <2> QED BY <1>1, <1>4, <2>1
<1>6. \A i \in Numbered(s) : s[i].id \in first..last
  BY <1>1, <1>4
<1>7. ASSUME NEW n \in first..last PROVE \E i \in Numbered(s) : s[i].id = n
  <2>1. PICK j \in Numbered(q) : q[j].id = n
    BY <1>1
  <2>2. j \in 1..Len(q) /\ ~(j \in 1..k)
    BY <1>3
  <2>3. j - k \in 1..Len(s) /\ (j - k) + k = j
    BY <1>2, <2>2, SMT
  <2>4. s[j - k] = q[j]
    BY <2>3
  <2>5. j - k \in Numbered(s)
    BY <1>3, <2>3, <2>4
  <2> QED BY <2>1, <2>4, <2>5
<1>8. {s[i].id : i \in Numbered(s)} = first..last
  BY <1>6, <1>7
<1> QED BY <1>5, <1>8 DEF Waiting

\* recv_packet takes the first of the packets that wait, if what it takes is a
\* numbered packet, and none of them otherwise.
LEMMA WaitingHead ==
  ASSUME NEW q \in Seq(Messages), q # <<>>, NEW first \in Nat, NEW last \in Nat,
         Waiting(q, first, last)
  PROVE  /\ IsNumbered(Head(q)) => /\ Head(q).id = first /\ first <= last
                                   /\ Waiting(Tail(q), first + 1, last)
         /\ ~IsNumbered(Head(q)) => Waiting(Tail(q), first, last)
<1> DEFINE t == Tail(q)
<1>1. /\ Len(q) >= 1 /\ Head(q) = q[1] /\ t \in Seq(Messages) /\ Len(t) = Len(q) - 1
      /\ \A i \in 1..Len(t) : i + 1 \in 1..Len(q) /\ t[i] = q[i + 1]
  BY SMT
<1> HIDE DEF t
<1>2. /\ \A i \in Numbered(q) : q[i].id \in first..last
      /\ \A n \in first..last : \E i \in Numbered(q) : q[i].id = n
      /\ \A i, j \in Numbered(q) : i < j => q[i].id < q[j].id
  BY DEF Waiting
<1>3. /\ \A i \in Numbered(q) : i \in 1..Len(q)
      /\ \A i \in Numbered(t) : i \in 1..Len(t) /\ i + 1 \in Numbered(q)
      /\ \A i \in Numbered(q) : i # 1 => i - 1 \in Numbered(t)
      /\ 1 \in Numbered(q) <=> IsNumbered(Head(q))
  <2>1. DOMAIN q = 1..Len(q) /\ DOMAIN t = 1..Len(t) /\ Len(q) \in Nat
    BY <1>1, SMT
  <2>2. /\ \A i \in Numbered(q) : i \in 1..Len(q) /\ IsNumbered(q[i])
        /\ \A i \in 1..Len(q) : IsNumbered(q[i]) => i \in Numbered(q)
        /\ \A i \in Numbered(t) : i \in 1..Len(t) /\ IsNumbered(t[i])
        /\ \A i \in 1..Len(t) : IsNumbered(t[i]) => i \in Numbered(t)
    BY <2>1 DEF Numbered
  <2>3. ASSUME NEW i \in Numbered(q), i # 1 PROVE i - 1 \in Numbered(t)
    <3>1. i \in 1..Len(q) /\ i - 1 \in 1..Len(t) /\ (i - 1) + 1 = i
      BY <1>1, <2>1, <2>2, <2>3, SMT
    <3>2. t[i - 1] = q[i]
      BY <1>1, <3>1
    <3> QED BY <2>2, <3>1, <3>2
  <2>4. 1 \in Numbered(q) <=> IsNumbered(Head(q))
    BY <1>1, <2>1, <2>2, SMT
  <2>5. \A i \in Numbered(t) : i + 1 \in Numbered(q)
    BY <1>1, <2>2
  <2> QED BY <2>2, <2>3, <2>4, <2>5
<1>4. ASSUME NEW i \in Numbered(t), NEW j \in Numbered(t), i < j PROVE t[i].id < t[j].id
  <2>1. i + 1 \in Numbered(q) /\ j + 1 \in Numbered(q) /\ i + 1 < j + 1
    BY <1>3, <1>4, SMT
  <2>2. t[i] = q[i + 1] /\ t[j] = q[j + 1]
    BY <1>1, <1>3
  <2> QED BY <1>2, <2>1, <2>2
<1>5. CASE IsNumbered(Head(q))
  <2>1. q[1].id = first /\ first <= last
    <3>1. 1 \in Numbered(q) /\ q[1].id \in first..last
      BY <1>2, <1>3, <1>5
    <3>2. PICK i \in Numbered(q) : q[i].id = first
      BY <1>2, <3>1, SMT
    <3>3. i = 1 \/ 1 < i
      BY <1>3, SMT
    <3>4. 1 < i => q[1].id < q[i].id
      BY <1>2, <3>1
    <3> QED BY <3>1, <3>2, <3>3, <3>4, SMT
  <2>2. ASSUME NEW i \in Numbered(t) PROVE t[i].id \in first + 1 .. last
    <3>1. 1 \in Numbered(q) /\ i + 1 \in Numbered(q) /\ 1 < i + 1 /\ t[i] = q[i + 1]
      BY <1>1, <1>3, <1>5, SMT
    <3>2. q[1].id < q[i + 1].id /\ q[i + 1].id \in first..last
      BY <1>2, <3>1
    <3> QED BY <2>1, <3>1, <3>2, SMT
  <2>3. \A n \in first + 1 .. last : \E i \in Numbered(t) : t[i].id = n
    <3> SUFFICES ASSUME NEW n \in first + 1 .. last PROVE \E i \in Numbered(t) : t[i].id = n
      OBVIOUS
    <3>1. PICK j \in Numbered(q) : q[j].id = n
      BY <1>2, SMT
    <3>2. j # 1 /\ j \in 1..Len(q)
      BY <1>3, <2>1, <3>1, SMT
    <3>3. j - 1 \in Numbered(t) /\ j - 1 \in 1..Len(t) /\ (j - 1) + 1 = j
      BY <1>1, <1>3, <3>2, SMT
    <3>4. t[j - 1].id = n
      BY <1>1, <3>1, <3>3
    <3> QED BY <3>3, <3>4
  <2>4. Waiting(t, first + 1, last)
    BY <1>4, <2>2, <2>3 DEF Waiting
  <2> QED BY <1>1, <1>5, <2>1, <2>4 DEF t
<1>6. CASE ~IsNumbered(Head(q))
  <2>1. 1 \in 0..Len(q) /\ \A i \in 1..1 : ~IsNumbered(q[i])
    BY <1>1, <1>6, SMT
  <2> QED BY <1>1, <1>6, <2>1, WaitingSuffix DEF t
<1> QED BY <1>5, <1>6

\* A numbered packet that comes in is the next one, and waits behind the
\* others; other messages are no packets to wait for.
LEMMA WaitingAppend ==
  ASSUME NEW q \in Seq(Messages), NEW m \in Messages,
         NEW first \in Nat, NEW last \in Nat, first <= last + 1, Waiting(q, first, last)
  PROVE  /\ IsNumbered(m) /\ m.id = last + 1 => Waiting(Append(q, m), first, last + 1)
         /\ ~IsNumbered(m) => Waiting(Append(q, m), first, last)
<1> DEFINE a == Append(q, m)
<1>1. /\ a \in Seq(Messages) /\ Len(a) = Len(q) + 1 /\ a[Len(q) + 1] = m
      /\ \A i \in 1..Len(q) : a[i] = q[i]
      /\ DOMAIN q = 1..Len(q) /\ DOMAIN a = 1..Len(a) /\ Len(q) \in Nat
  BY SMT
<1> HIDE DEF a
<1>2. /\ \A i \in Numbered(q) : q[i].id \in first..last
      /\ \A n \in first..last : \E i \in Numbered(q) : q[i].id = n
      /\ \A i, j \in Numbered(q) : i < j => q[i].id < q[j].id
  BY DEF Waiting
<1>3. /\ \A i \in Numbered(q) : i \in 1..Len(q) /\ IsNumbered(q[i])
      /\ \A i \in 1..Len(q) : IsNumbered(q[i]) => i \in Numbered(q)
      /\ \A i \in Numbered(a) : i \in 1..Len(a) /\ IsNumbered(a[i])
      /\ \A i \in 1..Len(a) : IsNumbered(a[i]) => i \in Numbered(a)
  BY <1>1 DEF Numbered
<1>4. ASSUME NEW i \in Numbered(q) PROVE i \in Numbered(a) /\ a[i] = q[i]
  <2>1. i \in 1..Len(q) /\ i \in 1..Len(a)
    BY <1>1, <1>3, SMT
  <2> QED BY <1>1, <1>3, <2>1
<1>5. ASSUME NEW i \in Numbered(a)
      PROVE  \/ i \in Numbered(q) /\ i \in 1..Len(q) /\ a[i] = q[i]
             \/ i = Len(q) + 1 /\ a[i] = m /\ IsNumbered(m)
  <2>1. i \in 1..Len(q) \/ i = Len(q) + 1
    BY <1>1, <1>3, SMT
  <2> QED BY <1>1, <1>3, <2>1
<1>6. CASE IsNumbered(m) /\ m.id = last + 1
  <2>1. ASSUME NEW i \in Numbered(a) PROVE a[i].id \in first .. last + 1
    BY <1>2, <1>5, <1>6, SMT
  <2>2. ASSUME NEW n \in first .. last + 1 PROVE \E i \in Numbered(a) : a[i].id = n
    <3>1. CASE n = last + 1
      <4>1. Len(q) + 1 \in Numbered(a)
        BY <1>1, <1>3, <1>6, SMT
      <4> QED BY <1>1, <1>6, <3>1, <4>1
    <3>2. CASE n # last + 1
      <4>1. n \in first..last
        BY <3>2, SMT
      <4> QED BY <1>2, <1>4, <4>1
    <3> QED BY <3>1, <3>2
  <2>3. ASSUME NEW i \in Numbered(a), NEW j \in Numbered(a), i < j PROVE a[i].id < a[j].id
    <3>1. i \in Numbered(q) /\ a[i] = q[i] /\ q[i].id \in first..last
      BY <1>1, <1>2, <1>3, <1>5, <2>3, SMT
    <3> QED BY <1>2, <1>5, <1>6, <2>3, <3>1, SMT
  <2>4. Waiting(a, first, last + 1)
    BY <2>1, <2>2, <2>3 DEF Waiting
  <2> QED BY <1>6, <2>4 DEF a
<1>7. CASE ~IsNumbered(m)
  <2>1. /\ \A i \in Numbered(a) : a[i].id \in first..last
        /\ \A i, j \in Numbered(a) : i < j => a[i].id < a[j].id
        /\ \A n \in first..last : \E i \in Numbered(a) : a[i].id = n
    BY <1>2, <1>4, <1>5, <1>7
  <2>2. Waiting(a, first, last)
    BY <2>1 DEF Waiting
  <2> QED BY <1>7, <2>2 DEF a
<1> QED BY <1>6, <1>7

\* recv skips control messages, which are no packets, and changes nothing else.
LEMMA SkippedShape ==
  ASSUME NEW q \in Seq(Messages)
  PROVE  /\ Skipped(q) \in Seq(Messages)
         /\ \E k \in 0..Len(q) :
              /\ Len(Skipped(q)) = Len(q) - k
              /\ \A i \in 1..Len(Skipped(q)) : Skipped(q)[i] = q[i + k]
              /\ \A i \in 1..k : IsControl(q[i])
<1> DEFINE data == {i \in DOMAIN q : ~IsControl(q[i])}
<1>1. DOMAIN q = 1..Len(q) /\ Len(q) \in Nat
  BY SMT
<1>2. CASE data = {}
  <2>1. Skipped(q) = <<>>
    BY <1>2 DEF Skipped
  <2>2. \A i \in 1..Len(q) : IsControl(q[i])
    BY <1>1, <1>2
  <2>3. Len(q) \in 0..Len(q) /\ Len(<<>>) = Len(q) - Len(q) /\ <<>> \in Seq(Messages)
    BY <1>1, SMT
  <2>4. \A i \in 1..Len(<<>>) : <<>>[i] = q[i + Len(q)]
    BY SMT
  <2> QED BY <2>1, <2>2, <2>3, <2>4
<1>3. CASE data # {}
  <2> DEFINE k == Min(data)
  <2>1. data \subseteq Nat
    BY <1>1, SMT
  <2>2. k \in data /\ \A n \in data : k <= n
    BY <1>3, <2>1, MinIsLeast
  <2>3. Skipped(q) = SubSeq(q, k, Len(q))
    BY <1>3 DEF Skipped
  <2>4. k \in 1..Len(q) /\ \A i \in 1 .. k - 1 : IsControl(q[i])
    <3>1. k \in 1..Len(q)
      BY <1>1, <2>2
    <3>2. ASSUME NEW i \in 1 .. k - 1 PROVE IsControl(q[i])
      <4>1. i \in 1..Len(q) /\ ~(k <= i)
        BY <1>1, <3>1, SMT
      <4> QED BY <1>1, <2>2, <4>1
    <3> QED BY <3>1, <3>2
  <2> HIDE DEF k
  <2>5. /\ SubSeq(q, k, Len(q)) \in Seq(Messages) /\ Len(SubSeq(q, k, Len(q))) = Len(q) - (k - 1)
        /\ \A i \in 1..Len(SubSeq(q, k, Len(q))) : SubSeq(q, k, Len(q))[i] = q[i + (k - 1)]
    BY <1>1, <2>4, SMT
  <2>6. k - 1 \in 0..Len(q)
    BY <2>4, SMT
  <2> QED BY <2>3, <2>4, <2>5, <2>6
<1> QED BY <1>2, <1>3

(***************************************************************************)
(* Messages and the adapter.                                               *)
(***************************************************************************)
\* What the kind of a message says about it.
LEMMA MessageFacts ==
  /\ DC!ClosedEvent \in Messages /\ DC!ClosedEvent.kind = "closed" /\ ~IsNumbered(DC!ClosedEvent)
  /\ \A m \in Messages : /\ m.kind # "closed" => m.id \in Nat
                         /\ m.kind \notin {"packet", "binary"} => ~IsNumbered(m)
                         /\ m.kind \in {"packet", "binary"} => (IsNumbered(m) <=> m.id # 0)
  /\ \A k \in Kinds, n \in Nat :
       Message(k, n) \in Messages /\ Message(k, n).kind = k /\ Message(k, n).id = n
<1>1. DC!ClosedEvent \in Messages /\ DC!ClosedEvent.kind = "closed"
  BY DEF Messages, DC!ClosedEvent
<1>2. ~IsNumbered(DC!ClosedEvent)
  BY <1>1 DEF IsNumbered
<1>3. ASSUME NEW m \in Messages, m.kind # "closed" PROVE m.id \in Nat
  BY <1>1, <1>3 DEF Messages
<1>4. ASSUME NEW k \in Kinds, NEW n \in Nat
      PROVE  Message(k, n) \in Messages /\ Message(k, n).kind = k /\ Message(k, n).id = n
  BY DEF Message, Messages
<1>5. ASSUME NEW m \in Messages
      PROVE  /\ m.kind \notin {"packet", "binary"} => ~IsNumbered(m)
             /\ m.kind \in {"packet", "binary"} => (IsNumbered(m) <=> m.id # 0)
  BY DEF IsNumbered
<1> QED BY <1>1, <1>2, <1>3, <1>4, <1>5

\* recv_packet takes the head of the queue.
LEMMA AdapterRecv ==
  ASSUME NEW d \in Adapters, DC!Ready(d)
  PROVE  /\ d.queue \in Seq(Messages) /\ d.queue # <<>> /\ Tail(d.queue) \in Seq(Messages)
         /\ DC!RecvPacket(d) = Head(d.queue) /\ Head(d.queue) \in Messages
         /\ DC!AfterRecv(d) \in Adapters
         /\ DC!AfterRecv(d).late = d.late /\ DC!AfterRecv(d).queue = Tail(d.queue)
<1>1. d.queue \in Seq(Messages) /\ d.queue # <<>> /\ d.late \in BOOLEAN
  BY DEF Adapters, DC!Ready
<1>2. Tail(d.queue) \in Seq(Messages) /\ Head(d.queue) \in Messages
  BY <1>1, SMT
<1>3. DC!AfterRecv(d) = [d EXCEPT !.queue = Tail(d.queue)]
  BY DEF DC!AfterRecv
<1>4. [d EXCEPT !.queue = Tail(d.queue)] \in Adapters
  BY <1>2 DEF Adapters
<1>5. /\ [d EXCEPT !.queue = Tail(d.queue)].queue = Tail(d.queue)
      /\ [d EXCEPT !.queue = Tail(d.queue)].late = d.late
  BY <1>1 DEF Adapters
<1> QED BY <1>1, <1>2, <1>3, <1>4, <1>5 DEF DC!RecvPacket

\* The detached task puts its event at the end.
LEMMA AdapterLateSend ==
  ASSUME NEW d \in Adapters
  PROVE  /\ DC!AfterLateSend(d) \in Adapters /\ ~DC!AfterLateSend(d).late
         /\ DC!AfterLateSend(d).queue = Append(d.queue, DC!ClosedEvent)
<1>1. Append(d.queue, DC!ClosedEvent) \in Seq(Messages)
  BY MessageFacts, SMT DEF Adapters
<1>2. DC!AfterLateSend(d) = [queue |-> Append(d.queue, DC!ClosedEvent), late |-> FALSE]
  BY DEF DC!AfterLateSend
<1> QED BY <1>1, <1>2, SMT DEF Adapters

\* on_message queues the message or loses it.
LEMMA AdapterMessage ==
  ASSUME NEW d \in Adapters, NEW m \in Messages
  PROVE  /\ DC!OnMessage(d, m) \in Adapters /\ DC!OnMessage(d, m).late = d.late
         /\ DC!HasSlot(d) => DC!OnMessage(d, m).queue = Append(d.queue, m)
         /\ ~DC!HasSlot(d) => DC!OnMessage(d, m).queue = d.queue
<1>1. d.queue \in Seq(Messages) /\ Append(d.queue, m) \in Seq(Messages)
  BY SMT DEF Adapters
<1> QED BY <1>1 DEF DC!OnMessage, DC!HasSlot, Adapters

\* on_close queues the Closed event, now or later.
LEMMA AdapterClose ==
  ASSUME NEW d \in Adapters
  PROVE  /\ DC!OnClose(d) \in Adapters
         /\ \/ DC!OnClose(d).queue = Append(d.queue, DC!ClosedEvent) /\ DC!OnClose(d).late = d.late
            \/ DC!OnClose(d).queue = d.queue /\ DC!OnClose(d).late
<1>1. d.queue \in Seq(Messages) /\ Append(d.queue, DC!ClosedEvent) \in Seq(Messages)
  BY MessageFacts, SMT DEF Adapters
<1> QED BY <1>1 DEF DC!OnClose, DC!HasSlot, Adapters

(***************************************************************************)
(* What the steps of the relay do to the packets of one direction.         *)
(***************************************************************************)
\* Taking a message from the queue: the next packet is in hand, or it was none.
LEMMA TransitTake ==
  ASSUME NEW q \in Seq(Messages), q # <<>>, NEW taken \in Nat, NEW sent \in Seq(Nat),
         InTransit(taken, sent, 0, q)
  PROVE  /\ IsNumbered(Head(q)) => /\ Head(q).id = Len(sent) + 1
                                   /\ InTransit(taken, sent, 1, Tail(q))
         /\ ~IsNumbered(Head(q)) => InTransit(taken, sent, 0, Tail(q))
<1>1. /\ Len(sent) \in Nat /\ Len(sent) + 0 + 1 = Len(sent) + 1 /\ Len(sent) + 0 <= taken
      /\ (Len(sent) + 1) + 1 = Len(sent) + 1 + 1
  BY SMT DEF InTransit
<1>2. Waiting(q, Len(sent) + 1, taken)
  BY <1>1 DEF InTransit
<1>3. CASE IsNumbered(Head(q))
  <2>1. /\ Head(q).id = Len(sent) + 1 /\ Len(sent) + 1 <= taken
        /\ Waiting(Tail(q), Len(sent) + 1 + 1, taken)
    BY <1>1, <1>2, <1>3, WaitingHead, SMT
  <2> QED BY <1>3, <2>1 DEF InTransit
<1>4. CASE ~IsNumbered(Head(q))
  <2>1. Waiting(Tail(q), Len(sent) + 0 + 1, taken)
    BY <1>1, <1>2, <1>4, WaitingHead, SMT
  <2> QED BY <1>4, <2>1 DEF InTransit
<1> QED BY <1>3, <1>4

\* Putting a message into the queue: the next packet, or no packet.
LEMMA TransitPut ==
  ASSUME NEW q \in Seq(Messages), NEW m \in Messages, NEW taken \in Nat, NEW sent \in Seq(Nat),
         NEW held \in {0, 1}, InTransit(taken, sent, held, q)
  PROVE  /\ IsNumbered(m) /\ m.id = taken + 1 => InTransit(taken + 1, sent, held, Append(q, m))
         /\ ~IsNumbered(m) => InTransit(taken, sent, held, Append(q, m))
<1>1. /\ Len(sent) + held + 1 \in Nat /\ Len(sent) + held + 1 <= taken + 1
      /\ Len(sent) + held <= taken + 1
  BY SMT DEF InTransit
<1>2. /\ IsNumbered(m) /\ m.id = taken + 1
           => Waiting(Append(q, m), Len(sent) + held + 1, taken + 1)
      /\ ~IsNumbered(m) => Waiting(Append(q, m), Len(sent) + held + 1, taken)
  BY <1>1, WaitingAppend DEF InTransit
<1> QED BY <1>1, <1>2 DEF InTransit

\* Sending what is in hand.
LEMMA TransitSend ==
  ASSUME NEW q \in Seq(Messages), NEW taken \in Nat, NEW sent \in Seq(Nat),
         InTransit(taken, sent, 1, q)
  PROVE  InTransit(taken, Append(sent, Len(sent) + 1), 0, q)
<1> DEFINE more == Append(sent, Len(sent) + 1)
<1>1. Len(more) = Len(sent) + 1 /\ more \in Seq(Nat) /\ Len(sent) \in Nat
  BY SMT
<1>2. more = Packets(Len(more))
  <2>1. sent = [i \in 1..Len(sent) |-> i]
    BY DEF InTransit, Packets
  <2>2. ASSUME NEW i \in 1..Len(more) PROVE more[i] = i
    <3>1. CASE i \in 1..Len(sent)
      <4>1. sent[i] = i
        BY <2>1, <3>1
      <4> QED BY <3>1, <4>1, SMT
    <3>2. CASE i = Len(sent) + 1
      BY <3>2, SMT
    <3> QED BY <1>1, <3>1, <3>2, SMT
  <2>3. DOMAIN more = 1..Len(more)
    BY <1>1, SMT
  <2> HIDE DEF more
  <2>4. more = [i \in 1..Len(more) |-> more[i]]
    BY <1>1, <2>3, SMT
  <2> QED BY <2>2, <2>4 DEF Packets
<1>3. Len(more) + 0 <= taken /\ Len(more) + 0 + 1 = Len(sent) + 1 + 1
  BY <1>1, SMT DEF InTransit
<1> HIDE DEF more
<1>4. Waiting(q, Len(more) + 0 + 1, taken)
  BY <1>3 DEF InTransit
<1>5. InTransit(taken, more, 0, q)
  BY <1>2, <1>3, <1>4 DEF InTransit
<1> QED BY <1>5 DEF more

\* A recv that is polled and dropped has skipped no packet.
LEMMA TransitSkip ==
  ASSUME NEW q \in Seq(Messages), NEW taken \in Nat, NEW sent \in Seq(Nat),
         NEW held \in {0, 1}, InTransit(taken, sent, held, q)
  PROVE  InTransit(taken, sent, held, Skipped(q))
<1>1. PICK k \in 0..Len(q) :
        /\ Len(Skipped(q)) = Len(q) - k
        /\ \A i \in 1..Len(Skipped(q)) : Skipped(q)[i] = q[i + k]
        /\ \A i \in 1..k : IsControl(q[i])
  BY SkippedShape
<1>2. ASSUME NEW i \in 1..k PROVE ~IsNumbered(q[i])
  <2>1. q[i] \in Messages /\ q[i].kind = "control"
    BY <1>1, SMT DEF IsControl
  <2> QED BY <2>1, MessageFacts
<1>3. Len(sent) + held + 1 \in Nat /\ Skipped(q) \in Seq(Messages)
  BY SkippedShape, SMT
<1>4. Waiting(Skipped(q), Len(sent) + held + 1, taken)
  BY <1>1, <1>2, <1>3, WaitingSuffix DEF InTransit
<1> QED BY <1>4 DEF InTransit

(***************************************************************************)
(* The steps of the relay.                                                 *)
(***************************************************************************)
\* A message at the head that ends its side is the only one.
LEMMA LastIsAlone ==
  ASSUME NEW q \in Seq(Messages), q # <<>>, NEW kind,
         \A i \in DOMAIN q : q[i].kind = kind => i = Len(q)
  PROVE  /\ Head(q).kind = kind => q = <<Head(q)>> /\ Tail(q) = <<>>
         /\ \A i \in DOMAIN Tail(q) : Tail(q)[i].kind = kind => i = Len(Tail(q))
         /\ \A i \in DOMAIN Tail(q) : i + 1 \in DOMAIN q /\ Tail(q)[i] = q[i + 1]
<1>1. /\ DOMAIN q = 1..Len(q) /\ Len(q) \in Nat \ {0} /\ Head(q) = q[1]
      /\ Tail(q) \in Seq(Messages) /\ Len(Tail(q)) = Len(q) - 1
      /\ DOMAIN Tail(q) = 1 .. Len(q) - 1
      /\ \A i \in 1 .. Len(q) - 1 : i + 1 \in 1..Len(q) /\ Tail(q)[i] = q[i + 1]
  BY SMT
<1>2. ASSUME Head(q).kind = kind PROVE q = <<Head(q)>> /\ Tail(q) = <<>>
  <2>1. Len(q) = 1
    BY <1>1, <1>2, SMT
  <2> QED BY <1>1, <2>1, SMT
<1>3. ASSUME NEW i \in DOMAIN Tail(q), Tail(q)[i].kind = kind PROVE i = Len(Tail(q))
  <2>1. i \in 1 .. Len(q) - 1 /\ i + 1 \in DOMAIN q /\ q[i + 1].kind = kind
    BY <1>1, <1>3
  <2>2. i + 1 = Len(q)
    BY <2>1
  <2> QED BY <1>1, <2>1, <2>2, SMT
<1> QED BY <1>1, <1>2, <1>3

\* When nothing waits, everything was sent.
LEMMA TransitDone ==
  ASSUME NEW taken \in Nat, NEW sent \in Seq(Nat), InTransit(taken, sent, 0, <<>>)
  PROVE  sent = Packets(taken)
<1>1. Numbered(<<>>) = {}
  BY SMT DEF Numbered
<1>2. Len(sent) + 0 + 1 .. taken = {}
  BY <1>1 DEF InTransit, Waiting
<1>3. Len(sent) = taken
  BY <1>2, SMT DEF InTransit
<1> QED BY <1>3 DEF InTransit

\* Skipping control messages leaves the last message the last.
LEMMA LastSkipped ==
  ASSUME NEW q \in Seq(Messages), NEW kind, NEW ended,
         \A i \in DOMAIN q : q[i].kind = kind => i = Len(q) /\ ended
  PROVE  \A i \in DOMAIN Skipped(q) : Skipped(q)[i].kind = kind => i = Len(Skipped(q)) /\ ended
<1> DEFINE s == Skipped(q)
<1>1. PICK k \in 0..Len(q) :
        Len(s) = Len(q) - k /\ \A i \in 1..Len(s) : s[i] = q[i + k]
  BY SkippedShape
<1>2. s \in Seq(Messages) /\ DOMAIN s = 1..Len(s) /\ DOMAIN q = 1..Len(q)
  BY SkippedShape, SMT
<1> HIDE DEF s
<1>3. ASSUME NEW i \in DOMAIN s, s[i].kind = kind PROVE i = Len(s) /\ ended
  <2>1. i \in 1..Len(s) /\ i + k \in DOMAIN q /\ q[i + k].kind = kind
    BY <1>1, <1>2, <1>3, SMT
  <2>2. i + k = Len(q) /\ ended
    BY <2>1
  <2> QED BY <1>1, <2>1, <2>2, SMT
<1> QED BY <1>3 DEF s

\* The branch that takes from the adapter.
LEMMA PeerBranchStep ==
  ASSUME RelayInv, PeerBranch
  PROVE  RelayInv'
<1> DEFINE q == peer.queue
           event == Head(q)
<1>1. /\ at = "select" /\ hand = 0 /\ result = "none" /\ peer \in Adapters
      /\ inbox \in Seq(Messages) /\ accepted \in Nat /\ arrived \in Nat
      /\ toEgress \in Seq(Nat) /\ toPeer \in Seq(Nat)
  BY DEF PeerBranch, RelayInv, RelayTypeOK
<1>2. /\ q \in Seq(Messages) /\ q # <<>> /\ Tail(q) \in Seq(Messages) /\ event \in Messages
      /\ peer' \in Adapters /\ peer'.late = peer.late /\ peer'.queue = Tail(q)
  BY <1>1, AdapterRecv DEF PeerBranch
<1>3. /\ inbox' \in {inbox, Skipped(inbox)}
      /\ UNCHANGED <<peerEnd, accepted, egressEnd, arrived, toEgress, toPeer>>
      /\ \/ event.kind = "packet" /\ at' = "toEgress" /\ hand' = event.id /\ result' = "none"
         \/ event.kind = "text" /\ at' = "ended" /\ result' = "Peer" /\ hand' = 0
         \/ event.kind = "closed" /\ at' = "ended" /\ result' = "PeerClosed" /\ hand' = 0
  BY <1>1, AdapterRecv DEF PeerBranch, AfterDrop, Send, End, sentVars
<1>4. inbox' \in Seq(Messages)
  BY <1>1, <1>3, SkippedShape
<1>5. RelayTypeOK'
  BY <1>1, <1>2, <1>3, <1>4, MessageFacts, SMT DEF RelayTypeOK
<1>6. /\ InTransit(accepted, toEgress, 0, q) /\ InTransit(arrived, toPeer, 0, inbox)
      /\ \A i \in DOMAIN q : q[i].kind = "closed" => i = Len(q) /\ ~peer.late /\ peerEnd
      /\ peer.late => peerEnd
      /\ \A i \in DOMAIN inbox : inbox[i].kind = "close" => i = Len(inbox) /\ egressEnd
  BY <1>1 DEF RelayInv, PacketsConserved, Held, LastOfPeer, LastOfEgress
<1> HIDE DEF q, event
<1>7. LastOfPeer'
  <2>1. ASSUME NEW i \in DOMAIN Tail(q), Tail(q)[i].kind = "closed"
        PROVE  i = Len(Tail(q)) /\ ~peer.late /\ peerEnd
    BY <1>2, <1>6, <2>1, LastIsAlone
  <2> QED BY <1>2, <1>3, <1>6, <2>1 DEF LastOfPeer
<1>8. LastOfEgress'
  <2>1. \A i \in DOMAIN Skipped(inbox) :
          Skipped(inbox)[i].kind = "close" => i = Len(Skipped(inbox)) /\ egressEnd
    BY <1>1, <1>6, LastSkipped
  <2>2. CASE inbox' = inbox
    BY <1>3, <1>6, <2>2 DEF LastOfEgress
  <2>3. CASE inbox' = Skipped(inbox)
    BY <1>3, <2>1, <2>3 DEF LastOfEgress
  <2> QED BY <1>3, <2>2, <2>3
<1>9. InTransit(arrived, toPeer, 0, inbox')
  BY <1>1, <1>3, <1>6, TransitSkip
<1>10. CASE event.kind = "packet"
  <2>1. /\ at' = "toEgress" /\ hand' = event.id /\ result' = "none"
        /\ IsNumbered(event) <=> event.id # 0
    BY <1>2, <1>3, <1>10, MessageFacts
  <2>2. InTransit(arrived', toPeer', Held("toPeer")', inbox')
    BY <1>3, <1>9, <2>1 DEF Held
  <2>3. CASE event.id # 0
    <3>1. event.id = Len(toEgress) + 1 /\ InTransit(accepted, toEgress, 1, Tail(q))
      BY <1>1, <1>2, <1>6, <2>1, <2>3, TransitTake DEF event
    <3>2. Held("toEgress")' = 1 /\ Held("toPeer")' = 0
      BY <2>1, <2>3 DEF Held
    <3>3. InTransit(accepted', toEgress', Held("toEgress")', peer'.queue)
      BY <1>2, <1>3, <3>1, <3>2
    <3>4. PacketsConserved'
      BY <1>3, <2>1, <2>2, <3>1, <3>2, <3>3, SMT DEF PacketsConserved
    <3> QED BY <1>5, <1>7, <1>8, <2>1, <3>4 DEF RelayInv, OrderlyEnd
  <2>4. CASE event.id = 0
    <3>1. InTransit(accepted, toEgress, 0, Tail(q))
      BY <1>1, <1>2, <1>6, <2>1, <2>4, TransitTake DEF event
    <3>2. Held("toEgress")' = 0 /\ Held("toPeer")' = 0
      BY <2>1, <2>4 DEF Held
    <3>3. InTransit(accepted', toEgress', Held("toEgress")', peer'.queue)
      BY <1>2, <1>3, <3>1, <3>2
    <3>4. PacketsConserved'
      BY <1>3, <2>1, <2>2, <3>2, <3>3, SMT DEF PacketsConserved
    <3> QED BY <1>5, <1>7, <1>8, <2>1, <3>4 DEF RelayInv, OrderlyEnd
  <2> QED BY <2>3, <2>4
<1>11. CASE event.kind = "closed"
  <2>1. at' = "ended" /\ result' = "PeerClosed" /\ ~IsNumbered(event)
    BY <1>2, <1>3, <1>11, MessageFacts
  <2>2. Tail(q) = <<>> /\ peerEnd
    <3>1. 1 \in DOMAIN q /\ q[1] = event
      BY <1>2, SMT DEF event
    <3> QED BY <1>2, <1>6, <1>11, <3>1, LastIsAlone DEF event
  <2>3. InTransit(accepted, toEgress, 0, <<>>)
    BY <1>1, <1>2, <1>6, <2>1, <2>2, TransitTake DEF event
  <2>4. OrderlyEnd'
    BY <1>1, <1>3, <2>1, <2>2, <2>3, TransitDone DEF OrderlyEnd
  <2> QED BY <1>5, <1>7, <1>8, <2>1, <2>4 DEF RelayInv, PacketsConserved
<1>12. CASE event.kind = "text"
  BY <1>3, <1>5, <1>7, <1>8, <1>12 DEF RelayInv, PacketsConserved, OrderlyEnd
<1> QED BY <1>3, <1>10, <1>11, <1>12

\* The branch that takes from the WebSocket.
LEMMA EgressBranchStep ==
  ASSUME RelayInv, EgressBranch
  PROVE  RelayInv'
<1> DEFINE s == Skipped(inbox)
           message == Head(s)
<1>1. /\ at = "select" /\ hand = 0 /\ result = "none" /\ peer \in Adapters
      /\ inbox \in Seq(Messages) /\ accepted \in Nat /\ arrived \in Nat
      /\ toEgress \in Seq(Nat) /\ toPeer \in Seq(Nat)
  BY DEF EgressBranch, RelayInv, RelayTypeOK
<1>2. s \in Seq(Messages) /\ s # <<>> /\ Tail(s) \in Seq(Messages) /\ message \in Messages
  <2>1. s \in Seq(Messages) /\ s # <<>>
    BY <1>1, SkippedShape DEF EgressBranch, EgressReady
  <2> QED BY <2>1, SMT
<1>3. /\ inbox' = Tail(s)
      /\ UNCHANGED <<peer, peerEnd, accepted, egressEnd, arrived, toEgress, toPeer>>
      /\ \/ message.kind = "binary" /\ at' = "toPeer" /\ hand' = message.id /\ result' = "none"
         \/ message.kind = "close" /\ at' = "ended" /\ result' = "EgressClosed" /\ hand' = 0
         \/ message.kind \in {"text", "error"} /\ at' = "ended" /\ result' = "Egress" /\ hand' = 0
  BY <1>1 DEF EgressBranch, Send, End, peerVars, sentVars
<1>4. RelayTypeOK'
  BY <1>1, <1>2, <1>3, MessageFacts, SMT DEF RelayTypeOK
<1>5. /\ InTransit(accepted, toEgress, 0, peer.queue) /\ InTransit(arrived, toPeer, 0, s)
      /\ \A i \in DOMAIN s : s[i].kind = "close" => i = Len(s) /\ egressEnd
  <2>1. InTransit(accepted, toEgress, 0, peer.queue) /\ InTransit(arrived, toPeer, 0, inbox)
    BY <1>1 DEF RelayInv, PacketsConserved, Held
  <2>2. \A i \in DOMAIN inbox : inbox[i].kind = "close" => i = Len(inbox) /\ egressEnd
    BY DEF RelayInv, LastOfEgress
  <2> QED BY <1>1, <2>1, <2>2, TransitSkip, LastSkipped
<1> HIDE DEF s, message
<1>6. LastOfPeer'
  BY <1>3 DEF RelayInv, LastOfPeer
<1>7. LastOfEgress'
  <2>1. \A i \in DOMAIN Tail(s) : Tail(s)[i].kind = "close" => i = Len(Tail(s)) /\ egressEnd
    BY <1>2, <1>5, LastIsAlone, SMT
  <2> QED BY <1>3, <2>1 DEF LastOfEgress
<1>8. CASE message.kind = "binary"
  <2>1. /\ at' = "toPeer" /\ hand' = message.id /\ result' = "none"
        /\ IsNumbered(message) <=> message.id # 0
    BY <1>2, <1>3, <1>8, MessageFacts
  <2>2. InTransit(accepted', toEgress', Held("toEgress")', peer'.queue) /\ Held("toEgress")' = 0
    BY <1>3, <1>5, <2>1 DEF Held
  <2>3. CASE message.id # 0
    <3>1. message.id = Len(toPeer) + 1 /\ InTransit(arrived, toPeer, 1, Tail(s))
      BY <1>1, <1>2, <1>5, <2>1, <2>3, TransitTake DEF message
    <3>2. Held("toPeer")' = 1
      BY <2>1, <2>3 DEF Held
    <3>3. InTransit(arrived', toPeer', Held("toPeer")', inbox')
      BY <1>3, <3>1, <3>2
    <3>4. PacketsConserved'
      BY <1>3, <2>1, <2>2, <3>1, <3>2, <3>3, SMT DEF PacketsConserved
    <3> QED BY <1>4, <1>6, <1>7, <2>1, <3>4 DEF RelayInv, OrderlyEnd
  <2>4. CASE message.id = 0
    <3>1. InTransit(arrived, toPeer, 0, Tail(s))
      BY <1>1, <1>2, <1>5, <2>1, <2>4, TransitTake DEF message
    <3>2. Held("toPeer")' = 0
      BY <2>1, <2>4 DEF Held
    <3>3. InTransit(arrived', toPeer', Held("toPeer")', inbox')
      BY <1>3, <3>1, <3>2
    <3>4. PacketsConserved'
      BY <1>3, <2>1, <2>2, <3>2, <3>3, SMT DEF PacketsConserved
    <3> QED BY <1>4, <1>6, <1>7, <2>1, <3>4 DEF RelayInv, OrderlyEnd
  <2> QED BY <2>3, <2>4
<1>9. CASE message.kind = "close"
  <2>1. at' = "ended" /\ result' = "EgressClosed" /\ ~IsNumbered(message)
    BY <1>2, <1>3, <1>9, MessageFacts
  <2>2. Tail(s) = <<>> /\ egressEnd
    <3>1. 1 \in DOMAIN s /\ s[1] = message
      BY <1>2, SMT DEF message
    <3> QED BY <1>2, <1>5, <1>9, <3>1, LastIsAlone DEF message
  <2>3. InTransit(arrived, toPeer, 0, <<>>)
    BY <1>1, <1>2, <1>5, <2>1, <2>2, TransitTake DEF message
  <2>4. OrderlyEnd'
    BY <1>1, <1>3, <2>1, <2>2, <2>3, TransitDone DEF OrderlyEnd
  <2> QED BY <1>4, <1>6, <1>7, <2>1, <2>4 DEF RelayInv, PacketsConserved
<1>10. CASE message.kind \in {"text", "error"}
  BY <1>3, <1>4, <1>6, <1>7, <1>10 DEF RelayInv, PacketsConserved, OrderlyEnd
<1> QED BY <1>3, <1>8, <1>9, <1>10

\* The send to the egress that is awaited succeeds, or ends the relay.
LEMMA SendToEgressStep ==
  ASSUME RelayInv, SendToEgress
  PROVE  RelayInv'
<1>1. /\ at = "toEgress" /\ result = "none" /\ peer \in Adapters /\ hand \in Nat
      /\ inbox \in Seq(Messages) /\ accepted \in Nat /\ arrived \in Nat
      /\ toEgress \in Seq(Nat) /\ toPeer \in Seq(Nat)
  BY DEF SendToEgress, RelayInv, RelayTypeOK
<1>2. UNCHANGED <<peer, peerEnd, accepted, inbox, egressEnd, arrived, toPeer>>
  BY DEF SendToEgress, peerVars, egressVars
<1>3. LastOfPeer' /\ LastOfEgress'
  BY <1>2 DEF RelayInv, LastOfPeer, LastOfEgress
<1>4. CASE toEgress' = Note(toEgress, hand) /\ Send("select", 0)
  <2>1. at' = "select" /\ hand' = 0 /\ result' = "none"
    BY <1>1, <1>4 DEF Send
  <2>2. Held("toEgress")' = 0 /\ Held("toPeer")' = 0 /\ Held("toPeer") = 0
    BY <1>1, <2>1 DEF Held
  <2>3. /\ InTransit(accepted, toEgress, Held("toEgress"), peer.queue)
        /\ Held("toEgress") = 1 => hand = Len(toEgress) + 1
        /\ InTransit(arrived, toPeer, 0, inbox)
    BY <1>1, <2>2 DEF RelayInv, PacketsConserved
  <2>4. InTransit(accepted, toEgress', 0, peer.queue) /\ toEgress' \in Seq(Nat)
    <3>1. CASE hand = 0
      BY <1>1, <1>4, <2>3, <3>1 DEF Note, Held
    <3>2. CASE hand # 0
      <4>1. Held("toEgress") = 1 /\ toEgress' = Append(toEgress, Len(toEgress) + 1)
        BY <1>1, <1>4, <2>3, <3>2 DEF Note, Held
      <4>2. peer.queue \in Seq(Messages) /\ toEgress' \in Seq(Nat)
        BY <1>1, <4>1, SMT DEF Adapters
      <4> QED BY <1>1, <2>3, <4>1, <4>2, TransitSend
    <3> QED BY <3>1, <3>2
  <2>5. PacketsConserved'
    BY <1>2, <2>2, <2>3, <2>4, SMT DEF PacketsConserved
  <2>6. RelayTypeOK'
    BY <1>1, <1>2, <2>1, <2>4 DEF RelayTypeOK
  <2> QED BY <1>3, <2>1, <2>5, <2>6 DEF RelayInv, OrderlyEnd
<1>5. CASE End("Egress") /\ UNCHANGED toEgress
  <2>1. RelayTypeOK'
    BY <1>1, <1>2, <1>5 DEF RelayTypeOK, End
  <2> QED BY <1>3, <1>5, <2>1 DEF RelayInv, PacketsConserved, OrderlyEnd, End
<1> QED BY <1>4, <1>5 DEF SendToEgress

\* The send to the consumer that is awaited succeeds, or ends the relay.
LEMMA SendToPeerStep ==
  ASSUME RelayInv, SendToPeer
  PROVE  RelayInv'
<1>1. /\ at = "toPeer" /\ result = "none" /\ peer \in Adapters /\ hand \in Nat
      /\ inbox \in Seq(Messages) /\ accepted \in Nat /\ arrived \in Nat
      /\ toEgress \in Seq(Nat) /\ toPeer \in Seq(Nat)
  BY DEF SendToPeer, RelayInv, RelayTypeOK
<1>2. UNCHANGED <<peer, peerEnd, accepted, inbox, egressEnd, arrived, toEgress>>
  BY DEF SendToPeer, peerVars, egressVars
<1>3. LastOfPeer' /\ LastOfEgress'
  BY <1>2 DEF RelayInv, LastOfPeer, LastOfEgress
<1>4. CASE toPeer' = Note(toPeer, hand) /\ Send("select", 0)
  <2>1. at' = "select" /\ hand' = 0 /\ result' = "none"
    BY <1>1, <1>4 DEF Send
  <2>2. Held("toEgress")' = 0 /\ Held("toPeer")' = 0 /\ Held("toEgress") = 0
    BY <1>1, <2>1 DEF Held
  <2>3. /\ InTransit(arrived, toPeer, Held("toPeer"), inbox)
        /\ Held("toPeer") = 1 => hand = Len(toPeer) + 1
        /\ InTransit(accepted, toEgress, 0, peer.queue)
    BY <1>1, <2>2 DEF RelayInv, PacketsConserved
  <2>4. InTransit(arrived, toPeer', 0, inbox) /\ toPeer' \in Seq(Nat)
    <3>1. CASE hand = 0
      BY <1>1, <1>4, <2>3, <3>1 DEF Note, Held
    <3>2. CASE hand # 0
      <4>1. Held("toPeer") = 1 /\ toPeer' = Append(toPeer, Len(toPeer) + 1)
        BY <1>1, <1>4, <2>3, <3>2 DEF Note, Held
      <4>2. toPeer' \in Seq(Nat)
        BY <1>1, <4>1, SMT
      <4> QED BY <1>1, <2>3, <4>1, <4>2, TransitSend
    <3> QED BY <3>1, <3>2
  <2>5. PacketsConserved'
    BY <1>2, <2>2, <2>3, <2>4, SMT DEF PacketsConserved
  <2>6. RelayTypeOK'
    BY <1>1, <1>2, <2>1, <2>4 DEF RelayTypeOK
  <2> QED BY <1>3, <2>1, <2>5, <2>6 DEF RelayInv, OrderlyEnd
<1>5. CASE End("Peer") /\ UNCHANGED toPeer
  <2>1. RelayTypeOK'
    BY <1>1, <1>2, <1>5 DEF RelayTypeOK, End
  <2> QED BY <1>3, <1>5, <2>1 DEF RelayInv, PacketsConserved, OrderlyEnd, End
<1> QED BY <1>4, <1>5 DEF SendToPeer

\* The consumer sends: its next packet waits behind the others, unless the
\* queue has no room for it.
LEMMA PeerSendsStep ==
  ASSUME RelayInv, PeerSends
  PROVE  RelayInv'
<1>1. /\ at # "ended" /\ ~peerEnd /\ peer \in Adapters /\ accepted \in Nat
      /\ toEgress \in Seq(Nat) /\ peer.queue \in Seq(Messages)
      /\ UNCHANGED <<at, hand, result, peerEnd, inbox, egressEnd, arrived, toEgress, toPeer>>
  BY DEF PeerSends, RelayInv, RelayTypeOK, Adapters, relayVars, egressVars, sentVars
<1>2. PICK event \in {Message("packet", NextId(accepted)), Message("text", 0)} :
        /\ peer' = DC!OnMessage(peer, event)
        /\ accepted' = IF DC!HasSlot(peer) THEN Count(accepted, event.id) ELSE accepted
  BY DEF PeerSends
<1>3. /\ event \in Messages /\ event.kind # "closed" /\ event.id \in Nat
      /\ \/ IsNumbered(event) /\ event.id = accepted + 1 /\ Count(accepted, event.id) = accepted + 1
         \/ ~IsNumbered(event) /\ Count(accepted, event.id) = accepted
  <2>1. NextId(accepted) \in {0, accepted + 1} /\ NextId(accepted) \in Nat
    BY <1>1, SMT DEF NextId
  <2>2. /\ "packet" \in Kinds /\ "text" \in Kinds
        /\ 0 \in Nat /\ Count(accepted, 0) = accepted
        /\ accepted + 1 # 0 /\ Count(accepted, accepted + 1) = accepted + 1
    BY <1>1, SMT DEF Kinds, Count
  <2>3. CASE event = Message("packet", NextId(accepted))
    <3>1. event \in Messages /\ event.kind = "packet" /\ event.id = NextId(accepted)
      BY <2>1, <2>2, <2>3, MessageFacts
    <3>2. IsNumbered(event) <=> event.id # 0
      BY <3>1, MessageFacts
    <3> QED BY <2>1, <2>2, <3>1, <3>2
  <2>4. CASE event = Message("text", 0)
    <3>1. event \in Messages /\ event.kind = "text" /\ event.id = 0
      BY <2>2, <2>4, MessageFacts
    <3>2. ~IsNumbered(event)
      BY <3>1, MessageFacts
    <3> QED BY <2>2, <3>1, <3>2
  <2> QED BY <2>3, <2>4
<1>4. CASE DC!HasSlot(peer)
  <2>1. /\ peer' \in Adapters /\ peer'.late = peer.late
        /\ peer'.queue = Append(peer.queue, event) /\ accepted' = Count(accepted, event.id)
    BY <1>1, <1>2, <1>3, <1>4, AdapterMessage
  <2>2. RelayTypeOK'
    BY <1>1, <1>3, <2>1 DEF RelayInv, RelayTypeOK
  <2>3. InTransit(accepted', toEgress, Held("toEgress"), peer'.queue)
    <3>1. InTransit(accepted, toEgress, Held("toEgress"), peer.queue) /\ Held("toEgress") \in {0, 1}
      BY <1>1 DEF RelayInv, PacketsConserved, Held
    <3> QED BY <1>1, <1>3, <2>1, <3>1, TransitPut
  <2>4. PacketsConserved'
    <3>1. Held("toEgress")' = Held("toEgress") /\ Held("toPeer")' = Held("toPeer")
      BY <1>1 DEF Held
    <3> QED BY <1>1, <2>3, <3>1 DEF RelayInv, PacketsConserved
  <2>5. \A i \in DOMAIN peer'.queue : peer'.queue[i].kind # "closed"
    <3>1. \A i \in DOMAIN peer.queue : peer.queue[i].kind # "closed"
      BY <1>1 DEF RelayInv, LastOfPeer
    <3>2. \A i \in DOMAIN peer'.queue :
            peer'.queue[i] = event \/ (i \in DOMAIN peer.queue /\ peer'.queue[i] = peer.queue[i])
      BY <1>1, <1>3, <2>1, SMT
    <3> QED BY <1>3, <3>1, <3>2
  <2>6. LastOfPeer' /\ LastOfEgress'
    BY <1>1, <2>1, <2>5 DEF RelayInv, LastOfPeer, LastOfEgress
  <2> QED BY <1>1, <2>2, <2>4, <2>6 DEF RelayInv, OrderlyEnd
<1>5. CASE ~DC!HasSlot(peer)
  <2>1. /\ peer' \in Adapters /\ peer'.late = peer.late /\ peer'.queue = peer.queue
        /\ accepted' = accepted
    BY <1>1, <1>2, <1>3, <1>5, AdapterMessage
  <2>2. Held("toEgress")' = Held("toEgress") /\ Held("toPeer")' = Held("toPeer")
    BY <1>1 DEF Held
  <2>3. RelayTypeOK' /\ PacketsConserved'
    BY <1>1, <2>1, <2>2 DEF RelayInv, RelayTypeOK, PacketsConserved
  <2>4. LastOfPeer' /\ LastOfEgress'
    BY <1>1, <2>1 DEF RelayInv, LastOfPeer, LastOfEgress
  <2> QED BY <1>1, <2>1, <2>3, <2>4 DEF RelayInv, OrderlyEnd
<1> QED BY <1>4, <1>5

\* The DataChannel closes: the Closed event will be the last.
LEMMA PeerClosesStep ==
  ASSUME RelayInv, PeerCloses
  PROVE  RelayInv'
<1>1. /\ at # "ended" /\ ~peerEnd /\ peer \in Adapters /\ accepted \in Nat /\ peerEnd'
      /\ toEgress \in Seq(Nat) /\ peer.queue \in Seq(Messages)
      /\ UNCHANGED <<at, hand, result, accepted, inbox, egressEnd, arrived, toEgress, toPeer>>
  BY DEF PeerCloses, RelayInv, RelayTypeOK, Adapters, relayVars, egressVars, sentVars
<1>2. /\ peer' \in Adapters
      /\ \/ peer'.queue = Append(peer.queue, DC!ClosedEvent) /\ peer'.late = peer.late
         \/ peer'.queue = peer.queue /\ peer'.late
  BY <1>1, AdapterClose DEF PeerCloses
<1>3. RelayTypeOK'
  BY <1>1, <1>2 DEF RelayInv, RelayTypeOK
<1>4. InTransit(accepted, toEgress, Held("toEgress"), peer'.queue)
  <2>1. InTransit(accepted, toEgress, Held("toEgress"), peer.queue) /\ Held("toEgress") \in {0, 1}
    BY <1>1 DEF RelayInv, PacketsConserved, Held
  <2>2. DC!ClosedEvent \in Messages /\ ~IsNumbered(DC!ClosedEvent)
    BY MessageFacts
  <2>3. InTransit(accepted, toEgress, Held("toEgress"), Append(peer.queue, DC!ClosedEvent))
    BY <1>1, <2>1, <2>2, TransitPut
  <2> QED BY <1>2, <2>1, <2>3
<1>5. PacketsConserved'
  <2>1. Held("toEgress")' = Held("toEgress") /\ Held("toPeer")' = Held("toPeer")
    BY <1>1 DEF Held
  <2> QED BY <1>1, <1>4, <2>1 DEF RelayInv, PacketsConserved
<1>6. ~peer.late /\ \A i \in DOMAIN peer.queue : peer.queue[i].kind # "closed"
  BY <1>1 DEF RelayInv, LastOfPeer
<1>7. LastOfPeer'
  <2>1. CASE peer'.queue = Append(peer.queue, DC!ClosedEvent) /\ peer'.late = peer.late
    <3>1. ASSUME NEW i \in DOMAIN peer'.queue, peer'.queue[i].kind = "closed"
          PROVE  i = Len(peer'.queue)
      <4>1. \/ i = Len(peer.queue) + 1
            \/ i \in DOMAIN peer.queue /\ peer'.queue[i] = peer.queue[i]
        BY <1>1, <2>1, SMT
      <4>2. Len(peer'.queue) = Len(peer.queue) + 1
        BY <1>1, <2>1, SMT
      <4> QED BY <1>6, <3>1, <4>1, <4>2
    <3> QED BY <1>1, <1>6, <2>1, <3>1 DEF LastOfPeer
  <2>2. CASE peer'.queue = peer.queue /\ peer'.late
    BY <1>1, <1>6, <2>2 DEF LastOfPeer
  <2> QED BY <1>2, <2>1, <2>2
<1>8. LastOfEgress'
  BY <1>1 DEF RelayInv, LastOfEgress
<1> QED BY <1>1, <1>3, <1>5, <1>7, <1>8 DEF RelayInv, OrderlyEnd

\* The detached task puts the Closed event behind all else.
LEMMA LateCloseStep ==
  ASSUME RelayInv, LateClose
  PROVE  RelayInv'
<1>1. /\ at # "ended" /\ peer \in Adapters /\ peer.late /\ accepted \in Nat
      /\ toEgress \in Seq(Nat) /\ peer.queue \in Seq(Messages)
      /\ UNCHANGED <<at, hand, result, accepted, peerEnd, inbox, egressEnd, arrived, toEgress, toPeer>>
  BY DEF LateClose, DC!LateSend, RelayInv, RelayTypeOK, Adapters, relayVars, egressVars, sentVars
<1>2. peer' \in Adapters /\ ~peer'.late /\ peer'.queue = Append(peer.queue, DC!ClosedEvent)
  BY <1>1, AdapterLateSend DEF LateClose
<1>3. RelayTypeOK'
  BY <1>1, <1>2 DEF RelayInv, RelayTypeOK
<1>4. InTransit(accepted, toEgress, Held("toEgress"), peer'.queue)
  <2>1. InTransit(accepted, toEgress, Held("toEgress"), peer.queue) /\ Held("toEgress") \in {0, 1}
    BY <1>1 DEF RelayInv, PacketsConserved, Held
  <2>2. DC!ClosedEvent \in Messages /\ ~IsNumbered(DC!ClosedEvent)
    BY MessageFacts
  <2> QED BY <1>1, <1>2, <2>1, <2>2, TransitPut
<1>5. PacketsConserved'
  <2>1. Held("toEgress")' = Held("toEgress") /\ Held("toPeer")' = Held("toPeer")
    BY <1>1 DEF Held
  <2> QED BY <1>1, <1>4, <2>1 DEF RelayInv, PacketsConserved
<1>6. peerEnd /\ \A i \in DOMAIN peer.queue : peer.queue[i].kind # "closed"
  BY <1>1 DEF RelayInv, LastOfPeer
<1>7. LastOfPeer'
  <2>1. ASSUME NEW i \in DOMAIN peer'.queue, peer'.queue[i].kind = "closed"
        PROVE  i = Len(peer'.queue)
    <3>1. \/ i = Len(peer.queue) + 1
          \/ i \in DOMAIN peer.queue /\ peer'.queue[i] = peer.queue[i]
      BY <1>1, <1>2, SMT
    <3>2. Len(peer'.queue) = Len(peer.queue) + 1
      BY <1>1, <1>2, SMT
    <3> QED BY <1>6, <2>1, <3>1, <3>2
  <2> QED BY <1>1, <1>2, <1>6, <2>1 DEF LastOfPeer
<1>8. LastOfEgress'
  BY <1>1 DEF RelayInv, LastOfEgress
<1> QED BY <1>1, <1>3, <1>5, <1>7, <1>8 DEF RelayInv, OrderlyEnd

\* The egress sends: its next packet waits behind the others, a close is last.
LEMMA EgressSendsStep ==
  ASSUME RelayInv, EgressSends
  PROVE  RelayInv'
<1>1. /\ at # "ended" /\ ~egressEnd /\ inbox \in Seq(Messages) /\ arrived \in Nat
      /\ toPeer \in Seq(Nat)
      /\ UNCHANGED <<at, hand, result, peer, peerEnd, accepted, toEgress, toPeer>>
  BY DEF EgressSends, RelayInv, RelayTypeOK, relayVars, peerVars, sentVars
<1>2. PICK message \in {Message("binary", NextId(arrived)), Message("control", 0),
                        Message("text", 0), Message("close", 0), Message("error", 0)} :
        /\ inbox' = Append(inbox, message)
        /\ arrived' = Count(arrived, message.id)
        /\ egressEnd' = (message.kind \in {"close", "error"})
  BY DEF EgressSends
<1>3. /\ message \in Messages
      /\ \/ IsNumbered(message) /\ message.id = arrived + 1 /\ arrived' = arrived + 1
         \/ ~IsNumbered(message) /\ arrived' = arrived
  <2>1. NextId(arrived) \in {0, arrived + 1} /\ NextId(arrived) \in Nat
    BY <1>1, SMT DEF NextId
  <2>2. /\ {"binary", "control", "text", "close", "error"} \subseteq Kinds
        /\ 0 \in Nat /\ Count(arrived, 0) = arrived
        /\ arrived + 1 # 0 /\ Count(arrived, arrived + 1) = arrived + 1
    BY <1>1, SMT DEF Kinds, Count
  <2>3. CASE message = Message("binary", NextId(arrived))
    <3>1. message \in Messages /\ message.kind = "binary" /\ message.id = NextId(arrived)
      BY <2>1, <2>2, <2>3, MessageFacts
    <3>2. IsNumbered(message) <=> message.id # 0
      BY <3>1, MessageFacts
    <3> QED BY <1>2, <2>1, <2>2, <3>1, <3>2
  <2>4. ASSUME NEW k \in {"control", "text", "close", "error"}, message = Message(k, 0)
        PROVE  message \in Messages /\ ~IsNumbered(message) /\ arrived' = arrived
    <3>1. k \in Kinds
      BY <2>2
    <3>2. message \in Messages /\ message.kind = k /\ message.id = 0
      BY <2>2, <2>4, <3>1, MessageFacts
    <3>3. ~IsNumbered(message)
      BY <3>2, MessageFacts
    <3> QED BY <1>2, <2>2, <3>2, <3>3
  <2> QED BY <2>3, <2>4
<1>4. RelayTypeOK'
  <2>1. inbox' \in Seq(Messages)
    BY <1>1, <1>2, <1>3, SMT
  <2> QED BY <1>1, <1>3, <2>1, SMT DEF RelayInv, RelayTypeOK
<1>5. InTransit(arrived', toPeer, Held("toPeer"), inbox')
  <2>1. InTransit(arrived, toPeer, Held("toPeer"), inbox) /\ Held("toPeer") \in {0, 1}
    BY <1>1 DEF RelayInv, PacketsConserved, Held
  <2> QED BY <1>1, <1>2, <1>3, <2>1, TransitPut
<1>6. PacketsConserved'
  <2>1. Held("toEgress")' = Held("toEgress") /\ Held("toPeer")' = Held("toPeer")
    BY <1>1 DEF Held
  <2> QED BY <1>1, <1>5, <2>1 DEF RelayInv, PacketsConserved
<1>7. LastOfEgress'
  <2>1. \A i \in DOMAIN inbox : inbox[i].kind # "close"
    BY <1>1 DEF RelayInv, LastOfEgress
  <2>2. ASSUME NEW i \in DOMAIN inbox', inbox'[i].kind = "close"
        PROVE  i = Len(inbox') /\ message.kind = "close"
    <3>1. \/ i = Len(inbox) + 1 /\ inbox'[i] = message
          \/ i \in DOMAIN inbox /\ inbox'[i] = inbox[i]
      BY <1>1, <1>2, <1>3, SMT
    <3>2. Len(inbox') = Len(inbox) + 1
      BY <1>1, <1>2, <1>3, SMT
    <3> QED BY <2>1, <2>2, <3>1, <3>2
  <2> QED BY <1>2, <2>2 DEF LastOfEgress
<1>8. LastOfPeer'
  BY <1>1 DEF RelayInv, LastOfPeer
<1> QED BY <1>1, <1>4, <1>6, <1>7, <1>8 DEF RelayInv, OrderlyEnd

-----------------------------------------------------------------------------
\* The loop starts with nothing taken in.
LEMMA InitRelayInv == Init => RelayInv
<1> SUFFICES ASSUME Init PROVE RelayInv
  OBVIOUS
<1>1. /\ at = "select" /\ hand = 0 /\ result = "none" /\ peer.queue = <<>> /\ ~peer.late
      /\ accepted = 0 /\ arrived = 0 /\ inbox = <<>> /\ toEgress = <<>> /\ toPeer = <<>>
  BY DEF Init, DC!NewDatagrams
<1>2. RelayTypeOK
  BY <1>1, SMT DEF Init, DC!NewDatagrams, RelayTypeOK, Adapters
<1>3. InTransit(0, <<>>, 0, <<>>)
  <2>1. <<>> = Packets(Len(<<>>)) /\ Len(<<>>) + 0 <= 0
    BY SMT DEF Packets
  <2>2. Numbered(<<>>) = {} /\ Len(<<>>) + 0 + 1 .. 0 = {}
    BY SMT DEF Numbered
  <2> QED BY <2>1, <2>2 DEF InTransit, Waiting
<1>4. PacketsConserved
  BY <1>1, <1>3, SMT DEF PacketsConserved, Held
<1> QED BY <1>1, <1>2, <1>4, SMT DEF RelayInv, LastOfPeer, LastOfEgress, OrderlyEnd

\* Every step of the relay and of its two sides keeps the invariant.
LEMMA NextRelayInv == RelayInv /\ [Next]_vars => RelayInv'
<1> SUFFICES ASSUME RelayInv, [Next]_vars PROVE RelayInv'
  OBVIOUS
<1>1. CASE PeerBranch
  BY <1>1, PeerBranchStep
<1>2. CASE EgressBranch
  BY <1>2, EgressBranchStep
<1>3. CASE SendToEgress
  BY <1>3, SendToEgressStep
<1>4. CASE SendToPeer
  BY <1>4, SendToPeerStep
<1>5. CASE PeerSends
  BY <1>5, PeerSendsStep
<1>6. CASE PeerCloses
  BY <1>6, PeerClosesStep
<1>7. CASE EgressSends
  BY <1>7, EgressSendsStep
<1>8. CASE LateClose
  BY <1>8, LateCloseStep
<1>9. CASE UNCHANGED vars
  <2>1. UNCHANGED <<at, hand, result, peer, peerEnd, accepted, inbox, egressEnd, arrived,
                    toEgress, toPeer>>
    BY <1>9 DEF vars, relayVars, peerVars, egressVars, sentVars
  <2>2. RelayTypeOK' /\ LastOfPeer' /\ LastOfEgress' /\ OrderlyEnd'
    BY <2>1 DEF RelayInv, RelayTypeOK, LastOfPeer, LastOfEgress, OrderlyEnd
  <2>3. PacketsConserved'
    BY <2>1 DEF RelayInv, PacketsConserved, Held
  <2> QED BY <2>1, <2>2, <2>3 DEF RelayInv
<1> QED BY <1>1, <1>2, <1>3, <1>4, <1>5, <1>6, <1>7, <1>8, <1>9 DEF Next

\* The invariant holds in the relay, for queues of any size and any number of
\* packets.
THEOREM RelayInvariant == Spec => []RelayInv
BY InitRelayInv, NextRelayInv, PTL DEF Spec

\* relay() forwards each packet once and in order, in both directions, whatever
\* branch of the select is dropped, and whatever room the event queue has.
THEOREM RelayConserves == Spec => []PacketsConserved
<1>1. RelayInv => PacketsConserved
  BY DEF RelayInv
<1> QED BY <1>1, RelayInvariant, PTL

\* relay() returns PeerClosed or EgressClosed for the side that has ended, when
\* all its packets are forwarded.
THEOREM RelayEndsOrderly == Spec => []OrderlyEnd
<1>1. RelayInv => OrderlyEnd
  BY DEF RelayInv
<1> QED BY <1>1, RelayInvariant, PTL

(***************************************************************************)
(* The closes.  What ends a side stays in sight until the loop has taken    *)
(* it: as the last thing that waits, or in the hands of the detached task.  *)
(***************************************************************************)
EndsWith(q, kinds) == q # <<>> /\ q[Len(q)].kind \in kinds

\* While the relay runs, the close of a side is ahead of it, and its branch of
\* the select is ready or the detached task has room for its event: neither a
\* full event queue, nor a branch that is dropped, nor the skipping of control
\* messages swallows it (on_close, relay).
CloseStaysAhead ==
  at # "ended" =>
    /\ peerEnd => /\ peer.late \/ EndsWith(peer.queue, {"closed"})
                  /\ DC!Ready(peer) \/ DC!LateSend(peer)
    /\ egressEnd => EgressReady /\ EndsWith(inbox, {"close", "error"})

CloseInv == RelayInv /\ CloseStaysAhead

\* Taking something else from a queue leaves its end in it.
LEMMA TailEnds ==
  ASSUME NEW q \in Seq(Messages), NEW kinds, EndsWith(q, kinds), Head(q).kind \notin kinds
  PROVE  EndsWith(Tail(q), kinds)
<1>1. Len(q) \in Nat \ {0} /\ Head(q) = q[1]
  BY SMT DEF EndsWith
<1>2. Len(q) # 1
  BY <1>1 DEF EndsWith
<1>3. /\ Tail(q) \in Seq(Messages) /\ Len(Tail(q)) = Len(q) - 1
      /\ \A i \in 1 .. Len(q) - 1 : Tail(q)[i] = q[i + 1]
  BY <1>1, SMT
<1>4. Tail(q) # <<>> /\ Len(q) - 1 \in 1 .. Len(q) - 1 /\ (Len(q) - 1) + 1 = Len(q)
  <2>1. \A n \in Nat \ {0} : n # 1 => n - 1 \in 1 .. n - 1 /\ (n - 1) + 1 = n /\ n - 1 # 0
    BY SMT
  <2>2. Len(<<>>) = 0
    BY SMT
  <2> QED BY <1>1, <1>2, <1>3, <2>1, <2>2
<1>5. Tail(q)[Len(Tail(q))] = q[Len(q)]
  BY <1>3, <1>4
<1> QED BY <1>4, <1>5 DEF EndsWith

\* What is appended to a queue is its end.
LEMMA AppendEnds ==
  ASSUME NEW q \in Seq(Messages), NEW m \in Messages, NEW kinds, m.kind \in kinds
  PROVE  EndsWith(Append(q, m), kinds)
<1>1. Append(q, m) # <<>> /\ Append(q, m)[Len(Append(q, m))] = m
  BY SMT
<1> QED BY <1>1 DEF EndsWith

\* recv, which skips control messages, does not skip the end.
LEMMA SkippedEnds ==
  ASSUME NEW q \in Seq(Messages), NEW kinds, EndsWith(q, kinds), "control" \notin kinds
  PROVE  EndsWith(Skipped(q), kinds)
<1> DEFINE s == Skipped(q)
<1>1. PICK k \in 0..Len(q) :
        /\ Len(s) = Len(q) - k
        /\ \A i \in 1..Len(s) : s[i] = q[i + k]
        /\ \A i \in 1..k : IsControl(q[i])
  BY SkippedShape
<1>2. s \in Seq(Messages)
  BY SkippedShape
<1> HIDE DEF s
<1>3. Len(q) \in Nat \ {0}
  BY SMT DEF EndsWith
<1>4. k # Len(q)
  <2>1. Len(q) \in 1..Len(q)
    BY <1>3, SMT
  <2> QED BY <1>1, <2>1 DEF EndsWith, IsControl
<1>5. s # <<>> /\ Len(s) \in 1..Len(s) /\ Len(s) + k = Len(q)
  BY <1>1, <1>2, <1>3, <1>4, SMT
<1>6. s[Len(s)] = q[Len(q)]
  BY <1>1, <1>5
<1> QED BY <1>5, <1>6 DEF EndsWith, s

\* A close that is still to come is behind some event, or there is room for it.
LEMMA LateCanGo ==
  ASSUME NEW d \in Adapters, d.late \/ EndsWith(d.queue, {"closed"})
  PROVE  DC!Ready(d) \/ DC!LateSend(d)
<1>1. Len(<<>>) < Capacity
  BY RelayAssumption, SMT
<1> QED BY <1>1 DEF EndsWith, DC!Ready, DC!LateSend, DC!HasSlot

\* The loop's steps take a close from the front only, and then they end it.
LEMMA LoopKeepsClose ==
  ASSUME CloseInv, RelayInv', PeerBranch \/ EgressBranch \/ SendToEgress \/ SendToPeer
  PROVE  CloseStaysAhead'
<1>1. RelayTypeOK /\ RelayTypeOK' /\ CloseStaysAhead
  BY DEF CloseInv, RelayInv
<1>2. CASE PeerBranch
  <2> DEFINE q == peer.queue
  <2>1. peer \in Adapters /\ inbox \in Seq(Messages) /\ at = "select"
    BY <1>1, <1>2 DEF RelayTypeOK, PeerBranch
  <2>2. /\ q \in Seq(Messages) /\ Tail(q) \in Seq(Messages) /\ DC!RecvPacket(peer) = Head(q)
        /\ peer' \in Adapters /\ peer'.late = peer.late /\ peer'.queue = Tail(q)
    BY <1>2, <2>1, AdapterRecv DEF PeerBranch
  <2>3. /\ UNCHANGED <<peerEnd, egressEnd>> /\ inbox' \in {inbox, Skipped(inbox)}
        /\ Head(q).kind = "closed" => at' = "ended"
    BY <1>2, <2>2 DEF PeerBranch, AfterDrop, Send, End
  <2>4. ASSUME at' # "ended", peerEnd PROVE peer'.late \/ EndsWith(peer'.queue, {"closed"})
    BY <1>1, <2>1, <2>2, <2>3, <2>4, TailEnds DEF CloseStaysAhead
  <2>5. ASSUME egressEnd PROVE EndsWith(inbox', {"close", "error"})
    BY <1>1, <2>1, <2>3, <2>5, SkippedEnds DEF CloseStaysAhead
  <2>6. egressEnd => EgressReady'
    <3>1. ASSUME RelayTypeOK', EndsWith(inbox', {"close", "error"}) PROVE EgressReady'
      <4>1. inbox' \in Seq(Messages)
        BY <3>1 DEF RelayTypeOK
      <4> QED BY <3>1, <4>1, SkippedEnds DEF EgressReady, EndsWith
    <3> QED BY <1>1, <2>5, <3>1
  <2> QED BY <2>2, <2>3, <2>4, <2>5, <2>6, LateCanGo DEF CloseStaysAhead
<1>3. CASE EgressBranch
  <2> DEFINE s == Skipped(inbox)
  <2>1. inbox \in Seq(Messages) /\ s \in Seq(Messages) /\ at = "select"
    BY <1>1, <1>3, SkippedShape DEF RelayTypeOK, EgressBranch
  <2>2. /\ UNCHANGED <<peer, peerEnd, egressEnd>> /\ inbox' = Tail(s)
        /\ Head(s).kind \in {"close", "error"} => at' = "ended"
    BY <1>3 DEF EgressBranch, Send, End, peerVars
  <2>3. ASSUME at' # "ended", egressEnd PROVE EndsWith(inbox', {"close", "error"})
    <3>1. EndsWith(s, {"close", "error"})
      BY <1>1, <2>1, <2>3, SkippedEnds DEF CloseStaysAhead
    <3> HIDE DEF s
    <3> QED BY <2>1, <2>2, <2>3, <3>1, TailEnds
  <2>4. at' # "ended" /\ egressEnd => EgressReady'
    <3>1. inbox' \in Seq(Messages)
      BY <1>1 DEF RelayTypeOK
    <3> QED BY <2>3, <3>1, SkippedEnds DEF EgressReady, EndsWith
  <2> QED BY <1>1, <2>1, <2>2, <2>3, <2>4 DEF CloseStaysAhead
<1>4. CASE SendToEgress \/ SendToPeer
  <2>1. at # "ended" /\ UNCHANGED <<peer, peerEnd, inbox, egressEnd>>
    BY <1>4 DEF SendToEgress, SendToPeer, peerVars, egressVars
  <2> QED BY <1>1, <2>1 DEF CloseStaysAhead, EgressReady
<1> QED BY <1>2, <1>3, <1>4

\* The sides' steps put a close behind all else, and nothing behind it.
LEMMA SidesKeepClose ==
  ASSUME CloseInv, RelayInv', PeerSends \/ PeerCloses \/ LateClose \/ EgressSends
  PROVE  CloseStaysAhead'
<1>1. RelayTypeOK /\ RelayTypeOK' /\ CloseStaysAhead /\ LastOfPeer
  BY DEF CloseInv, RelayInv
<1>2. CASE PeerSends
  <2>1. ~peerEnd /\ at # "ended" /\ UNCHANGED <<at, peerEnd, inbox, egressEnd>>
    BY <1>2 DEF PeerSends, relayVars, egressVars
  <2> QED BY <1>1, <2>1 DEF CloseStaysAhead, EgressReady
<1>3. CASE PeerCloses
  <2>1. /\ at # "ended" /\ UNCHANGED <<at, inbox, egressEnd>>
        /\ peer \in Adapters /\ peer' \in Adapters /\ peer' = DC!OnClose(peer)
    BY <1>1, <1>3 DEF PeerCloses, relayVars, egressVars, RelayTypeOK
  <2>2. peer'.late \/ EndsWith(peer'.queue, {"closed"})
    <3>1. peer.queue \in Seq(Messages) /\ EndsWith(Append(peer.queue, DC!ClosedEvent), {"closed"})
      BY <2>1, MessageFacts, AppendEnds DEF Adapters
    <3> QED BY <2>1, <3>1, AdapterClose
  <2> QED BY <1>1, <2>1, <2>2, LateCanGo DEF CloseStaysAhead, EgressReady
<1>4. CASE LateClose
  <2>1. /\ at # "ended" /\ UNCHANGED <<at, inbox, egressEnd>>
        /\ peer \in Adapters /\ peer' \in Adapters /\ peer' = DC!AfterLateSend(peer)
    BY <1>1, <1>4 DEF LateClose, relayVars, egressVars, RelayTypeOK
  <2>2. EndsWith(peer'.queue, {"closed"})
    <3>1. peer.queue \in Seq(Messages) /\ EndsWith(Append(peer.queue, DC!ClosedEvent), {"closed"})
      BY <2>1, MessageFacts, AppendEnds DEF Adapters
    <3> QED BY <2>1, <3>1, AdapterLateSend
  <2> QED BY <1>1, <2>1, <2>2, LateCanGo DEF CloseStaysAhead, EgressReady
<1>5. CASE EgressSends
  <2>1. /\ ~egressEnd /\ at # "ended" /\ UNCHANGED <<at, peer, peerEnd>>
        /\ inbox \in Seq(Messages) /\ inbox' \in Seq(Messages)
    BY <1>1, <1>5 DEF EgressSends, relayVars, peerVars, RelayTypeOK
  <2>2. PICK m \in {Message("binary", NextId(arrived)), Message("control", 0),
                    Message("text", 0), Message("close", 0), Message("error", 0)} :
          inbox' = Append(inbox, m) /\ egressEnd' = (m.kind \in {"close", "error"})
    BY <1>5 DEF EgressSends
  <2>3. ASSUME egressEnd' PROVE EndsWith(inbox', {"close", "error"})
    <3>1. m.kind \in {"close", "error"}
      BY <2>2, <2>3
    <3>2. inbox' # <<>> /\ inbox'[Len(inbox')] = m
      BY <2>1, <2>2, SMT
    <3> QED BY <3>1, <3>2 DEF EndsWith
  <2>4. egressEnd' => EgressReady'
    BY <2>1, <2>3, SkippedEnds DEF EgressReady, EndsWith
  <2> QED BY <1>1, <2>1, <2>3, <2>4 DEF CloseStaysAhead
<1> QED BY <1>2, <1>3, <1>4, <1>5

\* A side that has closed is never forgotten by a running relay, for queues of
\* any size: the event queue, or the task that waits for room in it, and the
\* WebSocket hold the close until the loop takes it.
THEOREM RelaySeesClose == Spec => []CloseStaysAhead
<1>1. Init => CloseInv
  <2>1. Init => CloseStaysAhead
    BY DEF Init, CloseStaysAhead
  <2> QED BY <2>1, InitRelayInv DEF CloseInv
<1>2. CloseInv /\ [Next]_vars => CloseInv'
  <2> SUFFICES ASSUME CloseInv, [Next]_vars PROVE CloseInv'
    OBVIOUS
  <2>1. RelayInv'
    BY NextRelayInv DEF CloseInv
  <2>2. CASE Next
    BY <2>1, <2>2, LoopKeepsClose, SidesKeepClose DEF CloseInv, Next
  <2>3. CASE UNCHANGED vars
    BY <2>1, <2>3 DEF CloseInv, CloseStaysAhead, EgressReady, vars, relayVars, peerVars, egressVars
  <2> QED BY <2>2, <2>3
<1>3. CloseInv => CloseStaysAhead
  BY DEF CloseInv
<1> QED BY <1>1, <1>2, <1>3, PTL DEF Spec
=============================================================================
