-------------------------- MODULE RendezvousProofs --------------------------
(***************************************************************************)
(* Theorems about the rendezvous, for any number of consumers, attempts and *)
(* peers and any number of faults.                                          *)
(***************************************************************************)
EXTENDS Rendezvous, TLAPS

ConsumerPlaces == {"idle", "select", "offer", "ice", "nat", "path", "ended", "failed"}
PeerPlaces == {"idle", "genesis", "answer", "nat", "relay", "ended", "failed"}
ConsumerStates ==
  [at : ConsumerPlaces,
   replyTo : {None} \cup (Peers \X {"Genesis", "Answer"}),
   answer : {None} \cup (Peers \X Sessions)]
PeerStates ==
  [at : PeerPlaces,
   replyTo : {None} \cup (Sessions \X {"Offer"}),
   offer : {None} \cup Sessions,
   ice : [candidates : SUBSET (Sessions \X {"Udp", "Tcp", "Unspecified"}),
          consumer_session_id : {None} \cup {ConsumerSessionId(c) : c \in Sessions}]]
Statuses == {"unsent", "sent", "open", "replied", "expired", "gone"}

Shape ==
  /\ consumer \in [Sessions -> ConsumerStates]
  /\ peer \in [Peers -> PeerStates]
  /\ request \in [Requests -> Statuses]
  /\ reply \in [Requests -> {None} \cup Requests]

(***************************************************************************)
(* The chain of messages that leads to a pair: every message is an answer   *)
(* to the one before it, from the party that read it.                       *)
(***************************************************************************)

\* A peer's request for offers is answered by an offer, and the peer applies
\* that one.
Offered(p) ==
  /\ reply[<<p, "Genesis">>] \in {None} \cup (Sessions \X {"Offer"})
  /\ request[<<p, "Genesis">>] = "replied" => reply[<<p, "Genesis">>] # None
  /\ peer[p].at \in {"idle", "genesis"} => peer[p].offer = None
  /\ peer[p].at \in {"answer", "nat", "relay", "ended"} => peer[p].offer # None
  /\ peer[p].offer # None => peer[p].replyTo = <<peer[p].offer, "Offer">>
  /\ request[<<p, "Answer">>] # "unsent" => peer[p].offer # None

OfferLink == \A p \in Peers : Offered(p)

\* An offer is answered by a peer that has applied it, and the consumer applies
\* that peer's answer.
AnsweredBy(c) ==
  reply[<<c, "Offer">>] # None =>
    \E p \in Peers : reply[<<c, "Offer">>] = <<p, "Answer">> /\ peer[p].offer = c

Applied(c) ==
  consumer[c].answer # None =>
    \E p \in Peers : /\ consumer[c].answer = <<p, c>>
                     /\ consumer[c].replyTo = <<p, "Answer">>
                     /\ peer[p].offer = c

Order(c) ==
  /\ request[<<c, "Offer">>] = "replied" => reply[<<c, "Offer">>] # None
  /\ request[<<c, "Offer">>] = "sent" => consumer[c].replyTo \in Peers \X {"Genesis"}
  /\ consumer[c].at \in {"idle", "select"} => request[<<c, "Offer">>] = "unsent"
  /\ consumer[c].at \in {"idle", "select", "offer"} => consumer[c].answer = None
  /\ request[<<c, "Ice">>] # "unsent" => consumer[c].answer # None

AnswerLink == \A c \in Sessions : AnsweredBy(c) /\ Applied(c) /\ Order(c)

\* An answer is answered by the candidates of a consumer that has applied it.
IcedBy(p) ==
  reply[<<p, "Answer">>] # None =>
    \E c \in Sessions : reply[<<p, "Answer">>] = <<c, "Ice">> /\ consumer[c].answer = <<p, c>>

Ready(p) ==
  /\ request[<<p, "Answer">>] = "replied" => reply[<<p, "Answer">>] # None
  /\ peer[p].at \in {"nat", "relay", "ended"} =>
       /\ reply[<<p, "Answer">>] # None
       /\ peer[p].ice.candidates = {peer[p].offer} \X Gathered
       /\ peer[p].ice.consumer_session_id = ConsumerSessionId(peer[p].offer)

IceLink == \A p \in Peers : IcedBy(p) /\ Ready(p)

RendezvousInv == Shape /\ OfferLink /\ AnswerLink /\ IceLink

-----------------------------------------------------------------------------
\* A candidate's owner is sent along, and its protocol survives its number on
\* the wire.
LEMMA CandidatesSurvive ==
  ASSUME NEW c
  PROVE  {<<n[1], RustProtocol(n[2])>> : n \in {<<c, ProtocolNumber(k)>> : k \in Gathered}}
           = {c} \X Gathered
<1>1. \A k \in Gathered : RustProtocol(ProtocolNumber(k)) = k
  BY RendezvousAssumption DEF RustProtocol, ProtocolNumber
<1> DEFINE sent == {<<c, ProtocolNumber(k)>> : k \in Gathered}
           received == {<<n[1], RustProtocol(n[2])>> : n \in sent}
<1>2. ASSUME NEW x \in received
      PROVE  x \in {c} \X Gathered
  <2>1. PICK n \in sent : x = <<n[1], RustProtocol(n[2])>>
    OBVIOUS
  <2>2. PICK k \in Gathered : n = <<c, ProtocolNumber(k)>>
    OBVIOUS
  <2> QED BY <2>1, <2>2, <1>1
<1>3. ASSUME NEW k \in Gathered
      PROVE  <<c, k>> \in received
  <2> DEFINE n == <<c, ProtocolNumber(k)>>
  <2>1. n \in sent
    OBVIOUS
  <2>2. n[1] = c /\ n[2] = ProtocolNumber(k)
    OBVIOUS
  <2> HIDE DEF n, sent
  <2>3. <<n[1], RustProtocol(n[2])>> \in received
    BY <2>1
  <2>4. <<n[1], RustProtocol(n[2])>> = <<c, k>>
    BY <2>2, <1>1
  <2> QED BY <2>3, <2>4
<1>4. ASSUME NEW x \in {c} \X Gathered
      PROVE  x \in received
  <2>1. PICK k \in Gathered : x = <<c, k>>
    OBVIOUS
  <2> QED BY <2>1, <1>3
<1> QED BY <1>2, <1>4

\* Which request is whose.
LEMMA RequestsApart ==
  /\ \A p \in Peers : <<p, "Genesis">> \in Requests /\ <<p, "Answer">> \in Requests
  /\ \A c \in Sessions : <<c, "Offer">> \in Requests /\ <<c, "Ice">> \in Requests
  /\ None \notin Requests /\ None \notin Sessions /\ None \notin Peers \X Sessions
  /\ \A r \in Requests : \/ \E p \in Peers : r = <<p, "Genesis">>
                         \/ \E p \in Peers : r = <<p, "Answer">>
                         \/ \E c \in Sessions : r = <<c, "Offer">>
                         \/ \E c \in Sessions : r = <<c, "Ice">>
BY RendezvousAssumption DEF Requests

\* From the chain of messages to the pair.
LEMMA ChainMatches == RendezvousInv => MatchedPair /\ SessionSurvivesPeers
<1> SUFFICES ASSUME RendezvousInv PROVE MatchedPair /\ SessionSurvivesPeers
  OBVIOUS
<1> USE DEF RendezvousInv
<1>1. ASSUME NEW p \in Peers, peer[p].at \in {"nat", "relay", "ended"}
      PROVE  /\ peer[p].offer \in Sessions
             /\ consumer[peer[p].offer].answer = <<p, peer[p].offer>>
             /\ peer[p].ice.candidates = {peer[p].offer} \X Gathered
             /\ peer[p].ice.consumer_session_id = ConsumerSessionId(peer[p].offer)
  <2>1. PICK c \in Sessions : consumer[c].answer = <<p, c>>
    BY <1>1, Zenon DEF IceLink, IcedBy, Ready
  <2>2. consumer[c].answer # None
    BY <2>1, RequestsApart
  <2>3. PICK q \in Peers : consumer[c].answer = <<q, c>> /\ peer[q].offer = c
    BY <2>2 DEF AnswerLink, Applied
  <2>4. peer[p].offer = c
    BY <2>1, <2>3
  <2> QED BY <1>1, <2>1, <2>4, Zenon DEF IceLink, Ready
<1>2. MatchedPair
  BY <1>1 DEF MatchedPair
<1>3. SessionSurvivesPeers
  <2> SUFFICES ASSUME NEW p \in Peers, NEW q \in Peers,
                      peer[p].at = "relay", peer[q].at = "relay"
               PROVE  peer[p].ice.consumer_session_id = peer[q].ice.consumer_session_id
                        <=> peer[p].offer[1] = peer[q].offer[1]
    BY DEF SessionSurvivesPeers
  <2>1. /\ peer[p].ice.consumer_session_id = <<peer[p].offer[1]>>
        /\ peer[q].ice.consumer_session_id = <<peer[q].offer[1]>>
    BY <1>1 DEF ConsumerSessionId
  <2> QED BY <2>1
<1> QED BY <1>2, <1>3

-----------------------------------------------------------------------------
\* A consumer that only moves on, to a place where nothing more is required of
\* it, keeps the chain.
LEMMA ConsumerMoves ==
  ASSUME RendezvousInv, NEW c \in Sessions, NEW where \in ConsumerPlaces,
         ConsumerAt(c, where), UNCHANGED <<peer, request, reply>>,
         \/ where \in {"nat", "path", "ended", "failed"}
         \/ where = "select" /\ consumer[c].at = "idle"
  PROVE  RendezvousInv'
<1> USE DEF RendezvousInv
<1>1. Shape'
  BY DEF Shape, ConsumerStates, ConsumerAt
<1>2. \A d \in Sessions : /\ consumer'[d].replyTo = consumer[d].replyTo
                          /\ consumer'[d].answer = consumer[d].answer
                          /\ d # c => consumer'[d].at = consumer[d].at
  BY DEF Shape, ConsumerStates, ConsumerAt
<1>3. consumer'[c].at = where
  BY DEF Shape, ConsumerStates, ConsumerAt
<1>4. OfferLink'
  BY Zenon DEF OfferLink, Offered
<1>5. ASSUME NEW d \in Sessions
      PROVE  (AnsweredBy(d) /\ Applied(d) /\ Order(d))'
  <2>1. AnsweredBy(d) /\ Applied(d) /\ Order(d)
    BY DEF AnswerLink
  <2>2. AnsweredBy(d)'
    BY <2>1 DEF AnsweredBy
  <2>3. Applied(d)'
    BY <2>1, <1>2 DEF Applied
  <2>4. Order(d)'
    BY <2>1, <1>2, <1>3 DEF Order
  <2> QED BY <2>2, <2>3, <2>4
<1>6. IceLink'
  BY <1>2, ZenonT(60) DEF IceLink, IcedBy, Ready
<1> QED BY <1>1, <1>4, <1>5, <1>6 DEF AnswerLink

\* The same for a peer.
LEMMA PeerMoves ==
  ASSUME RendezvousInv, NEW p \in Peers, NEW where \in PeerPlaces,
         PeerAt(p, where), UNCHANGED <<consumer, request, reply>>,
         \/ where = "failed"
         \/ where \in {"relay", "ended"} /\ peer[p].at \in {"nat", "relay"}
  PROVE  RendezvousInv'
<1> USE DEF RendezvousInv
<1>1. Shape'
  BY DEF Shape, PeerStates, PeerAt
<1>2. \A q \in Peers : /\ peer'[q].replyTo = peer[q].replyTo
                       /\ peer'[q].offer = peer[q].offer
                       /\ peer'[q].ice = peer[q].ice
                       /\ q # p => peer'[q].at = peer[q].at
  BY DEF Shape, PeerStates, PeerAt
<1>3. peer'[p].at = where
  BY DEF Shape, PeerStates, PeerAt
<1>4. OfferLink'
  BY <1>2, <1>3, ZenonT(60) DEF OfferLink, Offered
<1>5. ASSUME NEW d \in Sessions
      PROVE  (AnsweredBy(d) /\ Applied(d) /\ Order(d))'
  <2>1. AnsweredBy(d) /\ Applied(d) /\ Order(d)
    BY DEF AnswerLink
  <2>2. AnsweredBy(d)'
    BY <2>1, <1>2 DEF AnsweredBy
  <2>3. Applied(d)'
    BY <2>1, <1>2 DEF Applied
  <2>4. Order(d)'
    BY <2>1 DEF Order
  <2> QED BY <2>2, <2>3, <2>4
<1>6. IceLink'
  BY <1>2, <1>3, Zenon DEF IceLink, IcedBy, Ready
<1> QED BY <1>1, <1>4, <1>5, <1>6 DEF AnswerLink

\* A consumer that offers has applied nothing yet.
LEMMA OfferStep ==
  ASSUME RendezvousInv, NEW c \in Sessions, NEW p \in Peers, PostOffer(c, p)
  PROVE  RendezvousInv'
<1> USE DEF RendezvousInv
<1>1. /\ UNCHANGED <<peer, reply>>
      /\ consumer[c].at = "select" /\ consumer[c].answer = None
      /\ consumer' = [consumer EXCEPT ![c] = [@ EXCEPT !.at = "offer", !.replyTo = <<p, "Genesis">>]]
      /\ request' = [request EXCEPT ![<<c, "Offer">>] = "sent"]
  BY Zenon DEF PostOffer, Post, Keep, AnswerLink, Order
<1>2. Shape'
  <2> DEFINE new == [consumer[c] EXCEPT !.at = "offer", !.replyTo = <<p, "Genesis">>]
  <2>1. <<p, "Genesis">> \in Peers \X {"Genesis", "Answer"}
    OBVIOUS
  <2>2. consumer[c] \in ConsumerStates
    BY DEF Shape
  <2>3. new \in ConsumerStates
    BY <2>1, <2>2, Zenon DEF ConsumerStates, ConsumerPlaces
  <2> HIDE DEF new
  <2>4. consumer' = [consumer EXCEPT ![c] = new]
    BY <1>1 DEF new
  <2> QED BY <1>1, <2>3, <2>4, Zenon DEF Shape, Statuses
<1>3. \A d \in Sessions : /\ consumer'[d].answer = consumer[d].answer
                          /\ d # c => consumer'[d] = consumer[d]
  BY <1>1 DEF Shape, ConsumerStates
<1>4. consumer'[c].at = "offer" /\ consumer'[c].replyTo = <<p, "Genesis">>
  BY <1>1 DEF Shape, ConsumerStates
<1>5. /\ request'[<<c, "Offer">>] = "sent"
      /\ \A d \in Sessions : /\ d # c => request'[<<d, "Offer">>] = request[<<d, "Offer">>]
                             /\ request'[<<d, "Ice">>] = request[<<d, "Ice">>]
      /\ \A q \in Peers : /\ request'[<<q, "Genesis">>] = request[<<q, "Genesis">>]
                          /\ request'[<<q, "Answer">>] = request[<<q, "Answer">>]
  BY <1>1, RequestsApart, Zenon DEF Shape
<1>6. OfferLink'
  BY <1>1, <1>5, ZenonT(60) DEF OfferLink, Offered
<1>7. ASSUME NEW d \in Sessions
      PROVE  (AnsweredBy(d) /\ Applied(d) /\ Order(d))'
  <2>1. AnsweredBy(d) /\ Applied(d) /\ Order(d)
    BY DEF AnswerLink
  <2>2. AnsweredBy(d)'
    BY <2>1, <1>1 DEF AnsweredBy
  <2>3. Applied(d)'
    BY <2>1, <1>1, <1>3 DEF Applied
  <2>4. Order(d)'
    BY <2>1, <1>1, <1>3, <1>4, <1>5 DEF Order
  <2> QED BY <2>2, <2>3, <2>4
<1>8. ASSUME NEW q \in Peers
      PROVE  (IcedBy(q) /\ Ready(q))'
  <2>1. IcedBy(q) /\ Ready(q)
    BY DEF IceLink
  <2>2. IcedBy(q)'
    BY <2>1, <1>1, <1>3 DEF IcedBy
  <2>3. Ready(q)'
    BY <2>1, <1>1, <1>5 DEF Ready
  <2> QED BY <2>2, <2>3
<1> QED BY <1>2, <1>6, <1>7, <1>8 DEF OfferLink, AnswerLink, IceLink

\* A consumer applies the answer of the peer that has applied its offer.
LEMMA IceStep ==
  ASSUME RendezvousInv, NEW c \in Sessions, PostIce(c)
  PROVE  RendezvousInv'
<1> USE DEF RendezvousInv
<1>1. /\ UNCHANGED <<peer, reply>>
      /\ consumer[c].at = "offer" /\ request[<<c, "Offer">>] = "replied"
      /\ request' = [request EXCEPT ![<<c, "Ice">>] = "sent"]
  BY DEF PostIce, Post, Keep, ExpectSignal
<1>2. consumer[c].answer = None /\ reply[<<c, "Offer">>] # None
  BY <1>1 DEF AnswerLink, Order
<1>3. PICK p \in Peers : reply[<<c, "Offer">>] = <<p, "Answer">> /\ peer[p].offer = c
  BY <1>2 DEF AnswerLink, AnsweredBy
<1> DEFINE new == [at |-> "ice", replyTo |-> <<p, "Answer">>, answer |-> <<p, c>>]
<1>4. consumer' = [consumer EXCEPT ![c] = new]
  <2>1. IceTo(c) = <<p, "Answer">> /\ reply[<<c, "Offer">>][1] = p
    BY <1>3 DEF IceTo
  <2>2. <<reply[<<c, "Offer">>][1], peer[reply[<<c, "Offer">>][1]].offer>> = <<p, c>>
    BY <1>3, <2>1
  <2> QED BY <2>1, <2>2 DEF PostIce
<1>5. new \in ConsumerStates
  BY DEF ConsumerStates, ConsumerPlaces
<1>6. /\ consumer'[c] = new
      /\ \A d \in Sessions \ {c} : consumer'[d] = consumer[d]
  BY <1>4 DEF Shape
<1>7. consumer'[c].at = "ice" /\ consumer'[c].replyTo = <<p, "Answer">> /\ consumer'[c].answer = <<p, c>>
  BY <1>6
<1>8. Shape'
  <2> HIDE DEF new
  <2> QED BY <1>1, <1>4, <1>5, Zenon DEF Shape, Statuses
<1> HIDE DEF new
<1>9. /\ \A d \in Sessions : /\ request'[<<d, "Offer">>] = request[<<d, "Offer">>]
                             /\ d # c => request'[<<d, "Ice">>] = request[<<d, "Ice">>]
      /\ \A q \in Peers : /\ request'[<<q, "Genesis">>] = request[<<q, "Genesis">>]
                          /\ request'[<<q, "Answer">>] = request[<<q, "Answer">>]
  BY <1>1, RequestsApart DEF Shape
<1>10. OfferLink'
  BY <1>1, <1>9, Zenon DEF OfferLink, Offered
<1>11. ASSUME NEW d \in Sessions
       PROVE  (AnsweredBy(d) /\ Applied(d) /\ Order(d))'
  <2>1. AnsweredBy(d) /\ Applied(d) /\ Order(d)
    BY DEF AnswerLink
  <2>2. AnsweredBy(d)'
    BY <2>1, <1>1 DEF AnsweredBy
  <2>3. Applied(d)'
    BY <2>1, <1>1, <1>3, <1>6, <1>7 DEF Applied
  <2>4. Order(d)'
    <3>1. <<p, c>> # None
      BY RequestsApart
    <3> QED BY <2>1, <3>1, <1>1, <1>6, <1>7, <1>9 DEF Order
  <2> QED BY <2>2, <2>3, <2>4
<1>12. ASSUME NEW q \in Peers
       PROVE  (IcedBy(q) /\ Ready(q))'
  <2>1. IcedBy(q) /\ Ready(q)
    BY DEF IceLink
  <2>2. IcedBy(q)'
    <3>1. \A d \in Sessions : consumer[d].answer = <<q, d>> => d # c
      BY <1>2, RequestsApart
    <3> QED BY <2>1, <3>1, <1>1, <1>6 DEF IcedBy
  <2>3. Ready(q)'
    BY <2>1, <1>1, <1>9 DEF Ready
  <2> QED BY <2>2, <2>3
<1> QED BY <1>8, <1>10, <1>11, <1>12 DEF AnswerLink, IceLink

\* A peer that has only been advertised has applied nothing.
LEMMA GenesisStep ==
  ASSUME RendezvousInv, NEW p \in Peers, PostGenesis(p)
  PROVE  RendezvousInv'
<1> USE DEF RendezvousInv
<1>1. /\ UNCHANGED <<consumer, reply>>
      /\ peer[p].at = "idle" /\ peer' = [peer EXCEPT ![p].at = "genesis"]
      /\ request' = [request EXCEPT ![<<p, "Genesis">>] = "sent"]
  BY DEF PostGenesis, Post, Keep, PeerAt
<1>2. Shape'
  <2>1. "genesis" \in PeerPlaces
    BY DEF PeerPlaces
  <2> DEFINE new == [peer[p] EXCEPT !.at = "genesis"]
  <2>2. peer[p] \in PeerStates
    BY DEF Shape
  <2>3. new \in PeerStates
    BY <2>1, <2>2 DEF PeerStates
  <2>4. peer' = [peer EXCEPT ![p] = new]
    BY <1>1
  <2> HIDE DEF new
  <2> QED BY <1>1, <2>3, <2>4, Zenon DEF Shape, Statuses
<1>3. \A q \in Peers : /\ peer'[q].replyTo = peer[q].replyTo
                       /\ peer'[q].offer = peer[q].offer
                       /\ peer'[q].ice = peer[q].ice
                       /\ q # p => peer'[q].at = peer[q].at
  BY <1>1 DEF Shape, PeerStates
<1>4. peer'[p].at = "genesis"
  BY <1>1 DEF Shape, PeerStates
<1>5. /\ \A d \in Sessions : /\ request'[<<d, "Offer">>] = request[<<d, "Offer">>]
                             /\ request'[<<d, "Ice">>] = request[<<d, "Ice">>]
      /\ \A q \in Peers : /\ q # p => request'[<<q, "Genesis">>] = request[<<q, "Genesis">>]
                          /\ request'[<<q, "Answer">>] = request[<<q, "Answer">>]
      /\ request'[<<p, "Genesis">>] = "sent"
  BY <1>1, RequestsApart, Zenon DEF Shape
<1>6. ASSUME NEW q \in Peers
      PROVE  Offered(q)'
  <2>1. Offered(q)
    BY DEF OfferLink
  <2>2. CASE q = p
    BY <2>1, <2>2, <1>1, <1>3, <1>4, <1>5 DEF Offered
  <2>3. CASE q # p
    BY <2>1, <2>3, <1>1, <1>3, <1>5 DEF Offered
  <2> QED BY <2>2, <2>3
<1>7. ASSUME NEW d \in Sessions
      PROVE  (AnsweredBy(d) /\ Applied(d) /\ Order(d))'
  <2>1. AnsweredBy(d) /\ Applied(d) /\ Order(d)
    BY DEF AnswerLink
  <2>2. AnsweredBy(d)'
    BY <2>1, <1>1, <1>3 DEF AnsweredBy
  <2>3. Applied(d)'
    BY <2>1, <1>1, <1>3 DEF Applied
  <2>4. Order(d)'
    BY <2>1, <1>1, <1>5 DEF Order
  <2> QED BY <2>2, <2>3, <2>4
<1>8. ASSUME NEW q \in Peers
      PROVE  (IcedBy(q) /\ Ready(q))'
  <2>1. IcedBy(q) /\ Ready(q)
    BY DEF IceLink
  <2>2. IcedBy(q)'
    BY <2>1, <1>1 DEF IcedBy
  <2>3. Ready(q)'
    BY <2>1, <1>1, <1>3, <1>4, <1>5 DEF Ready
  <2> QED BY <2>2, <2>3
<1> QED BY <1>2, <1>6, <1>7, <1>8 DEF OfferLink, AnswerLink, IceLink

\* A peer applies the offer that answered its Genesis.
LEMMA AnswerStep ==
  ASSUME RendezvousInv, NEW p \in Peers, PostAnswer(p)
  PROVE  RendezvousInv'
<1> USE DEF RendezvousInv
<1>1. /\ UNCHANGED <<consumer, reply>>
      /\ peer[p].at = "genesis" /\ request[<<p, "Genesis">>] = "replied"
      /\ request' = [request EXCEPT ![<<p, "Answer">>] = "sent"]
  BY DEF PostAnswer, Post, Keep, ExpectSignal
<1>2. peer[p].offer = None /\ reply[<<p, "Genesis">>] \in Sessions \X {"Offer"}
  BY <1>1 DEF OfferLink, Offered
<1>3. PICK c \in Sessions : reply[<<p, "Genesis">>] = <<c, "Offer">>
  BY <1>2
<1> DEFINE new == [peer[p] EXCEPT !.at = "answer", !.replyTo = <<c, "Offer">>, !.offer = c]
<1>4. peer' = [peer EXCEPT ![p] = new]
  <2>1. reply[<<p, "Genesis">>][1] = c
    BY <1>3
  <2> QED BY <1>3, <2>1 DEF PostAnswer
<1>5. peer[p] \in PeerStates /\ "answer" \in PeerPlaces /\ <<c, "Offer">> \in Sessions \X {"Offer"}
  BY DEF Shape, PeerPlaces
<1>6. /\ new \in PeerStates
      /\ new.at = "answer" /\ new.replyTo = <<c, "Offer">> /\ new.offer = c
  BY <1>5, Zenon DEF PeerStates
<1> HIDE DEF new
<1>7. Shape'
  BY <1>1, <1>4, <1>6, Zenon DEF Shape, Statuses
<1>8. peer'[p] = new /\ \A q \in Peers \ {p} : peer'[q] = peer[q]
  BY <1>4 DEF Shape
<1>9. /\ \A d \in Sessions : /\ request'[<<d, "Offer">>] = request[<<d, "Offer">>]
                             /\ request'[<<d, "Ice">>] = request[<<d, "Ice">>]
      /\ \A q \in Peers : /\ request'[<<q, "Genesis">>] = request[<<q, "Genesis">>]
                          /\ q # p => request'[<<q, "Answer">>] = request[<<q, "Answer">>]
      /\ request'[<<p, "Answer">>] = "sent"
  BY <1>1, RequestsApart DEF Shape
<1>10. \A q \in Peers, d \in Sessions : peer[q].offer = d => peer'[q].offer = d
  BY <1>2, <1>8, RequestsApart
<1>11. ASSUME NEW q \in Peers
       PROVE  Offered(q)'
  <2>1. Offered(q)
    BY DEF OfferLink
  <2>2. CASE q = p
    BY <2>1, <2>2, <1>1, <1>6, <1>8, <1>9, RequestsApart DEF Offered
  <2>3. CASE q # p
    BY <2>1, <2>3, <1>1, <1>8, <1>9 DEF Offered
  <2> QED BY <2>2, <2>3
<1>12. ASSUME NEW d \in Sessions
       PROVE  (AnsweredBy(d) /\ Applied(d) /\ Order(d))'
  <2>1. AnsweredBy(d) /\ Applied(d) /\ Order(d)
    BY DEF AnswerLink
  <2>2. AnsweredBy(d)'
    BY <2>1, <1>1, <1>10 DEF AnsweredBy
  <2>3. Applied(d)'
    BY <2>1, <1>1, <1>10 DEF Applied
  <2>4. Order(d)'
    BY <2>1, <1>1, <1>9 DEF Order
  <2> QED BY <2>2, <2>3, <2>4
<1>13. ASSUME NEW q \in Peers
       PROVE  (IcedBy(q) /\ Ready(q))'
  <2>1. IcedBy(q) /\ Ready(q)
    BY DEF IceLink
  <2>2. IcedBy(q)'
    BY <2>1, <1>1 DEF IcedBy
  <2>3. Ready(q)'
    BY <2>1, <1>1, <1>6, <1>8, <1>9 DEF Ready
  <2> QED BY <2>2, <2>3
<1> QED BY <1>7, <1>11, <1>12, <1>13 DEF OfferLink, AnswerLink, IceLink

\* A peer takes the candidates of the consumer that answered its answer, which
\* is the one whose offer it has applied.
LEMMA CandidatesStep ==
  ASSUME RendezvousInv, NEW p \in Peers, AddCandidates(p)
  PROVE  RendezvousInv'
<1> USE DEF RendezvousInv
<1>1. /\ UNCHANGED <<consumer, request, reply>>
      /\ peer[p].at = "answer" /\ request[<<p, "Answer">>] = "replied"
  BY DEF AddCandidates, Keep, ExpectSignal
<1>2. reply[<<p, "Answer">>] # None
  BY <1>1 DEF IceLink, Ready
<1>3. PICK c \in Sessions : reply[<<p, "Answer">>] = <<c, "Ice">> /\ consumer[c].answer = <<p, c>>
  BY <1>2 DEF IceLink, IcedBy
<1>4. PICK q \in Peers : consumer[c].answer = <<q, c>> /\ peer[q].offer = c
  BY <1>3, RequestsApart DEF AnswerLink, Applied
<1>5. peer[p].offer = c
  BY <1>3, <1>4
<1> DEFINE ice == [candidates |-> {c} \X Gathered, consumer_session_id |-> ConsumerSessionId(c)]
           new == [peer[p] EXCEPT !.at = "nat", !.ice = ice]
<1>6. peer' = [peer EXCEPT ![p] = new]
  <2> DEFINE message == IceMessage(c)
  <2>1. reply[<<p, "Answer">>][1] = c
    BY <1>3
  <2>2. [message EXCEPT !.candidates = {<<n[1], RustProtocol(n[2])>> : n \in @}] = ice
    <3>1. message = [candidates |-> {<<c, ProtocolNumber(k)>> : k \in Gathered},
                     consumer_session_id |-> ConsumerSessionId(c)]
      BY DEF IceMessage
    <3>2. {<<n[1], RustProtocol(n[2])>> : n \in message.candidates} = {c} \X Gathered
      BY <3>1, CandidatesSurvive
    <3> HIDE DEF message
    <3>3. [message EXCEPT !.candidates = {c} \X Gathered] = ice
      BY <3>1
    <3> QED BY <3>2, <3>3, Zenon
  <2> HIDE DEF ice
  <2> QED BY <2>1, <2>2, Zenon DEF AddCandidates
<1>7. peer[p] \in PeerStates /\ "nat" \in PeerPlaces
  BY DEF Shape, PeerPlaces
<1>8. {c} \X Gathered \in SUBSET (Sessions \X {"Udp", "Tcp", "Unspecified"})
  BY RendezvousAssumption, Zenon
<1>9. /\ new \in PeerStates
      /\ new.at = "nat" /\ new.replyTo = peer[p].replyTo /\ new.offer = c
      /\ new.ice.candidates = {c} \X Gathered /\ new.ice.consumer_session_id = ConsumerSessionId(c)
  BY <1>5, <1>7, <1>8, Zenon DEF PeerStates
<1> HIDE DEF new
<1>10. Shape'
  BY <1>1, <1>6, <1>9 DEF Shape
<1>11. peer'[p] = new /\ \A r \in Peers \ {p} : peer'[r] = peer[r]
  BY <1>6 DEF Shape
<1>12. \A r \in Peers : peer'[r].offer = peer[r].offer /\ peer'[r].replyTo = peer[r].replyTo
  BY <1>5, <1>9, <1>11
<1>13. ASSUME NEW r \in Peers
       PROVE  Offered(r)'
  <2>1. Offered(r)
    BY DEF OfferLink
  <2>2. CASE r = p
    BY <2>1, <2>2, <1>1, <1>5, <1>9, <1>11, <1>12, RequestsApart DEF Offered
  <2>3. CASE r # p
    BY <2>1, <2>3, <1>1, <1>11 DEF Offered
  <2> QED BY <2>2, <2>3
<1>14. ASSUME NEW d \in Sessions
       PROVE  (AnsweredBy(d) /\ Applied(d) /\ Order(d))'
  <2>1. AnsweredBy(d) /\ Applied(d) /\ Order(d)
    BY DEF AnswerLink
  <2>2. AnsweredBy(d)'
    BY <2>1, <1>1, <1>12 DEF AnsweredBy
  <2>3. Applied(d)'
    BY <2>1, <1>1, <1>12 DEF Applied
  <2>4. Order(d)'
    BY <2>1, <1>1 DEF Order
  <2> QED BY <2>2, <2>3, <2>4
<1>15. ASSUME NEW r \in Peers
       PROVE  (IcedBy(r) /\ Ready(r))'
  <2>1. IcedBy(r) /\ Ready(r)
    BY DEF IceLink
  <2>2. IcedBy(r)'
    BY <2>1, <1>1 DEF IcedBy
  <2>3. Ready(r)'
    BY <2>1, <1>1, <1>2, <1>9, <1>11 DEF Ready
  <2> QED BY <2>2, <2>3
<1> QED BY <1>10, <1>13, <1>14, <1>15 DEF OfferLink, AnswerLink, IceLink

-----------------------------------------------------------------------------
\* A request that ends without an answer, or is only opened, adds nothing to the
\* chain.
LEMMA QuietStep ==
  ASSUME RendezvousInv, UNCHANGED <<consumer, peer, reply>>, Shape',
         \A s \in Requests : /\ request'[s] = "unsent" <=> request[s] = "unsent"
                             /\ request'[s] = "replied" => request[s] = "replied"
                             /\ request'[s] = "sent" => request[s] = "sent"
  PROVE  RendezvousInv'
<1> USE DEF RendezvousInv
<1>0. consumer' = consumer /\ peer' = peer /\ reply' = reply
  OBVIOUS
<1>1. ASSUME NEW p \in Peers
      PROVE  Offered(p)'
  <2>1. Offered(p) /\ <<p, "Genesis">> \in Requests /\ <<p, "Answer">> \in Requests
    BY RequestsApart DEF OfferLink
  <2>2. /\ request'[<<p, "Genesis">>] = "replied" => request[<<p, "Genesis">>] = "replied"
        /\ request'[<<p, "Answer">>] = "unsent" <=> request[<<p, "Answer">>] = "unsent"
    BY <2>1
  <2> QED BY <1>0, <2>1, <2>2 DEF Offered
<1>2. ASSUME NEW c \in Sessions
      PROVE  (AnsweredBy(c) /\ Applied(c) /\ Order(c))'
  <2>1. AnsweredBy(c) /\ Applied(c) /\ Order(c) /\ <<c, "Offer">> \in Requests /\ <<c, "Ice">> \in Requests
    BY RequestsApart DEF AnswerLink
  <2>2. AnsweredBy(c)' /\ Applied(c)'
    BY <2>1 DEF AnsweredBy, Applied
  <2>3. Order(c)'
    <3>1. /\ request'[<<c, "Offer">>] = "unsent" <=> request[<<c, "Offer">>] = "unsent"
          /\ request'[<<c, "Offer">>] = "replied" => request[<<c, "Offer">>] = "replied"
          /\ request'[<<c, "Offer">>] = "sent" => request[<<c, "Offer">>] = "sent"
          /\ request'[<<c, "Ice">>] = "unsent" <=> request[<<c, "Ice">>] = "unsent"
      BY <2>1
    <3> QED BY <1>0, <2>1, <3>1 DEF Order
  <2> QED BY <2>2, <2>3
<1>3. ASSUME NEW p \in Peers
      PROVE  (IcedBy(p) /\ Ready(p))'
  <2>1. IcedBy(p) /\ Ready(p) /\ <<p, "Answer">> \in Requests
    BY RequestsApart, Zenon DEF IceLink
  <2>2. IcedBy(p)'
    BY <2>1 DEF IcedBy
  <2>3. Ready(p)'
    <3>1. request'[<<p, "Answer">>] = "replied" => request[<<p, "Answer">>] = "replied"
      BY <2>1
    <3> QED BY <1>0, <2>1, <3>1 DEF Ready
  <2> QED BY <2>2, <2>3
<1> QED BY <1>1, <1>2, <1>3 DEF OfferLink, AnswerLink, IceLink

\* To whom a message on its way to Freddie is addressed.
LEMMA Addressed ==
  ASSUME RendezvousInv, NEW r \in Requests, request[r] = "sent", r[2] # "Genesis"
  PROVE  /\ SendTo(r) \in Requests
         /\ \/ \E p \in Peers, c \in Sessions : SendTo(r) = <<p, "Genesis">> /\ r = <<c, "Offer">>
            \/ \E p \in Peers, c \in Sessions : /\ SendTo(r) = <<c, "Offer">> /\ r = <<p, "Answer">>
                                                /\ peer[p].offer = c
            \/ \E p \in Peers, c \in Sessions : /\ SendTo(r) = <<p, "Answer">> /\ r = <<c, "Ice">>
                                                /\ consumer[c].answer = <<p, c>>
<1> USE DEF RendezvousInv
<1>1. \A c \in Sessions : c \notin Peers
  BY RendezvousAssumption
<1>2. CASE \E c \in Sessions : r = <<c, "Offer">>
  <2>1. PICK c \in Sessions : r = <<c, "Offer">>
    BY <1>2
  <2>2. SendTo(r) = consumer[c].replyTo
    BY <1>1, <2>1 DEF SendTo
  <2>3. consumer[c].replyTo \in Peers \X {"Genesis"}
    BY <2>1, Zenon DEF AnswerLink, Order
  <2>4. PICK p \in Peers : SendTo(r) = <<p, "Genesis">>
    BY <2>2, <2>3
  <2> QED BY <2>1, <2>4, RequestsApart, Zenon
<1>3. CASE \E p \in Peers : r = <<p, "Answer">>
  <2>1. PICK p \in Peers : r = <<p, "Answer">>
    BY <1>3
  <2>2. SendTo(r) = peer[p].replyTo
    BY <2>1 DEF SendTo
  <2>3. peer[p].offer # None /\ peer[p].replyTo = <<peer[p].offer, "Offer">>
    BY <2>1, Zenon DEF OfferLink, Offered
  <2>4. peer[p].offer \in Sessions
    BY <2>3 DEF Shape, PeerStates
  <2> QED BY <2>1, <2>2, <2>3, <2>4, RequestsApart, Zenon
<1>4. CASE \E c \in Sessions : r = <<c, "Ice">>
  <2>1. PICK c \in Sessions : r = <<c, "Ice">>
    BY <1>4
  <2>2. SendTo(r) = consumer[c].replyTo
    BY <1>1, <2>1 DEF SendTo
  <2>3. consumer[c].answer # None
    BY <2>1, Zenon DEF AnswerLink, Order
  <2>4. PICK p \in Peers : consumer[c].answer = <<p, c>> /\ consumer[c].replyTo = <<p, "Answer">>
    BY <2>3 DEF AnswerLink, Applied
  <2> QED BY <2>1, <2>2, <2>4, RequestsApart, Zenon
<1> QED BY <1>2, <1>3, <1>4, RequestsApart

\* A message is received by Freddie: it answers a request of the kind before its
\* own, whose sender it has read.
LEMMA ReceiveStep ==
  ASSUME RendezvousInv, NEW r \in Requests, Receive(r)
  PROVE  RendezvousInv'
<1> USE DEF RendezvousInv
<1>1. UNCHANGED <<consumer, peer>> /\ request[r] = "sent"
  BY DEF Receive
<1>2. CASE /\ request' \in {[request EXCEPT ![r] = "open"], [request EXCEPT ![r] = "gone"]}
           /\ UNCHANGED reply
  <2>1. Shape'
    BY <1>1, <1>2 DEF Shape, Statuses
  <2>2. \A s \in Requests : /\ request'[s] = "unsent" <=> request[s] = "unsent"
                            /\ request'[s] = "replied" => request[s] = "replied"
                            /\ request'[s] = "sent" => request[s] = "sent"
    BY <1>1, <1>2 DEF Shape
  <2> QED BY <1>1, <1>2, <2>1, <2>2, QuietStep
<1>3. CASE /\ r[2] # "Genesis" /\ request[SendTo(r)] = "open"
           /\ request' = [request EXCEPT ![r] = "open", ![SendTo(r)] = "replied"]
           /\ reply' = [reply EXCEPT ![SendTo(r)] = r]
  <2>1. /\ SendTo(r) \in Requests
        /\ \/ \E p \in Peers, c \in Sessions : SendTo(r) = <<p, "Genesis">> /\ r = <<c, "Offer">>
           \/ \E p \in Peers, c \in Sessions : /\ SendTo(r) = <<c, "Offer">> /\ r = <<p, "Answer">>
                                               /\ peer[p].offer = c
           \/ \E p \in Peers, c \in Sessions : /\ SendTo(r) = <<p, "Answer">> /\ r = <<c, "Ice">>
                                               /\ consumer[c].answer = <<p, c>>
    BY <1>1, <1>3, Addressed
  <2> DEFINE to == SendTo(r)
  <2> HIDE DEF to
  <2>2. Shape'
    BY <1>1, <1>3, <2>1 DEF Shape, Statuses, to
  <2>3. \A s \in Requests : /\ request'[s] = "unsent" <=> request[s] = "unsent"
                            /\ request'[s] = "replied" => request[s] = "replied" \/ s = to
                            /\ request'[s] = "sent" => request[s] = "sent"
                            /\ reply'[s] = IF s = to THEN r ELSE reply[s]
    BY <1>1, <1>3, <2>1 DEF Shape, to
  <2>4. r # None
    BY RequestsApart
  <2>5. ASSUME NEW p \in Peers
        PROVE  Offered(p)'
    <3>1. Offered(p) /\ <<p, "Genesis">> \in Requests /\ <<p, "Answer">> \in Requests
      BY RequestsApart DEF OfferLink
    <3>2. <<p, "Genesis">> = to => r \in Sessions \X {"Offer"}
      BY <2>1 DEF to
    <3> QED BY <3>1, <3>2, <1>1, <2>3, <2>4 DEF Offered
  <2>6. ASSUME NEW c \in Sessions
        PROVE  (AnsweredBy(c) /\ Applied(c) /\ Order(c))'
    <3>1. AnsweredBy(c) /\ Applied(c) /\ Order(c) /\ <<c, "Offer">> \in Requests /\ <<c, "Ice">> \in Requests
      BY RequestsApart DEF AnswerLink
    <3>2. <<c, "Offer">> = to => \E p \in Peers : r = <<p, "Answer">> /\ peer[p].offer = c
      BY <2>1 DEF to
    <3>3. AnsweredBy(c)'
      BY <3>1, <3>2, <1>1, <2>3 DEF AnsweredBy
    <3>4. Applied(c)'
      BY <3>1, <1>1 DEF Applied
    <3>5. Order(c)'
      BY <3>1, <1>1, <2>3, <2>4 DEF Order
    <3> QED BY <3>3, <3>4, <3>5
  <2>7. ASSUME NEW p \in Peers
        PROVE  (IcedBy(p) /\ Ready(p))'
    <3>1. IcedBy(p) /\ Ready(p) /\ <<p, "Answer">> \in Requests
      BY RequestsApart, Zenon DEF IceLink
    <3>2. <<p, "Answer">> = to => \E c \in Sessions : r = <<c, "Ice">> /\ consumer[c].answer = <<p, c>>
      BY <2>1 DEF to
    <3>3. IcedBy(p)'
      BY <3>1, <3>2, <1>1, <2>3 DEF IcedBy
    <3>4. Ready(p)'
      BY <3>1, <1>1, <2>3, <2>4 DEF Ready
    <3> QED BY <3>3, <3>4
  <2> QED BY <2>2, <2>5, <2>6, <2>7 DEF OfferLink, AnswerLink, IceLink
<1> QED BY <1>2, <1>3 DEF Receive

\* A request's time is over.
LEMMA ExpireStep ==
  ASSUME RendezvousInv, NEW r \in Requests, Expire(r)
  PROVE  RendezvousInv'
<1>1. UNCHANGED <<consumer, peer, reply>> /\ request[r] = "open"
  BY DEF Expire
<1>2. request' = [request EXCEPT ![r] = "expired"]
  BY DEF Expire
<1>3. Shape'
  BY <1>1, <1>2 DEF RendezvousInv, Shape, Statuses
<1>4. \A s \in Requests : /\ request'[s] = "unsent" <=> request[s] = "unsent"
                          /\ request'[s] = "replied" => request[s] = "replied"
                          /\ request'[s] = "sent" => request[s] = "sent"
  BY <1>1, <1>2 DEF RendezvousInv, Shape
<1> QED BY <1>1, <1>3, <1>4, QuietStep

\* At the start nothing has been sent.
LEMMA InitRendezvousInv == Init => RendezvousInv
<1> SUFFICES ASSUME Init PROVE RendezvousInv
  OBVIOUS
<1>1. Shape
  <2>1. consumer \in [Sessions -> ConsumerStates]
    BY DEF Init, ConsumerStates, ConsumerPlaces
  <2>2. peer \in [Peers -> PeerStates]
    BY DEF Init, PeerStates, PeerPlaces, NoIce
  <2> QED BY <2>1, <2>2 DEF Init, Shape, Statuses
<1>2. OfferLink
  BY RequestsApart, Zenon DEF Init, OfferLink, Offered
<1>3. AnswerLink
  BY RequestsApart, Zenon DEF Init, AnswerLink, AnsweredBy, Applied, Order
<1>4. IceLink
  BY RequestsApart, Zenon DEF Init, IceLink, IcedBy, Ready
<1> QED BY <1>1, <1>2, <1>3, <1>4 DEF RendezvousInv

\* Every step keeps the chain: one case per action.
LEMMA NextRendezvousInv == RendezvousInv /\ [Next]_vars => RendezvousInv'
<1> SUFFICES ASSUME RendezvousInv, [Next]_vars PROVE RendezvousInv'
  OBVIOUS
<1>1. CASE UNCHANGED <<consumer, peer, request, reply>>
  <2>1. Shape'
    BY <1>1 DEF RendezvousInv, Shape
  <2> QED BY <1>1, <2>1, QuietStep
<1>2. ASSUME NEW c \in Sessions,
             ConsumerStep(c) \/ ConsumerFails(c) \/ ConsumerNatTimeout(c) \/ EndPath(c)
      PROVE  RendezvousInv'
  <2>1. CASE \E p \in Peers : PostOffer(c, p)
    BY <2>1, OfferStep
  <2>2. CASE PostIce(c)
    BY <2>2, IceStep
  <2>3. CASE AwaitPeer(c)
    BY <2>3, ConsumerMoves DEF AwaitPeer, Keep, ConsumerPlaces
  <2>4. CASE ConsumerRefused(c)
    BY <2>4, ConsumerMoves DEF ConsumerRefused, Keep, ConsumerPlaces
  <2>5. CASE StartPath(c)
    BY <2>5, ConsumerMoves DEF StartPath, Keep, ConsumerPlaces
  <2>6. CASE StartAttempt(c)
    BY <2>6, ConsumerMoves DEF StartAttempt, Keep, ConsumerPlaces
  <2>7. CASE ConsumerFails(c) \/ ConsumerNatTimeout(c)
    <3>1. ConsumerGivesUp(c)
      BY <2>7 DEF ConsumerFails, ConsumerNatTimeout
    <3> QED BY <3>1, ConsumerMoves DEF ConsumerGivesUp, Keep, ConsumerPlaces
  <2>8. CASE EndPath(c)
    BY <2>8, ConsumerMoves DEF EndPath, Keep, ConsumerPlaces
  <2> QED BY <1>2, <2>1, <2>2, <2>3, <2>4, <2>5, <2>6, <2>7, <2>8 DEF ConsumerStep
<1>3. ASSUME NEW p \in Peers,
             PeerStep(p) \/ PeerFails(p) \/ PeerNatTimeout(p) \/ EndRelay(p)
      PROVE  RendezvousInv'
  <2>1. CASE PostGenesis(p)
    BY <2>1, GenesisStep
  <2>2. CASE PostAnswer(p)
    BY <2>2, AnswerStep
  <2>3. CASE AddCandidates(p)
    BY <2>3, CandidatesStep
  <2>4. CASE PeerRefused(p)
    BY <2>4, PeerMoves DEF PeerRefused, Keep, PeerPlaces
  <2>5. CASE StartRelay(p)
    BY <2>5, PeerMoves DEF StartRelay, Keep, PeerPlaces
  <2>6. CASE PeerFails(p) \/ PeerNatTimeout(p)
    <3>1. PeerGivesUp(p)
      BY <2>6 DEF PeerFails, PeerNatTimeout
    <3> QED BY <3>1, PeerMoves DEF PeerGivesUp, Keep, PeerPlaces
  <2>7. CASE EndRelay(p)
    BY <2>7, PeerMoves DEF EndRelay, Keep, PeerPlaces
  <2> QED BY <1>3, <2>1, <2>2, <2>3, <2>4, <2>5, <2>6, <2>7 DEF PeerStep
<1>4. ASSUME NEW r \in Requests, Receive(r) \/ Expire(r)
      PROVE  RendezvousInv'
  BY <1>4, ReceiveStep, ExpireStep
<1>5. ASSUME NEW c \in Sessions, NEW p \in Peers, Open(c, p)
      PROVE  RendezvousInv'
  BY <1>1, <1>5 DEF Open
<1> QED BY <1>1, <1>2, <1>3, <1>4, <1>5 DEF Next, vars

-----------------------------------------------------------------------------
\* Whatever consumers and peers do with the same advertisements, and whatever
\* fails, a peer that has candidates has those gathered for the attempt whose
\* offer it applied, and that attempt has applied this peer's answer.
THEOREM PairsMatch == Spec => []MatchedPair
BY InitRendezvousInv, NextRendezvousInv, ChainMatches, PTL DEF Spec

\* The egress tunnels of one consumer's peers carry the consumer's session id,
\* and nobody else's.
THEOREM SessionIdSurvives == Spec => []SessionSurvivesPeers
BY InitRendezvousInv, NextRendezvousInv, ChainMatches, PTL DEF Spec
=============================================================================
