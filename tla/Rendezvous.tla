----------------------------- MODULE Rendezvous -----------------------------
(***************************************************************************)
(* Several consumers and several peer proxies that find each other through  *)
(* Freddie: the signalling of run_consumer_session, in the loop of          *)
(* maintain_consumer, and of run_peer_proxy_until_cancelled.                *)
(*                                                                         *)
(* Consumer k runs the attempts <<k, 1>>, <<k, 2>>, ... one after another,   *)
(* each with a peer connection of its own; a member of Peers is one session *)
(* of a peer proxy.  Both are called parties.  Every party makes two        *)
(* exchanges, each with a message of one kind, so <<party, kind>> names the  *)
(* request, and is what the receiver of the message finds in ReplyTo.       *)
(*                                                                         *)
(* External: Freddie, as docs/wire-protocol.md describes it.  A request      *)
(* stays open until a message is sent to it or its time is over; a message  *)
(* sent to a request that is not open is refused with 404.  A Genesis is     *)
(* advertised when it is received, and consumers may read the advertisement *)
(* later, when the request is no longer open.  Freddie need not notice that *)
(* the party behind a request is gone.                                      *)
(*                                                                         *)
(* External: the network between a consumer and a peer, which may let their *)
(* peer connections meet once both have each other's descriptions.          *)
(***************************************************************************)
EXTENDS Naturals, FiniteSets

CONSTANTS Consumers, Peers, None,
          Attempts, \* how many attempts each consumer makes
          Gathered, \* transport protocols of the candidates a consumer gathers
          MaxFaults \* bound on the parties that fail on their own

\* An attempt of a consumer is named by the consumer and a number.
Sessions == UNION {{k} \X (1..Attempts[k]) : k \in Consumers}
Requests == (Peers \X {"Genesis", "Answer"}) \cup (Sessions \X {"Offer", "Ice"})

ASSUME RendezvousAssumption ==
  /\ Attempts \in [Consumers -> Nat \ {0}]
  /\ Gathered \subseteq {"Udp", "Tcp", "Unspecified"}
  /\ MaxFaults \in Nat
  /\ Peers \cap Sessions = {}
  /\ None \notin Requests \cup Sessions \cup (Peers \X Sessions)

VARIABLES
  consumer,  \* each attempt: where it is, the ReplyTo it answers, the answer it applied
  peer,      \* each session: the same, the offer it applied, and what came with the ICE message
  request,   \* Freddie's requests
  reply,     \* the message that answered a request
  linked,    \* pairs whose DataChannel is open
  faulty     \* parties that an outside fault has struck

vars == <<consumer, peer, request, reply, linked, faulty>>

NoIce == [candidates |-> {}, consumer_session_id |-> None]

Init ==
  /\ consumer = [c \in Sessions |-> [at |-> IF c[2] = 1 THEN "select" ELSE "idle",
                                     replyTo |-> None, answer |-> None]]
  /\ peer = [p \in Peers |-> [at |-> "idle", replyTo |-> None, offer |-> None, ice |-> NoIce]]
  /\ request = [r \in Requests |-> "unsent"]
  /\ reply = [r \in Requests |-> None]
  /\ linked = {}
  /\ faulty = {}

-----------------------------------------------------------------------------
(* What the messages carry.                                                *)

\* Mutant of ConsumerSessionId: every attempt draws an id of its own.
ConsumerSessionIdPerAttempt(c) == c

\* config.consumer_session_id, cloned for every attempt.
ConsumerSessionId(c) == <<c[1]>>

\* ConsumerIceCandidate::from
ProtocolNumber(protocol) ==
  CASE protocol = "Udp" -> 1 [] protocol = "Tcp" -> 2 [] OTHER -> 0

\* PionIceCandidate::to_rust_candidate
RustProtocol(number) ==
  CASE number = 1 -> "Udp" [] number = 2 -> "Tcp" [] OTHER -> "Unspecified"

\* A candidate is the attempt it was gathered for and its protocol.
IceMessage(c) ==
  [candidates |-> {<<c, ProtocolNumber(k)>> : k \in Gathered},
   consumer_session_id |-> ConsumerSessionId(c)]

\* Where a party posts its message: the ReplyTo of the last signal it has read.
SendTo(r) == IF r[1] \in Peers THEN peer[r[1]].replyTo ELSE consumer[r[1]].replyTo

Post(r) == request' = [request EXCEPT ![r] = "sent"]

\* exchange returned a message, and expect_signal accepts its kind.
ExpectSignal(r, kind) == request[r] = "replied" /\ reply[r][2] = kind

\* exchange returned None (the TTL), RecipientGone (404) or an unexpected kind.
Refused(r, kind) ==
  \/ request[r] \in {"expired", "gone"}
  \/ request[r] = "replied" /\ reply[r][2] # kind

-----------------------------------------------------------------------------
(* run_consumer_session.                                                   *)

Keep == UNCHANGED <<reply, linked>>
ConsumerAt(c, where) == consumer' = [consumer EXCEPT ![c].at = where]

\* select_genesis has chosen p, whose request may be taken or over by now.
PostOffer(c, p) ==
  /\ consumer[c].at = "select"
  /\ request[<<p, "Genesis">>] \notin {"unsent", "sent"}
  /\ consumer' = [consumer EXCEPT ![c] = [@ EXCEPT !.at = "offer", !.replyTo = <<p, "Genesis">>]]
  /\ Post(<<c, "Offer">>)
  /\ Keep /\ UNCHANGED <<peer, faulty>>

\* Mutant of IceTo: the ReplyTo of the consumer's first answer is kept for its
\* later attempts.
IceToFirst(c) ==
  LET first == reply[<<<<c[1], 1>>, "Offer">>] IN
  IF first = None THEN reply[<<c, "Offer">>] ELSE first

\* answer_signal.reply_to
IceTo(c) == reply[<<c, "Offer">>]

\* The answer is applied, the candidates are gathered and sent.
PostIce(c) ==
  /\ consumer[c].at = "offer"
  /\ ExpectSignal(<<c, "Offer">>, "Answer")
  /\ LET answer == reply[<<c, "Offer">>] IN
     consumer' = [consumer EXCEPT
       ![c] = [at |-> "ice", replyTo |-> IceTo(c),
               answer |-> <<answer[1], peer[answer[1]].offer>>]]
  /\ Post(<<c, "Ice">>)
  /\ Keep /\ UNCHANGED <<peer, faulty>>

\* Mutant of IceAccepted: an exchange that ends with the TTL is an error.
IceAcceptedByReply(r) == request[r] = "replied"

\* No peer replies to the ICE message: the exchange ends with the TTL, and an
\* empty body is as good as another.
IceAccepted(r) == request[r] \in {"replied", "expired"}

AwaitPeer(c) ==
  /\ consumer[c].at = "ice"
  /\ IceAccepted(<<c, "Ice">>)
  /\ ConsumerAt(c, "nat")
  /\ Keep /\ UNCHANGED <<peer, request, faulty>>

ConsumerRefused(c) ==
  /\ \/ consumer[c].at = "offer" /\ Refused(<<c, "Offer">>, "Answer")
     \/ consumer[c].at = "ice" /\ ~IceAccepted(<<c, "Ice">>) /\ Refused(<<c, "Ice">>, "Ice")
  /\ ConsumerAt(c, "failed")
  /\ Keep /\ UNCHANGED <<peer, request, faulty>>

StartPath(c) ==
  /\ consumer[c].at = "nat"
  /\ \E p \in Peers : <<c, p>> \in linked
  /\ ConsumerAt(c, "path")
  /\ Keep /\ UNCHANGED <<peer, request, faulty>>

\* maintain_consumer goes on after a path and after an error alike.
StartAttempt(c) ==
  /\ consumer[c].at = "idle"
  /\ consumer[<<c[1], c[2] - 1>>].at \in {"ended", "failed"}
  /\ ConsumerAt(c, "select")
  /\ Keep /\ UNCHANGED <<peer, request, faulty>>

-----------------------------------------------------------------------------
(* run_peer_proxy_until_cancelled.                                         *)

PeerAt(p, where) == peer' = [peer EXCEPT ![p].at = where]

PostGenesis(p) ==
  /\ peer[p].at = "idle"
  /\ PeerAt(p, "genesis")
  /\ Post(<<p, "Genesis">>)
  /\ Keep /\ UNCHANGED <<consumer, faulty>>

\* The offer is applied, and answered to its sender.
PostAnswer(p) ==
  /\ peer[p].at = "genesis"
  /\ ExpectSignal(<<p, "Genesis">>, "Offer")
  /\ LET offer == reply[<<p, "Genesis">>] IN
     peer' = [peer EXCEPT ![p] = [@ EXCEPT !.at = "answer", !.replyTo = offer, !.offer = offer[1]]]
  /\ Post(<<p, "Answer">>)
  /\ Keep /\ UNCHANGED <<consumer, faulty>>

\* The candidates and the session id are the consumer's.
AddCandidates(p) ==
  /\ peer[p].at = "answer"
  /\ ExpectSignal(<<p, "Answer">>, "Ice")
  /\ LET ice == IceMessage(reply[<<p, "Answer">>][1]) IN
     peer' = [peer EXCEPT ![p] = [@ EXCEPT !.at = "nat",
       !.ice = [ice EXCEPT !.candidates = {<<n[1], RustProtocol(n[2])>> : n \in @}]]]
  /\ Keep /\ UNCHANGED <<consumer, request, faulty>>

PeerRefused(p) ==
  /\ \/ peer[p].at = "genesis" /\ Refused(<<p, "Genesis">>, "Offer")
     \/ peer[p].at = "answer" /\ Refused(<<p, "Answer">>, "Ice")
  /\ PeerAt(p, "failed")
  /\ Keep /\ UNCHANGED <<consumer, request, faulty>>

StartRelay(p) ==
  /\ peer[p].at = "nat"
  /\ \E c \in Sessions : <<c, p>> \in linked
  /\ PeerAt(p, "relay")
  /\ Keep /\ UNCHANGED <<consumer, request, faulty>>

-----------------------------------------------------------------------------
(* Faults, and the other ways out.                                         *)

Waiting == {"select", "genesis", "offer", "answer", "ice", "nat"}

ConsumerGivesUp(c) ==
  /\ ConsumerAt(c, "failed")
  /\ faulty' = faulty \cup {c}
  /\ Keep /\ UNCHANGED <<peer, request>>

PeerGivesUp(p) ==
  /\ PeerAt(p, "failed")
  /\ faulty' = faulty \cup {p}
  /\ Keep /\ UNCHANGED <<consumer, request>>

\* The session of a party fails or is cancelled (Transport, Http, WebRtc,
\* NoGenesis, Egress...); its requests stay with Freddie.
ConsumerFails(c) ==
  /\ consumer[c].at \in Waiting
  /\ Cardinality(faulty) < MaxFaults
  /\ ConsumerGivesUp(c)

PeerFails(p) ==
  /\ peer[p].at \in Waiting
  /\ Cardinality(faulty) < MaxFaults
  /\ PeerGivesUp(p)

\* Mutant of NatTimer: the DataChannel is awaited for ever.
NatTimerOff(at) == FALSE

\* timeout(nat_timeout, data_channel_rx), on both sides; the connection's
\* terminal state ends the wait as well.
NatTimer(at) == at = "nat"

ConsumerNatTimeout(c) == NatTimer(consumer[c].at) /\ ConsumerGivesUp(c)
PeerNatTimeout(p) == NatTimer(peer[p].at) /\ PeerGivesUp(p)

\* A path or a relay that runs ends, for whatever reason.
EndPath(c) ==
  /\ consumer[c].at = "path"
  /\ ConsumerAt(c, "ended")
  /\ Keep /\ UNCHANGED <<peer, request, faulty>>

EndRelay(p) ==
  /\ peer[p].at = "relay"
  /\ PeerAt(p, "ended")
  /\ Keep /\ UNCHANGED <<consumer, request, faulty>>

-----------------------------------------------------------------------------
(* External: Freddie and the network.                                      *)

\* A message reaches Freddie.
Receive(r) ==
  /\ request[r] = "sent"
  /\ LET to == SendTo(r) IN
     \/ /\ r[2] = "Genesis"
        /\ request' = [request EXCEPT ![r] = "open"]
        /\ UNCHANGED reply
     \/ /\ r[2] # "Genesis" /\ request[to] = "open"
        /\ request' = [request EXCEPT ![r] = "open", ![to] = "replied"]
        /\ reply' = [reply EXCEPT ![to] = r]
     \/ /\ r[2] # "Genesis" /\ request[to] # "open"
        /\ request' = [request EXCEPT ![r] = "gone"]
        /\ UNCHANGED reply
  /\ UNCHANGED <<consumer, peer, linked, faulty>>

\* Its time is over.  For an ICE message this is the normal course, and for an
\* answer whose consumer has failed the consequence; else the time was too short.
Expire(r) ==
  /\ request[r] = "open"
  /\ request' = [request EXCEPT ![r] = "expired"]
  /\ faulty' = IF \/ r[2] = "Ice"
                  \/ r[2] = "Answer" /\ consumer[peer[r[1]].offer].at = "failed"
                 THEN faulty
                 ELSE faulty \cup {r[1]}
  /\ UNCHANGED <<consumer, peer, reply, linked>>

\* The consumer has the peer's answer to its own offer.
Open(c, p) ==
  /\ <<c, p>> \notin linked
  /\ consumer[c].at \in {"ice", "nat"} /\ consumer[c].answer = <<p, c>>
  /\ peer[p].at \in {"answer", "nat"} /\ peer[p].offer = c
  /\ linked' = linked \cup {<<c, p>>}
  /\ UNCHANGED <<consumer, peer, request, reply, faulty>>

ConsumerStep(c) ==
  \/ \E p \in Peers : PostOffer(c, p)
  \/ PostIce(c) \/ AwaitPeer(c) \/ ConsumerRefused(c) \/ StartPath(c) \/ StartAttempt(c)

PeerStep(p) ==
  \/ PostGenesis(p) \/ PostAnswer(p) \/ AddCandidates(p) \/ PeerRefused(p) \/ StartRelay(p)

Next ==
  \/ \E c \in Sessions :
       ConsumerStep(c) \/ ConsumerFails(c) \/ ConsumerNatTimeout(c) \/ EndPath(c)
  \/ \E p \in Peers : PeerStep(p) \/ PeerFails(p) \/ PeerNatTimeout(p) \/ EndRelay(p)
  \/ \E r \in Requests : Receive(r) \/ Expire(r)
  \/ \E c \in Sessions, p \in Peers : Open(c, p)

\* Tasks are polled and timers fire; Freddie receives what is posted and ends
\* what nobody answers.  Nothing says that a network lets two parties meet, nor
\* that a path ends.  No step repeats, so fairness to the parties together is
\* fairness to each.
Spec ==
  /\ Init
  /\ [][Next]_vars
  /\ WF_vars(\E c \in Sessions : ConsumerStep(c) \/ ConsumerNatTimeout(c))
  /\ WF_vars(\E p \in Peers : PeerStep(p) \/ PeerNatTimeout(p))
  /\ WF_vars(\E r \in Requests : Receive(r) \/ Expire(r))

-----------------------------------------------------------------------------
\* A peer that has candidates has those that were gathered for the very attempt
\* whose offer it applied, their protocols intact, and that attempt has applied
\* the peer's answer to this offer.  So no peer combines the offer of one attempt
\* with the candidates of another, of another consumer or of the same one: an
\* attempt that fails after its answer leaves the peer's request open, and the
\* next attempt must not post its candidates there.
MatchedPair ==
  \A p \in Peers :
    peer[p].at \in {"nat", "relay", "ended"} =>
      LET c == peer[p].offer IN
      /\ consumer[c].answer = <<p, c>>
      /\ peer[p].ice.candidates = {c} \X Gathered

\* Peers that relay for the same consumer, one attempt after another or at the
\* same time, open their egress tunnels under the same session id: the egress
\* sees one client that migrates.  Peers that relay for different consumers do so
\* under different ids, provided that the embedder has configured different ones,
\* as ConsumerSessionId assumes: no peer passes on the id of another's consumer.
SessionSurvivesPeers ==
  \A p, q \in Peers :
    peer[p].at = "relay" /\ peer[q].at = "relay" =>
      (peer[p].ice.consumer_session_id = peer[q].ice.consumer_session_id
         <=> peer[p].offer[1] = peer[q].offer[1])

\* In the end a peer that has applied an offer has relayed for its sender,
\* unless a fault struck one of the two: consumers that offer to the same peer
\* because they read its advertisement too late, and are refused, disturb
\* nobody, and the exchange that nobody answers (the ICE message) fails nobody.
PairCompletes ==
  <>[](\A p \in Peers, c \in Sessions :
         peer[p].offer = c =>
           \/ peer[p].at \in {"relay", "ended"} /\ consumer[c].at \in {"path", "ended"}
           \/ {p, c} \cap faulty # {})

\* In the end no attempt and no session is left in its signalling or waiting
\* for a DataChannel, also when its counterpart has silently given up.  Only a
\* consumer to which no peer is advertised goes on reading the stream.
SignallingEnds ==
  <>[](/\ \A c \in Sessions : consumer[c].at \notin Waiting \ {"select"}
       /\ \A p \in Peers : peer[p].at \notin Waiting)
=============================================================================
