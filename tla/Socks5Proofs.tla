---------------------------- MODULE Socks5Proofs ----------------------------
(***************************************************************************)
(* Theorems about the broker, the dials and their SOCKS5 handshakes, for    *)
(* any number of connections, dials, targets and answers of the egress.     *)
(***************************************************************************)
EXTENDS Socks5, SequenceTheorems, TLAPS

(***************************************************************************)
(* What is on offer.                                                        *)
(***************************************************************************)
OfferInv ==
  /\ conn \in [Conns -> {"unborn", "incoming", "lost", "open", "closed"}]
  /\ serving \in Conns \cup {None}
  /\ published \in Conns \cup {None}
  /\ broker \in {"handshake", "serve"} => serving # None
  /\ broker \in {"closing", "cleared", "returned"} =>
       endpoint = "closed" /\ \A c \in Conns : conn[c] \in {"unborn", "lost", "closed"}
  /\ published # None => published = serving /\ broker \in {"serve", "closing"}

\* A step of a dial or a handshake leaves the broker and Quinn alone.
LEMMA DialsApart ==
  ASSUME NEW d \in Dials,
         StartDial(d) \/ DialStep(d) \/ CancelDial(d) \/ HandshakeStep(d) \/ Arrive(d) \/ Finish(d)
  PROVE  UNCHANGED <<broker, serving, token, endpoint, conn, published, updated>>
<1>1. CASE StartDial(d) \/ CancelDial(d)
  BY <1>1 DEF StartDial, CancelDial, Goes, brokerVars, quinnVars
<1>2. CASE DialStep(d)
  BY <1>2 DEF DialStep, Look, OpenBi, Changed, CancelOpen, Leaves, Goes, brokerVars, quinnVars
<1>3. CASE Greet(d) \/ ReadMethod(d) \/ SendRequest(d)
  BY <1>3, Zenon DEF Greet, ReadMethod, SendRequest, ReadExact, Fails, Shakes,
              quicVars, brokerVars, quinnVars, watchVars
<1>4. CASE ReadReply(d) \/ ReadLength(d) \/ ReadBound(d) \/ ReadFails(d)
  BY <1>4 DEF ReadReply, ReadLength, ReadBound, ReadFails, ReadExact, Fails, Shakes,
              quicVars, brokerVars, quinnVars, watchVars
<1>5. CASE CancelHandshake(d) \/ Arrive(d) \/ Finish(d)
  BY <1>5 DEF CancelHandshake, Arrive, Finish, Fails, Shakes,
              quicVars, brokerVars, quinnVars, watchVars
<1> QED BY <1>1, <1>2, <1>3, <1>4, <1>5 DEF HandshakeStep

\* Every way out of run() closes the server before it clears what is on offer,
\* and a connection is replaced only after it was taken off offer.
LEMMA NextOfferInv == OfferInv /\ [Next]_vars => OfferInv'
<1> SUFFICES ASSUME OfferInv, [Next]_vars PROVE OfferInv'
  OBVIOUS
<1> USE QuicBrokerAssumption DEF OfferInv
<1>1. CASE AcceptIncoming
  BY <1>1 DEF AcceptIncoming, quinnVars, watchVars
<1>2. CASE Handshake
  BY <1>2 DEF Handshake, Publish, watchVars
<1>3. CASE ConnectionClosed
  BY <1>3 DEF ConnectionClosed, AfterClosed, Publish, quinnVars
<1>4. CASE StopServer
  BY <1>4 DEF StopServer, CloseServer, Gone, watchVars
<1>5. CASE ClearPublished \/ ReturnFromRun
  BY <1>5 DEF ClearPublished, ClearOnStop, ReturnFromRun, Publish, quinnVars, watchVars
<1>6. CASE \E c \in Conns : Connect(c) \/ Lose(c)
  BY <1>6 DEF Connect, Lose, Gone, brokerVars, watchVars
<1>7. CASE EmbedderCloses \/ CancelBroker
  BY <1>7 DEF EmbedderCloses, CancelBroker, CloseServer, Gone, brokerVars, quinnVars, watchVars
<1>8. CASE \E d \in Dials : \/ StartDial(d) \/ DialStep(d) \/ CancelDial(d)
                            \/ HandshakeStep(d) \/ Arrive(d) \/ Finish(d)
  BY <1>8, DialsApart
<1>9. CASE UNCHANGED vars
  BY <1>9 DEF vars, quicVars, brokerVars, quinnVars, watchVars
<1> QED BY <1>1, <1>2, <1>3, <1>4, <1>5, <1>6, <1>7, <1>8, <1>9
        DEF Next, BrokerStep, QuicEnvironment

\* A connection is on offer only while the broker watches it, and a broker that
\* has returned leaves nothing on offer and nothing open.
THEOREM OfferCorrect == Spec => []OnlyServedIsPublished
<1>1. Socks5Init => OfferInv
  BY DEF Socks5Init, QuicInit, OfferInv
<1>2. OfferInv => OnlyServedIsPublished
  BY DEF OfferInv, OnlyServedIsPublished
<1> QED BY <1>1, <1>2, NextOfferInv, PTL DEF Spec

(***************************************************************************)
(* The dials.  A connection is published once, when its handshake ends, so  *)
(* a dial whose copy is no longer on offer never finds it on offer again.   *)
(***************************************************************************)
DialPlaces == {"idle", "look", "open", "wait", "opened", "Stream", "BrokerStopped", "Cancelled"}
DialStates ==
  [at : DialPlaces, cancelled : BOOLEAN, unseen : BOOLEAN, copy : Conns \cup {None}, tries : {0, 1, 2}]

\* A dial that holds the connection on offer has seen all updates when it is
\* about to try it again, or tries it for the second time.
Tried(r) ==
  /\ r.at = "idle" => r.copy = None
  /\ r.tries > 0 => r.copy # None
  /\ r.copy # None => conn[r.copy] \in {"open", "closed"}
  /\ r.copy # None /\ r.copy = published /\ r.at \in {"look", "open", "wait"} =>
       /\ r.at = "look" /\ r.tries > 0 => r.tries = 1 /\ ~r.unseen
       /\ r.tries = 2 => ~r.unseen

SpinInv ==
  /\ OfferInv
  /\ updated \in BOOLEAN
  /\ published # None => conn[published] \in {"open", "closed"}
  /\ dial \in [Dials -> DialStates]
  /\ \A d \in Dials : Tried(dial[d])

\* A dial that moves to a state in order leaves all dials in order.
LEMMA DialGoes ==
  ASSUME SpinInv, NEW d \in Dials, NEW to \in DialStates, Goes(d, to), Tried(to)
  PROVE  SpinInv'
<1>1. UNCHANGED <<broker, serving, endpoint, conn, published, updated>>
  BY DEF Goes, brokerVars, quinnVars
<1>2. OfferInv' /\ updated' \in BOOLEAN /\ (published' # None => conn'[published'] \in {"open", "closed"})
  BY <1>1 DEF SpinInv, OfferInv
<1>3. dial' = [dial EXCEPT ![d] = to]
  BY DEF Goes
<1>4. dial' \in [Dials -> DialStates]
  BY <1>3 DEF SpinInv
<1>5. ASSUME NEW e \in Dials PROVE Tried(dial[e])'
  <2>1. Tried(dial'[e])
    BY <1>3 DEF SpinInv
  <2> QED BY <1>1, <2>1 DEF Tried
<1> QED BY <1>2, <1>4, <1>5 DEF SpinInv

\* The dial's own steps.
LEMMA DialSpins ==
  ASSUME SpinInv, NEW d \in Dials, StartDial(d) \/ DialStep(d) \/ CancelDial(d)
  PROVE  SpinInv'
<1> DEFINE r == dial[d]
<1>0. r \in DialStates /\ Tried(r) /\ updated \in BOOLEAN
  BY DEF SpinInv
<1>1. CASE StartDial(d)
  <2> DEFINE to == [dial[d] EXCEPT !.at = "look", !.unseen = updated]
  <2>1. to \in DialStates
    BY <1>0, Zenon DEF DialStates, DialPlaces
  <2>2. Tried(to)
    BY <1>0, <1>1 DEF StartDial, DialStates, DialPlaces, Tried
  <2> QED BY <1>1, <2>1, <2>2, DialGoes DEF StartDial
<1>2. CASE Look(d) /\ published = None
  <2> DEFINE to == [WaitForChange(d) EXCEPT !.copy = None, !.tries = 0]
  <2>1. to \in DialStates
    BY <1>0, Zenon DEF DialStates, DialPlaces, WaitForChange
  <2>2. to.at = "wait" /\ to.copy = None /\ to.tries = 0
    BY <1>0 DEF DialStates, WaitForChange
  <2>3. Tried(to)
    BY <2>2 DEF Tried
  <2> QED BY <1>2, <2>3, <2>1, DialGoes DEF Look
<1>3. CASE Look(d) /\ published # None
  <2> DEFINE n == IF published = dial[d].copy THEN dial[d].tries + 1 ELSE 1
             to == [dial[d] EXCEPT !.at = "open", !.copy = published, !.tries = n]
  <2>1. published \in Conns /\ conn[published] \in {"open", "closed"}
    BY <1>3 DEF SpinInv, OfferInv
  <2>2. n \in {1, 2} /\ (n = 2 => ~r.unseen)
    BY <1>0, <1>3, QuicBrokerAssumption DEF Look, Tried, DialStates
  <2>3. to \in DialStates
    <3> HIDE DEF n
    <3> QED BY <1>0, <2>1, <2>2, Zenon DEF DialStates, DialPlaces
  <2>4. to.at = "open" /\ to.copy = published /\ to.tries = n /\ to.unseen = r.unseen
    BY <1>0 DEF DialStates
  <2>5. Tried(to)
    <3> HIDE DEF n, to
    <3> QED BY <2>1, <2>2, <2>4, QuicBrokerAssumption DEF Tried
  <2> QED BY <1>3, <2>3, <2>5, DialGoes DEF Look
<1>4. ASSUME NEW at \in DialPlaces \ {"idle"}, Leaves(d, at) PROVE SpinInv'
  <2> DEFINE to == [dial[d] EXCEPT !.at = at, !.unseen = FALSE, !.tries = 0]
  <2>1. to \in DialStates
    BY <1>0, <1>4, Zenon DEF DialStates
  <2>2. to.at = at /\ to.copy = r.copy /\ to.tries = 0
    BY <1>0 DEF DialStates
  <2>3. Tried(to)
    BY <1>0, <1>4, <2>2 DEF Tried
  <2> QED BY <1>4, <2>3, <2>1, DialGoes DEF Leaves
<1>5. CASE Goes(d, WaitForChange(d)) /\ dial[d].at = "open"
  <2>1. WaitForChange(d) \in DialStates /\ Tried(WaitForChange(d))
    BY <1>0, <1>5 DEF DialStates, DialPlaces, Tried, WaitForChange
  <2> QED BY <1>5, <2>1, DialGoes
<1>6. CASE Goes(d, Seen(d)) /\ dial[d].at = "wait" /\ dial[d].unseen
  <2> DEFINE to == Seen(d)
  <2>1. to \in DialStates
    BY <1>0, Zenon DEF DialStates, DialPlaces, Seen
  <2>2. to.at = "look" /\ to.copy = r.copy /\ to.tries = r.tries /\ ~to.unseen
    BY <1>0 DEF DialStates, Seen
  <2>3. r.tries \in {0, 1, 2} /\ (r.copy # None /\ r.copy = published => r.tries # 2)
    BY <1>0, <1>6 DEF Tried, DialStates
  <2>4. Tried(to)
    <3> HIDE DEF to
    <3> QED BY <1>0, <1>6, <2>2, <2>3 DEF Tried
  <2> QED BY <1>6, <2>1, <2>4, DialGoes
<1>7. CASE CancelDial(d)
  <2> DEFINE to == [dial[d] EXCEPT !.cancelled = TRUE]
  <2>1. to \in DialStates /\ Tried(to)
    BY <1>0, Zenon DEF DialStates, Tried
  <2> QED BY <1>7, <2>1, DialGoes DEF CancelDial
<1>8. CASE OpenBi(d)
  BY <1>4, <1>5, <1>8 DEF OpenBi, DialPlaces
<1>9. CASE Changed(d)
  BY <1>4, <1>6, <1>9 DEF Changed, DialPlaces
<1>10. CASE CancelOpen(d)
  BY <1>4, <1>10 DEF CancelOpen, DialPlaces
<1> QED BY <1>1, <1>2, <1>3, <1>7, <1>8, <1>9, <1>10 DEF DialStep

\* The broker publishes: nothing, or a connection whose handshake has just ended.
LEMMA PublishSpins ==
  ASSUME SpinInv, OfferInv', NEW v \in Conns \cup {None}, Publish(v),
         conn' = conn \/ (v # None /\ conn' = [conn EXCEPT ![v] = "open"]),
         v # None => conn[v] = "incoming" /\ conn'[v] = "open"
  PROVE  SpinInv'
<1>1. published' = v /\ updated' = TRUE
  BY DEF Publish
<1>2. ASSUME NEW d \in Dials
      PROVE  dial'[d] \in DialStates /\ Tried(dial[d])'
  <2>1. dial[d] \in DialStates /\ Tried(dial[d])
    BY DEF SpinInv
  <2>2. dial'[d] = [dial[d] EXCEPT !.unseen = Pending(d)]
    BY DEF Publish
  <2>3. Pending(d) \in BOOLEAN
    BY DEF Pending
  <2>4. dial'[d] \in DialStates
    BY <2>1, <2>2, <2>3 DEF DialStates
  <2>5. /\ dial'[d].at = dial[d].at /\ dial'[d].copy = dial[d].copy
        /\ dial'[d].tries = dial[d].tries
    BY <2>1, <2>2 DEF DialStates
  <2>6. dial[d].copy # None => dial[d].copy # v /\ conn'[dial[d].copy] = conn[dial[d].copy]
    BY <2>1 DEF Tried, DialStates, SpinInv, OfferInv
  <2>7. Tried(dial[d])'
    BY <1>1, <2>1, <2>5, <2>6 DEF Tried
  <2> QED BY <2>4, <2>7
<1>3. dial' \in [Dials -> DialStates]
  <2>1. dial' = [d \in Dials |-> dial'[d]]
    BY DEF Publish
  <2> QED BY <1>2, <2>1
<1> QED BY <1>1, <1>2, <1>3 DEF SpinInv

\* A step that publishes nothing may only close connections, or let one come in.
LEMMA QuietSpins ==
  ASSUME SpinInv, OfferInv', UNCHANGED watchVars,
         \A c \in Conns : conn[c] \in {"open", "closed"} => conn'[c] \in {"open", "closed"}
  PROVE  SpinInv'
<1>1. UNCHANGED <<published, updated, dial>>
  BY DEF watchVars
<1>2. ASSUME NEW d \in Dials PROVE Tried(dial[d])'
  <2>1. dial[d] \in DialStates /\ Tried(dial[d])
    BY DEF SpinInv
  <2>2. dial[d].copy # None => conn'[dial[d].copy] \in {"open", "closed"}
    BY <2>1 DEF Tried, DialStates
  <2> QED BY <1>1, <2>1, <2>2 DEF Tried
<1>3. published # None => conn'[published] \in {"open", "closed"}
  BY DEF SpinInv, OfferInv
<1> QED BY <1>1, <1>2, <1>3 DEF SpinInv

\* A step of a handshake leaves the calls of open_bi alone.
LEMMA HandshakesApart ==
  ASSUME NEW d \in Dials, HandshakeStep(d) \/ Arrive(d) \/ Finish(d)
  PROVE  UNCHANGED dial
<1>1. CASE Greet(d) \/ ReadMethod(d) \/ SendRequest(d)
  BY <1>1, Zenon DEF Greet, ReadMethod, SendRequest, ReadExact, Fails, Shakes, quicVars, watchVars
<1>2. CASE ReadReply(d) \/ ReadLength(d) \/ ReadBound(d)
  BY <1>2 DEF ReadReply, ReadLength, ReadBound, ReadExact, Fails, Shakes, quicVars, watchVars
<1>3. CASE ReadFails(d) \/ CancelHandshake(d) \/ Arrive(d) \/ Finish(d)
  BY <1>3 DEF ReadFails, CancelHandshake, Arrive, Finish, Fails, Shakes, quicVars, watchVars
<1> QED BY <1>1, <1>2, <1>3 DEF HandshakeStep

\* Every step keeps the dials in order.
LEMMA NextSpinInv == SpinInv /\ [Next]_vars => SpinInv'
<1> SUFFICES ASSUME SpinInv, [Next]_vars PROVE SpinInv'
  OBVIOUS
<1>0. OfferInv /\ OfferInv'
  BY NextOfferInv DEF SpinInv
<1>1. CASE AcceptIncoming \/ ReturnFromRun \/ CancelBroker
  BY <1>0, <1>1, QuietSpins DEF AcceptIncoming, ReturnFromRun, CancelBroker, quinnVars
<1>2. CASE Handshake
  <2>1. CASE conn[serving] = "incoming" /\ conn' = [conn EXCEPT ![serving] = "open"] /\ Publish(serving)
    <3>1. serving \in Conns
      BY <1>0, <1>2 DEF OfferInv, Handshake
    <3> QED BY <1>0, <2>1, <3>1, QuicBrokerAssumption, PublishSpins, Zenon DEF OfferInv
  <2>2. CASE conn' = [conn EXCEPT ![serving] = "closed"] /\ UNCHANGED watchVars
    BY <1>0, <2>2, QuietSpins DEF OfferInv
  <2> QED BY <1>2, <2>1, <2>2 DEF Handshake
<1>3. CASE ConnectionClosed \/ ClearPublished
  BY <1>0, <1>3, PublishSpins DEF ConnectionClosed, AfterClosed, ClearPublished, ClearOnStop, quinnVars
<1>4. CASE StopServer \/ EmbedderCloses
  BY <1>0, <1>4, QuietSpins DEF StopServer, EmbedderCloses, CloseServer, Gone
<1>5. CASE \E c \in Conns : Connect(c) \/ Lose(c)
  BY <1>0, <1>5, QuietSpins DEF Connect, Lose, Gone, OfferInv
<1>6. CASE \E d \in Dials : StartDial(d) \/ DialStep(d) \/ CancelDial(d)
  BY <1>6, DialSpins
<1>7. CASE \E d \in Dials : HandshakeStep(d) \/ Arrive(d) \/ Finish(d)
  BY <1>0, <1>7, HandshakesApart, DialsApart, QuietSpins DEF watchVars
<1>8. CASE UNCHANGED vars
  BY <1>0, <1>8, QuietSpins DEF vars, quicVars, quinnVars
<1> QED BY <1>1, <1>2, <1>3, <1>4, <1>5, <1>6, <1>7, <1>8 DEF Next, BrokerStep, QuicEnvironment

\* The dials are in order at the start.
LEMMA InitSpinInv == Socks5Init => SpinInv
<1> SUFFICES ASSUME Socks5Init PROVE SpinInv
  OBVIOUS
<1>1. OfferInv
  BY DEF Socks5Init, QuicInit, OfferInv
<1>2. NewDial \in DialStates /\ Tried(NewDial)
  BY DEF NewDial, DialStates, DialPlaces, Tried
<1> QED BY <1>1, <1>2, Zenon DEF Socks5Init, QuicInit, SpinInv

\* However connections come and go, open_bi tries each at most twice before it
\* waits for the broker.
THEOREM SpinFree == Spec => []NoSpin
<1>1. SpinInv => NoSpin
  BY DEF SpinInv, NoSpin, DialStates
<1> QED BY <1>1, InitSpinInv, NextSpinInv, PTL DEF Spec

(***************************************************************************)
(* The wake-ups.  A call that has looked, and waits or is about to, has     *)
(* seen what is on offer or has an unseen update; and it waits behind a     *)
(* connection only when that connection is closed.                         *)
(***************************************************************************)
Informed(r) ==
  /\ r.at \in {"open", "wait"} /\ ~r.unseen => r.copy = published
  /\ r.at = "wait" /\ r.copy # None => conn[r.copy] = "closed"

WakeInv == SpinInv /\ \A d \in Dials : Informed(dial[d])

\* changed() returns at once for a call that waits while an open connection is
\* on offer: no publication falls between its borrow(), its open_bi() and its
\* sleep (ConsumerQuicDialer::open_bi).
NoLostWakeup ==
  \A d \in Dials :
    dial[d].at = "wait" /\ published # None /\ conn[published] = "open" => dial[d].unseen

\* A call that moves to an informed state leaves all calls informed.
LEMMA InformedGoes ==
  ASSUME WakeInv, SpinInv', NEW d \in Dials, NEW to \in DialStates, Goes(d, to), Informed(to)
  PROVE  WakeInv'
<1>1. UNCHANGED <<conn, published>>
  BY DEF Goes, quinnVars
<1>2. dial' = [dial EXCEPT ![d] = to]
  BY DEF Goes
<1>3. ASSUME NEW e \in Dials PROVE Informed(dial[e])'
  <2>1. Informed(dial'[e])
    BY <1>2 DEF WakeInv, SpinInv
  <2> QED BY <1>1, <2>1 DEF Informed
<1> QED BY <1>3 DEF WakeInv

\* The calls' own steps: it is the connection it has just looked at that a call
\* tries, and a failed try marks nothing as seen.
LEMMA DialStaysInformed ==
  ASSUME WakeInv, SpinInv', NEW d \in Dials, StartDial(d) \/ DialStep(d) \/ CancelDial(d)
  PROVE  WakeInv'
<1> DEFINE r == dial[d]
<1>0. r \in DialStates /\ Tried(r) /\ Informed(r) /\ updated \in BOOLEAN /\ published \in Conns \cup {None}
  BY DEF WakeInv, SpinInv, OfferInv
<1>1. CASE StartDial(d)
  <2> DEFINE to == [dial[d] EXCEPT !.at = "look", !.unseen = updated]
  <2>1. to \in DialStates /\ to.at = "look"
    BY <1>0, Zenon DEF DialStates, DialPlaces
  <2>2. Informed(to)
    BY <2>1 DEF Informed
  <2> QED BY <1>1, <2>1, <2>2, InformedGoes DEF StartDial
<1>2. CASE Look(d) /\ published = None
  <2> DEFINE to == [WaitForChange(d) EXCEPT !.copy = None, !.tries = 0]
  <2>1. to \in DialStates /\ to.copy = None
    BY <1>0, Zenon DEF DialStates, DialPlaces, WaitForChange
  <2>2. Informed(to)
    BY <1>2, <2>1 DEF Informed
  <2> QED BY <1>2, <2>1, <2>2, InformedGoes DEF Look
<1>3. CASE Look(d) /\ published # None
  <2> DEFINE n == IF published = dial[d].copy THEN dial[d].tries + 1 ELSE 1
             to == [dial[d] EXCEPT !.at = "open", !.copy = published, !.tries = n]
  <2>1. Goes(d, to)
    BY <1>3 DEF Look
  <2>2. to \in DialStates
    <3>1. dial' = [dial EXCEPT ![d] = to] /\ dial' \in [Dials -> DialStates] /\ dial \in [Dials -> DialStates]
      BY <2>1 DEF Goes, SpinInv, WakeInv
    <3> HIDE DEF to
    <3> QED BY <3>1
  <2>3. to.at = "open" /\ to.copy = published
    BY <1>0 DEF DialStates
  <2>4. Informed(to)
    <3> HIDE DEF to
    <3> QED BY <2>3 DEF Informed
  <2> HIDE DEF to
  <2> QED BY <2>1, <2>2, <2>4, InformedGoes
<1>4. ASSUME NEW at \in DialPlaces \ {"idle", "open", "wait"}, Leaves(d, at) PROVE WakeInv'
  <2> DEFINE to == [dial[d] EXCEPT !.at = at, !.unseen = FALSE, !.tries = 0]
  <2>1. to \in DialStates /\ to.at = at
    BY <1>0, <1>4, Zenon DEF DialStates
  <2>2. Informed(to)
    BY <1>4, <2>1 DEF Informed
  <2> QED BY <1>4, <2>1, <2>2, InformedGoes DEF Leaves
<1>5. CASE Goes(d, WaitForChange(d)) /\ dial[d].at = "open" /\ conn[dial[d].copy] = "closed"
  <2>1. WaitForChange(d) \in DialStates /\ Informed(WaitForChange(d))
    BY <1>0, <1>5 DEF DialStates, DialPlaces, Informed, WaitForChange
  <2> QED BY <1>5, <2>1, InformedGoes
<1>6. CASE Goes(d, Seen(d))
  <2>1. Seen(d) \in DialStates /\ Seen(d).at = "look"
    BY <1>0, Zenon DEF DialStates, DialPlaces, Seen
  <2>2. Informed(Seen(d))
    BY <2>1 DEF Informed
  <2> QED BY <1>6, <2>1, <2>2, InformedGoes
<1>7. CASE CancelDial(d)
  <2> DEFINE to == [dial[d] EXCEPT !.cancelled = TRUE]
  <2>1. to \in DialStates /\ Informed(to)
    BY <1>0, Zenon DEF DialStates, Informed
  <2> QED BY <1>7, <2>1, InformedGoes DEF CancelDial
<1>8. CASE OpenBi(d)
  BY <1>4, <1>5, <1>8 DEF OpenBi, DialPlaces
<1>9. CASE Changed(d)
  BY <1>4, <1>6, <1>9 DEF Changed, DialPlaces
<1>10. CASE CancelOpen(d)
  BY <1>4, <1>10 DEF CancelOpen, DialPlaces
<1> QED BY <1>1, <1>2, <1>3, <1>7, <1>8, <1>9, <1>10 DEF DialStep

\* A step that leaves the channel alone opens no connection that was closed.
LEMMA QuietInforms ==
  ASSUME WakeInv, SpinInv', UNCHANGED watchVars,
         \A c \in Conns : conn[c] = "closed" => conn'[c] = "closed"
  PROVE  WakeInv'
<1>1. UNCHANGED <<published, dial>>
  BY DEF watchVars
<1>2. ASSUME NEW d \in Dials PROVE Informed(dial[d])'
  <2>1. dial[d] \in DialStates /\ Informed(dial[d])
    BY DEF WakeInv, SpinInv
  <2>2. dial[d].copy \in Conns \cup {None}
    BY <2>1 DEF DialStates
  <2> QED BY <1>1, <2>1, <2>2 DEF Informed
<1> QED BY <1>2 DEF WakeInv

\* A publication leaves every call inside open_bi with an unseen update.
LEMMA PublishInforms ==
  ASSUME WakeInv, SpinInv', NEW v, Publish(v),
         \A c \in Conns : conn[c] = "closed" => conn'[c] = "closed"
  PROVE  WakeInv'
<1>1. ASSUME NEW d \in Dials PROVE Informed(dial[d])'
  <2>1. dial[d] \in DialStates /\ Informed(dial[d])
    BY DEF WakeInv, SpinInv
  <2>2. dial'[d] = [dial[d] EXCEPT !.unseen = Pending(d)]
    BY DEF Publish
  <2>3. dial'[d].at = dial[d].at /\ dial'[d].copy = dial[d].copy /\ dial'[d].unseen = Pending(d)
    BY <2>1, <2>2 DEF DialStates
  <2>4. dial[d].copy \in Conns \cup {None}
    BY <2>1 DEF DialStates
  <2> QED BY <2>1, <2>3, <2>4, Zenon DEF Informed, Pending
<1> QED BY <1>1 DEF WakeInv

\* Every step keeps the calls informed.
LEMMA NextWakeInv == WakeInv /\ [Next]_vars => WakeInv'
<1> SUFFICES ASSUME WakeInv, [Next]_vars PROVE WakeInv'
  OBVIOUS
<1>0. OfferInv /\ SpinInv'
  BY NextSpinInv DEF WakeInv, SpinInv
<1>1. CASE AcceptIncoming \/ ReturnFromRun \/ CancelBroker
  BY <1>0, <1>1, QuietInforms DEF AcceptIncoming, ReturnFromRun, CancelBroker, quinnVars
<1>2. CASE Handshake
  <2>1. CASE conn[serving] = "incoming" /\ conn' = [conn EXCEPT ![serving] = "open"] /\ Publish(serving)
    BY <1>0, <2>1, PublishInforms DEF OfferInv
  <2>2. CASE conn' = [conn EXCEPT ![serving] = "closed"] /\ UNCHANGED watchVars
    BY <1>0, <2>2, QuietInforms DEF OfferInv
  <2> QED BY <1>2, <2>1, <2>2 DEF Handshake
<1>3. CASE ConnectionClosed \/ ClearPublished
  BY <1>0, <1>3, PublishInforms DEF ConnectionClosed, AfterClosed, ClearPublished, ClearOnStop, quinnVars
<1>4. CASE StopServer \/ EmbedderCloses
  BY <1>0, <1>4, QuietInforms DEF StopServer, EmbedderCloses, CloseServer, Gone
<1>5. CASE \E c \in Conns : Connect(c) \/ Lose(c)
  BY <1>0, <1>5, QuietInforms DEF Connect, Lose, Gone, OfferInv
<1>6. CASE \E d \in Dials : StartDial(d) \/ DialStep(d) \/ CancelDial(d)
  BY <1>0, <1>6, DialStaysInformed
<1>7. CASE \E d \in Dials : HandshakeStep(d) \/ Arrive(d) \/ Finish(d)
  BY <1>0, <1>7, HandshakesApart, DialsApart, QuietInforms DEF watchVars
<1>8. CASE UNCHANGED vars
  BY <1>0, <1>8, QuietInforms DEF vars, quicVars, quinnVars
<1> QED BY <1>1, <1>2, <1>3, <1>4, <1>5, <1>6, <1>7, <1>8 DEF Next, BrokerStep, QuicEnvironment

\* No interleaving of the broker with any number of calls loses a wake-up: a
\* call of open_bi never sleeps, unmarked, while an open connection is on offer.
THEOREM WakeCorrect == Spec => []NoLostWakeup
<1>1. Socks5Init => WakeInv
  <2> SUFFICES ASSUME Socks5Init PROVE WakeInv
    OBVIOUS
  <2>1. Informed(NewDial)
    BY DEF Informed, NewDial
  <2> QED BY <2>1, InitSpinInv DEF Socks5Init, QuicInit, WakeInv
<1>2. WakeInv => NoLostWakeup
  <2> SUFFICES ASSUME WakeInv, NEW d \in Dials, dial[d].at = "wait", published # None,
                      conn[published] = "open", ~dial[d].unseen
               PROVE  FALSE
    BY DEF NoLostWakeup
  <2> QED BY DEF WakeInv, Informed
<1> QED BY <1>1, <1>2, NextWakeInv, PTL DEF Spec

(***************************************************************************)
(* The handshakes.                                                          *)
(***************************************************************************)
Formed(h) == "at" \in DOMAIN h /\ "target" \in DOMAIN h

\* The handshake h of a dial in state r: it starts when the stream is open, it
\* writes a request only for a target it has not refused, and a dial that is
\* cancelled ends as cancelled.
InOrder(h, r) ==
  /\ h.at # "none"
  /\ h.at = "reply" => h.target \in Targets /\ Refusal(h.target) = "none"
  /\ r.at # "opened" => h.at = "greet"
  /\ r.cancelled => r.at \notin {"Stream", "BrokerStopped"}
  /\ r.cancelled /\ r.at = "opened" => h.at \in Shaking \cup {"Cancelled"}

HandshakeInv ==
  /\ SpinInv
  /\ hs = [d \in Dials |-> hs[d]]
  /\ \A d \in Dials : Formed(hs[d]) /\ InOrder(hs[d], dial[d])

\* A handshake that moves to a state in order leaves all of them in order.
LEMMA HandshakeMoves ==
  ASSUME HandshakeInv, SpinInv', NEW d \in Dials, NEW to, Shakes(d, to), Formed(to), InOrder(to, dial[d])
  PROVE  HandshakeInv'
<1>1. hs' = [hs EXCEPT ![d] = to] /\ dial' = dial
  BY DEF Shakes, quicVars, watchVars
<1>2. hs' = [e \in Dials |-> hs'[e]] /\ \A e \in Dials : hs'[e] = IF e = d THEN to ELSE hs[e]
  BY <1>1 DEF HandshakeInv
<1>3. ASSUME NEW e \in Dials PROVE (Formed(hs[e]) /\ InOrder(hs[e], dial[e]))'
  <2>1. Formed(hs'[e]) /\ InOrder(hs'[e], dial[e])
    BY <1>2 DEF HandshakeInv
  <2> QED BY <1>1, <2>1 DEF Formed, InOrder
<1> QED BY <1>2, <1>3 DEF HandshakeInv

\* An error, which only the cancellation brings to a cancelled dial.
LEMMA HandshakeFails ==
  ASSUME HandshakeInv, SpinInv', NEW d \in Dials, NEW error,
         error \notin {"none", "reply"}, dial[d].at = "opened", dial[d].cancelled => error = "Cancelled",
         Fails(d, error)
  PROVE  HandshakeInv'
<1> DEFINE to == [NewHandshake EXCEPT !.at = error]
<1>1. Formed(to) /\ to.at = error
  BY DEF Formed, NewHandshake
<1>2. InOrder(to, dial[d])
  <2> HIDE DEF to
  <2>1. dial[d].cancelled \in BOOLEAN
    BY DEF HandshakeInv, SpinInv, DialStates
  <2> QED BY <1>1, <2>1 DEF InOrder, HandshakeInv
<1> QED BY <1>1, <1>2, HandshakeMoves DEF Fails

\* A completed read.
LEMMA HandshakeReads ==
  ASSUME HandshakeInv, SpinInv', NEW d \in Dials, NEW at, NEW need,
         at \notin {"none", "reply"}, dial[d].at = "opened", ~dial[d].cancelled, ReadExact(d, at, need)
  PROVE  HandshakeInv'
<1> DEFINE to == [hs[d] EXCEPT !.at = at, !.read = @ + hs[d].need, !.need = need, !.target = None]
<1>1. Formed(hs[d])
  BY DEF HandshakeInv
<1>2. Formed(to) /\ to.at = at
  BY <1>1 DEF Formed
<1>3. InOrder(to, dial[d])
  <2> HIDE DEF to
  <2> QED BY <1>2 DEF InOrder
<1> QED BY <1>2, <1>3, HandshakeMoves DEF ReadExact

\* The steps of a handshake.
LEMMA HandshakeSteps ==
  ASSUME HandshakeInv, SpinInv', NEW d \in Dials, HandshakeStep(d) \/ Arrive(d) \/ Finish(d)
  PROVE  HandshakeInv'
<1>0. Formed(hs[d]) /\ InOrder(hs[d], dial[d])
  BY DEF HandshakeInv
<1>1. CASE Greet(d)
  <2>1. ASSUME NEW r, Shakes(d, [hs[d] EXCEPT !.at = "method", !.reply = r])
        PROVE  HandshakeInv'
    <3> DEFINE to == [hs[d] EXCEPT !.at = "method", !.reply = r]
    <3>1. Formed(to) /\ to.at = "method"
      BY <1>0 DEF Formed
    <3>2. InOrder(to, dial[d])
      BY <1>1, <3>1, Zenon DEF InOrder, Greet, Runs
    <3> QED BY <2>1, <3>1, <3>2, HandshakeMoves
  <2> QED BY <1>1, <2>1, HandshakeFails, Zenon DEF Greet, Runs
<1>2. CASE ReadMethod(d)
  <2>1. MethodError(Buffer(hs[d])) # "reply"
    BY DEF MethodError
  <2> QED BY <1>2, <2>1, HandshakeFails, HandshakeReads DEF ReadMethod, Runs
<1>3. CASE SendRequest(d)
  <2>1. ASSUME NEW t \in Targets, Refusal(t) = "none",
               Shakes(d, [hs[d] EXCEPT !.at = "reply", !.target = t, !.need = 4])
        PROVE  HandshakeInv'
    <3> DEFINE to == [hs[d] EXCEPT !.at = "reply", !.target = t, !.need = 4]
    <3>1. Formed(to) /\ to.at = "reply" /\ to.target = t
      BY <1>0 DEF Formed
    <3>2. InOrder(to, dial[d])
      <4> HIDE DEF to
      <4> QED BY <1>3, <2>1, <3>1, Zenon DEF InOrder, SendRequest, Runs
    <3> QED BY <2>1, <3>1, <3>2, HandshakeMoves
  <2>2. \A t \in Targets : Refusal(t) # "reply"
    BY DEF Refusal
  <2> QED BY <1>3, <2>1, <2>2, HandshakeFails, Zenon DEF SendRequest, Runs
<1>4. CASE ReadReply(d)
  <2>1. ReplyError(Buffer(hs[d])) # "reply"
    BY DEF ReplyError
  <2> QED BY <1>4, <2>1, HandshakeFails, HandshakeReads DEF ReadReply, Runs
<1>5. CASE ReadLength(d) \/ ReadBound(d)
  BY <1>5, HandshakeReads DEF ReadLength, ReadBound, Runs
<1>6. CASE ReadFails(d)
  BY <1>6, HandshakeFails DEF ReadFails, Runs
<1>7. CASE CancelHandshake(d)
  BY <1>7, HandshakeFails DEF CancelHandshake
<1>8. CASE Arrive(d)
  <2> PICK n : Shakes(d, [hs[d] EXCEPT !.got = n])
    BY <1>8, Zenon DEF Arrive
  <2> DEFINE to == [hs[d] EXCEPT !.got = n]
  <2>1. Formed(to) /\ to.at = hs[d].at /\ to.target = hs[d].target
    BY <1>0 DEF Formed
  <2>2. InOrder(to, dial[d])
    BY <1>0, <2>1 DEF InOrder
  <2> QED BY <2>1, <2>2, HandshakeMoves
<1>9. CASE Finish(d)
  <2> DEFINE to == [hs[d] EXCEPT !.fin = TRUE]
  <2>1. Formed(to) /\ to.at = hs[d].at /\ to.target = hs[d].target
    BY <1>0 DEF Formed
  <2>2. InOrder(to, dial[d])
    BY <1>0, <2>1 DEF InOrder
  <2> QED BY <1>9, <2>1, <2>2, HandshakeMoves DEF Finish
<1> QED BY <1>1, <1>2, <1>3, <1>4, <1>5, <1>6, <1>7, <1>8, <1>9 DEF HandshakeStep

\* The steps of dials, whose handshakes have not begun or stay as they are.
LEMMA DialKeepsOrder ==
  ASSUME HandshakeInv, SpinInv', UNCHANGED hs,
         NEW d \in Dials, StartDial(d) \/ DialStep(d) \/ CancelDial(d)
  PROVE  HandshakeInv'
<1>1. PICK to : Goes(d, to) /\ InOrder(hs[d], to)
  <2>0. dial[d] \in DialStates /\ InOrder(hs[d], dial[d])
    BY DEF HandshakeInv, SpinInv
  <2>1. CASE StartDial(d)
    <3> DEFINE new == [dial[d] EXCEPT !.at = "look", !.unseen = updated]
    <3>1. new.at = "look" /\ new.cancelled = dial[d].cancelled
      BY <2>0 DEF DialStates
    <3>2. InOrder(hs[d], new)
      BY <2>0, <2>1, <3>1 DEF InOrder, StartDial
    <3> QED BY <2>1, <3>2 DEF StartDial
  <2>2. CASE Look(d) /\ published = None
    <3> DEFINE new == [WaitForChange(d) EXCEPT !.copy = None, !.tries = 0]
    <3>1. new.at = "wait" /\ new.cancelled = dial[d].cancelled
      BY <2>0 DEF DialStates, WaitForChange
    <3>2. InOrder(hs[d], new)
      BY <2>0, <2>2, <3>1 DEF InOrder, Look
    <3> QED BY <2>2, <3>2 DEF Look
  <2>3. CASE Look(d) /\ published # None
    <3> DEFINE n == IF published = dial[d].copy THEN dial[d].tries + 1 ELSE 1
               new == [dial[d] EXCEPT !.at = "open", !.copy = published, !.tries = n]
    <3>1. new.at = "open" /\ new.cancelled = dial[d].cancelled
      BY <2>0 DEF DialStates
    <3>2. InOrder(hs[d], new)
      BY <2>0, <2>3, <3>1 DEF InOrder, Look
    <3> QED BY <2>3, <3>2 DEF Look
  <2>4. ASSUME NEW at, Leaves(d, at), dial[d].at \in {"open", "wait"},
               IF dial[d].cancelled THEN at = "Cancelled" ELSE at # "idle"
        PROVE  \E new : Goes(d, new) /\ InOrder(hs[d], new)
    <3> DEFINE new == [dial[d] EXCEPT !.at = at, !.unseen = FALSE, !.tries = 0]
    <3>1. new.at = at /\ new.cancelled = dial[d].cancelled
      BY <2>0 DEF DialStates
    <3>2. InOrder(hs[d], new)
      BY <2>0, <2>4, <3>1 DEF InOrder, DialStates
    <3> QED BY <2>4, <3>2 DEF Leaves
  <2>5. CASE OpenBi(d)
    <3>1. WaitForChange(d).at = "wait" /\ WaitForChange(d).cancelled = dial[d].cancelled
      BY <2>0 DEF DialStates, WaitForChange
    <3>2. InOrder(hs[d], WaitForChange(d))
      BY <2>0, <2>5, <3>1 DEF InOrder, OpenBi
    <3> QED BY <2>4, <2>5, <3>2 DEF OpenBi
  <2>6. CASE Changed(d)
    <3>1. Seen(d).at = "look" /\ Seen(d).cancelled = dial[d].cancelled
      BY <2>0 DEF DialStates, Seen
    <3>2. InOrder(hs[d], Seen(d))
      BY <2>0, <2>6, <3>1 DEF InOrder, Changed
    <3> QED BY <2>4, <2>6, <3>2 DEF Changed
  <2>7. CASE CancelOpen(d)
    BY <2>4, <2>7 DEF CancelOpen, Watched
  <2>8. CASE CancelDial(d)
    <3> DEFINE new == [dial[d] EXCEPT !.cancelled = TRUE]
    <3>1. new.at = dial[d].at /\ new.cancelled = TRUE
      BY <2>0 DEF DialStates
    <3>2. /\ dial[d].at \notin {"Stream", "BrokerStopped"}
          /\ dial[d].at = "opened" => hs[d].at \in Shaking
      BY <2>0, <2>8 DEF CancelDial, Result, Surfaced, InOrder, Shaking
    <3>3. InOrder(hs[d], new)
      BY <2>0, <3>1, <3>2 DEF InOrder
    <3> QED BY <2>8, <3>3 DEF CancelDial
  <2> QED BY <2>1, <2>2, <2>3, <2>5, <2>6, <2>7, <2>8 DEF DialStep
<1>2. ASSUME NEW e \in Dials PROVE (Formed(hs[e]) /\ InOrder(hs[e], dial[e]))'
  <2>1. dial'[e] = IF e = d THEN to ELSE dial[e]
    BY <1>1 DEF Goes, HandshakeInv, SpinInv
  <2>2. Formed(hs[e]) /\ InOrder(hs[e], dial'[e])
    BY <1>1, <2>1 DEF HandshakeInv
  <2> QED BY <2>2 DEF Formed, InOrder
<1> QED BY <1>2 DEF HandshakeInv

\* A change of the dials' marks alone.
LEMMA MarksKeepOrder ==
  ASSUME HandshakeInv, SpinInv', UNCHANGED hs,
         \A d \in Dials : dial'[d].at = dial[d].at /\ dial'[d].cancelled = dial[d].cancelled
  PROVE  HandshakeInv'
<1>1. ASSUME NEW d \in Dials PROVE (Formed(hs[d]) /\ InOrder(hs[d], dial[d]))'
  <2>1. Formed(hs[d]) /\ InOrder(hs[d], dial[d])
    BY DEF HandshakeInv
  <2> QED BY <2>1 DEF Formed, InOrder
<1> QED BY <1>1 DEF HandshakeInv

\* Every step keeps the handshakes in order.
LEMMA NextHandshakeInv == HandshakeInv /\ [Next]_vars => HandshakeInv'
<1> SUFFICES ASSUME HandshakeInv, [Next]_vars PROVE HandshakeInv'
  OBVIOUS
<1>0. SpinInv'
  BY NextSpinInv DEF HandshakeInv
<1>1. CASE (BrokerStep \/ QuicEnvironment) /\ UNCHANGED hs
  <2>1. UNCHANGED dial \/ \E v : Publish(v)
    BY <1>1 DEF BrokerStep, AcceptIncoming, Handshake, ConnectionClosed, AfterClosed, StopServer,
                ClearPublished, ClearOnStop, ReturnFromRun, QuicEnvironment, Connect, Lose,
                EmbedderCloses, CancelBroker, watchVars
  <2>2. ASSUME NEW d \in Dials
        PROVE  dial'[d].at = dial[d].at /\ dial'[d].cancelled = dial[d].cancelled
    <3>1. dial[d] \in DialStates
      BY DEF HandshakeInv, SpinInv
    <3>2. dial'[d] = dial[d] \/ dial'[d] = [dial[d] EXCEPT !.unseen = Pending(d)]
      BY <2>1 DEF Publish
    <3> QED BY <3>1, <3>2 DEF DialStates
  <2> QED BY <1>0, <1>1, <2>2, MarksKeepOrder
<1>2. CASE \E d \in Dials : (StartDial(d) \/ DialStep(d) \/ CancelDial(d)) /\ UNCHANGED hs
  BY <1>0, <1>2, DialKeepsOrder
<1>3. CASE \E d \in Dials : HandshakeStep(d) \/ Arrive(d) \/ Finish(d)
  BY <1>0, <1>3, HandshakeSteps
<1>4. CASE UNCHANGED vars
  BY <1>0, <1>4, MarksKeepOrder DEF vars, quicVars, watchVars
<1> QED BY <1>1, <1>2, <1>3, <1>4 DEF Next

\* The handshakes are in order at the start.
LEMMA InitHandshakeInv == Socks5Init => HandshakeInv
<1> SUFFICES ASSUME Socks5Init PROVE HandshakeInv
  OBVIOUS
<1>1. SpinInv
  BY InitSpinInv
<1>2. Formed(NewHandshake) /\ InOrder(NewHandshake, NewDial)
  BY DEF Formed, InOrder, NewHandshake, NewDial
<1> QED BY <1>1, <1>2 DEF HandshakeInv, Socks5Init, QuicInit

\* However many dials and connections there are, a cancelled connect_socks5
\* never returns a stream or another error: it ends as cancelled, or not yet.
THEOREM CancelCorrect == Spec => []CancelSurfaces
<1>1. HandshakeInv => CancelSurfaces
  <2> SUFFICES ASSUME HandshakeInv, NEW d \in Dials, dial[d].cancelled
               PROVE  Result(d) \in {"none", "Cancelled"}
    BY DEF CancelSurfaces
  <2>1. InOrder(hs[d], dial[d])
    BY DEF HandshakeInv
  <2> QED BY <2>1 DEF InOrder, Result, Surfaced
<1> QED BY <1>1, InitHandshakeInv, NextHandshakeInv, PTL DEF Spec

\* A run of zeros is a sequence of its length.
LEMMA ZerosLength ==
  ASSUME NEW n \in Nat
  PROVE  Zeros(n) \in Seq(Nat) /\ Len(Zeros(n)) = n
BY DEF Zeros

\* What follows a sequence leaves its elements where they were.
LEMMA Joined ==
  ASSUME NEW s \in Seq(Nat), NEW t \in Seq(Nat)
  PROVE  /\ s \o t \in Seq(Nat)
         /\ Len(s \o t) = Len(s) + Len(t)
         /\ \A i \in 1..Len(s) : (s \o t)[i] = s[i]
<1>1. /\ s \o t \in Seq(Nat)
      /\ Len(s \o t) = Len(s) + Len(t)
      /\ \A i \in 1 .. Len(s) + Len(t) :
           (s \o t)[i] = IF i <= Len(s) THEN s[i] ELSE t[i - Len(s)]
  BY ConcatProperties, Zenon
<1>2. Len(s) \in Nat /\ Len(t) \in Nat
  OBVIOUS
<1>3. \A i \in 1..Len(s) : i \in 1 .. Len(s) + Len(t) /\ i <= Len(s)
  BY <1>2
<1>4. \A i \in 1..Len(s) : (s \o t)[i] = s[i]
  BY <1>1, <1>3, Zenon
<1> QED BY <1>1, <1>4, Zenon

\* A request: what stands before the address, the address, the port.
LEMMA Framed ==
  ASSUME NEW head \in Seq(Nat), NEW n \in Nat, NEW r, r = head \o Zeros(n) \o Zeros(2)
  PROVE  /\ Len(r) = Len(head) + n + 2
         /\ \A i \in 1..Len(head) : r[i] = head[i]
<1>1. Zeros(n) \in Seq(Nat) /\ Len(Zeros(n)) = n
  BY ZerosLength
<1>2. Zeros(2) \in Seq(Nat) /\ Len(Zeros(2)) = 2
  BY ZerosLength, Zenon
<1> DEFINE body == head \o Zeros(n)
<1>3. /\ body \in Seq(Nat) /\ Len(body) = Len(head) + Len(Zeros(n))
      /\ \A i \in 1..Len(head) : body[i] = head[i]
  BY <1>1, Joined, Zenon
<1>4. r = body \o Zeros(2)
  OBVIOUS
<1> HIDE DEF body
<1>5. /\ Len(r) = Len(body) + Len(Zeros(2))
      /\ \A i \in 1..Len(body) : r[i] = body[i]
  <2> DEFINE port == Zeros(2)
  <2>1. body \in Seq(Nat) /\ port \in Seq(Nat)
    BY <1>2, <1>3
  <2> HIDE DEF port
  <2>2. /\ Len(body \o port) = Len(body) + Len(port)
        /\ \A i \in 1..Len(body) : (body \o port)[i] = body[i]
    BY <2>1, Joined, Zenon
  <2>3. r = body \o port
    BY <1>4, Zenon DEF port
  <2>4. Len(r) = Len(body) + Len(port) /\ \A i \in 1..Len(body) : r[i] = body[i]
    BY <2>2, <2>3, Zenon
  <2> QED BY <2>4 DEF port
<1>6. Len(head) \in Nat /\ Len(body) = Len(head) + n
  BY <1>1, <1>3
<1>7. \A i \in 1..Len(head) : i \in 1..Len(body)
  BY <1>6
<1>8. \A i \in 1..Len(head) : r[i] = head[i]
  BY <1>3, <1>5, <1>7, Zenon
<1>9. Len(r) = Len(head) + n + 2
  BY <1>2, <1>5, <1>6, Zenon
<1> QED BY <1>8, <1>9, Zenon

\* The same for a head of known length, element by element.
LEMMA FramedAddress ==
  ASSUME NEW kind \in Nat, NEW n \in Nat, NEW r,
         r = <<5, 1, 0, kind>> \o Zeros(n) \o Zeros(2)
  PROVE  Len(r) = n + 6 /\ r[4] = kind
<1> DEFINE head == <<5, 1, 0, kind>>
<1>1. head \in Seq(Nat)
  OBVIOUS
<1>2. Len(head) = 4 /\ head[4] = kind
  OBVIOUS
<1>3. r = head \o Zeros(n) \o Zeros(2)
  OBVIOUS
<1> HIDE DEF head
<1>4. Len(r) = Len(head) + n + 2 /\ \A i \in 1..Len(head) : r[i] = head[i]
  BY <1>1, <1>3, Framed, Zenon
<1>5. 4 \in 1..Len(head)
  BY <1>2
<1>6. r[4] = head[4]
  BY <1>4, <1>5, Zenon
<1> QED BY <1>2, <1>4, <1>6

\* A host name carries its length in front.
LEMMA FramedName ==
  ASSUME NEW n \in Nat, NEW r, r = <<5, 1, 0, 3, n>> \o Zeros(n) \o Zeros(2)
  PROVE  Len(r) = n + 7 /\ r[4] = 3 /\ r[5] = n
<1> DEFINE head == <<5, 1, 0, 3, n>>
<1>1. head \in Seq(Nat)
  OBVIOUS
<1>2. Len(head) = 5 /\ head[4] = 3 /\ head[5] = n
  OBVIOUS
<1>3. r = head \o Zeros(n) \o Zeros(2)
  OBVIOUS
<1> HIDE DEF head
<1>4. Len(r) = Len(head) + n + 2 /\ \A i \in 1..Len(head) : r[i] = head[i]
  BY <1>1, <1>3, Framed, Zenon
<1>5. 4 \in 1..Len(head) /\ 5 \in 1..Len(head)
  BY <1>2
<1>6. r[4] = head[4] /\ r[5] = head[5]
  BY <1>4, <1>5, Zenon
<1> QED BY <1>2, <1>4, <1>6

\* A request that socks5_connect writes ends where its reader expects: an
\* accepted name's length fits the byte that carries it.
LEMMA RequestRead ==
  ASSUME NEW t \in Targets, Refusal(t) = "none"
  PROVE  Len(Request(t)) = RequestLength(Request(t))
<1>1. CASE t = [kind |-> "v4", length |-> 4]
  <2>1. Request(t) = <<5, 1, 0, 1>> \o Zeros(4) \o Zeros(2)
    BY <1>1 DEF Request
  <2>2. Len(Request(t)) = 10 /\ Request(t)[4] = 1
    <3> DEFINE kind == 1
               n == 4
    <3>1. kind \in Nat /\ n \in Nat /\ Request(t) = <<5, 1, 0, kind>> \o Zeros(n) \o Zeros(2)
      BY <2>1
    <3> HIDE DEF kind, n
    <3>2. Len(Request(t)) = n + 6 /\ Request(t)[4] = kind
      BY <3>1, FramedAddress, Zenon
    <3> QED BY <3>2 DEF kind, n
  <2> QED BY <2>2 DEF RequestLength
<1>2. CASE t = [kind |-> "v6", length |-> 16]
  <2>1. Request(t) = <<5, 1, 0, 4>> \o Zeros(16) \o Zeros(2)
    BY <1>2 DEF Request
  <2>2. Len(Request(t)) = 22 /\ Request(t)[4] = 4
    <3> DEFINE kind == 4
               n == 16
    <3>1. kind \in Nat /\ n \in Nat /\ Request(t) = <<5, 1, 0, kind>> \o Zeros(n) \o Zeros(2)
      BY <2>1
    <3> HIDE DEF kind, n
    <3>2. Len(Request(t)) = n + 6 /\ Request(t)[4] = kind
      BY <3>1, FramedAddress, Zenon
    <3> QED BY <3>2 DEF kind, n
  <2> QED BY <2>2 DEF RequestLength
<1>3. CASE t \in [kind : {"domain"}, length : Nat]
  <2>1. t.kind = "domain" /\ t.length \in 1..255
    BY <1>3 DEF Refusal
  <2>2. t.length % 256 = t.length /\ t.length \in Nat
    BY <2>1
  <2>3. Request(t) = <<5, 1, 0, 3, t.length>> \o Zeros(t.length) \o Zeros(2)
    BY <2>1, <2>2 DEF Request
  <2>4. Len(Request(t)) = t.length + 7 /\ Request(t)[4] = 3 /\ Request(t)[5] = t.length
    BY <2>2, <2>3, FramedName, Zenon
  <2> QED BY <2>2, <2>4 DEF RequestLength
<1> QED BY <1>1, <1>2, <1>3, Socks5Assumption

\* Every request that socks5_connect writes is framed, for every set of
\* targets: its reader finds the end where the consumer put it.
THEOREM FramingCorrect == Spec => []RequestFramed
<1>1. HandshakeInv => RequestFramed
  <2> SUFFICES ASSUME HandshakeInv, NEW d \in Dials, hs[d].at = "reply"
               PROVE  Len(Request(hs[d].target)) = RequestLength(Request(hs[d].target))
    BY DEF RequestFramed
  <2>1. hs[d].target \in Targets /\ Refusal(hs[d].target) = "none"
    BY DEF HandshakeInv, InOrder
  <2> QED BY <2>1, RequestRead
<1> QED BY <1>1, InitHandshakeInv, NextHandshakeInv, PTL DEF Spec

(***************************************************************************)
(* The reads.  Where each read of the answer begins and how much it takes.  *)
(***************************************************************************)
USE Zenon

Failures ==
  {"Io", "Cancelled", "InvalidVersion", "UnsupportedAuth", "ConnectRejected",
   "InvalidReserved", "InvalidAddressType", "EmptyDomain", "DomainTooLong"}

Handshakes ==
  [at : Shaking \cup {"connected"} \cup Failures, target : Targets \cup {None}, reply : Replies \cup {None},
   got : Nat, read : Nat, need : Nat, fin : BOOLEAN]

Answered == (Shaking \ {"greet"}) \cup {"connected"}

\* The first two reads and the request have fixed places; the last read ends
\* where the answer does.
Placed(h) ==
  /\ h \in Handshakes
  /\ h.at \in Answered => h.reply \in Replies
  /\ h.at \in {"greet", "method"} => h.read = 0 /\ h.need = 2
  /\ h.at = "request" => h.read = 2
  /\ h.at = "reply" => h.read = 2 /\ h.need = 4
  /\ h.at = "length" => h.read = 6 /\ h.need = 1 /\ h.reply.type = 3
  /\ h.at = "bound" => h.read + h.need = Len(Answer(h.reply))
  /\ h.at = "connected" => h.read = Len(Answer(h.reply)) /\ h.read <= h.got

ReadInv ==
  /\ hs = [d \in Dials |-> hs[d]]
  /\ \A d \in Dials : Placed(hs[d])

\* What the egress answers is bytes.
LEMMA ReplyFields ==
  ASSUME NEW r \in Replies
  PROVE  /\ r.version \in Nat /\ r.method \in Nat /\ r.status \in Nat /\ r.reserved \in Nat
         /\ r.type \in Nat /\ r.length \in Nat
         /\ (r.type = 1 => r.length = 4) /\ (r.type = 4 => r.length = 16)
<1>1. r \in [version : Bytes, method : Bytes, status : Bytes, reserved : Bytes, type : Bytes, length : Bytes]
  BY Socks5Assumption, Zenon
<1>2. /\ r.version \in Bytes /\ r.method \in Bytes /\ r.status \in Bytes /\ r.reserved \in Bytes
      /\ r.type \in Bytes /\ r.length \in Bytes
  BY <1>1
<1>3. \A b \in Bytes : b \in Nat
  BY SMT DEF Bytes
<1>4. (r.type = 1 => r.length = 4) /\ (r.type = 4 => r.length = 16)
  BY Socks5Assumption, Zenon
<1> QED BY <1>2, <1>3, <1>4, Zenon

\* The head of an answer: the method, the fixed part of the reply, and the
\* length of a bound name.
LEMMA AnswerHead ==
  ASSUME NEW r \in Replies
  PROVE  \E head \in Seq(Nat) :
           /\ Answer(r) = head \o Zeros(r.length) \o Zeros(2)
           /\ Len(head) = IF r.type = 3 THEN 7 ELSE 6
           /\ head[6] = r.type
           /\ r.type = 3 => head[7] = r.length
<1>1. /\ r.version \in Nat /\ r.method \in Nat /\ r.status \in Nat /\ r.reserved \in Nat
      /\ r.type \in Nat /\ r.length \in Nat
  BY ReplyFields
<1> DEFINE fixed == <<r.version, r.method>> \o <<r.version, r.status, r.reserved, r.type>>
           rest == IF r.type = 3 THEN <<r.length>> ELSE <<>>
<1>2. fixed \in Seq(Nat) /\ Len(fixed) = 6 /\ fixed[6] = r.type
  BY <1>1, SMT
<1>3. rest \in Seq(Nat) /\ Len(rest) = (IF r.type = 3 THEN 1 ELSE 0) /\ (r.type = 3 => rest[1] = r.length)
  BY <1>1, SMT
<1>4. Answer(r) = (fixed \o rest) \o Zeros(r.length) \o Zeros(2)
  BY DEF Answer
<1> HIDE DEF fixed, rest
<1>5. /\ fixed \o rest \in Seq(Nat) /\ Len(fixed \o rest) = Len(fixed) + Len(rest)
      /\ \A i \in 1..Len(fixed) : (fixed \o rest)[i] = fixed[i]
  BY <1>2, <1>3, Joined
<1>6. Len(fixed \o rest) = IF r.type = 3 THEN 7 ELSE 6
  BY <1>2, <1>3, <1>5, SMT
<1>7. (fixed \o rest)[6] = r.type
  <2>1. 6 \in 1..Len(fixed)
    BY <1>2, SMT
  <2> QED BY <1>2, <1>5, <2>1
<1>8. ASSUME r.type = 3 PROVE (fixed \o rest)[7] = r.length
  <2>1. (fixed \o rest)[Len(fixed) + 1] = rest[1]
    <3>1. \A i \in 1 .. Len(fixed) + Len(rest) :
            (fixed \o rest)[i] = IF i <= Len(fixed) THEN fixed[i] ELSE rest[i - Len(fixed)]
      BY <1>2, <1>3, ConcatProperties, Zenon
    <3>2. /\ Len(fixed) + 1 \in 1 .. Len(fixed) + Len(rest)
          /\ ~(Len(fixed) + 1 <= Len(fixed)) /\ Len(fixed) + 1 - Len(fixed) = 1
      BY <1>2, <1>3, <1>8, SMT
    <3> QED BY <3>1, <3>2, SMT
  <2>2. Len(fixed) + 1 = 7 /\ rest[1] = r.length
    BY <1>2, <1>3, <1>8, SMT
  <2> QED BY <2>1, <2>2, Zenon
<1> QED BY <1>4, <1>5, <1>6, <1>7, <1>8

\* Where the bytes of an answer that the consumer looks at stand.
LEMMA AnswerBytes ==
  ASSUME NEW r \in Replies
  PROVE  /\ Answer(r) \in Seq(Nat)
         /\ Len(Answer(r)) = IF r.type = 3 THEN r.length + 9 ELSE r.length + 8
         /\ Answer(r)[6] = r.type
         /\ r.type = 3 => Answer(r)[7] = r.length
<1> DEFINE s == Answer(r)
<1>0. r.length \in Nat
  BY ReplyFields
<1>1. PICK head \in Seq(Nat) :
           /\ s = head \o Zeros(r.length) \o Zeros(2)
           /\ Len(head) = IF r.type = 3 THEN 7 ELSE 6
           /\ head[6] = r.type
           /\ r.type = 3 => head[7] = r.length
  BY AnswerHead
<1>2. s \in Seq(Nat)
  <2>1. Zeros(r.length) \in Seq(Nat) /\ Zeros(2) \in Seq(Nat)
    BY <1>0, ZerosLength
  <2>2. head \o Zeros(r.length) \in Seq(Nat)
    BY <2>1, Joined
  <2>3. (head \o Zeros(r.length)) \o Zeros(2) \in Seq(Nat)
    BY <2>1, <2>2, Joined
  <2> QED BY <1>1, <2>3
<1> HIDE DEF s
<1>3. Len(s) = Len(head) + r.length + 2 /\ \A i \in 1..Len(head) : s[i] = head[i]
  <2> DEFINE n == r.length
  <2>1. n \in Nat /\ s = head \o Zeros(n) \o Zeros(2)
    BY <1>0, <1>1
  <2> HIDE DEF n
  <2>2. Len(s) = Len(head) + n + 2 /\ \A i \in 1..Len(head) : s[i] = head[i]
    BY <2>1, Framed
  <2> QED BY <2>2 DEF n
<1>4. 6 \in 1..Len(head) /\ (r.type = 3 => 7 \in 1..Len(head))
  BY <1>1, SMT
<1>5. s[6] = r.type /\ (r.type = 3 => s[7] = r.length)
  BY <1>1, <1>3, <1>4
<1>6. Len(s) = IF r.type = 3 THEN r.length + 9 ELSE r.length + 8
  BY <1>0, <1>1, <1>3, SMTT(20)
<1> QED BY <1>2, <1>5, <1>6 DEF s

\* The stream of a call begins with the answer.
LEMMA StreamBytes ==
  ASSUME NEW h, h.reply \in Replies
  PROVE  /\ Stream(h) \in Seq(Nat)
         /\ Len(Stream(h)) = Len(Answer(h.reply)) + Len(App)
         /\ \A i \in 1..Len(Answer(h.reply)) : Stream(h)[i] = Answer(h.reply)[i]
         /\ App \in Seq(Nat)
<1> DEFINE answer == Answer(h.reply)
<1>1. answer \in Seq(Nat)
  BY AnswerBytes
<1>2. App \in Seq(Nat)
  <2>1. Bytes \subseteq Nat
    BY SMT DEF Bytes
  <2>2. App \in Seq(Bytes)
    BY Socks5Assumption, Zenon
  <2> QED BY <2>1, <2>2, SeqMonotonic
<1>3. Stream(h) = answer \o App
  BY DEF Stream
<1> HIDE DEF answer
<1>4. /\ answer \o App \in Seq(Nat) /\ Len(answer \o App) = Len(answer) + Len(App)
      /\ \A i \in 1..Len(answer) : (answer \o App)[i] = answer[i]
  BY <1>1, <1>2, Joined, Zenon
<1>5. /\ Stream(h) \in Seq(Nat) /\ Len(Stream(h)) = Len(answer) + Len(App)
      /\ \A i \in 1..Len(answer) : Stream(h)[i] = answer[i]
  BY <1>3, <1>4, Zenon
<1> QED BY <1>2, <1>5 DEF answer

\* What the reads that decide on the next one find in their buffers.
LEMMA BufferedType ==
  ASSUME NEW h, h.reply \in Replies, h.read = 2, h.need = 4
  PROVE  Buffer(h)[4] = h.reply.type
<1> DEFINE s == Stream(h)
<1>1. h.reply.length \in Nat
  BY ReplyFields
<1>2. Len(Answer(h.reply)) \in Nat /\ 6 \in 1..Len(Answer(h.reply))
  BY <1>1, AnswerBytes, SMT
<1>3. Len(App) \in Nat
  BY StreamBytes, SMT
<1>4. s \in Seq(Nat) /\ 6 <= Len(s) /\ Len(s) \in Nat
  BY <1>2, <1>3, StreamBytes, SMT
<1>5. s[6] = h.reply.type
  BY <1>2, AnswerBytes, StreamBytes
<1>6. Buffer(h) = SubSeq(s, 3, 6)
  BY SMT DEF Buffer
<1> HIDE DEF s
<1>7. SubSeq(s, 3, 6)[4] = s[6]
  BY <1>4, SMT
<1> QED BY <1>5, <1>6, <1>7

LEMMA BufferedLength ==
  ASSUME NEW h, h.reply \in Replies, h.reply.type = 3, h.read = 6, h.need = 1
  PROVE  Buffer(h)[1] = h.reply.length
<1> DEFINE s == Stream(h)
<1>1. h.reply.length \in Nat
  BY ReplyFields
<1>2. Len(Answer(h.reply)) \in Nat /\ 7 \in 1..Len(Answer(h.reply))
  BY <1>1, AnswerBytes, SMT
<1>3. Len(App) \in Nat
  BY StreamBytes, SMT
<1>4. s \in Seq(Nat) /\ 7 <= Len(s) /\ Len(s) \in Nat
  BY <1>2, <1>3, StreamBytes, SMT
<1>5. s[7] = h.reply.length
  BY <1>2, AnswerBytes, StreamBytes
<1>6. Buffer(h) = SubSeq(s, 7, 7)
  BY SMT DEF Buffer
<1> HIDE DEF s
<1>7. SubSeq(s, 7, 7)[1] = s[7]
  BY <1>4, SMT
<1> QED BY <1>5, <1>6, <1>7

\* What a stream holds behind its answer.
LEMMA BehindAnswer ==
  ASSUME NEW h, h.reply \in Replies, h.read = Len(Answer(h.reply))
  PROVE  SubSeq(Stream(h), h.read + 1, Len(Stream(h))) = App
<1> DEFINE answer == Answer(h.reply)
           n == Len(answer)
           s == answer \o App
           rest == SubSeq(s, n + 1, n + Len(App))
<1>1. answer \in Seq(Nat) /\ n \in Nat
  BY AnswerBytes, SMT
<1>2. App \in Seq(Nat) /\ Len(App) \in Nat
  BY StreamBytes, SMT
<1>3. Stream(h) = s /\ Len(Stream(h)) = n + Len(App)
  BY StreamBytes DEF Stream
<1> HIDE DEF answer
<1>4. s \in Seq(Nat) /\ Len(s) = n + Len(App)
  BY <1>1, <1>2, SMT
<1>5. \A i \in 1..Len(App) : s[n + i] = App[i]
  BY <1>1, <1>2, SMT
<1> HIDE DEF s
<1> HIDE DEF n
<1>6. rest \in Seq(Nat) /\ Len(rest) = Len(App) /\ \A i \in 1..Len(App) : rest[i] = s[n + i]
  BY <1>1, <1>2, <1>4, SMTT(20)
<1> HIDE DEF rest
<1>7. rest = App
  BY <1>2, <1>5, <1>6, SeqEqual
<1> QED BY <1>3, <1>7 DEF rest, n, answer

\* A handshake whose read is in its place leaves all of them in theirs.
LEMMA ReadMoves ==
  ASSUME ReadInv, NEW d \in Dials, NEW to, Shakes(d, to), Placed(to)
  PROVE  ReadInv'
<1>1. hs' = [hs EXCEPT ![d] = to]
  BY DEF Shakes
<1>2. hs' = [e \in Dials |-> hs'[e]] /\ \A e \in Dials : hs'[e] = IF e = d THEN to ELSE hs[e]
  BY <1>1 DEF ReadInv
<1>3. \A e \in Dials : Placed(hs'[e])
  BY <1>2 DEF ReadInv
<1> QED BY <1>2, <1>3 DEF ReadInv, Placed

\* A call that fails has no read.
LEMMA ReadDropped ==
  ASSUME ReadInv, NEW d \in Dials, NEW error \in Failures, Fails(d, error)
  PROVE  ReadInv'
<1> DEFINE to == [NewHandshake EXCEPT !.at = error]
<1>1. to \in Handshakes /\ to.at = error
  BY DEF Handshakes, NewHandshake
<1>2. Placed(to)
  <2> HIDE DEF to
  <2>1. error \notin Shaking \cup {"connected"}
    BY DEF Failures, Shaking
  <2>2. error \notin Answered \cup {"greet"}
    BY <2>1 DEF Answered, Shaking
  <2>3. to.at \notin {"greet", "method", "request", "reply", "length", "bound", "connected"}
    BY <1>1, <2>1 DEF Shaking
  <2> QED BY <1>1, <2>2, <2>3 DEF Placed
<1> QED BY <1>2, ReadMoves DEF Fails

\* A completed read moves the next one behind it.
LEMMA ReadAdvances ==
  ASSUME ReadInv, NEW d \in Dials, NEW at \in Shaking \cup {"connected"}, NEW need \in Nat, ReadExact(d, at, need),
         hs[d].reply \in Replies
  PROVE  \E to \in Handshakes :
           /\ to.at = at /\ to.need = need
           /\ to.read = hs[d].read + hs[d].need
           /\ to.reply = hs[d].reply /\ to.got = hs[d].got
           /\ Placed(to) => ReadInv'
<1> DEFINE to == [hs[d] EXCEPT !.at = at, !.read = @ + hs[d].need, !.need = need, !.target = None]
<1>1. hs[d] \in Handshakes
  BY DEF ReadInv, Placed
<1>2. hs[d].read + hs[d].need \in Nat
  BY <1>1, SMT DEF Handshakes
<1>3. /\ to.at = at /\ to.need = need /\ to.read = hs[d].read + hs[d].need
      /\ to.reply = hs[d].reply /\ to.got = hs[d].got
  BY <1>1 DEF Handshakes
<1>4. to \in Handshakes
  BY <1>1, <1>2 DEF Handshakes
<1>5. Placed(to) => ReadInv'
  BY ReadMoves DEF ReadExact
<1> QED BY <1>3, <1>4, <1>5

\* The steps of a handshake keep every read in its place.
LEMMA HandshakePlaced ==
  ASSUME ReadInv, NEW d \in Dials, HandshakeStep(d) \/ Arrive(d) \/ Finish(d)
  PROVE  ReadInv'
<1> DEFINE h == hs[d]
<1>0. h \in Handshakes /\ Placed(h)
  BY DEF ReadInv, Placed
<1>1. /\ \A error \in Failures : Fails(d, error) => ReadInv'
      /\ {"Io", "Cancelled", "InvalidVersion", "UnsupportedAuth", "ConnectRejected",
          "InvalidReserved", "InvalidAddressType", "EmptyDomain", "DomainTooLong"} \subseteq Failures
      /\ {"method", "request", "reply", "length", "bound"} \subseteq Shaking
  BY ReadDropped DEF Failures, Shaking
<1>2. CASE Greet(d)
  <2>1. ASSUME NEW r \in Replies, Shakes(d, [h EXCEPT !.at = "method", !.reply = r]) PROVE ReadInv'
    <3> DEFINE to == [h EXCEPT !.at = "method", !.reply = r]
    <3>1. to \in Handshakes /\ to.at = "method" /\ to.reply = r /\ to.read = h.read /\ to.need = h.need
      BY <1>0, <1>1 DEF Handshakes
    <3>2. h.read = 0 /\ h.need = 2
      BY <1>0, <1>2 DEF Greet, Runs, Placed
    <3>3. Placed(to)
      <4> HIDE DEF to
      <4> QED BY <3>1, <3>2 DEF Placed
    <3> QED BY <2>1, <3>3, ReadMoves
  <2> QED BY <1>1, <1>2, <2>1 DEF Greet
<1>3. CASE ReadMethod(d)
  <2>1. h.reply \in Replies /\ h.read = 0 /\ h.need = 2
    BY <1>0, <1>3 DEF ReadMethod, Runs, Placed, Answered, Shaking
  <2>2. ASSUME ReadExact(d, "request", h.need) PROVE ReadInv'
    <3>1. PICK to \in Handshakes :
          /\ to.at = "request" /\ to.read = h.read + h.need /\ to.reply = h.reply
          /\ Placed(to) => ReadInv'
      BY <1>1, <2>1, <2>2, ReadAdvances, SMT
    <3>2. Placed(to)
      BY <2>1, <3>1, SMT DEF Placed
    <3> QED BY <3>1, <3>2
  <2>3. MethodError(Buffer(h)) \in {"InvalidVersion", "UnsupportedAuth", "none"}
    BY DEF MethodError
  <2> QED BY <1>1, <1>3, <2>2, <2>3 DEF ReadMethod
<1>4. CASE SendRequest(d)
  <2>1. ASSUME NEW t \in Targets, Shakes(d, [h EXCEPT !.at = "reply", !.target = t, !.need = 4])
        PROVE  ReadInv'
    <3> DEFINE to == [h EXCEPT !.at = "reply", !.target = t, !.need = 4]
    <3>1. to \in Handshakes /\ to.at = "reply" /\ to.reply = h.reply /\ to.read = h.read /\ to.need = 4
      BY <1>0, <1>1 DEF Handshakes
    <3>2. h.read = 2 /\ h.reply \in Replies
      BY <1>0, <1>4 DEF SendRequest, Runs, Placed, Answered, Shaking
    <3>3. Placed(to)
      <4> HIDE DEF to
      <4> QED BY <3>1, <3>2 DEF Placed
    <3> QED BY <2>1, <3>3, ReadMoves
  <2>2. \A t \in Targets : Refusal(t) \in {"EmptyDomain", "DomainTooLong", "none"}
    BY DEF Refusal
  <2> QED BY <1>1, <1>4, <2>1, <2>2 DEF SendRequest
<1>5. CASE ReadReply(d)
  <2>1. h.reply \in Replies /\ h.read = 2 /\ h.need = 4
    BY <1>0, <1>5 DEF ReadReply, Runs, Placed, Answered, Shaking
  <2>2. Buffer(h)[4] = h.reply.type
    BY <2>1, BufferedType
  <2>3. ASSUME NEW type \in {1, 4}, NEW length \in Nat, h.reply.type = type, h.reply.length = length,
               ReadExact(d, "bound", BoundLength(type, length))
        PROVE  ReadInv'
    <3> DEFINE need == length + 2
    <3>0. need \in Nat /\ BoundLength(type, length) = need
      BY SMT DEF BoundLength
    <3>1. PICK to \in Handshakes :
          /\ to.at = "bound" /\ to.need = need
          /\ to.read = h.read + h.need /\ to.reply = h.reply
          /\ Placed(to) => ReadInv'
      <4>1. /\ ReadExact(d, "bound", need) /\ need \in Nat /\ h.reply \in Replies
            /\ "bound" \in Shaking \cup {"connected"}
        BY <1>1, <2>1, <2>3, <3>0
      <4> HIDE DEF need
      <4> QED BY <4>1, ReadAdvances, SMTT(20)
    <3>2. Len(Answer(h.reply)) = length + 8
      <4>1. Len(Answer(h.reply)) = IF h.reply.type = 3 THEN h.reply.length + 9 ELSE h.reply.length + 8
        BY <2>1, AnswerBytes
      <4>2. h.reply.type # 3
        BY <2>3, SMTT(20)
      <4> QED BY <2>3, <4>1, <4>2
    <3>3. to.read + to.need = Len(Answer(to.reply))
      BY <2>1, <3>1, <3>2, SMTT(20)
    <3>4. Placed(to)
      <4>1. to.at = "bound" /\ to.reply \in Replies
        BY <2>1, <3>1
      <4> QED BY <3>3, <4>1, SMTT(20) DEF Placed
    <3> QED BY <3>1, <3>4
  <2>4. ASSUME h.reply.type = 3, ReadExact(d, "length", 1) PROVE ReadInv'
    <3>1. PICK to \in Handshakes :
          /\ to.at = "length" /\ to.need = 1
          /\ to.read = h.read + h.need /\ to.reply = h.reply
          /\ Placed(to) => ReadInv'
      BY <1>1, <2>1, <2>4, ReadAdvances, SMT
    <3>2. Placed(to)
      BY <2>1, <2>4, <3>1, SMT DEF Placed
    <3> QED BY <3>1, <3>2
  <2>5. h.reply.type = 1 => h.reply.length = 4
    BY <2>1, ReplyFields
  <2>6. h.reply.type = 4 => h.reply.length = 16
    BY <2>1, ReplyFields
  <2>7. ReplyError(Buffer(h)) \in {"InvalidVersion", "ConnectRejected", "InvalidReserved",
                                   "InvalidAddressType", "none"}
    BY DEF ReplyError
  <2> QED BY <1>1, <1>5, <2>2, <2>3, <2>4, <2>5, <2>6, <2>7 DEF ReadReply
<1>6. CASE ReadLength(d)
  <2>1. h.reply \in Replies /\ h.read = 6 /\ h.need = 1 /\ h.reply.type = 3
    BY <1>0, <1>6 DEF ReadLength, Runs, Placed, Answered, Shaking
  <2>2. Buffer(h)[1] = h.reply.length /\ h.reply.length \in Nat
    BY <2>1, BufferedLength, ReplyFields
  <2> DEFINE need == h.reply.length + 2
  <2>3. need \in Nat /\ ReadExact(d, "bound", need)
    BY <1>6, <2>2, SMT DEF ReadLength, BoundLength
  <2>4. PICK to \in Handshakes :
        /\ to.at = "bound" /\ to.need = need
        /\ to.read = h.read + h.need /\ to.reply = h.reply
        /\ Placed(to) => ReadInv'
    <3>1. /\ ReadExact(d, "bound", need) /\ need \in Nat /\ h.reply \in Replies
          /\ "bound" \in Shaking \cup {"connected"}
      BY <1>1, <2>1, <2>3
    <3> HIDE DEF need
    <3> QED BY <3>1, ReadAdvances, SMTT(20)
  <2>5. Len(Answer(h.reply)) = h.reply.length + 9
    BY <2>1, AnswerBytes
  <2>6. Placed(to)
    BY <2>1, <2>2, <2>4, <2>5, SMTT(20) DEF Placed
  <2> QED BY <2>4, <2>6
<1>7. CASE ReadBound(d)
  <2>1. h.reply \in Replies /\ h.read + h.need = Len(Answer(h.reply)) /\ h.got >= h.read + h.need
    BY <1>0, <1>7 DEF ReadBound, Runs, Placed, Answered, Shaking, Complete
  <2> DEFINE need == 0
             at == "connected"
  <2>2. ReadExact(d, at, need) /\ need \in Nat /\ at \in Shaking \cup {"connected"} /\ h.reply \in Replies
    BY <1>7, <2>1 DEF ReadBound
  <2>3. PICK to \in Handshakes :
        /\ to.at = at /\ to.got = h.got
        /\ to.read = h.read + h.need /\ to.reply = h.reply
        /\ Placed(to) => ReadInv'
    <3> HIDE DEF need, at
    <3> QED BY <2>2, ReadAdvances, SMTT(20)
  <2>4. to.read <= to.got
    BY <1>0, <2>1, <2>3 DEF Handshakes
  <2>5. Placed(to)
    BY <2>1, <2>3, <2>4 DEF Placed
  <2> QED BY <2>3, <2>5
<1>8. CASE ReadFails(d) \/ CancelHandshake(d)
  BY <1>1, <1>8 DEF ReadFails, CancelHandshake
<1>9. CASE Arrive(d)
  <2>1. PICK n \in Nat : Shakes(d, [h EXCEPT !.got = n])
    <3>1. \E asked : \E n \in h.got + 1 .. asked : Shakes(d, [h EXCEPT !.got = n])
      BY <1>9 DEF Arrive
    <3>2. h.got \in Nat
      BY <1>0 DEF Handshakes
    <3>3. \A asked : \A n \in h.got + 1 .. asked : n \in Nat
      BY <3>2, SMT
    <3> QED BY <3>1, <3>3
  <2> DEFINE to == [h EXCEPT !.got = n]
  <2>2. /\ to \in Handshakes /\ to.at = h.at /\ to.reply = h.reply
        /\ to.read = h.read /\ to.need = h.need
    BY <1>0 DEF Handshakes
  <2>3. h.at # "connected"
    BY <1>9 DEF Arrive, Shaking
  <2>4. Placed(to)
    <3> HIDE DEF to
    <3> QED BY <1>0, <2>2, <2>3 DEF Placed
  <2> QED BY <2>1, <2>4, ReadMoves
<1>10. CASE Finish(d)
  <2> DEFINE to == [h EXCEPT !.fin = TRUE]
  <2>1. /\ to \in Handshakes /\ to.at = h.at /\ to.reply = h.reply
        /\ to.read = h.read /\ to.need = h.need /\ to.got = h.got
    BY <1>0 DEF Handshakes
  <2>2. Placed(to)
    <3> HIDE DEF to
    <3> QED BY <1>0, <2>1 DEF Placed
  <2> QED BY <1>10, <2>2, ReadMoves DEF Finish
<1> QED BY <1>2, <1>3, <1>4, <1>5, <1>6, <1>7, <1>8, <1>9, <1>10 DEF HandshakeStep

\* A call of connect_socks5 that succeeds has read the whole answer and hands
\* its stream back at the application's first byte, for every answer, every
\* kind of bound address and every way the bytes are cut into chunks.
THEOREM StreamCorrect == Spec => []StreamReady
<1>1. Socks5Init => ReadInv
  <2>1. NewHandshake \in Handshakes /\ Placed(NewHandshake)
    BY DEF NewHandshake, Handshakes, Placed, Answered, Shaking
  <2> QED BY <2>1 DEF Socks5Init, ReadInv
<1>2. ReadInv /\ [Next]_vars => ReadInv'
  <2>1. ASSUME ReadInv, UNCHANGED hs PROVE ReadInv'
    BY <2>1 DEF ReadInv, Placed
  <2> QED BY <2>1, HandshakePlaced DEF Next, vars
<1>3. ReadInv => StreamReady
  <2> SUFFICES ASSUME ReadInv, NEW d \in Dials, Result(d) = "connected"
               PROVE  /\ hs[d].read <= hs[d].got
                      /\ SubSeq(Stream(hs[d]), hs[d].read + 1, Len(Stream(hs[d]))) = App
    BY DEF StreamReady
  <2>1. hs[d].at = "connected"
    BY DEF Result, Surfaced
  <2>2. hs[d].reply \in Replies /\ hs[d].read = Len(Answer(hs[d].reply)) /\ hs[d].read <= hs[d].got
    BY <2>1 DEF ReadInv, Placed, Answered
  <2> QED BY <2>2, BehindAnswer
<1> QED BY <1>1, <1>2, <1>3, PTL DEF Spec
=============================================================================
