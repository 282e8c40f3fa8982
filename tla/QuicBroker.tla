----------------------------- MODULE QuicBroker -----------------------------
(***************************************************************************)
(* The broker that keeps the consumer's current QUIC connection            *)
(* (ConsumerQuicBroker::run over ConsumerQuicServer::accept) and the calls  *)
(* of ConsumerQuicDialer::open_bi that use it from other tasks.  They meet  *)
(* in a watch channel: a value, and for every receiver whether there was an *)
(* update that it has not seen.                                            *)
(*                                                                         *)
(* External: Quinn.  Connections come in while the endpoint is open, are    *)
(* lost at any time, and are all closed when the endpoint is.               *)
(***************************************************************************)
EXTENDS Naturals

CONSTANTS Conns,   \* the connections that may come in
          Dials,   \* the calls of open_bi
          None     \* no connection

ASSUME QuicBrokerAssumption == None \notin Conns

VARIABLES
  broker,     \* where run() is; "returned" after its Sender is dropped
  token,      \* the broker's token is cancelled
  serving,    \* the connection the broker has accepted
  published,  \* the value of the watch channel
  updated,    \* something has been published since the channel was made
  endpoint,   \* "open" or "closed"
  conn,       \* per connection: "unborn", "incoming" or "lost" before its handshake
              \* has ended, then "open" or "closed"
  dial        \* per call: where it is, its token, whether its receiver has an
              \* unseen update, its copy of the connection and how often it
              \* has tried that connection

brokerVars == <<broker, serving>>
watchVars == <<published, updated, dial>>
quinnVars == <<endpoint, conn>>
quicVars == <<brokerVars, token, quinnVars, watchVars>>

NewDial == [at |-> "idle", cancelled |-> FALSE, unseen |-> FALSE, copy |-> None, tries |-> 0]

QuicInit ==
  /\ broker = "accept"
  /\ token = FALSE
  /\ serving = None
  /\ published = None
  /\ updated = FALSE
  /\ endpoint = "open"
  /\ conn = [c \in Conns |-> "unborn"]
  /\ dial = [d \in Dials |-> NewDial]

-----------------------------------------------------------------------------
(* The broker.                                                             *)

\* The call is inside open_bi.
Pending(d) == dial[d].at \in {"look", "open", "wait"}

\* connections.send_replace: every receiver there is has an unseen update.
Publish(v) ==
  /\ published' = v
  /\ updated' = TRUE
  /\ dial' = [d \in Dials |-> [dial[d] EXCEPT !.unseen = Pending(d)]]

\* External: what a connection is after it is lost or closed.  One whose handshake
\* has not ended stays with the endpoint, and its handshake will fail.
Gone(state) ==
  CASE state = "incoming" -> "lost" [] state = "open" -> "closed" [] OTHER -> state

\* server.close(): the endpoint closes every connection it has.
CloseServer ==
  /\ endpoint' = "closed"
  /\ conn' = [c \in Conns |-> Gone(conn[c])]

\* The first select of accept() has an incoming connection, dead or alive.
AcceptIncoming ==
  /\ broker = "accept"
  /\ ~token
  /\ \E c \in Conns : conn[c] \in {"incoming", "lost"} /\ serving' = c
  /\ broker' = "handshake"
  /\ UNCHANGED <<token, quinnVars, watchVars>>

\* The second select: the handshake succeeds and the connection is published,
\* or it fails and the loop continues.
Handshake ==
  /\ broker = "handshake"
  /\ ~token
  /\ \/ /\ conn[serving] = "incoming"
        /\ conn' = [conn EXCEPT ![serving] = "open"]
        /\ Publish(serving)
        /\ broker' = "serve"
        /\ UNCHANGED serving
     \/ /\ conn' = [conn EXCEPT ![serving] = "closed"]
        /\ broker' = "accept"
        /\ serving' = None
        /\ UNCHANGED watchVars
  /\ UNCHANGED <<token, endpoint>>

\* The connection.closed() arm.
AfterClosed == Publish(None)

ConnectionClosed ==
  /\ broker = "serve"
  /\ ~token
  /\ conn[serving] = "closed"
  /\ AfterClosed
  /\ broker' = "accept"
  /\ serving' = None
  /\ UNCHANGED <<token, quinnVars>>

\* A cancelled token, or an endpoint that accepts no more, closes the server.
StopServer ==
  /\ \/ token /\ broker \in {"accept", "handshake", "serve"}
     \/ ~token /\ broker = "accept" /\ endpoint = "closed"
  /\ CloseServer
  /\ broker' = "closing"
  /\ UNCHANGED <<serving, token, watchVars>>

\* Mutant of ClearOnStop: run() returns without clearing the connection.
KeepOnStop == UNCHANGED watchVars

\* send_replace(None) on every way out of run().
ClearOnStop == Publish(None)

ClearPublished ==
  /\ broker = "closing"
  /\ ClearOnStop
  /\ broker' = "cleared"
  /\ serving' = None
  /\ UNCHANGED <<token, quinnVars>>

\* run() returns and drops the Sender it owns.  Whether it returns Ok or an error
\* is not kept: nothing but the embedder looks at it.
ReturnFromRun ==
  /\ broker = "cleared"
  /\ broker' = "returned"
  /\ UNCHANGED <<serving, token, quinnVars, watchVars>>

BrokerStep ==
  \/ AcceptIncoming \/ Handshake \/ ConnectionClosed
  \/ StopServer \/ ClearPublished \/ ReturnFromRun

-----------------------------------------------------------------------------
(* A call of open_bi.                                                      *)

Goes(d, to) ==
  /\ dial' = [dial EXCEPT ![d] = to]
  /\ UNCHANGED <<brokerVars, token, quinnVars, published, updated>>

\* The receiver is gone.
Leaves(d, at) == Goes(d, [dial[d] EXCEPT !.at = at, !.unseen = FALSE, !.tries = 0])

\* The receiver is a clone of one that has never looked: every update since
\* the channel was made is unseen.
StartDial(d) ==
  /\ dial[d].at = "idle"
  /\ Goes(d, [dial[d] EXCEPT !.at = "look", !.unseen = updated])

\* Mutant of WaitForChange: the receiver marks what is there as seen when it starts
\* to wait.
WaitForNext(d) == [dial[d] EXCEPT !.at = "wait", !.unseen = FALSE]

\* Neither borrow() nor a failed open_bi() marks anything as seen.
WaitForChange(d) == [dial[d] EXCEPT !.at = "wait"]

\* borrow().clone()
Look(d) ==
  /\ dial[d].at = "look"
  /\ \/ published = None /\ Goes(d, [WaitForChange(d) EXCEPT !.copy = None, !.tries = 0])
     \/ /\ published # None
        /\ Goes(d, [dial[d] EXCEPT
                      !.at = "open", !.copy = published,
                      !.tries = IF published = dial[d].copy THEN @ + 1 ELSE 1])

\* connection.open_bi() on the copy.  A stream, a closed connection, or an
\* error of an open one.
OpenBi(d) ==
  /\ dial[d].at = "open"
  /\ ~dial[d].cancelled
  /\ \/ conn[dial[d].copy] = "open" /\ Leaves(d, "opened")
     \/ conn[dial[d].copy] = "closed" /\ Goes(d, WaitForChange(d))
     \/ conn[dial[d].copy] = "open" /\ Leaves(d, "Stream")

\* Mutant of Seen: changed() leaves the update unseen.
StillUnseen(d) == [dial[d] EXCEPT !.at = "look"]

\* changed() returns at once while an update is unseen, and marks it.
Seen(d) == [dial[d] EXCEPT !.at = "look", !.unseen = FALSE]

\* Mutant of SenderGone: the channel never closes.
SenderKept == FALSE

\* changed() fails when the Sender is gone and nothing is unseen.
SenderGone == broker = "returned"

Changed(d) ==
  /\ dial[d].at = "wait"
  /\ ~dial[d].cancelled
  /\ \/ dial[d].unseen /\ Goes(d, Seen(d))
     \/ ~dial[d].unseen /\ SenderGone /\ Leaves(d, "BrokerStopped")

\* Mutant of Watched: the token is not watched while waiting for a change.
WatchedWhileOpening == {"open"}

\* Both selects watch the token, and look at it first.
Watched == {"open", "wait"}

CancelOpen(d) ==
  /\ dial[d].cancelled
  /\ dial[d].at \in Watched
  /\ Leaves(d, "Cancelled")

DialStep(d) == Look(d) \/ OpenBi(d) \/ Changed(d) \/ CancelOpen(d)
-----------------------------------------------------------------------------
(* The environment.                                                        *)

\* External: the egress connects.
Connect(c) ==
  /\ conn[c] = "unborn"
  /\ endpoint = "open"
  /\ conn' = [conn EXCEPT ![c] = "incoming"]
  /\ UNCHANGED <<brokerVars, token, endpoint, watchVars>>

\* External: a connection is lost, or its idle timeout passes.
Lose(c) ==
  /\ conn[c] \in {"incoming", "open"}
  /\ conn' = [conn EXCEPT ![c] = Gone(@)]
  /\ UNCHANGED <<brokerVars, token, endpoint, watchVars>>

\* The embedder, which shares the server, closes it.
EmbedderCloses ==
  /\ endpoint = "open"
  /\ CloseServer
  /\ UNCHANGED <<brokerVars, token, watchVars>>

CancelBroker ==
  /\ ~token
  /\ token' = TRUE
  /\ UNCHANGED <<brokerVars, quinnVars, watchVars>>

QuicEnvironment ==
  \/ \E c \in Conns : Connect(c) \/ Lose(c)
  \/ EmbedderCloses \/ CancelBroker
-----------------------------------------------------------------------------
\* A connection is on offer only while the broker watches that very connection,
\* so it is withdrawn when it closes, and only then is the next one accepted
\* (a replacement waits until the connection before it has closed); and a broker
\* that has returned leaves nothing on offer, nothing open and no endpoint behind.
OnlyServedIsPublished ==
  /\ published # None => published = serving /\ broker \in {"serve", "closing"}
  /\ broker = "returned" =>
       published = None /\ endpoint = "closed" /\ \A c \in Conns : conn[c] # "open"

\* open_bi does not spin on a dead connection: its receiver starts behind the
\* channel, so it may try one connection a second time, and then it waits
\* until the broker has published something else.
NoSpin == \A d \in Dials : dial[d].tries <= 2

\* No wake-up is missed: when some connection stays published and open, a call
\* that waits opens a stream, whatever was published and closed while it
\* looked, tried and went to sleep.
NoMissedConnection ==
  \A d \in Dials :
    <>[](\E c \in Conns : published = c /\ conn[c] = "open") => (Pending(d) ~> ~Pending(d))
=============================================================================
