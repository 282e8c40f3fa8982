---------------------------- MODULE PeerSession ----------------------------
(***************************************************************************)
(* One session of the peer proxy (run_peer_proxy_until_cancelled): the      *)
(* exchange with Freddie, the wait for the consumer's DataChannel, the      *)
(* egress tunnel and the relay, next to the callbacks that WebRTC runs      *)
(* concurrently on its own tasks.                                           *)
(*                                                                         *)
(* External: the peer connection.  Its states change as ICE and DTLS find   *)
(* and lose the consumer; each change is one call of the state-change       *)
(* callback, and the calls run one after another, some time later: close()  *)
(* may have returned before the callback for Closed has run.  The consumer  *)
(* can connect once it has our answer, whether or not its own candidates    *)
(* have reached us.                                                         *)
(***************************************************************************)
EXTENDS EgressSubprotocol, FiniteSets

CONSTANTS MaxChanges,  \* bound on the changes of state before close()
          MaxOpens,    \* bound on the DataChannels that open
          SessionIds   \* what a consumer may send as its session id

ASSUME PeerSessionAssumption ==
  /\ MaxChanges \in Nat
  /\ MaxOpens \in Nat
  /\ \A id \in SessionIds : id \in Seq({"a", "b", Separator, Blank})

VARIABLES
  pc,         \* where the session is
  result,     \* what it returns
  cancelled,  \* its token
  conn,       \* RTCPeerConnectionState, "none" before the connection exists
  ice,        \* "idle", "described" (both descriptions set), "answered" (the answer is posted)
  changes,    \* changes of state so far
  opens,      \* DataChannels opened so far
  sender,     \* data_channel_tx still holds the oneshot sender
  wait,       \* what was sent to data_channel_rx: "nothing", "datagrams" or "ended"
  receiver,   \* data_channel_rx has not been dropped
  sessionId,  \* session_id: NoId until it is published
  connectEmitted, disconnectEmitted,
  pending,    \* states whose callback has not started
  callback,   \* the callback that is running: [at, state]
  events      \* peer events sent to the supervisor

sessionVars == <<pc, result, cancelled, receiver>>
connVars == <<conn, ice, changes, opens, pending>>
callbackVars == <<connectEmitted, disconnectEmitted, callback, events>>
vars == <<sessionVars, connVars, sender, wait, sessionId, callbackVars>>

NoId == <<>>
Working == {"offer", "gather", "ice", "candidates", "nat", "egress", "relay"}
States == {"New", "Connecting", "Connected", "Disconnected", "Failed", "Closed"}
IdleCallback == [at |-> "idle", state |-> "New"]

Init ==
  /\ pc = "setup"
  /\ result = "none"
  /\ cancelled = FALSE
  /\ conn = "none"
  /\ ice = "idle"
  /\ changes = 0
  /\ opens = 0
  /\ sender = TRUE
  /\ wait = "nothing"
  /\ receiver = TRUE
  /\ sessionId = NoId
  /\ connectEmitted = FALSE
  /\ disconnectEmitted = FALSE
  /\ pending = <<>>
  /\ callback = IdleCallback
  /\ events = <<>>

-----------------------------------------------------------------------------
(* The session.                                                            *)

\* build_api and new_peer_connection; an error returns before there is
\* anything to close.
Setup ==
  /\ pc = "setup"
  /\ \/ /\ pc' = "offer" /\ conn' = "New"
        /\ UNCHANGED <<result, receiver>>
     \/ /\ pc' = "done" /\ result' = "WebRtc" /\ receiver' = FALSE
        /\ UNCHANGED conn
  /\ UNCHANGED <<cancelled, ice, changes, opens, pending, sender, wait, sessionId, callbackVars>>

\* The session future has a result: it is dropped, and the receiver with it.
Return(r) ==
  /\ pc' = "close"
  /\ result' = r
  /\ receiver' = FALSE

Continue(where) ==
  /\ pc' = where
  /\ UNCHANGED <<result, receiver>>

\* exchange(Genesis), expect Offer, then both descriptions.
ReceiveOffer ==
  /\ pc = "offer"
  /\ \/ Continue("gather") /\ ice' = "described"
     \/ Return("Signaling") /\ UNCHANGED ice
     \/ Return("WebRtc") /\ UNCHANGED ice
  /\ UNCHANGED <<cancelled, conn, changes, opens, pending, sender, wait, sessionId, callbackVars>>

\* Gathering completes and the answer is posted.
PostAnswer ==
  /\ pc = "gather"
  /\ \/ Continue("ice") /\ ice' = "answered"
     \/ Return("Signaling") /\ UNCHANGED ice
  /\ UNCHANGED <<cancelled, conn, changes, opens, pending, sender, wait, sessionId, callbackVars>>

\* is_empty and is_subprotocol_token
AcceptsId(id) == id # <<>> /\ IsSubprotocolToken(id)

\* Mutant of Published: the id is not published.
NotPublished(id) == sessionId

\* *session_id.lock() = Some(...)
Published(id) == id

\* The reply to the answer: the consumer's candidates and its session id.
ReceiveIce ==
  /\ pc = "ice"
  /\ \/ \E id \in SessionIds :
          IF AcceptsId(id)
            THEN Continue("candidates") /\ sessionId' = Published(id)
            ELSE Return("SessionId") /\ UNCHANGED sessionId
     \/ Return("Signaling") /\ UNCHANGED sessionId
  /\ UNCHANGED <<cancelled, connVars, sender, wait, callbackVars>>

AddCandidates ==
  /\ pc = "candidates"
  /\ Continue("nat") \/ Return("WebRtc")
  /\ UNCHANGED <<cancelled, connVars, sender, wait, sessionId, callbackVars>>

\* Mutant of TimesOut: the receiver is awaited without a timeout.
NeverTimesOut == FALSE

\* The timer counts only if nothing has been received.
TimesOut == wait = "nothing"

\* timeout(nat_timeout, data_channel_rx)
AwaitDataChannel ==
  /\ pc = "nat"
  /\ \/ wait = "datagrams" /\ Continue("egress")
     \/ wait = "ended" /\ Return("PeerConnectionEnded")
     \/ TimesOut /\ Return("NatTimeout")
  /\ UNCHANGED <<cancelled, connVars, sender, wait, sessionId, callbackVars>>

\* EgressTunnel::connect with the consumer's session id: the request fails or
\* times out, or the server selects a subprotocol, which must be the cookie.
ConnectEgress ==
  /\ pc = "egress"
  /\ \/ IsSubprotocolToken(sessionId) /\ Continue("relay")
     \/ Return("Egress")
  /\ UNCHANGED <<cancelled, connVars, sender, wait, sessionId, callbackVars>>

\* relay() returns: either side ended, or a transport failed.
EndRelay ==
  /\ pc = "relay"
  /\ Return("Ok") \/ Return("Relay")
  /\ UNCHANGED <<cancelled, connVars, sender, wait, sessionId, callbackVars>>

\* The select around the session.
Cancellable == pc \in Working

CancelSession ==
  /\ cancelled
  /\ Cancellable
  /\ Return("Cancelled")
  /\ UNCHANGED <<cancelled, connVars, sender, wait, sessionId, callbackVars>>

\* The close after the select is on every way out of it.
MustClose == TRUE

\* connection.close(), then the result.
Close ==
  /\ pc = "close"
  /\ pc' = "done"
  /\ IF MustClose
       THEN /\ conn' = "Closed"
            /\ pending' = Append(pending, "Closed")
       ELSE UNCHANGED <<conn, pending>>
  /\ UNCHANGED <<result, cancelled, receiver, ice, changes, opens,
                 sender, wait, sessionId, callbackVars>>

-----------------------------------------------------------------------------
(* The callbacks.                                                          *)

\* is_terminal_peer_state
Terminal(state) == state \in {"Disconnected", "Failed", "Closed"}

\* Mutant of DisconnectState: Closed is forgotten.
DisconnectStateOpen(state) == state \in {"Disconnected", "Failed"}

\* is_disconnect_state
DisconnectState(state) == Terminal(state)

\* tx.take() and tx.send(v): the first resolution counts, and only while the
\* session is still waiting.
Resolve(v) ==
  /\ sender' = FALSE
  /\ wait' = IF sender /\ receiver THEN v ELSE wait

\* The closure: fail_data_channel_wait, then the future it returns.
StartCallback ==
  /\ callback.at = "idle"
  /\ pending # <<>>
  /\ pending' = Tail(pending)
  /\ callback' = [at |-> "body", state |-> Head(pending)]
  /\ IF Terminal(Head(pending)) THEN Resolve("ended") ELSE UNCHANGED <<sender, wait>>
  /\ UNCHANGED <<sessionVars, conn, ice, changes, opens, sessionId,
                 connectEmitted, disconnectEmitted, events>>

\* Mutant of ReportsDisconnect: disconnect_emitted is not looked at.
ReportsEveryDisconnect(state) == DisconnectState(state) /\ connectEmitted

\* The guard of the second arm.
ReportsDisconnect(state) == DisconnectState(state) /\ connectEmitted /\ ~disconnectEmitted

\* The future up to its await.
RunCallback ==
  LET state == callback.state IN
  /\ callback.at = "body"
  /\ \/ /\ sessionId # NoId /\ state = "Connected"
        /\ connectEmitted' = TRUE
        /\ callback' = [callback EXCEPT !.at = "pair"]
        /\ UNCHANGED <<disconnectEmitted, events>>
     \/ /\ sessionId # NoId /\ ReportsDisconnect(state)
        /\ disconnectEmitted' = TRUE
        /\ events' = Append(events, "PeerDisconnected")
        /\ callback' = IdleCallback
        /\ UNCHANGED connectEmitted
     \/ /\ sessionId = NoId \/ ~(state = "Connected" \/ ReportsDisconnect(state))
        /\ callback' = IdleCallback
        /\ UNCHANGED <<connectEmitted, disconnectEmitted, events>>
  /\ UNCHANGED <<sessionVars, connVars, sender, wait, sessionId>>

\* selected_candidate_pair has been read.
ReportConnected ==
  /\ callback.at = "pair"
  /\ events' = Append(events, "PeerConnected")
  /\ callback' = IdleCallback
  /\ UNCHANGED <<sessionVars, connVars, sender, wait, sessionId,
                 connectEmitted, disconnectEmitted>>

\* on_data_channel registers the adapter and its on_open takes the sender.
OnOpen ==
  /\ conn \in {"Connected", "Disconnected"}
  /\ opens < MaxOpens
  /\ opens' = opens + 1
  /\ Resolve("datagrams")
  /\ UNCHANGED <<sessionVars, conn, ice, changes, pending, sessionId, callbackVars>>

\* External: what ICE and DTLS may do next.
Successors ==
  CASE conn = "New"          -> IF ice # "idle" THEN {"Connecting"} ELSE {}
    [] conn = "Connecting"   -> IF ice = "answered" THEN {"Connected", "Failed"} ELSE {"Failed"}
    [] conn = "Connected"    -> {"Disconnected", "Failed"}
    [] conn = "Disconnected" -> {"Connected", "Failed"}
    [] OTHER                 -> {}

\* External: the connection changes its state.
ChangeState ==
  /\ changes < MaxChanges
  /\ changes' = changes + 1
  /\ conn' \in Successors
  /\ pending' = Append(pending, conn')
  /\ UNCHANGED <<sessionVars, ice, opens, sender, wait, sessionId, callbackVars>>

Cancel ==
  /\ ~cancelled
  /\ pc # "done"
  /\ cancelled' = TRUE
  /\ UNCHANGED <<pc, result, receiver, connVars, sender, wait, sessionId, callbackVars>>

-----------------------------------------------------------------------------
Callbacks == StartCallback \/ RunCallback \/ ReportConnected

Next ==
  \/ Setup \/ ReceiveOffer \/ PostAnswer \/ ReceiveIce \/ AddCandidates
  \/ AwaitDataChannel \/ ConnectEgress \/ EndRelay
  \/ CancelSession \/ Close
  \/ Callbacks \/ OnOpen \/ ChangeState
  \/ Cancel

Spec == Init /\ [][Next]_vars

\* The session's task is polled, so it notices its token and the timers of
\* the two waits that have one; WebRTC's setup and close return, and its
\* callbacks run.  Freddie and the relay may keep the session for ever.
FairSpec ==
  /\ Spec
  /\ WF_vars(Setup) /\ WF_vars(CancelSession) /\ WF_vars(Close)
  /\ WF_vars(AwaitDataChannel) /\ WF_vars(ConnectEgress)
  /\ WF_vars(Callbacks)

-----------------------------------------------------------------------------
Sent(event) == {i \in DOMAIN events : events[i] = event}
Quiescent == pc = "done" /\ pending = <<>> /\ callback.at = "idle"

\* A consumer is reported gone only after it was reported there, and once,
\* however its connection flaps and whichever of the session and the
\* callbacks is ahead (connect_emitted and disconnect_emitted).
DisconnectFollowsConnect ==
  /\ Cardinality(Sent("PeerDisconnected")) <= 1
  /\ \A i \in Sent("PeerDisconnected") : \E j \in Sent("PeerConnected") : j < i

\* When the session is over and its callbacks have run, a consumer that was
\* reported connected has been reported gone exactly once: "exactly one
\* `PeerDisconnected` per connected session", also when the session ends by
\* cancellation, timeout or error and only close() ends the connection.
DisconnectReportedOnce ==
  Quiescent /\ Sent("PeerConnected") # {} => Cardinality(Sent("PeerDisconnected")) = 1

\* No way out of a session leaves its peer connection open: every error, the
\* timeout and the cancellation run the close() after the select.
NoConnectionLeftOpen == pc = "done" => conn \in {"none", "Closed"}

\* An egress tunnel is opened, and a relay run, only for a consumer whose
\* DataChannel opened before anything ended the wait, under the session id
\* that labels its events.
RelayHasPeer ==
  pc \in {"egress", "relay"} => wait = "datagrams" /\ sessionId # NoId /\ ~sender

\* The egress that a session relays to takes the header apart into the session
\* id that labels the session's events and the protocol version, whatever the
\* consumer sent as its id.
EgressKnowsConsumer ==
  pc = "relay" =>
    ParseEgressSubprotocols(HeaderValues(SubprotocolHeader(sessionId))) = <<sessionId, ProtocolVersion>>

\* What the supervisor sees of a session.
ReportedOutcome ==
  IF pc # "done" THEN "none" ELSE IF result \in {"Ok", "Cancelled"} THEN result ELSE "Err"

ReportedConsumer ==
  LET gone == Cardinality(Sent("PeerDisconnected")) IN
  CASE events = <<>> -> "none"
    [] events # <<>> /\ gone = 0 -> "connected"
    [] gone = 1 /\ events[Len(events)] = "PeerDisconnected" -> "gone"
    [] gone = 1 /\ events[Len(events)] # "PeerDisconnected" -> "back"
    [] OTHER -> "gone twice"

Promise == INSTANCE SessionContract
             WITH outcome <- ReportedOutcome, cancelled <- cancelled, consumer <- ReportedConsumer

\* A session is what its supervisor relies on, its callbacks included: it
\* returns once, on cancellation in any case, and a consumer that was reported
\* connected is reported gone once, also when only the close() after the return
\* ends its connection.
ImplementsContract == Promise!Contract

\* A session that has its consumer's candidates either gets to relay or ends:
\* neither a consumer that never opens its channel nor an egress that does not
\* answer holds the slot (nat_timeout, the egress connect timeout).
TraversalEnds == pc \in {"nat", "egress"} ~> pc \in {"relay", "done"}

\* What the comment above session_id says: "it is guaranteed present by the
\* time the connection can reach Connected".
ConnectedHasSessionId == conn = "Connected" => sessionId # NoId
=============================================================================
