-------------------------- MODULE PeerSessionProofs --------------------------
(***************************************************************************)
(* Theorems about one session of the peer proxy, for any number of changes  *)
(* of the connection's state, of DataChannels and of session ids.           *)
(***************************************************************************)
EXTENDS PeerSession, FiniteSetTheorems, SequenceTheorems, TLAPS

USE Zenon

(***************************************************************************)
(* The connection is made by Setup, and closed last.                        *)
(***************************************************************************)
CloseInv ==
  /\ pc = "setup" => conn = "none"
  /\ NoConnectionLeftOpen

\* A closed connection changes no more, and every way out of the session but
\* the first runs close().
LEMMA NextCloseInv == CloseInv /\ [Next]_vars => CloseInv'
<1> SUFFICES ASSUME CloseInv, [Next]_vars PROVE CloseInv'
  OBVIOUS
<1> USE DEF CloseInv, NoConnectionLeftOpen
<1>1. CASE Setup
  BY <1>1 DEF Setup
<1>2. CASE Close
  BY <1>2 DEF Close, MustClose
<1>3. CASE ChangeState
  BY <1>3 DEF ChangeState, Successors, sessionVars
<1>4. CASE ReceiveOffer \/ PostAnswer
  BY <1>4 DEF ReceiveOffer, PostAnswer, Return, Continue
<1>5. CASE ReceiveIce \/ AddCandidates \/ AwaitDataChannel \/ ConnectEgress
  BY <1>5 DEF ReceiveIce, AddCandidates, AwaitDataChannel, ConnectEgress, Return, Continue, connVars
<1>6. CASE EndRelay \/ CancelSession \/ Cancel
  BY <1>6 DEF EndRelay, CancelSession, Cancel, Cancellable, Working, Return, connVars
<1>7. CASE Callbacks \/ OnOpen
  BY <1>7 DEF Callbacks, StartCallback, RunCallback, ReportConnected, OnOpen, sessionVars, connVars
<1>8. CASE UNCHANGED vars
  BY <1>8 DEF vars, sessionVars, connVars
<1> QED BY <1>1, <1>2, <1>3, <1>4, <1>5, <1>6, <1>7, <1>8 DEF Next

\* No way out of a session leaves its peer connection open.
THEOREM ConnectionsClosed == Spec => []NoConnectionLeftOpen
<1>1. Init => CloseInv
  BY DEF Init, CloseInv, NoConnectionLeftOpen
<1>2. CloseInv => NoConnectionLeftOpen
  BY DEF CloseInv
<1> QED BY <1>1, <1>2, NextCloseInv, PTL DEF Spec

(***************************************************************************)
(* The oneshot of the DataChannel and the published session id.             *)
(***************************************************************************)
PeerInv ==
  /\ sender \in BOOLEAN
  /\ wait # "nothing" => ~sender
  /\ pc \in {"candidates", "nat", "egress", "relay"} => sessionId # NoId
  /\ RelayHasPeer

\* The oneshot is resolved at most once, so the datagrams that AwaitDataChannel
\* has received are still what it was resolved with.
LEMMA NextPeerInv == PeerInv /\ [Next]_vars => PeerInv'
<1> SUFFICES ASSUME PeerInv, [Next]_vars PROVE PeerInv'
  OBVIOUS
<1> USE DEF PeerInv, RelayHasPeer
<1>1. CASE Setup \/ ReceiveOffer \/ PostAnswer
  BY <1>1, SMT DEF Setup, ReceiveOffer, PostAnswer, Return, Continue
<1>2. CASE ReceiveIce
  BY <1>2 DEF ReceiveIce, AcceptsId, Published, NoId, Return, Continue
<1>3. CASE AddCandidates
  BY <1>3 DEF AddCandidates, Return, Continue
<1>4. CASE AwaitDataChannel
  BY <1>4 DEF AwaitDataChannel, Return, Continue
<1>5. CASE ConnectEgress
  BY <1>5 DEF ConnectEgress, Return, Continue
<1>6. CASE EndRelay \/ CancelSession \/ Close \/ Cancel
  BY <1>6, SMT DEF EndRelay, CancelSession, Close, Cancel, Return
<1>7. CASE StartCallback
  BY <1>7 DEF StartCallback, Resolve, sessionVars
<1>8. CASE OnOpen
  BY <1>8 DEF OnOpen, Resolve, sessionVars
<1>9. CASE RunCallback \/ ReportConnected \/ ChangeState
  BY <1>9, SMT DEF RunCallback, ReportConnected, ChangeState, sessionVars
<1>10. CASE UNCHANGED vars
  BY <1>10 DEF vars, sessionVars
<1> QED BY <1>1, <1>2, <1>3, <1>4, <1>5, <1>6, <1>7, <1>8, <1>9, <1>10 DEF Next, Callbacks

\* A tunnel is opened and a relay run only for a consumer whose DataChannel has
\* opened and whose session id is published.
THEOREM RelayCorrect == Spec => []RelayHasPeer
<1>1. Init => PeerInv
  BY DEF Init, PeerInv, RelayHasPeer
<1>2. PeerInv => RelayHasPeer
  BY DEF PeerInv
<1> QED BY <1>1, <1>2, NextPeerInv, PTL DEF Spec

(***************************************************************************)
(* The events.  What has been sent is what the two flags say, except that   *)
(* PeerConnected is sent after the await that follows its flag.             *)
(***************************************************************************)
EventInv ==
  /\ connectEmitted \in BOOLEAN /\ disconnectEmitted \in BOOLEAN
  /\ events \in Seq({"PeerConnected", "PeerDisconnected"})
  /\ disconnectEmitted => connectEmitted
  /\ callback.at = "pair" => connectEmitted
  /\ connectEmitted => Sent("PeerConnected") # {} \/ callback.at = "pair"
  /\ Sent("PeerConnected") # {} => connectEmitted
  /\ ~disconnectEmitted => Sent("PeerDisconnected") = {}
  /\ disconnectEmitted => \E i \in DOMAIN events : Sent("PeerDisconnected") = {i}
  /\ \A i \in Sent("PeerDisconnected") : \E j \in Sent("PeerConnected") : j < i

\* Where an event that is sent stands among the others.
LEMMA SentAppend ==
  ASSUME events \in Seq({"PeerConnected", "PeerDisconnected"}),
         NEW e \in {"PeerConnected", "PeerDisconnected"}, events' = Append(events, e)
  PROVE  /\ events' \in Seq({"PeerConnected", "PeerDisconnected"})
         /\ DOMAIN events' = DOMAIN events \cup {Len(events) + 1}
         /\ Sent(e)' = Sent(e) \cup {Len(events) + 1}
         /\ \A f : f # e => Sent(f)' = Sent(f)
         /\ \A f : \A i \in Sent(f) : i < Len(events) + 1
BY SMT DEF Sent

\* Each flag is set once, and before its event.
LEMMA NextEventInv == EventInv /\ [Next]_vars => EventInv'
<1> SUFFICES ASSUME EventInv, [Next]_vars PROVE EventInv'
  OBVIOUS
<1>1. CASE StartCallback
  BY <1>1 DEF StartCallback, EventInv, Sent
<1>2. CASE RunCallback
  <2>1. CASE /\ callback.at = "body" /\ connectEmitted' = TRUE
             /\ callback' = [callback EXCEPT !.at = "pair"]
             /\ UNCHANGED <<disconnectEmitted, events>>
    BY <2>1, SMT DEF EventInv, Sent
  <2>2. CASE /\ callback.at = "body" /\ connectEmitted /\ ~disconnectEmitted
             /\ disconnectEmitted' = TRUE
             /\ events' = Append(events, "PeerDisconnected")
             /\ UNCHANGED connectEmitted /\ callback' = IdleCallback
    <3>1. Sent("PeerDisconnected")' = {Len(events) + 1} /\ Sent("PeerConnected")' = Sent("PeerConnected")
      BY <2>2, SentAppend DEF EventInv
    <3>2. \E j \in Sent("PeerConnected") : j < Len(events) + 1
      BY <2>2, SentAppend DEF EventInv
    <3> QED BY <2>2, <3>1, <3>2, SentAppend DEF EventInv, IdleCallback
  <2>3. CASE callback.at = "body" /\ callback' = IdleCallback
             /\ UNCHANGED <<connectEmitted, disconnectEmitted, events>>
    BY <2>3 DEF EventInv, Sent, IdleCallback
  <2> QED BY <1>2, <2>1, <2>2, <2>3 DEF RunCallback, ReportsDisconnect
<1>3. CASE ReportConnected
  <2>1. events' = Append(events, "PeerConnected") /\ UNCHANGED <<connectEmitted, disconnectEmitted>>
    BY <1>3 DEF ReportConnected
  <2>2. /\ Sent("PeerConnected")' = Sent("PeerConnected") \cup {Len(events) + 1}
        /\ Sent("PeerDisconnected")' = Sent("PeerDisconnected")
    BY <2>1, SentAppend DEF EventInv
  <2>3. connectEmitted /\ callback' = IdleCallback
    BY <1>3 DEF EventInv, ReportConnected
  <2> QED BY <2>1, <2>2, <2>3, SentAppend DEF EventInv, IdleCallback
<1>4. CASE UNCHANGED callbackVars
  BY <1>4 DEF EventInv, Sent, callbackVars
<1> QED BY <1>1, <1>2, <1>3, <1>4
        DEF Next, Callbacks, Setup, ReceiveOffer, PostAnswer, ReceiveIce, AddCandidates, AwaitDataChannel,
            ConnectEgress, EndRelay, CancelSession, Close, OnOpen, ChangeState, Cancel, vars

\* At the start nothing has been sent.
LEMMA InitEventInv == Init => EventInv
<1> SUFFICES ASSUME Init PROVE EventInv
  OBVIOUS
<1>1. Sent("PeerConnected") = {} /\ Sent("PeerDisconnected") = {}
  BY SMT DEF Init, Sent
<1>2. events \in Seq({"PeerConnected", "PeerDisconnected"})
  BY SMT DEF Init
<1>3. connectEmitted = FALSE /\ disconnectEmitted = FALSE /\ callback.at = "idle"
  BY DEF Init, IdleCallback
<1> QED BY <1>1, <1>2, <1>3 DEF EventInv

\* A consumer is reported gone only after it was reported there, and once.
THEOREM EventsOrdered == Spec => []DisconnectFollowsConnect
<1>1. EventInv => DisconnectFollowsConnect
  <2> SUFFICES ASSUME EventInv PROVE DisconnectFollowsConnect
    OBVIOUS
  <2>1. Cardinality(Sent("PeerDisconnected")) <= 1
    <3>1. CASE Sent("PeerDisconnected") = {}
      BY <3>1, FS_EmptySet, SMT
    <3>2. CASE \E i \in DOMAIN events : Sent("PeerDisconnected") = {i}
      <4>1. PICK i \in DOMAIN events : Sent("PeerDisconnected") = {i}
        BY <3>2
      <4>2. Cardinality({i}) = 1
        BY FS_Singleton
      <4> QED BY <4>1, <4>2, SMT
    <3> QED BY <3>1, <3>2 DEF EventInv
  <2> QED BY <2>1 DEF EventInv, DisconnectFollowsConnect
<1> QED BY <1>1, InitEventInv, NextEventInv, PTL DEF Spec

(***************************************************************************)
(* The last callback.  close() queues the callback for Closed behind all    *)
(* others, so until it has run there is one more chance to report that a    *)
(* connected consumer is gone.                                              *)
(***************************************************************************)
CallbackStates == [at : {"idle", "body", "pair"}, state : States]

LastInv ==
  /\ pending \in Seq(States) /\ callback \in CallbackStates
  /\ connectEmitted => sessionId # NoId
  /\ conn = "none" => pending = <<>> /\ callback.at = "idle" /\ ~connectEmitted
  /\ pc = "done" /\ conn = "Closed" =>
       \/ pending # <<>> /\ pending[Len(pending)] = "Closed"
       \/ pending = <<>> /\ callback.at = "body" /\ callback.state = "Closed"
       \/ pending = <<>> /\ callback.at = "idle" /\ (connectEmitted => disconnectEmitted)

\* The queue of callbacks is worked off in order.
LEMMA NextLastInv == LastInv /\ CloseInv /\ EventInv /\ [Next]_vars => LastInv'
<1> SUFFICES ASSUME LastInv, CloseInv, EventInv, [Next]_vars PROVE LastInv'
  OBVIOUS
<1> USE DEF LastInv, CloseInv
<1>1. CASE StartCallback
  <2>1. pending # <<>> /\ pending' = Tail(pending) /\ Head(pending) \in States /\ pending' \in Seq(States)
    BY <1>1, SMT DEF StartCallback
  <2>2. /\ callback' = [at |-> "body", state |-> Head(pending)]
        /\ UNCHANGED <<pc, conn, sessionId, connectEmitted, disconnectEmitted>>
    BY <1>1 DEF StartCallback, sessionVars
  <2>3. callback' \in CallbackStates /\ callback'.at = "body" /\ callback'.state = Head(pending)
    BY <2>1, <2>2 DEF CallbackStates
  <2>4. ASSUME pc = "done", conn = "Closed"
        PROVE  \/ pending' # <<>> /\ pending'[Len(pending')] = "Closed"
               \/ pending' = <<>> /\ Head(pending) = "Closed"
    <3>1. pending[Len(pending)] = "Closed"
      BY <2>1, <2>4
    <3>2. /\ Len(pending) \in Nat /\ Len(pending) # 0 /\ Len(pending') = Len(pending) - 1
          /\ \A i \in 1..Len(pending') : pending'[i] = pending[i + 1]
      BY <2>1, HeadTailProperties, SMT
    <3>3. CASE Len(pending) = 1
      BY <2>1, <3>1, <3>2, <3>3, SMT
    <3>4. CASE Len(pending) # 1
      <4>1. Len(pending') \in 1..Len(pending') /\ Len(pending') + 1 = Len(pending)
        BY <3>2, <3>4, SMT
      <4>2. pending'[Len(pending')] = pending[Len(pending)]
        BY <3>2, <4>1
      <4>3. pending' # <<>>
        BY <4>1, SMT
      <4> QED BY <3>1, <4>2, <4>3
    <3> QED BY <3>3, <3>4
  <2> QED BY <2>1, <2>2, <2>3, <2>4
<1>2. CASE RunCallback
  <2>1. /\ UNCHANGED <<pc, conn, pending, sessionId>>
        /\ callback.at = "body" /\ callback' \in {[callback EXCEPT !.at = "pair"], IdleCallback}
    BY <1>2 DEF RunCallback, sessionVars, connVars
  <2>2. callback' \in CallbackStates
    BY <2>1, SMT DEF CallbackStates, IdleCallback, States
  <2>3. connectEmitted' => sessionId # NoId
    BY <1>2 DEF RunCallback
  <2>4. ASSUME callback.state = "Closed"
        PROVE  callback'.at = "idle" /\ (connectEmitted' => disconnectEmitted')
    BY <1>2, <2>1, <2>4, SMT
       DEF RunCallback, ReportsDisconnect, DisconnectState, Terminal, IdleCallback, EventInv
  <2> QED BY <2>1, <2>2, <2>3, <2>4
<1>3. CASE ReportConnected
  <2>1. callback.at = "pair" /\ callback' = IdleCallback
        /\ UNCHANGED <<pc, conn, pending, sessionId, connectEmitted, disconnectEmitted>>
    BY <1>3 DEF ReportConnected, sessionVars, connVars
  <2> QED BY <2>1 DEF CallbackStates, IdleCallback, States
<1>4. CASE ChangeState
  <2>1. conn \notin {"none", "Closed"} /\ conn' \in States \ {"New", "Closed"} /\ pending' = Append(pending, conn')
    BY <1>4 DEF ChangeState, Successors, States
  <2>2. UNCHANGED <<pc, sessionId, callback, connectEmitted, disconnectEmitted>>
    BY <1>4 DEF ChangeState, sessionVars, callbackVars
  <2>3. pending' \in Seq(States) /\ conn' \notin {"none", "Closed"}
    BY <2>1, SMT DEF States
  <2> QED BY <2>2, <2>3
<1>5. CASE Close
  <2>1. pending' = Append(pending, "Closed") /\ conn' = "Closed"
    BY <1>5 DEF Close, MustClose
  <2>2. UNCHANGED <<sessionId, callback, connectEmitted, disconnectEmitted>>
    BY <1>5 DEF Close, callbackVars
  <2>3. pending' \in Seq(States) /\ pending' # <<>> /\ pending'[Len(pending')] = "Closed"
    BY <2>1, SMT DEF States
  <2> QED BY <2>1, <2>2, <2>3
<1>6. CASE Setup
  BY <1>6 DEF Setup, callbackVars
<1>7. CASE ReceiveIce
  BY <1>7 DEF ReceiveIce, AcceptsId, Published, NoId, Return, Continue, connVars, callbackVars
<1>8. CASE ReceiveOffer \/ PostAnswer
  BY <1>8, SMT DEF ReceiveOffer, PostAnswer, Return, Continue, callbackVars
<1>9. CASE AddCandidates \/ AwaitDataChannel \/ ConnectEgress \/ EndRelay
  BY <1>9, SMT DEF AddCandidates, AwaitDataChannel, ConnectEgress, EndRelay, Return, Continue, connVars, callbackVars
<1>10. CASE CancelSession \/ Cancel
  BY <1>10, SMT DEF CancelSession, Cancel, Return, connVars, callbackVars
<1>11. CASE OnOpen
  BY <1>11 DEF OnOpen, sessionVars, callbackVars
<1>12. CASE UNCHANGED vars
  BY <1>12 DEF vars, sessionVars, connVars, callbackVars
<1> QED BY <1>1, <1>2, <1>3, <1>4, <1>5, <1>6, <1>7, <1>8, <1>9, <1>10, <1>11, <1>12 DEF Next, Callbacks

\* "Exactly one PeerDisconnected per connected session", whatever ends it and
\* whichever of the session and its callbacks is ahead.
THEOREM DisconnectOnce == Spec => []DisconnectReportedOnce
<1>1. Init => LastInv /\ CloseInv /\ EventInv
  <2>1. Init => LastInv
    BY SMT DEF Init, LastInv, IdleCallback, CallbackStates, States
  <2>2. Init => CloseInv
    BY DEF Init, CloseInv, NoConnectionLeftOpen
  <2> QED BY <2>1, <2>2, InitEventInv
<1>2. LastInv /\ CloseInv /\ EventInv => DisconnectReportedOnce
  <2> SUFFICES ASSUME LastInv, CloseInv, EventInv, Quiescent, Sent("PeerConnected") # {}
               PROVE  Cardinality(Sent("PeerDisconnected")) = 1
    BY DEF DisconnectReportedOnce
  <2>1. connectEmitted /\ conn \in {"none", "Closed"}
    BY DEF EventInv, CloseInv, NoConnectionLeftOpen, Quiescent
  <2>2. disconnectEmitted
    BY <2>1 DEF LastInv, Quiescent
  <2>3. PICK i \in DOMAIN events : Sent("PeerDisconnected") = {i}
    BY <2>2 DEF EventInv
  <2>4. Cardinality({i}) = 1
    BY FS_Singleton
  <2> QED BY <2>3, <2>4
<1> QED BY <1>1, <1>2, NextLastInv, NextCloseInv, NextEventInv, PTL DEF Spec

(***************************************************************************)
(* The contract.  What the supervisor sees of a session, step by step.      *)
(***************************************************************************)
CancelInv == result = "Cancelled" => cancelled

\* What has been reported, as the flags tell it.
ConsumerByFlags ==
  /\ events = <<>> => ReportedConsumer = "none"
  /\ events # <<>> /\ ~disconnectEmitted => ReportedConsumer = "connected"
  /\ disconnectEmitted =>
       /\ events # <<>>
       /\ ReportedConsumer = IF events[Len(events)] = "PeerDisconnected" THEN "gone" ELSE "back"

LEMMA ConsumerReported == EventInv => ConsumerByFlags
<1> SUFFICES ASSUME EventInv PROVE ConsumerByFlags
  OBVIOUS
<1> DEFINE gone == Cardinality(Sent("PeerDisconnected"))
<1>1. ~disconnectEmitted => gone = 0
  BY FS_EmptySet DEF EventInv
<1>2. ASSUME disconnectEmitted PROVE gone = 1 /\ events # <<>>
  <2>1. PICK i \in DOMAIN events : Sent("PeerDisconnected") = {i}
    BY <1>2 DEF EventInv
  <2>2. Cardinality({i}) = 1
    BY FS_Singleton
  <2>3. events # <<>>
    BY <2>1, SMT
  <2> QED BY <2>1, <2>2, <2>3
<1>3. disconnectEmitted \in BOOLEAN
  BY DEF EventInv
<1> HIDE DEF gone
<1>4. ReportedConsumer = CASE events = <<>> -> "none"
                          [] events # <<>> /\ gone = 0 -> "connected"
                          [] gone = 1 /\ events[Len(events)] = "PeerDisconnected" -> "gone"
                          [] gone = 1 /\ events[Len(events)] # "PeerDisconnected" -> "back"
                          [] OTHER -> "gone twice"
  BY DEF ReportedConsumer, gone
<1>5. ASSUME events = <<>> PROVE ReportedConsumer = "none"
  <2>1. ~disconnectEmitted
    BY <1>2, <1>5
  <2>2. gone = 0
    BY <1>1, <2>1
  <2> QED BY <1>4, <1>5, <2>2, SMT
<1>6. ASSUME events # <<>>, ~disconnectEmitted PROVE ReportedConsumer = "connected"
  BY <1>1, <1>4, <1>6, SMT
<1>7. ASSUME disconnectEmitted
      PROVE  ReportedConsumer = IF events[Len(events)] = "PeerDisconnected" THEN "gone" ELSE "back"
  <2>1. CASE events[Len(events)] = "PeerDisconnected"
    BY <1>2, <1>4, <1>7, <2>1, SMT
  <2>2. CASE events[Len(events)] # "PeerDisconnected"
    BY <1>2, <1>4, <1>7, <2>2, SMT
  <2> QED BY <2>1, <2>2
<1> QED BY <1>2, <1>5, <1>6, <1>7 DEF ConsumerByFlags

\* The same after a step.
LEMMA ConsumerReportedNext == EventInv' => ConsumerByFlags'
BY ConsumerReported, PTL

\* A step that changes neither where the session is nor what it has sent or
\* been told is not seen.
LEMMA Unseen ==
  ASSUME UNCHANGED <<result, cancelled, events>>, pc' = pc \/ (pc # "done" /\ pc' # "done")
  PROVE  UNCHANGED Promise!contractVars
<1>1. ReportedOutcome' = ReportedOutcome
  BY DEF ReportedOutcome
<1>2. ReportedConsumer' = ReportedConsumer
  BY DEF ReportedConsumer, Sent
<1> QED BY <1>1, <1>2 DEF Promise!contractVars

\* The session returns an error from its setup, or the result of its future
\* once the connection is closed.
LEMMA SessionReturnStep ==
  ASSUME CancelInv, pc # "done", pc' = "done", UNCHANGED <<cancelled, events>>,
         result' = result \/ result' = "WebRtc"
  PROVE  Promise!Returns
<1>1. ReportedOutcome = "none"
  BY DEF ReportedOutcome
<1>2. ReportedOutcome' \in {"Ok", "Err"} \cup (IF cancelled THEN {"Cancelled"} ELSE {})
  <2>1. CASE result' = "Ok"
    BY <2>1 DEF ReportedOutcome
  <2>2. CASE result' = "Cancelled"
    <3>1. cancelled /\ ReportedOutcome' = "Cancelled"
      BY <2>2 DEF ReportedOutcome, CancelInv
    <3> QED BY <3>1
  <2>3. CASE result' \notin {"Ok", "Cancelled"}
    BY <2>3 DEF ReportedOutcome
  <2> QED BY <2>1, <2>2, <2>3
<1>3. ReportedConsumer' = ReportedConsumer
  BY DEF ReportedConsumer, Sent
<1> QED BY <1>1, <1>2, <1>3 DEF Promise!Returns

\* A step of the session outside its return, and of its callbacks outside
\* their reports, is not seen.
LEMMA QuietStep ==
  ASSUME UNCHANGED <<cancelled, events>>, pc # "done", pc' # "done"
  PROVE  UNCHANGED Promise!contractVars
<1>1. ReportedOutcome' = ReportedOutcome
  BY DEF ReportedOutcome
<1>2. ReportedConsumer' = ReportedConsumer
  BY DEF ReportedConsumer, Sent
<1> QED BY <1>1, <1>2 DEF Promise!contractVars

\* A report of the callback, after its await: the consumer is there, or back.
LEMMA ConnectReport ==
  ASSUME EventInv, EventInv', ReportConnected
  PROVE  Promise!Connects
<1>1. /\ UNCHANGED <<pc, result, cancelled, disconnectEmitted>> /\ events' = Append(events, "PeerConnected")
      /\ events \in Seq({"PeerConnected", "PeerDisconnected"}) /\ disconnectEmitted \in BOOLEAN
  BY DEF ReportConnected, sessionVars, EventInv
<1>2. ReportedOutcome' = ReportedOutcome
  BY <1>1 DEF ReportedOutcome
<1>3. events' # <<>> /\ events'[Len(events')] = "PeerConnected"
  BY <1>1, SMT
<1>4. /\ ~disconnectEmitted => ReportedConsumer' = "connected"
      /\ disconnectEmitted => ReportedConsumer' = "back"
  <2>1. /\ events' # <<>> /\ ~disconnectEmitted' => ReportedConsumer' = "connected"
        /\ disconnectEmitted' =>
             ReportedConsumer' = IF events'[Len(events')] = "PeerDisconnected" THEN "gone" ELSE "back"
    BY ConsumerReportedNext DEF ConsumerByFlags
  <2> QED BY <1>1, <1>3, <2>1
<1>5. /\ ~disconnectEmitted => ReportedConsumer \in {"none", "connected"}
      /\ disconnectEmitted => ReportedConsumer \in {"gone", "back"}
  BY ConsumerReported DEF ConsumerByFlags
<1>6. ReportedConsumer' = CASE ReportedConsumer = "none" -> "connected"
                            [] ReportedConsumer = "gone" -> "back"
                            [] OTHER -> ReportedConsumer
  BY <1>1, <1>4, <1>5
<1> QED BY <1>1, <1>2, <1>6 DEF Promise!Connects

\* The guard of the second arm lets one disconnect through, after the connect
\* that it answers has been sent.
LEMMA DisconnectReport ==
  ASSUME EventInv, EventInv', callback.at = "body", connectEmitted, ~disconnectEmitted,
         disconnectEmitted' = TRUE, events' = Append(events, "PeerDisconnected"),
         UNCHANGED <<pc, result, cancelled>>
  PROVE  Promise!Disconnects
<1>1. ReportedOutcome' = ReportedOutcome
  BY DEF ReportedOutcome
<1>2. ReportedConsumer = "connected"
  <2>1. Sent("PeerConnected") # {}
    BY DEF EventInv
  <2>2. events # <<>>
    BY <2>1, SMT DEF Sent
  <2> QED BY <2>2, ConsumerReported DEF ConsumerByFlags
<1>3. ReportedConsumer' = "gone"
  <2>1. events'[Len(events')] = "PeerDisconnected"
    BY SMT DEF EventInv
  <2> QED BY <2>1, ConsumerReportedNext DEF ConsumerByFlags
<1> QED BY <1>1, <1>2, <1>3 DEF Promise!Disconnects

\* The session's future is dropped with the result Cancelled only by the
\* select's other branch, which has seen the token cancelled.
LEMMA NextCancelInv == CancelInv /\ [Next]_vars => CancelInv'
<1> SUFFICES ASSUME CancelInv, [Next]_vars PROVE CancelInv'
  OBVIOUS
<1> USE DEF CancelInv
<1>1. CASE Setup
  BY <1>1 DEF Setup
<1>2. CASE ReceiveOffer
  BY <1>2 DEF ReceiveOffer, Return, Continue
<1>3. CASE PostAnswer
  BY <1>3 DEF PostAnswer, Return, Continue
<1>4. CASE ReceiveIce
  BY <1>4 DEF ReceiveIce, Return, Continue
<1>5. CASE AddCandidates
  BY <1>5 DEF AddCandidates, Return, Continue
<1>6. CASE AwaitDataChannel
  BY <1>6 DEF AwaitDataChannel, Return, Continue
<1>7. CASE ConnectEgress
  BY <1>7 DEF ConnectEgress, Return, Continue
<1>8. CASE EndRelay
  BY <1>8 DEF EndRelay, Return
<1>9. CASE CancelSession
  BY <1>9 DEF CancelSession
<1>10. CASE Close
  BY <1>10 DEF Close
<1>11. CASE Callbacks \/ OnOpen \/ ChangeState
  BY <1>11 DEF Callbacks, StartCallback, RunCallback, ReportConnected, OnOpen, ChangeState, sessionVars
<1>12. CASE Cancel
  BY <1>12 DEF Cancel
<1>13. CASE UNCHANGED vars
  BY <1>13 DEF vars, sessionVars
<1> QED BY <1>1, <1>2, <1>3, <1>4, <1>5, <1>6, <1>7, <1>8, <1>9, <1>10, <1>11, <1>12, <1>13 DEF Next

\* Every step of a session is a step of its contract, or is not seen.
LEMMA ContractStep ==
  ASSUME EventInv, EventInv', CancelInv, [Next]_vars
  PROVE  [Promise!ContractNext]_(Promise!contractVars)
<1>1. CASE Setup
  <2>1. CASE pc' = "done" /\ result' = "WebRtc"
    <3>1. Promise!Returns
      BY <1>1, <2>1, SessionReturnStep DEF Setup, callbackVars
    <3> QED BY <3>1 DEF Promise!ContractNext
  <2>2. CASE pc' = "offer"
    BY <1>1, <2>2, QuietStep DEF Setup, callbackVars
  <2> QED BY <1>1, <2>1, <2>2 DEF Setup
<1>2. CASE ReceiveOffer
  BY <1>2, QuietStep DEF ReceiveOffer, Return, Continue, callbackVars
<1>3. CASE PostAnswer
  BY <1>3, QuietStep DEF PostAnswer, Return, Continue, callbackVars
<1>4. CASE ReceiveIce
  BY <1>4, QuietStep DEF ReceiveIce, Return, Continue, callbackVars
<1>5. CASE AddCandidates
  BY <1>5, QuietStep DEF AddCandidates, Return, Continue, callbackVars
<1>6. CASE AwaitDataChannel
  BY <1>6, QuietStep DEF AwaitDataChannel, Return, Continue, callbackVars
<1>7. CASE ConnectEgress
  BY <1>7, QuietStep DEF ConnectEgress, Return, Continue, callbackVars
<1>8. CASE EndRelay
  BY <1>8, QuietStep DEF EndRelay, Return, callbackVars
<1>9. CASE CancelSession
  BY <1>9, QuietStep DEF CancelSession, Cancellable, Working, Return, callbackVars
<1>10. CASE Close
  <2>1. Promise!Returns
    BY <1>10, SessionReturnStep DEF Close, callbackVars
  <2> QED BY <2>1 DEF Promise!ContractNext
<1>11. CASE StartCallback
  BY <1>11, Unseen DEF StartCallback, sessionVars
<1>12. CASE RunCallback
  <2>1. CASE UNCHANGED events
    BY <1>12, <2>1, Unseen DEF RunCallback, sessionVars
  <2>2. CASE /\ ReportsDisconnect(callback.state)
             /\ disconnectEmitted' = TRUE
             /\ events' = Append(events, "PeerDisconnected")
    <3>1. Promise!Disconnects
      BY <1>12, <2>2, DisconnectReport DEF RunCallback, ReportsDisconnect, sessionVars
    <3> QED BY <3>1 DEF Promise!ContractNext
  <2> QED BY <1>12, <2>1, <2>2 DEF RunCallback
<1>13. CASE ReportConnected
  BY <1>13, ConnectReport DEF Promise!ContractNext
<1>14. CASE OnOpen \/ ChangeState
  BY <1>14, Unseen DEF OnOpen, ChangeState, sessionVars, callbackVars
<1>15. CASE Cancel
  <2>1. UNCHANGED <<pc, result, events>> /\ pc # "done" /\ cancelled' = TRUE
    BY <1>15 DEF Cancel, callbackVars
  <2>2. ReportedOutcome = "none" /\ ReportedOutcome' = ReportedOutcome
    BY <2>1 DEF ReportedOutcome
  <2>3. ReportedConsumer' = ReportedConsumer
    BY <2>1 DEF ReportedConsumer, Sent
  <2>4. Promise!IsCancelled
    BY <2>1, <2>2, <2>3 DEF Promise!IsCancelled
  <2> QED BY <2>4 DEF Promise!ContractNext
<1>16. CASE UNCHANGED vars
  BY <1>16, Unseen DEF vars, sessionVars, callbackVars
<1> QED
  BY <1>1, <1>2, <1>3, <1>4, <1>5, <1>6, <1>7, <1>8, <1>9, <1>10, <1>11, <1>12, <1>13, <1>14, <1>15, <1>16
  DEF Next, Callbacks

\* The safety part of the contract that the supervisor relies on: a session
\* returns once, Cancelled only if it was; its consumer is reported there,
\* then gone, and never gone again, before and after the return.
THEOREM SessionKeepsContract == Spec => Promise!ContractSafety
<1>1. Init => Promise!ContractInit /\ CancelInv
  <2> SUFFICES ASSUME Init PROVE Promise!ContractInit /\ CancelInv
    OBVIOUS
  <2>1. ReportedOutcome = "none" /\ cancelled = FALSE /\ CancelInv
    BY DEF Init, ReportedOutcome, CancelInv
  <2>2. ReportedConsumer = "none"
    BY InitEventInv, ConsumerReported DEF ConsumerByFlags, Init
  <2> QED BY <2>1, <2>2 DEF Promise!ContractInit
<1>2. EventInv /\ EventInv' /\ CancelInv /\ [Next]_vars => [Promise!ContractNext]_(Promise!contractVars)
  BY ContractStep
<1> QED
  BY <1>1, <1>2, InitEventInv, NextEventInv, NextCancelInv, PTL DEF Spec, Promise!ContractSafety

(***************************************************************************)
(* The header that carries the session id to the egress.                    *)
(***************************************************************************)
Chars == {"u", "n", "v", "2", "a", "b", Separator, Blank}

\* Joining keeps the elements of both sides.
LEMMA Joined ==
  ASSUME NEW s \in Seq(Chars), NEW t \in Seq(Chars)
  PROVE  /\ s \o t \in Seq(Chars)
         /\ Len(s \o t) = Len(s) + Len(t)
         /\ \A i \in 1..Len(s) : (s \o t)[i] = s[i]
         /\ \A i \in 1..Len(t) : (s \o t)[Len(s) + i] = t[i]
BY SMT

\* Where the characters of the header stand, for a session id of n characters.
Layout(h, csid, n) ==
  /\ n \in Nat /\ h \in Seq(Chars) /\ Len(h) = n + 8
  /\ h[1] = "u" /\ h[2] = "n" /\ h[3] = Separator /\ h[4] = Blank
  /\ \A i \in 1..n : h[4 + i] = csid[i]
  /\ h[n + 5] = Separator /\ h[n + 6] = Blank /\ h[n + 7] = "v" /\ h[n + 8] = "2"

\* The header of every session id is laid out so.
LEMMA HeaderText ==
  ASSUME NEW csid \in Seq(Chars)
  PROVE  Layout(SubprotocolHeader(csid), csid, Len(csid))
<1> DEFINE h == SubprotocolHeader(csid)
           n == Len(csid)
           head == MagicCookie \o <<Separator, Blank>>
           sep == <<Separator, Blank>>
           front == head \o csid
           mid == front \o sep
<1>1. /\ head \in Seq(Chars) /\ Len(head) = 4
      /\ head[1] = "u" /\ head[2] = "n" /\ head[3] = Separator /\ head[4] = Blank
  BY SMT DEF MagicCookie, Chars
<1>2. sep \in Seq(Chars) /\ Len(sep) = 2 /\ sep[1] = Separator /\ sep[2] = Blank
  BY SMT DEF Chars
<1>3. /\ ProtocolVersion \in Seq(Chars) /\ Len(ProtocolVersion) = 2
      /\ ProtocolVersion[1] = "v" /\ ProtocolVersion[2] = "2"
  BY SMT DEF ProtocolVersion, Chars
<1>4. h = mid \o ProtocolVersion
  BY DEF SubprotocolHeader
<1>5. n \in Nat
  BY SMT
<1> HIDE DEF h
<1> HIDE DEF head
<1> HIDE DEF sep
<1>6. /\ front \in Seq(Chars) /\ Len(front) = n + 4
      /\ \A i \in 1..4 : front[i] = head[i]
      /\ \A i \in 1..n : front[4 + i] = csid[i]
  <2>1. /\ head \o csid \in Seq(Chars) /\ Len(head \o csid) = Len(head) + Len(csid)
        /\ \A i \in 1..Len(head) : (head \o csid)[i] = head[i]
        /\ \A i \in 1..Len(csid) : (head \o csid)[Len(head) + i] = csid[i]
    BY <1>1, Joined, Zenon
  <2> QED BY <1>1, <1>5, <2>1, SMT
<1> HIDE DEF n
<1> HIDE DEF front
<1>7. /\ mid \in Seq(Chars) /\ Len(mid) = n + 6
      /\ \A i \in 1 .. n + 4 : mid[i] = front[i]
      /\ mid[n + 5] = Separator /\ mid[n + 6] = Blank
  <2>1. /\ front \o sep \in Seq(Chars) /\ Len(front \o sep) = Len(front) + Len(sep)
        /\ \A i \in 1..Len(front) : (front \o sep)[i] = front[i]
        /\ \A i \in 1..Len(sep) : (front \o sep)[Len(front) + i] = sep[i]
    BY <1>2, <1>6, Joined, Zenon
  <2>2. 1 \in 1..Len(sep) /\ 2 \in 1..Len(sep)
    BY <1>2, SMT
  <2> QED BY <1>2, <1>5, <1>6, <2>1, <2>2, SMT
<1> HIDE DEF mid
<1>8. /\ h \in Seq(Chars) /\ Len(h) = n + 8
      /\ \A i \in 1 .. n + 6 : h[i] = mid[i]
      /\ h[n + 7] = "v" /\ h[n + 8] = "2"
  <2>1. /\ mid \o ProtocolVersion \in Seq(Chars) /\ Len(mid \o ProtocolVersion) = Len(mid) + Len(ProtocolVersion)
        /\ \A i \in 1..Len(mid) : (mid \o ProtocolVersion)[i] = mid[i]
        /\ \A i \in 1..Len(ProtocolVersion) : (mid \o ProtocolVersion)[Len(mid) + i] = ProtocolVersion[i]
    BY <1>3, <1>7, Joined, Zenon
  <2>2. 1 \in 1..Len(ProtocolVersion) /\ 2 \in 1..Len(ProtocolVersion)
    BY <1>3, SMT
  <2> QED BY <1>3, <1>4, <1>5, <1>7, <2>1, <2>2, SMT
<1>9. \A i \in 1..4 : h[i] = head[i]
  BY <1>5, <1>6, <1>7, <1>8, SMT
<1>10. \A i \in 1..n : h[4 + i] = csid[i]
  BY <1>5, <1>6, <1>7, <1>8, SMT
<1>11. h[n + 5] = Separator /\ h[n + 6] = Blank
  BY <1>5, <1>7, <1>8, SMT
<1>12. Layout(h, csid, n)
  BY <1>1, <1>5, <1>8, <1>9, <1>10, <1>11, SMT DEF Layout
<1> QED BY <1>12 DEF h, n

\* S has four elements, and one, two and three of them stand before b, c and d.
Placed(S, b, c, d) ==
  /\ Cardinality(S) = 4
  /\ \A i \in S : Cardinality({j \in S : j < i}) = 1 <=> i = b
  /\ \A i \in S : Cardinality({j \in S : j < i}) = 2 <=> i = c
  /\ \A i \in S : Cardinality({j \in S : j < i}) = 3 <=> i = d

\* Four places in order, and how many of them stand before each.
LEMMA FourPlaces ==
  ASSUME NEW a \in Nat, NEW b \in Nat, NEW c \in Nat, NEW d \in Nat, a < b, b < c, c < d
  PROVE  Placed({a, b, c, d}, b, c, d)
<1> DEFINE S == {a, b, c, d}
<1>1. IsFiniteSet({a}) /\ Cardinality({a}) = 1
  BY FS_Singleton
<1>2. IsFiniteSet({a} \cup {b}) /\ Cardinality({a} \cup {b}) = 2
  BY <1>1, FS_AddElement, SMT
<1>3. IsFiniteSet({a} \cup {b} \cup {c}) /\ Cardinality({a} \cup {b} \cup {c}) = 3
  <2>1. c \notin {a} \cup {b}
    BY SMT
  <2> QED BY <1>2, <2>1, FS_AddElement, SMT
<1>4. Cardinality({a} \cup {b} \cup {c} \cup {d}) = 4
  BY <1>3, FS_AddElement, SMT
<1>5. S = {a} \cup {b} \cup {c} \cup {d}
  OBVIOUS
<1>6. /\ {j \in S : j < a} = {}
      /\ {j \in S : j < b} = {a}
      /\ {j \in S : j < c} = {a} \cup {b}
      /\ {j \in S : j < d} = {a} \cup {b} \cup {c}
  BY SMT
<1>7. Cardinality({}) = 0
  BY FS_EmptySet
<1> HIDE DEF S
<1>8. S = {a, b, c, d}
  BY DEF S
<1>9. Placed(S, b, c, d)
  BY <1>1, <1>2, <1>3, <1>4, <1>5, <1>6, <1>7, <1>8, SMT DEF Placed
<1> QED BY <1>9 DEF S

\* A value behind one blank.
LEMMA TrimBlank ==
  ASSUME NEW text \in Seq(Chars), NEW m \in Nat, m >= 2, Len(text) = m,
         text[1] = Blank, \A i \in 2..m : text[i] # Blank
  PROVE  Trim(text) = SubSeq(text, 2, m)
<1> DEFINE visible == {i \in DOMAIN text : text[i] # Blank}
<1>1. visible = 2..m
  BY SMT
<1>2. Min(2..m) = 2
  BY SMT DEF Min
<1>3. Max(2..m) = m
  BY SMT DEF Max
<1>4. 2..m # {}
  <2>1. 2 \in 2..m
    BY SMT
  <2> QED BY <2>1, Zenon
<1>5. Trim(text) = IF visible = {} THEN <<>> ELSE SubSeq(text, Min(visible), Max(visible))
  BY DEF Trim
<1> HIDE DEF visible
<1> QED BY <1>1, <1>2, <1>3, <1>4, <1>5

\* A token has no separator in it, so the header has the two that join it.
LEMMA HeaderEnds ==
  ASSUME NEW csid \in Seq(Chars), IsSubprotocolToken(csid),
         NEW n, NEW h, Layout(h, csid, n), n = Len(csid)
  PROVE  /\ Cardinality(Ends(h)) = 4
         /\ End(h, 1) = 3 /\ End(h, 2) = n + 5 /\ End(h, 3) = n + 9
<1>1. /\ n \in Nat /\ h \in Seq(Chars) /\ Len(h) = n + 8
      /\ h[1] = "u" /\ h[2] = "n" /\ h[3] = Separator /\ h[4] = Blank
      /\ \A i \in 1..n : h[4 + i] = csid[i]
      /\ h[n + 5] = Separator /\ h[n + 6] = Blank /\ h[n + 7] = "v" /\ h[n + 8] = "2"
  BY DEF Layout
<1>2. \A i \in 1..n : csid[i] # Separator
  BY SMT DEF IsSubprotocolToken
<1>3. ASSUME NEW i \in 1 .. n + 8 PROVE h[i] = Separator <=> i \in {3, n + 5}
  <2>1. CASE i \in 5 .. n + 4
    <3>1. i - 4 \in 1..n /\ i = 4 + (i - 4)
      BY <1>1, <2>1, SMT
    <3>2. PICK k \in 1..n : i = 4 + k
      BY <3>1
    <3>3. h[i] = csid[k]
      BY <1>1, <3>2
    <3>4. h[i] # Separator
      BY <1>2, <3>3
    <3> QED BY <1>1, <2>1, <3>4, SMT
  <2>2. CASE i \notin 5 .. n + 4
    <3>1. i \in {1, 2, 3, 4, n + 5, n + 6, n + 7, n + 8}
      BY <1>1, <1>3, <2>2, SMT
    <3>2. Separator \notin {"u", "n", "v", "2", Blank}
      BY DEF Separator, Blank
    <3> QED BY <1>1, <3>1, <3>2, SMT
  <2> QED BY <2>1, <2>2
<1>4. DOMAIN h = 1 .. n + 8
  BY <1>1, SMT
<1>5. {i \in DOMAIN h : h[i] = Separator} = {3, n + 5}
  <2>1. 3 \in 1 .. n + 8 /\ n + 5 \in 1 .. n + 8
    BY <1>1, SMT
  <2> QED BY <1>3, <1>4, <2>1
<1> DEFINE S == Ends(h)
           a == 0
           b == 3
           c == n + 5
           d == n + 9
<1>6. S = {a, b, c, d}
  <2>1. Len(h) + 1 = n + 9
    BY <1>1, SMT
  <2> QED BY <1>5, <2>1 DEF Ends
<1>7. a \in Nat /\ b \in Nat /\ c \in Nat /\ d \in Nat /\ a < b /\ b < c /\ c < d
  BY <1>1, SMT
<1>8. /\ End(h, 1) = CHOOSE i \in S : Cardinality({j \in S : j < i}) = 1
      /\ End(h, 2) = CHOOSE i \in S : Cardinality({j \in S : j < i}) = 2
      /\ End(h, 3) = CHOOSE i \in S : Cardinality({j \in S : j < i}) = 3
  BY DEF End
<1> HIDE DEF S
<1> HIDE DEF a, b, c, d
<1>9. /\ Cardinality(S) = 4
      /\ \A i \in S : Cardinality({j \in S : j < i}) = 1 <=> i = b
      /\ \A i \in S : Cardinality({j \in S : j < i}) = 2 <=> i = c
      /\ \A i \in S : Cardinality({j \in S : j < i}) = 3 <=> i = d
  <2>1. Placed({a, b, c, d}, b, c, d)
    BY <1>7, FourPlaces, Zenon
  <2> QED BY <1>6, <2>1, Zenon DEF Placed
<1>10. End(h, 1) = b /\ End(h, 2) = c /\ End(h, 3) = d
  <2>1. b \in S /\ c \in S /\ d \in S
    BY <1>6
  <2>2. End(h, 1) = b
    BY <1>8, <1>9, <2>1
  <2>3. End(h, 2) = c
    BY <1>8, <1>9, <2>1
  <2>4. End(h, 3) = d
    BY <1>8, <1>9, <2>1
  <2> QED BY <2>2, <2>3, <2>4
<1> QED BY <1>9, <1>10 DEF S, b, c, d

\* The egress finds the session id and the version in the header.
LEMMA HeaderParsed ==
  ASSUME NEW csid \in Seq(Chars), IsSubprotocolToken(csid)
  PROVE  ParseEgressSubprotocols(HeaderValues(SubprotocolHeader(csid))) = <<csid, ProtocolVersion>>
<1> DEFINE h == SubprotocolHeader(csid)
           n == Len(csid)
           values == HeaderValues(h)
           second == SubSeq(h, 4, n + 4)
           third == SubSeq(h, n + 6, n + 8)
<1>0. Layout(h, csid, n)
  BY HeaderText
<1>1. /\ n \in Nat /\ h \in Seq(Chars) /\ Len(h) = n + 8
      /\ h[4] = Blank /\ \A i \in 1..n : h[4 + i] = csid[i]
      /\ h[n + 6] = Blank /\ h[n + 7] = "v" /\ h[n + 8] = "2"
  BY <1>0 DEF Layout
<1>2. /\ Cardinality(Ends(h)) = 4
      /\ End(h, 1) = 3 /\ End(h, 2) = n + 5 /\ End(h, 3) = n + 9
  BY <1>0, HeaderEnds
<1>3. n >= 1 /\ \A i \in 1..n : csid[i] # Blank
  BY SMT DEF IsSubprotocolToken
<1>4. values = [k \in 1 .. Cardinality(Ends(h)) - 1 |->
                  Trim(SubSeq(h, End(h, k - 1) + 1, End(h, k) - 1))]
  BY DEF HeaderValues
<1> HIDE DEF h, n, values
<1>5. values = [k \in 1..3 |-> Trim(SubSeq(h, End(h, k - 1) + 1, End(h, k) - 1))]
  BY <1>2, <1>4, SMT
<1>6. Len(values) = 3
  BY <1>5, SMT
<1>7. values[2] = Trim(second) /\ values[3] = Trim(third)
  <2>1. End(h, 1) + 1 = 4 /\ End(h, 2) - 1 = n + 4 /\ End(h, 2) + 1 = n + 6 /\ End(h, 3) - 1 = n + 8
    BY <1>1, <1>2, SMT
  <2>2. /\ values[2] = Trim(SubSeq(h, End(h, 1) + 1, End(h, 2) - 1))
        /\ values[3] = Trim(SubSeq(h, End(h, 2) + 1, End(h, 3) - 1))
    BY <1>5, SMT
  <2> QED BY <2>1, <2>2
<1>8. second \in Seq(Chars) /\ Len(second) = n + 1 /\ \A i \in 1 .. n + 1 : second[i] = h[3 + i]
  BY <1>1, SMT
<1>9. third \in Seq(Chars) /\ Len(third) = 3 /\ \A i \in 1..3 : third[i] = h[n + 5 + i]
  BY <1>1, SMT
<1> HIDE DEF second, third
<1>10. Trim(second) = csid
  <2>1. second[1] = Blank
    BY <1>1, <1>8, SMT
  <2>2. \A i \in 2 .. n + 1 : second[i] = csid[i - 1]
    BY <1>1, <1>8, SMT
  <2>3. \A i \in 2 .. n + 1 : second[i] # Blank
    BY <1>1, <1>3, <2>2, SMT
  <2> DEFINE m == n + 1
             rest == SubSeq(second, 2, m)
  <2>4. m \in Nat /\ m >= 2 /\ Len(second) = m
    BY <1>1, <1>3, <1>8, SMT
  <2>5. Trim(second) = rest
    <3> HIDE DEF m
    <3> QED BY <1>8, <2>1, <2>3, <2>4, TrimBlank DEF m
  <2>6. rest \in Seq(Chars) /\ Len(rest) = n /\ \A i \in 1..n : rest[i] = csid[i]
    BY <1>1, <1>8, <2>2, SMT
  <2> HIDE DEF rest
  <2>7. rest = csid
    BY <2>6, SeqEqual DEF n
  <2> QED BY <2>5, <2>7
<1>11. Trim(third) = ProtocolVersion
  <2>1. third[1] = Blank /\ third[2] = "v" /\ third[3] = "2"
    BY <1>1, <1>9, SMT
  <2>2. \A i \in 2..3 : third[i] # Blank
    BY <2>1, SMT DEF Blank
  <2> DEFINE m == 3
             rest == SubSeq(third, 2, m)
  <2>3. m \in Nat /\ m >= 2 /\ Len(third) = m /\ \A i \in 2..m : third[i] # Blank
    BY <1>9, <2>2, SMT
  <2>4. Trim(third) = rest
    <3> HIDE DEF m
    <3> QED BY <1>9, <2>1, <2>3, TrimBlank
  <2>5. rest \in Seq(Chars) /\ Len(rest) = 2 /\ rest[1] = "v" /\ rest[2] = "2"
    <3>1. rest \in Seq(Chars) /\ Len(rest) = 2 /\ \A i \in 1..2 : rest[i] = third[1 + i]
      <4>1. m = 3
        OBVIOUS
      <4> HIDE DEF m
      <4>2. rest \in Seq(Chars) /\ Len(rest) = m - 1 /\ \A i \in 1 .. m - 1 : rest[i] = third[1 + i]
        <5>1. third \in Seq(Chars) /\ m \in Nat /\ m >= 2 /\ Len(third) = m
          BY <1>9, <2>3
        <5> QED BY <5>1, SMT
      <4> QED BY <4>1, <4>2, SMT
    <3> HIDE DEF rest
    <3>2. rest[1] = third[2] /\ rest[2] = third[3]
      BY <3>1, SMT
    <3> QED BY <2>1, <3>1, <3>2
  <2>6. /\ ProtocolVersion \in Seq(Chars) /\ Len(ProtocolVersion) = 2
        /\ ProtocolVersion[1] = "v" /\ ProtocolVersion[2] = "2"
    BY SMT DEF ProtocolVersion, Chars
  <2> HIDE DEF rest
  <2>7. \A i \in 1..2 : rest[i] = ProtocolVersion[i]
    BY <2>5, <2>6, SMT
  <2>8. rest = ProtocolVersion
    BY <2>5, <2>6, <2>7, SeqEqual
  <2> QED BY <2>4, <2>8
<1>12. ParseEgressSubprotocols(values) = <<csid, ProtocolVersion>>
  BY <1>6, <1>7, <1>10, <1>11 DEF ParseEgressSubprotocols
<1> QED BY <1>12 DEF values, h

\* Only a token is published.
TokenInv == sessionId # NoId => sessionId \in Seq(Chars) /\ IsSubprotocolToken(sessionId)

LEMMA NextTokenInv == TokenInv /\ [Next]_vars => TokenInv'
<1> SUFFICES ASSUME TokenInv, [Next]_vars PROVE TokenInv'
  OBVIOUS
<1>1. CASE UNCHANGED sessionId
  BY <1>1 DEF TokenInv
<1>2. CASE ReceiveIce
  <2>1. UNCHANGED sessionId \/ \E id \in SessionIds : AcceptsId(id) /\ sessionId' = id
    BY <1>2 DEF ReceiveIce, Published
  <2> SUFFICES ASSUME NEW id \in SessionIds, AcceptsId(id), sessionId' = id
               PROVE  TokenInv'
    BY <1>1, <2>1
  <2>2. id \in Seq(Chars)
    <3>1. id \in Seq({"a", "b", Separator, Blank}) /\ {"a", "b", Separator, Blank} \subseteq Chars
      BY PeerSessionAssumption DEF Chars
    <3> QED BY <3>1, SeqMonotonic
  <2> QED BY <2>2 DEF TokenInv, AcceptsId
<1> QED
  BY <1>1, <1>2
     DEF Next, Callbacks, Setup, ReceiveOffer, PostAnswer, AddCandidates, AwaitDataChannel, ConnectEgress,
         EndRelay, CancelSession, Close, StartCallback, RunCallback, ReportConnected, OnOpen,
         ChangeState, Cancel, vars

\* Whatever session id a consumer sends, the egress that its session relays to
\* reads the id that was published for it, and the version.
THEOREM EgressCorrect == Spec => []EgressKnowsConsumer
<1>1. Init => PeerInv /\ TokenInv
  BY DEF Init, PeerInv, RelayHasPeer, TokenInv
<1>2. PeerInv /\ TokenInv => EgressKnowsConsumer
  BY HeaderParsed DEF PeerInv, RelayHasPeer, TokenInv, EgressKnowsConsumer
<1> QED BY <1>1, <1>2, NextPeerInv, NextTokenInv, PTL DEF Spec
=============================================================================
