------------------------------- MODULE Socks5 -------------------------------
(***************************************************************************)
(* ConsumerQuicDialer::connect_socks5: a stream from open_bi, then the      *)
(* SOCKS5 handshake (socks5_connect) on it, under the same token.           *)
(*                                                                         *)
(* External: the egress at the other end.  It answers the greeting with a   *)
(* method and the request with a reply, in chunks of any size, sends its    *)
(* application's bytes right behind them, and may end the stream anywhere.  *)
(***************************************************************************)
EXTENDS QuicBroker, Sequences

CONSTANTS Targets,  \* records: the kind of the address and its length
          Replies,  \* what the egress may answer: its bytes' values
          App       \* the application bytes it sends behind the reply

Bytes == 0..255

ASSUME Socks5Assumption ==
  /\ Targets \subseteq {[kind |-> "v4", length |-> 4], [kind |-> "v6", length |-> 16]}
                         \cup [kind : {"domain"}, length : Nat]
  /\ Replies \subseteq [version : Bytes, method : Bytes, status : Bytes, reserved : Bytes,
                         type : Bytes, length : Bytes]
  /\ \A r \in Replies : (r.type = 1 => r.length = 4) /\ (r.type = 4 => r.length = 16)
  /\ App \in Seq(Bytes)

VARIABLE hs         \* per call: the handshake

vars == <<quicVars, hs>>

NewHandshake ==
  [at |-> "greet", target |-> None, reply |-> None,
   got |-> 0, read |-> 0, need |-> 2, fin |-> FALSE]

Socks5Init == QuicInit /\ hs = [d \in Dials |-> NewHandshake]

-----------------------------------------------------------------------------
(* The bytes.                                                              *)

Zeros(n) == [i \in 1..n |-> 0]

\* Mutant of Refusal: only an empty name is refused.
RefusalIfEmpty(t) ==
  IF t.kind = "domain" /\ t.length = 0 THEN "EmptyDomain" ELSE "none"

\* host.is_empty() and u8::try_from(host.len())
Refusal(t) ==
  CASE t.kind = "domain" /\ t.length = 0  -> "EmptyDomain"
    [] t.kind = "domain" /\ t.length > 255 -> "DomainTooLong"
    [] OTHER -> "none"

\* The CONNECT request: version, command, reserved, address, port.
Request(t) ==
  <<5, 1, 0>>
    \o (CASE t.kind = "v4" -> <<1>>
          [] t.kind = "v6" -> <<4>>
          [] OTHER         -> <<3, t.length % 256>>)
    \o Zeros(t.length) \o Zeros(2)

\* External: the method, then the reply with its bound address and port.
Answer(r) ==
  <<r.version, r.method>> \o <<r.version, r.status, r.reserved, r.type>>
    \o (IF r.type = 3 THEN <<r.length>> ELSE <<>>) \o Zeros(r.length) \o Zeros(2)

Stream(h) == Answer(h.reply) \o App

\* The bytes that a read_exact in progress is waiting for.
Buffer(h) == SubSeq(Stream(h), h.read + 1, h.read + h.need)

\* The checks of the method, in the code's order.
MethodError(b) ==
  IF b[1] # 5 THEN "InvalidVersion"
  ELSE IF b[2] # 0 THEN "UnsupportedAuth" ELSE "none"

\* The checks of the reply's first four bytes, in the code's order.
ReplyError(b) ==
  IF b[1] # 5 THEN "InvalidVersion"
  ELSE IF b[2] # 0 THEN "ConnectRejected"
  ELSE IF b[3] # 0 THEN "InvalidReserved"
  ELSE IF b[4] \notin {1, 3, 4} THEN "InvalidAddressType" ELSE "none"

-----------------------------------------------------------------------------
(* The handshake of call d.                                                *)

Shakes(d, to) ==
  /\ hs' = [hs EXCEPT ![d] = to]
  /\ UNCHANGED quicVars

\* The call returns an error and drops the stream.
Fails(d, error) == Shakes(d, [NewHandshake EXCEPT !.at = error])

Alive(d) == conn[dial[d].copy] = "open"

\* The stream is open, the call has not ended, and its token is not cancelled.
Runs(d, at) ==
  /\ dial[d].at = "opened"
  /\ ~dial[d].cancelled
  /\ hs[d].at = at

\* write_all of the greeting; the egress may have stopped the stream.
Greet(d) ==
  /\ Runs(d, "greet")
  /\ \/ Alive(d) /\ \E r \in Replies : Shakes(d, [hs[d] EXCEPT !.at = "method", !.reply = r])
     \/ Fails(d, "Io")

\* read_exact: it takes its bytes when they have all come.  The request, once
\* written, is forgotten with the first bytes of its answer.
Complete(d) == hs[d].got >= hs[d].read + hs[d].need
ReadExact(d, at, need) ==
  Shakes(d, [hs[d] EXCEPT !.at = at, !.read = @ + hs[d].need, !.need = need, !.target = None])

ReadMethod(d) ==
  /\ Runs(d, "method") /\ Complete(d)
  /\ LET error == MethodError(Buffer(hs[d])) IN
     IF error # "none" THEN Fails(d, error) ELSE ReadExact(d, "request", hs[d].need)

SendRequest(d) ==
  /\ Runs(d, "request")
  /\ \/ \E t \in Targets :
          LET error == Refusal(t) IN
          \/ error # "none" /\ Fails(d, error)
          \/ /\ error = "none" /\ Alive(d)
             /\ Shakes(d, [hs[d] EXCEPT !.at = "reply", !.target = t, !.need = 4])
     \/ Fails(d, "Io")

\* Mutant of BoundLength: the port is forgotten behind a domain name.
BoundLengthShort(type, length) == IF type = 3 THEN length ELSE length + 2

\* address_length + 2
BoundLength(type, length) == length + 2

ReadReply(d) ==
  /\ Runs(d, "reply") /\ Complete(d)
  /\ LET b == Buffer(hs[d]) error == ReplyError(b) IN
     \/ error # "none" /\ Fails(d, error)
     \/ error = "none" /\ b[4] = 1 /\ ReadExact(d, "bound", BoundLength(1, 4))
     \/ error = "none" /\ b[4] = 4 /\ ReadExact(d, "bound", BoundLength(4, 16))
     \/ error = "none" /\ b[4] = 3 /\ ReadExact(d, "length", 1)

ReadLength(d) ==
  /\ Runs(d, "length") /\ Complete(d)
  /\ ReadExact(d, "bound", BoundLength(3, Buffer(hs[d])[1]))

ReadBound(d) ==
  /\ Runs(d, "bound") /\ Complete(d)
  /\ ReadExact(d, "connected", 0)

\* A read_exact whose bytes will not come.
ReadFails(d) ==
  /\ \E at \in {"method", "reply", "length", "bound"} : Runs(d, at)
  /\ ~Complete(d)
  /\ hs[d].fin \/ ~Alive(d)
  /\ Fails(d, "Io")

Shaking == {"greet", "method", "request", "reply", "length", "bound"}

\* The select around the handshake, which looks at the token first.
CancelHandshake(d) ==
  /\ dial[d].at = "opened"
  /\ dial[d].cancelled
  /\ hs[d].at \in Shaking
  /\ Fails(d, "Cancelled")

\* External: bytes arrive, no further than the egress has been asked for.  A
\* chunk ends around the end of the read in progress, or it is all there is:
\* the other cuts cannot be told apart.
Arrive(d) ==
  /\ dial[d].at = "opened"
  /\ hs[d].at \in Shaking \ {"greet"}
  /\ Alive(d) /\ ~hs[d].fin
  /\ LET wanted == hs[d].read + hs[d].need
         asked == IF hs[d].at \in {"method", "request"} THEN 2 ELSE Len(Stream(hs[d])) IN
     \E n \in {wanted - 1, wanted, wanted + 1, asked} :
       n \in hs[d].got + 1 .. asked /\ Shakes(d, [hs[d] EXCEPT !.got = n])

\* External: the egress finishes its side of the stream.
Finish(d) ==
  /\ dial[d].at = "opened"
  /\ hs[d].at \in Shaking \ {"greet"}
  /\ Alive(d) /\ ~hs[d].fin
  /\ Shakes(d, [hs[d] EXCEPT !.fin = TRUE])

HandshakeStep(d) ==
  \/ Greet(d) \/ ReadMethod(d) \/ SendRequest(d) \/ ReadReply(d)
  \/ ReadLength(d) \/ ReadBound(d) \/ ReadFails(d) \/ CancelHandshake(d)

-----------------------------------------------------------------------------
\* Mutant of Surfaced: every error of open_bi is wrapped.
SurfacedWrapped(at) == "Quic"

\* The match on the result of open_bi.
Surfaced(at) == IF at = "Cancelled" THEN "Cancelled" ELSE "Quic"

\* What the call has returned; "none" while it runs.
Result(d) ==
  CASE dial[d].at \in {"Stream", "BrokerStopped", "Cancelled"} -> Surfaced(dial[d].at)
    [] dial[d].at = "opened" /\ hs[d].at \notin Shaking -> hs[d].at
    [] OTHER -> "none"

\* The caller cancels a call that has not returned, or one not yet made.
CancelDial(d) ==
  /\ Result(d) = "none"
  /\ ~dial[d].cancelled
  /\ Goes(d, [dial[d] EXCEPT !.cancelled = TRUE])

Next ==
  \/ (BrokerStep \/ QuicEnvironment) /\ UNCHANGED hs
  \/ \E d \in Dials :
       \/ (StartDial(d) \/ DialStep(d) \/ CancelDial(d)) /\ UNCHANGED hs
       \/ HandshakeStep(d) \/ Arrive(d) \/ Finish(d)

\* The tasks are polled; a QUIC handshake ends, by its idle timeout if need
\* be; the egress grants the streams it is asked for.  Nothing makes it answer
\* a SOCKS5 request, nor the connections come or go.
Spec ==
  /\ Socks5Init
  /\ [][Next]_vars
  /\ WF_vars(BrokerStep /\ UNCHANGED hs)
  /\ \A d \in Dials : WF_vars((DialStep(d) /\ UNCHANGED hs) \/ HandshakeStep(d))

-----------------------------------------------------------------------------
\* A cancellation surfaces as Cancelled whether it lands before the call,
\* while the stream opens, while the call waits for a connection or in the
\* handshake, and whatever else ends at the same time: never as a failure,
\* never as success ("must surface as the same Cancelled variant").  A poll that
\* has looked at the token is one step: a cancellation during it comes after it.
CancelSurfaces ==
  \A d \in Dials : dial[d].cancelled => Result(d) \in {"none", "Cancelled"}

\* A call that succeeds has read the whole answer, which has arrived, and hands
\* its stream back at the first application byte, whatever kind of bound
\* address the egress answered with and however its bytes were cut into chunks.
StreamReady ==
  \A d \in Dials :
    Result(d) = "connected" =>
      /\ hs[d].read <= hs[d].got
      /\ SubSeq(Stream(hs[d]), hs[d].read + 1, Len(Stream(hs[d]))) = App

\* The egress's way to find the end of a request.
RequestLength(bytes) ==
  CASE bytes[4] = 1 -> 4 + 4 + 2
    [] bytes[4] = 4 -> 4 + 16 + 2
    [] bytes[4] = 3 -> 5 + bytes[5] + 2

\* Every request that is written is framed: the egress that reads it finds
\* its end where the consumer put it, up to the longest name.
RequestFramed ==
  \A d \in Dials :
    hs[d].at = "reply" =>
      Len(Request(hs[d].target)) = RequestLength(Request(hs[d].target))

Busy(d) == dial[d].at # "idle" /\ Result(d) = "none"

\* Cancelling a call ends it wherever it waits.
CancelEndsDial == \A d \in Dials : Busy(d) /\ dial[d].cancelled ~> ~Busy(d)

\* A broker that returns lets go of every call: one that waits for a
\* connection learns that the broker stopped, one in its handshake that its
\* connection closed.
StopReleasesDials == \A d \in Dials : Busy(d) /\ broker = "returned" ~> ~Busy(d)
=============================================================================
