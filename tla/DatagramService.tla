--------------------------- MODULE DatagramService ---------------------------
(***************************************************************************)
(* What the virtual UDP socket promises to Quinn and to the paths, without *)
(* routes, locks, capacities or the order in which things are torn down:   *)
(* an unreliable datagram service.  Datagrams may be lost at any moment,   *)
(* but each one is handed on at most once, in order, only to a path at its *)
(* destination, and tagged with the address of the path it came in by.     *)
(***************************************************************************)
EXTENDS Naturals, Sequences

CONSTANTS Addrs, Paths, Senders, Lengths, NoAddr

VARIABLES
  at,        \* at[p]: the address path p serves, NoAddr when it is gone
  inbox,     \* datagrams on their way to Quinn
  outbox,    \* outbox[p]: datagrams on their way to path p's peer
  pending    \* pending[s]: the set of datagrams thread s is sending (at most one)

serviceVars == <<at, inbox, outbox, pending>>

ServiceInit ==
  /\ at = [p \in Paths |-> NoAddr]
  /\ inbox = <<>>
  /\ outbox = [p \in Paths |-> <<>>]
  /\ pending = [s \in Senders |-> {}]

Open(p, a) ==
  /\ at[p] = NoAddr
  /\ at' = [at EXCEPT ![p] = a]
  /\ UNCHANGED <<inbox, outbox, pending>>

Close(p) ==
  /\ at' = [at EXCEPT ![p] = NoAddr]
  /\ outbox' = [outbox EXCEPT ![p] = <<>>]
  /\ UNCHANGED <<inbox, pending>>

\* A datagram comes in by a path (or is lost: a stuttering step).
Arrive(p, n) ==
  /\ at[p] # NoAddr
  /\ inbox' = Append(inbox, [remote |-> at[p], len |-> n])
  /\ UNCHANGED <<at, outbox, pending>>

\* Quinn takes the oldest datagram.
Take ==
  /\ inbox # <<>>
  /\ inbox' = Tail(inbox)
  /\ UNCHANGED <<at, outbox, pending>>

\* Quinn hands a datagram to the service, which settles it exactly once:
\* with one path that serves the destination, or as a loss.
Submit(s, a, n) ==
  /\ pending[s] = {}
  /\ pending' = [pending EXCEPT ![s] = {[dest |-> a, len |-> n]}]
  /\ UNCHANGED <<at, inbox, outbox>>

Settle(s) ==
  \E d \in pending[s] :
    /\ pending' = [pending EXCEPT ![s] = {}]
    /\ \/ UNCHANGED outbox
       \/ \E p \in Paths : /\ at[p] = d.dest
                           /\ outbox' = [outbox EXCEPT ![p] = Append(@, d)]
    /\ UNCHANGED <<at, inbox>>

\* A path takes the oldest datagram meant for its peer.
Deliver(p) ==
  /\ outbox[p] # <<>>
  /\ outbox' = [outbox EXCEPT ![p] = Tail(@)]
  /\ UNCHANGED <<at, inbox, pending>>

\* The endpoint shuts down: what it has not read is lost.
Shutdown ==
  /\ inbox' = <<>>
  /\ UNCHANGED <<at, outbox, pending>>

ServiceNext ==
  \/ \E p \in Paths, a \in Addrs : Open(p, a)
  \/ \E p \in Paths : Close(p) \/ Deliver(p)
  \/ \E p \in Paths, n \in Lengths : Arrive(p, n)
  \/ \E s \in Senders, a \in Addrs, n \in Lengths : Submit(s, a, n)
  \/ \E s \in Senders : Settle(s)
  \/ Take
  \/ Shutdown

ServiceSpec == ServiceInit /\ [][ServiceNext]_serviceVars
=============================================================================
