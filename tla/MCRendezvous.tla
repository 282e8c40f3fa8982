---------------------------- MODULE MCRendezvous ----------------------------
(* Instances of Rendezvous for TLC.                                        *)
EXTENDS Rendezvous

CONSTANTS k1, k2, p1, p2

\* One consumer tries twice.
MCAttempts == [k \in Consumers |-> IF k = k1 THEN 2 ELSE 1]
=============================================================================
