---------------------------- MODULE MCVirtualUdp ----------------------------
(* Small instance of VirtualUdp: two addresses, three paths (so that one    *)
(* address is reused), two threads of Quinn, one length at the MTU and one  *)
(* above it, channels that are full after one datagram.                     *)
EXTENDS VirtualUdp, TLC

CONSTANTS s1, s2

MCSenders == {s1, s2}
MCSymmetry == Permutations(MCSenders)
=============================================================================
