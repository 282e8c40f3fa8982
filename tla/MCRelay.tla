------------------------------ MODULE MCRelay ------------------------------
(* Three numbered packets each way through queues of two: a queue fills     *)
(* while a packet is in hand, and flows on.                                *)
EXTENDS Relay
=============================================================================
