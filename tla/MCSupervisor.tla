---------------------------- MODULE MCSupervisor ----------------------------
(* Instances of Supervisor for TLC.                                        *)
EXTENDS Supervisor

CONSTANT k1

MCOneSlot == {k1}
MCPercents == {80, 120}
MCRelayTimes == {0, 5}
MCShort == {0}
MCHundred == {100}
=============================================================================
