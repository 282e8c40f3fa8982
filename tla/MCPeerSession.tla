--------------------------- MODULE MCPeerSession ---------------------------
(* Instances of PeerSession for TLC.                                       *)
EXTENDS PeerSession

\* Two ids that are tokens, and one for each way not to be one.
MCSessionIds == {<<>>, <<"a">>, <<"a", "b">>, <<"a", Separator, "b">>, <<Blank, "a">>}
=============================================================================
