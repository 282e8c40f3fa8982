-------------------------- MODULE MCAdvertisements --------------------------
(***************************************************************************)
(* Bodies of up to three lines: two Genesis messages, another message,      *)
(* something that is not JSON, and lines with nothing in them; the last     *)
(* line with and without its line break.                                    *)
(***************************************************************************)
EXTENDS Advertisements

MCGeneses == {"genesis1", "genesis2"}
MCEnvelopes == MCGeneses \cup {"offer"}

Texts == {<<"brace", "sp", "genesis1">>, <<"brace", "genesis2">>, <<"brace", "offer">>, <<"brace">>, <<"sp">>, <<>>}

MCBodies ==
  {<<>>} \cup Texts
    \cup {a \o <<"nl">> \o b : a, b \in Texts}
    \cup {a \o <<"nl">> \o b \o <<"nl">> \o c : a, b, c \in Texts}
=============================================================================
