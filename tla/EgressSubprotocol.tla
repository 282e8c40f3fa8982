------------------------- MODULE EgressSubprotocol -------------------------
(***************************************************************************)
(* How a session id reaches the egress: as one of three values of the       *)
(* Sec-WebSocket-Protocol header.  Texts are sequences of characters; what   *)
(* the checks tell apart are the separator, the blank and the others.       *)
(***************************************************************************)
EXTENDS Naturals, Sequences, FiniteSetsExt

Separator == "comma"
Blank == "blank"

\* SUBPROTOCOL_MAGIC_COOKIE and PROTOCOL_VERSION
MagicCookie == <<"u", "n">>
ProtocolVersion == <<"v", "2">>

\* Mutant of IsSubprotocolToken: the separator counts as a visible character.
IsVisibleText(value) == value # <<>> /\ \A i \in DOMAIN value : value[i] # Blank

\* is_subprotocol_token
IsSubprotocolToken(value) ==
  /\ value # <<>>
  /\ \A i \in DOMAIN value : value[i] \notin {Blank, Separator}

\* egress_subprotocols(csid, version).join(", ")
SubprotocolHeader(csid) ==
  MagicCookie \o <<Separator, Blank>> \o csid \o <<Separator, Blank>> \o ProtocolVersion

\* External: how a server takes the header apart, at the separators and without
\* the blanks around a value.
Ends(header) == {0, Len(header) + 1} \cup {i \in DOMAIN header : header[i] = Separator}
End(header, k) == CHOOSE i \in Ends(header) : Cardinality({j \in Ends(header) : j < i}) = k

Trim(text) ==
  LET visible == {i \in DOMAIN text : text[i] # Blank} IN
  IF visible = {} THEN <<>> ELSE SubSeq(text, Min(visible), Max(visible))

HeaderValues(header) ==
  [k \in 1 .. Cardinality(Ends(header)) - 1 |->
     Trim(SubSeq(header, End(header, k - 1) + 1, End(header, k) - 1))]

\* parse_egress_subprotocols, <<>> for None
ParseEgressSubprotocols(values) ==
  IF Len(values) # 3 THEN <<>> ELSE <<values[2], values[3]>>
=============================================================================
