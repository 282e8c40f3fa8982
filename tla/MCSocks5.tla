------------------------------ MODULE MCSocks5 ------------------------------
(***************************************************************************)
(* Two connections and one call: calls share nothing that they write, so a  *)
(* second one adds no behaviour to the first.                               *)
(***************************************************************************)
EXTENDS Socks5

MCTargets ==
  {[kind |-> "v4", length |-> 4], [kind |-> "v6", length |-> 16]}
    \cup {[kind |-> "domain", length |-> n] : n \in {0, 1, 255, 256}}

Granted(type, length) ==
  [version |-> 5, method |-> 0, status |-> 0, reserved |-> 0, type |-> type, length |-> length]

MCReplies ==
  {Granted(1, 4), Granted(4, 16), Granted(3, 0), Granted(3, 2), Granted(2, 0),
   [Granted(1, 4) EXCEPT !.version = 4], [Granted(1, 4) EXCEPT !.method = 255],
   [Granted(1, 4) EXCEPT !.status = 1], [Granted(1, 4) EXCEPT !.reserved = 1]}

MCApp == <<9, 9>>
=============================================================================
