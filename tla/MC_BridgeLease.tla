--------------------------- MODULE MC_BridgeLease ---------------------------
(* Servers a1 and a2 share a port, b has its own. Only a1 has two commands  *)
(* under way at once and callers for both containers.                       *)
EXTENDS BridgeLease

CONSTANTS a1, a2, b, c1, c2

MCPort == [i \in Instances |-> IF i = b THEN 3006 ELSE 3002]
MCMaxReplies == [i \in Instances |-> IF i = a1 THEN 2 ELSE 1]
MCClients == {<<a1, c1>>, <<a1, c2>>, <<b, c1>>}

(* Redis fails the server of the other port, and a1 may stop or crash.      *)
MCFaults == {<<"redis", b>>, <<"exit", a1>>}
==============================================================================
