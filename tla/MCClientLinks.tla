--------------------------- MODULE MCClientLinks ---------------------------
(* Two connections to two servers, or to one.                              *)
EXTENDS ClientLinks

CONSTANTS a1, a2

MCClients == 1..2
MCAddrs == {a1, a2}
=============================================================================
