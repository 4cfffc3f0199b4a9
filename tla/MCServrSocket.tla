--------------------------- MODULE MCServrSocket ---------------------------
(* Two connections that may have one bufferevent address and one           *)
(* descriptor one after the other, two workers, and the program's limit of *)
(* missed heartbeats.                                                      *)
EXTENDS ServrSocket

CONSTANTS l1, l2, b1, b2

MCLinks == {l1, l2}
MCBevs == {b1, b2}
=============================================================================
