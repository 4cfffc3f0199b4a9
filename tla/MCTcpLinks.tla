------------------------------ MODULE MCTcpLinks ------------------------------
(* Three connections over two addresses, two bufferevents and two          *)
(* descriptors: each of them can be reused, together or not.               *)
EXTENDS TcpLinks, TLC

CONSTANTS a1, a2, b1, b2, f1, f2

MCAddrs == {a1, a2}
MCBevs == {b1, b2}
MCFds == {f1, f2}
Symmetry == Permutations(MCAddrs) \cup Permutations(MCBevs) \cup Permutations(MCFds)
=============================================================================
