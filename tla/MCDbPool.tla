----------------------------- MODULE MCDbPool ------------------------------
(* Two threads with up to two connections each and one registered device,  *)
(* with one address more than the pool should ever need.                   *)
EXTENDS DbPool, TLC

CONSTANTS t1, t2

MCThreads == {t1, t2}
Symmetry == Permutations(MCThreads)
=============================================================================
