------------------------------ MODULE MCTimers ------------------------------
(* Two timers of one or two seconds, and two clients that unregister at    *)
(* once.                                                                   *)
EXTENDS Timers

CONSTANTS t1, t2, c1, c2

MCTimers == {t1, t2}
MCClients == {c1, c2}
MCIntervals == {1, 2}
=============================================================================
