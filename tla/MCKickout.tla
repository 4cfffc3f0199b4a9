----------------------------- MODULE MCKickout -----------------------------
(* Two links, a user and a device, what it takes for two terminals of a user *)
(* to race.                                                                *)
EXTENDS Session

CONSTANTS l1, l2, u1, d1

MCLinks == {l1, l2}
MCUsers == {u1}
MCDevices == {d1}
=============================================================================
