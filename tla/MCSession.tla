----------------------------- MODULE MCSession -----------------------------
(* Three links, two users and a device: enough for two sessions of an      *)
(* account to come and go while a third interferes, and for a link that    *)
(* logs in again as somebody else.                                         *)
EXTENDS Session, TLC

CONSTANTS l1, l2, l3, u1, u2, d1

MCLinks == {l1, l2, l3}
MCUsers == {u1, u2}
MCDevices == {d1}
Symmetry == Permutations(MCLinks) \cup Permutations(MCUsers)

(* Bound: what happens once every account has been shared is not followed. *)
SomeAccountUnshared == ~(Accounts \subseteq shared)
=============================================================================
