---------------------------- MODULE MCMessaging ----------------------------
(* A device, two users, a telephone and three links: a user can move from  *)
(* one link to another, or take the telephone over, while the device's     *)
(* link serves a list.                                                     *)
EXTENDS Messaging, TLC

CONSTANTS l1, l2, l3, u1, u2, d1, t1

MCLinks == {l1, l2, l3}
MCUsers == {u1, u2}
MCDevices == {d1}
MCTokens == {t1}
MCFlags == {0, 1, 2, 7}

(* Bound: a message is followed while no telephone is known, which it does *)
(* not look at, and a push while nobody but the sender is logged in.       *)
WhatMatters ==
  /\ pc # "idle" /\ kind # "push" => tokenOf = [t \in Tokens |-> NoUuid]
  /\ kind = "push" => m_mapDevice = Links /\ \A k \in Links \ {self} : mUser[k] = NoUuid /\ mDevice[k] = NoUuid

Symmetry == Permutations(MCLinks) \cup Permutations(MCUsers)
=============================================================================
