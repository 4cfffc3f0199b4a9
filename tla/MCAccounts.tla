----------------------------- MODULE MCAccounts -----------------------------
(* Two workers, two users with two passwords, a device and a token.        *)
EXTENDS Accounts, TLC

CONSTANTS w1, w2, u1, u2, p1, p2, d1, t1

MCWorkers == {w1, w2}
MCUsers == {u1, u2}
MCPasswords == {p1, p2}
MCDevices == {d1}
MCTokens == {t1}
Symmetry ==
  Permutations(MCWorkers) \cup Permutations(MCUsers) \cup Permutations(MCPasswords)
=============================================================================
