------------------------------ MODULE MCWallets ------------------------------
(* Values of the constants of Wallets for TLC: one user with two wallets and *)
(* a second user with one.                                                   *)
EXTENDS Wallets, TLC

CONSTANTS u1, u2, c1, c2, c3, d1, d2, a1, a2

MCBy == [r \in Creates \cup Deletes |-> IF r = c3 THEN u2 ELSE u1]

\* c1 and c2 are calls of the same user and differ in nothing.
MCSymmetry == Permutations({c1, c2})
=============================================================================
