----------------------------- MODULE MCJwksCache -----------------------------
(* Values of the constants of JwksCache for TLC: a token of an administrator *)
(* of the first process, one without a role of the second, one that is not   *)
(* sound, one that is bound to no enclave.                                   *)
EXTENDS JwksCache

CONSTANTS c1, c2, k1, k2

Token(k, l, r, s) == [kid |-> k, life |-> l, role |-> r, sound |-> s]

MCTokens ==
    {Token(k1, 1, "admin", TRUE), Token(k2, 2, "none", TRUE),
     Token(k1, 1, "analyst", FALSE), Token(k2, 0, "user", TRUE)}
=============================================================================
