-------------------------- MODULE MCPoolCredentials --------------------------
(* Values of the constants of PoolCredentials for TLC.  The uploads carry    *)
(* different numbers of rows, so that a lost or doubled one shows in a sum.  *)
EXTENDS PoolCredentials, TLC

CONSTANTS n1, n2, i1, i2, v1, v2

MCRows == [r \in Uploads |-> CASE r = n1 -> 1 [] r = n2 -> 2 [] r = i1 -> 3 [] r = i2 -> 5]

\* One record, and two records.
MCPayloads == {p \in {<<Initial>>, <<i1, Initial>>} :
                  \A k \in DOMAIN p : p[k] \in RecordIds}
=============================================================================
