------------------------------- MODULE MCGrants -------------------------------
(* Values of the constants of Grants for TLC: two calls of each kind for one *)
(* analyst, and a granting for another, who competes for the DRTs.           *)
EXTENDS Grants

CONSTANTS a1, a2, g1, g2, g3, v1, v2, q1

MCFor == [r \in Requests |-> IF r = g3 THEN a2 ELSE a1]
=============================================================================
