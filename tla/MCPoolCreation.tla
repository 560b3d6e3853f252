--------------------------- MODULE MCPoolCreation ----------------------------
(* Values of the constants of PoolCreation for TLC: one pool, of either kind,*)
(* and an upload of its schema.                                              *)
EXTENDS PoolCreation

CONSTANTS c1, u1

MCPool == [u \in Uploads |-> c1]
MCEvents == Creations \cup Uploads
=============================================================================
