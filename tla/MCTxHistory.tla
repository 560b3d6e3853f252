----------------------------- MODULE MCTxHistory ------------------------------
(* Values of the constants of TxHistory for TLC: two wallets, a transfer     *)
(* from the first to the second, a deposit from outside to the second; the   *)
(* second lists its history and asks for a status.                           *)
EXTENDS TxHistory

CONSTANTS w1, w2, s1, d1, l1, q1

MCFrom == [t \in Txs |-> IF t \in Sends THEN w1 ELSE Outside]
MCTo == [t \in Txs |-> w2]
MCFor == [r \in Readers |-> w2]
=============================================================================
