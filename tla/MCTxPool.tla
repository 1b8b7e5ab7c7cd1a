------------------------------ MODULE MCTxPool ------------------------------
(* TxPool on two accounts, with a transfer of an account to itself. *)
EXTENDS TxPool, MCTxs, TLC

SelfTxs == Txs \cup {Bid("a", "a", 1, 1, 0, 0)}
=============================================================================
