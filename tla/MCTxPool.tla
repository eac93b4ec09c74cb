------------------------------ MODULE MCTxPool ------------------------------
(* An instance of TxPool for TLC: a sender with every combination of a nonce *)
(* and a gas price, and another one whose transactions have one price.       *)
EXTENDS TxPool

CONSTANTS a1, a2, Nonces, Prices, OtherNonces

SomeTx == [From : {a1}, Nonce : Nonces, GasPrice : Prices]
            \cup [From : {a2}, Nonce : OtherNonces, GasPrice : {1}]
=============================================================================
