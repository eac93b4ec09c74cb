------------------------------- MODULE MCNode -------------------------------
(* Instances of Node for TLC.                                                *)
EXTENDS Node, TLC

CONSTANTS alice, bob

T(from, to, n, value, gas, price) ==
  [From |-> from, To |-> to, Nonce |-> n, Value |-> value, Gas |-> gas, GasPrice |-> price]

\* Transfers to another and to oneself, an answer paid from what was received,
\* and a dearer one whose cost overflows.
Transfers == { T(alice, bob, 1, 3, 2, 1), T(alice, alice, 2, 3, 2, 1),
               T(bob, alice, 1, 1, 2, 1), T(bob, alice, 1, 15, 2, 2) }

\* A sender whose first transaction is refused, and its second.
Resubmitted == { T(alice, bob, 1, 1, 1, 1), T(alice, bob, 2, 1, 2, 1) }

SomeAccounts == alice :> [Amount |-> 9, Nonce |-> 0] @@ bob :> NoAccount
=============================================================================
