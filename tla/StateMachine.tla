---------------------------- MODULE StateMachine ----------------------------
(***************************************************************************)
(* Accounts and the execution of one transaction: statdb/stat.go over the  *)
(* key-value store, and StateMachine.Execute of statemachine/machine.go.   *)
(*                                                                         *)
(* The state database is a function from addresses to accounts, NoAccount  *)
(* where Load returns nil.  Execute writes it twice, sender first, and     *)
(* loads the receiver between the two writes; Debit and Credit are its two *)
(* halves, so that what holds between the writes can be stated too.        *)
(* Amounts and costs are uint64 and wrap.                                  *)
(***************************************************************************)
EXTENDS Integers

CONSTANTS
  Address,      \* the accounts
  Tx,           \* transactions: records with From, To, Nonce, Value, Gas, GasPrice
  NoAccount,    \* nil
  IntrinsicGas, \* gas a transfer uses (21000 in the code)
  Word          \* 2^64

Account == [Amount : 0..(Word - 1), Nonce : Nat]

ASSUME ExecutionAssumption ==
  /\ Word \in Nat \ {0} /\ IntrinsicGas \in Nat
  /\ NoAccount \notin Account
  /\ \A tx \in Tx : /\ tx.From \in Address /\ tx.To \in Address /\ tx.Nonce \in Nat
                    /\ tx.Value \in 0..(Word - 1) /\ tx.Gas \in Nat /\ tx.GasPrice \in Nat

\* The account Execute or NewTx goes on with when Load returned nil.
Loaded(accounts, a) ==
  IF accounts[a] = NoAccount THEN [Amount |-> 0, Nonce |-> 0] ELSE accounts[a]

Store(accounts, a, account) == [accounts EXCEPT ![a] = account]

GasCost(tx) == (IntrinsicGas * tx.GasPrice) % Word

Cost(tx) == (tx.Value + GasCost(tx)) % Word

\* Mutant: the balance is not looked at.
RefusesGasOnly(accounts, tx) == tx.Gas < IntrinsicGas \/ accounts[tx.From] = NoAccount

\* Execute returns status 0 and writes nothing.
Refuses(accounts, tx) ==
  \/ tx.Gas < IntrinsicGas
  \/ accounts[tx.From] = NoAccount
  \/ Loaded(accounts, tx.From).Amount < Cost(tx)

\* The first write: the sender pays and its nonce goes up, whatever tx.Nonce is.
Debit(accounts, tx) ==
  Store(accounts, tx.From, [Amount |-> accounts[tx.From].Amount - Cost(tx),
                            Nonce  |-> accounts[tx.From].Nonce + 1])

\* Mutants: a new receiver is not stored, and the receiver is loaded before the
\* first write.
CreditKnownOnly(accounts, tx) ==
  IF accounts[tx.To] = NoAccount THEN accounts
  ELSE Store(accounts, tx.To, [accounts[tx.To] EXCEPT !.Amount = (@ + tx.Value) % Word])

CreditStale(accounts, tx) ==
  LET to == Loaded(accounts, tx.To)
  IN  Store(accounts, tx.To,
            IF tx.To = tx.From
              THEN [Amount |-> (to.Amount + Cost(tx) + tx.Value) % Word, Nonce |-> to.Nonce - 1]
              ELSE [to EXCEPT !.Amount = (@ + tx.Value) % Word])

\* The second write, of an account loaded after the first.
Credit(accounts, tx) ==
  LET to == Loaded(accounts, tx.To)
  IN  Store(accounts, tx.To, [to EXCEPT !.Amount = (@ + tx.Value) % Word])
=============================================================================
