----------------------------- MODULE NodeProofs -----------------------------
(***************************************************************************)
(* Proofs about Node, for every set of accounts and transactions: it       *)
(* implements the pool's specification; every transaction in a block has   *)
(* raised its sender's nonce once, they are there in nonce order, and      *)
(* money is only spent on gas.                                             *)
(***************************************************************************)
EXTENDS Node, Numbers

\* The pool's lemmas, about the pool inside the node.
PoolP == INSTANCE TxPoolProofs WITH
           nonce      <- [a \in Address |-> Loaded(accounts, a).Nonce],
           inflight   <- IF pc = "crediting" THEN NoTx ELSE inflight,
           InitNonces <- {Loaded(InitAccounts, a).Nonce : a \in Address}

-----------------------------------------------------------------------------
(* Accounts and arithmetic.                                                *)

\* A loaded account has an amount and a nonce.
LEMMA LoadedType ==
  ASSUME NEW accts \in [Address -> Account \union {NoAccount}], NEW a \in Address
  PROVE  /\ Loaded(accts, a) \in Account
         /\ Loaded(accts, a).Amount \in 0..(Word - 1) /\ Loaded(accts, a).Nonce \in Nat
<1>1. Word \in Nat \ {0}
  BY ExecutionAssumption
<1>2. [Amount |-> 0, Nonce |-> 0] \in Account
  BY <1>1 DEF Account
<1>3. Loaded(accts, a) \in Account
  BY <1>2 DEF Loaded
<1> QED
  BY <1>3 DEF Account

\* Reduction modulo Word.
LEMMA ModWord ==
  ASSUME NEW x \in Nat
  PROVE  x % Word \in 0..(Word - 1) /\ (x < Word => x % Word = x)
<1>1. Word \in Nat \ {0}
  BY ExecutionAssumption
<1> QED
  BY <1>1

\* What a transaction costs.
LEMMA CostType ==
  ASSUME NEW tx \in Tx
  PROVE  /\ IntrinsicGas * tx.GasPrice \in Nat /\ tx.Value \in Nat
         /\ Cost(tx) \in 0..(Word - 1)
         /\ Fits(tx) => Cost(tx) = tx.Value + IntrinsicGas * tx.GasPrice
<1> DEFINE gas == IntrinsicGas * tx.GasPrice
<1>1. Word \in Nat \ {0} /\ IntrinsicGas \in Nat /\ tx.GasPrice \in Nat /\ tx.Value \in 0..(Word - 1)
  BY ExecutionAssumption
<1>2. gas \in Nat /\ tx.Value \in Nat
  BY <1>1
<1>3. GasCost(tx) = gas % Word
  BY DEF GasCost
<1>4. Fits(tx) <=> tx.Value + gas < Word
  BY DEF Fits
<1> HIDE DEF gas
<1>5. GasCost(tx) \in 0..(Word - 1) /\ (gas < Word => GasCost(tx) = gas)
  BY <1>2, <1>3, ModWord
<1>6. GasCost(tx) \in Nat /\ tx.Value + GasCost(tx) \in Nat
  BY <1>1, <1>2, <1>5
<1>7. /\ Cost(tx) \in 0..(Word - 1)
      /\ tx.Value + GasCost(tx) < Word => Cost(tx) = tx.Value + GasCost(tx)
  BY <1>6, ModWord DEF Cost
<1>8. Fits(tx) => gas < Word
  BY <1>1, <1>2, <1>4
<1>9. Fits(tx) => Cost(tx) = tx.Value + gas
  BY <1>4, <1>5, <1>7, <1>8
<1> QED
  BY <1>2, <1>7, <1>9 DEF gas

\* Execute's first write: the sender's account, and nothing else.
LEMMA DebitFacts ==
  ASSUME NEW accts \in [Address -> Account \union {NoAccount}], NEW tx \in Tx, ~Refuses(accts, tx)
  PROVE  /\ Debit(accts, tx) \in [Address -> Account \union {NoAccount}]
         /\ Loaded(Debit(accts, tx), tx.From).Nonce = Loaded(accts, tx.From).Nonce + 1
         /\ Loaded(Debit(accts, tx), tx.From).Amount = Loaded(accts, tx.From).Amount - Cost(tx)
         /\ \A a \in Address \ {tx.From} : Loaded(Debit(accts, tx), a) = Loaded(accts, a)
<1> DEFINE a == tx.From
           new == [Amount |-> accts[a].Amount - Cost(tx), Nonce |-> accts[a].Nonce + 1]
<1>1. a \in Address /\ Word \in Nat \ {0} /\ NoAccount \notin Account
  BY ExecutionAssumption
<1>2. accts[a] # NoAccount /\ Loaded(accts, a) = accts[a] /\ ~(Loaded(accts, a).Amount < Cost(tx))
  BY DEF Refuses, Loaded
<1>3. accts[a].Amount \in 0..(Word - 1) /\ accts[a].Nonce \in Nat /\ Cost(tx) \in 0..(Word - 1)
  BY <1>1, <1>2, LoadedType, CostType
<1>4. new \in Account
  <2>1. accts[a].Amount - Cost(tx) \in 0..(Word - 1)
    BY <1>1, <1>2, <1>3
  <2> QED
    BY <1>3, <2>1 DEF Account
<1>5. Debit(accts, tx) = [accts EXCEPT ![a] = new]
  BY DEF Debit, Store
<1>6. new.Amount = accts[a].Amount - Cost(tx) /\ new.Nonce = accts[a].Nonce + 1
  OBVIOUS
<1> HIDE DEF new
<1>7. Loaded(Debit(accts, tx), a) = new
  BY <1>1, <1>4, <1>5 DEF Loaded
<1>8. \A b \in Address \ {a} : Loaded(Debit(accts, tx), b) = Loaded(accts, b)
  BY <1>5 DEF Loaded
<1> QED
  BY <1>1, <1>2, <1>4, <1>5, <1>6, <1>7, <1>8

\* Execute's second write: the receiver's amount, and nobody's nonce.
LEMMA CreditFacts ==
  ASSUME NEW accts \in [Address -> Account \union {NoAccount}], NEW tx \in Tx
  PROVE  /\ Credit(accts, tx) \in [Address -> Account \union {NoAccount}]
         /\ \A a \in Address : Loaded(Credit(accts, tx), a).Nonce = Loaded(accts, a).Nonce
         /\ Loaded(Credit(accts, tx), tx.To).Amount = (Loaded(accts, tx.To).Amount + tx.Value) % Word
         /\ \A a \in Address \ {tx.To} : Loaded(Credit(accts, tx), a) = Loaded(accts, a)
<1> DEFINE a == tx.To
           to == Loaded(accts, a)
           new == [to EXCEPT !.Amount = (to.Amount + tx.Value) % Word]
<1>1. a \in Address /\ Word \in Nat \ {0} /\ NoAccount \notin Account /\ tx.Value \in 0..(Word - 1)
  BY ExecutionAssumption
<1>2. to \in Account /\ to.Amount \in 0..(Word - 1) /\ to.Nonce \in Nat
  BY <1>1, LoadedType
<1>3. (to.Amount + tx.Value) % Word \in 0..(Word - 1)
  BY <1>1, <1>2, ModWord
<1>4. Credit(accts, tx) = [accts EXCEPT ![a] = new]
  BY DEF Credit, Store
<1>5. new \in Account /\ new.Amount = (to.Amount + tx.Value) % Word /\ new.Nonce = to.Nonce
  BY <1>2, <1>3 DEF Account
<1> HIDE DEF new
<1>6. Loaded(Credit(accts, tx), a) = new
  BY <1>1, <1>4, <1>5 DEF Loaded
<1>7. \A b \in Address \ {a} : Loaded(Credit(accts, tx), b) = Loaded(accts, b)
  BY <1>4 DEF Loaded
<1> QED
  BY <1>1, <1>4, <1>5, <1>6, <1>7

-----------------------------------------------------------------------------
(* The pool inside the node: its assumptions, and that the two instances of *)
(* the pool say the same.                                                   *)

\* The pool's assumptions hold of the node's constants.
LEMMA PoolAssumptions ==
  /\ \A tx \in Tx : tx.From \in Address /\ tx.Nonce \in Nat /\ tx.GasPrice \in Nat
  /\ NoTx \notin Tx
  /\ NoAddr \notin Address
  /\ ExpireSec \in Nat /\ MaxClock \in Nat /\ MaxBoxes \in Nat
  /\ Word \in Nat /\ Word > ExpireSec + MaxClock
  /\ MinNonces \subseteq Nat /\ {Loaded(InitAccounts, a).Nonce : a \in Address} \subseteq Nat
<1>1. \A a \in Address : Loaded(InitAccounts, a).Nonce \in Nat
  BY NodeAssumption, LoadedType
<1> QED
  BY <1>1, ExecutionAssumption, NodeAssumption

\* The pool's invariant.
LEMMA SamePoolInv == Pool!PoolInv <=> PoolP!PoolInv
BY DEF Pool!PoolInv, Pool!PendingInv, Pool!TypeOK, Pool!BoxesExclusive, Pool!PendingFiled,
       Pool!SignedBy, Pool!PendingConsecutive, Pool!Consecutive, Pool!FirstNonce, Pool!LastNonce,
       Pool!AccountBehindPending, Pool!BoxesListed, Pool!QueueFiled, Pool!QueueOrdered,
       Pool!Increasing, Pool!NoReadyTxQueued, Pool!ReachedNonce, Pool!TopNonce, Pool!LastBox,
       Pool!PromotionAlone,
       PoolP!PoolInv, PoolP!PendingInv, PoolP!TypeOK, PoolP!BoxesExclusive, PoolP!PendingFiled,
       PoolP!SignedBy, PoolP!PendingConsecutive, PoolP!Consecutive, PoolP!FirstNonce,
       PoolP!LastNonce, PoolP!AccountBehindPending, PoolP!BoxesListed, PoolP!QueueFiled,
       PoolP!QueueOrdered, PoolP!Increasing, PoolP!NoReadyTxQueued, PoolP!ReachedNonce,
       PoolP!TopNonce, PoolP!LastBox, PoolP!PromotionAlone

\* Submitting a transaction.
LEMMA SameNewTx ==
  ASSUME NEW tx, Pool!NewTx(tx)
  PROVE  PoolP!NewTx(tx)
BY DEF Pool!NewTx, Pool!Idle, Pool!HasRoom, Pool!addQueue, Pool!TopNonce, Pool!LastBox,
       Pool!LastNonce, Pool!pushPendingTx, Pool!Push, Pool!makeNewBlock, Pool!Rearrangements,
       Pool!Injection, Pool!IsInjective, Pool!PriceSorted, Pool!GasPrice, Pool!NonceSorted,
       Pool!replacePendingTx, Pool!Accepts, Pool!FirstNonce, Pool!Replace,
       PoolP!NewTx, PoolP!Idle, PoolP!HasRoom, PoolP!addQueue, PoolP!TopNonce, PoolP!LastBox,
       PoolP!LastNonce, PoolP!pushPendingTx, PoolP!Push, PoolP!makeNewBlock,
       PoolP!Rearrangements, PoolP!Injection, PoolP!IsInjective, PoolP!PriceSorted,
       PoolP!GasPrice, PoolP!NonceSorted, PoolP!replacePendingTx, PoolP!Accepts,
       PoolP!FirstNonce, PoolP!Replace

\* Promoting the queue.
LEMMA SamePromotion ==
  ASSUME Pool!promoteQueueToPending
  PROVE  PoolP!promoteQueueToPending
BY DEF Pool!promoteQueueToPending, Pool!popFromQueue, Pool!TopNonce, Pool!LastBox,
       Pool!LastNonce, Pool!pushPendingTx, Pool!Push, Pool!makeNewBlock, Pool!Rearrangements,
       Pool!Injection, Pool!IsInjective, Pool!PriceSorted, Pool!GasPrice,
       PoolP!promoteQueueToPending, PoolP!popFromQueue, PoolP!TopNonce, PoolP!LastBox,
       PoolP!LastNonce, PoolP!pushPendingTx, PoolP!Push, PoolP!makeNewBlock,
       PoolP!Rearrangements, PoolP!Injection, PoolP!IsInjective, PoolP!PriceSorted,
       PoolP!GasPrice

\* Cleaning the queue.
LEMMA SameClean ==
  ASSUME NEW m, Pool!CleanExpiredTxs(m)
  PROVE  PoolP!CleanExpiredTxs(m)
BY DEF Pool!CleanExpiredTxs, Pool!Idle, Pool!Selections, Pool!Age, Pool!Cardinality,
       Pool!IsFiniteSet, PoolP!CleanExpiredTxs, PoolP!Idle, PoolP!Selections, PoolP!Age,
       PoolP!Cardinality, PoolP!IsFiniteSet

\* Every step of the one is a step of the other.
LEMMA SamePoolStep ==
  ASSUME [Pool!Next]_(Pool!vars)
  PROVE  [PoolP!Next]_(PoolP!vars)
<1>1. ASSUME UNCHANGED Pool!vars PROVE UNCHANGED PoolP!vars
  BY <1>1 DEF Pool!vars, PoolP!vars
<1>2. ASSUME NEW tx \in Tx, Pool!NewTx(tx) \/ Pool!NewTxStale(tx)
      PROVE  PoolP!NewTx(tx) \/ UNCHANGED PoolP!vars
  BY <1>1, <1>2, SameNewTx DEF Pool!NewTxStale
<1>3. ASSUME Pool!Pop PROVE PoolP!Pop
  BY <1>3 DEF Pool!Pop, Pool!PopPendingTx, Pool!Idle, PoolP!Pop, PoolP!PopPendingTx, PoolP!Idle
<1>4. ASSUME Pool!IncNonce PROVE PoolP!IncNonce
  BY <1>4 DEF Pool!IncNonce, PoolP!IncNonce
<1>5. ASSUME Pool!Discard PROVE PoolP!Discard
  BY <1>5 DEF Pool!Discard, PoolP!Discard
<1>6. ASSUME NEW t, Pool!SetClock(t) PROVE PoolP!SetClock(t)
  BY <1>6 DEF Pool!SetClock, PoolP!SetClock
<1> QED
  BY <1>1, <1>2, <1>3, <1>4, <1>5, <1>6, SamePromotion, SameClean
  DEF Pool!Next, Pool!PopNil, PoolP!Next

-----------------------------------------------------------------------------
(* The node implements the pool's specification.                           *)

\* Every step of the node is a step of the pool, or leaves the pool alone.
LEMMA ImplementsPoolStep ==
  ASSUME TypeOK, PackControl, [Next]_nodeVars
  PROVE  [Pool!Next]_(Pool!vars)
<1>1. accounts \in [Address -> Account \union {NoAccount}]
  BY DEF TypeOK
\* The steps that touch neither the pool nor the accounts.
<1>2. ASSUME UNCHANGED <<poolVars, accounts, inflight>>,
             UNCHANGED pc \/ (pc # "crediting" /\ pc' # "crediting")
      PROVE  UNCHANGED Pool!vars
  BY <1>2 DEF poolVars, Pool!vars
<1>3. CASE UNCHANGED nodeVars
  BY <1>2, <1>3 DEF nodeVars
<1>4. ASSUME NEW tx \in Tx, NewTx(tx) PROVE Pool!Next
  BY <1>4 DEF NewTx, Pool!Next
<1>5. CASE promoteQueueToPending
  BY <1>5 DEF promoteQueueToPending, Pool!Next
<1>6. ASSUME NEW m \in [Address -> MinNonces], CleanExpiredTxs(m) PROVE Pool!Next
  BY <1>6 DEF CleanExpiredTxs, Pool!Next
<1>7. ASSUME NEW t \in 0..MaxClock, SetClock(t) PROVE Pool!Next
  BY <1>7 DEF SetClock, Pool!Next
<1>8. CASE NewBlock \/ Pack \/ packNil \/ Interupt \/ Finalize
  BY <1>2, <1>8 DEF NewBlock, Pack, packNil, Interupt, Finalize, Ready
<1>9. CASE packPop
  BY <1>9 DEF packPop, Pool!Next, Pool!Pop
<1>10. CASE ExecuteRefused
  <2>1. pc = "executing" /\ pc' = "ready" /\ inflight # NoTx /\ inflight' = NoTx
    BY <1>10 DEF ExecuteRefused, PackControl
  <2>2. Pool!Discard
    BY <1>10, <2>1 DEF ExecuteRefused, poolVars, Pool!Discard
  <2> QED
    BY <2>2 DEF Pool!Next
<1>11. CASE ExecuteDebit
  <2>1. pc = "executing" /\ pc' = "crediting" /\ inflight \in Tx /\ inflight # NoTx
    BY <1>11 DEF ExecuteDebit, PackControl, TypeOK
  <2>2. inflight.From \in Address
    BY <2>1, ExecutionAssumption
  <2>3. accounts' = Debit(accounts, inflight) /\ ~Refuses(accounts, inflight)
    BY <1>11 DEF ExecuteDebit
  <2> DEFINE before == [a \in Address |-> Loaded(accounts, a).Nonce]
             after  == [a \in Address |-> Loaded(accounts', a).Nonce]
  <2>4. after = [before EXCEPT ![inflight.From] = before[inflight.From] + 1]
    <3>1. /\ after[inflight.From] = before[inflight.From] + 1
          /\ \A a \in Address \ {inflight.From} : after[a] = before[a]
      BY <1>1, <2>1, <2>2, <2>3, DebitFacts
    <3>2. after = [a \in Address |-> after[a]] /\ before = [a \in Address |-> before[a]]
      OBVIOUS
    <3> HIDE DEF before, after
    <3> QED
      BY <2>2, <3>1, <3>2
  <2>5. Pool!IncNonce
    BY <1>11, <2>1, <2>4 DEF ExecuteDebit, poolVars, Pool!IncNonce
  <2> QED
    BY <2>5 DEF Pool!Next
<1>12. CASE ExecuteCredit
  <2>1. pc = "crediting" /\ pc' # "crediting" /\ inflight' = NoTx /\ inflight \in Tx
    BY <1>12 DEF ExecuteCredit, PackControl, TypeOK
  <2>2. accounts' = Credit(accounts, inflight)
    BY <1>12 DEF ExecuteCredit
  <2>3. \A a \in Address : Loaded(accounts', a).Nonce = Loaded(accounts, a).Nonce
    BY <1>1, <2>1, <2>2, CreditFacts
  <2> QED
    BY <1>12, <2>1, <2>3 DEF ExecuteCredit, poolVars, Pool!vars
<1> QED
  BY <1>3, <1>4, <1>5, <1>6, <1>7, <1>8, <1>9, <1>10, <1>11, <1>12 DEF Next, pack

\* The pool's invariant passes from state to state inside the node.
LEMMA PoolInvStep ==
  ASSUME TypeOK, PackControl, Pool!PoolInv, [Next]_nodeVars
  PROVE  Pool!PoolInv'
<1>1. PoolP!PoolInv
  BY SamePoolInv
<1>2. [PoolP!Next]_(PoolP!vars)
  BY ImplementsPoolStep, SamePoolStep
<1>3. PoolP!PoolInv'
  BY <1>1, <1>2, PoolAssumptions, PoolP!NextPoolInv
<1>4. Pool!PoolInv' <=> PoolP!PoolInv'
  BY SamePoolInv, PTL
<1> QED
  BY <1>3, <1>4

\* What pack takes from the pool is a transaction of the sender it asks for.
LEMMA PoppedTx ==
  ASSUME Pool!PoolInv, NEW a \in Address, pendings[a] # <<>>
  PROVE  /\ heap[pendings[a][1]][1] \in Tx /\ heap[pendings[a][1]][1].From = a
<1>1. PoolP!PendingInv
  BY SamePoolInv DEF PoolP!PoolInv
<1> QED
  BY <1>1, PoolAssumptions, PoolP!FirstBoxFacts

\* The node starts well.
LEMMA InitNodeInv == Init => NodeInv
<1> SUFFICES ASSUME Init PROVE NodeInv
  OBVIOUS
<1>1. Genesis \in Header
  BY DEF Genesis, Header
<1>2. TypeOK
  BY <1>1, NodeAssumption, EmptySeq DEF Init, TypeOK
<1>3. PackControl
  BY DEF Init, PackControl
<1>4. PoolP!Init
  BY DEF Init, Pool!Init, PoolP!Init
<1>5. Pool!PoolInv
  BY <1>4, PoolAssumptions, PoolP!InitPoolInv, SamePoolInv
<1> QED
  BY <1>2, <1>3, <1>5 DEF NodeInv

\* The node's own types and Pack's control pass from state to state.
LEMMA ControlStep ==
  ASSUME NodeInv, [Next]_nodeVars
  PROVE  TypeOK' /\ PackControl'
<1>1. TypeOK /\ PackControl /\ Pool!PoolInv
  BY DEF NodeInv
<1>2. NoTx \notin Tx /\ NoBlock \notin Header /\ NoBlock \notin Body
  BY NodeAssumption
<1>3. clock \in Nat
  BY <1>1 DEF Pool!PoolInv, Pool!PendingInv, Pool!TypeOK
<1>4. accounts \in [Address -> Account \union {NoAccount}]
  BY <1>1 DEF TypeOK
<1>5. CASE UNCHANGED <<accounts, inflight, pc, makerVars, interupt, refused>>
  BY <1>1, <1>5 DEF TypeOK, PackControl, makerVars
<1>6. CASE NewBlock
  <2>1. nextHeader' \in Header
    BY <1>3, <1>6 DEF NewBlock, NewHeader, MakerCurrentHeader, Genesis, Hash, Header
  <2>2. nextBody' \in Body
    BY <1>6, EmptySeq DEF NewBlock, Body
  <2> QED
    BY <1>1, <1>2, <1>6, <2>1, <2>2 DEF NewBlock, TypeOK, PackControl
<1>7. CASE Pack
  BY <1>1, <1>7 DEF Pack, Ready, TypeOK, PackControl, makerVars
<1>8. CASE packPop
  <2>1. PICK a \in Address : /\ pendings[a] # <<>> /\ inflight' = heap[pendings[a][1]][1]
                             /\ UNCHANGED <<accounts, makerVars, interupt, refused>>
    BY <1>8 DEF packPop
  <2>2. inflight' \in Tx
    BY <1>1, <2>1, PoppedTx
  <2> QED
    BY <1>1, <1>2, <1>8, <2>1, <2>2 DEF packPop, TypeOK, PackControl, makerVars
<1>9. CASE packNil
  BY <1>1, <1>9 DEF packNil, TypeOK, PackControl, makerVars
<1>10. CASE ExecuteRefused
  <2>1. inflight \in Tx /\ inflight.From \in Address
    BY <1>1, <1>10, ExecutionAssumption DEF ExecuteRefused, TypeOK, PackControl
  <2> QED
    BY <1>1, <1>10, <2>1 DEF ExecuteRefused, TypeOK, PackControl, makerVars
<1>11. CASE ExecuteDebit
  <2>1. inflight \in Tx /\ ~Refuses(accounts, inflight) /\ accounts' = Debit(accounts, inflight)
    BY <1>1, <1>11 DEF ExecuteDebit, TypeOK, PackControl
  <2>2. accounts' \in [Address -> Account \union {NoAccount}]
    BY <1>4, <2>1, DebitFacts
  <2> QED
    BY <1>1, <1>11, <2>2 DEF ExecuteDebit, TypeOK, PackControl, makerVars
<1>12. CASE ExecuteCredit
  <2>1. inflight \in Tx /\ accounts' = Credit(accounts, inflight)
    BY <1>1, <1>12 DEF ExecuteCredit, TypeOK, PackControl
  <2>2. accounts' \in [Address -> Account \union {NoAccount}]
    BY <1>4, <2>1, CreditFacts
  <2>3. nextBody' \in Body
    <3> DEFINE txs1 == nextBody.Transactions
               recs == nextBody.Receiptions
               Rec  == [Status : {1}, GasUsed : {IntrinsicGas}]
               rec  == [Status |-> 1, GasUsed |-> IntrinsicGas]
    <3>1. nextBody \in Body
      BY <1>1, <1>12 DEF ExecuteCredit, TypeOK, PackControl
    <3>2. txs1 \in Seq(Tx) /\ recs \in Seq(Rec) /\ rec \in Rec
      BY <3>1 DEF Body
    <3>3. nextBody' = [Transactions |-> Append(txs1, inflight), Receiptions |-> Append(recs, rec)]
      BY <1>12 DEF ExecuteCredit
    <3>4. Body = [Transactions : Seq(Tx), Receiptions : Seq(Rec)]
      BY DEF Body
    <3> HIDE DEF txs1, recs, Rec, rec
    <3>5. Append(txs1, inflight) \in Seq(Tx) /\ Append(recs, rec) \in Seq(Rec)
      BY <2>1, <3>2, AppendProperties
    <3> QED
      BY <3>3, <3>4, <3>5
  <2> QED
    BY <1>1, <1>2, <1>12, <2>2, <2>3 DEF ExecuteCredit, TypeOK, PackControl
<1>13. CASE Interupt
  BY <1>1, <1>13 DEF Interupt, TypeOK, PackControl, makerVars
<1>14. CASE Finalize
  <2> DEFINE head == [nextHeader EXCEPT !.Timestamp = clock]
             block == [Header |-> head, Body |-> nextBody]
  <2>1. nextHeader \in Header /\ nextBody \in Body /\ blocks \in Seq([Header : Header, Body : Body])
    BY <1>1, <1>14 DEF Finalize, TypeOK, PackControl
  <2>2. head \in Header
    BY <1>3, <2>1 DEF Header
  <2>3. block \in [Header : Header, Body : Body]
    BY <2>1, <2>2
  <2>4. blocks' = Append(blocks, block) /\ currentHeader' = head
    BY <1>14 DEF Finalize
  <2> HIDE DEF head, block
  <2>5. blocks' \in Seq([Header : Header, Body : Body])
    BY <2>1, <2>3, <2>4, AppendProperties
  <2> QED
    BY <1>1, <1>14, <2>2, <2>4, <2>5 DEF Finalize, Ready, TypeOK, PackControl
<1> QED
  BY <1>5, <1>6, <1>7, <1>8, <1>9, <1>10, <1>11, <1>12, <1>13, <1>14
  DEF Next, pack, NewTx, promoteQueueToPending, CleanExpiredTxs, SetClock, nodeVars

\* The node's invariant is inductive.
LEMMA NextNodeInv == NodeInv /\ [Next]_nodeVars => NodeInv'
BY ControlStep, PoolInvStep DEF NodeInv

\* The node's inductive invariant holds in every reachable state.
THEOREM NodeInvariant == Spec => []NodeInv
<1> QED
  BY InitNodeInv, NextNodeInv, PTL DEF Spec

\* The state database's nonces move only as the pool expects: driver, maker and
\* state machine together implement the pool's specification.
THEOREM ImplementsPool == Spec => PoolSpec
<1>1. Init => Pool!Init
  BY DEF Init
<1>2. NodeInv /\ [Next]_nodeVars => [Pool!Next]_(Pool!vars)
  BY ImplementsPoolStep DEF NodeInv
<1> QED
  BY <1>1, <1>2, NodeInvariant, PTL DEF Spec, PoolSpec, Pool!Spec

-----------------------------------------------------------------------------
(* The blocks' transactions.                                               *)

\* The finalized blocks' transactions alone.
Finalized == [b \in 1..Len(blocks) |-> blocks[b].Body.Transactions]

LEMMA FinalizedType ==
  ASSUME TypeOK
  PROVE  Len(blocks) \in Nat /\ Finalized \in Seq(Seq(Tx)) /\ Len(Finalized) = Len(blocks)
<1>1. blocks \in Seq([Header : Header, Body : Body])
  BY DEF TypeOK
<1>2. Len(blocks) \in Nat /\ \A b \in 1..Len(blocks) : blocks[b] \in [Header : Header, Body : Body]
  BY <1>1, LenProperties, ElementOfSeq
<1>3. \A b \in 1..Len(blocks) : blocks[b].Body.Transactions \in Seq(Tx)
  BY <1>2 DEF Body
<1>4. Finalized \in [1..Len(blocks) -> Seq(Tx)]
  BY <1>3 DEF Finalized
<1> QED
  BY <1>2, <1>4, PoolAssumptions, PoolP!FunctionIsSeq

\* The list of bodies, with and without a block under construction.
BodiesShape ==
  /\ Finalized \in Seq(Seq(Tx)) /\ Bodies \in Seq(Seq(Tx))
  /\ nextBody = NoBlock => Bodies = Finalized
  /\ nextBody # NoBlock => /\ nextBody.Transactions \in Seq(Tx)
                           /\ Bodies = Append(Finalized, nextBody.Transactions)

LEMMA BodiesFacts == TypeOK => BodiesShape
<1> SUFFICES ASSUME TypeOK PROVE BodiesShape
  OBVIOUS
<1>1. Finalized \in Seq(Seq(Tx))
  BY FinalizedType
<1>2. CASE nextBody = NoBlock
  <2>1. Bodies = Finalized \o <<>>
    BY <1>2 DEF Bodies, Finalized
  <2>2. Bodies = Finalized
    BY <1>1, <2>1, ConcatEmptySeq
  <2> QED
    BY <1>1, <1>2, <2>2 DEF BodiesShape
<1>3. CASE nextBody # NoBlock
  <2> DEFINE list == nextBody.Transactions
  <2>1. list \in Seq(Tx)
    BY <1>3 DEF TypeOK, Body
  <2>2. Bodies = Finalized \o <<list>>
    BY <1>3 DEF Bodies, Finalized
  <2> HIDE DEF list
  <2>3. Bodies = Append(Finalized, list) /\ Append(Finalized, list) \in Seq(Seq(Tx))
    BY <1>1, <2>1, <2>2, AppendProperties, AppendIsConcat
  <2> QED
    BY <1>1, <1>3, <2>1, <2>3 DEF list, BodiesShape
<1> QED
  BY <1>2, <1>3

\* A step that leaves the maker alone leaves the blocks alone.
LEMMA BodiesUntouched ==
  ASSUME UNCHANGED makerVars
  PROVE  Bodies' = Bodies
BY DEF makerVars, Bodies

\* NewBlock starts an empty body.
LEMMA NewBlockBodies ==
  ASSUME NodeInv, NewBlock, TypeOK'
  PROVE  Bodies' = Append(Bodies, <<>>)
<1>1. BodiesShape
  BY BodiesFacts DEF NodeInv
<1>2. BodiesShape'
  BY BodiesFacts, PTL
<1>3. nextBody = NoBlock /\ nextBody' = [Transactions |-> <<>>, Receiptions |-> <<>>] /\ blocks' = blocks
  BY DEF NodeInv, PackControl, NewBlock
<1>4. nextBody' # NoBlock
  <2>1. [Transactions |-> <<>>, Receiptions |-> <<>>] \in Body
    BY EmptySeq DEF Body
  <2> QED
    BY <1>3, <2>1, NodeAssumption
<1>5. Finalized' = Finalized
  BY <1>3 DEF Finalized
<1> QED
  BY <1>1, <1>2, <1>3, <1>4, <1>5 DEF BodiesShape

\* Finalize moves the body from the maker to the blocks.
LEMMA FinalizeBodies ==
  ASSUME NodeInv, Finalize, TypeOK'
  PROVE  Bodies' = Bodies
<1>1. BodiesShape /\ TypeOK
  BY BodiesFacts DEF NodeInv
<1>2. BodiesShape'
  BY BodiesFacts, PTL
<1>3. nextBody # NoBlock /\ nextBody' = NoBlock
  BY DEF NodeInv, PackControl, Finalize
<1>4. PICK head : blocks' = Append(blocks, [Header |-> head, Body |-> nextBody])
  BY DEF Finalize
<1> DEFINE block == [Header |-> head, Body |-> nextBody]
           n     == Len(blocks)
           list  == nextBody.Transactions
<1>5. blocks \in Seq([Header : Header, Body : Body]) /\ blocks' \in Seq([Header : Header, Body : Body])
  BY <1>1 DEF TypeOK
<1>6. Finalized \in Seq(Seq(Tx)) /\ list \in Seq(Tx) /\ Finalized' \in Seq(Seq(Tx))
      /\ Bodies = Append(Finalized, list) /\ Bodies' = Finalized'
  BY <1>1, <1>2, <1>3 DEF BodiesShape
<1>7. n \in Nat /\ Len(Finalized) = n
  BY <1>1, FinalizedType
<1>8. Finalized' = [b \in 1..Len(blocks') |-> blocks'[b].Body.Transactions]
  BY DEF Finalized
<1>9. Finalized = [b \in 1..n |-> blocks[b].Body.Transactions]
  BY DEF Finalized
<1>10. Len(blocks') = n + 1 /\ blocks'[n + 1] = block /\ \A b \in 1..n : blocks'[b] = blocks[b]
  <2>1. Len(blocks') = Len(Append(blocks, block)) /\ Append(blocks, block)[n + 1] = block
    BY <1>4, <1>5
  <2> QED
    BY <1>4, <1>5, <1>7, <2>1
<1>11. block.Body.Transactions = list
  OBVIOUS
<1> HIDE DEF block, n, list
<1>12. Append(Finalized, list) \in Seq(Seq(Tx)) /\ Len(Append(Finalized, list)) = n + 1
       /\ Append(Finalized, list)[n + 1] = list
       /\ \A b \in 1..n : Append(Finalized, list)[b] = Finalized[b]
  BY <1>6, <1>7, AppendProperties
<1>13. Len(Finalized') = n + 1
  BY <1>6, <1>7, <1>8, <1>10, LenProperties
<1>14. \A b \in 1..(n + 1) : Finalized'[b] = Append(Finalized, list)[b]
  <2> SUFFICES ASSUME NEW b \in 1..(n + 1) PROVE Finalized'[b] = Append(Finalized, list)[b]
    OBVIOUS
  <2>1. Finalized'[b] = blocks'[b].Body.Transactions
    BY <1>8, <1>10
  <2>2. b \in 1..n \/ b = n + 1
    BY <1>7
  <2> QED
    BY <1>9, <1>10, <1>11, <1>12, <2>1, <2>2
<1> QED
  BY <1>6, <1>12, <1>13, <1>14, SeqEqual

\* pack appends the executed transaction to the last body.
LEMMA ExecuteCreditBodies ==
  ASSUME NodeInv, ExecuteCredit, TypeOK', PackControl'
  PROVE  /\ Len(Bodies) \in Nat \ {0} /\ inflight \in Tx
         /\ Bodies[Len(Bodies)] \in Seq(Tx)
         /\ Bodies' = [Bodies EXCEPT ![Len(Bodies)] = Append(Bodies[Len(Bodies)], inflight)]
<1>1. BodiesShape
  BY BodiesFacts DEF NodeInv
<1>2. BodiesShape'
  BY BodiesFacts, PTL
<1> DEFINE list == nextBody.Transactions
           n    == Len(Finalized)
           new  == Append(list, inflight)
<1>3. nextBody # NoBlock /\ inflight \in Tx
  BY DEF NodeInv, TypeOK, PackControl, ExecuteCredit
<1>4. nextBody'.Transactions = new /\ blocks' = blocks
  BY DEF ExecuteCredit
<1>5. nextBody' # NoBlock
  BY DEF NodeInv, PackControl, ExecuteCredit
<1> HIDE DEF new
<1>6. Finalized' = Finalized
  BY <1>4 DEF Finalized
<1>7. Finalized \in Seq(Seq(Tx)) /\ list \in Seq(Tx) /\ Bodies = Append(Finalized, list)
      /\ Bodies' = Append(Finalized, new) /\ new \in Seq(Tx)
  BY <1>1, <1>2, <1>3, <1>4, <1>5, <1>6 DEF BodiesShape
<1> HIDE DEF list, n
<1>8. n \in Nat /\ Len(Finalized) = n
  BY <1>7, LenProperties DEF n
<1>9. /\ Append(Finalized, list) \in Seq(Seq(Tx)) /\ Len(Append(Finalized, list)) = n + 1
      /\ Append(Finalized, list)[n + 1] = list
      /\ \A b \in 1..n : Append(Finalized, list)[b] = Finalized[b]
  BY <1>7, <1>8, AppendProperties
<1>10. /\ Append(Finalized, new) \in Seq(Seq(Tx)) /\ Len(Append(Finalized, new)) = n + 1
       /\ Append(Finalized, new)[n + 1] = new
       /\ \A b \in 1..n : Append(Finalized, new)[b] = Finalized[b]
  BY <1>7, <1>8, AppendProperties
<1>11. n + 1 \in 1..Len(Bodies) /\ Len(Bodies) = n + 1 /\ Bodies[n + 1] = list
  BY <1>7, <1>8, <1>9
<1> DEFINE changed == [Bodies EXCEPT ![n + 1] = new]
<1>12. /\ changed \in Seq(Seq(Tx)) /\ Len(changed) = n + 1
       /\ \A b \in 1..(n + 1) : changed[b] = IF b = n + 1 THEN new ELSE Bodies[b]
  <2> DEFINE S == Seq(Tx)
             k == n + 1
  <2>1. Bodies \in Seq(S) /\ k \in 1..Len(Bodies) /\ new \in S /\ Len(Bodies) = k
    BY <1>7, <1>9, <1>11
  <2> HIDE DEF S, k
  <2>2. /\ [Bodies EXCEPT ![k] = new] \in Seq(S) /\ Len([Bodies EXCEPT ![k] = new]) = k
        /\ \A b \in 1..k : [Bodies EXCEPT ![k] = new][b] = IF b = k THEN new ELSE Bodies[b]
    BY <2>1, ExceptSeq
  <2> QED
    BY <2>2 DEF S, k
<1> HIDE DEF changed
<1>13. \A b \in 1..(n + 1) : Bodies'[b] = changed[b]
  <2> SUFFICES ASSUME NEW b \in 1..(n + 1) PROVE Bodies'[b] = changed[b]
    OBVIOUS
  <2>1. b \in 1..n \/ b = n + 1
    BY <1>8
  <2>2. b \in 1..n => b # n + 1
    BY <1>8
  <2> QED
    BY <1>7, <1>9, <1>10, <1>12, <2>1, <2>2
<1>14. Bodies' = changed
  BY <1>7, <1>10, <1>12, <1>13, SeqEqual
<1> QED
  BY <1>3, <1>7, <1>8, <1>11, <1>14 DEF changed, new

-----------------------------------------------------------------------------
(* The places of the packed transactions.                                  *)

\* A place is a block and an index in it.
LEMMA PlaceMeans ==
  ASSUME NEW p
  PROVE  p \in Places <=> \E b \in 1..Len(Bodies) : \E k \in 1..Len(Bodies[b]) : p = <<b, k>>
<1>1. p \in Places <=> \E b \in 1..Len(Bodies) : p \in {b} \X (1..Len(Bodies[b]))
  BY DEF Places
<1>2. ASSUME NEW b PROVE p \in {b} \X (1..Len(Bodies[b])) <=> \E k \in 1..Len(Bodies[b]) : p = <<b, k>>
  OBVIOUS
<1> QED
  BY <1>1, <1>2

\* Place p is new, holds the transaction in flight and comes after all others.
Joins(p) ==
  /\ p \notin Places /\ Places' = Places \union {p}
  /\ PackedAt(p)' = inflight /\ UpTo(p, p)
  /\ \A q \in Places : PackedAt(q)' = PackedAt(q) /\ UpTo(q, p) /\ ~UpTo(p, q)

\* No place is lost, none appears, and each holds what it held.
PlacesKept == Places' = Places /\ \A p \in Places : PackedAt(p)' = PackedAt(p)

\* pack's last write adds a place at the end.
LEMMA PlacesGrow ==
  ASSUME NodeInv, ExecuteCredit, TypeOK', PackControl'
  PROVE  \E p : Joins(p)
<1>0. PICK n, old, k, p : n = Len(Bodies) /\ old = Bodies[n] /\ k = Len(old) /\ p = <<n, k + 1>>
  OBVIOUS
<1>1. Bodies \in Seq(Seq(Tx))
  BY BodiesFacts DEF NodeInv, BodiesShape
<1>2. n \in Nat \ {0} /\ n \in 1..n /\ inflight \in Tx /\ old \in Seq(Tx)
      /\ Bodies' = [Bodies EXCEPT ![n] = Append(old, inflight)]
  BY <1>0, ExecuteCreditBodies
<1>3. k \in Nat /\ Append(old, inflight) \in Seq(Tx) /\ Len(Append(old, inflight)) = k + 1
      /\ Append(old, inflight)[k + 1] = inflight
      /\ \A i \in 1..k : Append(old, inflight)[i] = old[i]
  BY <1>0, <1>2, AppendProperties, LenProperties
<1>4. /\ Len(Bodies') = n
      /\ \A b \in 1..n : Bodies'[b] = IF b = n THEN Append(old, inflight) ELSE Bodies[b]
  <2> DEFINE S == Seq(Tx)
             new == Append(old, inflight)
  <2>1. Bodies \in Seq(S) /\ n \in 1..Len(Bodies) /\ new \in S
    BY <1>0, <1>1, <1>2, <1>3
  <2> HIDE DEF S, new
  <2>2. /\ Len([Bodies EXCEPT ![n] = new]) = Len(Bodies)
        /\ \A b \in 1..Len(Bodies) : [Bodies EXCEPT ![n] = new][b] = IF b = n THEN new ELSE Bodies[b]
    BY <2>1, ExceptSeq
  <2> QED
    BY <1>0, <1>2, <2>2 DEF new
<1>5. Bodies[n] = old /\ Len(old) = k /\ Len(Bodies) = n
  BY <1>0
<1>6. ASSUME NEW q
      PROVE  /\ q \in Places <=> \E b \in 1..n : \E i \in 1..Len(Bodies[b]) : q = <<b, i>>
             /\ q \in Places' <=> \E b \in 1..n : \E i \in 1..Len(Bodies'[b]) : q = <<b, i>>
  <2>1. q \in Places <=> \E b \in 1..Len(Bodies) : \E i \in 1..Len(Bodies[b]) : q = <<b, i>>
    BY PlaceMeans
  <2>2. q \in Places' <=> \E b \in 1..Len(Bodies') : \E i \in 1..Len(Bodies'[b]) : q = <<b, i>>
    BY DEF Places
  <2> QED
    BY <1>4, <1>5, <2>1, <2>2
<1>7. \A b \in 1..n : b # n => Bodies'[b] = Bodies[b]
  BY <1>4
<1>8. Bodies'[n] = Append(old, inflight)
  BY <1>2, <1>4
<1>9. ASSUME NEW q \in Places
      PROVE  q \in Places' /\ PackedAt(q)' = PackedAt(q) /\ UpTo(q, p) /\ ~UpTo(p, q)
  <2>1. PICK b \in 1..n : \E i \in 1..Len(Bodies[b]) : q = <<b, i>>
    BY <1>6, <1>9
  <2>2. PICK i \in 1..Len(Bodies[b]) : q = <<b, i>>
    BY <2>1
  <2>3. q[1] = b /\ q[2] = i
    BY <2>2
  <2>4. PackedAt(q) = Bodies[b][i] /\ PackedAt(q)' = Bodies'[b][i]
    BY <2>3 DEF PackedAt
  <2>5. Bodies[b] \in Seq(Tx) /\ Len(Bodies[b]) \in Nat
    BY <1>1, <1>5, ElementOfSeq, LenProperties
  <2>6. CASE b # n
    <3>1. b < n
      BY <1>2, <2>6
    <3> QED
      BY <1>0, <1>2, <1>3, <1>6, <1>7, <2>2, <2>3, <2>4, <2>6, <3>1 DEF UpTo
  <2>7. CASE b = n
    <3>1. i \in 1..k /\ i \in 1..(k + 1) /\ i <= k + 1 /\ ~(k + 1 <= i)
      BY <1>3, <1>5, <2>7
    <3>2. q \in Places'
      BY <1>3, <1>6, <1>8, <2>2, <2>7, <3>1
    <3>3. PackedAt(q)' = PackedAt(q)
      BY <1>3, <1>5, <1>8, <2>4, <2>7, <3>1
    <3> QED
      BY <1>0, <1>2, <2>3, <2>7, <3>1, <3>2, <3>3 DEF UpTo
  <2> QED
    BY <2>6, <2>7
<1>10. p \in Places' /\ PackedAt(p)' = inflight /\ UpTo(p, p)
  <2>1. k + 1 \in 1..Len(Bodies'[n])
    BY <1>3, <1>8
  <2>2. p \in Places'
    BY <1>0, <1>2, <1>6, <2>1
  <2>3. PackedAt(p)' = Bodies'[n][k + 1]
    BY <1>0 DEF PackedAt
  <2> QED
    BY <1>0, <1>2, <1>3, <1>8, <2>2, <2>3 DEF UpTo
<1>11. ASSUME NEW q, q \in Places', q # p
       PROVE  q \in Places
  <2>1. PICK b \in 1..n : \E i \in 1..Len(Bodies'[b]) : q = <<b, i>>
    BY <1>6, <1>11
  <2>2. PICK i \in 1..Len(Bodies'[b]) : q = <<b, i>>
    BY <2>1
  <2>3. CASE b # n
    BY <1>6, <1>7, <2>2, <2>3
  <2>4. CASE b = n
    <3>1. i \in 1..(k + 1) /\ i # k + 1
      BY <1>0, <1>3, <1>8, <1>11, <2>2, <2>4
    <3>2. i \in 1..k
      BY <1>3, <3>1
    <3> QED
      BY <1>5, <1>6, <2>2, <2>4, <3>2
  <2> QED
    BY <2>3, <2>4
<1>12. p \notin Places
  BY <1>9, <1>10
<1> QED
  BY <1>9, <1>10, <1>11, <1>12 DEF Joins

\* No other step touches a place.
LEMMA PlacesStep ==
  ASSUME NodeInv, NodeInv', [Next]_nodeVars, ~ExecuteCredit
  PROVE  PlacesKept
<1>1. TypeOK' /\ PackControl' /\ Bodies \in Seq(Seq(Tx))
  BY BodiesFacts DEF NodeInv, BodiesShape
<1>2. ASSUME Bodies' = Bodies PROVE PlacesKept
  BY <1>2 DEF PlacesKept, Places, PackedAt
<1>3. CASE NewBlock
  <2> DEFINE n == Len(Bodies)
             S == Seq(Tx)
  <2>1. Bodies' = Append(Bodies, <<>>) /\ Bodies \in Seq(S) /\ <<>> \in S
    BY <1>1, <1>3, NewBlockBodies, EmptySeq
  <2> HIDE DEF S
  <2>2. n \in Nat /\ Len(Bodies') = n + 1 /\ Bodies'[n + 1] = <<>> /\ \A b \in 1..n : Bodies'[b] = Bodies[b]
    BY <2>1, AppendProperties, LenProperties
  <2>3. 1..Len(Bodies'[n + 1]) = {}
    BY <2>2, EmptySeq
  <2>4. ASSUME NEW q
        PROVE  q \in Places' <=> q \in Places
    <3>1. q \in Places <=> \E b \in 1..n : \E i \in 1..Len(Bodies[b]) : q = <<b, i>>
      BY PlaceMeans
    <3>2. q \in Places' <=> \E b \in 1..Len(Bodies') : \E i \in 1..Len(Bodies'[b]) : q = <<b, i>>
      BY DEF Places
    <3> HIDE DEF n
    <3>3. \A b \in 1..(n + 1) : b \in 1..n \/ b = n + 1
      BY <2>2
    <3>4. \A b \in 1..n : b \in 1..(n + 1)
      BY <2>2
    <3> QED
      BY <2>2, <2>3, <3>1, <3>2, <3>3, <3>4
  <2>5. ASSUME NEW q \in Places PROVE PackedAt(q)' = PackedAt(q)
    <3>1. PICK b \in 1..n : \E i \in 1..Len(Bodies[b]) : q = <<b, i>>
      BY <2>5, PlaceMeans
    <3>2. q[1] = b
      BY <3>1
    <3> QED
      BY <2>2, <3>1, <3>2 DEF PackedAt
  <2> QED
    BY <2>4, <2>5 DEF PlacesKept
<1>4. CASE Finalize
  BY <1>1, <1>2, <1>4, FinalizeBodies
<1> QED
  BY <1>2, <1>3, <1>4, BodiesUntouched
  DEF Next, pack, NewTx, promoteQueueToPending, CleanExpiredTxs, SetClock, Pack, packPop, packNil,
      ExecuteRefused, ExecuteDebit, Interupt, nodeVars

-----------------------------------------------------------------------------
(* An account's nonce counts its packed transactions.                      *)

\* A sender's places after a step.
LEMMA PlacesOfStep ==
  ASSUME NEW a
  PROVE  /\ PlacesKept => PlacesOf(a)' = PlacesOf(a)
         /\ \A p : Joins(p) =>
              /\ inflight.From = a  => PlacesOf(a)' = PlacesOf(a) \union {p}
              /\ inflight.From # a => PlacesOf(a)' = PlacesOf(a)
<1>1. \A q : q \in PlacesOf(a) <=> q \in Places /\ PackedAt(q).From = a
  BY DEF PlacesOf
<1>2. \A q : q \in PlacesOf(a)' <=> q \in Places' /\ PackedAt(q)'.From = a
  BY DEF PlacesOf
<1>3. ASSUME PlacesKept PROVE PlacesOf(a)' = PlacesOf(a)
  BY <1>1, <1>2, <1>3 DEF PlacesKept
<1>4. ASSUME NEW p, Joins(p)
      PROVE  /\ inflight.From = a  => PlacesOf(a)' = PlacesOf(a) \union {p}
             /\ inflight.From # a => PlacesOf(a)' = PlacesOf(a)
  BY <1>1, <1>2, <1>4 DEF Joins
<1> QED
  BY <1>3, <1>4

\* Finitely many places, and so finitely many of each sender.
CountInv == IsFiniteSet(Places) /\ NonceCountsPacked

LEMMA PlacesOfFinite ==
  ASSUME IsFiniteSet(Places), NEW a
  PROVE  IsFiniteSet(PlacesOf(a)) /\ Cardinality(PlacesOf(a)) \in Nat
<1>1. PlacesOf(a) \in SUBSET Places
  BY DEF PlacesOf
<1> QED
  BY <1>1, FS_Subset, FS_CardinalityType

\* Nothing is packed at first.
LEMMA InitPlaces ==
  ASSUME Init
  PROVE  Places = {} /\ Len(Bodies) = 0
<1>1. NodeInv
  BY InitNodeInv
<1>2. Bodies = Finalized /\ Len(Finalized) = Len(blocks) /\ Len(blocks) = 0
  BY <1>1, BodiesFacts, FinalizedType, EmptySeq DEF Init, NodeInv, BodiesShape
<1>3. 1..Len(Bodies) = {}
  BY <1>2
<1> QED
  BY <1>2, <1>3 DEF Places

LEMMA InitCount == Init => CountInv
<1> SUFFICES ASSUME Init PROVE CountInv
  OBVIOUS
<1>1. Places = {}
  BY InitPlaces
<1>2. \A a \in Address : Cardinality(PlacesOf(a)) = 0
  BY <1>1, FS_EmptySet DEF PlacesOf
<1>3. accounts = InitAccounts /\ pc = "ready"
  BY DEF Init
<1>4. \A a \in Address : Loaded(InitAccounts, a).Nonce \in Nat
  BY NodeAssumption, LoadedType
<1> QED
  BY <1>1, <1>2, <1>3, <1>4, FS_EmptySet DEF CountInv, NonceCountsPacked

\* What a step that neither writes an account nor packs leaves alone.
LEMMA QuietStep ==
  ASSUME NodeInv, [Next]_nodeVars, ~ExecuteDebit, ~ExecuteCredit
  PROVE  /\ accounts' = accounts
         /\ pc = "crediting" <=> pc' = "crediting"
         /\ pc = "crediting" => inflight' = inflight
BY DEF Next, pack, NewTx, promoteQueueToPending, CleanExpiredTxs, SetClock, NewBlock, Pack, Ready,
       packPop, packNil, ExecuteRefused, Interupt, Finalize, nodeVars

\* The account's nonce and the blocks move together.
LEMMA NextCount ==
  ASSUME NodeInv, NodeInv', [Next]_nodeVars, CountInv
  PROVE  CountInv'
<1>1. IsFiniteSet(Places) /\ NonceCountsPacked
  BY DEF CountInv
<1>2. accounts \in [Address -> Account \union {NoAccount}]
  BY DEF NodeInv, TypeOK
<1>3. CASE ~ExecuteDebit /\ ~ExecuteCredit
  <2>1. PlacesKept
    BY <1>3, PlacesStep
  <2>2. \A a \in Address : PlacesOf(a)' = PlacesOf(a)
    BY <2>1, PlacesOfStep
  <2>3. /\ accounts' = accounts
        /\ pc = "crediting" <=> pc' = "crediting"
        /\ pc = "crediting" => inflight' = inflight
    BY <1>3, QuietStep
  <2>4. NonceCountsPacked'
    BY <1>1, <2>2, <2>3 DEF NonceCountsPacked
  <2> QED
    BY <1>1, <2>1, <2>4 DEF CountInv, PlacesKept
<1>4. CASE ExecuteDebit
  <2>1. pc = "executing" /\ pc' = "crediting" /\ inflight' = inflight /\ inflight \in Tx
        /\ ~Refuses(accounts, inflight) /\ accounts' = Debit(accounts, inflight)
    BY <1>4 DEF ExecuteDebit, NodeInv, TypeOK, PackControl
  <2>2. PlacesKept
    BY <2>1, PlacesStep DEF ExecuteCredit
  <2>3. \A a \in Address : PlacesOf(a)' = PlacesOf(a)
    BY <2>2, PlacesOfStep
  <2>4. \A a \in Address : Loaded(accounts, a).Nonce =
          Loaded(InitAccounts, a).Nonce + Cardinality(PlacesOf(a))
    <3>1. \A a \in Address : /\ Loaded(InitAccounts, a).Nonce \in Nat
                             /\ Cardinality(PlacesOf(a)) \in Nat
      BY <1>1, NodeAssumption, LoadedType, PlacesOfFinite
    <3> QED
      BY <1>1, <2>1, <3>1 DEF NonceCountsPacked
  <2>5. /\ Loaded(accounts', inflight.From).Nonce = Loaded(accounts, inflight.From).Nonce + 1
        /\ \A a \in Address \ {inflight.From} : Loaded(accounts', a) = Loaded(accounts, a)
    BY <1>2, <2>1, DebitFacts
  <2>6. ASSUME NEW a \in Address
        PROVE  Loaded(accounts', a).Nonce =
                 Loaded(InitAccounts, a).Nonce + Cardinality(PlacesOf(a)')
                   + (IF pc' = "crediting" /\ inflight'.From = a THEN 1 ELSE 0)
    <3>1. /\ Loaded(InitAccounts, a).Nonce \in Nat /\ Cardinality(PlacesOf(a)) \in Nat
          /\ Loaded(accounts, a).Nonce = Loaded(InitAccounts, a).Nonce + Cardinality(PlacesOf(a))
          /\ PlacesOf(a)' = PlacesOf(a)
      BY <1>1, <2>3, <2>4, NodeAssumption, LoadedType, PlacesOfFinite
    <3>2. CASE a = inflight.From
      BY <2>1, <2>5, <3>1, <3>2
    <3>3. CASE a # inflight.From
      BY <2>1, <2>5, <3>1, <3>3
    <3> QED
      BY <3>2, <3>3
  <2> QED
    BY <1>1, <2>2, <2>6 DEF CountInv, NonceCountsPacked, PlacesKept
<1>5. CASE ExecuteCredit
  <2>1. pc = "crediting" /\ pc' = "packing" /\ inflight \in Tx /\ accounts' = Credit(accounts, inflight)
    BY <1>5 DEF ExecuteCredit, NodeInv, TypeOK, PackControl
  <2>2. PICK p : Joins(p)
    BY <1>5, PlacesGrow DEF NodeInv
  <2>3. IsFiniteSet(Places')
    BY <1>1, <2>2, FS_AddElement DEF Joins
  <2>4. ASSUME NEW a \in Address
        PROVE  Loaded(accounts', a).Nonce =
                 Loaded(InitAccounts, a).Nonce + Cardinality(PlacesOf(a)')
    <3>1. Loaded(accounts', a).Nonce = Loaded(accounts, a).Nonce
      BY <1>2, <2>1, CreditFacts
    <3>2. /\ Loaded(InitAccounts, a).Nonce \in Nat
          /\ IsFiniteSet(PlacesOf(a)) /\ Cardinality(PlacesOf(a)) \in Nat
      BY <1>1, NodeAssumption, LoadedType, PlacesOfFinite
    <3>3. Loaded(accounts, a).Nonce = Loaded(InitAccounts, a).Nonce + Cardinality(PlacesOf(a))
            + (IF inflight.From = a THEN 1 ELSE 0)
      BY <1>1, <2>1 DEF NonceCountsPacked
    <3>4. CASE inflight.From = a
      <4>1. PlacesOf(a)' = PlacesOf(a) \union {p} /\ p \notin PlacesOf(a)
        BY <2>2, <3>4, PlacesOfStep DEF Joins, PlacesOf
      <4>2. Cardinality(PlacesOf(a)') = Cardinality(PlacesOf(a)) + 1
        BY <3>2, <4>1, FS_AddElement
      <4> QED
        BY <3>1, <3>2, <3>3, <3>4, <4>2
    <3>5. CASE inflight.From # a
      BY <2>2, <3>1, <3>2, <3>3, <3>5, PlacesOfStep
    <3> QED
      BY <3>4, <3>5
  <2>5. ASSUME NEW a \in Address
        PROVE  Loaded(InitAccounts, a).Nonce \in Nat /\ Cardinality(PlacesOf(a)') \in Nat
    <3>1. PlacesOf(a)' \in SUBSET Places'
      BY DEF PlacesOf
    <3> QED
      BY <2>3, <3>1, FS_Subset, FS_CardinalityType, NodeAssumption, LoadedType
  <2> QED
    BY <2>1, <2>3, <2>4, <2>5 DEF CountInv, NonceCountsPacked
<1> QED
  BY <1>3, <1>4, <1>5

\* The state database and the blocks agree on how often each account has paid,
\* whatever Execute refuses and whoever the receivers are.
THEOREM NoncesCountThePacked == Spec => []NonceCountsPacked
<1>1. CountInv /\ NodeInv /\ NodeInv' /\ [Next]_nodeVars => CountInv'
  BY NextCount
<1>2. CountInv => NonceCountsPacked
  BY DEF CountInv
<1> QED
  BY <1>1, <1>2, InitCount, NodeInvariant, PTL DEF Spec

-----------------------------------------------------------------------------
(* A sender of whom nothing was refused is packed in nonce order.          *)

\* Such a sender's account, transaction in flight and pending transactions follow
\* each other without a gap, and the account has the nonce of the transaction it
\* has just paid for.
LineInv ==
  \A a \in Address \ refused :
    /\ PoolP!InLine(a)
    /\ pc = "crediting" /\ inflight.From = a => inflight.Nonce = Loaded(accounts, a).Nonce

LEMMA InitLine == Init => LineInv
BY DEF Init, Pool!Init, LineInv, PoolP!InLine, PoolP!FirstPending

\* A transaction leaves the pool's hands unexecuted only when it is refused.
LEMMA OnlyRefusedUnpaid ==
  ASSUME NodeInv, [Next]_nodeVars, NEW a \in Address \ refused', pc # "crediting", inflight # NoTx,
         inflight.From = a, pc' = "crediting" \/ inflight' = NoTx
  PROVE  ExecuteDebit
<1>1. pc = "executing" /\ PackControl
  BY DEF NodeInv, TypeOK, PackControl
<1> QED
  BY <1>1 DEF Next, pack, NewTx, promoteQueueToPending, CleanExpiredTxs, SetClock, NewBlock, Pack,
              Ready, packPop, packNil, ExecuteRefused, ExecuteCredit, Interupt, Finalize, nodeVars

LEMMA NextLine ==
  ASSUME NodeInv, [Next]_nodeVars, LineInv
  PROVE  LineInv'
<1>1. /\ TypeOK /\ PackControl /\ Pool!PoolInv
      /\ accounts \in [Address -> Account \union {NoAccount}]
  BY DEF NodeInv, TypeOK
<1>2. PoolP!PoolInv /\ [PoolP!Next]_(PoolP!vars)
  BY <1>1, SamePoolInv, ImplementsPoolStep, SamePoolStep
<1>3. refused \subseteq refused'
  BY DEF Next, pack, NewTx, promoteQueueToPending, CleanExpiredTxs, SetClock, NewBlock, Pack,
         packPop, packNil, ExecuteRefused, ExecuteDebit, ExecuteCredit, Interupt, Finalize, nodeVars
<1>4. ASSUME ExecuteDebit
      PROVE  /\ inflight \in Tx /\ pc = "executing" /\ pc' = "crediting" /\ inflight' = inflight
             /\ inflight.From \in Address /\ Loaded(accounts, inflight.From).Nonce \in Nat
             /\ Loaded(accounts', inflight.From).Nonce = Loaded(accounts, inflight.From).Nonce + 1
  <2>1. inflight \in Tx /\ pc = "executing" /\ pc' = "crediting" /\ inflight' = inflight
        /\ ~Refuses(accounts, inflight) /\ accounts' = Debit(accounts, inflight)
    BY <1>1, <1>4 DEF ExecuteDebit, TypeOK, PackControl
  <2>2. inflight.From \in Address
    BY <2>1, ExecutionAssumption
  <2> QED
    BY <1>1, <2>1, <2>2, DebitFacts, LoadedType
<1> SUFFICES ASSUME NEW a \in Address, a \notin refused'
             PROVE  /\ PoolP!InLine(a)'
                    /\ pc' = "crediting" /\ inflight'.From = a =>
                         inflight'.Nonce = Loaded(accounts', a).Nonce
  BY DEF LineInv
<1>5. /\ PoolP!InLine(a)
      /\ pc = "crediting" /\ inflight.From = a => inflight.Nonce = Loaded(accounts, a).Nonce
  BY <1>3 DEF LineInv
<1> DEFINE popped == IF pc = "crediting" THEN NoTx ELSE inflight
           before == [c \in Address |-> Loaded(accounts, c).Nonce]
<1>6. ~(popped # NoTx /\ popped.From = a /\ popped' = NoTx /\ before' = before)
  <2> SUFFICES ASSUME popped # NoTx, popped.From = a, popped' = NoTx PROVE before' # before
    OBVIOUS
  <2>1. ExecuteDebit
    BY OnlyRefusedUnpaid
  <2>2. before'[inflight.From] # before[inflight.From]
    BY <1>4, <2>1
  <2> QED
    BY <2>2
<1>7. PoolP!InLine(a)'
  BY <1>2, <1>5, <1>6, PoolAssumptions, PoolP!NextKeepsLine
<1>8. ASSUME pc' = "crediting", inflight'.From = a
      PROVE  inflight'.Nonce = Loaded(accounts', a).Nonce
  <2>1. CASE ExecuteDebit
    <3>1. inflight.Nonce = Loaded(accounts, a).Nonce + 1
      <4>1. inflight # NoTx /\ pc = "executing" /\ inflight.From = a
        BY <1>4, <1>8, <2>1, NodeAssumption
      <4> QED
        BY <1>5, <4>1 DEF PoolP!InLine
    <3> QED
      BY <1>4, <1>8, <2>1, <3>1
  <2>2. CASE ~ExecuteDebit
    <3>1. ~ExecuteCredit
      BY <1>8 DEF ExecuteCredit
    <3> QED
      BY <1>5, <1>8, <2>2, <3>1, QuietStep
  <2> QED
    BY <2>1, <2>2
<1> QED
  BY <1>7, <1>8

\* The nonces already in the blocks stay where they are, and the next one joins
\* at the end.
LEMMA NextSequence ==
  ASSUME NodeInv, NodeInv', [Next]_nodeVars, CountInv, CountInv', LineInv, PackedInSequence
  PROVE  PackedInSequence'
<1>1. refused \subseteq refused'
  BY DEF Next, pack, NewTx, promoteQueueToPending, CleanExpiredTxs, SetClock, NewBlock, Pack,
         packPop, packNil, ExecuteRefused, ExecuteDebit, ExecuteCredit, Interupt, Finalize, nodeVars
<1> SUFFICES ASSUME NEW a \in Address, a \notin refused', NEW p, p \in PlacesOf(a)'
             PROVE  PackedAt(p)'.Nonce = Loaded(InitAccounts, a).Nonce
                      + Cardinality({q \in PlacesOf(a)' : UpTo(q, p)})
  BY DEF PackedInSequence
<1>2. ASSUME p \in PlacesOf(a)
      PROVE  PackedAt(p).Nonce = Loaded(InitAccounts, a).Nonce
               + Cardinality({q \in PlacesOf(a) : UpTo(q, p)})
  BY <1>1, <1>2 DEF PackedInSequence
<1>3. CASE ~ExecuteCredit
  <2>1. PlacesKept
    BY <1>3, PlacesStep
  <2>2. PlacesOf(a)' = PlacesOf(a)
    BY <2>1, PlacesOfStep
  <2>3. PackedAt(p)' = PackedAt(p)
    BY <2>1, <2>2 DEF PlacesKept, PlacesOf
  <2> QED
    BY <1>2, <2>2, <2>3
<1>4. CASE ExecuteCredit
  <2>1. PICK new : Joins(new)
    BY <1>4, PlacesGrow DEF NodeInv
  <2>2. CASE inflight.From # a
    <3>1. PlacesOf(a)' = PlacesOf(a)
      BY <2>1, <2>2, PlacesOfStep
    <3>2. PackedAt(p)' = PackedAt(p)
      BY <2>1, <3>1 DEF Joins, PlacesOf
    <3> QED
      BY <1>2, <3>1, <3>2
  <2>3. CASE inflight.From = a /\ p # new
    <3>1. PlacesOf(a)' = PlacesOf(a) \union {new}
      BY <2>1, <2>3, PlacesOfStep
    <3>2. p \in PlacesOf(a) /\ PackedAt(p)' = PackedAt(p) /\ ~UpTo(new, p)
      BY <2>1, <2>3, <3>1 DEF Joins, PlacesOf
    <3>3. {q \in PlacesOf(a)' : UpTo(q, p)} = {q \in PlacesOf(a) : UpTo(q, p)}
      BY <3>1, <3>2
    <3> QED
      BY <1>2, <3>2, <3>3
  <2>4. CASE inflight.From = a /\ p = new
    <3>1. PlacesOf(a)' = PlacesOf(a) \union {new}
      BY <2>1, <2>4, PlacesOfStep
    <3>2. \A q \in PlacesOf(a)' : UpTo(q, p)
      BY <2>1, <2>4, <3>1 DEF Joins, PlacesOf
    <3>3. {q \in PlacesOf(a)' : UpTo(q, p)} = PlacesOf(a)'
      BY <3>2
    <3>4. PackedAt(p)' = inflight /\ inflight.Nonce = Loaded(accounts, a).Nonce
      BY <1>1, <1>4, <2>1, <2>4 DEF Joins, LineInv, ExecuteCredit
    <3>5. Loaded(accounts', a).Nonce = Loaded(accounts, a).Nonce
      BY <1>4, CreditFacts DEF ExecuteCredit, NodeInv, TypeOK, PackControl
    <3>6. Loaded(accounts', a).Nonce = Loaded(InitAccounts, a).Nonce + Cardinality(PlacesOf(a)')
      <4>1. PlacesOf(a)' \in SUBSET Places' /\ IsFiniteSet(Places')
        BY DEF PlacesOf, CountInv
      <4>2. Cardinality(PlacesOf(a)') \in Nat /\ Loaded(InitAccounts, a).Nonce \in Nat
        BY <4>1, FS_Subset, FS_CardinalityType, NodeAssumption, LoadedType
      <4>3. pc' # "crediting"
        BY <1>4 DEF ExecuteCredit
      <4> QED
        BY <4>2, <4>3 DEF CountInv, NonceCountsPacked
    <3> QED
      BY <3>3, <3>4, <3>5, <3>6
  <2> QED
    BY <2>2, <2>3, <2>4
<1> QED
  BY <1>3, <1>4

\* The n-th packed transaction of a sender has the account's n-th nonce, across
\* blocks, promotions, replacements and resubmissions, until one is refused.
THEOREM SendersPackedInSequence == Spec => []PackedInSequence
<1>1. Init => PackedInSequence
  BY InitPlaces DEF PackedInSequence, PlacesOf
<1>2. CountInv /\ NodeInv /\ NodeInv' /\ [Next]_nodeVars => CountInv'
  BY NextCount
<1>3. LineInv /\ NodeInv /\ [Next]_nodeVars => LineInv'
  BY NextLine
<1>4. PackedInSequence /\ CountInv /\ CountInv' /\ LineInv /\ NodeInv /\ NodeInv' /\ [Next]_nodeVars
        => PackedInSequence'
  BY NextSequence
<1> QED
  BY <1>1, <1>2, <1>3, <1>4, InitCount, InitLine, NodeInvariant, PTL DEF Spec

-----------------------------------------------------------------------------
(* The sum of all accounts.                                                *)

\* Accounts lists every address once.
LEMMA AccountsFacts ==
  /\ Len(Accounts) \in Nat /\ Accounts \in [1..Len(Accounts) -> Address]
  /\ \A i, j \in 1..Len(Accounts) : Accounts[i] = Accounts[j] => i = j
  /\ \A a \in Address : \E i \in 1..Len(Accounts) : Accounts[i] = a
<1> DEFINE n == Cardinality(Address)
<1>1. IsFiniteSet(Address)
  BY NodeAssumption
<1>2. n \in Nat /\ ExistsBijection(1..n, Address)
  BY <1>1, FS_CardinalityType
<1>3. \E f \in [1..n -> Address] : IsInjective(f)
  BY <1>2 DEF ExistsBijection, Bijection, Injection
<1>4. Accounts = CHOOSE f \in [1..n -> Address] : IsInjective(f)
  BY DEF Accounts, SetToSeq
<1> HIDE DEF n
<1>5. Accounts \in [1..n -> Address] /\ IsInjective(Accounts)
  BY <1>3, <1>4
<1>6. Len(Accounts) = n
  BY <1>2, <1>5, PoolAssumptions, PoolP!FunctionIsSeq
<1>7. \A i, j \in 1..n : Accounts[i] = Accounts[j] => i = j
  BY <1>5 DEF IsInjective
<1>8. \A a \in Address : \E i \in 1..n : Accounts[i] = a
  <2>1. Accounts \in Injection(1..n, Address)
    BY <1>5 DEF Injection
  <2>2. Cardinality(1..n) = Cardinality(Address)
    BY <1>2, FS_Interval DEF n
  <2>3. Accounts \in Surjection(1..n, Address)
    BY <1>1, <2>1, <2>2, FS_Injection
  <2> QED
    BY <2>3 DEF Surjection
<1> QED
  BY <1>2, <1>5, <1>6, <1>7, <1>8

\* The amounts in the accounts, as the supply adds them up.
Amounts(accts) == [i \in 1..Len(Accounts) |-> Loaded(accts, Accounts[i]).Amount]

\* Nobody has more than there is.
LEMMA SupplyFacts ==
  ASSUME NEW accts \in [Address -> Account \union {NoAccount}]
  PROVE  /\ Amounts(accts) \in Seq(Nat) /\ Len(Amounts(accts)) = Len(Accounts)
         /\ Supply(accts) = Total(Amounts(accts)) /\ Supply(accts) \in Nat
         /\ \A a \in Address : Loaded(accts, a).Amount <= Supply(accts)
<1> DEFINE n == Len(Accounts)
           v == Amounts(accts)
<1>1. n \in Nat /\ \A i \in 1..n : Accounts[i] \in Address
  BY AccountsFacts
<1>2. \A i \in 1..n : Loaded(accts, Accounts[i]).Amount \in Nat
  BY <1>1, LoadedType, ExecutionAssumption
<1>3. v = [i \in 1..n |-> Loaded(accts, Accounts[i]).Amount]
  BY DEF Amounts
<1>4. Supply(accts) = Total(v)
  BY DEF Supply, Amounts
<1> HIDE DEF v
<1>5. v \in [1..n -> Nat]
  BY <1>2, <1>3
<1> HIDE DEF n
<1>6. v \in Seq(Nat) /\ Len(v) = n
  BY <1>1, <1>5, PoolAssumptions, PoolP!FunctionIsSeq
<1>7. Total(v) \in Nat /\ \A k \in 1..n : v[k] <= Total(v)
  BY <1>6, TotalBounds
<1>8. ASSUME NEW a \in Address PROVE Loaded(accts, a).Amount <= Supply(accts)
  <2>1. PICK i \in 1..n : Accounts[i] = a
    BY AccountsFacts DEF n
  <2> QED
    BY <1>3, <1>4, <1>7, <2>1
<1> QED
  BY <1>4, <1>6, <1>7, <1>8 DEF v, n

\* When one account changes, the supply changes by as much.
LEMMA SupplyChange ==
  ASSUME NEW old \in [Address -> Account \union {NoAccount}],
         NEW new \in [Address -> Account \union {NoAccount}], NEW a \in Address,
         \A b \in Address \ {a} : Loaded(new, b) = Loaded(old, b)
  PROVE  Supply(new) = Supply(old) - Loaded(old, a).Amount + Loaded(new, a).Amount
<1> DEFINE n == Len(Accounts)
           v == Amounts(old)
           w == Amounts(new)
<1>1. /\ v \in Seq(Nat) /\ Len(v) = n /\ Supply(old) = Total(v)
      /\ w \in Seq(Nat) /\ Len(w) = n /\ Supply(new) = Total(w)
  BY SupplyFacts
<1>2. n \in Nat /\ \A i \in 1..n : Accounts[i] \in Address
  BY AccountsFacts
<1>3. \A i \in 1..n : v[i] = Loaded(old, Accounts[i]).Amount /\ w[i] = Loaded(new, Accounts[i]).Amount
  BY DEF Amounts
<1>4. PICK k \in 1..n : Accounts[k] = a
  BY AccountsFacts
<1>5. \A i \in 1..n : i # k => Accounts[i] # a
  BY <1>4, AccountsFacts
<1> DEFINE x == Loaded(new, a).Amount
<1>6. x \in Nat
  BY LoadedType, ExecutionAssumption
<1>7. v[k] = Loaded(old, a).Amount /\ w[k] = x
  BY <1>3, <1>4
<1> HIDE DEF n, v, w, x
<1>8. \A i \in 1..n : i # k => w[i] = v[i]
  BY <1>2, <1>3, <1>5
<1>9. v \in Seq(Int) /\ x \in Int
  BY <1>1, <1>6, SeqMonotonic
<1>10. /\ [v EXCEPT ![k] = x] \in Seq(Nat) /\ Len([v EXCEPT ![k] = x]) = n
       /\ \A i \in 1..n : [v EXCEPT ![k] = x][i] = IF i = k THEN x ELSE v[i]
  BY <1>1, <1>6, ExceptSeq
<1>11. \A i \in 1..n : w[i] = [v EXCEPT ![k] = x][i]
  BY <1>7, <1>8, <1>10
<1>12. w = [v EXCEPT ![k] = x]
  BY <1>1, <1>10, <1>11, SeqEqual
<1>13. Total(w) = Total(v) - v[k] + x
  BY <1>1, <1>9, <1>12, TotalExcept
<1> QED
  BY <1>1, <1>7, <1>13 DEF x

-----------------------------------------------------------------------------
(* The gas paid for.                                                       *)

GasOf(tx) == IntrinsicGas * tx.GasPrice

Gases(list) == [i \in 1..Len(list) |-> GasOf(list[i])]

LEMMA GasesType ==
  ASSUME NEW list \in Seq(Tx)
  PROVE  /\ Gases(list) \in Seq(Nat) /\ Len(Gases(list)) = Len(list)
         /\ GasPaid(list) = Total(Gases(list)) /\ GasPaid(list) \in Nat
<1> DEFINE n == Len(list)
           v == Gases(list)
<1>1. n \in Nat /\ \A i \in 1..n : list[i] \in Tx
  BY LenProperties, ElementOfSeq
<1>2. \A i \in 1..n : GasOf(list[i]) \in Nat
  BY <1>1, CostType DEF GasOf
<1>3. v \in [1..n -> Nat]
  BY <1>2 DEF Gases
<1>4. GasPaid(list) = Total(v)
  BY DEF GasPaid, Gases, GasOf
<1> HIDE DEF n, v
<1>5. v \in Seq(Nat) /\ Len(v) = n
  BY <1>1, <1>3, PoolAssumptions, PoolP!FunctionIsSeq
<1>6. Total(v) \in Nat
  BY <1>5, TotalBounds
<1> QED
  BY <1>4, <1>5, <1>6 DEF n, v

\* An empty block costs nothing, and one more transaction costs its gas.
LEMMA GasPaidFacts ==
  /\ GasPaid(<<>>) = 0
  /\ \A list \in Seq(Tx), tx \in Tx : GasPaid(Append(list, tx)) = GasPaid(list) + GasOf(tx)
<1>1. GasPaid(<<>>) = 0
  <2>1. PICK none \in Seq(Tx) : none = <<>> /\ Len(none) = 0
    BY EmptySeq
  <2>2. Gases(none) \in Seq(Nat) /\ Len(Gases(none)) = 0 /\ GasPaid(none) = Total(Gases(none))
    BY <2>1, GasesType
  <2>3. Gases(none) \in Seq(Int)
    BY <2>2, SeqMonotonic
  <2> QED
    BY <2>1, <2>2, <2>3, TotalType
<1>2. ASSUME NEW list \in Seq(Tx), NEW tx \in Tx
      PROVE  GasPaid(Append(list, tx)) = GasPaid(list) + GasOf(tx)
  <2> DEFINE n == Len(list)
             more == Append(list, tx)
             v == Gases(list)
             w == Gases(more)
             x == GasOf(tx)
  <2>1. n \in Nat /\ more \in Seq(Tx) /\ Len(more) = n + 1 /\ more[n + 1] = tx
        /\ \A i \in 1..n : more[i] = list[i]
    BY AppendProperties, LenProperties
  <2>2. /\ v \in Seq(Nat) /\ Len(v) = n /\ GasPaid(list) = Total(v)
        /\ w \in Seq(Nat) /\ Len(w) = n + 1 /\ GasPaid(more) = Total(w)
    BY <2>1, GasesType
  <2>3. x \in Nat
    BY CostType DEF GasOf
  <2>4. \A i \in 1..n : v[i] = GasOf(list[i])
    BY DEF Gases
  <2>5. \A i \in 1..(n + 1) : w[i] = GasOf(more[i])
    BY <2>1 DEF Gases
  <2>6. w[n + 1] = x /\ \A i \in 1..n : w[i] = v[i]
    BY <2>1, <2>4, <2>5
  <2> HIDE DEF n, more, v, w, x
  <2>7. /\ Append(v, x) \in Seq(Nat) /\ Len(Append(v, x)) = n + 1 /\ Append(v, x)[n + 1] = x
        /\ \A i \in 1..n : Append(v, x)[i] = v[i]
    BY <2>2, <2>3, AppendProperties
  <2>8. \A i \in 1..(n + 1) : w[i] = Append(v, x)[i]
    <3>1. \A i \in 1..(n + 1) : i \in 1..n \/ i = n + 1
      BY <2>1
    <3> QED
      BY <2>6, <2>7, <3>1
  <2>9. w = Append(v, x)
    BY <2>2, <2>7, <2>8, SeqEqual
  <2>10. v \in Seq(Int) /\ x \in Int
    BY <2>2, <2>3, SeqMonotonic
  <2>11. Total(w) = Total(v) + x
    BY <2>9, <2>10, TotalAppend
  <2> QED
    BY <2>2, <2>11 DEF more, x
<1> QED
  BY <1>1, <1>2

AllGas(bodies) == Total([b \in 1..Len(bodies) |-> GasPaid(bodies[b])])

BlockGases(bodies) == [b \in 1..Len(bodies) |-> GasPaid(bodies[b])]

LEMMA BlockGasesType ==
  ASSUME NEW bodies \in Seq(Seq(Tx))
  PROVE  /\ BlockGases(bodies) \in Seq(Nat) /\ Len(BlockGases(bodies)) = Len(bodies)
         /\ AllGas(bodies) = Total(BlockGases(bodies)) /\ AllGas(bodies) \in Nat
         /\ Len(bodies) = 0 => AllGas(bodies) = 0
<1> DEFINE n == Len(bodies)
           v == BlockGases(bodies)
<1>1. n \in Nat /\ \A b \in 1..n : bodies[b] \in Seq(Tx)
  BY LenProperties, ElementOfSeq
<1>2. \A b \in 1..n : GasPaid(bodies[b]) \in Nat
  BY <1>1, GasesType
<1>3. v \in [1..n -> Nat]
  BY <1>2 DEF BlockGases
<1>4. AllGas(bodies) = Total(v)
  BY DEF AllGas, BlockGases
<1> HIDE DEF n, v
<1>5. v \in Seq(Nat) /\ Len(v) = n
  BY <1>1, <1>3, PoolAssumptions, PoolP!FunctionIsSeq
<1>6. Total(v) \in Nat
  BY <1>5, TotalBounds
<1>7. v \in Seq(Int)
  BY <1>5, SeqMonotonic
<1>8. n = 0 => Total(v) = 0
  BY <1>5, <1>7, TotalType
<1> QED
  BY <1>4, <1>5, <1>6, <1>8 DEF n, v

\* A block joins the others empty.
LEMMA GasOfNewBlock ==
  ASSUME NEW bodies \in Seq(Seq(Tx))
  PROVE  AllGas(Append(bodies, <<>>)) = AllGas(bodies)
<1> DEFINE n == Len(bodies)
           S == Seq(Tx)
           none == <<>>
           more == Append(bodies, none)
           v == BlockGases(bodies)
           w == BlockGases(more)
<1>1. none \in S /\ bodies \in Seq(S) /\ GasPaid(none) = 0
  BY EmptySeq, GasPaidFacts
<1> HIDE DEF S, none
<1>2. n \in Nat /\ more \in Seq(S) /\ Len(more) = n + 1 /\ more[n + 1] = none
      /\ \A b \in 1..n : more[b] = bodies[b]
  BY <1>1, AppendProperties, LenProperties
<1>3. /\ v \in Seq(Nat) /\ Len(v) = n /\ AllGas(bodies) = Total(v) /\ AllGas(bodies) \in Nat
      /\ w \in Seq(Nat) /\ Len(w) = n + 1 /\ AllGas(more) = Total(w)
  BY <1>2, BlockGasesType DEF S
<1>4. \A b \in 1..n : v[b] = GasPaid(bodies[b])
  BY DEF BlockGases
<1>5. \A b \in 1..(n + 1) : w[b] = GasPaid(more[b])
  BY <1>2 DEF BlockGases
<1>6. w[n + 1] = 0 /\ \A b \in 1..n : w[b] = v[b]
  BY <1>1, <1>2, <1>4, <1>5
<1> HIDE DEF n, more, v, w
<1>7. /\ Append(v, 0) \in Seq(Nat) /\ Len(Append(v, 0)) = n + 1 /\ Append(v, 0)[n + 1] = 0
      /\ \A i \in 1..n : Append(v, 0)[i] = v[i]
  BY <1>3, AppendProperties
<1>8. \A i \in 1..(n + 1) : w[i] = Append(v, 0)[i]
  <2>1. \A i \in 1..(n + 1) : i \in 1..n \/ i = n + 1
    BY <1>2
  <2> QED
    BY <1>6, <1>7, <2>1
<1>9. w = Append(v, 0)
  BY <1>3, <1>7, <1>8, SeqEqual
<1>10. v \in Seq(Int)
  BY <1>3, SeqMonotonic
<1>11. Total(w) = Total(v) + 0
  BY <1>9, <1>10, TotalAppend
<1> QED
  BY <1>3, <1>11 DEF more, none

\* A transaction joins the last block.
LEMMA GasOfPacked ==
  ASSUME NEW bodies \in Seq(Seq(Tx)), NEW k \in 1..Len(bodies), NEW tx \in Tx
  PROVE  AllGas([bodies EXCEPT ![k] = Append(bodies[k], tx)]) = AllGas(bodies) + GasOf(tx)
<1> DEFINE n == Len(bodies)
           S == Seq(Tx)
           list == Append(bodies[k], tx)
           more == [bodies EXCEPT ![k] = list]
           v == BlockGases(bodies)
           w == BlockGases(more)
           x == GasPaid(list)
<1>1. n \in Nat /\ k \in 1..n /\ bodies \in Seq(S) /\ bodies[k] \in Seq(Tx)
  BY LenProperties, ElementOfSeq
<1>2. list \in S /\ x = GasPaid(bodies[k]) + GasOf(tx) /\ x \in Nat
      /\ GasPaid(bodies[k]) \in Nat /\ GasOf(tx) \in Nat
  BY <1>1, AppendProperties, GasPaidFacts, GasesType, CostType DEF GasOf
<1> HIDE DEF S, list
<1>3. more \in Seq(S) /\ Len(more) = n /\ \A b \in 1..n : more[b] = IF b = k THEN list ELSE bodies[b]
  BY <1>1, <1>2, ExceptSeq
<1>4. /\ v \in Seq(Nat) /\ Len(v) = n /\ AllGas(bodies) = Total(v) /\ AllGas(bodies) \in Nat
      /\ w \in Seq(Nat) /\ Len(w) = n /\ AllGas(more) = Total(w)
  BY <1>3, BlockGasesType DEF S
<1>5. \A b \in 1..n : v[b] = GasPaid(bodies[b])
  BY DEF BlockGases
<1>6. \A b \in 1..n : w[b] = GasPaid(more[b])
  BY <1>3 DEF BlockGases
<1>7. v[k] = GasPaid(bodies[k]) /\ \A b \in 1..n : w[b] = IF b = k THEN x ELSE v[b]
  BY <1>1, <1>3, <1>5, <1>6
<1> HIDE DEF n, more, v, w, x
<1>8. /\ [v EXCEPT ![k] = x] \in Seq(Nat) /\ Len([v EXCEPT ![k] = x]) = n
      /\ \A b \in 1..n : [v EXCEPT ![k] = x][b] = IF b = k THEN x ELSE v[b]
  BY <1>1, <1>2, <1>4, ExceptSeq
<1>9. w = [v EXCEPT ![k] = x]
  BY <1>4, <1>7, <1>8, SeqEqual
<1>10. v \in Seq(Int) /\ x \in Int
  BY <1>2, <1>4, SeqMonotonic
<1>11. Total(w) = Total(v) - v[k] + x
  BY <1>1, <1>4, <1>9, <1>10, TotalExcept
<1> QED
  BY <1>2, <1>4, <1>7, <1>11 DEF more, list

-----------------------------------------------------------------------------
(* Money is only spent on gas.                                             *)

InTransit == IF pc = "crediting" THEN inflight.Value + GasOf(inflight) ELSE 0

\* The accounts, the gas paid and the value on its way make up what there was.
Balanced == Supply(accounts) + AllGas(Bodies) + InTransit = Supply(InitAccounts)

LEMMA SupplyMeans == SupplyConserved <=> (NothingOverflows => Balanced)
BY DEF SupplyConserved, Balanced, AllGas, InTransit, GasOf

\* What did not overflow after a step did not before.
LEMMA OverflowsStay ==
  ASSUME NodeInv, NodeInv', [Next]_nodeVars, NothingOverflows'
  PROVE  NothingOverflows
<1>1. Supply(InitAccounts) < Word
  BY DEF NothingOverflows
<1>2. CASE ExecuteCredit
  <2>1. PICK p : Joins(p)
    BY <1>2, PlacesGrow DEF NodeInv
  <2>2. \A q \in Places' : Fits(PackedAt(q)')
    BY DEF NothingOverflows, Fits
  <2>3. Fits(inflight)
    BY <2>1, <2>2 DEF Joins
  <2>4. \A q \in Places : Fits(PackedAt(q))
    BY <2>1, <2>2 DEF Joins
  <2> QED
    BY <1>1, <2>3, <2>4 DEF NothingOverflows
<1>3. CASE ~ExecuteCredit
  <2>1. PlacesKept
    BY <1>3, PlacesStep
  <2>2. \A q \in Places' : Fits(PackedAt(q)')
    BY DEF NothingOverflows, Fits
  <2>3. \A q \in Places : Fits(PackedAt(q))
    BY <2>1, <2>2 DEF PlacesKept
  <2>4. ASSUME pc = "crediting" PROVE Fits(inflight)
    <3>1. ~ExecuteDebit
      BY <2>4 DEF ExecuteDebit
    <3>2. pc' = "crediting" /\ inflight' = inflight
      BY <1>3, <2>4, <3>1, QuietStep
    <3> QED
      BY <3>2 DEF NothingOverflows, Fits
  <2> QED
    BY <1>1, <2>3, <2>4 DEF NothingOverflows
<1> QED
  BY <1>2, <1>3

\* The first write takes the cost out of the sender's account.
LEMMA DebitBalanced ==
  ASSUME NodeInv, NodeInv', [Next]_nodeVars, ExecuteDebit, NothingOverflows', Balanced
  PROVE  Balanced'
<1>1. pc = "executing" /\ pc' = "crediting" /\ inflight' = inflight /\ inflight \in Tx
      /\ ~Refuses(accounts, inflight) /\ accounts' = Debit(accounts, inflight)
      /\ accounts \in [Address -> Account \union {NoAccount}]
      /\ accounts' \in [Address -> Account \union {NoAccount}]
  BY DEF ExecuteDebit, NodeInv, TypeOK, PackControl
<1> DEFINE a == inflight.From
           cost == inflight.Value + GasOf(inflight)
<1>2. Bodies' = Bodies
  BY BodiesUntouched DEF ExecuteDebit
<1>3. Fits(inflight)
  BY <1>1 DEF NothingOverflows, Fits
<1>4. cost \in Nat /\ Cost(inflight) = cost
  BY <1>1, <1>3, CostType DEF GasOf
<1>5. a \in Address
  BY <1>1, ExecutionAssumption
<1>6. /\ Loaded(accounts', a).Amount = Loaded(accounts, a).Amount - cost
      /\ \A b \in Address \ {a} : Loaded(accounts', b) = Loaded(accounts, b)
  BY <1>1, <1>4, DebitFacts
<1>7. /\ Loaded(accounts, a).Amount \in Int /\ Supply(accounts) \in Nat /\ Supply(accounts') \in Nat
      /\ AllGas(Bodies) \in Nat
  <2>1. Bodies \in Seq(Seq(Tx))
    BY BodiesFacts DEF NodeInv, BodiesShape
  <2>2. Loaded(accounts, a).Amount \in 0..(Word - 1) /\ Word \in Nat
    BY <1>1, <1>5, LoadedType, ExecutionAssumption
  <2>3. Loaded(accounts, a).Amount \in Int
    BY <2>2
  <2>4. Supply(accounts) \in Nat /\ Supply(accounts') \in Nat
    BY <1>1, SupplyFacts
  <2> QED
    BY <2>1, <2>3, <2>4, BlockGasesType
<1>8. Supply(accounts') = Supply(accounts) - Loaded(accounts, a).Amount + Loaded(accounts', a).Amount
  BY <1>1, <1>5, <1>6, SupplyChange
<1>9. Supply(accounts) + AllGas(Bodies) + 0 = Supply(InitAccounts)
  BY <1>1 DEF Balanced, InTransit
<1>10. InTransit' = cost
  BY <1>1 DEF InTransit, GasOf
<1> HIDE DEF cost, a
<1>11. Supply(accounts') + AllGas(Bodies) + cost = Supply(InitAccounts)
  BY <1>4, <1>6, <1>7, <1>8, <1>9
<1>12. Supply(accounts)' = Supply(accounts') /\ AllGas(Bodies)' = AllGas(Bodies)
  BY <1>2 DEF Supply, AllGas
<1> QED
  BY <1>10, <1>11, <1>12 DEF Balanced

\* The second write gives the receiver the value, which cannot overflow because
\* it was taken out of the same supply; the gas is now in the block.
LEMMA CreditBalanced ==
  ASSUME NodeInv, NodeInv', [Next]_nodeVars, ExecuteCredit, NothingOverflows, Balanced
  PROVE  Balanced'
<1>1. pc = "crediting" /\ pc' = "packing" /\ inflight \in Tx
      /\ accounts' = Credit(accounts, inflight)
      /\ accounts \in [Address -> Account \union {NoAccount}]
      /\ accounts' \in [Address -> Account \union {NoAccount}]
  BY DEF ExecuteCredit, NodeInv, TypeOK, PackControl
<1> DEFINE a == inflight.To
           gas == GasOf(inflight)
           before == AllGas(Bodies)
<1>2. Bodies \in Seq(Seq(Tx)) /\ Len(Bodies) \in 1..Len(Bodies)
      /\ Bodies' = [Bodies EXCEPT ![Len(Bodies)] = Append(Bodies[Len(Bodies)], inflight)]
  <2>1. Bodies \in Seq(Seq(Tx))
    BY BodiesFacts DEF NodeInv, BodiesShape
  <2>2. /\ Len(Bodies) \in Nat \ {0}
        /\ Bodies' = [Bodies EXCEPT ![Len(Bodies)] = Append(Bodies[Len(Bodies)], inflight)]
    BY ExecuteCreditBodies DEF NodeInv
  <2> QED
    BY <2>1, <2>2
<1>3. AllGas(Bodies') = before + gas
  BY <1>1, <1>2, GasOfPacked
<1>4. before \in Nat /\ gas \in Nat /\ inflight.Value \in Nat
  BY <1>1, <1>2, BlockGasesType, CostType DEF GasOf
<1>5. a \in Address /\ Word \in Nat
  BY <1>1, ExecutionAssumption
<1>6. /\ Loaded(accounts', a).Amount = (Loaded(accounts, a).Amount + inflight.Value) % Word
      /\ \A b \in Address \ {a} : Loaded(accounts', b) = Loaded(accounts, b)
  BY <1>1, CreditFacts
<1>7. /\ Loaded(accounts, a).Amount \in Nat /\ Supply(accounts) \in Nat /\ Supply(accounts') \in Nat
      /\ Loaded(accounts, a).Amount <= Supply(accounts)
  <2>1. Loaded(accounts, a).Amount \in 0..(Word - 1)
    BY <1>1, <1>5, LoadedType
  <2>2. Loaded(accounts, a).Amount \in Nat
    BY <1>5, <2>1
  <2>3. Supply(accounts) \in Nat /\ Supply(accounts') \in Nat
    BY <1>1, SupplyFacts
  <2>4. Loaded(accounts, a).Amount <= Supply(accounts)
    BY <1>1, <1>5, SupplyFacts
  <2> QED
    BY <2>2, <2>3, <2>4
<1>8. Supply(accounts) + before + (inflight.Value + gas) = Supply(InitAccounts)
  BY <1>1 DEF Balanced, InTransit
<1>9. Supply(InitAccounts) < Word
  BY DEF NothingOverflows
<1>10. Supply(accounts') = Supply(accounts) - Loaded(accounts, a).Amount + Loaded(accounts', a).Amount
  BY <1>1, <1>5, <1>6, SupplyChange
<1>11. InTransit' = 0
  BY <1>1 DEF InTransit
<1>12. Supply(accounts)' = Supply(accounts') /\ AllGas(Bodies)' = AllGas(Bodies')
  BY DEF Supply, AllGas
<1> HIDE DEF a, gas, before
<1>13. /\ Loaded(accounts, a).Amount + inflight.Value \in Nat
       /\ Loaded(accounts, a).Amount + inflight.Value < Word
  BY <1>4, <1>5, <1>7, <1>8, <1>9
<1>14. Loaded(accounts', a).Amount = Loaded(accounts, a).Amount + inflight.Value
  BY <1>6, <1>13, ModWord
<1>15. Supply(accounts') + (before + gas) + 0 = Supply(InitAccounts)
  BY <1>4, <1>7, <1>8, <1>10, <1>14
<1> QED
  BY <1>3, <1>11, <1>12, <1>15 DEF Balanced

LEMMA NextSupply ==
  ASSUME NodeInv, NodeInv', [Next]_nodeVars, SupplyConserved
  PROVE  SupplyConserved'
<1>1. SUFFICES ASSUME NothingOverflows' PROVE Balanced'
  <2>1. SupplyConserved' <=> (NothingOverflows' => Balanced')
    BY SupplyMeans, PTL
  <2> QED
    BY <2>1
<1>2. NothingOverflows /\ Balanced
  BY <1>1, OverflowsStay, SupplyMeans
<1>3. CASE ExecuteDebit
  BY <1>1, <1>2, <1>3, DebitBalanced
<1>4. CASE ExecuteCredit
  BY <1>2, <1>4, CreditBalanced
<1>5. CASE ~ExecuteDebit /\ ~ExecuteCredit
  <2>1. accounts' = accounts /\ InTransit' = InTransit
    BY <1>5, QuietStep DEF InTransit, GasOf
  <2>2. AllGas(Bodies') = AllGas(Bodies)
    <3>1. Bodies \in Seq(Seq(Tx))
      BY BodiesFacts DEF NodeInv, BodiesShape
    <3>2. CASE NewBlock
      BY <3>1, <3>2, NewBlockBodies, GasOfNewBlock DEF NodeInv
    <3>3. CASE Finalize
      BY <3>3, FinalizeBodies DEF NodeInv
    <3> QED
      BY <1>5, <3>2, <3>3, BodiesUntouched
      DEF Next, pack, NewTx, promoteQueueToPending, CleanExpiredTxs, SetClock, Pack, packPop,
          packNil, ExecuteRefused, Interupt, nodeVars
  <2>3. Supply(accounts)' = Supply(accounts) /\ AllGas(Bodies)' = AllGas(Bodies)
    BY <2>1, <2>2 DEF Supply, AllGas
  <2> QED
    BY <1>2, <2>1, <2>3 DEF Balanced
<1> QED
  BY <1>3, <1>4, <1>5

\* As long as nothing overflows, no money appears and none but the gas
\* disappears, transfers to oneself and to new accounts included.
THEOREM MoneyIsConserved == Spec => []SupplyConserved
<1>1. Init => SupplyConserved
  <2> SUFFICES ASSUME Init PROVE Balanced
    BY SupplyMeans
  <2>1. Bodies \in Seq(Seq(Tx)) /\ Len(Bodies) = 0
    BY InitNodeInv, InitPlaces, BodiesFacts DEF NodeInv, BodiesShape
  <2>2. AllGas(Bodies) = 0
    BY <2>1, BlockGasesType
  <2>3. accounts = InitAccounts /\ InTransit = 0 /\ Supply(InitAccounts) \in Nat
    BY NodeAssumption, SupplyFacts DEF Init, InTransit
  <2> QED
    BY <2>2, <2>3 DEF Balanced
<1>2. SupplyConserved /\ NodeInv /\ NodeInv' /\ [Next]_nodeVars => SupplyConserved'
  BY NextSupply
<1> QED
  BY <1>1, <1>2, NodeInvariant, PTL DEF Spec
=============================================================================
