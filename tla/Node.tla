-------------------------------- MODULE Node --------------------------------
(***************************************************************************)
(* The whole node: main.go's driver, the transaction pool, the state       *)
(* database, the state machine and the BlockMaker of maker/blockmaker.go.  *)
(*                                                                         *)
(* The pool is module TxPool with the accounts' nonces for its variable    *)
(* nonce.  The driver submits transactions and makes blocks by NewBlock,   *)
(* Pack and Finalize, one call after the other; Pack is a loop of pack     *)
(* calls, each of which pops a transaction and executes it in two writes.  *)
(* Only Interupt may be called while Pack runs: it is the maker's one      *)
(* operation meant for another goroutine.                                  *)
(*                                                                         *)
(* A header's hash is modelled as the header itself, which makes Hash      *)
(* injective.                                                              *)
(***************************************************************************)
EXTENDS StateMachine, Sequences, FiniteSets, SequencesExt, Sums

CONSTANTS
  NoTx, NoAddr, ExpireSec, MinNonces, MaxClock, MaxBoxes, \* as in TxPool
  InitAccounts, \* the accounts the driver stores before it starts
  NoHash,       \* the zero hash
  NoBlock,      \* nil, for nextHeader and nextBody
  MaxBlocks     \* bound: how many blocks the driver makes

VARIABLES
  heap, pendings, queue, txs, time, clock, promoting, \* the pool, as in TxPool
  accounts,      \* the state database
  inflight,      \* the transaction pack is executing
  pc,            \* where the driver is: ready, packing, executing, crediting
  nextHeader,    \* the header under construction
  nextBody,      \* the body under construction
  interupt,      \* how many signals are in the maker's channel (capacity 1)
  currentHeader, \* chain.CurrentHeader
  blocks,        \* history: the finalized blocks, oldest first
  refused        \* history: the senders of transactions that failed

poolVars  == <<heap, pendings, queue, txs, time, clock, promoting>>
makerVars == <<nextHeader, nextBody, currentHeader, blocks>>
nodeVars  == <<poolVars, accounts, inflight, pc, makerVars, interupt, refused>>

\* A debited transaction is settled as far as the pool can tell.
Pool == INSTANCE TxPool WITH
          nonce      <- [a \in Address |-> Loaded(accounts, a).Nonce],
          inflight   <- IF pc = "crediting" THEN NoTx ELSE inflight,
          InitNonces <- {Loaded(InitAccounts, a).Nonce : a \in Address}

-----------------------------------------------------------------------------
(* Headers.                                                                *)

Hash(header) == header

Genesis == [Root |-> NoHash, ParentHash |-> NoHash, Height |-> 0, Timestamp |-> 0]

Header == [Root : {NoHash}, ParentHash : {NoHash, Genesis}, Height : Nat, Timestamp : Nat]

Body == [Transactions : Seq(Tx), Receiptions : Seq([Status : {1}, GasUsed : {IntrinsicGas}])]

ASSUME NodeAssumption ==
  /\ NoTx \notin Tx /\ NoAddr \notin Address /\ IsFiniteSet(Address)
  /\ ExpireSec \in Nat /\ MaxClock \in Nat /\ MaxBoxes \in Nat /\ MaxBlocks \in Nat
  /\ Word > ExpireSec + MaxClock /\ MinNonces \subseteq Nat
  /\ InitAccounts \in [Address -> Account \union {NoAccount}]
  /\ NoBlock \notin Header \union Body

NewHeader(parent) ==
  [Root |-> parent.Root, ParentHash |-> Hash(parent), Height |-> parent.Height + 1, Timestamp |-> 0]

\* The maker's own copy of the chain, made when the maker was: it does not see
\* what the driver assigns to chain.CurrentHeader later.
MakerCurrentHeader == Genesis

-----------------------------------------------------------------------------
(* The driver's calls into the pool.                                       *)

Ready == pc = "ready" /\ promoting = NoAddr

NewTx(tx) ==
  /\ pc = "ready"
  /\ UNCHANGED <<accounts, inflight, pc, makerVars, interupt, refused>>
  /\ Pool!NewTx(tx) \/ Pool!NewTxStale(tx)

promoteQueueToPending ==
  /\ UNCHANGED <<accounts, inflight, pc, makerVars, interupt, refused>>
  /\ Pool!promoteQueueToPending

CleanExpiredTxs(m) ==
  /\ pc = "ready"
  /\ UNCHANGED <<accounts, inflight, pc, makerVars, interupt, refused>>
  /\ Pool!CleanExpiredTxs(m)

SetClock(t) ==
  /\ UNCHANGED <<accounts, inflight, pc, makerVars, interupt, refused>>
  /\ Pool!SetClock(t)

-----------------------------------------------------------------------------
(* BlockMaker.                                                             *)

\* A driver starts a block when it has none under construction.
NewBlock ==
  /\ Ready /\ nextHeader = NoBlock /\ Len(blocks) < MaxBlocks
  /\ nextBody' = [Transactions |-> <<>>, Receiptions |-> <<>>]
  /\ nextHeader' = [NewHeader(MakerCurrentHeader) EXCEPT !.Timestamp = clock]
  /\ UNCHANGED <<poolVars, accounts, inflight, pc, currentHeader, blocks, interupt, refused>>

\* The call of Pack.
Pack ==
  /\ Ready /\ nextHeader # NoBlock
  /\ pc' = "packing"
  /\ UNCHANGED <<poolVars, accounts, inflight, makerVars, interupt, refused>>

\* pack: the pool hands out a transaction.
packPop ==
  /\ pc = "packing"
  /\ pc' = "executing"
  /\ \E a \in Address :
       /\ pendings[a] # <<>>
       /\ inflight' = heap[pendings[a][1]][1]
       /\ UNCHANGED <<accounts, makerVars, interupt, refused>>
       /\ Pool!PopPendingTx(a)

\* Mutant: pack returns true.
packNilGoesOn ==
  /\ pc = "packing"
  /\ \A a \in Address : pendings[a] = <<>>
  /\ UNCHANGED nodeVars

\* pack: the pool has nothing, and Pack returns.
packNil ==
  /\ pc = "packing"
  /\ pc' = "ready"
  /\ UNCHANGED <<poolVars, accounts, inflight, makerVars, interupt, refused>>
  /\ \A a \in Address : pendings[a] = <<>>

\* Execute returns status 0: the transaction is gone and Pack returns.
ExecuteRefused ==
  /\ pc = "executing" /\ Refuses(accounts, inflight)
  /\ pc' = "ready"
  /\ inflight' = NoTx
  /\ refused' = refused \union {inflight.From}
  /\ UNCHANGED <<poolVars, accounts, makerVars, interupt>>

\* Execute's first write.
ExecuteDebit ==
  /\ pc = "executing" /\ ~Refuses(accounts, inflight)
  /\ pc' = "crediting"
  /\ accounts' = Debit(accounts, inflight)
  /\ UNCHANGED <<poolVars, inflight, makerVars, interupt, refused>>

\* Mutant: the body is left alone.
ExecuteCreditUnpacked ==
  /\ pc = "crediting"
  /\ pc' = "packing"
  /\ accounts' = Credit(accounts, inflight)
  /\ inflight' = NoTx
  /\ UNCHANGED <<poolVars, makerVars, interupt, refused>>

\* Execute's second write; pack puts the transaction and its receipt in the
\* body and goes on.
ExecuteCredit ==
  /\ pc = "crediting"
  /\ pc' = "packing"
  /\ accounts' = Credit(accounts, inflight)
  /\ nextBody' = [Transactions |-> Append(nextBody.Transactions, inflight),
                  Receiptions  |-> Append(nextBody.Receiptions, [Status |-> 1, GasUsed |-> IntrinsicGas])]
  /\ inflight' = NoTx
  /\ UNCHANGED <<poolVars, nextHeader, currentHeader, blocks, interupt, refused>>

\* A full channel swallows the signal.
Interupt ==
  /\ interupt' = 1
  /\ UNCHANGED <<poolVars, accounts, inflight, pc, makerVars, refused>>

\* Finalize hands out the block and the driver records it.
Finalize ==
  /\ Ready /\ nextHeader # NoBlock
  /\ LET head == [nextHeader EXCEPT !.Timestamp = clock]
     IN  /\ currentHeader' = head
         /\ blocks' = Append(blocks, [Header |-> head, Body |-> nextBody])
  /\ nextHeader' = NoBlock
  /\ nextBody' = NoBlock
  /\ UNCHANGED <<poolVars, accounts, inflight, pc, interupt, refused>>

-----------------------------------------------------------------------------
Init ==
  /\ accounts = InitAccounts
  /\ pc = "ready"
  /\ inflight = NoTx
  /\ nextHeader = NoBlock
  /\ nextBody = NoBlock
  /\ interupt = 0
  /\ currentHeader = Genesis
  /\ blocks = <<>>
  /\ refused = {}
  /\ Pool!Init

\* One turn of Pack's loop, in all its steps.
pack == packPop \/ packNil \/ ExecuteRefused \/ ExecuteDebit \/ ExecuteCredit

Next ==
  \/ \E tx \in Tx : NewTx(tx)
  \/ promoteQueueToPending
  \/ \E m \in [Address -> MinNonces] : CleanExpiredTxs(m)
  \/ \E t \in 0..MaxClock : SetClock(t)
  \/ NewBlock
  \/ Pack
  \/ pack
  \/ Interupt
  \/ Finalize

Spec == Init /\ [][Next]_nodeVars

\* A call that has begun runs on: Pack's loop and the promotion loop.
FairSpec == Spec /\ WF_nodeVars(pack) /\ WF_nodeVars(promoteQueueToPending)

-----------------------------------------------------------------------------
(* Properties.                                                             *)

TypeOK ==
  /\ accounts \in [Address -> Account \union {NoAccount}]
  /\ inflight \in Tx \union {NoTx}
  /\ pc \in {"ready", "packing", "executing", "crediting"}
  /\ nextHeader \in Header \union {NoBlock}
  /\ nextBody \in Body \union {NoBlock}
  /\ currentHeader \in Header
  /\ blocks \in Seq([Header : Header, Body : Body])
  /\ interupt \in {0, 1}
  /\ refused \subseteq Address

\* A transaction is in flight while pack executes it, and Pack has a block to
\* fill.
PackControl ==
  /\ inflight # NoTx <=> pc \in {"executing", "crediting"}
  /\ nextBody = NoBlock <=> nextHeader = NoBlock
  /\ pc # "ready" => nextHeader # NoBlock

\* The node's inductive invariant, the pool's included.
NodeInv == TypeOK /\ PackControl /\ Pool!PoolInv

\* The transactions of every block, oldest first, the body under construction
\* last.
Bodies ==
  [b \in 1..Len(blocks) |-> blocks[b].Body.Transactions]
    \o (IF nextBody = NoBlock THEN <<>> ELSE <<nextBody.Transactions>>)

\* Where a transaction was packed: its block and its place in the block.
Places == UNION {{b} \X (1..Len(Bodies[b])) : b \in 1..Len(Bodies)}

PackedAt(p) == Bodies[p[1]][p[2]]

PlacesOf(a) == {p \in Places : PackedAt(p).From = a}

\* Place p is not after place q.
UpTo(p, q) == p[1] < q[1] \/ (p[1] = q[1] /\ p[2] <= q[2])

\* The state and the blocks agree: an account's nonce has gone up once for each
\* of its transactions in a block, no more and no less, refused ones and
\* transfers to itself or to others included.
NonceCountsPacked ==
  \A a \in Address :
    Loaded(accounts, a).Nonce =
      Loaded(InitAccounts, a).Nonce + Cardinality(PlacesOf(a))
        + (IF pc = "crediting" /\ inflight.From = a THEN 1 ELSE 0)

Accounts == SetToSeq(Address)

Supply(accts) == Total([i \in 1..Len(Accounts) |-> Loaded(accts, Accounts[i]).Amount])

GasPaid(list) == Total([i \in 1..Len(list) |-> IntrinsicGas * list[i].GasPrice])

\* The cost of tx does not exceed a uint64.
Fits(tx) == tx.Value + IntrinsicGas * tx.GasPrice < Word

\* Neither all the money there is nor the cost of any transaction taken from its
\* sender exceeds a uint64.
NothingOverflows ==
  /\ Supply(InitAccounts) < Word
  /\ \A p \in Places : Fits(PackedAt(p))
  /\ pc = "crediting" => Fits(inflight)

\* No money appears and none but the gas disappears, as long as nothing
\* overflows; between Execute's two writes the value is on its way.
SupplyConserved ==
  NothingOverflows =>
    Supply(accounts) + Total([b \in 1..Len(Bodies) |-> GasPaid(Bodies[b])])
      + (IF pc = "crediting" THEN inflight.Value + IntrinsicGas * inflight.GasPrice ELSE 0)
      = Supply(InitAccounts)

\* As long as none of a sender's transactions was refused, they are packed in
\* nonce order from the account's first nonce on, none twice and none left out,
\* across blocks, resubmissions and replacements: the n-th of them has the
\* account's n-th nonce.
PackedInSequence ==
  \A a \in Address \ refused : \A p \in PlacesOf(a) :
    PackedAt(p).Nonce =
      Loaded(InitAccounts, a).Nonce + Cardinality({q \in PlacesOf(a) : UpTo(q, p)})

\* The accounts' nonces move only as the pool expects: the pool's specification
\* is implemented with the state database's nonces for its own.
PoolSpec == Pool!Spec

\* Pack returns: its loop ends although it never looks at its interrupt channel
\* nor at the configured duration.
PackReturns == pc # "ready" ~> pc = "ready"

\* README: blocks form a chain by hash.
ChainLinked ==
  \A i \in 1..(Len(blocks) - 1) : blocks[i + 1].Header.ParentHash = Hash(blocks[i].Header)

\* The pool's test: of two transactions with the same nonce one is replaced or
\* rejected, so no sender has two of the same nonce in the blocks.
SameNonceOnce ==
  \A a \in Address : \A p, q \in PlacesOf(a) : p # q => PackedAt(p).Nonce # PackedAt(q).Nonce
=============================================================================
