------------------------------- MODULE TxPool -------------------------------
(***************************************************************************)
(* The transaction pool of txpool/default.go (DefaultPool).                *)
(*                                                                         *)
(* A sender's executable transactions sit in pendings[a], a list of boxes  *)
(* (the code's DefaultSortedTxs, a slice of transactions).  A box is a     *)
(* heap object: the same pointer sits in pendings[a] and in the global     *)
(* price list txs, so a box is an index into heap, and heap never shrinks  *)
(* because txs never lets go of a box.  Transactions that wait for an      *)
(* earlier nonce sit in queue[a].                                          *)
(*                                                                         *)
(* The pool reads account nonces from the state database.  Here they are   *)
(* the variable nonce (0 for an account the database does not hold), which *)
(* changes only when a transaction taken from the pool has been executed,  *)
(* the discipline of BlockMaker.pack and of the pool's own test.           *)
(*                                                                         *)
(* pushPendingTx and promoteQueueToPending call each other in a loop; one  *)
(* iteration of that loop is one step, and promoting is the loop's control *)
(* state.  No other pool operation can start before the loop has ended.    *)
(***************************************************************************)
EXTENDS Integers, Sequences, FiniteSets, Functions

CONSTANTS
  Address,    \* the senders
  Tx,         \* the transaction objects: records with From, Nonce, GasPrice
  NoTx,       \* the nil transaction
  NoAddr,     \* no sender
  ExpireSec,  \* seconds a queued transaction may live (600 in the code)
  Word,       \* 2^64, the range of the code's uint64 clock arithmetic
  InitNonces, \* account nonces the state database may start with
  MinNonces,  \* the values a caller of CleanExpiredTxs may ask for
  MaxClock,   \* bound: the largest clock reading
  MaxBoxes    \* bound: how many boxes are ever allocated

ASSUME TxAssumption ==
  /\ \A tx \in Tx : tx.From \in Address /\ tx.Nonce \in Nat /\ tx.GasPrice \in Nat
  /\ NoTx \notin Tx
  /\ NoAddr \notin Address

ASSUME ClockAssumption ==
  /\ ExpireSec \in Nat /\ MaxClock \in Nat /\ MaxBoxes \in Nat
  /\ Word \in Nat /\ Word > ExpireSec + MaxClock
  /\ MinNonces \subseteq Nat /\ InitNonces \subseteq Nat

VARIABLES
  heap,       \* every box ever made, emptied ones included
  pendings,   \* pool.pendings: sender -> boxes, oldest nonce first
  queue,      \* pool.queue: sender -> waiting transactions
  txs,        \* pool.txs: all boxes, by gas price
  time,       \* tx.Time of every transaction object
  clock,      \* the wall clock, in seconds
  nonce,      \* stat.Load(a).Nonce
  inflight,   \* the transaction popped and not yet executed
  promoting   \* the sender whose queue is being promoted

vars == <<heap, pendings, queue, txs, time, clock, nonce, inflight, promoting>>

-----------------------------------------------------------------------------
(* DefaultSortedTxs: operations on one box.                                *)

GasPrice(box) == IF box = <<>> THEN 0 ELSE box[1].GasPrice

FirstNonce(box) == IF box = <<>> THEN 0 ELSE box[1].Nonce

LastNonce(box) == IF box = <<>> THEN 0 ELSE box[Len(box)].Nonce

\* Mutant: the nonce is not compared.
ReplaceFirst(box, tx) == [i \in 1..Len(box) |-> IF i = 1 THEN tx ELSE box[i]]

\* The first transaction of the box with tx's nonce makes way for tx.
Replace(box, tx) ==
  [i \in 1..Len(box) |->
     IF box[i].Nonce = tx.Nonce /\ \A j \in 1..(i - 1) : box[j].Nonce # tx.Nonce
       THEN tx ELSE box[i]]

-----------------------------------------------------------------------------
(* Sorting and filtering, by what they return.                             *)

\* The orders in which a sort may leave s (sort.Sort is not stable).
Rearrangements(s) ==
  {[i \in 1..Len(s) |-> s[p[i]]] : p \in Injection(1..Len(s), 1..Len(s))}

NonceSorted(s) == \A i, j \in 1..Len(s) : i < j => s[i].Nonce <= s[j].Nonce

PriceSorted(boxes, bs) ==
  \A i, j \in 1..Len(bs) : i < j => GasPrice(boxes[bs[i]]) <= GasPrice(boxes[bs[j]])

\* The elements of s at the indices K, in the order of s.
Selections(s, K) ==
  LET n == Cardinality(K)
  IN  {[i \in 1..n |-> s[f[i]]] :
         f \in {g \in [1..n -> K] : \A i, j \in 1..n : i < j => g[i] < g[j]}}

-----------------------------------------------------------------------------
(* The pool's inner functions.                                             *)

Idle == promoting = NoAddr /\ inflight = NoTx

LastBox(a) == heap[pendings[a][Len(pendings[a])]]

\* Mutant: the last box's first nonce.
TopNonceOfFirst(a) == IF pendings[a] = <<>> THEN nonce[a] ELSE FirstNonce(LastBox(a))

\* The nonce NewTx compares with: that of the last pending transaction, and
\* the account's when nothing is pending.
TopNonce(a) == IF pendings[a] = <<>> THEN nonce[a] ELSE LastNonce(LastBox(a))

makeNewBlock(a, tx) ==
  /\ heap' = Append(heap, <<tx>>)
  /\ pendings' = [pendings EXCEPT ![a] = Append(@, Len(heap) + 1)]
  /\ txs' \in {bs \in Rearrangements(Append(txs, Len(heap) + 1)) : PriceSorted(heap', bs)}

\* Push onto the last box.
Push(a, tx) ==
  /\ heap' = [heap EXCEPT ![pendings[a][Len(pendings[a])]] = Append(@, tx)]
  /\ UNCHANGED <<pendings, txs>>

\* Mutant: the queue is not promoted.
pushPendingTxOnly(a, tx) ==
  /\ IF pendings[a] # <<>> /\ GasPrice(LastBox(a)) <= tx.GasPrice
       THEN Push(a, tx)
       ELSE makeNewBlock(a, tx)
  /\ UNCHANGED promoting

pushPendingTx(a, tx) ==
  /\ IF pendings[a] # <<>> /\ GasPrice(LastBox(a)) <= tx.GasPrice
       THEN Push(a, tx)
       ELSE makeNewBlock(a, tx)
  /\ promoting' = a

addQueue(tx) ==
  LET a    == tx.From
      list == queue[a]
      Same == {i \in 1..Len(list) : list[i].Nonce = tx.Nonce}
      \* at most one: the first of them
      new  == IF Same = {} THEN Append(list, tx)
              ELSE [i \in 1..Len(list) |->
                      IF /\ i \in Same
                         /\ \A j \in Same : i <= j
                         /\ tx.GasPrice > list[i].GasPrice
                        THEN tx ELSE list[i]]
  IN  /\ \E q \in {r \in Rearrangements(new) : NonceSorted(r)} :
           queue' = [queue EXCEPT ![a] = q]
      /\ UNCHANGED <<heap, pendings, txs, promoting>>

\* Box b may take tx in place of its transaction of that nonce.
Accepts(box, tx) ==
  /\ FirstNonce(box) <= tx.Nonce /\ tx.Nonce <= LastNonce(box)
  /\ GasPrice(box) <= tx.GasPrice

replacePendingTx(a, tx) ==
  LET boxes == pendings[a]
      Fit   == {k \in 1..Len(boxes) : Accepts(heap[boxes[k]], tx)}
  IN  /\ heap' = [b \in 1..Len(heap) |->
                    IF \E k \in Fit : boxes[k] = b /\ \A j \in Fit : k <= j
                      THEN Replace(heap[b], tx) ELSE heap[b]]
      /\ UNCHANGED <<pendings, queue, txs, promoting>>

-----------------------------------------------------------------------------
(* The pool's operations.                                                  *)

\* Bound: every queued transaction may need a box when it is promoted.
HasRoom(a) == Len(heap) + Len(queue[a]) < MaxBoxes

NewTx(tx) ==
  /\ Idle /\ HasRoom(tx.From)
  /\ tx.Nonce >= nonce[tx.From]
  /\ time' = [time EXCEPT ![tx] = clock]
  /\ \/ tx.Nonce > TopNonce(tx.From) + 1 /\ addQueue(tx)
     \/ tx.Nonce = TopNonce(tx.From) + 1 /\ pushPendingTx(tx.From, tx) /\ UNCHANGED queue
     \/ tx.Nonce < TopNonce(tx.From) + 1 /\ replacePendingTx(tx.From, tx)
  /\ UNCHANGED <<clock, nonce, inflight>>

\* The early return for a transaction older than the account.
NewTxStale(tx) ==
  /\ Idle
  /\ tx.Nonce < nonce[tx.From]
  /\ UNCHANGED vars

popFromQueue(a) == queue' = [queue EXCEPT ![a] = Tail(@)]

\* Mutant: a head beyond the next nonce is promoted too.
promoteAnyHead ==
  LET a == promoting
  IN  /\ promoting # NoAddr
      /\ IF queue[a] # <<>> /\ queue[a][1].Nonce >= TopNonce(a) + 1
           THEN popFromQueue(a) /\ pushPendingTx(a, queue[a][1])
           ELSE /\ promoting' = NoAddr
                /\ UNCHANGED <<heap, pendings, queue, txs>>
      /\ UNCHANGED <<time, clock, nonce, inflight>>

\* One round of the loop that moves the queue's head to the pending boxes.
promoteQueueToPending ==
  LET a == promoting
  IN  /\ promoting # NoAddr
      /\ IF queue[a] # <<>> /\ queue[a][1].Nonce = TopNonce(a) + 1
           THEN popFromQueue(a) /\ pushPendingTx(a, queue[a][1])
           ELSE /\ promoting' = NoAddr
                /\ UNCHANGED <<heap, pendings, queue, txs>>
      /\ UNCHANGED <<time, clock, nonce, inflight>>

\* Mutant: an emptied box stays.
PopKeepingBox(a) ==
  /\ Idle /\ pendings[a] # <<>>
  /\ LET b == pendings[a][1]
     IN  /\ inflight' = heap[b][1]
         /\ heap' = [heap EXCEPT ![b] = Tail(@)]
  /\ UNCHANGED <<pendings, queue, txs, time, clock, nonce, promoting>>

\* Take the first transaction of a's first box; an emptied box is dropped.
PopPendingTx(a) ==
  /\ Idle /\ pendings[a] # <<>>
  /\ LET b == pendings[a][1]
     IN  /\ inflight' = heap[b][1]
         /\ heap' = [heap EXCEPT ![b] = Tail(@)]
         /\ pendings' = IF Len(heap[b]) = 1
                          THEN [pendings EXCEPT ![a] = Tail(@)] ELSE pendings
  /\ UNCHANGED <<queue, txs, time, clock, nonce, promoting>>

\* Pop ranges over a Go map: any sender that has a box may come first.
Pop == \E a \in Address : PopPendingTx(a)

\* With no pending box Pop returns nil.
PopNil == Idle /\ (\A a \in Address : pendings[a] = <<>>) /\ UNCHANGED vars

\* Mutant: one second too many.
AgePlusOne(now, stamp) == (now - stamp + 1) % Word

\* uint64 subtraction: a stamp from the future looks very old.
Age(now, stamp) == (now - stamp) % Word

CleanExpiredTxs(minNonceMap) ==
  LET Keep(a) == {i \in 1..Len(queue[a]) : /\ queue[a][i].Nonce >= minNonceMap[a]
                                           /\ Age(clock, time[queue[a][i]]) <= ExpireSec}
      Kept(a) == Selections(queue[a], Keep(a))
  IN  /\ Idle
      /\ queue' \in {q \in [Address -> UNION {Kept(a) : a \in Address}] :
                       \A a \in Address : q[a] \in Kept(a)}
      /\ UNCHANGED <<heap, pendings, txs, time, clock, nonce, inflight, promoting>>

-----------------------------------------------------------------------------
(* What happens around the pool.                                           *)

\* The popped transaction was executed: its sender's nonce goes up by one.
IncNonce ==
  /\ inflight # NoTx
  /\ nonce' = [nonce EXCEPT ![inflight.From] = @ + 1]
  /\ inflight' = NoTx
  /\ UNCHANGED <<heap, pendings, queue, txs, time, clock, promoting>>

\* The popped transaction failed: nothing takes it back into the pool.
Discard ==
  /\ inflight # NoTx
  /\ inflight' = NoTx
  /\ UNCHANGED <<heap, pendings, queue, txs, time, clock, nonce, promoting>>

\* The wall clock moves, and may be set back.
SetClock(t) ==
  /\ t # clock
  /\ clock' = t
  /\ UNCHANGED <<heap, pendings, queue, txs, time, nonce, inflight, promoting>>

-----------------------------------------------------------------------------
Init ==
  /\ heap = <<>>
  /\ pendings = [a \in Address |-> <<>>]
  /\ queue = [a \in Address |-> <<>>]
  /\ txs = <<>>
  /\ time = [tx \in Tx |-> 0]
  /\ clock = 0
  /\ nonce \in [Address -> InitNonces]
  /\ inflight = NoTx
  /\ promoting = NoAddr

Next ==
  \/ \E tx \in Tx : NewTx(tx) \/ NewTxStale(tx)
  \/ promoteQueueToPending
  \/ Pop
  \/ PopNil
  \/ \E m \in [Address -> MinNonces] : CleanExpiredTxs(m)
  \/ IncNonce
  \/ Discard
  \/ \E t \in 0..MaxClock : SetClock(t)

Spec == Init /\ [][Next]_vars

-----------------------------------------------------------------------------
(* Properties.                                                             *)

TypeOK ==
  /\ heap \in Seq(Seq(Tx))
  /\ pendings \in [Address -> Seq(1..Len(heap))]
  /\ queue \in [Address -> Seq(Tx)]
  /\ txs \in Seq(1..Len(heap))
  /\ time \in [Tx -> Nat]
  /\ clock \in Nat
  /\ nonce \in [Address -> Nat]
  /\ inflight \in Tx \union {NoTx}
  /\ promoting \in Address \union {NoAddr}

\* No box is shared: a box pointer sits in one slot of one sender's pendings
\* (Push, Replace and Pop write through the pointer, so a shared box would
\* leak one sender's change into another's), and no pending box is empty, which
\* is what lets PopPendingTx index it and LastNonce answer for it.
BoxesExclusive ==
  \A a \in Address : \A i \in 1..Len(pendings[a]) :
    /\ heap[pendings[a][i]] # <<>>
    /\ \A b \in Address : \A j \in 1..Len(pendings[b]) :
         pendings[a][i] = pendings[b][j] => a = b /\ i = j

\* A sender's transactions stay with that sender: everything filed under an
\* address in pendings or queue was signed by it.
SignedBy(a, list) == \A k \in 1..Len(list) : list[k].From = a

PendingFiled ==
  \A a \in Address : \A i \in 1..Len(pendings[a]) : SignedBy(a, heap[pendings[a][i]])

QueueFiled == \A a \in Address : SignedBy(a, queue[a])

FiledBySender == PendingFiled /\ QueueFiled

Consecutive(box) == \A k \in 1..(Len(box) - 1) : box[k + 1].Nonce = box[k].Nonce + 1

\* Read box after box, a sender's pending nonces are consecutive: no gap and no
\* duplicate, across NewTx, promotion, replacement and Pop.
PendingConsecutive ==
  \A a \in Address : \A i \in 1..Len(pendings[a]) :
    /\ Consecutive(heap[pendings[a][i]])
    /\ i < Len(pendings[a]) =>
         FirstNonce(heap[pendings[a][i + 1]]) = LastNonce(heap[pendings[a][i]]) + 1

\* Nothing that is or was executable is stale: the account's nonce is below the
\* transaction in flight, and the one in flight is just below the pending ones,
\* so Execute never meets a pending transaction the account has passed.
AccountBehindPending ==
  \A a \in Address :
    /\ inflight # NoTx /\ inflight.From = a => nonce[a] < inflight.Nonce
    /\ pendings[a] # <<>> =>
         /\ nonce[a] < FirstNonce(heap[pendings[a][1]])
         /\ inflight # NoTx /\ inflight.From = a =>
              FirstNonce(heap[pendings[a][1]]) = inflight.Nonce + 1

Increasing(list) ==
  \A i, j \in 1..Len(list) : i < j => list[i].Nonce < list[j].Nonce

\* The queue is kept in strictly increasing nonce order, one transaction per
\* nonce: promotion only ever looks at its head.
QueueOrdered == \A a \in Address : Increasing(queue[a])

\* The highest nonce of a that has reached pending, or the account's nonce.
ReachedNonce(a) ==
  IF pendings[a] = <<>> /\ inflight # NoTx /\ inflight.From = a
    THEN inflight.Nonce ELSE TopNonce(a)

\* A queued transaction really waits: between operations its nonce is beyond the
\* next executable one, so nothing executable is stuck in the queue and no
\* queued nonce has already been overtaken (which would block the queue's head
\* for ever).  While a's queue is being promoted the next one may be there.
NoReadyTxQueued ==
  \A a \in Address : \A i \in 1..Len(queue[a]) :
    queue[a][i].Nonce > ReachedNonce(a) + (IF promoting = a THEN 0 ELSE 1)

\* Every pending box is in the price list, once, and promotion never loses one.
BoxesListed ==
  /\ Len(txs) = Len(heap)
  /\ \A i, j \in 1..Len(txs) : txs[i] = txs[j] => i = j

\* The promotion loop runs for a sender with a pending box while nothing is in
\* flight.
PromotionAlone ==
  promoting # NoAddr => inflight = NoTx /\ pendings[promoting] # <<>>

\* The inductive invariant: the pending boxes, then the queue above them.
PendingInv ==
  /\ TypeOK /\ BoxesExclusive /\ PendingFiled /\ PendingConsecutive
  /\ AccountBehindPending /\ BoxesListed

PoolInv == PendingInv /\ QueueFiled /\ QueueOrdered /\ NoReadyTxQueued /\ PromotionAlone

IsPending(a, tx) ==
  \E i \in 1..Len(pendings[a]) : \E k \in 1..Len(heap[pendings[a][i]]) :
    heap[pendings[a][i]][k] = tx

IsQueued(a, tx) == \E i \in 1..Len(queue[a]) : queue[a][i] = tx

\* What a step may do to a's pending transaction tx: pop it, the oldest first, or
\* put one of the same nonce in its place.
PendingKept(a, tx) ==
  IsPending(a, tx) /\ ~IsPending(a, tx)' =>
    \/ /\ inflight = NoTx /\ inflight' = tx
       /\ \A old \in Tx : IsPending(a, old) => old.Nonce >= tx.Nonce
    \/ \E new \in Tx : IsPending(a, new)' /\ new.Nonce = tx.Nonce

\* A pending transaction leaves only by being popped, oldest first, or by making
\* way for one of the same nonce; no other operation loses it.
PendingNeverLost == [][\A a \in Address, tx \in Tx : PendingKept(a, tx)]_vars

\* What a step may do to a's queued transaction tx.
QueuedKept(a, tx) ==
  IsQueued(a, tx) /\ ~IsQueued(a, tx)' =>
    \/ IsPending(a, tx)'
    \/ \E new \in Tx : /\ IsQueued(a, new)' /\ new.Nonce = tx.Nonce
                       /\ new.GasPrice > tx.GasPrice
    \/ clock - time[tx] > ExpireSec
    \/ time[tx] > clock
    \/ \E m \in [Address -> MinNonces] : tx.Nonce < m[a] /\ CleanExpiredTxs(m)

\* A queued transaction leaves only by promotion to pending, by being outbid at
\* its nonce, or by cleaning: it is then expired, stamped after the present
\* clock reading, or below the nonce asked for.
QueuedNeverLost == [][\A a \in Address, tx \in Tx : QueuedKept(a, tx)]_vars
=============================================================================
