---------------------------- MODULE TxPoolProofs ----------------------------
(***************************************************************************)
(* Proofs about TxPool, for every set of senders and transactions: its     *)
(* invariant, and what a step may never do to a pending or a queued        *)
(* transaction.                                                            *)
(***************************************************************************)
EXTENDS TxPool, Numbers

-----------------------------------------------------------------------------
(* Sequences given as functions.                                           *)

\* A function on 1..n is a sequence of length n.
LEMMA FunctionIsSeq ==
  ASSUME NEW S, NEW n \in Nat, NEW f \in [1..n -> S]
  PROVE  f \in Seq(S) /\ Len(f) = n
<1>1. f \in Seq(S)
  BY SeqDef
<1>2. Len(f) \in Nat /\ DOMAIN f = 1..Len(f)
  BY <1>1, LenProperties
<1>3. 1..Len(f) = 1..n
  BY <1>2
<1> QED
  BY <1>1, <1>2, <1>3

\* Sequences over a set are sequences over any larger one.
LEMMA SeqWidens ==
  ASSUME NEW S, NEW T, S \subseteq T, NEW s \in Seq(S)
  PROVE  s \in Seq(T)
<1>1. Len(s) \in Nat /\ s \in [1..Len(s) -> S]
  BY LenProperties
<1> QED
  BY <1>1, SeqDef

\* A sort returns the elements it was given, each once.
LEMMA RearrangementFacts ==
  ASSUME NEW S, NEW s \in Seq(S), NEW r \in Rearrangements(s)
  PROVE  /\ r \in Seq(S) /\ Len(r) = Len(s)
         /\ \E p \in [1..Len(s) -> 1..Len(s)] :
              /\ \A i, j \in 1..Len(s) : p[i] = p[j] => i = j
              /\ \A i \in 1..Len(s) : r[i] = s[p[i]]
<1>1. PICK p \in Injection(1..Len(s), 1..Len(s)) : r = [i \in 1..Len(s) |-> s[p[i]]]
  BY DEF Rearrangements
<1>2. /\ p \in [1..Len(s) -> 1..Len(s)]
      /\ \A i, j \in 1..Len(s) : p[i] = p[j] => i = j
  BY <1>1 DEF Injection, IsInjective
<1>3. Len(s) \in Nat /\ \A i \in 1..Len(s) : s[i] \in S
  BY LenProperties, ElementOfSeq
<1>4. r \in [1..Len(s) -> S]
  BY <1>1, <1>2, <1>3
<1>5. r \in Seq(S) /\ Len(r) = Len(s)
  BY <1>3, <1>4, FunctionIsSeq
<1> QED
  BY <1>1, <1>2, <1>5

\* Sorting a list without repetitions leaves one without repetitions.
LEMMA SortedStaysInjective ==
  ASSUME NEW S, NEW s \in Seq(S), \A i, j \in 1..Len(s) : s[i] = s[j] => i = j,
         NEW r \in Rearrangements(s)
  PROVE  r \in Seq(S) /\ Len(r) = Len(s) /\ \A i, j \in 1..Len(r) : r[i] = r[j] => i = j
<1>1. /\ r \in Seq(S) /\ Len(r) = Len(s)
      /\ \E p \in [1..Len(s) -> 1..Len(s)] :
           /\ \A i, j \in 1..Len(s) : p[i] = p[j] => i = j
           /\ \A i \in 1..Len(s) : r[i] = s[p[i]]
  BY RearrangementFacts
<1>2. PICK p \in [1..Len(s) -> 1..Len(s)] :
           /\ \A i, j \in 1..Len(s) : p[i] = p[j] => i = j
           /\ \A i \in 1..Len(s) : r[i] = s[p[i]]
  BY <1>1
<1>3. ASSUME NEW i \in 1..Len(s), NEW j \in 1..Len(s), r[i] = r[j] PROVE i = j
  <2>1. p[i] \in 1..Len(s) /\ p[j] \in 1..Len(s)
    BY <1>2
  <2>2. s[p[i]] = s[p[j]]
    BY <1>2, <1>3
  <2> QED
    BY <1>2, <2>1, <2>2
<1> QED
  BY <1>1, <1>3

\* A filter returns elements it was given, in their order.
LEMMA SelectionFacts ==
  ASSUME NEW S, NEW s \in Seq(S), NEW K \in SUBSET (1..Len(s)), NEW r \in Selections(s, K)
  PROVE  /\ r \in Seq(S)
         /\ \E f \in [1..Len(r) -> K] :
              /\ \A i, j \in 1..Len(r) : i < j => f[i] < f[j]
              /\ \A i \in 1..Len(r) : r[i] = s[f[i]]
<1> DEFINE n == Cardinality(K)
<1>1. Len(s) \in Nat /\ \A i \in 1..Len(s) : s[i] \in S
  BY LenProperties, ElementOfSeq
<1>2. n \in Nat
  <2>1. IsFiniteSet(1..Len(s))
    BY <1>1, FS_Interval
  <2>2. IsFiniteSet(K)
    BY <2>1, FS_Subset
  <2> QED
    BY <2>2, FS_CardinalityType
<1>3. PICK f \in {g \in [1..n -> K] : \A i, j \in 1..n : i < j => g[i] < g[j]} :
        r = [i \in 1..n |-> s[f[i]]]
  BY DEF Selections
<1> HIDE DEF n
<1>4. r \in [1..n -> S]
  BY <1>1, <1>3
<1>5. r \in Seq(S) /\ Len(r) = n
  BY <1>2, <1>4, FunctionIsSeq
<1> QED
  BY <1>3, <1>5

\* Replace keeps the box's length and nonces and puts in nothing but tx.
LEMMA ReplaceFacts ==
  ASSUME NEW box \in Seq(Tx), NEW tx \in Tx
  PROVE  /\ Replace(box, tx) \in Seq(Tx) /\ Len(Replace(box, tx)) = Len(box)
         /\ \A i \in 1..Len(box) : /\ Replace(box, tx)[i].Nonce = box[i].Nonce
                                   /\ Replace(box, tx)[i] \in {box[i], tx}
<1>1. Len(box) \in Nat /\ \A i \in 1..Len(box) : box[i] \in Tx
  BY LenProperties, ElementOfSeq
<1>2. Replace(box, tx) \in [1..Len(box) -> Tx]
  BY <1>1 DEF Replace
<1>3. Replace(box, tx) \in Seq(Tx) /\ Len(Replace(box, tx)) = Len(box)
  BY <1>1, <1>2, FunctionIsSeq
<1>4. ASSUME NEW i \in 1..Len(box)
      PROVE  /\ Replace(box, tx)[i].Nonce = box[i].Nonce
             /\ Replace(box, tx)[i] \in {box[i], tx}
  BY DEF Replace
<1> QED
  BY <1>3, <1>4

-----------------------------------------------------------------------------
(* Typing facts used throughout.                                           *)

\* What TypeOK says of the pieces the actions handle.
LEMMA Pieces ==
  ASSUME TypeOK
  PROVE  /\ Len(heap) \in Nat /\ Len(txs) \in Nat
         /\ \A b \in 1..Len(heap) : heap[b] \in Seq(Tx) /\ Len(heap[b]) \in Nat
         /\ \A b \in 1..Len(heap) : \A k \in 1..Len(heap[b]) : heap[b][k] \in Tx
         /\ \A a \in Address : /\ pendings[a] \in Seq(1..Len(heap)) /\ Len(pendings[a]) \in Nat
                               /\ queue[a] \in Seq(Tx) /\ Len(queue[a]) \in Nat
                               /\ nonce[a] \in Nat
         /\ \A a \in Address : \A i \in 1..Len(pendings[a]) : pendings[a][i] \in 1..Len(heap)
         /\ \A a \in Address : \A i \in 1..Len(queue[a]) : queue[a][i] \in Tx
         /\ \A i \in 1..Len(txs) : txs[i] \in 1..Len(heap)
<1>1. /\ heap \in Seq(Seq(Tx)) /\ txs \in Seq(1..Len(heap))
      /\ pendings \in [Address -> Seq(1..Len(heap))] /\ queue \in [Address -> Seq(Tx)]
      /\ nonce \in [Address -> Nat]
  BY DEF TypeOK
<1>2. Len(heap) \in Nat /\ Len(txs) \in Nat
  BY <1>1, LenProperties
<1>3. \A b \in 1..Len(heap) : heap[b] \in Seq(Tx)
  BY <1>1, ElementOfSeq
<1>4. \A b \in 1..Len(heap) : Len(heap[b]) \in Nat
  BY <1>3, LenProperties
<1>5. \A b \in 1..Len(heap) : \A k \in 1..Len(heap[b]) : heap[b][k] \in Tx
  BY <1>3, ElementOfSeq
<1>6. \A a \in Address : pendings[a] \in Seq(1..Len(heap)) /\ queue[a] \in Seq(Tx) /\ nonce[a] \in Nat
  BY <1>1
<1>7. \A a \in Address : Len(pendings[a]) \in Nat /\ Len(queue[a]) \in Nat
  BY <1>6, LenProperties
<1>8. \A a \in Address : \A i \in 1..Len(pendings[a]) : pendings[a][i] \in 1..Len(heap)
  BY <1>6, ElementOfSeq
<1>9. \A a \in Address : \A i \in 1..Len(queue[a]) : queue[a][i] \in Tx
  BY <1>6, ElementOfSeq
<1>10. \A i \in 1..Len(txs) : txs[i] \in 1..Len(heap)
  BY <1>1, ElementOfSeq
<1> QED
  BY <1>2, <1>3, <1>4, <1>5, <1>6, <1>7, <1>8, <1>9, <1>10

\* The last pending box is a live box, and its last nonce a number.
LEMMA LastBoxFacts ==
  ASSUME TypeOK, BoxesExclusive, NEW a \in Address, pendings[a] # <<>>
  PROVE  /\ Len(pendings[a]) \in Nat \ {0}
         /\ pendings[a][Len(pendings[a])] \in 1..Len(heap)
         /\ LastBox(a) \in Seq(Tx) /\ Len(LastBox(a)) \in Nat \ {0}
         /\ TopNonce(a) = LastBox(a)[Len(LastBox(a))].Nonce
         /\ TopNonce(a) \in Nat
<1>1. Len(pendings[a]) \in Nat \ {0}
  BY Pieces, EmptySeq
<1>2. pendings[a][Len(pendings[a])] \in 1..Len(heap)
  BY <1>1, Pieces
<1>3. LastBox(a) \in Seq(Tx) /\ LastBox(a) # <<>>
  <2>1. LastBox(a) \in Seq(Tx)
    BY <1>2, Pieces DEF LastBox
  <2>2. Len(pendings[a]) \in 1..Len(pendings[a])
    BY <1>1
  <2>3. \A i \in 1..Len(pendings[a]) : heap[pendings[a][i]] # <<>>
    BY DEF BoxesExclusive
  <2> QED
    BY <2>1, <2>2, <2>3 DEF LastBox
<1>4. Len(LastBox(a)) \in Nat \ {0}
  BY <1>3, EmptySeq
<1>5. LastBox(a)[Len(LastBox(a))] \in Tx
  BY <1>3, <1>4, ElementOfSeq
<1> QED
  BY <1>1, <1>2, <1>3, <1>4, <1>5, TxAssumption DEF TopNonce, LastNonce

-----------------------------------------------------------------------------
(* A transaction joins a sender's pending boxes.                           *)

\* Pushed onto the last box, it extends that box and touches no other.
LEMMA PushKeepsPendingInv ==
  ASSUME PendingInv, NEW a \in Address, NEW tx \in Tx, tx.From = a,
         tx.Nonce = TopNonce(a) + 1, inflight = NoTx, pendings[a] # <<>>,
         Push(a, tx), queue' \in [Address -> Seq(Tx)], time' \in [Tx -> Nat],
         promoting' = a, UNCHANGED <<clock, nonce, inflight>>
  PROVE  /\ PendingInv'
         /\ TopNonce(a)' = tx.Nonce /\ pendings'[a] # <<>>
         /\ \A b \in Address \ {a} : TopNonce(b)' = TopNonce(b) /\ pendings'[b] = pendings[b]
<1> DEFINE last == pendings[a][Len(pendings[a])]
           box  == heap[last]
<1>1. /\ TypeOK /\ BoxesExclusive /\ PendingFiled /\ PendingConsecutive
      /\ AccountBehindPending /\ BoxesListed
  BY DEF PendingInv
<1>2. /\ Len(pendings[a]) \in Nat \ {0} /\ last \in 1..Len(heap)
      /\ box \in Seq(Tx) /\ Len(box) \in Nat \ {0}
      /\ TopNonce(a) = box[Len(box)].Nonce /\ TopNonce(a) \in Nat
  BY <1>1, LastBoxFacts DEF LastBox
<1>23. Len(box) \in Nat \ {0}
  BY <1>2
<1>3. heap' = [heap EXCEPT ![last] = Append(box, tx)] /\ pendings' = pendings /\ txs' = txs
  BY DEF Push
<1>4. heap \in Seq(Seq(Tx)) /\ Len(heap) \in Nat /\ DOMAIN heap = 1..Len(heap)
  BY <1>1, LenProperties DEF TypeOK
<1>5. /\ Append(box, tx) \in Seq(Tx) /\ Len(Append(box, tx)) = Len(box) + 1
      /\ Append(box, tx)[Len(box) + 1] = tx
      /\ \A k \in 1..Len(box) : Append(box, tx)[k] = box[k]
  BY <1>2, AppendProperties
<1>6. /\ heap'[last] = Append(box, tx)
      /\ \A b \in 1..Len(heap) : b # last => heap'[b] = heap[b]
  BY <1>2, <1>3, <1>4
<1>7. heap' \in Seq(Seq(Tx)) /\ Len(heap') = Len(heap)
  <2>1. \A b \in 1..Len(heap) : heap[b] \in Seq(Tx)
    BY <1>1, Pieces
  <2>2. heap' \in [1..Len(heap) -> Seq(Tx)]
    BY <1>3, <1>4, <1>5, <2>1
  <2> QED
    BY <2>2, <1>4, FunctionIsSeq
<1> HIDE DEF box, last
<1>8. TypeOK'
  BY <1>1, <1>3, <1>7 DEF TypeOK
<1>9. last = pendings[a][Len(pendings[a])] /\ Len(pendings[a]) \in 1..Len(pendings[a])
  BY <1>2 DEF last
\* last sits in no other slot
<1>10. \A b \in Address : \A i \in 1..Len(pendings[b]) :
         pendings[b][i] = last => b = a /\ i = Len(pendings[a])
  BY <1>1, <1>9 DEF BoxesExclusive
<1>11. \A b \in Address : \A i \in 1..Len(pendings[b]) :
         /\ pendings[b][i] \in 1..Len(heap)
         /\ pendings[b][i] # last => heap'[pendings[b][i]] = heap[pendings[b][i]]
  BY <1>1, <1>6, Pieces
<1>12. heap'[last] # <<>> /\ heap'[last][1] = box[1] /\ Len(heap'[last]) = Len(box) + 1
  <2>1. Append(box, tx)[1] = box[1]
    BY <1>2, <1>5
  <2>2. Append(box, tx) # <<>>
    BY <1>2, <1>5, EmptySeq
  <2> QED
    BY <1>5, <1>6, <2>1, <2>2
<1>13. BoxesExclusive'
  BY <1>1, <1>3, <1>11, <1>12 DEF BoxesExclusive
<1>14. box = heap[last]
  BY DEF box
<1>15. PendingFiled'
  <2>1. SignedBy(a, box)
    BY <1>1, <1>9, <1>14 DEF PendingFiled
  <2>2. SignedBy(a, Append(box, tx))
    BY <2>1, <1>5, <1>23 DEF SignedBy
  <2>3. ASSUME NEW b \in Address, NEW i \in 1..Len(pendings[b])
        PROVE  SignedBy(b, heap'[pendings[b][i]])
    <3>1. CASE pendings[b][i] # last
      BY <3>1, <1>1, <1>11 DEF PendingFiled
    <3>2. CASE pendings[b][i] = last
      BY <3>2, <2>2, <1>6, <1>10
    <3> QED
      BY <3>1, <3>2
  <2> QED
    BY <2>3, <1>3 DEF PendingFiled
\* First and last nonces
<1>16. /\ \A b \in Address : \A i \in 1..Len(pendings[b]) :
            FirstNonce(heap'[pendings[b][i]]) = FirstNonce(heap[pendings[b][i]])
       /\ \A b \in Address : \A i \in 1..Len(pendings[b]) : pendings[b][i] # last =>
            LastNonce(heap'[pendings[b][i]]) = LastNonce(heap[pendings[b][i]])
       /\ LastNonce(heap'[last]) = tx.Nonce
  <2>1. FirstNonce(heap'[last]) = FirstNonce(heap[last])
    <3>1. heap[last] # <<>>
      BY <1>1, <1>9 DEF BoxesExclusive
    <3> QED
      BY <3>1, <1>12, <1>14 DEF FirstNonce
  <2>2. LastNonce(heap'[last]) = tx.Nonce
    BY <1>5, <1>6, <1>12 DEF LastNonce
  <2> QED
    BY <2>1, <2>2, <1>11
<1>17. PendingConsecutive'
  <2>1. Consecutive(Append(box, tx))
    <3> SUFFICES ASSUME NEW k \in 1..Len(box)
                 PROVE  Append(box, tx)[k + 1].Nonce = Append(box, tx)[k].Nonce + 1
      BY <1>5, <1>23 DEF Consecutive
    <3>1. CASE k = Len(box)
      BY <3>1, <1>2, <1>5
    <3>2. CASE k \in 1..(Len(box) - 1)
      <4>1. box[k + 1].Nonce = box[k].Nonce + 1
        BY <3>2, <1>1, <1>9, <1>14 DEF PendingConsecutive, Consecutive
      <4>2. k + 1 \in 1..Len(box) /\ k \in 1..Len(box)
        BY <3>2, <1>23
      <4> QED
        BY <4>1, <4>2, <1>5
    <3> QED
      BY <3>1, <3>2, <1>23
  <2>2. ASSUME NEW b \in Address, NEW i \in 1..Len(pendings[b])
        PROVE  Consecutive(heap'[pendings[b][i]])
    <3>1. CASE pendings[b][i] # last
      BY <3>1, <1>1, <1>11 DEF PendingConsecutive
    <3>2. CASE pendings[b][i] = last
      BY <3>2, <2>1, <1>6
    <3> QED
      BY <3>1, <3>2
  <2>3. ASSUME NEW b \in Address, NEW i \in 1..Len(pendings[b]), i < Len(pendings[b])
        PROVE  FirstNonce(heap'[pendings[b][i + 1]]) = LastNonce(heap'[pendings[b][i]]) + 1
    <3>1. Len(pendings[b]) \in Nat
      BY <1>1, Pieces
    <3>2. pendings[b][i] # last
      BY <1>10, <2>3, <3>1
    <3>3. i + 1 \in 1..Len(pendings[b])
      BY <2>3, <3>1
    <3>4. FirstNonce(heap[pendings[b][i + 1]]) = LastNonce(heap[pendings[b][i]]) + 1
      BY <1>1, <2>3 DEF PendingConsecutive
    <3> QED
      BY <3>2, <3>3, <3>4, <1>16
  <2> QED
    BY <2>2, <2>3, <1>3 DEF PendingConsecutive
<1>18. AccountBehindPending'
  <2> SUFFICES ASSUME NEW b \in Address, pendings[b] # <<>>
               PROVE  nonce[b] < FirstNonce(heap'[pendings[b][1]])
    BY <1>3 DEF AccountBehindPending
  <2>1. 1 \in 1..Len(pendings[b])
    BY <1>1, Pieces, EmptySeq
  <2>2. nonce[b] < FirstNonce(heap[pendings[b][1]])
    BY <1>1 DEF AccountBehindPending
  <2> QED
    BY <2>1, <2>2, <1>16
<1>19. BoxesListed'
  BY <1>1, <1>3, <1>7 DEF BoxesListed
<1>20. TopNonce(a)' = tx.Nonce /\ pendings'[a] # <<>>
  BY <1>3, <1>9, <1>16 DEF TopNonce, LastBox
<1>21. ASSUME NEW b \in Address \ {a}
       PROVE  TopNonce(b)' = TopNonce(b) /\ pendings'[b] = pendings[b]
  <2>1. CASE pendings[b] = <<>>
    BY <2>1, <1>3 DEF TopNonce
  <2>2. CASE pendings[b] # <<>>
    <3>1. Len(pendings[b]) \in 1..Len(pendings[b])
      BY <2>2, <1>1, Pieces, EmptySeq
    <3> QED
      BY <3>1, <2>2, <1>3, <1>10, <1>16 DEF TopNonce, LastBox
  <2> QED
    BY <2>1, <2>2
<1> QED
  BY <1>8, <1>13, <1>15, <1>17, <1>18, <1>19, <1>20, <1>21 DEF PendingInv

\* In a new box, it is the sender's last box, known to nobody else.
LEMMA NewBoxKeepsPendingInv ==
  ASSUME PendingInv, NEW a \in Address, NEW tx \in Tx, tx.From = a,
         tx.Nonce = TopNonce(a) + 1, inflight = NoTx,
         makeNewBlock(a, tx), queue' \in [Address -> Seq(Tx)], time' \in [Tx -> Nat],
         promoting' = a, UNCHANGED <<clock, nonce, inflight>>
  PROVE  /\ PendingInv'
         /\ TopNonce(a)' = tx.Nonce /\ pendings'[a] # <<>>
         /\ \A b \in Address \ {a} : TopNonce(b)' = TopNonce(b) /\ pendings'[b] = pendings[b]
<1> DEFINE n == Len(heap) + 1
           m == Len(pendings[a])
<1>1. /\ TypeOK /\ BoxesExclusive /\ PendingFiled /\ PendingConsecutive
      /\ AccountBehindPending /\ BoxesListed
  BY DEF PendingInv
<1>2. /\ heap' = Append(heap, <<tx>>)
      /\ pendings' = [pendings EXCEPT ![a] = Append(pendings[a], n)]
      /\ txs' \in Rearrangements(Append(txs, n))
  BY DEF makeNewBlock
<1>3. /\ heap \in Seq(Seq(Tx)) /\ txs \in Seq(1..Len(heap))
      /\ pendings \in [Address -> Seq(1..Len(heap))]
  BY <1>1 DEF TypeOK
<1>4. Len(heap) \in Nat /\ m \in Nat /\ Len(txs) \in Nat
  BY <1>1, Pieces
<1>5. /\ heap' \in Seq(Seq(Tx)) /\ Len(heap') = n /\ heap'[n] = <<tx>>
      /\ \A b \in 1..Len(heap) : heap'[b] = heap[b]
  <2>1. <<tx>> \in Seq(Tx)
    OBVIOUS
  <2> QED
    BY <2>1, <1>2, <1>3, AppendProperties
<1>6. <<tx>> # <<>> /\ Len(<<tx>>) = 1 /\ <<tx>>[1] = tx
  OBVIOUS
<1>7. 1..Len(heap) \subseteq 1..n /\ n \in 1..n /\ n \notin 1..Len(heap)
  BY <1>4
<1>8. \A b \in Address : pendings[b] \in Seq(1..n)
  BY <1>3, <1>7, SeqWidens
<1>9. /\ Append(pendings[a], n) \in Seq(1..n) /\ Len(Append(pendings[a], n)) = m + 1
      /\ Append(pendings[a], n)[m + 1] = n
      /\ \A i \in 1..m : Append(pendings[a], n)[i] = pendings[a][i]
  BY <1>7, <1>8, AppendProperties
<1> HIDE DEF n, m
<1>10. /\ pendings'[a] = Append(pendings[a], n)
       /\ \A b \in Address \ {a} : pendings'[b] = pendings[b]
  BY <1>2, <1>3
<1>11. pendings' \in [Address -> Seq(1..n)]
  BY <1>2, <1>3, <1>8, <1>9
\* The slots after the step: the old ones, and the new last one of a.
<1>12. ASSUME NEW b \in Address, NEW i \in 1..Len(pendings'[b])
       PROVE  \/ /\ i \in 1..Len(pendings[b]) /\ pendings'[b][i] = pendings[b][i]
                 /\ pendings[b][i] \in 1..Len(heap)
                 /\ heap'[pendings[b][i]] = heap[pendings[b][i]]
              \/ b = a /\ i = m + 1 /\ pendings'[b][i] = n /\ heap'[n] = <<tx>>
  <2>1. \A j \in 1..Len(pendings[b]) : /\ pendings[b][j] \in 1..Len(heap)
                                       /\ heap'[pendings[b][j]] = heap[pendings[b][j]]
    BY <1>1, <1>5, Pieces
  <2>2. CASE b # a
    BY <2>1, <2>2, <1>10
  <2>3. CASE b = a
    <3>1. i \in 1..(m + 1)
      BY <2>3, <1>9, <1>10
    <3>2. CASE i = m + 1
      BY <2>3, <3>2, <1>5, <1>9, <1>10
    <3>3. CASE i \in 1..m
      BY <2>1, <2>3, <3>3, <1>9, <1>10 DEF m
    <3> QED
      BY <3>1, <3>2, <3>3, <1>4
  <2> QED
    BY <2>2, <2>3
<1>13. txs' \in Seq(1..n) /\ BoxesListed'
  <2>1. /\ Append(txs, n) \in Seq(1..n) /\ Len(Append(txs, n)) = Len(txs) + 1
        /\ Append(txs, n)[Len(txs) + 1] = n
        /\ \A i \in 1..Len(txs) : Append(txs, n)[i] = txs[i]
    BY <1>3, <1>7, SeqWidens, AppendProperties
  <2>2. \A i \in 1..Len(txs) : txs[i] \in 1..Len(heap)
    BY <1>1, Pieces
  <2>3. \A i, j \in 1..(Len(txs) + 1) : Append(txs, n)[i] = Append(txs, n)[j] => i = j
    <3> SUFFICES ASSUME NEW i \in 1..(Len(txs) + 1), NEW j \in 1..(Len(txs) + 1),
                        Append(txs, n)[i] = Append(txs, n)[j]
                 PROVE  i = j
      OBVIOUS
    <3>1. CASE i \in 1..Len(txs) /\ j \in 1..Len(txs)
      BY <3>1, <2>1, <1>1 DEF BoxesListed
    <3>2. CASE i \in 1..Len(txs) /\ j = Len(txs) + 1
      BY <3>2, <2>1, <2>2, <1>7
    <3>3. CASE i = Len(txs) + 1 /\ j \in 1..Len(txs)
      BY <3>3, <2>1, <2>2, <1>7
    <3> QED
      BY <3>1, <3>2, <3>3, <1>4
  <2>4. /\ txs' \in Seq(1..n) /\ Len(txs') = Len(txs) + 1
        /\ \A i, j \in 1..Len(txs') : txs'[i] = txs'[j] => i = j
    <3> DEFINE u == Append(txs, n)
               r == txs'
    <3>1. /\ u \in Seq(1..n) /\ Len(u) = Len(txs) + 1 /\ r \in Rearrangements(u)
          /\ \A i, j \in 1..Len(u) : u[i] = u[j] => i = j
      BY <2>1, <2>3, <1>2
    <3> HIDE DEF u, r
    <3>2. r \in Seq(1..n) /\ Len(r) = Len(u) /\ \A i, j \in 1..Len(r) : r[i] = r[j] => i = j
      BY <3>1, SortedStaysInjective
    <3> QED
      BY <3>1, <3>2 DEF r
  <2>6. Len(txs') = Len(heap')
    BY <2>4, <1>1, <1>5 DEF BoxesListed, n
  <2> QED
    BY <2>4, <2>6 DEF BoxesListed
<1>14. TypeOK'
  BY <1>1, <1>5, <1>11, <1>13 DEF TypeOK
<1>15. BoxesExclusive'
  <2>1. ASSUME NEW b \in Address, NEW i \in 1..Len(pendings'[b])
        PROVE  heap'[pendings'[b][i]] # <<>>
    <3>1. CASE i \in 1..Len(pendings[b]) /\ heap'[pendings'[b][i]] = heap[pendings[b][i]]
      BY <3>1, <1>1 DEF BoxesExclusive
    <3> QED
      BY <3>1, <1>6, <1>12
  <2>2. ASSUME NEW b \in Address, NEW i \in 1..Len(pendings'[b]),
               NEW c \in Address, NEW j \in 1..Len(pendings'[c]),
               pendings'[b][i] = pendings'[c][j]
        PROVE  b = c /\ i = j
    <3>1. CASE pendings'[b][i] = n
      BY <3>1, <2>2, <1>7, <1>12
    <3>2. CASE pendings'[b][i] # n
      <4>1. i \in 1..Len(pendings[b]) /\ pendings'[b][i] = pendings[b][i]
        BY <3>2, <1>12
      <4>2. j \in 1..Len(pendings[c]) /\ pendings'[c][j] = pendings[c][j]
        BY <3>2, <2>2, <1>12
      <4> QED
        <5>1. \A k \in 1..Len(pendings[c]) : pendings[b][i] = pendings[c][k] => b = c /\ i = k
          BY <4>1, <1>1 DEF BoxesExclusive
        <5> QED
          BY <4>1, <4>2, <5>1, <2>2
    <3> QED
      BY <3>1, <3>2
  <2> QED
    BY <2>1, <2>2 DEF BoxesExclusive
<1>16. PendingFiled'
  <2>1. SignedBy(a, <<tx>>)
    BY <1>6 DEF SignedBy
  <2>2. ASSUME NEW b \in Address, NEW i \in 1..Len(pendings'[b])
        PROVE  SignedBy(b, heap'[pendings'[b][i]])
    BY <2>1, <1>1, <1>12 DEF PendingFiled
  <2> QED
    BY <2>2 DEF PendingFiled
<1>17. /\ FirstNonce(<<tx>>) = tx.Nonce /\ LastNonce(<<tx>>) = tx.Nonce
       /\ TopNonce(a)' = tx.Nonce /\ pendings'[a] # <<>>
  <2>1. FirstNonce(<<tx>>) = tx.Nonce /\ LastNonce(<<tx>>) = tx.Nonce
    BY <1>6 DEF FirstNonce, LastNonce
  <2>2. pendings'[a] # <<>>
    <3>1. Len(Append(pendings[a], n)) # 0
      BY <1>4, <1>9
    <3>2. Append(pendings[a], n) # <<>>
      BY <3>1, EmptySeq
    <3> QED
      BY <3>2, <1>10
  <2>3. heap'[pendings'[a][Len(pendings'[a])]] = <<tx>>
    BY <1>5, <1>9, <1>10
  <2> QED
    BY <2>1, <2>2, <2>3 DEF TopNonce, LastBox
<1>18. PendingConsecutive'
  <2>1. Consecutive(<<tx>>)
    BY <1>6 DEF Consecutive
  <2>2. ASSUME NEW b \in Address, NEW i \in 1..Len(pendings'[b])
        PROVE  Consecutive(heap'[pendings'[b][i]])
    BY <2>1, <1>1, <1>12 DEF PendingConsecutive
  <2>3. ASSUME NEW b \in Address, NEW i \in 1..Len(pendings'[b]), i < Len(pendings'[b])
        PROVE  FirstNonce(heap'[pendings'[b][i + 1]]) = LastNonce(heap'[pendings'[b][i]]) + 1
    <3>1. Len(pendings'[b]) \in Nat /\ i \in Nat /\ i + 1 \in 1..Len(pendings'[b])
      <4>1. pendings'[b] \in Seq(1..n)
        BY <1>11
      <4>2. Len(pendings'[b]) \in Nat
        BY <4>1, LenProperties
      <4> QED
        BY <2>3, <4>2
    <3>2. Len(pendings[b]) \in Nat
      BY <1>1, Pieces
    <3>3. /\ i \in 1..Len(pendings[b]) /\ pendings'[b][i] = pendings[b][i]
          /\ heap'[pendings[b][i]] = heap[pendings[b][i]]
      <4>1. ~(b = a /\ i = m + 1)
        BY <2>3, <1>4, <1>9, <1>10
      <4> QED
        BY <4>1, <1>12
    <3>4. CASE i + 1 \in 1..Len(pendings[b])
      <4>1. FirstNonce(heap[pendings[b][i + 1]]) = LastNonce(heap[pendings[b][i]]) + 1
        BY <3>1, <3>2, <3>3, <3>4, <1>1 DEF PendingConsecutive
      <4>2. pendings'[b][i + 1] = pendings[b][i + 1] /\ heap'[pendings[b][i + 1]] = heap[pendings[b][i + 1]]
        <5>1. ~(b = a /\ i + 1 = m + 1)
          BY <3>1, <3>4, <1>4 DEF m
        <5> QED
          BY <3>1, <5>1, <1>12
      <4> QED
        BY <4>1, <4>2, <3>3
    <3>5. CASE b = a /\ i + 1 = m + 1
      <4>1. pendings[a] # <<>> /\ i = Len(pendings[a])
        BY <3>1, <3>5, <1>4, EmptySeq DEF m
      <4>2. LastNonce(heap[pendings[b][i]]) = TopNonce(a)
        BY <4>1, <3>5 DEF TopNonce, LastBox
      <4>3. heap'[pendings'[b][i + 1]] = <<tx>>
        BY <3>5, <1>5, <1>9, <1>10
      <4> QED
        BY <4>2, <4>3, <3>3, <1>17
    <3> QED
      BY <3>1, <3>4, <3>5, <1>12
  <2> QED
    BY <2>2, <2>3 DEF PendingConsecutive
<1>19. AccountBehindPending'
  <2>1. nonce \in [Address -> Nat]
    BY <1>1 DEF TypeOK
  <2>2. ASSUME NEW b \in Address, pendings[b] # <<>>
        PROVE  /\ nonce[b] < FirstNonce(heap'[pendings'[b][1]])
               /\ pendings'[b] # <<>>
    <3>1. 1 \in 1..Len(pendings[b])
      BY <2>2, <1>1, Pieces, EmptySeq
    <3>2. pendings'[b] # <<>> /\ pendings'[b][1] = pendings[b][1]
      <4>1. CASE b = a
        BY <4>1, <3>1, <1>9, <1>10, <1>17 DEF m
      <4>2. CASE b # a
        BY <4>2, <2>2, <1>10
      <4> QED
        BY <4>1, <4>2
    <3>3. heap'[pendings[b][1]] = heap[pendings[b][1]]
      BY <3>1, <1>1, <1>5, Pieces
    <3> QED
      BY <2>2, <3>2, <3>3, <1>1 DEF AccountBehindPending
  <2>3. CASE pendings[a] = <<>>
    <3>1. nonce[a] < tx.Nonce
      BY <2>1, <2>3 DEF TopNonce
    <3>2. m = 0
      BY <2>3 DEF m
    <3>3. heap'[pendings'[a][1]] = <<tx>>
      BY <3>2, <1>5, <1>9, <1>10
    <3>4. nonce[a] < FirstNonce(heap'[pendings'[a][1]])
      BY <3>1, <3>3, <1>17
    <3> QED
      BY <3>4, <2>2, <1>10 DEF AccountBehindPending
  <2>4. CASE pendings[a] # <<>>
    BY <2>2, <2>4, <1>10 DEF AccountBehindPending
  <2> QED
    BY <2>3, <2>4
<1>20. ASSUME NEW b \in Address \ {a}
       PROVE  TopNonce(b)' = TopNonce(b) /\ pendings'[b] = pendings[b]
  <2>1. CASE pendings[b] = <<>>
    BY <2>1, <1>10 DEF TopNonce
  <2>2. CASE pendings[b] # <<>>
    <3>1. Len(pendings[b]) \in 1..Len(pendings[b])
      BY <2>2, <1>1, Pieces, EmptySeq
    <3>2. heap'[pendings[b][Len(pendings[b])]] = heap[pendings[b][Len(pendings[b])]]
      BY <3>1, <1>1, <1>5, Pieces
    <3> QED
      BY <3>2, <2>2, <1>10 DEF TopNonce, LastBox
  <2> QED
    BY <2>1, <2>2, <1>10
<1> QED
  BY <1>13, <1>14, <1>15, <1>16, <1>17, <1>18, <1>19, <1>20 DEF PendingInv

\* pushPendingTx keeps the pending boxes in order and makes tx their last.
LEMMA PushPendingTx ==
  ASSUME PendingInv, NEW a \in Address, NEW tx \in Tx, tx.From = a,
         tx.Nonce = TopNonce(a) + 1, inflight = NoTx,
         pushPendingTx(a, tx), queue' \in [Address -> Seq(Tx)], time' \in [Tx -> Nat],
         UNCHANGED <<clock, nonce, inflight>>
  PROVE  /\ PendingInv'
         /\ TopNonce(a)' = tx.Nonce /\ pendings'[a] # <<>>
         /\ \A b \in Address \ {a} : TopNonce(b)' = TopNonce(b) /\ pendings'[b] = pendings[b]
<1>1. promoting' = a
  BY DEF pushPendingTx
<1>2. CASE pendings[a] # <<>> /\ Push(a, tx)
  BY <1>1, <1>2, PushKeepsPendingInv
<1>3. CASE makeNewBlock(a, tx)
  BY <1>1, <1>3, NewBoxKeepsPendingInv
<1> QED
  BY <1>2, <1>3 DEF pushPendingTx

\* A step that leaves the boxes, the accounts and the transaction in flight
\* alone keeps everything said about the boxes.
LEMMA BoxesUntouched ==
  ASSUME PendingInv, TypeOK', UNCHANGED <<heap, pendings, txs, nonce, inflight>>
  PROVE  /\ PendingInv'
         /\ \A a \in Address : TopNonce(a)' = TopNonce(a) /\ ReachedNonce(a)' = ReachedNonce(a)
<1>1. /\ BoxesExclusive /\ PendingFiled /\ PendingConsecutive
      /\ AccountBehindPending /\ BoxesListed
  BY DEF PendingInv
<1>2. BoxesExclusive' /\ BoxesListed'
  BY <1>1 DEF BoxesExclusive, BoxesListed
<1>3. PendingFiled' /\ PendingConsecutive'
  BY <1>1 DEF PendingFiled, PendingConsecutive
<1>4. AccountBehindPending'
  BY <1>1 DEF AccountBehindPending
<1>5. ASSUME NEW a \in Address
      PROVE  TopNonce(a)' = TopNonce(a) /\ ReachedNonce(a)' = ReachedNonce(a)
  BY DEF TopNonce, LastBox, ReachedNonce
<1> QED
  BY <1>2, <1>3, <1>4, <1>5 DEF PendingInv

\* With nothing in flight a sender has reached its last pending nonce.
LEMMA ReachedIsTop ==
  ASSUME inflight = NoTx, NEW a \in Address
  PROVE  ReachedNonce(a) = TopNonce(a)
BY DEF ReachedNonce

-----------------------------------------------------------------------------
(* The queue.                                                              *)

\* addQueue's sorted list: tx and old entries only, one per nonce, in order.
LEMMA AddQueueFacts ==
  ASSUME TypeOK, NEW tx \in Tx, Increasing(queue[tx.From]), addQueue(tx)
  PROVE  \E q \in Seq(Tx) :
           /\ queue' = [queue EXCEPT ![tx.From] = q]
           /\ Increasing(q)
           /\ \A i \in 1..Len(q) :
                q[i] = tx \/ \E j \in 1..Len(queue[tx.From]) : q[i] = queue[tx.From][j]
<1> DEFINE list == queue[tx.From]
           Same == {i \in 1..Len(list) : list[i].Nonce = tx.Nonce}
           new  == IF Same = {} THEN Append(list, tx)
                   ELSE [i \in 1..Len(list) |->
                           IF /\ i \in Same
                              /\ \A j \in Same : i <= j
                              /\ tx.GasPrice > list[i].GasPrice
                             THEN tx ELSE list[i]]
<1>1. PICK q \in Rearrangements(new) :
             NonceSorted(q) /\ queue' = [queue EXCEPT ![tx.From] = q]
  BY DEF addQueue
<1>2. tx.From \in Address
  BY TxAssumption
<1>3. /\ list \in Seq(Tx) /\ Len(list) \in Nat
      /\ \A i \in 1..Len(list) : list[i] \in Tx
  BY <1>2, Pieces
<1>4. \A i, j \in 1..Len(list) : list[i].Nonce = list[j].Nonce => i = j
  <2>1. \A i \in 1..Len(list) : list[i].Nonce \in Nat
    BY <1>3, TxAssumption
  <2>2. \A i, j \in 1..Len(list) : i < j => list[i].Nonce < list[j].Nonce
    BY DEF Increasing
  <2> HIDE DEF list
  <2> QED
    BY <2>1, <2>2
<1> HIDE DEF list
<1>5. /\ new \in Seq(Tx)
      /\ \A i \in 1..Len(new) : new[i] = tx \/ \E j \in 1..Len(list) : new[i] = list[j]
      /\ \A i, j \in 1..Len(new) : new[i].Nonce = new[j].Nonce => i = j
  <2>1. CASE Same = {}
    <3>1. new = Append(list, tx)
      BY <2>1
    <3>2. /\ Append(list, tx) \in Seq(Tx) /\ Len(Append(list, tx)) = Len(list) + 1
          /\ Append(list, tx)[Len(list) + 1] = tx
          /\ \A i \in 1..Len(list) : Append(list, tx)[i] = list[i]
      BY <1>3, AppendProperties
    <3>3. \A i \in 1..Len(list) : list[i].Nonce # tx.Nonce
      BY <2>1
    <3> HIDE DEF new, Same
    <3>4. \A i \in 1..Len(new) : i \in 1..Len(list) \/ i = Len(list) + 1
      BY <1>3, <3>1, <3>2
    <3>5. ASSUME NEW i \in 1..Len(new), NEW j \in 1..Len(new), new[i].Nonce = new[j].Nonce
          PROVE  i = j
      <4>1. CASE i \in 1..Len(list) /\ j \in 1..Len(list)
        BY <4>1, <3>1, <3>2, <3>5, <1>4
      <4>2. CASE i \in 1..Len(list) /\ j = Len(list) + 1
        BY <4>2, <3>1, <3>2, <3>3, <3>5
      <4>3. CASE i = Len(list) + 1 /\ j \in 1..Len(list)
        BY <4>3, <3>1, <3>2, <3>3, <3>5
      <4> QED
        BY <4>1, <4>2, <4>3, <3>4
    <3> QED
      BY <3>1, <3>2, <3>4, <3>5
  <2>2. CASE Same # {}
    <3>1. /\ new \in [1..Len(list) -> Tx]
          /\ \A i \in 1..Len(list) : /\ new[i] = tx \/ new[i] = list[i]
                                     /\ new[i].Nonce = list[i].Nonce
      BY <1>3, <2>2
    <3> HIDE DEF new, Same
    <3>2. new \in Seq(Tx) /\ Len(new) = Len(list)
      BY <1>3, <3>1, FunctionIsSeq
    <3> QED
      BY <3>1, <3>2, <1>4
  <2> QED
    BY <2>1, <2>2
<1> HIDE DEF new, Same
<1>6. /\ q \in Seq(Tx) /\ Len(q) = Len(new)
      /\ \E p \in [1..Len(new) -> 1..Len(new)] :
           /\ \A i, j \in 1..Len(new) : p[i] = p[j] => i = j
           /\ \A i \in 1..Len(new) : q[i] = new[p[i]]
  BY <1>1, <1>5, RearrangementFacts
<1>7. PICK p \in [1..Len(new) -> 1..Len(new)] :
           /\ \A i, j \in 1..Len(new) : p[i] = p[j] => i = j
           /\ \A i \in 1..Len(new) : q[i] = new[p[i]]
  BY <1>6
<1>8. \A i \in 1..Len(q) : p[i] \in 1..Len(new) /\ q[i] = new[p[i]]
  BY <1>6, <1>7
<1>9. Increasing(q)
  <2> SUFFICES ASSUME NEW i \in 1..Len(q), NEW j \in 1..Len(q), i < j
               PROVE  q[i].Nonce < q[j].Nonce
    BY DEF Increasing
  <2>1. q[i].Nonce <= q[j].Nonce
    BY <1>1 DEF NonceSorted
  <2>2. q[i] \in Tx /\ q[j] \in Tx
    BY <1>6, ElementOfSeq
  <2>3. Len(q) \in Nat /\ i # j
    BY <1>6, LenProperties
  <2>4. q[i].Nonce # q[j].Nonce
    <3>1. i \in 1..Len(new) /\ j \in 1..Len(new)
      BY <1>6
    <3>2. p[i] # p[j]
      BY <2>3, <3>1, <1>7
    <3>3. new[p[i]].Nonce # new[p[j]].Nonce
      BY <3>2, <1>5, <1>8
    <3> QED
      BY <3>3, <1>8
  <2> QED
    BY <2>1, <2>2, <2>4, TxAssumption
<1>10. \A i \in 1..Len(q) : q[i] = tx \/ \E j \in 1..Len(list) : q[i] = list[j]
  BY <1>5, <1>8
<1> QED
  BY <1>1, <1>6, <1>9, <1>10 DEF list

-----------------------------------------------------------------------------
(* One lemma per operation: it keeps PoolInv.                              *)

\* NewTx queues the transaction.
LEMMA AddQueueKeepsPoolInv ==
  ASSUME PoolInv, NEW tx \in Tx, Idle, tx.Nonce > TopNonce(tx.From) + 1,
         addQueue(tx), time' \in [Tx -> Nat], UNCHANGED <<clock, nonce, inflight>>
  PROVE  PoolInv'
<1> DEFINE a == tx.From
<1>1. /\ PendingInv /\ TypeOK /\ QueueFiled /\ QueueOrdered /\ NoReadyTxQueued
      /\ a \in Address /\ inflight = NoTx /\ promoting = NoAddr
  BY TxAssumption DEF PoolInv, PendingInv, Idle
<1>2. UNCHANGED <<heap, pendings, txs, promoting>>
  BY DEF addQueue
<1>3. PICK q \in Seq(Tx) :
           /\ queue' = [queue EXCEPT ![a] = q]
           /\ Increasing(q)
           /\ \A i \in 1..Len(q) : q[i] = tx \/ \E j \in 1..Len(queue[a]) : q[i] = queue[a][j]
  BY <1>1, AddQueueFacts DEF QueueOrdered
<1>4. queue \in [Address -> Seq(Tx)]
  BY <1>1 DEF TypeOK
<1>5. queue'[a] = q /\ \A b \in Address \ {a} : queue'[b] = queue[b]
  BY <1>1, <1>3, <1>4
<1>6. TypeOK'
  <2>1. queue' \in [Address -> Seq(Tx)]
    BY <1>1, <1>3, <1>4
  <2> QED
    BY <2>1, <1>1, <1>2 DEF TypeOK
<1>7. PendingInv' /\ \A b \in Address : ReachedNonce(b)' = ReachedNonce(b)
  BY <1>1, <1>2, <1>6, BoxesUntouched
<1>8. QueueFiled'
  <2>1. SignedBy(a, q)
    BY <1>1, <1>3 DEF SignedBy, QueueFiled
  <2> QED
    BY <2>1, <1>1, <1>5 DEF QueueFiled
<1>9. QueueOrdered'
  BY <1>1, <1>3, <1>5 DEF QueueOrdered
<1>10. NoReadyTxQueued'
  <2>1. \A b \in Address : promoting' # b
    BY <1>1, <1>2, TxAssumption
  <2>2. \A b \in Address : \A i \in 1..Len(queue[b]) : queue[b][i].Nonce > ReachedNonce(b) + 1
    BY <2>1, <1>1, <1>2 DEF NoReadyTxQueued
  <2>3. tx.Nonce > ReachedNonce(a) + 1
    BY <1>1, ReachedIsTop
  <2>4. \A i \in 1..Len(q) : q[i].Nonce > ReachedNonce(a) + 1
    BY <2>2, <2>3, <1>1, <1>3
  <2>5. \A b \in Address : \A i \in 1..Len(queue'[b]) : queue'[b][i].Nonce > ReachedNonce(b)' + 1
    BY <2>2, <2>4, <1>5, <1>7
  <2> QED
    BY <2>1, <2>5 DEF NoReadyTxQueued
<1>11. PromotionAlone'
  BY <1>1, <1>2 DEF PromotionAlone
<1> QED
  BY <1>7, <1>8, <1>9, <1>10, <1>11 DEF PoolInv

\* NewTx makes the transaction pending and starts to promote the queue.
LEMMA NewPendingKeepsPoolInv ==
  ASSUME PoolInv, NEW tx \in Tx, Idle, tx.Nonce = TopNonce(tx.From) + 1,
         pushPendingTx(tx.From, tx), time' \in [Tx -> Nat],
         UNCHANGED <<queue, clock, nonce, inflight>>
  PROVE  PoolInv'
<1> DEFINE a == tx.From
<1>1. /\ PendingInv /\ TypeOK /\ QueueFiled /\ QueueOrdered /\ NoReadyTxQueued
      /\ a \in Address /\ inflight = NoTx /\ promoting = NoAddr
  BY TxAssumption DEF PoolInv, PendingInv, Idle
<1>2. queue' \in [Address -> Seq(Tx)] /\ promoting' = a
  BY <1>1 DEF TypeOK, pushPendingTx
<1>3. /\ PendingInv'
      /\ TopNonce(a)' = tx.Nonce /\ pendings'[a] # <<>>
      /\ \A b \in Address \ {a} : TopNonce(b)' = TopNonce(b)
  BY <1>1, <1>2, PushPendingTx
<1>4. \A b \in Address : ReachedNonce(b)' = TopNonce(b)' /\ ReachedNonce(b) = TopNonce(b)
  BY <1>1 DEF ReachedNonce
<1>5. QueueFiled' /\ QueueOrdered'
  BY <1>1 DEF QueueFiled, QueueOrdered
<1>6. NoReadyTxQueued'
  <2>1. \A b \in Address : \A i \in 1..Len(queue[b]) : queue[b][i].Nonce > TopNonce(b) + 1
    BY <1>1, <1>4, TxAssumption DEF NoReadyTxQueued
  <2>2. ASSUME NEW b \in Address, NEW i \in 1..Len(queue[b])
        PROVE  queue[b][i].Nonce > TopNonce(b)' + (IF a = b THEN 0 ELSE 1)
    <3>1. CASE b = a
      <4>1. queue[b][i].Nonce > tx.Nonce
        BY <3>1, <2>1
      <4>2. tx.Nonce \in Nat
        BY TxAssumption
      <4> QED
        BY <3>1, <4>1, <4>2, <1>3
    <3>2. CASE b # a
      BY <3>2, <2>1, <1>3
    <3> QED
      BY <3>1, <3>2
  <2> QED
    BY <2>2, <1>2, <1>4 DEF NoReadyTxQueued
<1>7. PromotionAlone'
  BY <1>1, <1>2, <1>3 DEF PromotionAlone
<1> QED
  BY <1>3, <1>5, <1>6, <1>7 DEF PoolInv

\* NewTx replaces a pending transaction of the same nonce, or changes nothing.
LEMMA ReplaceKeepsPoolInv ==
  ASSUME PoolInv, NEW tx \in Tx, Idle,
         replacePendingTx(tx.From, tx), time' \in [Tx -> Nat],
         UNCHANGED <<clock, nonce, inflight>>
  PROVE  PoolInv'
<1> DEFINE a == tx.From
<1>1. /\ PendingInv /\ TypeOK /\ QueueFiled /\ QueueOrdered /\ NoReadyTxQueued
      /\ PromotionAlone /\ a \in Address /\ inflight = NoTx
  BY TxAssumption DEF PoolInv, PendingInv, Idle
<1>2. /\ BoxesExclusive /\ PendingFiled /\ PendingConsecutive
      /\ AccountBehindPending /\ BoxesListed
  BY <1>1 DEF PendingInv
<1>3. UNCHANGED <<pendings, queue, txs, promoting>>
  BY DEF replacePendingTx
<1>4. /\ heap' = [b \in 1..Len(heap) |-> heap'[b]]
      /\ \A b \in 1..Len(heap) :
           \/ heap'[b] = heap[b]
           \/ heap'[b] = Replace(heap[b], tx) /\ \E k \in 1..Len(pendings[a]) : pendings[a][k] = b
  BY DEF replacePendingTx
<1>5. \A b \in 1..Len(heap) :
        /\ heap'[b] \in Seq(Tx) /\ Len(heap'[b]) = Len(heap[b]) /\ Len(heap[b]) \in Nat
        /\ \A k \in 1..Len(heap[b]) : heap'[b][k].Nonce = heap[b][k].Nonce
  <2> SUFFICES ASSUME NEW b \in 1..Len(heap)
               PROVE  /\ heap'[b] \in Seq(Tx) /\ Len(heap'[b]) = Len(heap[b]) /\ Len(heap[b]) \in Nat
                      /\ \A k \in 1..Len(heap[b]) : heap'[b][k].Nonce = heap[b][k].Nonce
    OBVIOUS
  <2>1. heap[b] \in Seq(Tx) /\ Len(heap[b]) \in Nat
    BY <1>1, Pieces
  <2>2. /\ Replace(heap[b], tx) \in Seq(Tx) /\ Len(Replace(heap[b], tx)) = Len(heap[b])
        /\ \A k \in 1..Len(heap[b]) : Replace(heap[b], tx)[k].Nonce = heap[b][k].Nonce
    BY <2>1, ReplaceFacts
  <2> QED
    BY <2>1, <2>2, <1>4
<1>6. heap' \in Seq(Seq(Tx)) /\ Len(heap') = Len(heap)
  <2>1. heap' \in [1..Len(heap) -> Seq(Tx)]
    BY <1>4, <1>5
  <2>2. Len(heap) \in Nat
    BY <1>1, Pieces
  <2> QED
    BY <2>1, <2>2, FunctionIsSeq
<1>7. TypeOK'
  BY <1>1, <1>3, <1>6 DEF TypeOK
<1>8. ASSUME NEW b \in 1..Len(heap), heap[b] # <<>>
      PROVE  /\ heap'[b] # <<>>
             /\ FirstNonce(heap'[b]) = FirstNonce(heap[b])
             /\ LastNonce(heap'[b]) = LastNonce(heap[b])
             /\ Consecutive(heap[b]) => Consecutive(heap'[b])
  <2>1. heap[b] \in Seq(Tx) /\ heap'[b] \in Seq(Tx) /\ Len(heap[b]) \in Nat
    BY <1>1, <1>5, Pieces
  <2>2. Len(heap[b]) # 0 /\ Len(heap'[b]) = Len(heap[b])
    BY <2>1, <1>5, <1>8, EmptySeq
  <2>3. heap'[b] # <<>>
    BY <2>1, <2>2, EmptySeq
  <2>4. 1 \in 1..Len(heap[b]) /\ Len(heap[b]) \in 1..Len(heap[b])
    BY <2>1, <2>2
  <2>5. heap'[b][1].Nonce = heap[b][1].Nonce /\ heap'[b][Len(heap'[b])].Nonce = heap[b][Len(heap[b])].Nonce
    BY <2>2, <2>4, <1>5
  <2>6. Consecutive(heap[b]) => Consecutive(heap'[b])
    <3> SUFFICES ASSUME Consecutive(heap[b]), NEW k \in 1..(Len(heap[b]) - 1)
                 PROVE  heap'[b][k + 1].Nonce = heap'[b][k].Nonce + 1
      BY <2>2 DEF Consecutive
    <3>1. k \in 1..Len(heap[b]) /\ k + 1 \in 1..Len(heap[b])
      BY <2>1
    <3>2. heap[b][k + 1].Nonce = heap[b][k].Nonce + 1
      BY DEF Consecutive
    <3> QED
      BY <3>1, <3>2, <1>5
  <2> QED
    BY <2>3, <2>5, <2>6, <1>8 DEF FirstNonce, LastNonce
<1>9. \A c \in Address : \A i \in 1..Len(pendings[c]) :
        /\ pendings[c][i] \in 1..Len(heap)
        /\ heap'[pendings[c][i]] # <<>>
        /\ FirstNonce(heap'[pendings[c][i]]) = FirstNonce(heap[pendings[c][i]])
        /\ LastNonce(heap'[pendings[c][i]]) = LastNonce(heap[pendings[c][i]])
        /\ Consecutive(heap'[pendings[c][i]])
  <2> SUFFICES ASSUME NEW c \in Address, NEW i \in 1..Len(pendings[c])
               PROVE  /\ pendings[c][i] \in 1..Len(heap)
                      /\ heap'[pendings[c][i]] # <<>>
                      /\ FirstNonce(heap'[pendings[c][i]]) = FirstNonce(heap[pendings[c][i]])
                      /\ LastNonce(heap'[pendings[c][i]]) = LastNonce(heap[pendings[c][i]])
                      /\ Consecutive(heap'[pendings[c][i]])
    OBVIOUS
  <2>1. pendings[c][i] \in 1..Len(heap)
    BY <1>1, Pieces
  <2>2. heap[pendings[c][i]] # <<>>
    BY <1>2 DEF BoxesExclusive
  <2>3. Consecutive(heap[pendings[c][i]])
    BY <1>2 DEF PendingConsecutive
  <2> QED
    BY <2>1, <2>2, <2>3, <1>8
<1>10. BoxesExclusive'
  <2>1. ASSUME NEW c \in Address, NEW i \in 1..Len(pendings[c]),
               NEW d \in Address, NEW j \in 1..Len(pendings[d]), pendings[c][i] = pendings[d][j]
        PROVE  c = d /\ i = j
    BY <2>1, <1>2 DEF BoxesExclusive
  <2> QED
    BY <2>1, <1>3, <1>9 DEF BoxesExclusive
<1>11. PendingFiled'
  <2>1. ASSUME NEW c \in Address, NEW i \in 1..Len(pendings[c])
        PROVE  SignedBy(c, heap'[pendings[c][i]])
    <3> DEFINE b == pendings[c][i]
    <3>1. SignedBy(c, heap[b]) /\ b \in 1..Len(heap)
      BY <1>2, <1>9 DEF PendingFiled
    <3>2. CASE heap'[b] = heap[b]
      BY <3>1, <3>2
    <3>3. CASE heap'[b] = Replace(heap[b], tx) /\ \E k \in 1..Len(pendings[a]) : pendings[a][k] = b
      <4>1. c = a
        BY <3>3, <1>1, <1>2 DEF BoxesExclusive
      <4>2. heap[b] \in Seq(Tx)
        BY <3>1, <1>1, Pieces
      <4>3. /\ Len(Replace(heap[b], tx)) = Len(heap[b])
            /\ \A k \in 1..Len(heap[b]) : Replace(heap[b], tx)[k] \in {heap[b][k], tx}
        BY <4>2, ReplaceFacts
      <4> QED
        BY <3>1, <3>3, <4>1, <4>3 DEF SignedBy
    <3> QED
      BY <3>1, <3>2, <3>3, <1>4
  <2> QED
    BY <2>1, <1>3 DEF PendingFiled
<1>12. PendingConsecutive'
  <2>1. ASSUME NEW c \in Address, NEW i \in 1..Len(pendings[c]), i < Len(pendings[c])
        PROVE  FirstNonce(heap'[pendings[c][i + 1]]) = LastNonce(heap'[pendings[c][i]]) + 1
    <3>1. i + 1 \in 1..Len(pendings[c])
      BY <2>1, <1>1, Pieces
    <3>2. FirstNonce(heap[pendings[c][i + 1]]) = LastNonce(heap[pendings[c][i]]) + 1
      BY <2>1, <1>2 DEF PendingConsecutive
    <3> QED
      BY <3>1, <3>2, <1>9
  <2> QED
    BY <2>1, <1>3, <1>9 DEF PendingConsecutive
<1>13. \A c \in Address : pendings[c] # <<>> =>
         1 \in 1..Len(pendings[c]) /\ Len(pendings[c]) \in 1..Len(pendings[c])
  BY <1>1, Pieces, EmptySeq
<1>14. AccountBehindPending'
  BY <1>1, <1>2, <1>3, <1>9, <1>13 DEF AccountBehindPending
<1>15. BoxesListed'
  BY <1>2, <1>3, <1>6 DEF BoxesListed
<1>16. \A c \in Address : ReachedNonce(c)' = ReachedNonce(c)
  BY <1>1, <1>3, <1>9, <1>13 DEF ReachedNonce, TopNonce, LastBox
<1>17. QueueFiled' /\ QueueOrdered' /\ NoReadyTxQueued' /\ PromotionAlone'
  BY <1>1, <1>3, <1>16 DEF QueueFiled, QueueOrdered, NoReadyTxQueued, PromotionAlone
<1> QED
  BY <1>7, <1>10, <1>11, <1>12, <1>14, <1>15, <1>17 DEF PendingInv, PoolInv

\* Any call of NewTx.
LEMMA NewTxKeepsPoolInv ==
  ASSUME PoolInv, NEW tx \in Tx, NewTx(tx)
  PROVE  PoolInv'
<1>1. time' \in [Tx -> Nat]
  BY DEF NewTx, PoolInv, PendingInv, TypeOK
<1> QED
  BY <1>1, AddQueueKeepsPoolInv, NewPendingKeepsPoolInv, ReplaceKeepsPoolInv DEF NewTx

\* A round of the promotion loop: the queue's head follows on, or the loop ends.
LEMMA PromotionKeepsPoolInv ==
  ASSUME PoolInv, promoteQueueToPending
  PROVE  PoolInv'
<1>1. /\ PendingInv /\ TypeOK /\ QueueFiled /\ QueueOrdered /\ NoReadyTxQueued
      /\ PromotionAlone /\ promoting # NoAddr
  BY DEF PoolInv, PendingInv, promoteQueueToPending
<1>2. PICK a \in Address : promoting = a /\ inflight = NoTx /\ pendings[a] # <<>>
  BY <1>1 DEF TypeOK, PromotionAlone
<1>8. PICK tx : tx = queue[a][1]
  OBVIOUS
<1>3. /\ queue \in [Address -> Seq(Tx)] /\ time \in [Tx -> Nat]
      /\ UNCHANGED <<time, clock, nonce, inflight>>
  BY <1>1 DEF TypeOK, promoteQueueToPending
<1>4. queue[a] \in Seq(Tx) /\ Len(queue[a]) \in Nat /\ \A i \in 1..Len(queue[a]) : queue[a][i] \in Tx
  BY <1>1, <1>2, Pieces
<1>5. \A b \in Address : \A i \in 1..Len(queue[b]) :
        queue[b][i].Nonce > TopNonce(b) + (IF a = b THEN 0 ELSE 1)
  BY <1>1, <1>2 DEF NoReadyTxQueued, ReachedNonce
<1>6. CASE queue[a] # <<>> /\ tx.Nonce = TopNonce(a) + 1
  <2>1. pushPendingTx(a, tx) /\ queue' = [queue EXCEPT ![a] = Tail(queue[a])]
    BY <1>2, <1>6, <1>8 DEF promoteQueueToPending, popFromQueue
  <2>2. /\ Len(queue[a]) # 0 /\ 1 \in 1..Len(queue[a]) /\ tx \in Tx
    BY <1>4, <1>6, <1>8, EmptySeq
  <2>3. /\ Tail(queue[a]) \in Seq(Tx) /\ Len(Tail(queue[a])) = Len(queue[a]) - 1
        /\ \A i \in 1..Len(Tail(queue[a])) : Tail(queue[a])[i] = queue[a][i + 1]
    BY <1>4, <1>6, HeadTailProperties
  <2>4. \A i \in 1..Len(Tail(queue[a])) : i + 1 \in 1..Len(queue[a]) /\ i + 1 > 1
    BY <1>4, <2>3
  <2>5. /\ queue' \in [Address -> Seq(Tx)] /\ queue'[a] = Tail(queue[a])
        /\ \A b \in Address \ {a} : queue'[b] = queue[b]
    BY <1>2, <1>3, <2>1, <2>3
  <2>6. tx.From = a
    BY <1>1, <1>2, <1>8, <2>2 DEF QueueFiled, SignedBy
  <2>7. /\ PendingInv'
        /\ TopNonce(a)' = tx.Nonce /\ pendings'[a] # <<>>
        /\ \A b \in Address \ {a} : TopNonce(b)' = TopNonce(b)
    BY <1>1, <1>2, <1>3, <1>6, <2>1, <2>2, <2>5, <2>6, PushPendingTx
  <2>8. SignedBy(a, Tail(queue[a]))
    BY <1>1, <1>2, <2>3, <2>4 DEF QueueFiled, SignedBy
  <2>9. Increasing(Tail(queue[a]))
    <3> SUFFICES ASSUME NEW i \in 1..Len(Tail(queue[a])), NEW j \in 1..Len(Tail(queue[a])), i < j
                 PROVE  Tail(queue[a])[i].Nonce < Tail(queue[a])[j].Nonce
      BY DEF Increasing
    <3>1. i + 1 \in 1..Len(queue[a]) /\ j + 1 \in 1..Len(queue[a]) /\ i + 1 < j + 1
      BY <1>4, <2>3
    <3>2. queue[a][i + 1].Nonce < queue[a][j + 1].Nonce
      BY <3>1, <1>1, <1>2 DEF QueueOrdered, Increasing
    <3> QED
      BY <3>2, <2>3
  <2>10. \A i \in 1..Len(Tail(queue[a])) : Tail(queue[a])[i].Nonce > tx.Nonce
    <3>1. ASSUME NEW i \in 1..Len(Tail(queue[a]))
          PROVE  queue[a][1].Nonce < queue[a][i + 1].Nonce
      BY <2>2, <2>4, <1>1, <1>2 DEF QueueOrdered, Increasing
    <3>2. ASSUME NEW i \in 1..Len(Tail(queue[a]))
          PROVE  queue[a][i + 1] \in Tx
      BY <2>4, <1>4
    <3> QED
      BY <3>1, <3>2, <2>2, <2>3, <1>8, TxAssumption
  <2>11. QueueFiled' /\ QueueOrdered'
    BY <1>1, <2>5, <2>8, <2>9 DEF QueueFiled, QueueOrdered
  <2>12. promoting' = a
    BY <2>1 DEF pushPendingTx
  <2>13. \A b \in Address : ReachedNonce(b)' = TopNonce(b)'
    BY <1>2, <1>3 DEF ReachedNonce
  <2>14. ASSUME NEW b \in Address, NEW i \in 1..Len(queue'[b])
         PROVE  queue'[b][i].Nonce > TopNonce(b)' + (IF a = b THEN 0 ELSE 1)
    <3>1. CASE b = a
      <4>1. queue'[b][i].Nonce > tx.Nonce /\ tx.Nonce \in Nat
        BY <3>1, <2>2, <2>5, <2>10, <2>14, TxAssumption
      <4> QED
        BY <3>1, <4>1, <2>7
    <3>2. CASE b # a
      BY <3>2, <1>5, <2>5, <2>7
    <3> QED
      BY <3>1, <3>2
  <2>15. NoReadyTxQueued'
    BY <2>12, <2>13, <2>14 DEF NoReadyTxQueued
  <2>16. PromotionAlone'
    BY <1>2, <1>3, <2>7, <2>12 DEF PromotionAlone
  <2> QED
    BY <2>7, <2>11, <2>15, <2>16 DEF PoolInv
<1>7. CASE ~(queue[a] # <<>> /\ tx.Nonce = TopNonce(a) + 1)
  <2>1. promoting' = NoAddr /\ UNCHANGED <<heap, pendings, queue, txs>>
    BY <1>2, <1>7, <1>8 DEF promoteQueueToPending
  <2>2. TypeOK'
    BY <1>1, <1>3, <2>1 DEF TypeOK
  <2>3. PendingInv' /\ \A b \in Address : TopNonce(b)' = TopNonce(b)
    BY <1>1, <1>3, <2>1, <2>2, BoxesUntouched
  <2>4. QueueFiled' /\ QueueOrdered' /\ PromotionAlone'
    BY <1>1, <2>1 DEF QueueFiled, QueueOrdered, PromotionAlone
  <2>5. TopNonce(a) \in Nat
    BY <1>1, <1>2, LastBoxFacts DEF PendingInv
  <2>6. ASSUME NEW i \in 1..Len(queue[a])
        PROVE  queue[a][i].Nonce > TopNonce(a) + 1
    <3>1. 1 \in 1..Len(queue[a]) /\ queue[a] # <<>>
      BY <1>4, EmptySeq
    <3>2. tx.Nonce > TopNonce(a) /\ tx.Nonce # TopNonce(a) + 1 /\ tx.Nonce \in Nat
      <4>1. queue[a][1].Nonce > TopNonce(a) + 0
        BY <3>1, <1>5
      <4>2. queue[a][1].Nonce \in Nat
        BY <3>1, <1>4, TxAssumption
      <4> QED
        BY <4>1, <4>2, <3>1, <2>5, <1>7, <1>8
    <3>3. tx.Nonce > TopNonce(a) + 1
      BY <3>2, <2>5
    <3>4. CASE i = 1
      BY <3>3, <3>4, <1>8
    <3>5. CASE i # 1
      <4>1. 1 < i
        BY <3>5, <1>4
      <4>2. queue[a][1].Nonce < queue[a][i].Nonce /\ queue[a][i].Nonce \in Nat
        BY <4>1, <3>1, <1>1, <1>2, <1>4, TxAssumption DEF QueueOrdered, Increasing
      <4> QED
        BY <4>2, <3>2, <3>3, <2>5, <1>8
    <3> QED
      BY <3>4, <3>5
  <2>7. \A b \in Address : ReachedNonce(b)' = TopNonce(b) /\ promoting' # b
    BY <1>2, <1>3, <2>1, <2>3, TxAssumption DEF ReachedNonce
  <2>8. \A b \in Address : \A i \in 1..Len(queue[b]) : queue[b][i].Nonce > TopNonce(b) + 1
    BY <1>5, <2>6
  <2>9. NoReadyTxQueued'
    BY <2>1, <2>7, <2>8 DEF NoReadyTxQueued
  <2> QED
    BY <2>3, <2>4, <2>9 DEF PoolInv
<1> QED
  BY <1>6, <1>7

\* What is left of a box of several transactions after its first is popped.
LEMMA TailBox ==
  ASSUME NEW box \in Seq(Tx), Len(box) > 1
  PROVE  /\ Tail(box) \in Seq(Tx) /\ Tail(box) # <<>>
         /\ FirstNonce(Tail(box)) = box[2].Nonce
         /\ LastNonce(Tail(box)) = LastNonce(box)
         /\ Consecutive(box) => Consecutive(Tail(box))
         /\ \A a : SignedBy(a, box) => SignedBy(a, Tail(box))
<1>1. Len(box) \in Nat /\ box # <<>>
  BY LenProperties, EmptySeq
<1>2. /\ Tail(box) \in Seq(Tx) /\ Len(Tail(box)) = Len(box) - 1
      /\ \A i \in 1..Len(Tail(box)) : Tail(box)[i] = box[i + 1]
  BY <1>1, HeadTailProperties
<1>3. /\ \A i \in 1..Len(Tail(box)) : i + 1 \in 1..Len(box)
      /\ 1 \in 1..Len(Tail(box)) /\ Len(Tail(box)) \in 1..Len(Tail(box))
      /\ Len(Tail(box)) + 1 = Len(box)
  BY <1>1, <1>2
<1>4. Tail(box) # <<>>
  <2>1. Len(Tail(box)) # 0
    BY <1>1, <1>2
  <2> QED
    BY <2>1, <1>2, EmptySeq
<1>5. FirstNonce(Tail(box)) = box[2].Nonce /\ LastNonce(Tail(box)) = LastNonce(box)
  BY <1>1, <1>2, <1>3, <1>4 DEF FirstNonce, LastNonce
<1>6. ASSUME Consecutive(box), NEW k \in 1..(Len(Tail(box)) - 1)
      PROVE  Tail(box)[k + 1].Nonce = Tail(box)[k].Nonce + 1
  <2>1. k + 1 \in 1..(Len(box) - 1) /\ k \in 1..Len(Tail(box)) /\ k + 1 \in 1..Len(Tail(box))
    BY <1>1, <1>2
  <2>2. box[(k + 1) + 1].Nonce = box[k + 1].Nonce + 1
    BY <2>1, <1>6 DEF Consecutive
  <2> QED
    BY <2>1, <2>2, <1>2
<1>7. ASSUME NEW a, SignedBy(a, box)
      PROVE  SignedBy(a, Tail(box))
  BY <1>2, <1>3, <1>7 DEF SignedBy
<1> QED
  BY <1>2, <1>4, <1>5, <1>6, <1>7 DEF Consecutive

\* What both ways of popping rest on: the first box belongs to nobody else,
\* its first transaction is the sender's lowest.
LEMMA FirstBoxFacts ==
  ASSUME PendingInv, NEW a \in Address, pendings[a] # <<>>
  PROVE  /\ Len(pendings[a]) \in Nat \ {0} /\ pendings[a][1] \in 1..Len(heap)
         /\ heap[pendings[a][1]] \in Seq(Tx) /\ Len(heap[pendings[a][1]]) \in Nat \ {0}
         /\ heap[pendings[a][1]][1] \in Tx /\ heap[pendings[a][1]][1].From = a
         /\ FirstNonce(heap[pendings[a][1]]) = heap[pendings[a][1]][1].Nonce
         /\ nonce[a] < heap[pendings[a][1]][1].Nonce
         /\ Consecutive(heap[pendings[a][1]]) /\ SignedBy(a, heap[pendings[a][1]])
         /\ \A c \in Address : \A i \in 1..Len(pendings[c]) :
              pendings[c][i] = pendings[a][1] => c = a /\ i = 1
<1>1. /\ TypeOK /\ BoxesExclusive /\ PendingFiled /\ PendingConsecutive /\ AccountBehindPending
  BY DEF PendingInv
<1>2. Len(pendings[a]) \in Nat \ {0} /\ 1 \in 1..Len(pendings[a])
  BY <1>1, Pieces, EmptySeq
<1>3. pendings[a][1] \in 1..Len(heap)
  BY <1>1, <1>2, Pieces
<1>4. heap[pendings[a][1]] \in Seq(Tx)
  BY <1>1, <1>3, Pieces
<1>5. heap[pendings[a][1]] # <<>>
  BY <1>1, <1>2 DEF BoxesExclusive
<1>6. Len(heap[pendings[a][1]]) \in Nat \ {0} /\ 1 \in 1..Len(heap[pendings[a][1]])
  BY <1>4, <1>5, EmptySeq, LenProperties
<1>7. heap[pendings[a][1]][1] \in Tx
  BY <1>4, <1>6, ElementOfSeq
<1>8. Consecutive(heap[pendings[a][1]]) /\ SignedBy(a, heap[pendings[a][1]])
  BY <1>1, <1>2 DEF PendingConsecutive, PendingFiled
<1>9. heap[pendings[a][1]][1].From = a
  BY <1>6, <1>8 DEF SignedBy
<1>10. FirstNonce(heap[pendings[a][1]]) = heap[pendings[a][1]][1].Nonce
  BY <1>5 DEF FirstNonce
<1>11. nonce[a] < heap[pendings[a][1]][1].Nonce
  BY <1>1, <1>10 DEF AccountBehindPending
<1>12. \A c \in Address : \A i \in 1..Len(pendings[c]) :
         pendings[c][i] = pendings[a][1] => c = a /\ i = 1
  BY <1>1, <1>2 DEF BoxesExclusive
<1> QED
  BY <1>2, <1>3, <1>4, <1>6, <1>7, <1>8, <1>9, <1>10, <1>11, <1>12

\* A count that is neither 0 nor 1.
LEMMA AboveOne ==
  ASSUME NEW n \in Nat \ {0}, n # 1
  PROVE  n > 1
OBVIOUS

\* Popping from a box of several transactions.
LEMMA PopShortens ==
  ASSUME PendingInv, NEW a \in Address, PopPendingTx(a), Len(heap[pendings[a][1]]) # 1
  PROVE  PendingInv' /\ \A c \in Address : ReachedNonce(c)' = ReachedNonce(c)
<1> DEFINE b   == pendings[a][1]
           box == heap[b]
           tx  == box[1]
<1>0. /\ pendings[a] # <<>> /\ inflight = NoTx /\ inflight' = tx
      /\ heap' = [heap EXCEPT ![b] = Tail(box)]
      /\ UNCHANGED <<pendings, queue, txs, time, clock, nonce, promoting>>
  BY DEF PopPendingTx, Idle
<1>1. /\ TypeOK /\ BoxesExclusive /\ PendingFiled /\ PendingConsecutive
      /\ AccountBehindPending /\ BoxesListed
  BY DEF PendingInv
<1>2. /\ Len(pendings[a]) \in Nat \ {0} /\ b \in 1..Len(heap)
      /\ box \in Seq(Tx) /\ Len(box) \in Nat \ {0}
      /\ tx \in Tx /\ tx.From = a /\ nonce[a] < tx.Nonce
      /\ Consecutive(box) /\ SignedBy(a, box)
      /\ \A c \in Address : \A i \in 1..Len(pendings[c]) : pendings[c][i] = b => c = a /\ i = 1
  BY <1>0, FirstBoxFacts
<1>3. Len(box) > 1
  <2>1. PICK n \in Nat \ {0} : n = Len(box)
    BY <1>2
  <2>2. n # 1
    BY <2>1, Zenon
  <2>3. n > 1
    BY <2>1, <2>2, AboveOne, Zenon
  <2> QED
    BY <2>1, <2>3, Zenon
<1>4. /\ Tail(box) \in Seq(Tx) /\ Tail(box) # <<>>
      /\ FirstNonce(Tail(box)) = box[2].Nonce /\ LastNonce(Tail(box)) = LastNonce(box)
      /\ Consecutive(Tail(box)) /\ SignedBy(a, Tail(box))
  BY <1>2, <1>3, TailBox
<1>5. box[2].Nonce = tx.Nonce + 1
  <2>1. 1 \in 1..(Len(box) - 1)
    BY <1>2, <1>3
  <2> QED
    BY <2>1, <1>2 DEF Consecutive
<1>6. heap \in Seq(Seq(Tx)) /\ Len(heap) \in Nat /\ DOMAIN heap = 1..Len(heap)
  BY <1>1, LenProperties DEF TypeOK
<1>7. heap'[b] = Tail(box) /\ \A d \in 1..Len(heap) : d # b => heap'[d] = heap[d]
  BY <1>0, <1>2, <1>6
<1>8. heap' \in Seq(Seq(Tx)) /\ Len(heap') = Len(heap)
  <2>1. \A d \in 1..Len(heap) : heap[d] \in Seq(Tx)
    BY <1>1, Pieces
  <2>2. heap' \in [1..Len(heap) -> Seq(Tx)]
    BY <1>0, <1>4, <1>6, <2>1
  <2> QED
    BY <2>2, <1>6, FunctionIsSeq
<1>9. inflight' = tx /\ tx # NoTx
  BY <1>0, <1>2, TxAssumption
<1>10. b = pendings[a][1] /\ box = heap[b]
  OBVIOUS
<1> HIDE DEF b, box, tx
<1>11. TypeOK'
  BY <1>0, <1>1, <1>2, <1>8, <1>9 DEF TypeOK
<1>12. \A c \in Address : \A i \in 1..Len(pendings[c]) :
         pendings[c][i] # b => heap'[pendings[c][i]] = heap[pendings[c][i]]
  BY <1>1, <1>7, Pieces
<1>13. BoxesExclusive'
  <2>1. ASSUME NEW c \in Address, NEW i \in 1..Len(pendings[c])
        PROVE  heap'[pendings[c][i]] # <<>>
    <3>1. CASE pendings[c][i] = b
      BY <3>1, <1>4, <1>7
    <3>2. CASE pendings[c][i] # b
      BY <3>2, <1>1, <1>12 DEF BoxesExclusive
    <3> QED
      BY <3>1, <3>2
  <2>2. ASSUME NEW c \in Address, NEW i \in 1..Len(pendings[c]),
               NEW d \in Address, NEW j \in 1..Len(pendings[d]), pendings[c][i] = pendings[d][j]
        PROVE  c = d /\ i = j
    BY <2>2, <1>1 DEF BoxesExclusive
  <2> QED
    BY <2>1, <2>2, <1>0 DEF BoxesExclusive
<1>14. ASSUME NEW c \in Address, NEW i \in 1..Len(pendings[c])
       PROVE  /\ SignedBy(c, heap'[pendings[c][i]])
              /\ Consecutive(heap'[pendings[c][i]])
              /\ LastNonce(heap'[pendings[c][i]]) = LastNonce(heap[pendings[c][i]])
  <2>1. CASE pendings[c][i] = b
    BY <2>1, <1>2, <1>4, <1>7, <1>10
  <2>2. CASE pendings[c][i] # b
    BY <2>2, <1>1, <1>12 DEF PendingFiled, PendingConsecutive
  <2> QED
    BY <2>1, <2>2
<1>15. PendingFiled'
  BY <1>0, <1>14 DEF PendingFiled
<1>16. PendingConsecutive'
  <2>1. ASSUME NEW c \in Address, NEW i \in 1..Len(pendings[c]), i < Len(pendings[c])
        PROVE  FirstNonce(heap'[pendings[c][i + 1]]) = LastNonce(heap'[pendings[c][i]]) + 1
    <3>1. i + 1 \in 1..Len(pendings[c]) /\ i + 1 # 1
      BY <2>1, <1>1, Pieces
    <3>2. FirstNonce(heap[pendings[c][i + 1]]) = LastNonce(heap[pendings[c][i]]) + 1
      BY <2>1, <1>1 DEF PendingConsecutive
    <3>3. pendings[c][i + 1] # b
      BY <3>1, <1>2
    <3> QED
      BY <3>1, <3>2, <3>3, <1>12, <1>14
  <2> QED
    BY <2>1, <1>0, <1>14 DEF PendingConsecutive
<1>17. AccountBehindPending'
  <2>1. ASSUME NEW c \in Address, c # a, pendings[c] # <<>>
        PROVE  nonce[c] < FirstNonce(heap'[pendings[c][1]])
    <3>1. 1 \in 1..Len(pendings[c])
      BY <2>1, <1>1, Pieces, EmptySeq
    <3>2. heap'[pendings[c][1]] = heap[pendings[c][1]]
      BY <2>1, <3>1, <1>2, <1>12
    <3> QED
      BY <2>1, <3>2, <1>1 DEF AccountBehindPending
  <2>2. FirstNonce(heap'[pendings[a][1]]) = tx.Nonce + 1
    BY <1>4, <1>5, <1>7, <1>10
  <2>3. nonce[a] < FirstNonce(heap'[pendings[a][1]])
    <3>1. nonce[a] \in Nat /\ tx.Nonce \in Nat
      BY <1>1, <1>2, Pieces, TxAssumption
    <3> QED
      BY <2>2, <3>1, <1>2
  <2> QED
    BY <2>1, <2>2, <2>3, <1>0, <1>2, <1>9 DEF AccountBehindPending
<1>18. BoxesListed'
  BY <1>0, <1>1, <1>8 DEF BoxesListed
<1>19. ASSUME NEW c \in Address PROVE ReachedNonce(c)' = ReachedNonce(c)
  <2>1. TopNonce(c)' = TopNonce(c)
    <3>1. CASE pendings[c] = <<>>
      BY <3>1, <1>0 DEF TopNonce
    <3>2. CASE pendings[c] # <<>>
      <4>1. Len(pendings[c]) \in 1..Len(pendings[c])
        BY <3>2, <1>1, Pieces, EmptySeq
      <4> QED
        BY <3>2, <4>1, <1>0, <1>14 DEF TopNonce, LastBox
    <3> QED
      BY <3>1, <3>2
  <2> QED
    BY <2>1, <1>0, <1>2, <1>9 DEF ReachedNonce
<1> QED
  BY <1>11, <1>13, <1>15, <1>16, <1>17, <1>18, <1>19 DEF PendingInv

\* Popping a box's only transaction drops the box.
LEMMA PopDropsBox ==
  ASSUME PendingInv, NEW a \in Address, PopPendingTx(a), Len(heap[pendings[a][1]]) = 1
  PROVE  PendingInv' /\ \A c \in Address : ReachedNonce(c)' = ReachedNonce(c)
<1> DEFINE b   == pendings[a][1]
           box == heap[b]
           tx  == box[1]
           m   == Len(pendings[a])
<1>0. /\ pendings[a] # <<>> /\ inflight = NoTx /\ inflight' = tx
      /\ heap' = [heap EXCEPT ![b] = Tail(box)]
      /\ pendings' = [pendings EXCEPT ![a] = Tail(pendings[a])]
      /\ UNCHANGED <<queue, txs, time, clock, nonce, promoting>>
  BY DEF PopPendingTx, Idle
<1>1. /\ TypeOK /\ BoxesExclusive /\ PendingFiled /\ PendingConsecutive
      /\ AccountBehindPending /\ BoxesListed
  BY DEF PendingInv
<1>2. /\ m \in Nat \ {0} /\ b \in 1..Len(heap)
      /\ box \in Seq(Tx) /\ Len(box) = 1 /\ box # <<>>
      /\ tx \in Tx /\ tx.From = a /\ nonce[a] < tx.Nonce
      /\ \A c \in Address : \A i \in 1..Len(pendings[c]) : pendings[c][i] = b => c = a /\ i = 1
  BY <1>0, FirstBoxFacts, EmptySeq
<1>3. LastNonce(box) = tx.Nonce
  BY <1>2 DEF LastNonce
<1>4. Tail(box) \in Seq(Tx)
  BY <1>2, HeadTailProperties
<1>5. heap \in Seq(Seq(Tx)) /\ Len(heap) \in Nat /\ DOMAIN heap = 1..Len(heap)
  BY <1>1, LenProperties DEF TypeOK
<1>6. \A d \in 1..Len(heap) : d # b => heap'[d] = heap[d]
  BY <1>0, <1>2, <1>5
<1>7. heap' \in Seq(Seq(Tx)) /\ Len(heap') = Len(heap)
  <2>1. \A d \in 1..Len(heap) : heap[d] \in Seq(Tx)
    BY <1>1, Pieces
  <2>2. heap' \in [1..Len(heap) -> Seq(Tx)]
    BY <1>0, <1>4, <1>5, <2>1
  <2> QED
    BY <2>2, <1>5, FunctionIsSeq
<1>8. inflight' = tx /\ tx # NoTx
  BY <1>0, <1>2, TxAssumption
<1>9. pendings \in [Address -> Seq(1..Len(heap))] /\ pendings[a] \in Seq(1..Len(heap))
  BY <1>1 DEF TypeOK
<1>10. /\ Tail(pendings[a]) \in Seq(1..Len(heap)) /\ Len(Tail(pendings[a])) = m - 1
       /\ \A i \in 1..Len(Tail(pendings[a])) : Tail(pendings[a])[i] = pendings[a][i + 1]
  BY <1>0, <1>9, HeadTailProperties
<1>11. b = pendings[a][1] /\ box = heap[b] /\ m = Len(pendings[a])
  OBVIOUS
<1>12. /\ pendings' \in [Address -> Seq(1..Len(heap))]
       /\ pendings'[a] = Tail(pendings[a])
       /\ \A c \in Address \ {a} : pendings'[c] = pendings[c]
  BY <1>0, <1>9, <1>10
<1> HIDE DEF b, box, tx, m
<1>13. TypeOK'
  BY <1>0, <1>1, <1>2, <1>7, <1>8, <1>12 DEF TypeOK
\* The slot a remaining box had before; Shift moves a's slots by one.
<1> DEFINE Shift(c, i) == IF c = a THEN i + 1 ELSE i
<1>14. ASSUME NEW c \in Address, NEW i \in 1..Len(pendings'[c])
       PROVE  /\ i \in Nat /\ Shift(c, i) \in 1..Len(pendings[c])
              /\ pendings'[c][i] = pendings[c][Shift(c, i)]
              /\ heap'[pendings'[c][i]] = heap[pendings'[c][i]]
  <2>1. CASE c = a
    <3>1. i \in 1..(m - 1) /\ pendings'[c][i] = pendings[a][i + 1]
      BY <2>1, <1>10, <1>12
    <3>2. i \in Nat /\ i + 1 \in 1..m /\ i + 1 # 1
      BY <3>1, <1>2
    <3>3. pendings[a][i + 1] # b /\ pendings[a][i + 1] \in 1..Len(heap)
      BY <3>2, <1>1, <1>2, <1>11, Pieces
    <3> QED
      BY <2>1, <3>1, <3>2, <3>3, <1>6, <1>11
  <2>2. CASE c # a
    <3>1. pendings'[c] = pendings[c] /\ Len(pendings[c]) \in Nat
      BY <2>2, <1>1, <1>12, Pieces
    <3>2. pendings[c][i] # b /\ pendings[c][i] \in 1..Len(heap) /\ i \in Nat
      BY <2>2, <3>1, <1>1, <1>2, Pieces
    <3> QED
      BY <2>2, <3>1, <3>2, <1>6
  <2> QED
    BY <2>1, <2>2
<1>15. BoxesExclusive'
  <2>1. ASSUME NEW c \in Address, NEW i \in 1..Len(pendings'[c])
        PROVE  heap'[pendings'[c][i]] # <<>>
    <3>1. heap[pendings[c][Shift(c, i)]] # <<>>
      BY <1>1, <1>14 DEF BoxesExclusive
    <3> QED
      BY <3>1, <1>14
  <2>2. ASSUME NEW c \in Address, NEW i \in 1..Len(pendings'[c]),
               NEW d \in Address, NEW j \in 1..Len(pendings'[d]), pendings'[c][i] = pendings'[d][j]
        PROVE  c = d /\ i = j
    <3>1. Shift(c, i) \in 1..Len(pendings[c]) /\ Shift(d, j) \in 1..Len(pendings[d])
      BY <1>14
    <3>2. pendings[c][Shift(c, i)] = pendings[d][Shift(d, j)]
      BY <2>2, <1>14
    <3>3. i \in Nat /\ j \in Nat
      BY <1>14
    <3> HIDE DEF Shift
    <3>4. c = d /\ Shift(c, i) = Shift(d, j)
      <4>1. \A k \in 1..Len(pendings[d]) :
              pendings[c][Shift(c, i)] = pendings[d][k] => c = d /\ Shift(c, i) = k
        BY <3>1, <1>1 DEF BoxesExclusive
      <4> QED
        BY <4>1, <3>1, <3>2
    <3> QED
      BY <3>3, <3>4 DEF Shift
  <2> QED
    BY <2>1, <2>2 DEF BoxesExclusive
<1>16. PendingFiled'
  <2>1. ASSUME NEW c \in Address, NEW i \in 1..Len(pendings'[c])
        PROVE  SignedBy(c, heap'[pendings'[c][i]])
    <3>1. SignedBy(c, heap[pendings[c][Shift(c, i)]])
      BY <1>1, <1>14 DEF PendingFiled
    <3> QED
      BY <3>1, <1>14
  <2> QED
    BY <2>1 DEF PendingFiled
<1>17. PendingConsecutive'
  <2>1. ASSUME NEW c \in Address, NEW i \in 1..Len(pendings'[c])
        PROVE  Consecutive(heap'[pendings'[c][i]])
    <3>1. Consecutive(heap[pendings[c][Shift(c, i)]])
      BY <1>1, <1>14 DEF PendingConsecutive
    <3> QED
      BY <3>1, <1>14
  <2>2. ASSUME NEW c \in Address, NEW i \in 1..Len(pendings'[c]), i < Len(pendings'[c])
        PROVE  FirstNonce(heap'[pendings'[c][i + 1]]) = LastNonce(heap'[pendings'[c][i]]) + 1
    <3>1. Len(pendings'[c]) \in Nat
      BY <1>12, LenProperties
    <3>2. i + 1 \in 1..Len(pendings'[c])
      BY <2>2, <3>1
    <3>3. Len(pendings[c]) \in Nat
      BY <1>1, Pieces
    <3>4. Shift(c, i + 1) = Shift(c, i) + 1
      BY <1>14
    <3>5. Shift(c, i) \in 1..Len(pendings[c]) /\ Shift(c, i) < Len(pendings[c])
      BY <3>2, <3>3, <3>4, <1>14
    <3>6. FirstNonce(heap[pendings[c][Shift(c, i) + 1]]) = LastNonce(heap[pendings[c][Shift(c, i)]]) + 1
      BY <3>5, <1>1 DEF PendingConsecutive
    <3>7. /\ heap'[pendings'[c][i]] = heap[pendings[c][Shift(c, i)]]
          /\ heap'[pendings'[c][i + 1]] = heap[pendings[c][Shift(c, i) + 1]]
      BY <3>2, <3>4, <1>14
    <3> QED
      BY <3>6, <3>7
  <2> QED
    BY <2>1, <2>2 DEF PendingConsecutive
<1>18. AccountBehindPending'
  <2>1. ASSUME NEW c \in Address, c # a, pendings[c] # <<>>
        PROVE  nonce[c] < FirstNonce(heap'[pendings'[c][1]])
    <3>1. 1 \in 1..Len(pendings[c]) /\ pendings'[c] = pendings[c]
      BY <2>1, <1>1, <1>12, Pieces, EmptySeq
    <3>2. heap'[pendings[c][1]] = heap[pendings[c][1]]
      BY <3>1, <1>14
    <3> QED
      BY <2>1, <3>1, <3>2, <1>1 DEF AccountBehindPending
  <2>2. ASSUME pendings'[a] # <<>>
        PROVE  FirstNonce(heap'[pendings'[a][1]]) = tx.Nonce + 1
    <3>1. Len(Tail(pendings[a])) # 0
      BY <2>2, <1>10, <1>12, EmptySeq
    <3>2. 1 \in 1..Len(pendings[a]) /\ 1 < Len(pendings[a]) /\ 1 \in 1..Len(pendings'[a])
      <4>1. m \in Nat /\ m # 0 /\ m - 1 # 0
        BY <3>1, <1>2, <1>10
      <4>2. 1 \in 1..m /\ 1 < m /\ 1 \in 1..(m - 1)
        BY <4>1
      <4> QED
        BY <4>2, <1>10, <1>11, <1>12
    <3>3. FirstNonce(heap[pendings[a][1 + 1]]) = LastNonce(heap[pendings[a][1]]) + 1
      BY <3>2, <1>1 DEF PendingConsecutive
    <3>4. heap'[pendings'[a][1]] = heap[pendings[a][1 + 1]]
      BY <3>2, <1>14
    <3> QED
      BY <3>3, <3>4, <1>3, <1>11
  <2>3. nonce[a] \in Nat /\ tx.Nonce \in Nat
    BY <1>1, <1>2, Pieces, TxAssumption
  <2>4. nonce[a] < tx.Nonce /\ nonce[a] < tx.Nonce + 1
    BY <2>3, <1>2
  <2>5. \A c \in Address \ {a} : pendings'[c] # <<>> => nonce[c] < FirstNonce(heap'[pendings'[c][1]])
    BY <2>1, <1>12
  <2>6. inflight' # NoTx /\ inflight'.From = a /\ inflight'.Nonce = tx.Nonce /\ nonce' = nonce
    BY <1>0, <1>2, <1>8
  <2> QED
    BY <2>2, <2>4, <2>5, <2>6 DEF AccountBehindPending
<1>19. BoxesListed'
  BY <1>0, <1>1, <1>7 DEF BoxesListed
<1>20. ASSUME NEW c \in Address PROVE ReachedNonce(c)' = ReachedNonce(c)
  <2>1. CASE pendings'[c] # <<>>
    <3>1. Len(pendings'[c]) \in Nat /\ Len(pendings'[c]) # 0
      BY <2>1, <1>12, LenProperties, EmptySeq
    <3>2. Len(pendings'[c]) \in 1..Len(pendings'[c])
      BY <3>1
    <3>3. Shift(c, Len(pendings'[c])) = Len(pendings[c])
      <4>1. CASE c = a
        BY <4>1, <1>2, <1>10, <1>11, <1>12
      <4>2. CASE c # a
        BY <4>2, <1>12
      <4> QED
        BY <4>1, <4>2
    <3>4. heap'[pendings'[c][Len(pendings'[c])]] = heap[pendings[c][Len(pendings[c])]]
      BY <3>2, <3>3, <1>14
    <3>5. pendings[c] # <<>>
      BY <2>1, <1>0, <1>12
    <3> QED
      BY <2>1, <3>4, <3>5, <1>0 DEF ReachedNonce, TopNonce, LastBox
  <2>2. CASE pendings'[c] = <<>> /\ c = a
    <3>1. m = 1
      <4>1. Len(Tail(pendings[a])) = 0
        BY <2>2, <1>12, EmptySeq
      <4> QED
        BY <4>1, <1>2, <1>10
    <3>2. ReachedNonce(c) = tx.Nonce
      BY <2>2, <3>1, <1>0, <1>3, <1>11 DEF ReachedNonce, TopNonce, LastBox
    <3>3. ReachedNonce(c)' = tx.Nonce
      BY <2>2, <1>2, <1>8 DEF ReachedNonce
    <3> QED
      BY <3>2, <3>3
  <2>3. CASE pendings'[c] = <<>> /\ c # a
    BY <2>3, <1>0, <1>2, <1>8, <1>12 DEF ReachedNonce, TopNonce
  <2> QED
    BY <2>1, <2>2, <2>3
<1> QED
  BY <1>13, <1>15, <1>16, <1>17, <1>18, <1>19, <1>20 DEF PendingInv

\* Pop, whichever sender it takes from.
LEMMA PopKeepsPoolInv ==
  ASSUME PoolInv, NEW a \in Address, PopPendingTx(a)
  PROVE  PoolInv'
<1>1. /\ PendingInv /\ QueueFiled /\ QueueOrdered /\ NoReadyTxQueued
  BY DEF PoolInv
<1>2. PendingInv' /\ \A c \in Address : ReachedNonce(c)' = ReachedNonce(c)
  BY <1>1, PopShortens, PopDropsBox
<1>3. promoting = NoAddr /\ UNCHANGED <<queue, promoting>>
  BY DEF PopPendingTx, Idle
<1>4. QueueFiled' /\ QueueOrdered' /\ PromotionAlone'
  BY <1>1, <1>3 DEF QueueFiled, QueueOrdered, PromotionAlone
<1>5. NoReadyTxQueued'
  BY <1>1, <1>2, <1>3 DEF NoReadyTxQueued
<1> QED
  BY <1>2, <1>4, <1>5 DEF PoolInv

\* Cleaning only takes entries out of the queues.
LEMMA CleanKeepsPoolInv ==
  ASSUME PoolInv, NEW m \in [Address -> MinNonces], CleanExpiredTxs(m)
  PROVE  PoolInv'
<1>1. /\ PendingInv /\ TypeOK /\ QueueFiled /\ QueueOrdered /\ NoReadyTxQueued /\ PromotionAlone
  BY DEF PoolInv, PendingInv
<1> DEFINE Keep(a) == {i \in 1..Len(queue[a]) : /\ queue[a][i].Nonce >= m[a]
                                                /\ Age(clock, time[queue[a][i]]) <= ExpireSec}
<1>2. /\ \A a \in Address : queue'[a] \in Selections(queue[a], Keep(a))
      /\ queue' = [a \in Address |-> queue'[a]]
      /\ UNCHANGED <<heap, pendings, txs, time, clock, nonce, inflight, promoting>>
  BY DEF CleanExpiredTxs
<1>3. \A a \in Address : Keep(a) \subseteq 1..Len(queue[a])
  OBVIOUS
<1> HIDE DEF Keep
\* Each entry that stays was there, and the order is kept.
<1>4. ASSUME NEW a \in Address
      PROVE  /\ queue'[a] \in Seq(Tx)
             /\ \E f \in [1..Len(queue'[a]) -> 1..Len(queue[a])] :
                  /\ \A i, j \in 1..Len(queue'[a]) : i < j => f[i] < f[j]
                  /\ \A i \in 1..Len(queue'[a]) : queue'[a][i] = queue[a][f[i]]
  <2>1. queue[a] \in Seq(Tx)
    BY <1>1, Pieces
  <2>2. PICK r \in Selections(queue[a], Keep(a)) : r = queue'[a]
    BY <1>2
  <2>3. /\ r \in Seq(Tx)
        /\ \E f \in [1..Len(r) -> Keep(a)] :
             /\ \A i, j \in 1..Len(r) : i < j => f[i] < f[j]
             /\ \A i \in 1..Len(r) : r[i] = queue[a][f[i]]
    BY <2>1, <1>3, SelectionFacts
  <2>4. PICK f \in [1..Len(r) -> Keep(a)] :
             /\ \A i, j \in 1..Len(r) : i < j => f[i] < f[j]
             /\ \A i \in 1..Len(r) : r[i] = queue[a][f[i]]
    BY <2>3
  <2>5. f \in [1..Len(r) -> 1..Len(queue[a])]
    BY <1>3, <2>4
  <2> QED
    BY <2>2, <2>3, <2>4, <2>5
<1>5. TypeOK'
  <2>1. queue' \in [Address -> Seq(Tx)]
    BY <1>2, <1>4
  <2> QED
    BY <2>1, <1>1, <1>2 DEF TypeOK
<1>6. PendingInv' /\ \A a \in Address : ReachedNonce(a)' = ReachedNonce(a)
  BY <1>1, <1>2, <1>5, BoxesUntouched
<1>7. ASSUME NEW a \in Address
      PROVE  /\ SignedBy(a, queue'[a]) /\ Increasing(queue'[a])
             /\ \A i \in 1..Len(queue'[a]) : \E j \in 1..Len(queue[a]) : queue'[a][i] = queue[a][j]
  <2>1. PICK f \in [1..Len(queue'[a]) -> 1..Len(queue[a])] :
          /\ \A i, j \in 1..Len(queue'[a]) : i < j => f[i] < f[j]
          /\ \A i \in 1..Len(queue'[a]) : queue'[a][i] = queue[a][f[i]]
    BY <1>4
  <2>2. \A i \in 1..Len(queue'[a]) : f[i] \in 1..Len(queue[a])
    BY <2>1
  <2>3. SignedBy(a, queue'[a])
    BY <2>1, <2>2, <1>1 DEF QueueFiled, SignedBy
  <2>4. Increasing(queue'[a])
    <3> SUFFICES ASSUME NEW i \in 1..Len(queue'[a]), NEW j \in 1..Len(queue'[a]), i < j
                 PROVE  queue'[a][i].Nonce < queue'[a][j].Nonce
      BY DEF Increasing
    <3>1. f[i] < f[j] /\ f[i] \in 1..Len(queue[a]) /\ f[j] \in 1..Len(queue[a])
      BY <2>1, <2>2
    <3>2. queue[a][f[i]].Nonce < queue[a][f[j]].Nonce
      BY <3>1, <1>1 DEF QueueOrdered, Increasing
    <3> QED
      BY <3>2, <2>1
  <2> QED
    BY <2>1, <2>2, <2>3, <2>4
<1>8. QueueFiled' /\ QueueOrdered'
  BY <1>7 DEF QueueFiled, QueueOrdered
<1>9. NoReadyTxQueued'
  <2>1. ASSUME NEW a \in Address, NEW i \in 1..Len(queue'[a])
        PROVE  queue'[a][i].Nonce > ReachedNonce(a) + (IF promoting = a THEN 0 ELSE 1)
    <3>1. PICK j \in 1..Len(queue[a]) : queue'[a][i] = queue[a][j]
      BY <1>7
    <3> QED
      BY <3>1, <1>1 DEF NoReadyTxQueued
  <2> QED
    BY <2>1, <1>2, <1>6 DEF NoReadyTxQueued
<1>10. PromotionAlone'
  BY <1>1, <1>2 DEF PromotionAlone
<1> QED
  BY <1>6, <1>8, <1>9, <1>10 DEF PoolInv

\* The transaction in flight is executed, or fails.
LEMMA SettleKeepsPoolInv ==
  ASSUME PoolInv, IncNonce \/ Discard
  PROVE  PoolInv'
<1>1. /\ PendingInv /\ TypeOK /\ BoxesExclusive /\ PendingFiled /\ PendingConsecutive
      /\ AccountBehindPending /\ BoxesListed
      /\ QueueFiled /\ QueueOrdered /\ NoReadyTxQueued /\ PromotionAlone
  BY DEF PoolInv, PendingInv
<1>2. PICK tx \in Tx : inflight = tx
  BY <1>1 DEF TypeOK, IncNonce, Discard
<1>3. PICK a \in Address : a = tx.From
  BY TxAssumption
<1>4. inflight' = NoTx /\ UNCHANGED <<heap, pendings, queue, txs, time, clock, promoting>>
  BY DEF IncNonce, Discard
<1>5. nonce \in [Address -> Nat] /\ inflight # NoTx
  BY <1>1 DEF TypeOK, IncNonce, Discard
<1>6. /\ nonce' \in [Address -> Nat]
      /\ \A c \in Address \ {a} : nonce'[c] = nonce[c]
      /\ nonce'[a] \in {nonce[a], nonce[a] + 1}
  <2>1. CASE nonce' = nonce
    BY <2>1, <1>5
  <2>2. CASE nonce' = [nonce EXCEPT ![a] = nonce[a] + 1]
    BY <2>2, <1>5
  <2> QED
    BY <2>1, <2>2, <1>2, <1>3 DEF IncNonce, Discard
<1>7. TypeOK'
  BY <1>1, <1>4, <1>6 DEF TypeOK
<1>8. BoxesExclusive' /\ PendingFiled' /\ PendingConsecutive' /\ BoxesListed'
  BY <1>1, <1>4 DEF BoxesExclusive, PendingFiled, PendingConsecutive, BoxesListed
<1>9. nonce[a] < tx.Nonce /\ nonce'[a] <= tx.Nonce /\ nonce[a] \in Nat /\ tx.Nonce \in Nat
  <2>1. nonce[a] < tx.Nonce
    BY <1>1, <1>2, <1>3, <1>5 DEF AccountBehindPending
  <2>2. nonce[a] \in Nat /\ tx.Nonce \in Nat
    BY <1>5, TxAssumption
  <2> QED
    BY <2>1, <2>2, <1>6
<1>10. AccountBehindPending'
  <2>1. ASSUME NEW c \in Address, pendings[c] # <<>>
        PROVE  nonce'[c] < FirstNonce(heap[pendings[c][1]])
    <3>1. CASE c = a
      <4>1. FirstNonce(heap[pendings[a][1]]) = tx.Nonce + 1
        BY <2>1, <3>1, <1>1, <1>2, <1>3, <1>5 DEF AccountBehindPending
      <4>2. nonce'[a] \in Nat
        BY <1>6
      <4> QED
        BY <3>1, <4>1, <4>2, <1>9
    <3>2. CASE c # a
      BY <2>1, <3>2, <1>1, <1>6 DEF AccountBehindPending
    <3> QED
      BY <3>1, <3>2
  <2> QED
    BY <2>1, <1>4 DEF AccountBehindPending
<1>11. promoting = NoAddr /\ \A c \in Address : promoting # c
  BY <1>1, <1>5, TxAssumption DEF PromotionAlone
<1>12. NoReadyTxQueued'
  <2>1. \A c \in Address : \A i \in 1..Len(queue[c]) : queue[c][i].Nonce > ReachedNonce(c) + 1
    BY <1>1, <1>11 DEF NoReadyTxQueued
  <2>2. ASSUME NEW c \in Address, NEW i \in 1..Len(queue[c])
        PROVE  queue[c][i].Nonce > ReachedNonce(c)' + 1
    <3>1. CASE pendings[c] # <<>>
      <4>1. ReachedNonce(c)' = ReachedNonce(c)
        BY <3>1, <1>4 DEF ReachedNonce, TopNonce, LastBox
      <4> QED
        BY <4>1, <2>1
    <3>2. CASE pendings[c] = <<>> /\ c # a
      <4>1. ReachedNonce(c)' = ReachedNonce(c)
        BY <3>2, <1>2, <1>3, <1>4, <1>6 DEF ReachedNonce, TopNonce
      <4> QED
        BY <4>1, <2>1
    <3>3. CASE pendings[c] = <<>> /\ c = a
      <4>1. ReachedNonce(c) = tx.Nonce /\ ReachedNonce(c)' = nonce'[a]
        BY <3>3, <1>2, <1>3, <1>4, <1>5 DEF ReachedNonce, TopNonce
      <4>2. nonce'[a] \in Nat /\ queue[c][i].Nonce \in Nat
        BY <1>1, <1>6, Pieces, TxAssumption
      <4>3. queue[c][i].Nonce > tx.Nonce + 1
        BY <4>1, <2>1
      <4> QED
        BY <4>1, <4>2, <4>3, <1>9
    <3> QED
      BY <3>1, <3>2, <3>3
  <2> QED
    BY <2>2, <1>4, <1>11 DEF NoReadyTxQueued
<1>13. QueueFiled' /\ QueueOrdered' /\ PromotionAlone'
  BY <1>1, <1>4, <1>11 DEF QueueFiled, QueueOrdered, PromotionAlone
<1> QED
  BY <1>7, <1>8, <1>10, <1>12, <1>13 DEF PendingInv, PoolInv

-----------------------------------------------------------------------------
(* The invariant, and what it says of the specification.                   *)

\* An empty pool satisfies the invariant.
LEMMA InitPoolInv == Init => PoolInv
<1> SUFFICES ASSUME Init PROVE PoolInv
  OBVIOUS
<1>1. /\ heap = <<>> /\ txs = <<>> /\ inflight = NoTx /\ promoting = NoAddr
      /\ \A a \in Address : pendings[a] = <<>> /\ queue[a] = <<>>
  BY DEF Init
<1>2. Len(heap) = 0 /\ Len(txs) = 0 /\ \A a \in Address : Len(pendings[a]) = 0 /\ Len(queue[a]) = 0
  BY <1>1, EmptySeq
<1>3. TypeOK
  <2>1. heap \in Seq(Seq(Tx)) /\ txs \in Seq(1..Len(heap))
    BY <1>1, EmptySeq
  <2>2. pendings \in [Address -> Seq(1..Len(heap))] /\ queue \in [Address -> Seq(Tx)]
    BY EmptySeq DEF Init
  <2>3. nonce \in [Address -> Nat] /\ time \in [Tx -> Nat] /\ clock \in Nat
    BY ClockAssumption DEF Init
  <2> QED
    BY <1>1, <2>1, <2>2, <2>3 DEF TypeOK
<1>4. BoxesExclusive /\ PendingFiled /\ PendingConsecutive /\ BoxesListed
  BY <1>2 DEF BoxesExclusive, PendingFiled, PendingConsecutive, BoxesListed
<1>5. AccountBehindPending /\ PromotionAlone
  BY <1>1 DEF AccountBehindPending, PromotionAlone
<1>6. QueueFiled /\ QueueOrdered /\ NoReadyTxQueued
  BY <1>2 DEF QueueFiled, QueueOrdered, NoReadyTxQueued, SignedBy, Increasing
<1> QED
  BY <1>3, <1>4, <1>5, <1>6 DEF PendingInv, PoolInv

\* A step that leaves the pool as it was, the clock aside.
LEMMA IdleKeepsPoolInv ==
  ASSUME PoolInv, clock' \in Nat,
         UNCHANGED <<heap, pendings, queue, txs, time, nonce, inflight, promoting>>
  PROVE  PoolInv'
<1>1. /\ PendingInv /\ TypeOK /\ QueueFiled /\ QueueOrdered /\ NoReadyTxQueued /\ PromotionAlone
  BY DEF PoolInv, PendingInv
<1>2. TypeOK'
  BY <1>1 DEF TypeOK
<1>3. PendingInv' /\ \A a \in Address : ReachedNonce(a)' = ReachedNonce(a)
  BY <1>1, <1>2, BoxesUntouched
<1> QED
  BY <1>1, <1>3 DEF PoolInv, QueueFiled, QueueOrdered, NoReadyTxQueued, PromotionAlone

\* Every step keeps the invariant.
LEMMA NextPoolInv == PoolInv /\ [Next]_vars => PoolInv'
<1> SUFFICES ASSUME PoolInv, [Next]_vars PROVE PoolInv'
  OBVIOUS
<1>1. ASSUME NEW tx \in Tx, NewTx(tx) PROVE PoolInv'
  BY <1>1, NewTxKeepsPoolInv
<1>2. CASE promoteQueueToPending
  BY <1>2, PromotionKeepsPoolInv
<1>3. ASSUME NEW a \in Address, PopPendingTx(a) PROVE PoolInv'
  BY <1>3, PopKeepsPoolInv
<1>4. ASSUME NEW m \in [Address -> MinNonces], CleanExpiredTxs(m) PROVE PoolInv'
  BY <1>4, CleanKeepsPoolInv
<1>5. CASE IncNonce \/ Discard
  BY <1>5, SettleKeepsPoolInv
<1>6. ASSUME NEW t \in 0..MaxClock, SetClock(t) PROVE PoolInv'
  <2>1. clock' \in Nat
    BY <1>6, ClockAssumption DEF SetClock
  <2> QED
    BY <1>6, <2>1, IdleKeepsPoolInv DEF SetClock
<1>7. CASE UNCHANGED vars
  <2>1. clock' \in Nat
    BY <1>7 DEF vars, PoolInv, PendingInv, TypeOK
  <2> QED
    BY <1>7, <2>1, IdleKeepsPoolInv DEF vars
<1> QED
  BY <1>1, <1>2, <1>3, <1>4, <1>5, <1>6, <1>7 DEF Next, Pop, PopNil, NewTxStale

\* The pool's inductive invariant holds in every reachable state, whatever
\* the senders, transactions, prices, clock readings and failures.
THEOREM PoolInvariant == Spec => []PoolInv
BY InitPoolInv, NextPoolInv, PTL DEF Spec

\* Every variable keeps its type.
THEOREM TypeCorrect == Spec => []TypeOK
<1>1. PoolInv => TypeOK
  BY DEF PoolInv, PendingInv
<1> QED
  BY <1>1, PoolInvariant, PTL

\* A box has one owner and is never empty while it is pending.
THEOREM BoxesAreExclusive == Spec => []BoxesExclusive
<1>1. PoolInv => BoxesExclusive
  BY DEF PoolInv, PendingInv
<1> QED
  BY <1>1, PoolInvariant, PTL

\* Everything filed under a sender was signed by it.
THEOREM AllFiledBySender == Spec => []FiledBySender
<1>1. PoolInv => FiledBySender
  BY DEF PoolInv, PendingInv, FiledBySender
<1> QED
  BY <1>1, PoolInvariant, PTL

\* A sender's pending nonces have no gap and no duplicate.
THEOREM PendingIsConsecutive == Spec => []PendingConsecutive
<1>1. PoolInv => PendingConsecutive
  BY DEF PoolInv, PendingInv
<1> QED
  BY <1>1, PoolInvariant, PTL

\* Execution never meets a pending transaction its account has passed.
THEOREM AccountStaysBehind == Spec => []AccountBehindPending
<1>1. PoolInv => AccountBehindPending
  BY DEF PoolInv, PendingInv
<1> QED
  BY <1>1, PoolInvariant, PTL

\* The queue stays sorted with one transaction per nonce.
THEOREM QueueStaysOrdered == Spec => []QueueOrdered
<1>1. PoolInv => QueueOrdered
  BY DEF PoolInv
<1> QED
  BY <1>1, PoolInvariant, PTL

\* Nothing executable, and nothing overtaken, is stuck in the queue.
THEOREM QueuedReallyWaits == Spec => []NoReadyTxQueued
<1>1. PoolInv => NoReadyTxQueued
  BY DEF PoolInv
<1> QED
  BY <1>1, PoolInvariant, PTL

\* The price list holds every box once.
THEOREM AllBoxesListed == Spec => []BoxesListed
<1>1. PoolInv => BoxesListed
  BY DEF PoolInv, PendingInv
<1> QED
  BY <1>1, PoolInvariant, PTL

-----------------------------------------------------------------------------
(* The order of a sender's pending transactions.                           *)

\* In a box with consecutive nonces the nonce of the k-th is known.
LEMMA BoxInOrder ==
  ASSUME NEW box \in Seq(Tx), Consecutive(box), NEW k \in 1..Len(box)
  PROVE  box[k].Nonce = box[1].Nonce + (k - 1)
<1> DEFINE T == {n \in Nat : n + 1 \in 1..Len(box) => box[n + 1].Nonce = box[1].Nonce + n}
<1>1. Len(box) \in Nat /\ \A i \in 1..Len(box) : box[i] \in Tx
  BY LenProperties, ElementOfSeq
<1>2. \A i \in 1..Len(box) : box[i].Nonce \in Nat
  BY <1>1, TxAssumption
<1>3. 0 \in T
  BY <1>1, <1>2
<1>4. ASSUME NEW n \in Nat, n \in T PROVE n + 1 \in T
  <2> SUFFICES ASSUME (n + 1) + 1 \in 1..Len(box)
               PROVE  box[(n + 1) + 1].Nonce = box[1].Nonce + (n + 1)
    OBVIOUS
  <2>1. n + 1 \in 1..(Len(box) - 1) /\ n + 1 \in 1..Len(box) /\ 1 \in 1..Len(box)
    BY <1>1
  <2>2. box[(n + 1) + 1].Nonce = box[n + 1].Nonce + 1
    BY <2>1 DEF Consecutive
  <2>3. box[n + 1].Nonce = box[1].Nonce + n
    BY <1>4, <2>1
  <2>4. box[1].Nonce \in Nat
    BY <2>1, <1>2
  <2> QED
    BY <2>2, <2>3, <2>4
<1> HIDE DEF T
<1>5. Nat \subseteq T
  BY <1>3, <1>4, NatInductive
<1>6. k - 1 \in T /\ (k - 1) + 1 = k
  BY <1>1, <1>5
<1> QED
  BY <1>6 DEF T

\* The first transaction of the first box has the sender's lowest pending nonce.
LEMMA PendingInOrder ==
  ASSUME PendingInv, NEW a \in Address, NEW i \in 1..Len(pendings[a]),
         NEW k \in 1..Len(heap[pendings[a][i]])
  PROVE  heap[pendings[a][i]][k].Nonce >= heap[pendings[a][1]][1].Nonce
<1> DEFINE n == Len(pendings[a])
           Box(j) == heap[pendings[a][j]]
<1>1. TypeOK /\ BoxesExclusive /\ PendingConsecutive
  BY DEF PendingInv
<1>2. n \in Nat /\ 1 \in 1..n
  BY <1>1, Pieces
<1>3. ASSUME NEW j \in 1..n
      PROVE  /\ Box(j) \in Seq(Tx) /\ Len(Box(j)) \in Nat \ {0}
             /\ FirstNonce(Box(j)) = Box(j)[1].Nonce /\ FirstNonce(Box(j)) \in Nat
             /\ LastNonce(Box(j)) = FirstNonce(Box(j)) + (Len(Box(j)) - 1)
             /\ Consecutive(Box(j))
  <2>1. Box(j) \in Seq(Tx) /\ Box(j) # <<>> /\ Consecutive(Box(j))
    BY <1>1, Pieces DEF BoxesExclusive, PendingConsecutive
  <2> HIDE DEF Box
  <2>2. Len(Box(j)) \in Nat \ {0}
    BY <2>1, LenProperties, EmptySeq
  <2>3. 1 \in 1..Len(Box(j)) /\ Len(Box(j)) \in 1..Len(Box(j))
    BY <2>2
  <2>4. Box(j)[Len(Box(j))].Nonce = Box(j)[1].Nonce + (Len(Box(j)) - 1)
    BY <2>1, <2>3, BoxInOrder
  <2>5. Box(j)[1].Nonce \in Nat
    BY <2>1, <2>3, ElementOfSeq, TxAssumption
  <2> QED
    BY <2>1, <2>2, <2>4, <2>5 DEF FirstNonce, LastNonce
<1>4. \A j \in 1..n : j < n => FirstNonce(Box(j + 1)) = LastNonce(Box(j)) + 1
  BY <1>1 DEF PendingConsecutive
<1> HIDE DEF Box
<1> DEFINE T == {m \in Nat : m + 1 \in 1..n => FirstNonce(Box(m + 1)) >= FirstNonce(Box(1))}
<1>5. 0 \in T
  BY <1>2, <1>3
<1>6. ASSUME NEW m \in Nat, m \in T PROVE m + 1 \in T
  <2> SUFFICES ASSUME (m + 1) + 1 \in 1..n
               PROVE  FirstNonce(Box((m + 1) + 1)) >= FirstNonce(Box(1))
    OBVIOUS
  <2>1. m + 1 \in 1..n /\ m + 1 < n
    BY <1>2
  <2>2. FirstNonce(Box((m + 1) + 1)) = LastNonce(Box(m + 1)) + 1
    BY <1>4, <2>1
  <2>3. FirstNonce(Box(m + 1)) >= FirstNonce(Box(1))
    BY <1>6, <2>1
  <2>4. /\ LastNonce(Box(m + 1)) = FirstNonce(Box(m + 1)) + (Len(Box(m + 1)) - 1)
        /\ FirstNonce(Box(m + 1)) \in Nat /\ Len(Box(m + 1)) \in Nat \ {0}
        /\ FirstNonce(Box(1)) \in Nat
    BY <1>2, <1>3, <2>1
  <2> QED
    BY <2>2, <2>3, <2>4
<1> HIDE DEF T
<1>7. Nat \subseteq T
  BY <1>5, <1>6, NatInductive
<1>8. i - 1 \in T /\ (i - 1) + 1 = i
  BY <1>2, <1>7
<1>9. FirstNonce(Box(i)) >= FirstNonce(Box(1))
  BY <1>8 DEF T
<1>10. Box(i)[k].Nonce = Box(i)[1].Nonce + (k - 1)
  BY <1>3, BoxInOrder DEF Box
<1>11. /\ Box(i)[1].Nonce \in Nat /\ Box(i)[1].Nonce >= Box(1)[1].Nonce
       /\ Box(1)[1].Nonce \in Nat /\ k >= 1 /\ k \in Int
  <2>1. k >= 1 /\ k \in Int
    BY <1>3 DEF Box
  <2> QED
    BY <1>2, <1>3, <1>9, <2>1
<1>12. Box(i)[k].Nonce >= Box(1)[1].Nonce
  BY <1>10, <1>11
<1> QED
  BY <1>12 DEF Box

-----------------------------------------------------------------------------
(* A pending transaction is not lost.                                      *)

\* A transaction that becomes executable displaces no pending one.
LEMMA PushKeepsPending ==
  ASSUME TypeOK, NEW a \in Address, NEW tx \in Tx, pushPendingTx(a, tx)
  PROVE  /\ \A c \in Address, old \in Tx : IsPending(c, old) => IsPending(c, old)'
         /\ IsPending(a, tx)'
<1> DEFINE n == Len(pendings[a])
<1>1. /\ heap \in Seq(Seq(Tx)) /\ Len(heap) \in Nat
      /\ pendings \in [Address -> Seq(1..Len(heap))]
      /\ \A c \in Address : /\ pendings[c] \in Seq(1..Len(heap)) /\ Len(pendings[c]) \in Nat
                            /\ \A i \in 1..Len(pendings[c]) : pendings[c][i] \in 1..Len(heap)
      /\ \A b \in 1..Len(heap) : heap[b] \in Seq(Tx) /\ Len(heap[b]) \in Nat
  BY Pieces DEF TypeOK
<1>2. CASE pendings[a] # <<>> /\ Push(a, tx)
  <2> DEFINE last == pendings[a][n]
             box  == heap[last]
  <2>1. n \in 1..n
    BY <1>1, <1>2, EmptySeq
  <2>2. last \in 1..Len(heap)
    BY <1>1, <2>1
  <2>3. /\ box \in Seq(Tx) /\ Len(box) \in Nat
        /\ Append(box, tx) \in Seq(Tx) /\ Len(Append(box, tx)) = Len(box) + 1
        /\ Append(box, tx)[Len(box) + 1] = tx
        /\ \A k \in 1..Len(box) : Append(box, tx)[k] = box[k]
    BY <1>1, <2>2, AppendProperties
  <2>4. /\ \A b \in 1..Len(heap) : heap'[b] = IF b = last THEN Append(box, tx) ELSE heap[b]
        /\ pendings' = pendings
    BY <1>1, <1>2, <2>2 DEF Push
  <2>5. ASSUME NEW c \in Address, NEW old \in Tx, IsPending(c, old) PROVE IsPending(c, old)'
    <3>0. PICK i \in 1..Len(pendings[c]) :
            \E k \in 1..Len(heap[pendings[c][i]]) : heap[pendings[c][i]][k] = old
      BY <2>5 DEF IsPending
    <3>1. PICK k \in 1..Len(heap[pendings[c][i]]) : heap[pendings[c][i]][k] = old
      BY <3>0
    <3>2. pendings[c][i] \in 1..Len(heap)
      BY <1>1
    <3>3. k \in 1..Len(heap'[pendings[c][i]]) /\ heap'[pendings[c][i]][k] = old
      <4>1. CASE pendings[c][i] = last
        <5>1. k \in 1..Len(box) /\ box[k] = old
          BY <3>1, <4>1
        <5>2. heap'[pendings[c][i]] = Append(box, tx)
          BY <2>4, <3>2, <4>1
        <5> HIDE DEF box
        <5>3. k \in 1..Len(Append(box, tx)) /\ Append(box, tx)[k] = old
          BY <2>3, <5>1
        <5> QED
          BY <5>2, <5>3
      <4>2. CASE pendings[c][i] # last
        BY <2>4, <3>1, <3>2, <4>2
      <4> QED
        BY <4>1, <4>2
    <3> QED
      BY <2>4, <3>3 DEF IsPending
  <2>6. IsPending(a, tx)'
    <3>1. heap'[last] = Append(box, tx)
      BY <2>2, <2>4
    <3>2. Len(box) + 1 \in 1..Len(heap'[last]) /\ heap'[last][Len(box) + 1] = tx
      BY <2>3, <3>1
    <3> QED
      BY <2>1, <2>4, <3>2 DEF IsPending
  <2> QED
    BY <2>5, <2>6
<1>3. CASE makeNewBlock(a, tx)
  <2> DEFINE b == Len(heap) + 1
  <2>1. /\ <<tx>> \in Seq(Tx) /\ Len(<<tx>>) = 1 /\ <<tx>>[1] = tx
    OBVIOUS
  <2>2. /\ heap' = Append(heap, <<tx>>) /\ heap'[b] = <<tx>>
        /\ \A d \in 1..Len(heap) : heap'[d] = heap[d]
    BY <1>1, <1>3, <2>1, AppendProperties DEF makeNewBlock
  <2>3. pendings' = [pendings EXCEPT ![a] = Append(pendings[a], b)]
    BY <1>3 DEF makeNewBlock
  <2>4. b \in Nat /\ pendings[a] \in Seq(Nat)
    BY <1>1, SeqWidens
  <2> HIDE DEF b
  <2>5. /\ Len(Append(pendings[a], b)) = n + 1 /\ Append(pendings[a], b)[n + 1] = b
        /\ \A i \in 1..n : Append(pendings[a], b)[i] = pendings[a][i]
    BY <2>4, AppendProperties
  <2>6. /\ Len(pendings'[a]) = n + 1 /\ pendings'[a][n + 1] = b
        /\ \A i \in 1..n : pendings'[a][i] = pendings[a][i]
        /\ \A c \in Address \ {a} : pendings'[c] = pendings[c]
    BY <1>1, <2>3, <2>5
  <2>7. \A c \in Address : \A i \in 1..Len(pendings[c]) :
          i \in 1..Len(pendings'[c]) /\ pendings'[c][i] = pendings[c][i]
    <3>1. n \in Nat
      BY <1>1
    <3>2. \A i \in 1..n : i \in 1..Len(pendings'[a]) /\ pendings'[a][i] = pendings[a][i]
      BY <3>1, <2>6
    <3> QED
      BY <3>2, <2>6
  <2>8. ASSUME NEW c \in Address, NEW old \in Tx, IsPending(c, old) PROVE IsPending(c, old)'
    <3>0. PICK i \in 1..Len(pendings[c]) :
            \E k \in 1..Len(heap[pendings[c][i]]) : heap[pendings[c][i]][k] = old
      BY <2>8 DEF IsPending
    <3>1. PICK k \in 1..Len(heap[pendings[c][i]]) : heap[pendings[c][i]][k] = old
      BY <3>0
    <3>2. pendings[c][i] \in 1..Len(heap)
      BY <1>1
    <3>3. heap'[pendings'[c][i]] = heap[pendings[c][i]] /\ i \in 1..Len(pendings'[c])
      BY <2>2, <2>7, <3>2
    <3> QED
      BY <3>1, <3>3 DEF IsPending
  <2>9. IsPending(a, tx)'
    <3>1. n + 1 \in 1..Len(pendings'[a]) /\ heap'[pendings'[a][n + 1]] = <<tx>>
      <4>1. n \in Nat /\ heap'[b] = <<tx>>
        BY <1>1, <2>2
      <4> QED
        BY <4>1, <2>6
    <3>2. 1 \in 1..Len(heap'[pendings'[a][n + 1]]) /\ heap'[pendings'[a][n + 1]][1] = tx
      BY <2>1, <3>1
    <3> QED
      BY <3>1, <3>2 DEF IsPending
  <2> QED
    BY <2>8, <2>9
<1> QED
  BY <1>2, <1>3 DEF pushPendingTx

\* A replacement takes the place of a pending transaction of its own nonce.
LEMMA ReplaceKeepsPending ==
  ASSUME TypeOK, NEW tx \in Tx, replacePendingTx(tx.From, tx),
         NEW c \in Address, NEW old \in Tx, IsPending(c, old)
  PROVE  \E new \in Tx : IsPending(c, new)' /\ new.Nonce = old.Nonce
<1>1. /\ \A i \in 1..Len(pendings[c]) : pendings[c][i] \in 1..Len(heap)
      /\ \A b \in 1..Len(heap) : heap[b] \in Seq(Tx)
  BY Pieces
<1>2. /\ \A b \in 1..Len(heap) : heap'[b] = heap[b] \/ heap'[b] = Replace(heap[b], tx)
      /\ pendings' = pendings
  BY DEF replacePendingTx
<1>0. PICK i \in 1..Len(pendings[c]) :
        \E k \in 1..Len(heap[pendings[c][i]]) : heap[pendings[c][i]][k] = old
  BY DEF IsPending
<1>3. PICK k \in 1..Len(heap[pendings[c][i]]) : heap[pendings[c][i]][k] = old
  BY <1>0
<1> DEFINE box == heap[pendings[c][i]]
           now == heap'[pendings[c][i]]
<1>4. box \in Seq(Tx) /\ (now = box \/ now = Replace(box, tx))
  BY <1>1, <1>2
<1>5. k \in 1..Len(box) /\ box[k] = old
  BY <1>3
<1> HIDE DEF box, now
<1>6. now \in Seq(Tx) /\ Len(now) = Len(box) /\ now[k].Nonce = box[k].Nonce
  <2>1. CASE now = box
    BY <1>4, <2>1
  <2>2. CASE now = Replace(box, tx)
    BY <1>4, <1>5, <2>2, ReplaceFacts
  <2> QED
    BY <1>4, <2>1, <2>2
<1>7. k \in 1..Len(now)
  BY <1>5, <1>6
<1>8. PICK new \in Tx : new = now[k]
  BY <1>6, <1>7, ElementOfSeq
<1>9. new.Nonce = old.Nonce
  BY <1>5, <1>6, <1>8
<1>10. IsPending(c, new)'
  BY <1>2, <1>7, <1>8 DEF IsPending, now
<1> QED
  BY <1>9, <1>10

\* Pop takes the sender's lowest pending transaction and no other.
LEMMA PopKeepsPending ==
  ASSUME PendingInv, NEW a \in Address, PopPendingTx(a),
         NEW c \in Address, NEW old \in Tx, IsPending(c, old)
  PROVE  \/ IsPending(c, old)'
         \/ /\ inflight = NoTx /\ inflight' = old
            /\ \A other \in Tx : IsPending(c, other) => other.Nonce >= old.Nonce
<1> DEFINE b   == pendings[a][1]
           box == heap[b]
<1>1. /\ pendings[a] # <<>> /\ inflight = NoTx /\ inflight' = box[1]
      /\ heap' = [heap EXCEPT ![b] = Tail(box)]
      /\ pendings' = IF Len(box) = 1 THEN [pendings EXCEPT ![a] = Tail(pendings[a])] ELSE pendings
  BY DEF PopPendingTx, Idle
<1>2. /\ Len(pendings[a]) \in Nat \ {0} /\ b \in 1..Len(heap)
      /\ box \in Seq(Tx) /\ Len(box) \in Nat \ {0}
      /\ \A d \in Address : \A i \in 1..Len(pendings[d]) : pendings[d][i] = b => d = a /\ i = 1
  BY <1>1, FirstBoxFacts
<1>3. /\ heap \in Seq(Seq(Tx)) /\ pendings \in [Address -> Seq(1..Len(heap))]
      /\ Len(heap) \in Nat /\ pendings[a] \in Seq(1..Len(heap))
      /\ \A i \in 1..Len(pendings[c]) : pendings[c][i] \in 1..Len(heap)
  BY Pieces DEF PendingInv, TypeOK
<1>4. \A d \in 1..Len(heap) : heap'[d] = IF d = b THEN Tail(box) ELSE heap[d]
  BY <1>1, <1>2, <1>3
<1>5. PICK i \in 1..Len(pendings[c]) :
        \E k \in 1..Len(heap[pendings[c][i]]) : heap[pendings[c][i]][k] = old
  BY DEF IsPending
<1>6. PICK k \in 1..Len(heap[pendings[c][i]]) : heap[pendings[c][i]][k] = old
  BY <1>5
<1>7. pendings[c][i] \in 1..Len(heap)
  BY <1>3
<1>8. CASE pendings[c][i] # b
  <2>1. heap'[pendings[c][i]] = heap[pendings[c][i]]
    BY <1>4, <1>7, <1>8
  <2>2. \E j \in 1..Len(pendings'[c]) : pendings'[c][j] = pendings[c][i]
    <3>1. CASE pendings' = pendings
      BY <3>1
    <3>2. CASE pendings' = [pendings EXCEPT ![a] = Tail(pendings[a])] /\ c # a
      BY <1>3, <3>2
    <3>3. CASE pendings' = [pendings EXCEPT ![a] = Tail(pendings[a])] /\ c = a
      <4>1. pendings'[a] = Tail(pendings[a])
        BY <1>3, <3>3
      <4>2. /\ Len(Tail(pendings[a])) = Len(pendings[a]) - 1
            /\ \A j \in 1..Len(Tail(pendings[a])) : Tail(pendings[a])[j] = pendings[a][j + 1]
        BY <1>1, <1>3, HeadTailProperties
      <4>3. i \in 1..Len(pendings[a]) /\ i # 1
        BY <1>8, <3>3
      <4>4. i - 1 \in 1..(Len(pendings[a]) - 1) /\ (i - 1) + 1 = i
        BY <1>2, <4>3
      <4>5. i - 1 \in 1..Len(Tail(pendings[a])) /\ Tail(pendings[a])[i - 1] = pendings[a][i]
        BY <4>2, <4>4
      <4> QED
        BY <3>3, <4>1, <4>5
    <3> QED
      BY <1>1, <3>1, <3>2, <3>3
  <2>3. PICK j \in 1..Len(pendings'[c]) : pendings'[c][j] = pendings[c][i]
    BY <2>2
  <2>4. IsPending(c, old)'
    BY <1>6, <2>1, <2>3 DEF IsPending
  <2> QED
    BY <2>4
<1>9. CASE pendings[c][i] = b /\ k = 1
  <2>1. c = a /\ old = box[1]
    BY <1>2, <1>6, <1>9
  <2>2. ASSUME NEW other \in Tx, IsPending(a, other) PROVE other.Nonce >= old.Nonce
    <3>1. PICK j \in 1..Len(pendings[a]) :
            \E m \in 1..Len(heap[pendings[a][j]]) : heap[pendings[a][j]][m] = other
      BY <2>2 DEF IsPending
    <3>2. PICK m \in 1..Len(heap[pendings[a][j]]) : heap[pendings[a][j]][m] = other
      BY <3>1
    <3>3. heap[pendings[a][j]][m].Nonce >= heap[pendings[a][1]][1].Nonce
      BY PendingInOrder
    <3> QED
      BY <2>1, <3>2, <3>3
  <2> QED
    BY <1>1, <2>1, <2>2
<1>10. CASE pendings[c][i] = b /\ k # 1
  <2>1. c = a /\ i = 1 /\ k \in 1..Len(box) /\ box[k] = old
    BY <1>2, <1>6, <1>10
  <2>2. heap'[b] = Tail(box)
    BY <1>2, <1>4
  <2>3. Len(box) # 1
    BY <1>10, <2>1
  <2>4. pendings' = pendings
    BY <1>1, <2>3
  <2> HIDE DEF box
  <2>5. box # <<>>
    BY <1>2, EmptySeq
  <2>6. /\ Len(Tail(box)) = Len(box) - 1
        /\ \A j \in 1..Len(Tail(box)) : Tail(box)[j] = box[j + 1]
    BY <1>2, <2>5, HeadTailProperties
  <2>7. k - 1 \in 1..(Len(box) - 1) /\ (k - 1) + 1 = k
    BY <1>2, <1>10, <2>1
  <2>8. k - 1 \in 1..Len(Tail(box)) /\ Tail(box)[k - 1] = old
    BY <2>1, <2>6, <2>7
  <2>9. IsPending(c, old)'
    BY <1>10, <2>1, <2>2, <2>4, <2>8 DEF IsPending
  <2> QED
    BY <2>9
<1> QED
  BY <1>8, <1>9, <1>10

\* Every step keeps the pending transactions, popping and outbidding aside.
LEMMA NextKeepsPending ==
  ASSUME PoolInv, [Next]_vars, NEW c \in Address, NEW old \in Tx
  PROVE  PendingKept(c, old)
<1> SUFFICES ASSUME IsPending(c, old), ~IsPending(c, old)'
             PROVE  \/ /\ inflight = NoTx /\ inflight' = old
                       /\ \A other \in Tx : IsPending(c, other) => other.Nonce >= old.Nonce
                    \/ \E new \in Tx : IsPending(c, new)' /\ new.Nonce = old.Nonce
  BY DEF PendingKept
<1>1. PendingInv /\ TypeOK /\ PromotionAlone
  BY DEF PoolInv, PendingInv
<1>2. CASE UNCHANGED <<heap, pendings>>
  BY <1>2 DEF IsPending
<1>3. ASSUME NEW tx \in Tx, NewTx(tx)
      PROVE  \/ UNCHANGED <<heap, pendings>>
             \/ \E new \in Tx : IsPending(c, new)' /\ new.Nonce = old.Nonce
  <2>1. CASE addQueue(tx)
    BY <2>1 DEF addQueue
  <2>2. CASE pushPendingTx(tx.From, tx)
    <3>1. tx.From \in Address
      BY TxAssumption
    <3> QED
      BY <1>1, <2>2, <3>1, PushKeepsPending
  <2>3. CASE replacePendingTx(tx.From, tx)
    BY <1>1, <2>3, ReplaceKeepsPending
  <2> QED
    BY <1>3, <2>1, <2>2, <2>3 DEF NewTx
<1>4. CASE promoteQueueToPending
  <2>1. promoting \in Address
    BY <1>1, <1>4 DEF promoteQueueToPending, TypeOK
  <2>2. CASE pushPendingTx(promoting, queue[promoting][1]) /\ queue[promoting] # <<>>
    <3>1. queue[promoting] \in Seq(Tx)
      BY <1>1, <2>1, Pieces
    <3>2. queue[promoting][1] \in Tx
      BY <2>2, <3>1, EmptySeq, LenProperties, ElementOfSeq
    <3> QED
      BY <1>1, <2>1, <2>2, <3>2, PushKeepsPending
  <2> QED
    BY <1>2, <1>4, <2>2 DEF promoteQueueToPending
<1>5. ASSUME NEW a \in Address, PopPendingTx(a)
      PROVE  /\ inflight = NoTx /\ inflight' = old
             /\ \A other \in Tx : IsPending(c, other) => other.Nonce >= old.Nonce
  BY <1>1, <1>5, PopKeepsPending
<1> QED
  BY <1>2, <1>3, <1>4, <1>5
  DEF Next, Pop, PopNil, NewTxStale, CleanExpiredTxs, IncNonce, Discard, SetClock, vars

\* No operation loses a pending transaction: it is popped, oldest first, or makes
\* way for one of its nonce.
THEOREM NoPendingTxIsLost == Spec => PendingNeverLost
<1>1. PoolInv /\ [Next]_vars => [\A a \in Address, tx \in Tx : PendingKept(a, tx)]_vars
  BY NextKeepsPending
<1> QED
  BY <1>1, PoolInvariant, PTL DEF Spec, PendingNeverLost

-----------------------------------------------------------------------------
(* A queued transaction is not lost.                                       *)

\* A one-to-one map into a finite set of the same size reaches all of it.
LEMMA InjectionReachesAll ==
  ASSUME NEW n \in Nat, NEW K, IsFiniteSet(K), Cardinality(K) = n, NEW f \in [1..n -> K],
         \A i, j \in 1..n : f[i] = f[j] => i = j, NEW x \in K
  PROVE  \E i \in 1..n : f[i] = x
<1>1. f \in Injection(1..n, K)
  BY DEF Injection, IsInjective
<1>2. Cardinality(1..n) = Cardinality(K)
  BY FS_Interval
<1>3. f \in Surjection(1..n, K)
  BY <1>1, <1>2, FS_Injection
<1> QED
  BY <1>3 DEF Surjection

\* A sort loses nothing.
LEMMA SortLosesNothing ==
  ASSUME NEW S, NEW s \in Seq(S), NEW r \in Rearrangements(s), NEW m \in 1..Len(s)
  PROVE  \E i \in 1..Len(r) : r[i] = s[m]
<1> DEFINE n == Len(s)
           I == 1..n
<1>1. PICK p \in Injection(I, I) : r = [i \in 1..n |-> s[p[i]]]
  BY DEF Rearrangements
<1>2. p \in [1..n -> I] /\ \A i, j \in 1..n : p[i] = p[j] => i = j
  BY <1>1 DEF Injection, IsInjective
<1>3. n \in Nat /\ \A i \in I : s[i] \in S
  BY LenProperties, ElementOfSeq
<1>4. IsFiniteSet(I) /\ Cardinality(I) = n /\ m \in I
  BY <1>3, FS_Interval
<1>5. r \in [1..n -> S]
  BY <1>1, <1>2, <1>3
<1>6. Len(r) = n
  BY <1>3, <1>5, FunctionIsSeq
<1> HIDE DEF n, I
<1>7. PICK i \in 1..n : p[i] = m
  BY <1>2, <1>3, <1>4, InjectionReachesAll
<1> QED
  BY <1>1, <1>6, <1>7

\* A filter loses nothing that it is to keep.
LEMMA FilterKeepsWanted ==
  ASSUME NEW S, NEW s \in Seq(S), NEW K \in SUBSET (1..Len(s)), NEW r \in Selections(s, K),
         NEW j \in K
  PROVE  \E i \in 1..Len(r) : r[i] = s[j]
<1> DEFINE n == Cardinality(K)
<1>1. Len(s) \in Nat /\ \A i \in 1..Len(s) : s[i] \in S
  BY LenProperties, ElementOfSeq
<1>2. IsFiniteSet(K) /\ n \in Nat
  <2>1. IsFiniteSet(1..Len(s))
    BY <1>1, FS_Interval
  <2>2. IsFiniteSet(K)
    BY <2>1, FS_Subset
  <2> QED
    BY <2>2, FS_CardinalityType
<1>3. PICK f \in {g \in [1..n -> K] : \A i, k \in 1..n : i < k => g[i] < g[k]} :
        r = [i \in 1..n |-> s[f[i]]]
  BY DEF Selections
<1>4. f \in [1..n -> K] /\ \A i, k \in 1..n : i < k => f[i] < f[k]
  BY <1>3
<1>5. ASSUME NEW i \in 1..n, NEW k \in 1..n, f[i] = f[k] PROVE i = k
  <2>1. f[i] \in Int /\ f[k] \in Int
    <3>1. K \subseteq Int
      BY <1>1
    <3> QED
      BY <1>4, <3>1
  <2>2. i \in Int /\ k \in Int
    BY <1>2
  <2>3. ~(i < k) /\ ~(k < i)
    BY <1>4, <1>5, <2>1
  <2> QED
    BY <2>2, <2>3
<1>6. PICK i \in 1..n : f[i] = j
  BY <1>2, <1>4, <1>5, InjectionReachesAll
<1>7. r \in [1..n -> S]
  BY <1>1, <1>3
<1>8. Len(r) = n
  BY <1>2, <1>7, FunctionIsSeq
<1> QED
  BY <1>3, <1>6, <1>8

\* Queueing tx loses nothing but a cheaper transaction of tx's nonce.
LEMMA AddQueueKeepsQueued ==
  ASSUME TypeOK, NEW tx \in Tx, Increasing(queue[tx.From]), addQueue(tx),
         NEW c \in Address, NEW old \in Tx, IsQueued(c, old)
  PROVE  \/ IsQueued(c, old)'
         \/ IsQueued(c, tx)' /\ tx.Nonce = old.Nonce /\ tx.GasPrice > old.GasPrice
<1> DEFINE list == queue[tx.From]
           Same == {i \in 1..Len(list) : list[i].Nonce = tx.Nonce}
           new  == IF Same = {} THEN Append(list, tx)
                   ELSE [i \in 1..Len(list) |->
                           IF /\ i \in Same
                              /\ \A j \in Same : i <= j
                              /\ tx.GasPrice > list[i].GasPrice
                             THEN tx ELSE list[i]]
<1>1. PICK q \in Rearrangements(new) :
             NonceSorted(q) /\ queue' = [queue EXCEPT ![tx.From] = q]
  BY DEF addQueue
<1>2. tx.From \in Address /\ queue \in [Address -> Seq(Tx)]
  BY TxAssumption DEF TypeOK
<1>3. list \in Seq(Tx) /\ Len(list) \in Nat /\ \A i \in 1..Len(list) : list[i] \in Tx
  BY <1>2, Pieces
<1>4. PICK j \in 1..Len(queue[c]) : queue[c][j] = old
  BY DEF IsQueued
<1>5. CASE c # tx.From
  <2>1. queue'[c] = queue[c]
    BY <1>1, <1>2, <1>5
  <2>2. IsQueued(c, old)'
    BY <1>4, <2>1 DEF IsQueued
  <2> QED
    BY <2>2
<1>6. CASE c = tx.From
  <2>1. queue'[c] = q /\ j \in 1..Len(list) /\ list[j] = old
    BY <1>1, <1>2, <1>4, <1>6
  <2> HIDE DEF list
  <2>2. /\ new \in Seq(Tx) /\ j \in 1..Len(new)
        /\ \/ new[j] = old
           \/ new[j] = tx /\ tx.Nonce = old.Nonce /\ tx.GasPrice > old.GasPrice
    <3>1. CASE Same = {}
      <4>1. new = Append(list, tx)
        BY <3>1
      <4>2. /\ Append(list, tx) \in Seq(Tx) /\ Len(Append(list, tx)) = Len(list) + 1
            /\ Append(list, tx)[j] = old
        BY <1>3, <2>1, AppendProperties
      <4>3. j \in 1..(Len(list) + 1)
        BY <1>3, <2>1
      <4> QED
        BY <4>1, <4>2, <4>3
    <3>2. CASE Same # {}
      <4>1. new = [i \in 1..Len(list) |->
                     IF /\ i \in Same
                        /\ \A m \in Same : i <= m
                        /\ tx.GasPrice > list[i].GasPrice
                       THEN tx ELSE list[i]]
        BY <3>2
      <4>2. new \in [1..Len(list) -> Tx]
        BY <1>3, <4>1
      <4>3. new \in Seq(Tx) /\ Len(new) = Len(list)
        BY <1>3, <4>2, FunctionIsSeq
      <4>4. \/ new[j] = list[j]
            \/ new[j] = tx /\ list[j].Nonce = tx.Nonce /\ tx.GasPrice > list[j].GasPrice
        BY <2>1, <4>1
      <4> HIDE DEF new
      <4> QED
        BY <2>1, <4>3, <4>4
    <3> QED
      BY <3>1, <3>2
  <2> HIDE DEF new
  <2>3. PICK i \in 1..Len(q) : q[i] = new[j]
    BY <2>2, SortLosesNothing
  <2>4. CASE new[j] = old
    <3>1. IsQueued(c, old)'
      BY <2>1, <2>3, <2>4 DEF IsQueued
    <3> QED
      BY <3>1
  <2>5. CASE new[j] = tx /\ tx.Nonce = old.Nonce /\ tx.GasPrice > old.GasPrice
    <3>1. IsQueued(c, tx)'
      BY <2>1, <2>3, <2>5 DEF IsQueued
    <3> QED
      BY <2>5, <3>1
  <2> QED
    BY <2>2, <2>4, <2>5
<1> QED
  BY <1>5, <1>6

\* A remainder is no larger than the number.
LEMMA RemainderIsSmall ==
  ASSUME NEW x \in Nat, NEW w \in Nat \ {0}
  PROVE  x % w \in Nat /\ x % w <= x
<1>1. x % w \in 0..(w - 1) /\ x = w * (x \div w) + (x % w) /\ x \div w \in Int
  OBVIOUS
<1>2. x \div w >= 0
  OBVIOUS
<1>3. w * (x \div w) >= 0
  BY <1>1, <1>2
<1> QED
  BY <1>1, <1>3

\* Cleaning drops what is expired, stamped after the present, or too old.
LEMMA CleanKeepsQueued ==
  ASSUME TypeOK, NEW m \in [Address -> MinNonces], CleanExpiredTxs(m),
         NEW c \in Address, NEW old \in Tx, IsQueued(c, old)
  PROVE  \/ IsQueued(c, old)'
         \/ clock - time[old] > ExpireSec
         \/ time[old] > clock
         \/ old.Nonce < m[c]
<1> DEFINE Keep(a) == {i \in 1..Len(queue[a]) : /\ queue[a][i].Nonce >= m[a]
                                                /\ Age(clock, time[queue[a][i]]) <= ExpireSec}
<1>1. queue'[c] \in Selections(queue[c], Keep(c))
  BY DEF CleanExpiredTxs
<1>2. PICK j \in 1..Len(queue[c]) : queue[c][j] = old
  BY DEF IsQueued
<1>3. CASE j \in Keep(c)
  <2>1. queue[c] \in Seq(Tx) /\ Keep(c) \in SUBSET (1..Len(queue[c]))
    BY Pieces
  <2>2. PICK r \in Selections(queue[c], Keep(c)) : r = queue'[c]
    BY <1>1
  <2> HIDE DEF Keep
  <2>3. \E i \in 1..Len(r) : r[i] = queue[c][j]
    BY <1>3, <2>1, FilterKeepsWanted
  <2>4. IsQueued(c, old)'
    BY <1>2, <2>2, <2>3 DEF IsQueued
  <2> QED
    BY <2>4
<1>4. CASE j \notin Keep(c)
  <2>1. \/ ~(old.Nonce >= m[c])
        \/ ~(Age(clock, time[old]) <= ExpireSec)
    BY <1>2, <1>4
  <2>2. clock \in Nat /\ time[old] \in Nat /\ Word \in Nat \ {0} /\ ExpireSec \in Nat
    BY ClockAssumption DEF TypeOK
  <2>3. CASE ~(old.Nonce >= m[c])
    <3>1. old.Nonce \in Nat /\ m[c] \in Nat
      BY TxAssumption, ClockAssumption
    <3> QED
      BY <2>3, <3>1
  <2>4. CASE ~(Age(clock, time[old]) <= ExpireSec) /\ ~(time[old] > clock)
    <3>1. clock - time[old] \in Nat
      BY <2>2, <2>4
    <3>2. /\ (clock - time[old]) % Word \in Nat
          /\ (clock - time[old]) % Word <= clock - time[old]
      BY <2>2, <3>1, RemainderIsSmall
    <3>3. ~((clock - time[old]) % Word <= ExpireSec)
      BY <2>4 DEF Age
    <3> QED
      BY <2>2, <3>1, <3>2, <3>3
  <2> QED
    BY <2>1, <2>3, <2>4
<1> QED
  BY <1>3, <1>4

\* Promotion takes the head of one queue and makes it pending.
LEMMA PromotionKeepsQueued ==
  ASSUME PoolInv, promoteQueueToPending, NEW c \in Address, NEW old \in Tx, IsQueued(c, old)
  PROVE  IsQueued(c, old)' \/ IsPending(c, old)'
<1> DEFINE a == promoting
           q == queue[a]
<1>1. TypeOK /\ a \in Address
  BY DEF PoolInv, PendingInv, promoteQueueToPending, TypeOK
<1>2. PICK j \in 1..Len(queue[c]) : queue[c][j] = old
  BY DEF IsQueued
<1>3. CASE queue' = queue
  BY <1>3 DEF IsQueued
<1>4. CASE q # <<>> /\ popFromQueue(a) /\ pushPendingTx(a, q[1])
  <2>1. queue \in [Address -> Seq(Tx)] /\ q \in Seq(Tx) /\ Len(q) \in Nat
    BY <1>1, Pieces DEF TypeOK
  <2>2. queue' = [queue EXCEPT ![a] = Tail(q)]
    BY <1>4 DEF popFromQueue
  <2>3. q[1] \in Tx
    BY <1>4, <2>1, EmptySeq, ElementOfSeq
  <2>4. CASE c # a
    <3>1. queue'[c] = queue[c]
      BY <2>1, <2>2, <2>4
    <3> QED
      BY <1>2, <3>1 DEF IsQueued
  <2>5. CASE c = a /\ j = 1
    <3>1. PICK head \in Tx : head = q[1]
      BY <2>3
    <3>2. head = old /\ pushPendingTx(c, head)
      BY <1>2, <1>4, <2>5, <3>1
    <3>3. IsPending(c, head)'
      BY <1>1, <3>2, PushKeepsPending
    <3> QED
      BY <3>2, <3>3 DEF IsPending
  <2>6. CASE c = a /\ j # 1
    <3>1. queue'[c] = Tail(q) /\ j \in 1..Len(q) /\ q[j] = old
      BY <1>1, <1>2, <2>1, <2>2, <2>6
    <3> HIDE DEF q
    <3>2. /\ Len(Tail(q)) = Len(q) - 1
          /\ \A i \in 1..Len(Tail(q)) : Tail(q)[i] = q[i + 1]
      BY <1>4, <2>1, HeadTailProperties
    <3>3. j - 1 \in 1..(Len(q) - 1) /\ (j - 1) + 1 = j
      BY <2>1, <2>6, <3>1
    <3>4. j - 1 \in 1..Len(Tail(q)) /\ Tail(q)[j - 1] = old
      BY <3>1, <3>2, <3>3
    <3> QED
      BY <3>1, <3>4 DEF IsQueued
  <2> QED
    BY <2>4, <2>5, <2>6
<1> QED
  BY <1>3, <1>4 DEF promoteQueueToPending

\* Every step keeps the queued transactions, with the exceptions named.
LEMMA NextKeepsQueued ==
  ASSUME PoolInv, [Next]_vars, NEW c \in Address, NEW old \in Tx
  PROVE  QueuedKept(c, old)
<1> SUFFICES ASSUME IsQueued(c, old), ~IsQueued(c, old)'
             PROVE  \/ IsPending(c, old)'
                    \/ \E new \in Tx : /\ IsQueued(c, new)' /\ new.Nonce = old.Nonce
                                       /\ new.GasPrice > old.GasPrice
                    \/ clock - time[old] > ExpireSec
                    \/ time[old] > clock
                    \/ \E m \in [Address -> MinNonces] : old.Nonce < m[c] /\ CleanExpiredTxs(m)
  BY DEF QueuedKept
<1>1. TypeOK /\ QueueOrdered
  BY DEF PoolInv, PendingInv
<1>2. queue' # queue
  BY DEF IsQueued
<1>3. ASSUME NEW tx \in Tx, NewTx(tx)
      PROVE  \E new \in Tx : /\ IsQueued(c, new)' /\ new.Nonce = old.Nonce
                             /\ new.GasPrice > old.GasPrice
  <2>1. addQueue(tx)
    BY <1>2, <1>3 DEF NewTx, replacePendingTx
  <2>2. Increasing(queue[tx.From])
    BY <1>1, TxAssumption DEF QueueOrdered
  <2> QED
    BY <1>1, <2>1, <2>2, AddQueueKeepsQueued
<1>4. CASE promoteQueueToPending
  BY <1>4, PromotionKeepsQueued
<1>5. ASSUME NEW m \in [Address -> MinNonces], CleanExpiredTxs(m)
      PROVE  clock - time[old] > ExpireSec \/ time[old] > clock \/ old.Nonce < m[c]
  BY <1>1, <1>5, CleanKeepsQueued
<1> QED
  BY <1>2, <1>3, <1>4, <1>5
  DEF Next, Pop, PopPendingTx, PopNil, NewTxStale, IncNonce, Discard, SetClock, vars

\* No operation loses a queued transaction: it becomes pending, is outbid at its
\* nonce, or is cleaned away for one of CleanExpiredTxs's reasons.
THEOREM NoQueuedTxIsLost == Spec => QueuedNeverLost
<1>1. PoolInv /\ [Next]_vars => [\A a \in Address, tx \in Tx : QueuedKept(a, tx)]_vars
  BY NextKeepsQueued
<1> QED
  BY <1>1, PoolInvariant, PTL DEF Spec, QueuedNeverLost

-----------------------------------------------------------------------------
(* A sender of whom no transaction failed is served in nonce order.        *)

FirstPending(a) == FirstNonce(heap[pendings[a][1]])

\* The account, the transaction in flight and the pending ones of a follow each
\* other without a gap.
InLine(a) ==
  /\ inflight # NoTx /\ inflight.From = a => inflight.Nonce = nonce[a] + 1
  /\ pendings[a] # <<>> =>
       FirstPending(a) = nonce[a] + (IF inflight # NoTx /\ inflight.From = a THEN 2 ELSE 1)

\* A new executable transaction comes first only where nothing was pending.
LEMMA PushKeepsFirst ==
  ASSUME PendingInv, NEW c \in Address, NEW tx \in Tx, pushPendingTx(c, tx), NEW a \in Address
  PROVE  /\ pendings[a] # <<>> => FirstPending(a)' = FirstPending(a)
         /\ pendings[a] = <<>> /\ a = c => FirstPending(a)' = tx.Nonce
         /\ pendings[a] = <<>> /\ a # c => pendings'[a] = <<>>
<1>1. TypeOK /\ BoxesExclusive
  BY DEF PendingInv
<1>2. /\ heap \in Seq(Seq(Tx)) /\ Len(heap) \in Nat
      /\ pendings \in [Address -> Seq(1..Len(heap))]
      /\ \A d \in Address : /\ pendings[d] \in Seq(1..Len(heap)) /\ Len(pendings[d]) \in Nat
                            /\ \A i \in 1..Len(pendings[d]) : pendings[d][i] \in 1..Len(heap)
      /\ \A b \in 1..Len(heap) : heap[b] \in Seq(Tx) /\ Len(heap[b]) \in Nat
  BY <1>1, Pieces DEF TypeOK
<1> DEFINE n == Len(pendings[c])
           first == pendings[a][1]
<1>3. CASE pendings[c] # <<>> /\ Push(c, tx)
  <2> DEFINE last == pendings[c][n]
             box  == heap[last]
  <2>1. last \in 1..Len(heap) /\ box \in Seq(Tx)
    BY <1>1, <1>2, <1>3, LastBoxFacts
  <2>2. /\ \A b \in 1..Len(heap) : heap'[b] = IF b = last THEN Append(box, tx) ELSE heap[b]
        /\ pendings' = pendings
    BY <1>2, <1>3, <2>1 DEF Push
  <2>3. ASSUME pendings[a] # <<>> PROVE FirstPending(a)' = FirstPending(a)
    <3>1. /\ first \in 1..Len(heap) /\ heap[first] \in Seq(Tx) /\ Len(heap[first]) \in Nat \ {0}
          /\ FirstNonce(heap[first]) = heap[first][1].Nonce
      BY <2>3, FirstBoxFacts
    <3>2. CASE first # last
      BY <2>2, <3>1, <3>2 DEF FirstPending
    <3>3. CASE first = last
      <4>1. heap'[first] = Append(heap[first], tx)
        BY <2>2, <3>1, <3>3
      <4>2. /\ Append(heap[first], tx)[1] = heap[first][1]
            /\ Append(heap[first], tx) # <<>>
        BY <3>1, AppendProperties
      <4>3. FirstNonce(heap'[first]) = heap[first][1].Nonce
        BY <4>1, <4>2 DEF FirstNonce
      <4> QED
        BY <2>2, <3>1, <4>3 DEF FirstPending
    <3> QED
      BY <3>2, <3>3
  <2> QED
    BY <1>3, <2>2, <2>3
<1>4. CASE makeNewBlock(c, tx)
  <2> DEFINE b == Len(heap) + 1
  <2>1. <<tx>> \in Seq(Tx) /\ Len(<<tx>>) = 1 /\ <<tx>>[1] = tx /\ <<tx>> # <<>>
    OBVIOUS
  <2>2. heap'[b] = <<tx>> /\ \A d \in 1..Len(heap) : heap'[d] = heap[d]
    BY <1>2, <1>4, <2>1, AppendProperties DEF makeNewBlock
  <2>3. pendings' = [pendings EXCEPT ![c] = Append(pendings[c], b)]
    BY <1>4 DEF makeNewBlock
  <2>4. b \in Nat /\ pendings[c] \in Seq(Nat)
    BY <1>2, SeqWidens
  <2> HIDE DEF b
  <2>5. /\ Append(pendings[c], b)[n + 1] = b
        /\ \A i \in 1..n : Append(pendings[c], b)[i] = pendings[c][i]
    BY <2>4, AppendProperties
  <2>6. /\ pendings'[c][n + 1] = b /\ \A i \in 1..n : pendings'[c][i] = pendings[c][i]
        /\ \A d \in Address \ {c} : pendings'[d] = pendings[d]
    BY <1>2, <2>3, <2>5
  <2>7. ASSUME pendings[a] # <<>> PROVE FirstPending(a)' = FirstPending(a)
    <3>1. first \in 1..Len(heap) /\ Len(pendings[a]) \in Nat \ {0}
      BY <2>7, FirstBoxFacts
    <3>2. pendings'[a][1] = first
      BY <2>6, <3>1
    <3> QED
      BY <2>2, <3>1, <3>2 DEF FirstPending
  <2>8. ASSUME pendings[a] = <<>>, a = c PROVE FirstPending(a)' = tx.Nonce
    <3>1. n = 0
      BY <2>8, EmptySeq
    <3>2. pendings'[a][1] = b
      BY <2>6, <2>8, <3>1
    <3> QED
      BY <2>1, <2>2, <3>2 DEF FirstPending, FirstNonce
  <2> QED
    BY <2>6, <2>7, <2>8
<1> QED
  BY <1>3, <1>4 DEF pushPendingTx

\* A step that does not fail one of a's transactions keeps a in line.
LEMMA NextKeepsLine ==
  ASSUME PoolInv, [Next]_vars, NEW a \in Address, InLine(a),
         ~(inflight # NoTx /\ inflight.From = a /\ inflight' = NoTx /\ nonce' = nonce)
  PROVE  InLine(a)'
<1>1. /\ PendingInv /\ TypeOK /\ BoxesExclusive /\ PromotionAlone
  BY DEF PoolInv, PendingInv
<1>2. nonce \in [Address -> Nat] /\ nonce[a] \in Nat
  BY <1>1 DEF TypeOK
<1>3. CASE UNCHANGED <<heap, pendings, nonce, inflight>>
  BY <1>3 DEF InLine, FirstPending
<1>4. ASSUME NEW c \in Address, NEW tx \in Tx, pushPendingTx(c, tx), tx.Nonce = TopNonce(c) + 1,
             inflight = NoTx, UNCHANGED <<nonce, inflight>>
      PROVE  InLine(a)'
  <2>1. CASE pendings[a] # <<>>
    BY <1>1, <1>4, <2>1, PushKeepsFirst DEF InLine
  <2>2. CASE pendings[a] = <<>> /\ a = c
    <3>1. FirstPending(a)' = nonce[a] + 1
      BY <1>1, <1>4, <2>2, PushKeepsFirst DEF TopNonce
    <3> QED
      BY <1>4, <3>1 DEF InLine
  <2>3. CASE pendings[a] = <<>> /\ a # c
    BY <1>1, <1>4, <2>3, PushKeepsFirst DEF InLine
  <2> QED
    BY <2>1, <2>2, <2>3
<1>5. ASSUME NEW tx \in Tx, NewTx(tx) PROVE InLine(a)'
  <2>1. inflight = NoTx /\ UNCHANGED <<nonce, inflight>>
    BY <1>5 DEF NewTx, Idle
  <2>2. CASE addQueue(tx)
    BY <1>3, <2>1, <2>2 DEF addQueue
  <2>3. CASE pushPendingTx(tx.From, tx) /\ tx.Nonce = TopNonce(tx.From) + 1
    BY <1>4, <2>1, <2>3, TxAssumption
  <2>4. CASE replacePendingTx(tx.From, tx)
    <3>1. /\ \A b \in 1..Len(heap) : heap'[b] = heap[b] \/ heap'[b] = Replace(heap[b], tx)
          /\ pendings' = pendings
      BY <2>4 DEF replacePendingTx
    <3>2. ASSUME pendings[a] # <<>> PROVE FirstPending(a)' = FirstPending(a)
      <4> DEFINE box == heap[pendings[a][1]]
                 now == heap'[pendings[a][1]]
      <4>1. /\ box \in Seq(Tx) /\ Len(box) \in Nat \ {0} /\ FirstNonce(box) = box[1].Nonce
            /\ pendings[a][1] \in 1..Len(heap)
        BY <1>1, <3>2, FirstBoxFacts
      <4>2. now = box \/ now = Replace(box, tx)
        BY <3>1, <4>1
      <4> HIDE DEF box, now
      <4>3. CASE now = Replace(box, tx)
        <5>1. /\ now \in Seq(Tx) /\ Len(now) = Len(box)
              /\ \A i \in 1..Len(box) : now[i].Nonce = box[i].Nonce
          BY <4>1, <4>3, ReplaceFacts
        <5>2. now # <<>> /\ now[1].Nonce = box[1].Nonce
          BY <4>1, <5>1, EmptySeq
        <5> QED
          BY <3>1, <4>1, <5>2 DEF FirstPending, FirstNonce, box, now
      <4>4. CASE now = box
        BY <3>1, <4>4 DEF FirstPending, box, now
      <4> QED
        BY <4>2, <4>3, <4>4
    <3> QED
      BY <2>1, <3>1, <3>2 DEF InLine
  <2> QED
    BY <1>5, <2>2, <2>3, <2>4 DEF NewTx
<1>6. CASE promoteQueueToPending
  <2>1. promoting \in Address /\ inflight = NoTx /\ UNCHANGED <<nonce, inflight>>
    BY <1>1, <1>6 DEF promoteQueueToPending, TypeOK, PromotionAlone
  <2>2. CASE /\ pushPendingTx(promoting, queue[promoting][1]) /\ queue[promoting] # <<>>
             /\ queue[promoting][1].Nonce = TopNonce(promoting) + 1
    <3>1. queue[promoting] \in Seq(Tx)
      BY <1>1, <2>1, Pieces
    <3>2. queue[promoting][1] \in Tx
      BY <2>2, <3>1, EmptySeq, LenProperties, ElementOfSeq
    <3> QED
      BY <1>4, <2>1, <2>2, <3>2
  <2> QED
    BY <1>3, <1>6, <2>1, <2>2 DEF promoteQueueToPending
<1>7. ASSUME NEW c \in Address, PopPendingTx(c) PROVE InLine(a)'
  <2> DEFINE b   == pendings[c][1]
             box == heap[b]
  <2>1. /\ pendings[c] # <<>> /\ inflight = NoTx /\ inflight' = box[1] /\ nonce' = nonce
        /\ heap' = [heap EXCEPT ![b] = Tail(box)]
        /\ pendings' = IF Len(box) = 1 THEN [pendings EXCEPT ![c] = Tail(pendings[c])] ELSE pendings
    BY <1>7 DEF PopPendingTx, Idle
  <2>2. /\ box[1] \in Tx /\ box[1].From = c /\ FirstNonce(box) = box[1].Nonce
        /\ \A d \in Address : \A i \in 1..Len(pendings[d]) : pendings[d][i] = b => d = c /\ i = 1
    BY <1>1, <2>1, FirstBoxFacts
  <2>3. inflight' # NoTx /\ inflight'.From = c
    BY <2>1, <2>2, TxAssumption
  <2>4. CASE c = a
    <3>1. inflight'.Nonce = nonce[a] + 1
      BY <2>1, <2>2, <2>4 DEF InLine, FirstPending
    <3>2. AccountBehindPending'
      BY <1>7, PopKeepsPoolInv DEF PoolInv, PendingInv
    <3>3. pendings'[a] # <<>> => FirstPending(a)' = inflight'.Nonce + 1
      BY <2>3, <2>4, <3>2 DEF AccountBehindPending, FirstPending
    <3> QED
      BY <1>2, <2>1, <2>3, <2>4, <3>1, <3>3 DEF InLine
  <2>5. CASE c # a
    <3>1. pendings \in [Address -> Seq(1..Len(heap))] /\ heap \in Seq(Seq(Tx))
      BY <1>1 DEF TypeOK
    <3>2. pendings'[a] = pendings[a]
      BY <2>1, <2>5, <3>1
    <3>3. ASSUME pendings[a] # <<>> PROVE FirstPending(a)' = FirstPending(a)
      <4>1. pendings[a][1] \in 1..Len(heap) /\ 1 \in 1..Len(pendings[a])
        BY <1>1, <3>3, FirstBoxFacts
      <4>2. pendings[a][1] # b
        BY <2>2, <2>5, <4>1
      <4>3. heap'[pendings[a][1]] = heap[pendings[a][1]]
        BY <2>1, <3>1, <4>1, <4>2
      <4> QED
        BY <3>2, <4>3 DEF FirstPending
    <3> QED
      BY <2>1, <2>3, <2>5, <3>2, <3>3 DEF InLine
  <2> QED
    BY <2>4, <2>5
<1>8. CASE IncNonce \/ Discard
  <2>1. /\ inflight # NoTx /\ inflight' = NoTx /\ UNCHANGED <<heap, pendings>>
        /\ nonce' = nonce \/ nonce' = [nonce EXCEPT ![inflight.From] = nonce[inflight.From] + 1]
    BY <1>8 DEF IncNonce, Discard
  <2>2. CASE inflight.From = a
    <3>1. nonce'[a] = nonce[a] + 1
      BY <1>2, <2>1, <2>2
    <3>2. pendings[a] # <<>> => FirstPending(a) = nonce[a] + 2
      BY <2>1, <2>2 DEF InLine
    <3> QED
      BY <1>2, <2>1, <3>1, <3>2 DEF InLine, FirstPending
  <2>3. CASE inflight.From # a
    <3>1. nonce'[a] = nonce[a]
      BY <1>2, <2>1, <2>3
    <3> QED
      BY <2>1, <2>3, <3>1 DEF InLine, FirstPending
  <2> QED
    BY <2>2, <2>3
<1> QED
  BY <1>3, <1>5, <1>6, <1>7, <1>8
  DEF Next, Pop, PopNil, NewTxStale, CleanExpiredTxs, SetClock, vars
=============================================================================
