# A TLA+ development for the standalone blockchain node

The program is a single-process toy blockchain written in Go.  A driver
(`src/main.go`) creates accounts, signs transactions, gives them to a
transaction pool, and makes blocks: the block maker takes transactions from the
pool, the state machine executes each against the state database, and the
driver records the header of the finished block.

Transactions are signed and their senders recovered by a vendored C library,
libsecp256k1, which is by far the largest part of the repository.

This directory holds TLA+ modules that model that machinery, configurations that
check them with TLC on small instances, and TLAPS proofs: of what the pool, the
node and its ledger guarantee for any accounts and transactions, of how far the trie is a
map for any keys, of what signing, verification and recovery guarantee on any curve of prime
order, and that the group law's formulas compute the group law and keep within their
magnitudes, on any such curve.

## 1. Inventory

| Component | State | Operations | Made correct by |
|---|---|---|---|
| Transaction pool, `src/txpool/default.go` | `pendings` (sender to boxes of executable transactions), `queue` (sender to waiting transactions), `txs` (all boxes by price) | `NewTx`, `Pop`, `PopPendingTx`, `CleanExpiredTxs`; inside, `addQueue`, `pushPendingTx`, `makeNewBlock`, `promoteQueueToPending`, `replacePendingTx` | consecutive pending nonces, no executable transaction left waiting, nothing lost, senders kept apart |
| State database, `src/statdb/stat.go` | key-value store of RLP-encoded accounts | `Load`, `Store`, `IncNonce`, `SetStatRoot` | what was stored is loaded |
| State machine, `src/statemachine/machine.go` | none of its own | `Execute` (two writes to the database) | money conserved, nonce up by one per executed transaction |
| Block maker, `src/maker/blockmaker.go` | `nextHeader`, `nextBody`, `interupt` channel, a copy of the chain | `NewBlock`, `Pack`, `pack`, `Interupt`, `Finalize` | bodies agree with the state, `Pack` ends, headers chained |
| Blocks and chain, `src/blockchain/block.go` | `Blockchain.CurrentHeader` | `NewHeader`, `NewBlock`, `Header.Hash` | parent hash is the previous header's |
| Driver, `src/main.go` | `MemDB` (an in-memory store) and the chain | `main` | calls the maker in the order it needs |
| Transactions, `src/types/*.go` | immutable but for `Time` | `From` (signature recovery) | the sender is the signer |
| Merkle Patricia trie, `src/mpt/*.go` | root node, node store | `Get`, `Insert`, `Delete`, `RootHash`, `StoreNode`, `LoadNode` | behaves as a map, deletes only what it is told to |
| Stores, `src/kvstore` | LevelDB | `Get`, `Put`, `Delete`, ... | thin wrappers |
| Scalars, `libsecp256k1/src/scalar_*` | none: values of four limbs | `add`, `mul`, `sqr`, `negate`, `inverse`, `split_lambda`, `mul_shift_var`, reads of bits | arithmetic modulo the order, no carry lost, short halves |
| Field, `field_*` | none: values of five or ten limbs with spare bits | four normalisations, `negate`, `add`, `mul_int`, `mul`, `sqr`, `inv`, `sqrt`, comparison, bytes | arithmetic modulo the prime while magnitudes are respected, one canonical form |
| Group, `group_impl.h` | none: affine and Jacobian points | doubling, four additions, negation, rescaling, conversion, decompression, tables | the group law in every special case, magnitudes within bounds |
| Multiplication, `ecmult*_impl.h` | tables of multiples; the signing context's blinding pair | `ecmult`, `ecmult_const`, `ecmult_gen`, build, blind, clear | the right multiple for every scalar, whatever the blinding |
| Signatures and keys, `secp256k1.c`, `ecdsa_impl.h`, `eckey_impl.h`, `modules/`, `ext.h` | context; the caller's key and signature objects | create, parse, serialise, tweak, combine, sign, verify, recover, ECDH | what is signed verifies and recovers, objects are valid or zeroed, no argument check trips |
| DER, `ecdsa_impl.h`, `contrib/` | none | strict and lax parsers, serialiser, private key import and export | no read beyond the input, no write before the output, one encoding per signature |
| Go binding, `src/crypto/secp256k1/secp256.go` | one context with an illegal callback that panics | `Sign`, `RecoverPubkey`, `VerifySignature`, `DecompressPubkey`, `CompressPubkey` | never panics, the recovered sender is the signer |
| Hashing, `hash_impl.h` | block buffer; HMAC's two hashes; the generator's K, V and retry flag | write, finalize, generate | the digests of FIPS 180-4, RFC 2104 and RFC 6979 |
| `src/utils`, the other Go files of `src/crypto` | none | RLP, hex, hashing | vendored from go-ethereum |

Interactions: everything is a synchronous call.  The pool calls the state
database (`Load`) to learn an account's nonce; the maker calls the pool (`Pop`)
and the state machine (`Execute`), which calls the state database; the driver
calls the pool and the maker.  The only thing made for a second goroutine is
`Interupt`, which puts a signal in a channel of capacity one.  Nothing in the
node uses the trie: `Blockchain.Statedb` is never set.

What is hard in this code is not threads but protocol.  The pool decides with
three different nonces (the account's, the last pending one, the queue's
head), which are related only by a discipline no single function states.  A
failed execution drops a transaction whose successors stay pending.  The same
box is reached through two structures.  `Execute` writes twice and never looks
at the transaction's nonce.

In the C library what is hard is numbers: carries and special cases that random
tests do not meet because their probability is 2^-32 or 2^-128, lazily reduced
values that are right only while every caller keeps within bounds no
type states, and parsers of bytes from elsewhere.  On numbers of a few bits such
cases are common, so that a model checker meets them all.

`PROJECT.json` lists these hazards, each at its line.

## 2. Modules

`TxPool` &nbsp; the pool, for any set of senders and transactions.<br>
`TxPoolProofs` &nbsp; its theorems: invariants, and what a step may do to a
transaction.<br>
`StateMachine` &nbsp; accounts and the two halves of `Execute`, as operators.<br>
`Node` &nbsp; composition: driver, maker, state machine and state database
around an instance of `TxPool`.<br>
`NodeProofs` &nbsp; its theorems: the invariant and the refinement of `TxPool`; blocks
against accounts, and money.<br>
`Sums` &nbsp; the sum of a list.<br>
`Trie` &nbsp; the Merkle Patricia trie against a map.<br>
`TrieProofs` &nbsp; its theorems.<br>
`Scalar` &nbsp; scalars, limb by limb.<br>
`Field` &nbsp; field elements, limb by limb, in both layouts.<br>
`Chain` &nbsp; addition chains, for the inverses and roots of both.<br>
`Fe` &nbsp; a field element as its residue and magnitude, for the modules above it.<br>
`Curve` &nbsp; the curve by its definition: what the code is compared with.<br>
`Group` &nbsp; the group law of `group_impl.h`, on `Fe` and `Curve`.<br>
`CurveProofs` &nbsp; lemmas about the curve: multiples, opposites, chord and tangent.<br>
`GroupProofs` &nbsp; theorems about `Group`: magnitudes, that the formulas compute
the group law, and that points are read and decompressed rightly.<br>
`Ecmult` &nbsp; scalar multiplication, on `Group`.<br>
`EcmultProofs` &nbsp; its theorems: the signing context's blinding, `ecmult_gen` and the recodings.<br>
`Secp256k1` &nbsp; keys, signatures, recovery and the Go binding's C functions.<br>
`Binding` &nbsp; the Go binding itself, on those.<br>
`Secp256k1Proofs` &nbsp; the theorems of both.<br>
`Numbers` &nbsp; lemmas about numbers that several proofs use: induction, congruences,
inverses and powers modulo a prime, Fermat's theorem, sums.<br>
`Der`, `Hash` &nbsp; encodings; hashes and nonces.  `Codec` puts them into one
specification.<br>
`MCTxPool`, `MCNode`, `MCTrie`, `MCField` &nbsp; the instances for TLC.

### TxPool

| Variable | Code |
|---|---|
| `heap` | every `DefaultSortedTxs` ever allocated by `makeNewBlock`; a box is an index, so that sharing a pointer between `pendings` and `txs` is visible |
| `pendings`, `queue`, `txs` | the fields of the same name |
| `time` | `tx.Time` of each transaction object |
| `clock` | the wall clock that `NewTx` and `CleanExpiredTxs` read |
| `nonce` | `stat.Load(a).Nonce`, 0 where `Load` returns nil |
| `inflight` | the transaction `Pop` handed out and whose execution is not over |
| `promoting` | the sender for which the `pushPendingTx`/`promoteQueueToPending` recursion is under way |

| Action | Code |
|---|---|
| `NewTx`, `NewTxStale` | `NewTx` with its three branches, and its early return |
| `promoteQueueToPending` | one round of the loop; the recursion `pushPendingTx` -> `promoteQueueToPending` -> `pushPendingTx` is a loop that takes the queue's head while it fits, and its levels end one after the other without doing anything more |
| `Pop`, `PopNil` | `Pop`, which may begin with any sender because it ranges over a Go map; `PopPendingTx(a)` is the part that is also exported |
| `CleanExpiredTxs` | the function, with unsigned subtraction of the two times |
| `IncNonce`, `Discard` | what `Execute` does to the account's nonce when it succeeds and when it fails |
| `SetClock` | the operating system's clock, set forward or back |

`sort.Slice` and `sort.Sort` are not stable, so a sort is a choice of any sorted
rearrangement.  `NewTx` cannot run between two rounds of the promotion, nor
between a `Pop` and the end of its execution: the program has one goroutine for
both.

### StateMachine and Node

`accounts` maps an address to an account or to `NoAccount`, which is where
`Load` returns nil.  `Refuses`, `Debit` and `Credit` are `Execute`'s early
returns, its first `Store` and its second; `Credit` loads the receiver in the
state the first write left, as the code does.  Costs wrap at `Word` (2^64 in
the program).

`Node` has the pool's variables except `nonce`, which is read from `accounts`
through the instance `Pool`; `pc` says where the driver and `Pack` are:

    ready --Pack--> packing --packPop--> executing --ExecuteDebit--> crediting
      ^                |                     |                           |
      +----packNil-----+                     |      packing <--ExecuteCredit
      +---------------ExecuteRefused---------+

The driver of `main.go` submits a list of transactions and makes one block;
the model's driver submits any transactions in any order between blocks and makes
`MaxBlocks` of them, always in the order `NewBlock`, `Pack`, `Finalize`, record
header.  `Pack` may be called again before `Finalize`, as after a refusal.
`MakerCurrentHeader` is the maker's private copy of the chain's header:
`NewBlockMaker` takes the chain by value, so what the driver assigns later does
not reach it.  `blocks` and `refused` are history variables.  The properties speak of
*places* (a block and a position in it), so that "how many" and "up to here" are
cardinalities of sets and need no recursion.

A header's hash is the header itself (an injective hash).

### Trie

`root` is the trie's root node, and one action stands for each call of `Insert` and
`Delete`.  `Get`'s loop and the recursions of `insert` and `delete` go down in the same
way, so the way down is written once: `Path` lists the positions, each a node and what is left of
the key, as far as `Descends` allows.  What a function does where its way ends is `Answer`,
`PutAt` or `DeleteAt`, and what it does on the way back `WithBelow` or `Shrunk`.  A node is a value: the code changes nodes in place, but each
has one parent and no other holder.  Byte slices are values too.  In `delete`,
`append(shared, ...)` may write into the array `shared` was cut from; what it
writes is the only path left below `shared`, which is what any other slice of that
array still in use holds there already, because such a slice lies on that path.
`Insert` stores the changed root and reports the store's error; `Delete` stores
nothing.  Nothing reads
the store, so it has no variable: `result` says whether it took the root.  `map`, `seen` and
`shrunk` are history variables: what a map would hold, the keys ever inserted, and
whether anything was ever deleted.

The trie has two defects (below), so "the trie is a map" is false.  The
properties that hold say how far it can be trusted: `SeparableIsMap` and
`DisjointIsMap` name the sets of keys for which it is a map, `NoWrongValue` says
that insertions can hide a key but not mix keys up, and `DamageStaysLocal` says what one more
call can do to a trie that has already misplaced keys: deleting still deletes, a deletion that fails
changes nothing, overwriting a key that `Get` finds changes no other answer, and any call loses other
keys at most, it never puts another value in the place of one that `Get` finds.  It does not say
that the other keys stay (runs `trie_merge` and `trie_last_nibble` show that they may not), and nothing
of keys that `Get` does not find before the call: a deletion that meets misplaced keys can make an
answer appear for one of them.

### Scalar and Field

Both keep the code's representation (a vector of limbs), its operations (one operator
per function, under the function's name without the prefix `secp256k1_`) and its
order of steps, and make the width of a limb a constant.  A `VERIFY_CHECK` is a
conjunct of the flag `ok`, which a property requires to stay true.  The machine is
one caller that applies any operation to a value in memory, within the
preconditions the code states, and keeps beside it the number it believes the value
to be (`val`; `va`, `vb`).

In `Scalar` the macros `muladd`, `extract` and their variants are operators on the
three-word accumulator, and `mul_512`, `sqr_512` and the reductions are the code's
straight-line lists of macro calls, run by a fold.  In `Field` the variable `build`
is the layout that `secp256.go` chooses by the machine's word: five limbs or ten; the
two products, which the code writes out, are columns followed by the code's
interleaved reduction.

An inversion is a fixed power.  What can be wrong with it is its exponent, which does
not depend on the modulus: `Chain` runs the code's squarings and multiplications on
exponents, at their real size of 256 bits, one step per line, and the runs compare
the result with the exponent of the real order and of the real prime.

### Group and Ecmult

`Fe` replaces the limbs by a residue, a magnitude and `normalized`, with the
`VERIFY_CHECK`s on them: what `Field` shows is what `Fe` assumes.  `Group` has the
formulas of `group_impl.h`; `acc` is a Jacobian point in memory on which a caller
performs any sequence of operations, and `k` the multiple of the generator it should
be.  `Ecmult` adds the tables, the recodings of scalars, the three multiplications and
`gctx`, the signing context with its comb and its blinding pair.  Scalars are integers
there; `split_lambda` rounds exactly, while `Scalar` has the code's
precomputed reciprocals.

### Secp256k1

One caller with one context, one secret key, one public key object and one signature
object.  A call's result is a record: the value returned, the object written, and
whether an argument check failed (`illegal`), on which the Go binding
panics.  A nonce function is the sequence of nonces it returns, bad ones
included.  The objects do not depend on each other, so they are explored one after
the other.  Multiplication of points is the definition in `Curve`.

### Binding

`Binding` has the variables of `Secp256k1` and actions of its own, the Go functions.  `BindingSpec` has
both callers of the library, and `inGo` says which one it is: the binding, or a C program making the calls of `Secp256k1`.

| Action | Code in `secp256.go` |
|---|---|
| `Load` | `init`: the one context, for signing and verifying |
| `Sign` | the key check, then `sign_recoverable` and its serialisation; `sig` is the 65 bytes |
| `RecoverPubkey` | `checkSignature` and `ext_ecdsa_recover`, on any 65 bytes or on what `Sign` returned; `pubkey` is the coordinates |
| `VerifySignature` | `ext_ecdsa_verify`, on any 64 bytes and any key, or on `Sign`'s bytes and the recovered key |
| `DecompressPubkey`, `CompressPubkey` | `ext_reencode_pubkey` in both directions, and the panic when compressing fails |

Bytes are arbitrary here: r and s range over all values of their 32 bytes, not only over those below
the order, and a key is any combination of length, tag, x and y.  `CompressPubkey` is given keys the binding
has decoded, or recovered; the Go code can call it with any pair of numbers.

### Der, Hash and Codec

A parser of `Der` is a function from the input to what it returns, with the greatest
index it read; the private key import also says where it copies the key to.  The machine starts from encodings, well formed or loose, and from lengths of all
ones or nearly so, and damages
them: replaces, inserts or removes a byte, or cuts.  In `Hash` one object is an
HMAC that gets its text in writes of any length, another a nonce generator that is
asked for any number of bytes any number of times; both are compared with the
standards' definitions, which the module states in a form that has neither buffers nor
retry flags.  The compression function is a constant.

## 3. Runs

| Run | Instance | What it shows |
|---|---|---|
| `pool` | 2 senders, one with nonces 1..3 at prices 1..2, 3 boxes, clock 0..1, expiry after 0 seconds | pending nonces consecutive, account behind them, nothing ready left queued, the inductive invariant of the proofs; why a pending or queued transaction may disappear, and that there is no other reason |
| `node` | 2 accounts, 4 transfers, 2 blocks, `Word` 16 | accounts agree with blocks, supply conserved, packing in nonce order, `Pack` returns; and every behaviour of the node is one of the pool's specification, so the discipline `TxPool` assumes of its surroundings is the one the node keeps |
| `trie` | 6 keys of up to 2 bytes over nibbles 0 and 1, 2 values, 3 keys deletable | a map for keys of which no two part at a last nibble, and for keys without a common first nibble; never another key's value; a call loses other keys at most |
| `scalar` | four limbs of 3 bits, order 4021 | every operation is arithmetic modulo the order, reads of limbs agree with the number, `split_lambda` is short, the inversion's exponent is right |
| `field` | five limbs of 6 bits and ten of 3, moduli near 2^29, 3 calls | every sequence of calls computes modulo the prime within its magnitudes; the normalisations and the zero tests agree; reads are canonical; the exponents of inverse and root are right |
| `curve` | a curve of 31 points over the field of 43 elements | the group law, all multiplications, recodings and blindings; magnitudes |
| `secp256k1` | the same curve, all nonces, keys and tweaks at the borders, for a C program; for the binding also every r and s of the byte range for recovery, every key of every tag and length, borders of r and s for verification | for both callers: tweaked pairs stay pairs, what is signed verifies and recovers, recovery is exact, objects are points or zeroed; and the binding does not panic |
| `codec` | bytes of 5 bits, integers of 2, one edit; hash blocks of 4 bytes, digests of 2 | parsers stay in the bounds of their input and output, and strict DER is canonical; HMAC and nonces are the standards' |

Four more runs end in a violation, each of a sentence the repository
writes about itself:

| Run | The sentence | What happens |
|---|---|---|
| `chain_not_linked` | blocks form a chain by hash (`README.md:38`) | every block's parent is the genesis header: the maker works on a copy of the chain that nobody updates |
| `same_nonce_twice` | a second transaction with the same nonce is replaced or rejected (`txpool/txpool_test.go:227`) | after a refusal the account's nonce lags the pool, so an executed transaction is accepted and executed again |
| `trie_last_nibble` | Get returns what was inserted (`mpt/mpt_test.go:27`) | a key with one nibble left is put into the branch's own slot, so keys that differ in the last nibble only are lost |
| `trie_merge` | delete merges the paths of an extension and its next node (`mpt/trie.go:255`) | the leaf keeps the part of its key that the extension took over, so the remaining key is lost |

More disagreements were seen in reading and have no run.

- `maker/blockmaker.go:68` and `:95` say that `Pack` ends at a timeout or when
  `Interupt` is called; its loop reads neither the channel nor `Duration`.
- `README.md:51` says that packing goes by gas price; `Pop` ranges over a map and never
  uses the sorted list.
- The comment at `txpool/default.go:13` wants every price in a box to be at least the
  first one's; a pop or a replacement changes the first one only, so a box of prices
  1, 2, 1 becomes 2, 1.
- `LoadNode` cannot bring back a node with children, because `json.Unmarshal` cannot
  decode an object into the interface type `Node`.
- The comment above `secp256k1_wnaf_const` (`ecmult_const_impl.h:45-49`) says that the number
  is the sum of the words, and that the number of words set, `(WNAF_BITS + w - 1) / w`, is
  returned.  The words represent the number plus a skew of 1 or 2, one word more is set, and the skew is
  returned (`:118`).  `ecmult_const` relies on what the code does, so the comment is wrong.

### Bounds, and why they are enough

- `MaxBoxes` bounds how many boxes are ever allocated, the one thing in the pool
  that grows for ever.  `NewTx` asks for a free box for itself and for every
  queued transaction of its sender, so the bound never cuts a promotion short.
  Three boxes give a sender several boxes at once, emptied boxes, and
  boxes of more than one transaction.
- Three nonces allow a gap with two queued ones behind it, promoted in one go; two
  prices give a box's price, a lower and a higher one.
- In `pool` the clock passes the expiry time: a queued transaction can be fresh,
  expired, and stamped after the present reading.  `Word` is only assumed larger
  than `ExpireSec + MaxClock`, which any real clock satisfies.
- `MaxBlocks` is 2: what goes wrong between blocks needs a second one.
- In `Node.cfg`, `Word` is 16: one of the transfers has a cost of 19, which
  wraps to 3 and passes the balance check.  `SupplyConserved` therefore speaks
  of behaviours in which no packed cost overflows, and of databases whose
  balances add up to less than `Word`: otherwise a credit could wrap as well.
- Nonces are naturals: a uint64 nonce would have to be reached by 2^64
  transactions or be set in the database by hand.
- The trie's nibbles are 0 and 1 instead of 0 to 15, and
  keys have at most two bytes: enough for a key to be another's prefix, and for two
  keys to part at the first, an inner and the last nibble.  The state spaces are finite
  without a bound on the number of calls; only some keys are deletable so
  that more keys fit.  Values are declared symmetric: nothing in the trie compares them.
- Addresses are not declared symmetric, since the transactions name them
  individually.
- Scalars: the order keeps its shape, 2^(4W) minus a number of three limbs of
  which the highest is 1, so that all three reductions have something to do.  The
  reachable scalars are nearly all residues, and the second operands are at the
  borders.
- Field: the primes become moduli of the same shape (2^256 - 2^32 - 977 has a short top limb and
  a complement of one limb of 52 bits or two of 26).  They need not be prime: no operation
  in the machine but the chains depends on it.  The largest magnitudes (`mag`) and
  products (`mul`) follow from the widths; they are the point up to which a toy
  word holds, as 2048 and 8 times 8 are in the code.  That the real 64-bit words hold
  them (the `VERIFY_BITS` of the products) is not shown.  `MaxSteps` is 3: two
  operations that grow a value and one that must cope with it.
- The curve: y^2 = x^3 + 7 like the real one, of prime order below the prime,
  with the endomorphism, so that some points have an x above the order and the
  degenerate case of the unified addition exists.  Accumulators reach every multiple.
  On 31 points the comb and its blinding can meet infinity, which on the real curve
  nobody can bring about; `CombAssumption` excludes it.
- Signatures: every nonce from 0 to beyond the order, keys and tweaks that are zero,
  in range, at the order and above.  No point has an x that is 0 modulo
  the order (`BytesAssumption`), as nobody can exhibit one on secp256k1: the signer
  only asserts it.  It also asserts that x is below the order, yet computes the recovery id for
  the other case; the model follows the build without assertions, which `secp256.go` makes.
- The binding: r and s of 51 values each (0 to `B32Max`), so below the order, at it and above the prime; recovery tries
  every pair with every last byte (4 stands for all that are no recovery id).  Verification tries border values of
  r and s with every key: tags 2, 3, 4, 6, 7 and one for all others, every x and y, the two lengths
  that are looked at and one for all others.
- DER: with bytes of 5 bits and a `size_t` of two, short and long lengths and leading
  zeros all fit, and so do lengths whose sum with the bytes still to be read wraps, or which are negative
  as an `int`: `HugeLength` starts from them, as the first length and as an integer's.  One edit of any kind at any place, on every starting encoding.
- Hash: blocks of 4 bytes with a length of 1, digests of 2, so that texts end
  at every position of a block.
- `CHECK_DEADLOCK FALSE` stands where the model's caller simply stops at a bound or
  after a panic: `field`, `curve`, `secp256k1` and `codec`.

### Fairness

`FairSpec` has weak fairness of `pack` (all steps of `Pack`'s loop) and of
`promoteQueueToPending`: a call that has begun keeps running, which is what a
goroutine with no blocking operation in it does.  No fairness is assumed of the
driver, of the clock or of `Interupt`.  `PackReturns` is the only liveness
property: the loop ends because every round takes a transaction out of the
pool and nothing puts one in while it runs.

Deadlock is checked in the runs of the node, the trie and the scalars.
The modules of the C library have no fairness and no liveness: a
library call is a function.

## 4. Proofs

All theorems hold for every value of the constants that satisfies the named
assumptions of the modules.  `PROJECT.json` lists them; this section says along which
arguments they go.

### The pool (`TxPoolProofs`)

The first result is `Spec => []PoolInv` (theorem `PoolInvariant`) and from it
each of the pool's invariants, for every `Address`, `Tx`, clock and bound: the ones the run `pool`
checks (`PendingConsecutive`, `AccountBehindPending`, `NoReadyTxQueued`) and the parts of
`PoolInv` that are of use alone (types, `BoxesExclusive`, `FiledBySender`, `QueueOrdered`,
`BoxesListed`).  The
assumptions are `TxAssumption` (a transaction has a sender, a nonce and a price;
the nil values are not among them) and `ClockAssumption` (the numbers are
naturals).

None of the properties is inductive alone.

- `PendingConsecutive` is kept by `NewTx` because it compares with the last
  pending nonce, and by `Pop` because a box that is emptied leaves; but
  replacement writes through a pointer, so it needs `BoxesExclusive`: otherwise a
  write to one sender's box might change another's.
- `AccountBehindPending` must speak of the transaction in flight too: between
  `Pop` and `IncNonce` the first pending nonce is one past the one in flight, and
  that is what makes the account still behind once its nonce goes up by one.
- `NoReadyTxQueued` is about `ReachedNonce`, which falls back to the nonce in
  flight when the last pending transaction has been popped.  It is weaker by one
  for the sender being promoted, and `PromotionAlone` says that such a
  sender has a pending box and that nothing is in flight, so that the end of the
  loop restores the stronger form.
- `QueueOrdered` is strict: `addQueue` never has two of a nonce, so a
  rearrangement that is sorted is strictly sorted.

The proof goes in two halves.  `PendingInv` (types, boxes, filing, nonces, account,
price list) is preserved by every action without a word about the queue beyond its type
and whose it is;
the queue's part (`QueueFiled`, `QueueOrdered`, `NoReadyTxQueued`) follows action by
action from `PendingInv` before and after the step.  Lemmas about `Replace`,
`Rearrangements` and `Selections` say what replacing, sorting and filtering leave
unchanged, and each is cited by name.

The second half of the module has the two action properties, `NoPendingTxIsLost` and
`NoQueuedTxIsLost`.  Both need the invariant in the state before the step: that what
`Pop` takes is its sender's smallest nonce is `PendingConsecutive`, and that a
replacement in one box does not change what is pending elsewhere is `BoxesExclusive`.

### The node and its ledger (`NodeProofs`)

`NodeInv` is the type invariant, `PackControl` (a transaction is in flight exactly
while `pack` executes one, and `Pack` has a block to fill) and the pool's `PoolInv` read
through the instance.  `ImplementsPool` is the refinement `Spec => Pool!Spec`: with the
accounts' nonces for the pool's, `ExecuteDebit` is the pool's `IncNonce`, `ExecuteRefused`
its `Discard`, `ExecuteCredit` leaves it alone (it is the step in which the
receiver's nonce could have been overwritten by a stale copy, in a transfer to oneself),
and every other step is the pool's action of the same name or a stutter.  The pool's
step lemmas therefore apply to the node, and `PoolInv` is not proved twice.

Three properties relate the state database to the blocks.

- `NoncesCountThePacked`: the count of a sender's places grows by one in
  `ExecuteCredit`, which appends to the body, while its nonce grew in `ExecuteDebit`;
  the summand for `crediting` bridges the two.  `NewBlock` and `Finalize` move bodies
  without changing places.
- `SendersPackedInSequence` needs more than itself (`LineInv`): for a sender never
  refused, account, transaction in flight and pending transactions follow each other
  without a gap, an equality where the pool by itself knows only an inequality; and
  while the credit is outstanding the account already has the nonce in flight.
- `MoneyIsConserved`: the sum over accounts changes in one or two entries (`Numbers`:
  what a `Total` becomes when an entry changes or one is appended); a balance is at most
  the total, so a credit does not wrap if the total is below `Word`.

The assumption is `NodeAssumption`: finitely many accounts, the first accounts of
the right type, nil values that are no values.

### The trie (`TrieProofs`)

The four properties of the run `trie` are proved for any keys, values and radix.  A trie is
a finite tree, but nothing in the model says so, and no induction over trees is used.
Instead `Sound(node, what)` says of a node that there is a set of nodes
it belongs to, each of the right shape, whose children belong to the set as well (the set
of nodes below it, for one).  Everything else is induction over the length of a key,
because every step down takes a nibble.

- *Shape.*  A branch has a slot for each nibble and one of its own, which holds a
  leaf or nothing; an extension has a path that is not empty and something below it.  `what`
  adds that a branch has a value of its own or two children ("crowded"), and that below every node there is
  a key that `Get` finds ("live").  The first survives everything (`Firm`), the second only
  while no key is lost.
- *Insertion.*  `Effect` says what an insertion does to all answers at once: the
  value is found under `a`, what was found under `b` is now found under `c`, and nothing else
  changes.  `a` is the key, or the key short of its last nibble where another key parts from it there (the
  first defect), and `b` and `c` likewise for the leaf that was split.
- *`NoWrongValue`.*  What loses a nibble is found under an odd number of nibbles,
  and no key has an odd number (`Whole`); it never becomes a leaf again that could be moved once
  more.
- *`SeparableIsMap`, `DisjointIsMap`.*  While no two keys part at a last nibble, `a` is the key and
  `c` is `b`: what is found is what the map holds (`Exact`).  That another key parts from it is
  what "live" provides: there is a key below the node to compare with.  With deletions
  it is so if all keys differ in the first nibble: the root is then nothing, a leaf or a branch of leaves
  (`Flat`), and no path is ever merged.
- *`DamageStaysLocal`* needs the shape alone.  For a deletion `Clean` says that the new node is
  sound, does not answer for the key, and is the old one if the call failed.  It must add
  that a leaf left over is not one which the second defect would make readable under the deleted
  key again, and that a deletion which leaves a leaf, or nothing, loses no other key (`Keeps`): an
  extension above takes the leaf's path over, and only the one key whose rest is the leaf's path twice
  is then read there.  Had that key been found before, the leaf's value would be
  a wrong one for it; but as nothing was lost below, it was not found.  For an insertion everything is in `Effect`: `a`, `b` and `c` are the
  key when it overwrites; otherwise nothing was found under `c`, or `c` is `b`, and `a` is the key or has an odd
  number of nibbles.

The inductive invariant, `TrieInvariant`, is the conjunction of these, each under the condition
on keys and deletions under which it holds.

### Signatures (`Secp256k1Proofs`)

`SecpInv` says that the key object is zeroed or a point, that the signature object is
one, and that a signature made here was made by the signing equation from the recorded
key (`MadeHere`).  It is inductive for the calls of a C program.  The Go functions keep a stronger
invariant, `BindingInv`: nothing has panicked, the coordinates at hand are a point's or nil, and
`Sign`'s bytes satisfy the signing equation for the key at hand.  `CallersInvariant` has both, each for its caller, and each
property follows from it in the state alone:
`PairsStayPairs`, `SignaturesVerify`, `RecoveryExact`, `EncodingsAreKeys`, `BindingIsTotal`.

For `BindingIsTotal` every call of the binding is shown not to panic for *all* bytes:
r and s are reduced or refused by the parser (`ParsedSignature`), a key is refused or a point (`PointBytes`), and only
what was parsed is passed on, so that no check of an argument can fail.  `SendersAreSigners` says what the node's reading of a sender
rests on: the key recovered from `Sign`'s bytes is the signer's, and verifies them in both encodings.

The argument behind the second and the third is algebra modulo the order.  A
signature `(r, s)` *explains* a point `R = kG` for a key `xG` if `s k = m + r x`.
`VerifiesIff` and `RecoversIff` reduce the two computations, with their
inverses and multiples, to that equation; there are four candidates for `R` (x is `r` or `r` plus
the order, y even or odd), and `XMatches` and the four recovery ids go through the same
four.  Negating `s` exchanges `R` and `-R`, which is why the signer flips the id's parity.

The group is not proved to be one: associativity of the chord-and-tangent law is a classical
theorem and no property of this code.  `GroupLaw` in `Curve` assumes that adding
multiples of the generator adds the factors and that every point is a multiple, and TLC evaluates it on the
curve of the runs.  From it, from the primality in `CurveAssumption` and from
`Numbers` (inverses modulo a prime, by induction) everything else is derived, in
`CurveProofs` as far as `GroupProofs` needs it too.

### The group law (`GroupProofs`)

`MagnitudesAlwaysHold` is about the machine of `Group` alone (`GroupSpec`): the
accumulator, any group operation on it any number of times, any operands with the magnitudes callers
present.  The inductive invariant, `GejFine`, is the one a reader of the comments in
`group_impl.h` would want written down: x within magnitude 6, y within 4, z within 2,
and no check failed.  It is stronger than what any single comment promises: the
doubling leaves x at 6, the constant-time addition y at 4, and each operation must
accept what each other leaves.  One lemma for each field operation
says which magnitude comes out, one for each group operation that the bounds are
kept.  Without the normalisation in `gej_neg` the proof fails in the lemma about it, as
the run `curve` fails with that mutant.

`AccAlwaysMultiple` says that the same machine computes the group law: after any
sequence of doublings, additions (by the three variable-time functions or the
constant-time one), negations, rescalings, conversions and endomorphisms, the
accumulator reads as the multiple of the generator that the operations' names promise.
The inductive invariant, `AccStands`, is `GejFine` together with `Stands`: the flag is set and the
multiple is infinity, or there is a scale `z` that `P` does not divide, and a
point `(p1, p2)`, with X, Y and Z congruent to `p1 z^2`, `p2 z^3` and `z`.  `AccIsMultiple`
alone is not inductive: it says nothing of the coordinates when the flag is set, and a Z
that is zero without it would be read as the point (0, 0).

- Every formula is an instance of one lemma, `LineFormula`: if the slope of the line
  through two points is the fraction `n / h`, then at the scale `h e` the third
  point has coordinates `LineX` and `LineY`, polynomials without a division.  The chord
  has `h = q1 - p1`, the tangent `h = 2 p2`; `e` is what the Z coordinates contribute.
- The registers of a formula are followed by `Val` (the residue of an element is that
  of an integer), one lemma for each field operation; that the integers are those of
  `LineX` and `LineY` is then a polynomial identity.
- The branches are decided by residues: `h` is zero exactly if the x are equal, `i` exactly
  if the y are.  Equal points are doubled, opposite ones give infinity; no point
  has order two because the order is odd, so the doubling's `h` is never zero.
- The constant-time addition has `h = p2 + q2`, for which the curve's equation is needed
  (`UnifiedSlope`, `CubesAndSquares`).  `RegularSlope` shows that its `h` is zero without
  its numerator being so only for opposite points, and `DegenerateSlope` that the alternative the
  code moves in when both are zero, `h = p1 - q1` and `n = 2 p2`, is the chord, or zero for opposite
  points again.
- `ge_mul_lambda` multiplies by `Lambda` because it does so to the generator
  (`GroupAssumption`) and is a homomorphism (`EndoAdd`): the slope of
  the image is the slope times the square of `Beta`, whose cube is 1.

`PointsAlwaysReadTrue` says that what is read of the accumulator is true of its point:
validity, comparison with an x, whether y is a square, and that decompression finds
the point again from its x and the parity or the quadraticity of its y.  It follows from
`AccStands` in the state alone, once it is known what the fixed power in `fe_sqrt` computes.
`Fermat` is proved in `Numbers` by counting: multiplication by `a` divides the residues other
than zero into rounds of equal size, the order of `a`, which therefore divides `P - 1`.  Hence the
fourth power of `fe_sqrt(a)` is the square of `a` (`FourthPower`): the candidate's square is `a` or `-a`,
and it is `a` if `a` is a square, because -1 is none for a prime that is 3 modulo 4.

The tables of `Group` (`ge_set_all_gej_var` and the others) are not actions of this
machine.

### The comb (`EcmultProofs`)

`BlindingAlwaysCancels` says that after any sequence of building, seeded and unseeded
blindings and clearing, the starting point of a built context is minus its blinding value
times G and no check failed on the way to it; `GenAlwaysExact` that in every such state
`ecmult_gen` returns `n * G` for every scalar `n`.  The invariant is `ContextSound`: a built
context `Cancels`, which is the first property with `Stands` for the value read, and
`GejFine` for the magnitudes.  It is inductive because a new pair is computed by the old one
(`ReblindedCancels`), so everything rests on one lemma, `GenStands`: a pair that cancels gives
the right multiple, for any number.  That is the code's whole path, for a comb of any size:

- `RowOfStands`, `PrecJStands`: entry `i` of row `j` is `EntryLog(j, i)` times G, that is
  `i * 2^(GenBits * j)` plus the row's offset.  The offset is a multiple of nums, whose logarithm
  is only known to exist (`NumsLog`).
- `InvAllInverts`: prefix products and one inversion give the inverse of every Z;
  `AllAffine` makes the table affine with them, `StorageKeeps` that storing it loses nothing.
- `CombSumNext`: after `j` rows the point is the start plus `g` modulo `2^(GenBits * j)`,
  plus what is left of the offsets, `2^j - 1` times nums, and nothing of it after the last row.

The model's recursive functions run over the steps of a loop: `LoopExists` shows that such
a function exists, by induction over the number of steps.
The assumptions are those of `Group`, the sizes in `EcmultAssumption` (the comb covers the order; nums is a point, as
the code checks when it builds the context) and `CombAssumption` (no entry of the comb is infinity).

### The recodings (`EcmultProofs`)

`RecodingsAlwaysExact` states `RecodingsExact` for every scalar, for scalars and windows of any width.  For
`ecmult_wnaf` that is what its comment promises.  For `wnaf_const` it is what its caller needs and the code does,
digits that represent the number plus the skew; its comment promises the number itself and another return value
(see section 3).  The proof shows it of every number
below the order (`RecodingsAreExact`), so the invariant is only that `k` is one.

- `ecmult_wnaf`.  The invariant of its loop is `WnafSound`: the digits so far are worth the
  bits below the next position to read, minus the carry (`Adds`); each is odd, in range and a window
  from the next (`Spaced`); a carry means that those bits are at least half of what they could be
  (`Carried`), which is why none is left at the end, the code's `CHECK(carry == 0)`; and they
  reach at least up to the last digit (`Reaches`), which bounds the positions used.  A step at position
  `b` waits, skips or takes a window: `WnafWaits`, `WnafSkips`, `WnafTakes`.
- `wnaf_const`.  In `ConstSound` the digit to come is odd and in range, and a step keeps the
  sum of the emitted digit and a window times the rest (`ConstStepSound`).  The words are empty after the last step,
  the code's `VERIFY_CHECK`, as the number is shorter than the windows together (`ConstEmpties`, `WordsCover`).
  `SkewExists` is the choice of sign and skew before the loop.
- That the halves are short enough for it is `SplitShort`: rounding to the nearest leaves a
  combination of the two basis vectors with factors of at most a half, and `EcmultAssumption` says the
  vectors are short.  The rounding is off the exact quotient by less than one part in the order,
  and integers leave no room for that (`HalfBound`).

A lemma about sums of digits, `HornerChanges`, carries both: changing one digit
changes the sum by that much times the power of its place.

Besides the sizes, `EcmultAssumption` says of the constants `g1` and `g2` are derived from that the basis vectors lie in
the lattice, that they are short, `2 * B2 + MinusB1 <= 2^(HalfBits + 1)`, and that they span it,
`B2^2 + B2 * MinusB1 + MinusB1^2 = Order`.  All hold for secp256k1's constants in
`scalar_impl.h`, and TLC evaluates them for the curve of run `curve`.

### Induction

The provers cannot instantiate a theorem with a predicate parameter.  Where a proof
needs induction over numbers, `Numbers` states it about a *set* of numbers
(`NatInductive`, `LeastNatural`), and sums are recursive functions rather than recursive
operators.  That is enough for sums over lists, for inverses and powers modulo a prime, for
the point sum of `ec_pubkey_combine` and for the ways down a trie.

### Only model-checked

- `PackReturns`: liveness is out of the prover's reach.
- `Der` and `Hash` have recursive operators.
- `Chain`, `Scalar` and `Field`: straight-line limb programs run by a fold; what a fold computes for
  every input is induction over data.
- `ecmult` and `ecmult_const`, the loops over the recodings: only the recodings are proved.

## 5. Not modelled

- In `Node`, signatures: a transaction carries its recovered sender.  The Go code
  around the C library (`crypto.go`, `signature.go`, `ScalarMult` and the big-integer curve of `curve.go`, the
  normalisation of V in `types/transaction.go`) is not modelled, but for the functions of `secp256.go`
  (`Binding`), of which only the early returns for a wrong length are left out: they reach nothing.
- Of libsecp256k1: assembly and the bignum library, which `secp256.go` does not
  select; `scalar_8x32_impl.h`, the same scalars on eight limbs, for 32-bit machines;
  the compression function of SHA-256; that 64-bit and 128-bit words hold the
  intermediate values of a field product at the real width; points off the curve
  given to `ext_scalar_mul`, which the Go code may pass and for which only the
  formulas, not the group, say what comes out; tests, benchmarks and generators.
- RLP: an account is taken to be decoded as it was encoded.
- A failing store: `MemDB.Put` cannot fail.  `StatDB.Store` would log a failure
  and go on.
- `ChainConfig.Duration`, `Coinbase` and `Difficulty`: no code reads them but to copy them.
- `Pool.NotifyTxEvent` is empty; the pool's field `all` is never used.
- The LevelDB wrapper, of which each function is one call, and the trie's
  `LoadNode`, `DeserializeNode`, `hexPrefix`, `toHex` and `fromHex`, which nothing calls.
- Root hashes as such: a hash is taken to be injective, and no property compares
  the hashes of two tries.
- Data races of a driver that uses the pool from several goroutines: the pool
  has no lock, and this driver does not do it.

## 6. Plan

Done: the pool, the node, the trie and the C library from limbs to encodings,
with their runs; the theorems of section 4.  Next, in this order:

1. Proofs of `ecmult` and `ecmult_const`: the tables of odd multiples, computed on an
   isomorphic curve, and the loops over the recodings, whose digits are proved exact.
2. `Node` variants: a store whose `Put` fails, and a driver that calls `NewBlock`
   while a block is under construction.
3. Pure functions: the normalisation of V in `types/transaction.go`, and RLP's
   encoding of integers, strings and lists with the canonical form its decoder insists on.
