-------------------------------- MODULE Hash --------------------------------
(***************************************************************************)
(* libsecp256k1's hash_impl.h: the block buffering and the padding of      *)
(* SHA-256, HMAC built on it and the RFC 6979 generator built on HMAC, with *)
(* secp256k1.c's nonce function.  The compression function is a constant:  *)
(* what is modelled is which bytes reach it, in which blocks and order.    *)
(* BlockSize, DigestSize and LengthSize are the 64, 32 and 8 of the code.  *)
(***************************************************************************)
EXTENDS Integers, Sequences, SequencesExt, Bitwise

CONSTANTS
    BlockSize, DigestSize, LengthSize,
    IV,              \* the initial chaining state
    Compress(_, _),  \* secp256k1_sha256_transform
    Output(_),       \* a chaining state as DigestSize bytes
    HmacKeys,        \* the keys of HMAC
    WriteLens,       \* how many bytes are written at once
    OutLens,         \* how many bytes are asked of the generator at once
    NonceArgs,       \* the arguments of the nonce function
    MaxText, MaxDraws

ASSUME HashAssumption ==
    /\ {BlockSize, DigestSize, LengthSize} \subseteq Nat \ {0}
    /\ DigestSize <= BlockSize /\ LengthSize < BlockSize
    /\ 8 * (MaxText + 2 * BlockSize) < 256 ^ LengthSize

VARIABLES
    hmac,       \* a secp256k1_hmac_sha256_t: its inner and outer hashes
    key, text,  \* ghosts: its key and what was written to it
    rng,        \* a secp256k1_rfc6979_hmac_sha256_t
    args,       \* ghost: what its seed was made from
    drawn       \* ghost: the answers of generate, in order
hashVars == <<hmac, key, text, rng, args, drawn>>

Bytes(n, b) == [i \in 1 .. n |-> b]

-----------------------------------------------------------------------------
(* SHA-256 *)

sha256_initialize == [s |-> IV, buf |-> Bytes(BlockSize, 0), bytes |-> 0]

\* memcpy(buf + at, data, Len(data)): what is beyond stays.
Copy(buf, at, data) ==
    [i \in 1 .. BlockSize |-> IF i - at \in DOMAIN data THEN data[i - at] ELSE buf[i]]

\* The loop of write: as long as a whole block is there, the buffer is filled
\* and compressed; the rest waits at the start of the buffer.
RECURSIVE Absorb(_, _, _)
Absorb(h, bufsize, data) ==
    LET room == BlockSize - bufsize
    IN  IF Len(data) < room THEN [h EXCEPT !.buf = Copy(@, bufsize, data)]
        ELSE LET full == Copy(h.buf, bufsize, SubSeq(data, 1, room))
             IN  Absorb([h EXCEPT !.buf = full, !.s = Compress(@, full)],
                        0, SubSeq(data, room + 1, Len(data)))

\* bufsize is taken before the count moves on.
sha256_write(h, data) ==
    Absorb([h EXCEPT !.bytes = @ + Len(data)], h.bytes % BlockSize, data)

\* sizedesc: the number of bits, the highest byte first.
SizeDesc(bytes) ==
    [i \in 1 .. LengthSize |-> ((8 * bytes) \div 256 ^ (LengthSize - i)) % 256]

\* Mutant: the padding never goes over into a further block.
PadLengthOneBlock(bytes) == BlockSize - LengthSize - (bytes % (BlockSize - LengthSize))
\* 1 + ((119 - bytes % 64) % 64) bytes of padding.
PadLength(bytes) == 1 + ((2 * BlockSize - LengthSize - 1 - (bytes % BlockSize)) % BlockSize)

\* The digest; the hash is not used again before it is initialised.
sha256_finalize(h) ==
    Output(FoldLeft(sha256_write, h,
                    <<<<128>> \o Bytes(PadLength(h.bytes) - 1, 0), SizeDesc(h.bytes)>>).s)

-----------------------------------------------------------------------------
(* HMAC *)

Filled(k) == k \o Bytes(BlockSize - Len(k), 0)

\* The digest of a sequence of writes to a new hash.
Digest(pieces) == sha256_finalize(FoldLeft(sha256_write, sha256_initialize, pieces))

\* A long key is replaced by its digest, and either is filled up with zeros.
RKey(k) == Filled(IF Len(k) <= BlockSize THEN k ELSE Digest(<<k>>))

Masked(bytes, m) == [i \in DOMAIN bytes |-> bytes[i] ^^ m]

\* The same buffer is masked for the outer and then again for the inner hash.
Keyed(opad) ==
    [outer |-> sha256_write(sha256_initialize, opad),
     inner |-> sha256_write(sha256_initialize, Masked(opad, 92 ^^ 54))]
hmac_sha256_initialize(k) == Keyed(Masked(RKey(k), 92))

hmac_sha256_write(h, data) == [h EXCEPT !.inner = sha256_write(@, data)]

hmac_sha256_finalize(h) ==
    sha256_finalize(sha256_write(h.outer, sha256_finalize(h.inner)))

\* The digest of the given pieces under key k, each written by its own call.
Hmac(k, pieces) ==
    hmac_sha256_finalize(FoldLeft(hmac_sha256_write, hmac_sha256_initialize(k), pieces))

-----------------------------------------------------------------------------
(* The RFC 6979 generator *)

\* One round of steps d to g: K from K, V and the pieces, then V from both.
NewV(g, k) == [g EXCEPT !.k = k, !.v = Hmac(k, <<g.v>>)]
Rekey(g, pieces) == NewV(g, Hmac(g.k, <<g.v>> \o pieces))

rfc6979_hmac_sha256_initialize(s) ==
    FoldLeft(Rekey,
             [k |-> Bytes(DigestSize, 0), v |-> Bytes(DigestSize, 1), retry |-> FALSE],
             <<<<<<0>>, s>>, <<<<1>>, s>>>>)

\* The loop of generate: V is renewed for every DigestSize bytes of the answer.
FillMore(d, n) ==
    LET v == Hmac(d.rng.k, <<d.rng.v>>)
    IN  [rng |-> [d.rng EXCEPT !.v = v], out |-> d.out \o SubSeq(v, 1, n)]
\* How much of the answer each turn of the loop gives: DigestSize, then the rest.
Portions(outlen) ==
    [i \in 1 .. ((outlen + DigestSize - 1) \div DigestSize) |->
        IF i * DigestSize <= outlen THEN DigestSize ELSE outlen % DigestSize]
Fill(g, outlen) ==
    LET d == FoldLeft(FillMore, [rng |-> g, out |-> <<>>], Portions(outlen))
    IN  [d EXCEPT !.rng.retry = TRUE]

\* Mutant: K is not renewed before another attempt.
rfc6979_hmac_sha256_generate_again(g, outlen) == Fill(g, outlen)
rfc6979_hmac_sha256_generate(g, outlen) ==
    Fill(IF g.retry THEN Rekey(g, <<<<0>>>>) ELSE g, outlen)

rfc6979_hmac_sha256_finalize ==
    [k |-> Bytes(DigestSize, 0), v |-> Bytes(DigestSize, 0), retry |-> FALSE]

\* The seed: key and message, then what was given of data and algorithm name.
KeyData(a) == a.key32 \o a.msg32 \o a.data \o a.algo16

\* nonce_function_rfc6979: the answer number counter of a fresh generator.
Draw(d, i) == rfc6979_hmac_sha256_generate(d.rng, DigestSize)
Draws(a, n) ==
    FoldLeft(Draw, [rng |-> rfc6979_hmac_sha256_initialize(KeyData(a)), out |-> <<>>],
             [i \in 1 .. n |-> i]).out
nonce_function_rfc6979(a, counter) == Draws(a, counter + 1)

-----------------------------------------------------------------------------
(* A caller of HMAC and a caller of the generator *)

HmacInit == \E k \in HmacKeys :
    key = k /\ text = <<>> /\ hmac = hmac_sha256_initialize(k)

\* The next n bytes of a text in which every byte differs from its neighbours.
Next37(n) == [i \in 1 .. n |-> (37 * (Len(text) + i)) % 256]
HmacWrite == \E n \in WriteLens :
    /\ Len(text) + n <= MaxText
    /\ hmac' = hmac_sha256_write(hmac, Next37(n))
    /\ text' = text \o Next37(n)
    /\ UNCHANGED <<key, rng, args, drawn>>

RngInit == \E a \in NonceArgs :
    args = a /\ drawn = <<>> /\ rng = rfc6979_hmac_sha256_initialize(KeyData(a))

RngGenerate == \E n \in OutLens :
    /\ Len(drawn) < MaxDraws /\ rng # rfc6979_hmac_sha256_finalize
    /\ LET drew == rfc6979_hmac_sha256_generate(rng, n)
       IN  rng' = drew.rng /\ drawn' = Append(drawn, drew.out)
    /\ UNCHANGED <<hmac, key, text, args>>

\* Finalising wipes the generator, which is used again from a new seed only.
RngFinalize ==
    /\ drawn # <<>> /\ rng # rfc6979_hmac_sha256_finalize
    /\ rng' = rfc6979_hmac_sha256_finalize
    /\ UNCHANGED <<hmac, key, text, args, drawn>>

RngRestart == \E a \in NonceArgs :
    /\ rng = rfc6979_hmac_sha256_finalize
    /\ args' = a /\ drawn' = <<>>
    /\ rng' = rfc6979_hmac_sha256_initialize(KeyData(a))
    /\ UNCHANGED <<hmac, key, text>>

-----------------------------------------------------------------------------
(* The definitions of FIPS 180-4, RFC 2104 and RFC 6979 *)

\* The message, a one bit, the fewest zeros that complete a block, the length.
ShaPadded(m) ==
    LET n == CHOOSE n \in 0 .. (BlockSize - 1) :
                 (Len(m) + 1 + n + LengthSize) % BlockSize = 0
    IN  m \o <<128>> \o Bytes(n, 0) \o SizeDesc(Len(m))
Block(m, b) == SubSeq(m, (b - 1) * BlockSize + 1, b * BlockSize)
Chained(m, blocks) == FoldLeft(LAMBDA s, b : Compress(s, Block(m, b)), IV,
                               [b \in 1 .. blocks |-> b])
ShaBlocks(p) == Output(Chained(p, Len(p) \div BlockSize))
Sha(m) == ShaBlocks(ShaPadded(m))

HmacKey(k) == Filled(IF Len(k) > BlockSize THEN Sha(k) ELSE k)
HmacWith(k0, m) == Sha(Masked(k0, 92) \o Sha(Masked(k0, 54) \o m))
HmacOf(k, m) == HmacWith(HmacKey(k), m)

\* The pair of K and V at the start and after each attempt, for requests of the
\* given lengths; an attempt renews V once for each digest it needs.
Renewals(n) == [i \in 1 .. ((n + DigestSize - 1) \div DigestSize) |-> i]
Renew(k, v, n) == FoldLeft(LAMBDA w, i : HmacOf(k, w), v, Renewals(n))
RfcPair(k, v) == <<k, HmacOf(k, v)>>
RfcRekey(b, m) == RfcPair(HmacOf(b[1], b[2] \o m), b[2])
RfcRetry(b, n) == RfcRekey(<<b[1], Renew(b[1], b[2], n)>>, <<0>>)
RfcState(s, lens) ==
    FoldLeft(RfcRetry,
             FoldLeft(RfcRekey, <<Bytes(DigestSize, 0), Bytes(DigestSize, 1)>>,
                      <<<<0>> \o s, <<1>> \o s>>),
             lens)
RfcAnswer(b, n) ==
    SubSeq(FlattenSeq([i \in DOMAIN Renewals(n) |->
                          Renew(b[1], b[2], i * DigestSize)]), 1, n)

-----------------------------------------------------------------------------
(* Properties *)

\* Finalising at any moment gives the digest of RFC 2104 over FIPS 180-4's
\* padding: for texts that end anywhere in a block and for keys shorter than, as
\* long as and longer than one (secp256k1_hmac_sha256_*, sha256_finalize).
MacIsRfc2104 == hmac_sha256_finalize(hmac) = HmacOf(key, text)

\* The nonce for attempt number counter is the generator's answer number
\* counter.
NonceFollowsCounter == \A i \in DOMAIN drawn :
    (\A j \in 1 .. i : Len(drawn[j]) = DigestSize)
        => nonce_function_rfc6979(args, i - 1) = drawn[i]

\* The answers of one generator, of any lengths in any order, are the attempts
\* of RFC 6979: after each, K and V are renewed once, before the next.  So
\* signing again after a rejected nonce goes on in the same sequence and never
\* returns to an earlier one (secp256k1_rfc6979_hmac_sha256_generate and its
\* retry flag, nonce_function_rfc6979).
GeneratesRfc6979 ==
    /\ \A i \in DOMAIN drawn :
           LET lens == [j \in 1 .. (i - 1) |-> Len(drawn[j])]
           IN  drawn[i] = RfcAnswer(RfcState(KeyData(args), lens), Len(drawn[i]))
    /\ NonceFollowsCounter
=============================================================================
