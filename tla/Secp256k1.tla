----------------------------- MODULE Secp256k1 ------------------------------
(***************************************************************************)
(* The signature interface of libsecp256k1 as the node uses it: keys,      *)
(* tweaks, signing, verification, recovery and the parsing of keys and     *)
(* compact signatures (src/secp256k1.c, src/ecdsa_impl.h, src/eckey_impl.h,*)
(* modules/recovery and modules/ecdh) and the functions that ext.h adds    *)
(* for the Go binding (its calls are the actions of module Binding).       *)
(*                                                                         *)
(* A point is its affine coordinates and multiplication is the definition  *)
(* (modules Group and Ecmult show how they are computed).  32 bytes are    *)
(* the number they spell.  A failed argument check calls the illegal       *)
(* callback, which the Go binding sets to panic: the call is "illegal" and *)
(* nothing after it is defined.                                            *)
(***************************************************************************)
EXTENDS Curve

CONSTANTS
    B32Max,     \* 32-byte strings spell 0 .. B32Max (2^256 - 1 in the code)
    Keys,       \* secret keys a caller loads
    Tweaks,     \* tweaks a caller applies
    Msgs,       \* message hashes
    Rs, Ss      \* the two halves of signatures received from elsewhere

\* 2^256 lies between the field prime and twice the order.  No point has x = 0
\* (on secp256k1 none exists), nor x = Order (out of reach there).
ASSUME BytesAssumption ==
    /\ B32Max \in P .. 2 * Order - 1
    /\ Keys \cup Tweaks \cup Msgs \cup Rs \cup Ss \subseteq 0 .. B32Max
    /\ \A j \in 1 .. Order-1 : Mult(j)[1] % Order # 0

VARIABLES
    ctx,        \* the context: built for signing, for verifying, in use
    seckey,     \* the caller's 32 bytes of secret key
    pubkey,     \* the caller's public key object
    sig,        \* the caller's recoverable signature object
    msg,        \* the message hash at hand
    signer,     \* the key that made sig, 0 when it came from elsewhere
    panicked    \* the illegal callback has been called

vars == <<ctx, seckey, pubkey, sig, msg, signer, panicked>>

-----------------------------------------------------------------------------
(* Scalars, points and results. *)

B32 == 0 .. B32Max
Recids == 0 .. 3
Xor(a, b) == (a # b)

scalar_set_b32(x) == [v |-> IF x >= Order THEN x - Order ELSE x, overflow |-> x >= Order]
IsHigh(s) == s > Order \div 2
Negated(s) == (-s) % Order
ScalarInverse == [s \in 0 .. Order-1 |->
    IF s = 0 THEN 0 ELSE CHOOSE t \in 1 .. Order-1 : (s * t) % Order = 1]

Points == {Mult(j) : j \in 1 .. Order-1}
Log == [q \in Points |-> CHOOSE j \in 1 .. Order-1 : Mult(j) = q]

\* The points with this x and parity: none or one (ge_set_xo_var).
Lift(x, odd) == {q \in Points : q[1] = x /\ (q[2] % 2 = 1) = odd}

\* Objects as memset leaves them.
ZeroKey == <<0, 0>>
ZeroSig == [r |-> 0, s |-> 0, recid |-> 0]

Result(ret, out) == [ret |-> ret, out |-> out, illegal |-> FALSE]
Illegal(out) == [ret |-> FALSE, out |-> out, illegal |-> TRUE]

\* pubkey_load refuses the all-zero object, by the illegal callback.
pubkey_load(q) == q[1] # 0

-----------------------------------------------------------------------------
(* Public keys as bytes: a length, a tag, x and y. *)

\* Mutant: an uncompressed key is not looked up on the curve.
eckey_pubkey_parse_any(b) ==
    IF b.size = 33 /\ b.tag \in {2, 3} THEN
        IF b.x < P THEN Lift(b.x, b.tag = 3) ELSE {}
    ELSE IF b.size = 65 /\ b.tag = 4 /\ b.x < P /\ b.y < P THEN {<<b.x, b.y>>}
    ELSE {}

eckey_pubkey_parse(b) ==
    IF b.size = 33 /\ b.tag \in {2, 3} THEN
        IF b.x < P THEN Lift(b.x, b.tag = 3) ELSE {}
    ELSE IF b.size = 65 /\ b.tag \in {4, 6, 7} THEN
        {q \in {<<b.x, b.y>>} : /\ b.x < P /\ b.y < P
                                /\ b.tag # 4 => (b.y % 2 = 1) = (b.tag = 7)
                                /\ OnCurve(q)}
    ELSE {}

Only(s, default) == IF s = {} THEN default ELSE CHOOSE q \in s : TRUE

ec_pubkey_parse(b) ==
    LET s == eckey_pubkey_parse(b) IN Result(s # {}, Only(s, ZeroKey))

eckey_pubkey_serialize(q, compressed) ==
    IF compressed THEN [size |-> 33, tag |-> 2 + (q[2] % 2), x |-> q[1], y |-> 0]
    ELSE [size |-> 65, tag |-> 4, x |-> q[1], y |-> q[2]]

ec_pubkey_serialize(q, outlen, compressed) ==
    IF outlen < (IF compressed THEN 33 ELSE 65) \/ ~pubkey_load(q) THEN Illegal(<<>>)
    ELSE Result(TRUE, eckey_pubkey_serialize(q, compressed))

-----------------------------------------------------------------------------
(* Keys. *)

ec_seckey_verify(k) == LET s == scalar_set_b32(k) IN ~s.overflow /\ s.v # 0

ec_pubkey_create(c, k) ==
    IF ~c.sign THEN Illegal(ZeroKey)
    ELSE IF ec_seckey_verify(k) THEN Result(TRUE, Mult(k)) ELSE Result(FALSE, ZeroKey)

\* Mutant: a tweak out of range is reduced.
ec_privkey_tweak_add_any(k, t) ==
    LET sum == (scalar_set_b32(k).v + scalar_set_b32(t).v) % Order
    IN  Result(sum # 0, sum)

\* The secret key itself may be out of range: it is reduced, not refused.
ec_privkey_tweak_add(k, t) ==
    LET sum == (scalar_set_b32(k).v + scalar_set_b32(t).v) % Order
        ret == ~scalar_set_b32(t).overflow /\ sum # 0
    IN  Result(ret, IF ret THEN sum ELSE 0)

ec_privkey_tweak_mul(k, t) ==
    LET f   == scalar_set_b32(t)
        ret == ~f.overflow /\ f.v # 0
    IN  Result(ret, IF ret THEN (scalar_set_b32(k).v * f.v) % Order ELSE 0)

\* An overflowing tweak is noticed before the key is loaded; the object is
\* zeroed whenever the call fails.
TweakedKey(c, q, t, j) ==
    IF ~c.verify THEN Illegal(q)
    ELSE IF scalar_set_b32(t).overflow THEN Result(FALSE, ZeroKey)
    ELSE IF ~pubkey_load(q) THEN Illegal(ZeroKey)
    ELSE LET s == Mult(j) IN Result(s # Inf, IF s = Inf THEN ZeroKey ELSE s)
ec_pubkey_tweak_add(c, q, t) == TweakedKey(c, q, t, Log[q] + t)
ec_pubkey_tweak_mul(c, q, t) == TweakedKey(c, q, t, Log[q] * t)

\* The sum of public keys, added one by one to infinity.
PointSum(qs) ==
    LET sum[i \in 0 .. Len(qs)] == IF i = 0 THEN Inf ELSE AffineAdd(sum[i-1], qs[i])
    IN  sum[Len(qs)]
ec_pubkey_combine(qs) ==
    IF qs = <<>> \/ \E i \in DOMAIN qs : ~pubkey_load(qs[i]) THEN Illegal(ZeroKey)
    ELSE LET s == PointSum(qs) IN Result(s # Inf, IF s = Inf THEN ZeroKey ELSE s)

\* Multiplication by a secret in constant time, for the Go binding and for ECDH.
\* The point's bytes are taken modulo P; what is hashed is its compressed form.
ext_scalar_mul(b, k) ==
    IF ~ec_seckey_verify(k) THEN Result(FALSE, b)
    ELSE Result(TRUE, Mult(k * Log[<<b[1] % P, b[2] % P>>]))
ecdh(q, k) ==
    IF ~pubkey_load(q) THEN Illegal(<<>>)
    ELSE IF ~ec_seckey_verify(k) THEN Result(FALSE, <<>>)
    ELSE LET s == Mult(k * Log[q]) IN Result(TRUE, <<2 + (s[2] % 2), s[1]>>)

-----------------------------------------------------------------------------
(* Signing. *)

\* Mutant: the recovery id is not flipped when s is negated.
ecdsa_sig_sign_unflipped(sec, m, non) ==
    LET q == Mult(non)
        r == scalar_set_b32(q[1])
        s == (ScalarInverse[non] * (r.v * sec + m)) % Order
    IN  [ret |-> s # 0, r |-> r.v, s |-> IF IsHigh(s) THEN Negated(s) ELSE s,
         recid |-> (IF r.overflow THEN 2 ELSE 0) + (q[2] % 2)]

\* One attempt with one nonce.  r is the nonce point's x modulo the order; the
\* recovery id records the overflow and the parity of y; s is made low.
ecdsa_sig_sign(sec, m, non) ==
    LET q    == Mult(non)
        r    == scalar_set_b32(q[1])
        s    == (ScalarInverse[non] * (r.v * sec + m)) % Order
        odd  == Xor(q[2] % 2 = 1, IsHigh(s))
    IN  [ret |-> s # 0, r |-> r.v, s |-> IF IsHigh(s) THEN Negated(s) ELSE s,
         recid |-> (IF r.overflow THEN 2 ELSE 0) + (IF odd THEN 1 ELSE 0)]

\* The nonce function is called with counter 0, 1, 2, ... until a nonce is in
\* range, not zero and gives a signature, or until it fails: nonces is what it
\* returns, and it fails after the last.
Attempt(sec, m, nonce) ==
    LET n == scalar_set_b32(nonce)
    IN  IF n.overflow \/ n.v = 0 THEN [ret |-> FALSE] ELSE ecdsa_sig_sign(sec, m, n.v)
Successes(sec, m, nonces) == {i \in DOMAIN nonces : Attempt(sec, m, nonces[i]).ret}
FirstSignature(sec, m, nonces) ==
    LET i == Min(Successes(sec, m, nonces))
        a == Attempt(sec, m, nonces[i])
    IN  IF Successes(sec, m, nonces) = {} THEN Result(FALSE, ZeroSig)
        ELSE Result(TRUE, [r |-> a.r, s |-> a.s, recid |-> a.recid])

ecdsa_sign_recoverable(c, m, k, nonces) ==
    IF ~c.sign THEN Illegal(ZeroSig)
    ELSE IF ~ec_seckey_verify(k) THEN Result(FALSE, ZeroSig)
    ELSE FirstSignature(k, scalar_set_b32(m).v, nonces)

\* A plain signature has no recovery id.
Plain(g) == [r |-> g.r, s |-> g.s]
ecdsa_recoverable_signature_convert(g) == Plain(g)
PlainResult(f) == [f EXCEPT !.out = Plain(@)]
ecdsa_sign(c, m, k, nonces) == PlainResult(ecdsa_sign_recoverable(c, m, k, nonces))

-----------------------------------------------------------------------------
(* Compact signatures. *)

ecdsa_recoverable_signature_parse_compact(r, s, recid) ==
    IF recid \notin Recids THEN Illegal(ZeroSig)
    ELSE IF scalar_set_b32(r).overflow \/ scalar_set_b32(s).overflow
    THEN Result(FALSE, ZeroSig)
    ELSE Result(TRUE, [r |-> r, s |-> s, recid |-> recid])

ecdsa_signature_parse_compact(r, s) ==
    PlainResult(ecdsa_recoverable_signature_parse_compact(r, s, 0))

ecdsa_signature_serialize_compact(g) == <<g.r, g.s>>
ecdsa_recoverable_signature_serialize_compact(g) == <<g.r, g.s, g.recid>>

\* Returns whether s was high; the output is low either way.
ecdsa_signature_normalize(g) ==
    Result(IsHigh(g.s), IF IsHigh(g.s) THEN [g EXCEPT !.s = Negated(@)] ELSE g)

-----------------------------------------------------------------------------
(* Verification and recovery. *)

\* Mutant: an x above the order is not tried.
XMatchesOnce(r, q) == q # Inf /\ q[1] = r

\* r is compared with the x of the recomputed point without reducing it: x is
\* r, or r plus the order when that is still below the field prime.
XMatches(r, q) == q # Inf /\ (q[1] = r \/ (r < P - Order /\ q[1] = r + Order))
ecdsa_sig_verify(r, s, q, m) ==
    /\ r # 0 /\ s # 0
    /\ XMatches(r, Mult(ScalarInverse[s] * ((m + r * Log[q]) % Order)))

ecdsa_verify(c, g, m, q) ==
    IF ~c.verify \/ (~IsHigh(g.s) /\ ~pubkey_load(q)) THEN Illegal(<<>>)
    ELSE Result(~IsHigh(g.s) /\ ecdsa_sig_verify(g.r, g.s, q, scalar_set_b32(m).v), <<>>)

\* The nonce point from r and the recovery id, then the key from it.
NoncePoint(g) ==
    IF g.recid < 2 THEN Lift(g.r, g.recid % 2 = 1)
    ELSE IF g.r >= P - Order THEN {} ELSE Lift(g.r + Order, g.recid % 2 = 1)
ecdsa_sig_recover(g, m) ==
    IF g.r = 0 \/ g.s = 0 THEN {}
    ELSE {q \in {Mult(ScalarInverse[g.r] * ((g.s * Log[x] - m) % Order)) : x \in NoncePoint(g)} :
             q # Inf}

ecdsa_recover(c, g, m) ==
    IF ~c.verify THEN Illegal(ZeroKey)
    ELSE LET s == ecdsa_sig_recover(g, scalar_set_b32(m).v)
         IN  Result(s # {}, Only(s, ZeroKey))

-----------------------------------------------------------------------------
(* The functions ext.h adds for the Go binding. *)

ext_ecdsa_recover(c, r, s, recid, m) ==
    LET g == ecdsa_recoverable_signature_parse_compact(r, s, recid)
        q == ecdsa_recover(c, g.out, m)
    IN  IF ~g.ret THEN g ELSE IF ~q.ret THEN q ELSE ec_pubkey_serialize(q.out, 65, FALSE)

ext_ecdsa_verify(c, r, s, m, b) ==
    LET g == ecdsa_signature_parse_compact(r, s)
        q == ec_pubkey_parse(b)
    IN  IF ~g.ret THEN g ELSE IF ~q.ret THEN q ELSE ecdsa_verify(c, g.out, m, q.out)

\* Mutant: always the uncompressed form.
ext_reencode_full(outlen, b) ==
    LET q == ec_pubkey_parse(b)
    IN  IF ~q.ret THEN q ELSE ec_pubkey_serialize(q.out, outlen, FALSE)

ext_reencode_pubkey(outlen, b) ==
    LET q == ec_pubkey_parse(b)
    IN  IF ~q.ret THEN q ELSE ec_pubkey_serialize(q.out, outlen, outlen = 33)

-----------------------------------------------------------------------------
(* A caller with one context, one secret key, one public key and one       *)
(* signature object.  The objects do not depend on each other, so they are *)
(* explored one after the other: keys while there is no signature; a       *)
(* signature is made, or received, before any public key is held, and the  *)
(* secret key is then wiped.                                               *)

NoContext == [live |-> FALSE, sign |-> FALSE, verify |-> FALSE]

\* Encodings a caller has at hand: two points in every form, and what a wrong
\* tag, an x one too high or not reduced, or a wrong y makes of them (module
\* Binding parses every string of the sizes there are).
Encodings ==
    {[size |-> z, tag |-> t, x |-> q[1] + dx, y |-> q[2] + dy] :
        z \in {33, 65}, t \in {2, 3, 4, 6, 7}, q \in {Mult(1), Mult(3)}, dx \in {0, 1, P}, dy \in {0, 1}}
EncodingsIn == {b \in Encodings : b.x \in B32 /\ b.y \in B32}
NonceStreams == {<<n, 9>> : n \in B32} \cup {<<0, Order, n>> : n \in {5}}

Init ==
    /\ ctx = NoContext /\ seckey = 0 /\ pubkey = ZeroKey /\ sig = ZeroSig
    /\ msg \in Msgs /\ signer = 0 /\ panicked = FALSE

Call == ~panicked /\ ctx.live
Panic(f) == panicked' = f.illegal

ContextCreate ==
    /\ ~panicked /\ ~ctx.live
    /\ \E sign, verify \in BOOLEAN :
         ctx' = [live |-> TRUE, sign |-> sign, verify |-> verify]
    /\ UNCHANGED <<seckey, pubkey, sig, msg, signer, panicked>>

ContextDestroy ==
    /\ Call /\ ctx' = NoContext
    /\ UNCHANGED <<seckey, pubkey, sig, msg, signer, panicked>>

KeyCall == Call /\ sig = ZeroSig /\ UNCHANGED <<ctx, sig, msg, signer>>

LoadKey ==
    /\ KeyCall /\ \E x \in Keys : seckey' = x
    /\ UNCHANGED <<pubkey, panicked>>

\* A call that writes the secret key's bytes, or the public key object.
OnSeckey(f) == KeyCall /\ seckey' = f.out /\ Panic(f) /\ UNCHANGED pubkey
OnPubkey(f) == KeyCall /\ pubkey' = f.out /\ Panic(f) /\ UNCHANGED seckey

PrivkeyTweakAdd == \E t \in Tweaks : OnSeckey(ec_privkey_tweak_add(seckey, t))
PrivkeyTweakMul == \E t \in Tweaks : OnSeckey(ec_privkey_tweak_mul(seckey, t))
PubkeyCreate == OnPubkey(ec_pubkey_create(ctx, seckey))
PubkeyParse == \E b \in EncodingsIn : OnPubkey(ec_pubkey_parse(b))
PubkeyTweakAdd == \E t \in Tweaks : OnPubkey(ec_pubkey_tweak_add(ctx, pubkey, t))
PubkeyTweakMul == \E t \in Tweaks : OnPubkey(ec_pubkey_tweak_mul(ctx, pubkey, t))
\* The caller hands in a copy of its key: the object the sum is written to is
\* zeroed before the keys are loaded.
PubkeyCombine == \E j \in 1 .. Order-1 : OnPubkey(ec_pubkey_combine(<<pubkey, Mult(j)>>))

SigningCall == Call /\ sig = ZeroSig /\ pubkey = ZeroKey

SignRecoverable ==
    /\ SigningCall
    /\ \E nonces \in NonceStreams :
         LET f == ecdsa_sign_recoverable(ctx, msg, seckey, nonces)
         IN  /\ sig' = f.out /\ Panic(f)
             /\ signer' = IF f.ret THEN seckey ELSE 0
             /\ seckey' = IF f.ret THEN 0 ELSE seckey
    /\ UNCHANGED <<ctx, pubkey, msg>>

ReceiveSignature ==
    /\ SigningCall /\ seckey = 0
    /\ \E r \in Rs, s \in Ss, recid \in 0 .. 4 :
         LET f == ecdsa_recoverable_signature_parse_compact(r, s, recid)
         IN  sig' = f.out /\ Panic(f)
    /\ UNCHANGED <<ctx, seckey, pubkey, msg, signer>>

Recover ==
    /\ Call /\ sig # ZeroSig
    /\ LET f == ecdsa_recover(ctx, sig, msg) IN pubkey' = f.out /\ Panic(f)
    /\ UNCHANGED <<ctx, seckey, sig, msg, signer>>

Next ==
    \/ ContextCreate \/ ContextDestroy \/ LoadKey
    \/ PrivkeyTweakAdd \/ PrivkeyTweakMul
    \/ PubkeyCreate \/ PubkeyParse \/ PubkeyTweakAdd \/ PubkeyTweakMul \/ PubkeyCombine
    \/ SignRecoverable \/ ReceiveSignature \/ Recover

Spec == Init /\ [][Next]_vars

-----------------------------------------------------------------------------
(* Properties. *)

Both == [live |-> TRUE, sign |-> TRUE, verify |-> TRUE]   \* context_create_sign_verify

Matching(k, q) == ec_seckey_verify(k) /\ q = Mult(k)
Commute(f, g) == f.ret = g.ret /\ (f.ret => Matching(f.out, g.out))

\* A key pair stays a pair: tweaking the secret and the public half by the same
\* bytes succeeds or fails for both, and gives the matching halves; and two
\* holders of key pairs derive the same shared secret, each from the other's
\* public key, by ECDH and by the binding's multiplication.
KeyPairsStayPairs ==
    Matching(seckey, pubkey) =>
        /\ \A t \in B32 :
            /\ Commute(ec_privkey_tweak_add(seckey, t), ec_pubkey_tweak_add(Both, pubkey, t))
            /\ Commute(ec_privkey_tweak_mul(seckey, t), ec_pubkey_tweak_mul(Both, pubkey, t))
        /\ \A j \in 1 .. Order-1 :
            /\ ecdh(Mult(j), seckey) = ecdh(pubkey, j)
            /\ ext_scalar_mul(Mult(j), seckey) = ext_scalar_mul(pubkey, j)

\* A signature made by a key, with any nonce, verifies under that key and
\* recovers it, also when the nonce point's x is above the order and when s had
\* to be negated; and its compact bytes parse back to it.
SignedVerifies ==
    signer # 0 =>
        /\ ecdsa_verify(Both, ecdsa_recoverable_signature_convert(sig), msg, Mult(signer)).ret
        /\ ecdsa_recover(Both, sig, msg) = Result(TRUE, Mult(signer))
        /\ LET b == ecdsa_recoverable_signature_serialize_compact(sig)
           IN  ecdsa_recoverable_signature_parse_compact(b[1], b[2], b[3]) = Result(TRUE, sig)

Recovered(g, m) ==
    {ecdsa_recover(Both, [g EXCEPT !.recid = i], m).out : i \in Recids} \ {ZeroKey}
Verifiers(g, m) == {q \in Points : ecdsa_verify(Both, g, m, q).ret}

\* For every signature, made here or not, the keys it verifies under once it is
\* normalised are exactly the keys the four recovery ids of that signature
\* recover: recovery neither invents a signer nor misses one, and of s and
\* its negative only the low one verifies.
RecoveryIsExact ==
    LET low == ecdsa_signature_normalize(sig).out
    IN  /\ Verifiers(low, msg) = Recovered(low, msg)
        /\ Recovered(sig, msg) = Recovered(low, msg)
        /\ sig.s # low.s => Verifiers(sig, msg) = {}

\* A public key object is zeroed or a point of the curve, whatever calls failed
\* on the way: nothing is ever computed with a pair of numbers that is no point.
\* Both encodings of a key, and the hybrid one, parse back to it, and
\* re-encoding keeps it.
EncodingsNameKeys ==
    /\ pubkey = ZeroKey \/ pubkey \in Points
    /\ pubkey # ZeroKey =>
        \A outlen \in {33, 65} :
            LET b == ec_pubkey_serialize(pubkey, outlen, outlen = 33)
            IN  /\ b.ret /\ ec_pubkey_parse(b.out) = Result(TRUE, pubkey)
                /\ outlen = 65 => ec_pubkey_parse([b.out EXCEPT !.tag = 6 + (pubkey[2] % 2)]).out = pubkey
                /\ \A l \in {33, 65} :
                     LET e == ext_reencode_pubkey(l, b.out)
                     IN  e.ret /\ ec_pubkey_parse(e.out).out = pubkey
=============================================================================
